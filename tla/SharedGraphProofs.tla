------------------------- MODULE SharedGraphProofs --------------------------
(***************************************************************************)
(* The shares of the consumers are a partition of the nodes, whatever the   *)
(* number of consumers and the size of the graph, if there are at least     *)
(* NConsumers * (NConsumers - 1) nodes at first.  A consumer that never met  *)
(* a segment that was being filled holds one product, and has computed the   *)
(* true distances and shortest paths in it.                                  *)
(***************************************************************************)
EXTENDS SharedGraph, FiniteSetTheorems, SequenceTheorems, NaturalsInduction, TLAPS

\* What Ceil returns: the least q with nodes <= q * NConsumers.
LEMMA CeilBounds ==
  ASSUME NEW nodes \in Nat, NEW k \in Nat \ {0}
  PROVE  /\ Ceil(nodes, k) \in Nat
         /\ nodes <= k * Ceil(nodes, k) /\ k * Ceil(nodes, k) <= nodes + k - 1
<1> DEFINE a == nodes + k - 1
           q == a \div k
<1>1. a \in Nat
  OBVIOUS
<1>2. q \in Nat /\ a = k * q + (a % k) /\ a % k \in 0..(k - 1)
  BY <1>1
<1>3. nodes <= k * q /\ k * q <= nodes + k - 1
  <2> HIDE DEF q
  <2> QED BY <1>1, <1>2
<1> QED BY <1>2, <1>3 DEF Ceil

\* Multiplication keeps the order.
LEMMA TimesMonotone ==
  ASSUME NEW a \in Int, NEW b \in Int, NEW q \in Nat, a <= b
  PROVE  a * q <= b * q
<1>1. PICK d \in Nat : b = a + d
  BY b - a \in Nat, b = a + (b - a)
<1>2. b * q = a * q + d * q
  BY <1>1
<1>3. d * q >= 0
  BY <1>1
<1> QED BY <1>2, <1>3

\* A full share ends where the next begins, and the last one, which is not negative,
\* ends with the last node.
LEMMA SharesMeet ==
  ASSUME NEW nodes \in Nat, NConsumers * (NConsumers - 1) <= nodes
  PROVE  LET q == Ceil(nodes, NConsumers) IN
         /\ q \in Nat
         /\ (NConsumers - 1) * q <= nodes /\ nodes <= NConsumers * q
         /\ \A d \in 0..(NConsumers - 1) :
              Share(d, nodes) =
                (d * q)..(IF d < NConsumers - 1 THEN (d + 1) * q - 1 ELSE nodes - 1)
<1> DEFINE K == NConsumers
           q == Ceil(nodes, K)
<1>1. K \in Nat \ {0}
  BY GraphAssumption
<1>2. q \in Nat /\ nodes <= K * q /\ K * q <= nodes + K - 1
  BY <1>1, CeilBounds
<1>3. (K - 1) * q = K * q - q
  BY <1>1, <1>2
<1>4. (K - 1) * q <= nodes
  <2>1. CASE q >= K - 1
    BY <2>1, <1>1, <1>2, <1>3
  <2>2. CASE q < K - 1
    <3>1. q * K <= (K - 2) * K
      BY <2>2, <1>1, <1>2, TimesMonotone
    <3>2. q * K = K * q /\ (K - 2) * K = K * (K - 1) - K
      BY <1>1, <1>2
    <3>3. K * (K - 1) \in Int
      BY <1>1
    <3> HIDE DEF K, q
    <3> QED BY <3>1, <3>2, <3>3, <1>1, <1>2 DEF K
  <2> QED BY <2>1, <2>2, <1>1, <1>2
<1>5. (K - 1) * q + LastShare(nodes) = nodes
  <2>1. CASE nodes % K = 0
    <3> DEFINE h == nodes \div K
    <3>1. h \in Nat /\ nodes = K * h
      BY <2>1, <1>1
    <3>2. q = h
      <4> HIDE DEF h, q
      <4>1. CASE q < h
        <5>1. (q + 1) * K <= h * K
          BY <4>1, <3>1, <1>1, <1>2, TimesMonotone
        <5>2. (q + 1) * K = K * q + K /\ h * K = K * h
          BY <1>1, <1>2, <3>1
        <5> QED BY <5>1, <5>2, <3>1, <1>1, <1>2
      <4>2. CASE q > h
        <5>1. (h + 1) * K <= q * K
          BY <4>2, <3>1, <1>1, <1>2, TimesMonotone
        <5>2. (h + 1) * K = K * h + K /\ q * K = K * q
          BY <1>1, <1>2, <3>1
        <5> QED BY <5>1, <5>2, <3>1, <1>1, <1>2
      <4> QED BY <4>1, <4>2, <3>1, <1>2
    <3>3. LastShare(nodes) = q
      BY <2>1 DEF LastShare
    <3> QED BY <3>1, <3>2, <3>3, <1>2, <1>3
  <2>2. CASE nodes % K # 0
    <3>1. LastShare(nodes) = nodes - q * (K - 1)
      BY <2>2 DEF LastShare
    <3>2. q * (K - 1) = (K - 1) * q
      BY <1>1, <1>2
    <3> HIDE DEF q
    <3> QED BY <3>1, <3>2, <1>1, <1>2
  <2> QED BY <2>1, <2>2
<1>6. ASSUME NEW d \in 0..(K - 1)
      PROVE  Share(d, nodes) =
               (d * q)..(IF d < K - 1 THEN (d + 1) * q - 1 ELSE nodes - 1)
  <2>1. CASE d < K - 1
    BY <2>1 DEF Share, Lbs, Ubs
  <2>2. CASE ~(d < K - 1)
    <3>1. d = K - 1
      BY <2>2, <1>1
    <3>2. Ubs(d, nodes) = d * q + LastShare(nodes) - 1
      BY <2>2 DEF Ubs, Lbs
    <3>3. d * q + LastShare(nodes) = nodes
      BY <3>1, <1>5
    <3>4. d * q \in Int /\ LastShare(nodes) \in Int
      <4>1. d * q \in Int
        BY <1>1, <1>2
      <4>2. LastShare(nodes) \in Int
        <5>1. q * (K - 1) \in Int
          BY <1>1, <1>2
        <5> QED BY <5>1, <1>2 DEF LastShare
      <4> QED BY <4>1, <4>2
    <3>5. Ubs(d, nodes) = nodes - 1
      <4> DEFINE x == d * q
                 l == LastShare(nodes)
      <4>1. Ubs(d, nodes) = x + l - 1 /\ x + l = nodes /\ x \in Int /\ l \in Int
        BY <3>2, <3>3, <3>4
      <4> HIDE DEF x, l
      <4> QED BY <4>1
    <3> QED BY <3>5, <2>2 DEF Share, Lbs
  <2> QED BY <2>1, <2>2
<1> QED BY <1>2, <1>4, <1>6

\* Every node is in exactly one share, and no share has anything but nodes.
LEMMA SharesAreAPartition ==
  ASSUME NEW nodes \in Nat, NConsumers * (NConsumers - 1) <= nodes,
         NEW i \in 0..(nodes - 1)
  PROVE  \E c \in 0..(NConsumers - 1) :
           /\ i \in Share(c, nodes)
           /\ \A d \in 0..(NConsumers - 1) :
                /\ d # c => i \notin Share(d, nodes)
                /\ Share(d, nodes) \subseteq 0..(nodes - 1)
<1> DEFINE K == NConsumers
           q == Ceil(nodes, K)
           c == i \div q
           High(d) == IF d < K - 1 THEN (d + 1) * q - 1 ELSE nodes - 1
<1>1. K \in Nat \ {0}
  BY GraphAssumption
<1>2. /\ q \in Nat
      /\ (K - 1) * q <= nodes /\ nodes <= K * q
      /\ \A d \in 0..(K - 1) : Share(d, nodes) = (d * q)..High(d)
  BY SharesMeet
<1> HIDE DEF q, K
<1>3. q > 0
  <2>1. CASE q = 0
    BY <2>1, <1>1, <1>2
  <2> QED BY <2>1, <1>2
<1>4. c \in Nat /\ c * q <= i /\ i < (c + 1) * q
  <2>1. i \in Nat /\ q \in Nat \ {0}
    BY <1>2, <1>3
  <2>2. c \in Nat /\ i = q * c + (i % q) /\ i % q \in 0..(q - 1)
    BY <2>1
  <2> HIDE DEF c
  <2>3. q * c = c * q /\ (c + 1) * q = c * q + q
    BY <2>1, <2>2
  <2> QED BY <2>1, <2>2, <2>3
<1> HIDE DEF c
<1>5. c \in 0..(K - 1)
  <2>1. CASE c >= K
    <3>1. K * q <= c * q
      BY <2>1, <1>1, <1>2, <1>4, TimesMonotone
    <3>2. K * q \in Int /\ c * q \in Int
      BY <1>1, <1>2, <1>4
    <3> QED BY <3>1, <3>2, <1>2, <1>4
  <2>2. CASE c < K
    BY <2>2, <1>1, <1>4
  <2> QED BY <2>1, <2>2, <1>1, <1>4
<1>6. i \in Share(c, nodes)
  BY <1>1, <1>2, <1>4, <1>5
<1>7. ASSUME NEW d \in 0..(K - 1)
      PROVE  /\ d # c => i \notin Share(d, nodes)
             /\ Share(d, nodes) \subseteq 0..(nodes - 1)
  <2>1. d * q \in Nat /\ (d + 1) * q = d * q + q /\ d \in Int
    BY <1>1, <1>2
  <2>2. High(d) <= nodes - 1
    <3>1. CASE d < K - 1
      <4>1. (d + 1) * q <= (K - 1) * q
        BY <3>1, <1>1, <1>2, TimesMonotone
      <4>2. (d + 1) * q \in Int /\ (K - 1) * q \in Int
        BY <1>1, <1>2
      <4>3. High(d) = (d + 1) * q - 1
        BY <3>1
      <4> QED BY <4>1, <4>2, <4>3, <1>2
    <3>2. CASE ~(d < K - 1)
      BY <3>2
    <3> QED BY <3>1, <3>2
  <2>3. Share(d, nodes) \subseteq 0..(nodes - 1)
    BY <1>2, <2>1, <2>2
  <2>4. ASSUME d # c, i \in Share(d, nodes)  PROVE FALSE
    <3>1. d * q <= i /\ i <= High(d)
      BY <2>4, <1>2
    <3>2. i < (d + 1) * q
      <4>1. CASE d < K - 1
        BY <4>1, <3>1, <2>1, <1>2
      <4>2. CASE d = K - 1
        BY <4>2, <1>1, <1>2, <2>1
      <4> QED BY <4>1, <4>2, <1>1
    <3>3. CASE d < c
      <4>1. (d + 1) * q <= c * q
        BY <3>3, <1>2, <1>4, TimesMonotone
      <4> QED BY <4>1, <3>2, <1>2, <1>4, <2>1
    <3>4. CASE d > c
      <4>1. (c + 1) * q <= d * q
        BY <3>4, <1>2, <1>4, TimesMonotone
      <4> QED BY <4>1, <3>1, <1>2, <1>4, <2>1
    <3> QED BY <3>3, <3>4, <2>4, <2>1, <1>4
  <2> QED BY <2>3, <2>4
<1> QED BY <1>5, <1>6, <1>7 DEF K

-----------------------------------------------------------------------------

\* The graph of the producer never loses a node.
NodesGrow == pN \in Nat /\ InitialNodes <= pN

\* Every step keeps the number of nodes at or above the first one.
LEMMA NodesGrowKept == NodesGrow /\ [Next]_vars => NodesGrow'
<1> SUFFICES ASSUME NodesGrow, [Next]_vars  PROVE NodesGrow'
  OBVIOUS
<1> USE GraphAssumption DEF NodesGrow
<1>1. CASE ProduceNode
  BY <1>1 DEF ProduceNode
<1>2. CASE RemoveOld \/ CreateNew \/ Fill \/ ProducerExit
  BY <1>2 DEF RemoveOld, CreateNew, Fill, ProducerExit
<1>3. ASSUME NEW c \in Consumers, Consumer(c)  PROVE NodesGrow'
  BY <1>3 DEF Consumer, GetSize, Crash, Attach, ReadFirstEnd, ReadSecondEnd,
              ReadEdgesEnd, Compute, Exit, producer
<1>4. CASE UNCHANGED vars
  BY <1>4 DEF vars, producer
<1> QED BY <1>1, <1>2, <1>3, <1>4 DEF Next, Producer

\* The property of the runs: at any time, the consumers that find the graph as it is
\* share it out without gap or overlap.
THEOREM SharesCorrect == Spec => []SharesPartition
<1>1. Init => NodesGrow
  BY GraphAssumption DEF Init, NodesGrow
<1>2. NodesGrow => SharesPartition
  <2> SUFFICES ASSUME NodesGrow, NEW i \in 0..(pN - 1)
               PROVE  \E c \in 0..(NConsumers - 1) :
                        /\ i \in Share(c, pN)
                        /\ \A d \in 0..(NConsumers - 1) :
                             /\ d # c => i \notin Share(d, pN)
                             /\ Share(d, pN) \subseteq 0..(pN - 1)
    BY DEF SharesPartition
  <2>1. NConsumers * (NConsumers - 1) <= pN
    <3>1. NConsumers * (NConsumers - 1) \in Int
      BY GraphAssumption
    <3> QED BY <3>1, GraphAssumption DEF NodesGrow
  <2> QED BY <2>1, SharesAreAPartition DEF NodesGrow
<1> QED BY <1>1, <1>2, NodesGrowKept, PTL DEF Spec

-----------------------------------------------------------------------------
(* One product: the invariant *)

\* The edges that the words of a segment hold, and whether the edges of a graph are
\* those of another and then more.
EdgesIn(w) == [i \in 1..w[3] |-> <<w[2 * i + 2], w[2 * i + 3]>>]
Extends(es, old) == Len(old) <= Len(es) /\ \A i \in 1..Len(old) : es[i] = old[i]
Pairs(k) == (0..(k - 1)) \X (0..(k - 1))

\* The words are the image of a graph, which has grown out of another one.
IsProduct(w) == EdgesIn(w) \in Seq(Pairs(w[2])) /\ w = Image(w[2], EdgesIn(w))
Outgrows(w, old) == old[2] < w[2] /\ Extends(EdgesIn(w), EdgesIn(old))

\* The last segment that is complete.
Newest == IF pPc = "fill" THEN Len(segment) - 1 ELSE Len(segment)

\* The variables of the producer; the words of a segment that is being filled
\* count no more edges than it has room for.
ProducerTypes ==
  /\ segment \in Seq(Seq(Nat))
  /\ key = IF pPc \in {"create", "exited"} THEN NoSegment ELSE Len(segment)
  /\ flag \in {0, 1} /\ pPc \in ProducerLabels
  /\ capacity \in 0..ProducerCapacity
  /\ pPc \in {"sleep", "produce", "create", "fill"} => capacity > 0
  /\ pN \in Nat /\ pEdges \in Seq(Pairs(pN))
  /\ fresh \in 0..MaxNewNodes /\ written \in Nat
  /\ pPc # "fill" => written = 0
  /\ \A s \in 1..Len(segment) :
       Len(segment[s]) >= 3 /\ Len(segment[s]) >= 3 + 2 * segment[s][3]

\* Every complete segment holds a product, each of which has outgrown the ones
\* before; what the producer has outgrows the last.
Published ==
  /\ Newest >= 1
  /\ \A s \in 1..Newest : IsProduct(segment[s])
  /\ \A s, t \in 1..Newest : s < t => Outgrows(segment[t], segment[s])
  /\ NodesWord(Newest) <= pN /\ Extends(pEdges, EdgesIn(segment[Newest]))
  /\ pPc \in {"produce", "create", "fill"} => NodesWord(Newest) < pN

\* The segment being filled has room for the whole product, of which the first words
\* are there.
Filling ==
  pPc = "fill" =>
    /\ Len(segment[key]) = 3 + 2 * Len(pEdges) /\ written < Len(segment[key])
    /\ \A k \in 1..Len(segment[key]) :
         segment[key][k] = IF k <= written THEN Image(pN, pEdges)[k] ELSE 0

ProducerInv == ProducerTypes /\ Published /\ Filling

Busy(c) == cPc[c] \in {"edges", "second", "update"}

ConsumerTypes ==
  /\ cPc \in [Consumers -> ConsumerLabels] /\ rounds \in [Consumers -> 0..ConsumerCapacity]
  /\ at \in [Consumers -> 0..Len(segment)]
  /\ leaked \in [Consumers -> SUBSET (1..Len(segment))]
  /\ size \in [Consumers -> Nat] /\ u \in [Consumers -> Nat]
  /\ n \in [Consumers -> Nat] /\ prevN \in [Consumers -> Nat] /\ m \in [Consumers -> Nat]
  /\ g \in [Consumers -> Seq(Nat \X Nat)]
  /\ torn \in [Consumers -> BOOLEAN] /\ seen \in [Consumers -> Nat]
  /\ \A c \in Consumers : /\ cPc[c] = "attach" \/ Busy(c) => rounds[c] > 0
                          /\ Busy(c) => at[c] # NoSegment
                          /\ cPc[c] = "second" => m[c] < EdgesWord(at[c])

\* A consumer that reads one complete segment has got a part of its edges.
ReadsPart(c) ==
  /\ seen[c] = at[c] /\ n[c] = NodesWord(at[c])
  /\ Len(g[c]) = m[c] /\ Extends(EdgesIn(segment[at[c]]), g[c])
  /\ cPc[c] = "second" => u[c] = EndWord(at[c], m[c], 1)
  /\ cPc[c] = "update" => m[c] = EdgesWord(at[c])

\* Between two rounds it has all of it.
HoldsAll(c) ==
  IF seen[c] = NoSegment THEN n[c] = 0 /\ m[c] = 0 /\ g[c] = <<>>
  ELSE /\ n[c] = NodesWord(seen[c]) /\ m[c] = EdgesWord(seen[c])
       /\ g[c] = EdgesIn(segment[seen[c]])

Undisturbed(c) ==
  ~torn[c] => /\ seen[c] \in 0..Newest
              /\ IF Busy(c) THEN ReadsPart(c) ELSE HoldsAll(c)

GraphInv ==
  /\ ProducerInv /\ ConsumerTypes
  /\ \A c \in Consumers : Undisturbed(c)

-----------------------------------------------------------------------------
(* The words of a product *)

\* A set of nodes has a k-th member: the numbers of members at or below one are
\* different for different members, so each number up to the size is taken.  So each
\* member is the k-th for exactly one k.
LEMMA Ranked ==
  ASSUME NEW S \in SUBSET Nat, IsFiniteSet(S)
  PROVE  /\ \A k \in 1..Cardinality(S) : InOrder(S)[k] \in S
         /\ \A i \in S : \E k \in 1..Cardinality(S) : InOrder(S)[k] = i
         /\ \A j, k \in 1..Cardinality(S) : InOrder(S)[j] = InOrder(S)[k] => j = k
<1> DEFINE Below(i) == {j \in S : j <= i}
           R == [i \in S |-> Cardinality(Below(i))]
           K == 1..Cardinality(S)
<1>1. ASSUME NEW i \in S
      PROVE  IsFiniteSet(Below(i)) /\ Cardinality(Below(i)) \in K
  <2>1. Below(i) \in SUBSET S /\ i \in Below(i) /\ Below(i) # {}
    OBVIOUS
  <2> HIDE DEF Below
  <2>2. IsFiniteSet(Below(i)) /\ Cardinality(Below(i)) <= Cardinality(S)
    BY <2>1, FS_Subset
  <2>3. Cardinality(Below(i)) \in Nat /\ Cardinality(Below(i)) # 0 /\ Cardinality(S) \in Nat
    BY <2>1, <2>2, FS_CardinalityType, FS_EmptySet
  <2> QED
    BY <2>2, <2>3
<1>2. ASSUME NEW i \in S, NEW j \in S, i < j
      PROVE  Cardinality(Below(i)) # Cardinality(Below(j))
  <2>1. i \in Nat /\ j \in Nat
    OBVIOUS
  <2>2. \A x \in Below(i) : x \in Below(j)
    BY <1>2, <2>1
  <2>3. j \in Below(j) /\ j \notin Below(i)
    BY <1>2, <2>1
  <2> HIDE DEF Below
  <2> QED
    BY <1>1, <2>2, <2>3, FS_Subset
<1> HIDE DEF Below
<1>3. R \in [S -> K]
  BY <1>1
<1>4. \A i, j \in S : i # j => R[i] # R[j]
  BY <1>2
<1>5. R \in Injection(S, K)
  BY <1>3, <1>4 DEF Injection, IsInjective
<1>6. IsFiniteSet(K) /\ Cardinality(K) = Cardinality(S)
  BY FS_CardinalityType, FS_Interval
<1>7. R \in Surjection(S, K)
  BY <1>5, <1>6, FS_Injection
<1>8. \A k \in K : \E i \in S : Cardinality(Below(i)) = k
  BY <1>7 DEF Surjection
<1>9. \A k \in K : InOrder(S)[k] \in S /\ R[InOrder(S)[k]] = k
  BY <1>8 DEF InOrder, Below
<1>10. ASSUME NEW i \in S PROVE \E k \in K : InOrder(S)[k] = i
  <2>1. R[i] \in K
    BY <1>3
  <2>2. InOrder(S)[R[i]] = i
    BY <1>4, <1>9, <2>1
  <2> QED
    BY <2>1, <2>2
<1> HIDE DEF R
<1> QED
  BY <1>9, <1>10

\* A function on 1..k is a sequence of length k.
LEMMA FunctionIsSeq ==
  ASSUME NEW S, NEW k \in Nat, NEW f \in [1..k -> S]
  PROVE  f \in Seq(S) /\ Len(f) = k
<1>1. f \in Seq(S)
  BY SeqDef
<1> QED
  BY <1>1, LenProperties

\* The image of a graph, word by word.
LEMMA ImageWords ==
  ASSUME NEW k \in Nat, NEW E \in Seq(Nat \X Nat)
  PROVE  /\ Image(k, E) \in Seq(Nat) /\ Len(Image(k, E)) = 3 + 2 * Len(E)
         /\ Image(k, E)[1] = 3 + 2 * Len(E) /\ Image(k, E)[2] = k
         /\ Image(k, E)[3] = Len(E)
         /\ \A i \in 1..Len(E) : /\ Image(k, E)[2 * i + 2] = E[i][1]
                                 /\ Image(k, E)[2 * i + 3] = E[i][2]
<1> DEFINE L == Len(E)
           top == <<3 + 2 * L, k, L>>
           body == [j \in 1..(2 * L) |-> E[(j + 1) \div 2][IF j % 2 = 1 THEN 1 ELSE 2]]
<1>1. L \in Nat /\ \A i \in 1..L : E[i] \in Nat \X Nat
  OBVIOUS
<1>2. top \in Seq(Nat) /\ Len(top) = 3 /\ top[1] = 3 + 2 * L /\ top[2] = k /\ top[3] = L
  BY <1>1
<1>3. ASSUME NEW j \in 1..(2 * L) PROVE (j + 1) \div 2 \in 1..L /\ j % 2 \in {0, 1}
  BY <1>1
<1>4. body \in Seq(Nat) /\ Len(body) = 2 * L
  <2>1. \A j \in 1..(2 * L) : body[j] \in Nat
    BY <1>1, <1>3
  <2>2. 2 * L \in Nat
    BY <1>1
  <2> HIDE DEF L
  <2>3. body \in [1..(2 * L) -> Nat]
    BY <2>1
  <2> HIDE DEF body
  <2> QED
    BY <2>2, <2>3, FunctionIsSeq
<1>5. ASSUME NEW i \in 1..L
      PROVE  body[2 * i - 1] = E[i][1] /\ body[2 * i] = E[i][2]
  <2>1. 2 * i - 1 \in 1..(2 * L) /\ 2 * i \in 1..(2 * L)
    BY <1>1
  <2>2. (2 * i - 1 + 1) \div 2 = i /\ (2 * i - 1) % 2 = 1
    BY <1>1
  <2>3. (2 * i + 1) \div 2 = i /\ (2 * i) % 2 = 0
    BY <1>1
  <2> HIDE DEF L
  <2> QED
    BY <2>1, <2>2, <2>3
<1>6. Image(k, E) = top \o body
  BY DEF Image
<1> HIDE DEF top, body
<1>7. /\ Image(k, E) \in Seq(Nat) /\ Len(Image(k, E)) = 3 + 2 * L
      /\ \A j \in 1..(3 + 2 * L) :
           Image(k, E)[j] = IF j <= 3 THEN top[j] ELSE body[j - 3]
  <2>1. /\ top \o body \in Seq(Nat) /\ Len(top \o body) = Len(top) + Len(body)
        /\ \A j \in 1..(Len(top) + Len(body)) :
             (top \o body)[j] = IF j <= Len(top) THEN top[j] ELSE body[j - Len(top)]
    BY <1>2, <1>4, ConcatProperties
  <2>2. Len(top) = 3 /\ Len(body) = 2 * L
    BY <1>2, <1>4
  <2> HIDE DEF L
  <2> QED
    BY <1>6, <2>1, <2>2
<1>8. ASSUME NEW i \in 1..L
      PROVE  Image(k, E)[2 * i + 2] = E[i][1] /\ Image(k, E)[2 * i + 3] = E[i][2]
  <2>1. /\ 2 * i + 2 \in 1..(3 + 2 * L) /\ ~(2 * i + 2 <= 3) /\ 2 * i + 2 - 3 = 2 * i - 1
        /\ 2 * i + 3 \in 1..(3 + 2 * L) /\ ~(2 * i + 3 <= 3) /\ 2 * i + 3 - 3 = 2 * i
    BY <1>1
  <2> HIDE DEF L
  <2>2. /\ Image(k, E)[2 * i + 2] = body[2 * i + 2 - 3]
        /\ Image(k, E)[2 * i + 3] = body[2 * i + 3 - 3]
    BY SMTT(30), <1>7, <2>1
  <2>3. /\ body[2 * i + 2 - 3] = body[2 * i - 1]
        /\ body[2 * i + 3 - 3] = body[2 * i]
    BY <2>1
  <2> QED
    BY <1>5, <2>2, <2>3
<1> QED
  BY <1>1, <1>2, <1>7, <1>8

\* The words that are the image of a graph tell which one.
LEMMA ImageTells ==
  ASSUME NEW k \in Nat, NEW E \in Seq(Nat \X Nat), NEW w, w = Image(k, E)
  PROVE  w[2] = k /\ w[3] = Len(E) /\ EdgesIn(w) = E
<1>1. w[2] = k /\ w[3] = Len(E)
  BY ImageWords
<1>2. ASSUME NEW i \in 1..Len(E) PROVE EdgesIn(w)[i] = E[i]
  <2>1. EdgesIn(w)[i] = <<E[i][1], E[i][2]>>
    BY <1>1, ImageWords DEF EdgesIn
  <2>2. E[i] \in Nat \X Nat
    OBVIOUS
  <2> QED
    BY <2>1, <2>2
<1>3. EdgesIn(w) = [i \in 1..Len(E) |-> EdgesIn(w)[i]]
  BY <1>1 DEF EdgesIn
<1>4. E = [i \in 1..Len(E) |-> E[i]]
  OBVIOUS
<1> QED
  BY <1>1, <1>2, <1>3, <1>4

-----------------------------------------------------------------------------
(* The producer *)

\* To extend the edges of a graph is transitive.
LEMMA ExtendsAll ==
  ASSUME NEW P, NEW a \in Seq(P), NEW b \in Seq(P), NEW c \in Seq(P),
         Extends(c, b), Extends(b, a)
  PROVE  Extends(c, a)
<1>1. Len(a) \in Nat /\ Len(b) \in Nat /\ Len(c) \in Nat
  OBVIOUS
<1> QED
  BY <1>1 DEF Extends

\* The words of a complete segment.
LEMMA ProductWords ==
  ASSUME ProducerInv, NEW s \in 1..Newest
  PROVE  /\ s \in 1..Len(segment) /\ segment[s] \in Seq(Nat)
         /\ segment[s][2] \in Nat /\ segment[s][3] \in Nat
         /\ EdgesIn(segment[s]) \in Seq(Pairs(segment[s][2]))
         /\ EdgesIn(segment[s]) \in Seq(Nat \X Nat)
         /\ Len(EdgesIn(segment[s])) = segment[s][3]
<1>1. Len(segment) \in Nat
  BY DEF ProducerInv, ProducerTypes
<1>2. s \in 1..Len(segment)
  BY <1>1 DEF Newest
<1>3. segment[s] \in Seq(Nat) /\ Len(segment[s]) >= 3
  BY <1>2 DEF ProducerInv, ProducerTypes
<1>4. segment[s][2] \in Nat /\ segment[s][3] \in Nat
  BY <1>3
<1>5. EdgesIn(segment[s]) \in Seq(Pairs(segment[s][2]))
  BY DEF ProducerInv, Published, IsProduct
<1>6. Pairs(segment[s][2]) \subseteq Nat \X Nat
  BY <1>4 DEF Pairs
<1>7. EdgesIn(segment[s]) \in Seq(Nat \X Nat)
  BY <1>5, <1>6, SeqMonotonic
<1>8. Len(EdgesIn(segment[s])) = segment[s][3]
  <2>1. DOMAIN EdgesIn(segment[s]) = 1..segment[s][3]
    BY DEF EdgesIn
  <2>2. DOMAIN EdgesIn(segment[s]) = 1..Len(EdgesIn(segment[s]))
        /\ Len(EdgesIn(segment[s])) \in Nat
    BY <1>7, LenProperties
  <2> QED
    BY <1>4, <2>1, <2>2
<1> QED
  BY <1>2, <1>3, <1>4, <1>5, <1>7, <1>8

\* One more node, with edges to older ones.
LEMMA ProduceNodeKeeps == ASSUME ProducerInv, ProduceNode PROVE ProducerInv'
<1>1. PICK degree \in 1..MaxDegree :
        \E ends \in [1..degree -> {v \in 0..(pN - 1) : Degree(v) > 0}] :
          pEdges' = pEdges \o [k \in 1..degree |-> <<ends[k], pN>>]
  BY DEF ProduceNode
<1>a. PICK ends \in [1..degree -> {v \in 0..(pN - 1) : Degree(v) > 0}] :
        pEdges' = pEdges \o [k \in 1..degree |-> <<ends[k], pN>>]
  BY <1>1
<1> DEFINE new == [k \in 1..degree |-> <<ends[k], pN>>]
<1>2. /\ pN' = pN + 1 /\ fresh' = fresh + 1 /\ fresh < MaxNewNodes /\ pPc' = "produce"
      /\ pPc \in {"sleep", "produce"}
      /\ UNCHANGED <<segment, key, flag, capacity, written>>
  BY DEF ProduceNode, shm
<1>3. pN \in Nat /\ pEdges \in Seq(Pairs(pN))
  BY DEF ProducerInv, ProducerTypes
<1>4. new \in Seq(Pairs(pN + 1))
  <2>1. \A k \in 1..degree : ends[k] \in 0..(pN - 1)
    OBVIOUS
  <2>2. degree \in Nat
    BY GraphAssumption
  <2>3. new \in [1..degree -> Pairs(pN + 1)]
    BY <1>3, <2>1 DEF Pairs
  <2> HIDE DEF new
  <2> QED
    BY <2>2, <2>3, FunctionIsSeq
<1>5. Pairs(pN) \subseteq Pairs(pN + 1)
  BY <1>3 DEF Pairs
<1>6. pEdges \in Seq(Pairs(pN + 1))
  BY <1>3, <1>5, SeqMonotonic
<1> HIDE DEF new
<1>7. pEdges' \in Seq(Pairs(pN')) /\ Extends(pEdges', pEdges)
  <2>1. /\ pEdges' \in Seq(Pairs(pN + 1)) /\ Len(pEdges') = Len(pEdges) + Len(new)
        /\ \A i \in 1..(Len(pEdges) + Len(new)) :
             pEdges'[i] = IF i <= Len(pEdges) THEN pEdges[i] ELSE new[i - Len(pEdges)]
    BY <1>a, <1>4, <1>6, ConcatProperties DEF new
  <2>2. Len(pEdges) \in Nat /\ Len(new) \in Nat
    BY <1>3, <1>4
  <2> QED
    BY <1>2, <2>1, <2>2 DEF Extends
<1>8. ProducerTypes'
  BY <1>2, <1>3, <1>7, GraphAssumption DEF ProducerInv, ProducerTypes, ProducerLabels
<1>9. Newest' = Newest /\ Newest \in 1..Newest
  BY <1>2 DEF Newest, ProducerInv, ProducerTypes, Published
<1>10. Extends(pEdges', EdgesIn(segment[Newest]))
  <2>1. Extends(pEdges, EdgesIn(segment[Newest])) /\ Len(EdgesIn(segment[Newest])) \in Nat
    BY <1>9, ProductWords DEF ProducerInv, Published
  <2>2. Len(pEdges) \in Nat /\ Len(pEdges') \in Nat
    BY <1>3, <1>7
  <2> QED
    BY <1>7, <2>1, <2>2 DEF Extends
<1>11. NodesWord(Newest) \in Nat /\ NodesWord(Newest) < pN'
  <2>1. Published /\ NodesWord(Newest) \in Nat
    BY <1>9, ProductWords DEF ProducerInv, NodesWord
  <2>2. NodesWord(Newest) <= pN
    BY <2>1 DEF Published
  <2> QED
    BY <1>2, <1>3, <2>1, <2>2
<1>12. Published'
  <2>1. Published /\ NodesWord(Newest)' = NodesWord(Newest) /\ pN' \in Nat
    BY <1>2, <1>3, <1>9 DEF ProducerInv, NodesWord
  <2>2. (NodesWord(Newest) <= pN)' /\ (NodesWord(Newest) < pN)'
    BY <1>11, <2>1
  <2>3. /\ (\A s \in 1..Newest : IsProduct(segment[s]))'
        /\ (\A s, t \in 1..Newest : s < t => Outgrows(segment[t], segment[s]))'
    BY <1>2, <1>9, <2>1 DEF Published
  <2>4. (Extends(pEdges, EdgesIn(segment[Newest])))' /\ (Newest >= 1)'
    BY <1>2, <1>9, <1>10, <2>1 DEF Published
  <2> QED
    BY <2>2, <2>3, <2>4 DEF Published
<1> QED
  BY <1>2, <1>8, <1>12 DEF ProducerInv, Filling

\* The steps that write no segment.
LEMMA KeyKeeps == ASSUME ProducerInv, RemoveOld \/ ProducerExit PROVE ProducerInv'
<1>1. /\ UNCHANGED <<segment, flag, capacity, pN, pEdges, fresh, written>>
      /\ key' = NoSegment
      /\ \/ pPc = "produce" /\ pPc' = "create"
         \/ pPc = "done" /\ pPc' = "exited"
  BY DEF RemoveOld, ProducerExit
<1>2. Newest' = Newest
  BY <1>1 DEF Newest
<1>3. ProducerTypes'
  BY <1>1 DEF ProducerInv, ProducerTypes, ProducerLabels
<1>4. Published'
  BY <1>1, <1>2 DEF ProducerInv, Published, NodesWord
<1> QED
  BY <1>1, <1>3, <1>4 DEF ProducerInv, Filling

\* A segment of zeros comes after the others.
LEMMA CreateNewKeeps == ASSUME ProducerInv, CreateNew PROVE ProducerInv'
<1> DEFINE K == 3 + 2 * Len(pEdges)
           L == Len(segment)
<1>1. /\ pPc = "create" /\ pPc' = "fill" /\ segment' = Append(segment, Zeros(K))
      /\ key' = L + 1 /\ UNCHANGED <<flag, capacity, pN, pEdges, fresh, written>>
  BY DEF CreateNew
<1>2. pEdges \in Seq(Pairs(pN)) /\ segment \in Seq(Seq(Nat)) /\ written = 0
  BY <1>1 DEF ProducerInv, ProducerTypes
<1>3. K \in Nat /\ K >= 3 /\ L \in Nat
  BY <1>2
<1>4. Zeros(K) \in Seq(Nat) /\ Len(Zeros(K)) = K /\ \A k \in 1..K : Zeros(K)[k] = 0
  <2> HIDE DEF K
  <2>1. Zeros(K) \in [1..K -> Nat] /\ \A k \in 1..K : Zeros(K)[k] = 0
    BY DEF Zeros
  <2> QED
    BY <1>3, <2>1, FunctionIsSeq
<1> HIDE DEF K
<1>5. /\ segment' \in Seq(Seq(Nat)) /\ Len(segment') = L + 1
      /\ \A s \in 1..L : segment'[s] = segment[s]
      /\ segment'[L + 1] = Zeros(K)
  BY <1>1, <1>2, <1>4
<1>6. ProducerTypes'
  <2>1. ASSUME NEW s \in 1..(L + 1)
        PROVE  Len(segment'[s]) >= 3 /\ Len(segment'[s]) >= 3 + 2 * segment'[s][3]
    <3>1. CASE s \in 1..L
      BY <1>5, <3>1 DEF ProducerInv, ProducerTypes
    <3>2. CASE s = L + 1
      BY <1>3, <1>4, <1>5, <3>2
    <3> QED
      BY <1>3, <3>1, <3>2
  <2> QED
    BY <1>1, <1>5, <2>1 DEF ProducerInv, ProducerTypes, ProducerLabels
<1>7. Newest' = Newest /\ Newest = L
  BY <1>1, <1>3, <1>5 DEF Newest
<1>8. Published'
  <2>1. L \in 1..L
    BY <1>7 DEF ProducerInv, Published
  <2> QED
    BY <1>1, <1>5, <1>7, <2>1 DEF ProducerInv, Published, NodesWord
<1>9. Filling'
  <2>1. segment'[key'] = Zeros(K) /\ Len(segment'[key']) = K /\ written' = 0
    BY <1>1, <1>2, <1>4, <1>5
  <2>2. K = 3 + 2 * Len(pEdges') /\ \A k \in 1..K : ~(k <= written')
    BY <1>1, <1>3, <2>1 DEF K
  <2> QED
    BY <1>3, <1>4, <2>1, <2>2 DEF Filling
<1> QED
  BY <1>6, <1>8, <1>9 DEF ProducerInv

\* What a step of the producer leaves alone: the complete segments; no other one
\* shrinks its count of edges.
Stable ==
  /\ Newest' >= Newest /\ Len(segment') >= Len(segment)
  /\ \A s \in 1..Newest : segment'[s] = segment[s]
  /\ \A s \in 1..Len(segment) : segment'[s][3] >= segment[s][3]

LEMMA OthersStable ==
  ASSUME ProducerInv, ProduceNode \/ RemoveOld \/ ProducerExit \/ CreateNew
  PROVE  Stable
<1>1. segment \in Seq(Seq(Nat)) /\ Len(segment) \in Nat /\ Newest <= Len(segment)
      /\ Newest \in Int
  BY DEF ProducerInv, ProducerTypes, Newest
<1>2. \A s \in 1..Len(segment) : segment[s][3] \in Nat
  BY DEF ProducerInv, ProducerTypes
<1>3. CASE ProduceNode \/ RemoveOld \/ ProducerExit
  <2>1. segment' = segment /\ Newest' = Newest
    BY <1>3 DEF ProduceNode, RemoveOld, ProducerExit, shm, Newest
  <2> QED
    BY <1>1, <1>2, <2>1 DEF Stable
<1>4. CASE CreateNew
  <2>1. /\ Len(segment') = Len(segment) + 1
        /\ \A s \in 1..Len(segment) : segment'[s] = segment[s]
    BY <1>1, <1>4 DEF CreateNew
  <2>2. Newest' = Newest
    BY <1>1, <1>4, <2>1 DEF CreateNew, Newest
  <2> QED
    BY <1>1, <1>2, <2>1, <2>2 DEF Stable
<1> QED
  BY <1>3, <1>4

\* A segment that becomes complete holds the graph of the producer.
Completes ==
  IF Newest' = Newest THEN UNCHANGED <<capacity, fresh>>
  ELSE /\ Newest' = Newest + 1 /\ segment'[Newest'][2] = pN
       /\ EdgesIn(segment'[Newest']) = pEdges
       /\ capacity' = capacity - 1 /\ fresh' = 0

\* A word of the newest segment; with the last one the segment is complete.
LEMMA FillKeeps == ASSUME ProducerInv, Fill PROVE ProducerInv' /\ Stable /\ Completes
<1> DEFINE L == Len(segment)
           k == written + 1
           image == Image(pN, pEdges)
           K == 3 + 2 * Len(pEdges)
<1>1. /\ pPc = "fill" /\ segment' = [segment EXCEPT ![key][k] = image[k]]
      /\ IF k < Len(image)
         THEN written' = k /\ UNCHANGED <<pPc, capacity, fresh>>
         ELSE /\ written' = 0 /\ fresh' = 0 /\ capacity' = capacity - 1
              /\ pPc' = IF capacity = 1 THEN "done" ELSE "sleep"
      /\ UNCHANGED <<key, flag, pN, pEdges>>
  BY DEF Fill
<1>2. /\ segment \in Seq(Seq(Nat)) /\ key = L /\ pN \in Nat /\ pEdges \in Seq(Pairs(pN))
      /\ written \in Nat /\ capacity \in 1..ProducerCapacity /\ Newest = L - 1 /\ L \in Nat
      /\ Len(segment) = L
  BY <1>1, GraphAssumption DEF ProducerInv, ProducerTypes, Newest
<1> HIDE DEF L
<1>3. pEdges \in Seq(Nat \X Nat) /\ K \in Nat /\ K >= 3
  <2>1. Pairs(pN) \subseteq Nat \X Nat
    BY <1>2 DEF Pairs
  <2> QED
    BY <1>2, <2>1, SeqMonotonic
<1>4. image \in Seq(Nat) /\ Len(image) = K /\ image[3] = Len(pEdges)
  BY <1>2, <1>3, ImageWords
<1>5. L - 1 \in 1..Newest /\ L \in 1..L
  BY <1>2 DEF ProducerInv, Published
<1>6. /\ Len(segment[L]) = K /\ k \in 1..K /\ segment[L] \in Seq(Nat)
      /\ \A j \in 1..K : segment[L][j] = IF j < k THEN image[j] ELSE 0
  <2>1. /\ Len(segment[L]) = K /\ written < K
        /\ \A j \in 1..K : segment[L][j] = IF j <= written THEN image[j] ELSE 0
    BY <1>1, <1>2 DEF ProducerInv, Filling
  <2>2. segment[L] \in Seq(Nat)
    BY <1>2, <1>5
  <2> HIDE DEF image, K
  <2>3. k \in 1..K /\ \A j \in 1..K : j <= written <=> j < k
    BY <1>2, <1>3, <2>1
  <2> QED
    BY <2>1, <2>2, <2>3
<1> HIDE DEF image, K, k
<1>7. /\ segment' \in Seq(Seq(Nat)) /\ Len(segment') = L
      /\ \A s \in 1..(L - 1) : segment'[s] = segment[s]
      /\ segment'[L] = [segment[L] EXCEPT ![k] = image[k]]
  <2>1. image[k] \in Nat
    BY <1>4, <1>6
  <2>2. [segment[L] EXCEPT ![k] = image[k]] \in Seq(Nat)
    BY <1>6, <2>1, ExceptSeq
  <2> DEFINE new == [segment[L] EXCEPT ![k] = image[k]]
  <2>3. segment' = [segment EXCEPT ![L] = new]
    BY <1>1, <1>2, <1>5
  <2>4. new \in Seq(Nat) /\ L \in 1..Len(segment)
    BY <1>2, <1>5, <2>2
  <2> HIDE DEF new
  <2>5. /\ segment' \in Seq(Seq(Nat)) /\ Len(segment') = L
        /\ \A s \in 1..L : segment'[s] = IF s = L THEN new ELSE segment[s]
    BY <1>2, <2>3, <2>4, ExceptSeq
  <2>6. \A s \in 1..(L - 1) : s \in 1..L /\ s # L
    BY <1>2
  <2> QED
    BY <1>5, <2>5, <2>6 DEF new
<1>8. /\ segment'[L] \in Seq(Nat) /\ Len(segment'[L]) = K
      /\ \A j \in 1..K : segment'[L][j] = IF j <= k THEN image[j] ELSE 0
  <2>1. segment'[L] \in Seq(Nat) /\ Len(segment'[L]) = K
    BY <1>4, <1>6, <1>7, ExceptSeq
  <2>2. \A j \in 1..K : segment'[L][j] = IF j = k THEN image[k] ELSE segment[L][j]
    <3>1. image[k] \in Nat /\ k \in 1..Len(segment[L])
      BY <1>4, <1>6
    <3>2. \A j \in 1..Len(segment[L]) : [segment[L] EXCEPT ![k] = image[k]][j] =
                                        IF j = k THEN image[k] ELSE segment[L][j]
      BY <1>6, <3>1, ExceptSeq
    <3> QED
      BY <1>6, <1>7, <3>2
  <2>3. k \in Int
    BY <1>6
  <2> QED
    BY <1>6, <2>1, <2>2, <2>3
<1>9. segment'[L][3] \in {0, Len(pEdges)} /\ segment[L][3] \in {0, segment'[L][3]}
  <2>1. 3 \in 1..K
    BY <1>3
  <2>2. segment'[L][3] = (IF 3 <= k THEN image[3] ELSE 0)
        /\ segment[L][3] = (IF 3 < k THEN image[3] ELSE 0)
    BY <1>6, <1>8, <2>1
  <2>3. k \in Int
    BY <1>6
  <2> QED
    BY <1>4, <2>2, <2>3
<1>10. Newest' \in Nat /\ Newest' >= Newest /\ (k < K => Newest' = Newest) /\ (~(k < K) => Newest' = L)
  <2>1. CASE k < K
    <3>1. pPc' = "fill"
      BY <1>1, <1>4, <2>1
    <3>2. Newest' = Len(segment') - 1
      BY <3>1 DEF Newest
    <3> QED
      BY <1>2, <1>5, <1>7, <2>1, <3>2
  <2>2. CASE ~(k < K)
    <3>1. pPc' # "fill"
      BY <1>1, <1>4, <2>2
    <3>2. Newest' = Len(segment')
      BY <3>1 DEF Newest
    <3> QED
      BY <1>2, <1>7, <2>2, <3>2
  <2> QED
    BY <2>1, <2>2
<1>11. Stable
  <2>1. \A s \in 1..L : s \in 1..(L - 1) \/ s = L
    BY <1>2
  <2>2. \A s \in 1..(L - 1) : segment[s][3] \in Nat
    <3> SUFFICES ASSUME NEW s \in 1..(L - 1) PROVE segment[s][3] \in Nat
      OBVIOUS
    <3>1. s \in 1..Len(segment)
      BY <1>2
    <3>2. segment[s] \in Seq(Nat) /\ Len(segment[s]) >= 3
      BY <1>2, <3>1 DEF ProducerInv, ProducerTypes
    <3> QED
      BY <3>2
  <2>3. segment'[L][3] >= segment[L][3]
    <3>1. Len(pEdges) \in Nat
      BY <1>2
    <3> QED
      BY <1>9, <3>1
  <2>4. \A s \in 1..L : segment'[s][3] >= segment[s][3]
    <3> SUFFICES ASSUME NEW s \in 1..L PROVE segment'[s][3] >= segment[s][3]
      OBVIOUS
    <3>1. CASE s \in 1..(L - 1)
      BY <1>7, <2>2, <3>1
    <3>2. CASE s = L
      BY <2>3, <3>2
    <3> QED
      BY <2>1, <3>1, <3>2
  <2>5. \A s \in 1..Newest : segment'[s] = segment[s]
    BY <1>2, <1>7
  <2>6. Newest' >= Newest /\ Len(segment') >= Len(segment)
    BY <1>2, <1>7, <1>10
  <2>7. \A s \in 1..Len(segment) : segment'[s][3] >= segment[s][3]
    BY <1>2, <2>4
  <2> QED
    BY <2>5, <2>6, <2>7 DEF Stable
<1>12. ProducerTypes'
  <2>1. \A s \in 1..L : Len(segment'[s]) >= 3 /\ Len(segment'[s]) >= 3 + 2 * segment'[s][3]
    <3>1. \A s \in 1..(L - 1) : Len(segment[s]) >= 3 /\ Len(segment[s]) >= 3 + 2 * segment[s][3]
      <4>1. \A s \in 1..Len(segment) :
              Len(segment[s]) >= 3 /\ Len(segment[s]) >= 3 + 2 * segment[s][3]
        BY DEF ProducerInv, ProducerTypes
      <4>2. \A s \in 1..(L - 1) : s \in 1..Len(segment)
        BY <1>2
      <4> QED
        BY <4>1, <4>2
    <3>2. Len(segment'[L]) >= 3 /\ Len(segment'[L]) >= 3 + 2 * segment'[L][3]
      <4>1. K = 3 + 2 * Len(pEdges) /\ Len(pEdges) \in Nat
        BY <1>2 DEF K
      <4> QED
        BY <1>8, <1>9, <4>1
    <3>3. \A s \in 1..L : s \in 1..(L - 1) \/ s = L
      BY <1>2
    <3> QED
      BY <1>7, <3>1, <3>2, <3>3
  <2>2. written' \in Nat /\ (pPc' # "fill" => written' = 0)
    BY <1>1, <1>2 DEF k
  <2>3. /\ capacity' \in 0..ProducerCapacity /\ pPc' \in {"fill", "done", "sleep"}
        /\ pPc' \in {"sleep", "produce", "create", "fill"} => capacity' > 0
    BY <1>1, <1>2, GraphAssumption
  <2>4. fresh' \in 0..MaxNewNodes
    BY <1>1, GraphAssumption DEF ProducerInv, ProducerTypes
  <2> QED
    BY <1>1, <1>2, <1>7, <2>1, <2>2, <2>3, <2>4
    DEF ProducerInv, ProducerTypes, ProducerLabels
<1>13. CASE k < K
  <2>1. Newest' = Newest /\ pPc' = "fill" /\ written' = k
    BY <1>1, <1>4, <1>10, <1>13
  <2>2. Published'
    BY <1>1, <1>2, <1>5, <1>7, <2>1 DEF ProducerInv, Published, NodesWord
  <2>3. Filling'
    BY <1>1, <1>2, <1>8, <1>13, <2>1 DEF Filling, K, image
  <2>4. Completes
    BY <1>1, <1>4, <1>13, <2>1 DEF Completes
  <2> QED
    BY <1>11, <1>12, <2>2, <2>3, <2>4 DEF ProducerInv
<1>14. CASE ~(k < K)
  <2>1. Newest' = L /\ pPc' \in {"done", "sleep"}
    BY <1>1, <1>4, <1>10, <1>14
  <2>2. segment'[L] = image
    <3>1. \A j \in 1..K : segment'[L][j] = image[j]
      BY <1>6, <1>8, <1>14
    <3> QED
      BY <1>4, <1>8, <3>1, SeqEqual
  <2>3. segment'[L][2] = pN /\ EdgesIn(segment'[L]) = pEdges
    BY <1>2, <1>3, <2>2, ImageTells DEF image
  <2>4. IsProduct(segment'[L])
    BY <1>2, <2>2, <2>3 DEF IsProduct, image
  <2>5. ASSUME NEW s \in 1..(L - 1) PROVE Outgrows(segment'[L], segment[s])
    <3>1. segment[L - 1][2] < pN /\ Extends(pEdges, EdgesIn(segment[L - 1]))
      BY <1>1, <1>2 DEF ProducerInv, Published, NodesWord
    <3>2. CASE s = L - 1
      BY <2>3, <3>1, <3>2 DEF Outgrows
    <3>3. CASE s < L - 1
      <4>1. Outgrows(segment[L - 1], segment[s])
        BY <1>2, <1>5, <3>3 DEF ProducerInv, Published
      <4>2. segment[s][2] \in Nat /\ segment[L - 1][2] \in Nat
        BY <1>2, <1>5, ProductWords
      <4>3. /\ EdgesIn(segment[s]) \in Seq(Nat \X Nat)
            /\ EdgesIn(segment[L - 1]) \in Seq(Nat \X Nat)
        BY <1>2, <1>5, ProductWords
      <4>4. Extends(pEdges, EdgesIn(segment[s]))
        BY <1>3, <3>1, <4>1, <4>3, ExtendsAll DEF Outgrows
      <4> QED
        <5>1. segment[s][2] < pN
          <6> DEFINE a == segment[s][2]
                     b == segment[L - 1][2]
          <6>1. a < b
            BY <4>1 DEF Outgrows
          <6>2. b < pN
            BY <3>1
          <6>3. a \in Nat /\ b \in Nat /\ pN \in Nat
            BY <1>2, <4>2
          <6> HIDE DEF a, b
          <6>4. a < pN
            BY <6>1, <6>2, <6>3
          <6> QED
            BY <6>4 DEF a
        <5> QED
          BY <2>3, <4>4, <5>1 DEF Outgrows
    <3>4. s = L - 1 \/ s < L - 1
      BY <1>2
    <3> QED
      BY <3>2, <3>3, <3>4
  <2>6. \A s, t \in 1..L : s < t => Outgrows(segment'[t], segment'[s])
    <3>1. \A s, t \in 1..(L - 1) : s < t => Outgrows(segment[t], segment[s])
      BY <1>2 DEF ProducerInv, Published
    <3>2. \A s \in 1..(L - 1) : Outgrows(segment'[L], segment'[s])
      BY <1>7, <2>5
    <3> SUFFICES ASSUME NEW s \in 1..L, NEW t \in 1..L, s < t
                 PROVE  Outgrows(segment'[t], segment'[s])
      OBVIOUS
    <3>3. s \in 1..(L - 1) /\ (t \in 1..(L - 1) \/ t = L)
      BY <1>2
    <3> QED
      BY <1>7, <3>1, <3>2, <3>3
  <2>7. \A s \in 1..L : IsProduct(segment'[s])
    <3>1. \A s \in 1..(L - 1) : IsProduct(segment[s])
      BY <1>2 DEF ProducerInv, Published
    <3> QED
      BY <1>2, <1>7, <2>4, <3>1
  <2>8. Extends(pEdges, pEdges)
    BY <1>2 DEF Extends
  <2>9. Published'
    <3>1. L >= 1 /\ pN' = pN /\ pEdges' = pEdges /\ pN <= pN
      BY <1>1, <1>2, <1>5
    <3>2. segment'[Newest'][2] <= pN' /\ Extends(pEdges', EdgesIn(segment'[Newest']))
      BY <2>1, <2>3, <2>8, <3>1
    <3> HIDE DEF Newest
    <3> QED
      BY <2>1, <2>6, <2>7, <3>1, <3>2 DEF Published, NodesWord
  <2>10. Filling'
    BY <2>1 DEF Filling
  <2>11. Completes
    <3>1. Newest' = Newest + 1 /\ Newest' # Newest /\ capacity' = capacity - 1 /\ fresh' = 0
      BY <1>1, <1>2, <1>4, <1>14, <2>1
    <3> HIDE DEF Newest
    <3> QED
      BY <2>1, <2>3, <3>1 DEF Completes
  <2> QED
    BY <1>11, <1>12, <2>9, <2>10, <2>11 DEF ProducerInv
<1> QED
  BY <1>13, <1>14

LEMMA ProducerKeeps == ASSUME ProducerInv, Producer PROVE ProducerInv' /\ Stable
BY ProduceNodeKeeps, KeyKeeps, CreateNewKeeps, FillKeeps, OthersStable DEF Producer

\* The first segment is the graph of the input file.
LEMMA InitProducer == Init => ProducerInv
<1> SUFFICES ASSUME Init PROVE ProducerInv
  OBVIOUS
<1> DEFINE w == Image(InitialNodes, InitialEdges)
<1>1. /\ segment = <<w>> /\ key = 1 /\ pPc = "sleep" /\ capacity = ProducerCapacity
      /\ pN = InitialNodes /\ pEdges = InitialEdges /\ fresh = 0 /\ written = 0
      /\ flag \in {0, 1}
  BY DEF Init
<1>2. InitialNodes \in Nat /\ InitialEdges \in Seq(Pairs(InitialNodes))
  BY GraphAssumption DEF Pairs
<1>3. InitialEdges \in Seq(Nat \X Nat)
  <2>1. Pairs(InitialNodes) \subseteq Nat \X Nat
    BY <1>2 DEF Pairs
  <2> QED
    BY <1>2, <2>1, SeqMonotonic
<1>4. /\ w \in Seq(Nat) /\ Len(w) = 3 + 2 * Len(InitialEdges)
      /\ w[2] = InitialNodes /\ w[3] = Len(InitialEdges) /\ EdgesIn(w) = InitialEdges
  BY <1>2, <1>3, ImageWords, ImageTells
<1>5. IsProduct(w)
  BY <1>2, <1>4 DEF IsProduct
<1> HIDE DEF w
<1>6. segment \in Seq(Seq(Nat)) /\ Len(segment) = 1 /\ segment[1] = w
  BY <1>1, <1>4
<1>7. ProducerTypes
  BY <1>1, <1>2, <1>3, <1>4, <1>6, GraphAssumption DEF ProducerTypes, ProducerLabels
<1>8. Newest = 1
  BY <1>1, <1>6 DEF Newest
<1>9. Extends(InitialEdges, InitialEdges)
  BY <1>2 DEF Extends
<1>10. Published
  BY <1>1, <1>2, <1>4, <1>5, <1>6, <1>8, <1>9 DEF Published, NodesWord
<1> QED
  BY <1>1, <1>7, <1>10 DEF ProducerInv, Filling

-----------------------------------------------------------------------------
(* The consumers *)

\* A step of the producer does not touch what a consumer holds, nor the words that
\* it has read of a complete segment.
LEMMA ProducerLeaves ==
  ASSUME ProducerInv, ConsumerTypes, Stable, Producer
  PROVE  /\ ConsumerTypes'
         /\ \A c \in Consumers : Undisturbed(c) => Undisturbed(c)'
<1>1. UNCHANGED <<cPc, rounds, at, leaked, size, u, n, prevN, m, g, torn, seen>>
  BY DEF Producer, ProduceNode, RemoveOld, CreateNew, Fill, ProducerExit, reading, product
<1>2. /\ Newest' >= Newest /\ Len(segment') >= Len(segment)
      /\ \A s \in 1..Newest : segment'[s] = segment[s]
      /\ \A s \in 1..Len(segment) : segment'[s][3] >= segment[s][3]
  BY DEF Stable
<1>3. Newest \in Int /\ Newest' \in Int /\ Len(segment) \in Nat /\ Len(segment') \in Nat
  <2>1. segment' \in Seq(Seq(Nat)) /\ segment \in Seq(Seq(Nat))
    BY ProducerKeeps DEF ProducerInv, ProducerTypes
  <2>2. Len(segment) \in Nat /\ Len(segment') \in Nat
    BY <2>1
  <2> QED
    BY <2>2 DEF Newest
<1>4. ConsumerTypes'
  <2>1. at' \in [Consumers -> 0..Len(segment')]
    BY <1>1, <1>2, <1>3 DEF ConsumerTypes
  <2>2. leaked' \in [Consumers -> SUBSET (1..Len(segment'))]
    BY <1>1, <1>2, <1>3 DEF ConsumerTypes
  <2>3. ASSUME NEW c \in Consumers, cPc[c] = "second" PROVE m[c] < segment'[at[c]][3]
    <3>1. at[c] \in 1..Len(segment) /\ m[c] \in Nat /\ m[c] < segment[at[c]][3]
      BY <2>3 DEF ConsumerTypes, Busy, NoSegment, EdgesWord
    <3>2. segment[at[c]] \in Seq(Nat) /\ Len(segment[at[c]]) >= 3
      BY <3>1 DEF ProducerInv, ProducerTypes
    <3>3. segment[at[c]][3] \in Nat
      BY <3>2
    <3>4. segment'[at[c]] \in Seq(Nat) /\ Len(segment'[at[c]]) >= 3
      <4>1. at[c] \in 1..Len(segment')
        BY <1>2, <1>3, <3>1
      <4>2. ProducerTypes'
        BY ProducerKeeps DEF ProducerInv
      <4> QED
        BY <4>1, <4>2 DEF ProducerTypes
    <3>5. segment'[at[c]][3] \in Nat
      BY <3>4
    <3> QED
      BY <1>2, <3>1, <3>3, <3>5
  <2> QED
    BY <1>1, <2>1, <2>2, <2>3 DEF ConsumerTypes, Busy, EdgesWord
<1>5. ASSUME NEW c \in Consumers, Undisturbed(c) PROVE Undisturbed(c)'
  <2> SUFFICES ASSUME ~torn[c]
               PROVE  seen[c] \in 0..Newest' /\ (IF Busy(c)' THEN ReadsPart(c)' ELSE HoldsAll(c)')
    BY <1>1 DEF Undisturbed
  <2>1. seen[c] \in 0..Newest /\ (IF Busy(c) THEN ReadsPart(c) ELSE HoldsAll(c))
    BY <1>5 DEF Undisturbed
  <2>2. seen[c] \in 0..Newest'
    BY <1>2, <1>3, <2>1
  <2>3. seen[c] # NoSegment => segment'[seen[c]] = segment[seen[c]]
    BY <1>2, <1>3, <2>1 DEF NoSegment
  <2>4. CASE Busy(c)
    <3>1. segment'[at[c]] = segment[at[c]]
      BY <2>1, <2>3, <2>4 DEF ReadsPart, ConsumerTypes
    <3> QED
      BY <1>1, <2>1, <2>2, <2>4, <3>1 DEF ReadsPart, Busy, NodesWord, EdgesWord, EndWord
  <2>5. CASE ~Busy(c)
    BY <1>1, <2>1, <2>2, <2>3, <2>5 DEF HoldsAll, Busy, NodesWord, EdgesWord
  <2> QED
    BY <2>4, <2>5
<1> QED
  BY <1>4, <1>5

\* A step of one consumer leaves the others, and the shared memory, alone.
LEMMA OneAtATime ==
  ASSUME ConsumerTypes, NEW c \in Consumers, Consumer(c)
  PROVE  /\ UNCHANGED <<shm, producer>>
         /\ \A d \in Consumers \ {c} :
              /\ cPc'[d] = cPc[d] /\ at'[d] = at[d] /\ u'[d] = u[d] /\ n'[d] = n[d]
              /\ m'[d] = m[d] /\ g'[d] = g[d] /\ torn'[d] = torn[d] /\ seen'[d] = seen[d]
<1> DEFINE Same == /\ UNCHANGED <<shm, producer>>
                   /\ \A d \in Consumers \ {c} :
                        /\ cPc'[d] = cPc[d] /\ at'[d] = at[d] /\ u'[d] = u[d] /\ n'[d] = n[d]
                        /\ m'[d] = m[d] /\ g'[d] = g[d] /\ torn'[d] = torn[d]
                        /\ seen'[d] = seen[d]
<1>1. CASE GetSize(c)
  BY <1>1 DEF GetSize, product, ConsumerTypes
<1>2. CASE Crash(c) \/ Exit(c)
  BY <1>2 DEF Crash, Exit, End, ConsumerTypes
<1>3. CASE Attach(c)
  BY <1>3 DEF Attach, EndRound, ConsumerTypes
<1>4. CASE ReadFirstEnd(c) \/ ReadEdgesEnd(c)
  BY <1>4 DEF ReadFirstEnd, ReadEdgesEnd, reading, product, ConsumerTypes
<1>5. CASE ReadSecondEnd(c)
  BY SMTT(30), <1>5 DEF ReadSecondEnd, End, ConsumerTypes
<1>6. CASE Compute(c)
  <2>1. \/ End(c, "undefined") /\ UNCHANGED <<shm, producer>>
        \/ /\ m' = [m EXCEPT ![c] = EdgesWord(at[c])] /\ EndRound(c, leaked[c])
           /\ UNCHANGED <<size, u, n, prevN, g, torn, seen, shm, producer>>
    BY <1>6 DEF Compute
  <2> QED
    BY <2>1 DEF End, EndRound, ConsumerTypes
<1> QED
  BY <1>1, <1>2, <1>3, <1>4, <1>5, <1>6 DEF Consumer

\* The words of any segment: the ends of the edges it counts are among them.
LEMMA SegmentWords ==
  ASSUME ProducerInv, NEW s \in 1..Len(segment)
  PROVE  /\ segment[s] \in Seq(Nat) /\ segment[s][1] \in Nat /\ segment[s][2] \in Nat
         /\ segment[s][3] \in Nat
         /\ \A i \in Nat : i < segment[s][3] =>
              segment[s][2 * i + 4] \in Nat /\ segment[s][2 * i + 5] \in Nat
<1>1. /\ segment[s] \in Seq(Nat) /\ Len(segment[s]) >= 3
      /\ Len(segment[s]) >= 3 + 2 * segment[s][3]
  BY DEF ProducerInv, ProducerTypes
<1>2. segment[s][1] \in Nat /\ segment[s][2] \in Nat /\ segment[s][3] \in Nat
  BY <1>1
<1>3. ASSUME NEW i \in Nat, i < segment[s][3]
      PROVE  segment[s][2 * i + 4] \in Nat /\ segment[s][2 * i + 5] \in Nat
  <2>1. 2 * i + 4 \in 1..Len(segment[s]) /\ 2 * i + 5 \in 1..Len(segment[s])
    BY <1>1, <1>2, <1>3
  <2>2. \A j \in 1..Len(segment[s]) : segment[s][j] \in Nat
    BY <1>1
  <2> QED
    BY <2>1, <2>2
<1> QED
  BY <1>1, <1>2, <1>3

\* A consumer that ends holds nothing.
LEMMA EndKeeps ==
  ASSUME GraphInv, NEW c \in Consumers, UNCHANGED <<shm, producer>>,
         NEW label \in {"exited", "crashed", "undefined"}, End(c, label)
  PROVE  ConsumerTypes' /\ Undisturbed(c)'
<1>1. segment' = segment /\ pPc' = pPc /\ Len(segment) \in Nat /\ Newest' = Newest
      /\ 0 \in 0..Newest
  BY DEF shm, producer, GraphInv, ProducerInv, ProducerTypes, Published, Newest
<1>2. ConsumerTypes'
  <2>1. /\ cPc' \in [Consumers -> ConsumerLabels]
        /\ rounds' \in [Consumers -> 0..ConsumerCapacity]
        /\ at' \in [Consumers -> 0..Len(segment)]
        /\ leaked' \in [Consumers -> SUBSET (1..Len(segment))]
    BY <1>1, GraphAssumption DEF End, GraphInv, ConsumerTypes, ConsumerLabels, NoSegment
  <2>2. /\ size' \in [Consumers -> Nat] /\ u' \in [Consumers -> Nat]
        /\ n' \in [Consumers -> Nat] /\ prevN' \in [Consumers -> Nat]
        /\ m' \in [Consumers -> Nat] /\ g' \in [Consumers -> Seq(Nat \X Nat)]
        /\ torn' \in [Consumers -> BOOLEAN] /\ seen' \in [Consumers -> Nat]
    BY DEF End, GraphInv, ConsumerTypes, NoSegment
  <2>3. ASSUME NEW d \in Consumers
        PROVE  /\ cPc'[d] = "attach" \/ Busy(d)' => rounds'[d] > 0
               /\ Busy(d)' => at'[d] # NoSegment
               /\ cPc'[d] = "second" => m'[d] < EdgesWord(at[d])'
    BY <1>1 DEF End, GraphInv, ConsumerTypes, Busy, EdgesWord
  <2> QED
    BY <1>1, <2>1, <2>2, <2>3 DEF ConsumerTypes
<1>3. Undisturbed(c)'
  <2>1. ~Busy(c)'
    BY DEF End, Busy, GraphInv, ConsumerTypes
  <2>2. n'[c] = 0 /\ m'[c] = 0 /\ g'[c] = <<>> /\ seen'[c] = NoSegment
    BY DEF End, GraphInv, ConsumerTypes
  <2> QED
    BY <1>1, <2>1, <2>2 DEF Undisturbed, HoldsAll, NoSegment
<1> QED
  BY <1>2, <1>3

\* What the consumer reads first is not the product.
LEMMA GetSizeKeeps ==
  ASSUME GraphInv, NEW c \in Consumers, GetSize(c)
  PROVE  ConsumerTypes' /\ Undisturbed(c)'
<1>1. segment' = segment /\ Newest' = Newest
  BY DEF GetSize, shm, producer, Newest
<1>2. size' \in [Consumers -> Nat]
  <2>1. key \in 1..Len(segment)
    BY DEF GetSize, GraphInv, ProducerInv, ProducerTypes, NoSegment
  <2>2. SizeWord(key) \in Nat
    BY <2>1, SegmentWords DEF GraphInv, SizeWord
  <2> QED
    BY <2>2 DEF GetSize, GraphInv, ConsumerTypes
<1>3. ConsumerTypes'
  BY <1>1, <1>2
  DEF GetSize, product, GraphInv, ConsumerTypes, ConsumerLabels, Busy, EdgesWord
<1>4. Undisturbed(c)'
  BY <1>1 DEF GetSize, product, GraphInv, ConsumerTypes, Undisturbed, Busy, HoldsAll,
              NodesWord, EdgesWord
<1> QED
  BY <1>3, <1>4

\* The round that ends was left to be done.
EndTypes(c) ==
  /\ rounds' \in [Consumers -> 0..ConsumerCapacity]
  /\ cPc' \in [Consumers -> ConsumerLabels]
  /\ at' \in [Consumers -> 0..Len(segment)]
  /\ leaked' \in [Consumers -> SUBSET (1..Len(segment))]

LEMMA EndRoundTypes ==
  ASSUME ConsumerTypes, NEW c \in Consumers, cPc[c] = "attach" \/ Busy(c),
         NEW kept \in SUBSET (1..Len(segment)), EndRound(c, kept), Len(segment) \in Nat
  PROVE  EndTypes(c)
<1>1. rounds[c] \in 1..ConsumerCapacity /\ ConsumerCapacity \in Nat
  BY GraphAssumption DEF ConsumerTypes
<1>2. rounds' \in [Consumers -> 0..ConsumerCapacity]
  <2>1. rounds[c] - 1 \in 0..ConsumerCapacity
    BY <1>1
  <2> QED
    BY <2>1 DEF EndRound, ConsumerTypes
<1>3. cPc' \in [Consumers -> ConsumerLabels] /\ at' \in [Consumers -> 0..Len(segment)]
  BY DEF EndRound, ConsumerTypes, ConsumerLabels, NoSegment
<1>4. leaked' \in [Consumers -> SUBSET (1..Len(segment))]
  BY DEF EndRound, ConsumerTypes
<1> QED
  BY <1>2, <1>3, <1>4 DEF EndTypes

\* n decides: a product that is no larger is the one the consumer holds, for each has
\* more nodes than those before; a larger one contains what it holds.
LEMMA AttachKeeps ==
  ASSUME GraphInv, NEW c \in Consumers, Attach(c)
  PROVE  ConsumerTypes' /\ Undisturbed(c)'
<1>1. /\ segment' = segment /\ Newest' = Newest /\ m' = m /\ u' = u
      /\ key \in 1..Len(segment) /\ Newest \in 1..Len(segment) /\ Len(segment) \in Nat
      /\ Complete(key) => key = Newest
  BY DEF Attach, GraphInv, ProducerInv, ProducerTypes, Published, NoSegment, shm, producer,
         Newest, Complete
<1>2. NodesWord(key) \in Nat
  BY <1>1, SegmentWords DEF GraphInv, NodesWord
<1>3. /\ cPc[c] = "attach" /\ ~Busy(c) /\ n' = [n EXCEPT ![c] = NodesWord(key)]
      /\ prevN' = [prevN EXCEPT ![c] = n[c]] /\ size' = [size EXCEPT ![c] = 0]
      /\ seen' = [seen EXCEPT ![c] = IF Complete(key) THEN key ELSE @]
  BY DEF Attach, Busy
<1>4. n'[c] = NodesWord(key) /\ seen'[c] = IF Complete(key) THEN key ELSE seen[c]
  BY <1>3 DEF GraphInv, ConsumerTypes
<1>5. /\ n' \in [Consumers -> Nat] /\ prevN' \in [Consumers -> Nat]
      /\ size' \in [Consumers -> Nat] /\ seen' \in [Consumers -> Nat]
      /\ m' \in [Consumers -> Nat] /\ u' \in [Consumers -> Nat]
  BY <1>1, <1>2, <1>3 DEF GraphInv, ConsumerTypes
<1>6. ASSUME ~torn[c] PROVE seen[c] \in 0..Newest /\ HoldsAll(c)
  BY <1>3, <1>6 DEF GraphInv, Undisturbed
<1>7. ASSUME ~torn[c], seen[c] # NoSegment, seen[c] # Newest
      PROVE  /\ NodesWord(seen[c]) \in Nat /\ NodesWord(Newest) \in Nat
             /\ NodesWord(seen[c]) < NodesWord(Newest)
             /\ Extends(EdgesIn(segment[Newest]), EdgesIn(segment[seen[c]]))
  <2>1. seen[c] \in 1..Newest /\ Newest \in 1..Newest /\ seen[c] < Newest
    BY <1>1, <1>6, <1>7 DEF NoSegment
  <2> QED
    BY <2>1, ProductWords DEF GraphInv, ProducerInv, Published, Outgrows, NodesWord
<1>8. EdgesWord(Newest) \in Nat /\ Len(EdgesIn(segment[Newest])) = EdgesWord(Newest)
  BY <1>1, ProductWords DEF GraphInv, EdgesWord
<1>9. CASE NodesWord(key) = n[c]
  <2>1. /\ EndRound(c, leaked[c] \cup {key}) /\ g' = g /\ torn' = torn
    BY <1>9 DEF Attach
  <2>2. EndTypes(c)
    <3>1. leaked[c] \cup {key} \in SUBSET (1..Len(segment))
      BY <1>1 DEF GraphInv, ConsumerTypes
    <3> QED
      BY <1>1, <1>3, <2>1, <3>1, EndRoundTypes DEF GraphInv
  <2>3. ASSUME NEW d \in Consumers
        PROVE  /\ cPc'[d] = "attach" \/ Busy(d)' => rounds'[d] > 0
               /\ Busy(d)' => at'[d] # NoSegment
               /\ cPc'[d] = "second" => m'[d] < EdgesWord(at[d])'
    BY <1>1, <2>1 DEF EndRound, GraphInv, ConsumerTypes, Busy, EdgesWord
  <2>4. ConsumerTypes'
    BY <1>1, <1>5, <2>1, <2>2, <2>3 DEF GraphInv, ConsumerTypes, EndTypes
  <2>5. ~Busy(c)'
    BY <2>1 DEF EndRound, Busy, GraphInv, ConsumerTypes
  <2>6. ASSUME ~torn[c] PROVE seen'[c] \in 0..Newest /\ HoldsAll(c)'
    <3>1. CASE ~Complete(key)
      BY <1>1, <1>4, <1>6, <1>9, <2>1, <2>6, <3>1 DEF HoldsAll, NodesWord, EdgesWord
    <3>2. CASE Complete(key) /\ seen[c] = NoSegment
      <4>1. n[c] = 0 /\ m[c] = 0 /\ g[c] = <<>> /\ segment[Newest][2] = 0
        BY <1>1, <1>6, <1>9, <2>6, <3>2 DEF HoldsAll, NodesWord
      <4>2. EdgesIn(segment[Newest]) \in Seq({})
        <5>1. EdgesIn(segment[Newest]) \in Seq(Pairs(0))
          BY <1>1, <4>1, ProductWords DEF GraphInv
        <5>2. Pairs(0) = {}
          BY DEF Pairs
        <5> QED
          BY <5>1, <5>2
      <4>3. EdgesIn(segment[Newest]) = <<>> /\ EdgesWord(Newest) = 0
        BY <1>8, <4>2
      <4> QED
        BY <1>1, <1>4, <1>9, <2>1, <3>2, <4>1, <4>3 DEF HoldsAll, NodesWord, EdgesWord,
                                                       NoSegment
    <3>3. CASE Complete(key) /\ seen[c] # NoSegment
      <4>1. n[c] = NodesWord(seen[c])
        BY <1>6, <2>6, <3>3 DEF HoldsAll
      <4>2. seen[c] = Newest
        BY <1>1, <1>7, <1>9, <2>6, <3>3, <4>1
      <4> QED
        BY <1>1, <1>4, <1>6, <1>9, <2>1, <2>6, <3>3, <4>2 DEF HoldsAll, NodesWord, EdgesWord
    <3> QED
      BY <3>1, <3>2, <3>3
  <2> QED
    BY <1>1, <2>1, <2>4, <2>5, <2>6 DEF Undisturbed
<1>10. CASE NodesWord(key) # n[c]
  <2>1. /\ at' = [at EXCEPT ![c] = key]
        /\ g' = [g EXCEPT ![c] = IF NodesWord(key) = 0 THEN <<>> ELSE @]
        /\ torn' = [torn EXCEPT ![c] = @ \/ ~Complete(key)]
        /\ cPc' = [cPc EXCEPT ![c] = "edges"]
        /\ rounds' = rounds /\ leaked' = leaked
    BY <1>10 DEF Attach
  <2>2. /\ at' \in [Consumers -> 0..Len(segment)] /\ g' \in [Consumers -> Seq(Nat \X Nat)]
        /\ cPc' \in [Consumers -> ConsumerLabels]
    BY <1>1, <2>1 DEF GraphInv, ConsumerTypes, ConsumerLabels
  <2>3. torn' \in [Consumers -> BOOLEAN] /\ torn'[c] = (torn[c] \/ ~Complete(key))
    BY <2>1, Zenon DEF GraphInv, ConsumerTypes
  <2>4. ASSUME NEW d \in Consumers
        PROVE  /\ cPc'[d] = "attach" \/ Busy(d)' => rounds'[d] > 0
               /\ Busy(d)' => at'[d] # NoSegment
               /\ cPc'[d] = "second" => m'[d] < EdgesWord(at[d])'
    BY <1>1, <1>3, <2>1 DEF GraphInv, ConsumerTypes, Busy, EdgesWord, NoSegment
  <2>5. ConsumerTypes'
    BY <1>1, <1>5, <2>1, <2>2, <2>3, <2>4 DEF GraphInv, ConsumerTypes
  <2>6. Busy(c)' /\ cPc'[c] = "edges" /\ at'[c] = key
        /\ g'[c] = IF NodesWord(key) = 0 THEN <<>> ELSE g[c]
    BY <2>1 DEF Busy, GraphInv, ConsumerTypes
  <2>7. ASSUME ~torn'[c] PROVE seen'[c] \in 0..Newest /\ ReadsPart(c)'
    <3>1. ~torn[c] /\ key = Newest /\ seen'[c] = key
      BY <1>1, <1>4, <2>3, <2>7
    <3>2. CASE seen[c] = NoSegment
      <4>1. m[c] = 0 /\ g'[c] = <<>>
        BY <1>6, <2>6, <3>1, <3>2 DEF HoldsAll
      <4>2. Len(g'[c]) = 0
        BY <4>1
      <4>3. Extends(EdgesIn(segment[Newest]), g'[c])
        BY <1>8, <4>2 DEF Extends
      <4> QED
        BY <1>1, <1>4, <2>6, <3>1, <4>1, <4>2, <4>3 DEF ReadsPart, NodesWord
    <3>3. CASE seen[c] # NoSegment
      <4>1. /\ seen[c] \in 1..Newest /\ m[c] = EdgesWord(seen[c])
            /\ g[c] = EdgesIn(segment[seen[c]]) /\ n[c] = NodesWord(seen[c])
        BY <1>1, <1>6, <3>1, <3>3 DEF HoldsAll, NoSegment
      <4>2. seen[c] # Newest
        BY <1>10, <3>1, <4>1
      <4>3. NodesWord(key) # 0 /\ Extends(EdgesIn(segment[key]), g[c])
        BY <1>7, <3>1, <3>3, <4>1, <4>2
      <4>4. Len(g[c]) = m[c]
        BY <4>1, ProductWords DEF GraphInv, EdgesWord
      <4> QED
        BY <1>1, <1>4, <2>6, <3>1, <4>3, <4>4 DEF ReadsPart, NodesWord
    <3> QED
      BY <3>2, <3>3
  <2> QED
    BY <1>1, <2>5, <2>6, <2>7 DEF Undisturbed
<1> QED
  BY <1>9, <1>10

\* An edge of the part read so far, or its first end.
LEMMA ReadEdgeKeeps ==
  ASSUME GraphInv, NEW c \in Consumers, ReadFirstEnd(c) \/ ReadSecondEnd(c)
  PROVE  ConsumerTypes' /\ Undisturbed(c)'
<1>1. /\ segment' = segment /\ Newest' = Newest /\ UNCHANGED <<shm, producer>>
      /\ Len(segment) \in Nat
  BY DEF ReadFirstEnd, ReadSecondEnd, GraphInv, ProducerInv, ProducerTypes, shm, producer,
         Newest
<1>2. Busy(c) /\ at[c] \in 1..Len(segment) /\ m[c] \in Nat /\ m[c] < EdgesWord(at[c])
  BY <1>1 DEF ReadFirstEnd, ReadSecondEnd, Busy, GraphInv, ConsumerTypes, NoSegment
<1>3. /\ EndWord(at[c], m[c], 1) = segment[at[c]][2 * m[c] + 4]
      /\ EndWord(at[c], m[c], 2) = segment[at[c]][2 * m[c] + 5]
  <2>1. /\ 2 * (m[c] + 1) + 1 + 1 = 2 * m[c] + 4
        /\ 2 * (m[c] + 1) + 1 + 2 = 2 * m[c] + 5
    BY <1>2
  <2> QED
    BY <2>1 DEF EndWord
<1>4. EndWord(at[c], m[c], 1) \in Nat /\ EndWord(at[c], m[c], 2) \in Nat
      /\ EdgesWord(at[c]) \in Nat
  BY <1>2, <1>3, SegmentWords DEF GraphInv, EdgesWord
<1>5. ASSUME ~torn[c] PROVE seen[c] \in 0..Newest /\ ReadsPart(c)
  BY <1>2, <1>5 DEF GraphInv, Undisturbed
<1>6. CASE ReadFirstEnd(c)
  <2>1. /\ u' = [u EXCEPT ![c] = EndWord(at[c], m[c], 1)]
        /\ cPc' = [cPc EXCEPT ![c] = "second"]
        /\ UNCHANGED <<rounds, at, leaked, size, product>>
    BY <1>6 DEF ReadFirstEnd
  <2>2. ConsumerTypes'
    BY <1>1, <1>2, <1>4, <2>1
    DEF product, GraphInv, ConsumerTypes, ConsumerLabels, Busy, EdgesWord
  <2>3. Undisturbed(c)'
    <3>1. Busy(c)' /\ cPc'[c] = "second" /\ u'[c] = EndWord(at[c], m[c], 1)
      BY <2>1 DEF Busy, GraphInv, ConsumerTypes
    <3> QED
      BY <1>1, <1>5, <2>1, <3>1
      DEF product, Undisturbed, ReadsPart, NodesWord, EdgesWord, EndWord
  <2> QED
    BY <2>2, <2>3
<1>7. CASE ReadSecondEnd(c) /\ End(c, "undefined")
  BY <1>1, <1>7, EndKeeps
<1>8. CASE ReadSecondEnd(c) /\ ~End(c, "undefined")
  <2> DEFINE e == <<u[c], EndWord(at[c], m[c], 2)>>
  <2>1. /\ cPc[c] = "second" /\ g' = [g EXCEPT ![c] = Append(@, e)]
        /\ m' = [m EXCEPT ![c] = @ + 1] /\ u' = [u EXCEPT ![c] = 0]
        /\ cPc' = [cPc EXCEPT ![c] = "edges"]
        /\ UNCHANGED <<rounds, at, leaked, size, n, prevN, sources, dist, par, torn, seen>>
    BY <1>8 DEF ReadSecondEnd
  <2>2. e \in Nat \X Nat
    BY <1>4 DEF GraphInv, ConsumerTypes
  <2>3. g[c] \in Seq(Nat \X Nat)
    BY DEF GraphInv, ConsumerTypes
  <2> HIDE DEF e
  <2>4. /\ Append(g[c], e) \in Seq(Nat \X Nat) /\ Len(Append(g[c], e)) = Len(g[c]) + 1
        /\ \A i \in 1..Len(g[c]) : Append(g[c], e)[i] = g[c][i]
        /\ Append(g[c], e)[Len(g[c]) + 1] = e
    BY <2>2, <2>3, AppendProperties
  <2>5. /\ g' \in [Consumers -> Seq(Nat \X Nat)] /\ g'[c] = Append(g[c], e)
        /\ m' \in [Consumers -> Nat] /\ m'[c] = m[c] + 1
    BY <2>1, <2>4 DEF GraphInv, ConsumerTypes
  <2>6. ASSUME NEW d \in Consumers
        PROVE  /\ cPc'[d] = "attach" \/ Busy(d)' => rounds'[d] > 0
               /\ Busy(d)' => at'[d] # NoSegment
               /\ cPc'[d] = "second" => m'[d] < EdgesWord(at[d])'
    BY <1>1, <1>2, <2>1 DEF GraphInv, ConsumerTypes, Busy, EdgesWord
  <2>7. ConsumerTypes'
    BY <1>1, <2>1, <2>5, <2>6 DEF GraphInv, ConsumerTypes, ConsumerLabels
  <2>8. Busy(c)' /\ cPc'[c] = "edges"
    BY <2>1 DEF Busy, GraphInv, ConsumerTypes
  <2>9. ASSUME ~torn[c] PROVE ReadsPart(c)'
    <3> DEFINE w == segment[at[c]]
    <3>1. /\ seen[c] = at[c] /\ n[c] = NodesWord(at[c]) /\ Len(g[c]) = m[c]
          /\ Extends(EdgesIn(w), g[c]) /\ u[c] = EndWord(at[c], m[c], 1)
      BY <1>5, <2>1, <2>9 DEF ReadsPart
    <3>2. at[c] \in 1..Newest
      BY <1>1, <1>2, <1>5, <2>9, <3>1 DEF GraphInv, ProducerInv, Published, Newest
    <3>3. Len(EdgesIn(w)) = w[3] /\ w[3] \in Nat /\ m[c] < w[3]
      BY <1>2, <3>2, ProductWords DEF GraphInv, EdgesWord
    <3>4. EdgesIn(w)[m[c] + 1] = e
      <4>1. m[c] + 1 \in 1..w[3] /\ 2 * (m[c] + 1) + 2 = 2 * m[c] + 4
            /\ 2 * (m[c] + 1) + 3 = 2 * m[c] + 5
        BY <1>2, <3>3
      <4>2. EdgesIn(w)[m[c] + 1] = <<w[2 * m[c] + 4], w[2 * m[c] + 5]>>
        BY <4>1 DEF EdgesIn
      <4> QED
        BY <1>3, <3>1, <4>2 DEF e
    <3> HIDE DEF w
    <3>5. Len(g'[c]) = m'[c] /\ Extends(EdgesIn(w), g'[c])
      BY SMTT(30), <1>2, <2>4, <2>5, <3>1, <3>3, <3>4 DEF Extends
    <3> QED
      BY <1>1, <2>1, <2>8, <3>1, <3>5 DEF ReadsPart, NodesWord, w
  <2> QED
    BY <1>1, <1>5, <2>1, <2>7, <2>8, <2>9 DEF Undisturbed
<1> QED
  BY <1>6, <1>7, <1>8

\* All edges are there: the loop ends with as many as the product has.
LEMMA ReadEdgesEndKeeps ==
  ASSUME GraphInv, NEW c \in Consumers, ReadEdgesEnd(c)
  PROVE  ConsumerTypes' /\ Undisturbed(c)'
<1>1. /\ segment' = segment /\ Newest' = Newest /\ Newest \in Int
      /\ cPc[c] = "edges" /\ m[c] >= EdgesWord(at[c]) /\ cPc' = [cPc EXCEPT ![c] = "update"]
      /\ UNCHANGED <<rounds, reading, product>>
  BY DEF ReadEdgesEnd, shm, producer, Newest, GraphInv, ProducerInv, ProducerTypes
<1>2. ConsumerTypes'
  BY <1>1 DEF reading, product, GraphInv, ConsumerTypes, ConsumerLabels, Busy, EdgesWord
<1>3. Busy(c) /\ Busy(c)' /\ cPc'[c] = "update"
  BY <1>1 DEF Busy, GraphInv, ConsumerTypes
<1>4. ASSUME ~torn[c] PROVE seen[c] \in 0..Newest /\ ReadsPart(c) /\ m[c] = EdgesWord(at[c])
  <2>1. seen[c] \in 0..Newest /\ ReadsPart(c)
    BY <1>3, <1>4 DEF GraphInv, Undisturbed
  <2>2. at[c] \in 1..Newest
    BY <1>1, <1>3, <2>1 DEF ReadsPart, GraphInv, ConsumerTypes, NoSegment
  <2>3. m[c] <= EdgesWord(at[c]) /\ m[c] \in Nat /\ EdgesWord(at[c]) \in Nat
    BY <2>1, <2>2, ProductWords DEF ReadsPart, Extends, GraphInv, ConsumerTypes, EdgesWord
  <2> QED
    BY <1>1, <2>1, <2>3
<1>5. Undisturbed(c)'
  BY <1>1, <1>3, <1>4
  DEF reading, product, Undisturbed, ReadsPart, NodesWord, EdgesWord, EndWord
<1> QED
  BY <1>2, <1>5

\* prev_n and m are those of the product: what is held is all of it.
LEMMA ComputeKeeps ==
  ASSUME GraphInv, NEW c \in Consumers, Compute(c)
  PROVE  ConsumerTypes' /\ Undisturbed(c)'
<1>1. /\ segment' = segment /\ Newest' = Newest /\ UNCHANGED <<shm, producer>>
      /\ Len(segment) \in Nat /\ cPc[c] = "update" /\ Busy(c)
  <2>1. UNCHANGED <<shm, producer>> /\ cPc[c] = "update"
    BY DEF Compute
  <2> QED
    BY <2>1 DEF GraphInv, ProducerInv, ProducerTypes, shm, producer, Newest, Busy
<1>2. \/ End(c, "undefined")
      \/ /\ m' = [m EXCEPT ![c] = EdgesWord(at[c])] /\ EndRound(c, leaked[c])
         /\ UNCHANGED <<size, u, n, prevN, g, torn, seen>>
  BY DEF Compute
<1>3. CASE End(c, "undefined")
  BY <1>1, <1>3, EndKeeps
<1>4. CASE /\ m' = [m EXCEPT ![c] = EdgesWord(at[c])] /\ EndRound(c, leaked[c])
           /\ UNCHANGED <<size, u, n, prevN, g, torn, seen>>
  <2>1. at[c] \in 1..Len(segment)
    BY <1>1 DEF GraphInv, ConsumerTypes, NoSegment
  <2>2. EdgesWord(at[c]) \in Nat
    BY <2>1, SegmentWords DEF GraphInv, EdgesWord
  <2>3. EndTypes(c)
    <3>1. leaked[c] \in SUBSET (1..Len(segment))
      BY DEF GraphInv, ConsumerTypes
    <3> QED
      BY <1>1, <1>4, <3>1, EndRoundTypes DEF GraphInv
  <2>4. m' \in [Consumers -> Nat] /\ m'[c] = EdgesWord(at[c])
    BY <1>4, <2>2 DEF GraphInv, ConsumerTypes
  <2>5. ASSUME NEW d \in Consumers
        PROVE  /\ cPc'[d] = "attach" \/ Busy(d)' => rounds'[d] > 0
               /\ Busy(d)' => at'[d] # NoSegment
               /\ cPc'[d] = "second" => m'[d] < EdgesWord(at[d])'
    BY <1>1, <1>4 DEF EndRound, GraphInv, ConsumerTypes, Busy, EdgesWord
  <2>6. ConsumerTypes'
    BY <1>1, <1>4, <2>3, <2>4, <2>5 DEF GraphInv, ConsumerTypes, EndTypes
  <2>7. ~Busy(c)'
    BY <1>4 DEF EndRound, Busy, GraphInv, ConsumerTypes
  <2>8. ASSUME ~torn[c] PROVE seen[c] \in 0..Newest /\ HoldsAll(c)'
    <3>1. /\ seen[c] \in 0..Newest /\ seen[c] = at[c] /\ n[c] = NodesWord(at[c])
          /\ Len(g[c]) = EdgesWord(at[c]) /\ Extends(EdgesIn(segment[at[c]]), g[c])
      BY <1>1, <2>8 DEF GraphInv, Undisturbed, ReadsPart
    <3>2. at[c] \in 1..Newest
      BY <2>1, <3>1
    <3>3. /\ EdgesIn(segment[at[c]]) \in Seq(Nat \X Nat)
          /\ Len(EdgesIn(segment[at[c]])) = EdgesWord(at[c])
      BY <3>2, ProductWords DEF GraphInv, EdgesWord
    <3>4. g[c] = EdgesIn(segment[at[c]])
      <4>1. g[c] \in Seq(Nat \X Nat)
        BY DEF GraphInv, ConsumerTypes
      <4> QED
        BY <3>1, <3>3, <4>1, SeqEqual DEF Extends
    <3> QED
      BY <1>1, <1>4, <2>1, <2>4, <3>1, <3>4 DEF HoldsAll, NodesWord, EdgesWord, NoSegment
  <2> QED
    BY <1>1, <1>4, <2>6, <2>7, <2>8 DEF Undisturbed
<1> QED
  BY <1>2, <1>3, <1>4

LEMMA ConsumerKeeps ==
  ASSUME GraphInv, NEW c \in Consumers, Consumer(c)
  PROVE  ConsumerTypes' /\ Undisturbed(c)'
<1>1. CASE Crash(c)
  BY <1>1, EndKeeps DEF Crash
<1>2. CASE Exit(c)
  BY <1>2, EndKeeps DEF Exit
<1> QED
  BY <1>1, <1>2, GetSizeKeeps, AttachKeeps, ReadEdgeKeeps, ReadEdgesEndKeeps, ComputeKeeps
  DEF Consumer

LEMMA InitConsumers == Init => ConsumerTypes /\ \A c \in Consumers : Undisturbed(c)
<1> SUFFICES ASSUME Init PROVE ConsumerTypes /\ \A c \in Consumers : Undisturbed(c)
  OBVIOUS
<1>1. Len(segment) = 1 /\ Newest = 1
  BY DEF Init, Newest
<1>2. ConsumerTypes
  BY <1>1, GraphAssumption
  DEF Init, ConsumerTypes, ConsumerLabels, Busy, NoSegment
<1>3. ASSUME NEW c \in Consumers PROVE Undisturbed(c)
  BY <1>1 DEF Init, Undisturbed, Busy, HoldsAll, NoSegment
<1> QED
  BY <1>2, <1>3

LEMMA GraphInductive == GraphInv /\ [Next]_vars => GraphInv'
<1> SUFFICES ASSUME GraphInv, [Next]_vars PROVE GraphInv'
  OBVIOUS
<1>1. CASE Producer
  BY <1>1, ProducerKeeps, ProducerLeaves DEF GraphInv
<1>2. ASSUME NEW c \in Consumers, Consumer(c) PROVE GraphInv'
  <2>1. /\ UNCHANGED <<shm, producer>> /\ ConsumerTypes' /\ Undisturbed(c)'
        /\ \A d \in Consumers \ {c} :
             /\ cPc'[d] = cPc[d] /\ at'[d] = at[d] /\ u'[d] = u[d] /\ n'[d] = n[d]
             /\ m'[d] = m[d] /\ g'[d] = g[d] /\ torn'[d] = torn[d] /\ seen'[d] = seen[d]
    BY <1>2, ConsumerKeeps, OneAtATime DEF GraphInv
  <2>2. ProducerInv'
    BY <2>1 DEF GraphInv, ProducerInv, ProducerTypes, Published, Filling, Newest, NodesWord,
                shm, producer
  <2>3. segment' = segment /\ Newest' = Newest
    BY <2>1 DEF shm, producer, Newest
  <2>4. ASSUME NEW d \in Consumers \ {c} PROVE Undisturbed(d)'
    <3>1. Undisturbed(d)
      BY DEF GraphInv
    <3> QED
      BY <2>1, <2>3, <3>1
      DEF Undisturbed, ReadsPart, HoldsAll, Busy, NodesWord, EdgesWord, EndWord
  <2> QED
    BY <2>1, <2>2, <2>4 DEF GraphInv
<1>3. CASE UNCHANGED vars
  <2>1. UNCHANGED <<shm, producer, cPc, rounds, reading, product>>
    BY <1>3 DEF vars
  <2>2. ProducerInv'
    BY <2>1 DEF GraphInv, ProducerInv, ProducerTypes, Published, Filling, Newest, NodesWord,
                shm, producer
  <2>3. ConsumerTypes'
    BY <2>1 DEF GraphInv, ConsumerTypes, Busy, EdgesWord, shm, reading, product
  <2>4. ASSUME NEW d \in Consumers PROVE Undisturbed(d)'
    <3>1. Undisturbed(d)
      BY DEF GraphInv
    <3> QED
      BY <2>1, <3>1
      DEF Undisturbed, ReadsPart, HoldsAll, Busy, NodesWord, EdgesWord, EndWord, Newest,
          shm, producer, reading, product
  <2> QED
    BY <2>2, <2>3, <2>4 DEF GraphInv
<1> QED
  BY <1>1, <1>2, <1>3 DEF Next

\* The variables keep to their types, however many processes and productions there are.
THEOREM TypeCorrect == Spec => []TypeOK
<1>1. Init => GraphInv
  BY InitProducer, InitConsumers DEF GraphInv
<1>2. GraphInv => TypeOK
  <2> SUFFICES ASSUME GraphInv PROVE TypeOK
    OBVIOUS
  <2>1. key \in 0..Len(segment) /\ pEdges \in Seq((0..(pN - 1)) \X (0..(pN - 1)))
    BY DEF GraphInv, ProducerInv, ProducerTypes, Pairs, NoSegment
  <2> QED
    BY <2>1 DEF GraphInv, ProducerInv, ProducerTypes, ConsumerTypes, Busy, TypeOK
<1> QED
  BY <1>1, <1>2, GraphInductive, PTL DEF Spec

\* However the processes interleave at the words of the segments, and however many
\* productions a consumer misses, what it holds between two rounds is one product, and
\* all of it, unless it once took one from a segment that was not complete.
THEOREM OneProduct == Spec => []ReadsOneProduct
<1>1. Init => GraphInv
  BY InitProducer, InitConsumers DEF GraphInv
<1>2. GraphInv => ReadsOneProduct
  <2> SUFFICES ASSUME GraphInv, NEW c \in Consumers, Resting(c), ~torn[c],
                      seen[c] # NoSegment
               PROVE  Image(n[c], g[c]) = segment[seen[c]] /\ m[c] = Len(g[c])
    BY DEF ReadsOneProduct
  <2>1. /\ seen[c] \in 1..Newest /\ n[c] = NodesWord(seen[c]) /\ m[c] = EdgesWord(seen[c])
        /\ g[c] = EdgesIn(segment[seen[c]])
    BY DEF GraphInv, Undisturbed, Resting, Busy, HoldsAll, NoSegment
  <2>2. IsProduct(segment[seen[c]]) /\ Len(g[c]) = m[c]
    BY <2>1, ProductWords DEF GraphInv, ProducerInv, Published, EdgesWord
  <2> QED
    BY <2>1, <2>2 DEF IsProduct, NodesWord
<1> QED
  BY <1>1, <1>2, GraphInductive, PTL DEF Spec

-----------------------------------------------------------------------------
(* Recursive functions and the neighbours of a node *)

\* A set of naturals has a least member.
LEMMA LeastNatural ==
  ASSUME NEW S, S \subseteq Nat, S # {}
  PROVE  \E x \in S : \A y \in S : x <= y
<1>1. IsWellFoundedOn(OpToRel(<, Nat), Nat)
  BY NatLessThanWellFounded
<1>2. PICK x \in S : \A y \in S : ~ (<<y, x>> \in OpToRel(<, Nat))
  BY <1>1, WFMin
<1>3. \A y \in S : ~ (y < x)
  BY <1>2 DEF OpToRel
<1> QED
  BY <1>3

\* What holds at first and is handed on holds of all the numbers up to the last.
LEMMA Inductive ==
  ASSUME NEW k \in Nat, NEW S, 0 \in S,
         \A j \in 0..k : j # k /\ j \in S => j + 1 \in S
  PROVE  0..k \subseteq S
<1> DEFINE Bad == {j \in 0..k : j \notin S}
<1> SUFFICES ASSUME Bad # {}
             PROVE  FALSE
  OBVIOUS
<1>1. PICK j \in Bad : \A i \in Bad : j <= i
  <2>1. Bad \subseteq Nat
    OBVIOUS
  <2> HIDE DEF Bad
  <2> QED
    BY <2>1, LeastNatural
<1>2. j \in 0..k /\ j \notin S /\ j # 0
  BY <1>1
<1>3. j - 1 \in 0..k /\ ~(j <= j - 1) /\ (j - 1) + 1 = j /\ j - 1 # k
  BY <1>2
<1>4. j - 1 \in S
  BY <1>1, <1>3
<1> QED
  BY <1>2, <1>3, <1>4

\* Each value of a recursion comes from the one before.
IsIteration(h, k, base, F) ==
  h[0] = base /\ \A j \in 1..k : h[j] = F[<<j, h[j - 1]>>]

\* A recursion that keeps to a set has a function of its values.
LEMMA Iterates ==
  ASSUME NEW S, NEW base \in S, NEW k \in Nat, NEW F \in [(1..k) \X S -> S]
  PROVE  \E h \in [0..k -> S] : IsIteration(h, k, base, F)
<1> DEFINE Upto(i) == \E h \in [0..k -> S] :
                        h[0] = base /\ \A j \in 1..i : h[j] = F[<<j, h[j - 1]>>]
           Good == {i \in 0..k : Upto(i)}
<1>1. 0 \in Good
  <2>1. [j \in 0..k |-> base] \in [0..k -> S]
    OBVIOUS
  <2>2. 0 \in 0..k /\ 1..0 = {}
    OBVIOUS
  <2> QED
    BY <2>1, <2>2
<1>2. ASSUME NEW i \in 0..k, i # k, i \in Good
      PROVE  i + 1 \in Good
  <2>1. PICK h \in [0..k -> S] : h[0] = base /\ \A j \in 1..i : h[j] = F[<<j, h[j - 1]>>]
    BY <1>2
  <2> DEFINE x == F[<<i + 1, h[i]>>]
             more == [h EXCEPT ![i + 1] = x]
  <2>2. i + 1 \in 1..k /\ i + 1 \in 0..k
    BY <1>2
  <2>3. x \in S
    BY <2>2
  <2> HIDE DEF x
  <2>4. more \in [0..k -> S] /\ \A j \in 0..k : more[j] = IF j = i + 1 THEN x ELSE h[j]
    BY <2>2, <2>3
  <2> HIDE DEF more
  <2>5. more[0] = base
    BY <2>1, <2>4
  <2>6. ASSUME NEW j \in 1..(i + 1)
        PROVE  more[j] = F[<<j, more[j - 1]>>]
    <3>1. j \in 0..k /\ j - 1 \in 0..k /\ j - 1 # i + 1 /\ (j = i + 1 \/ j \in 1..i)
      BY <2>2
    <3>2. more[j - 1] = h[j - 1]
      BY <2>4, <3>1
    <3>3. CASE j = i + 1
      <4>1. j - 1 = i /\ more[j] = x
        BY <2>4, <3>1, <3>3
      <4>2. F[<<j, more[j - 1]>>] = F[<<i + 1, h[i]>>]
        BY <3>2, <3>3, <4>1
      <4> QED
        BY <4>1, <4>2 DEF x
    <3>4. CASE j \in 1..i /\ j # i + 1
      <4>1. more[j] = h[j] /\ h[j] = F[<<j, h[j - 1]>>]
        BY <2>1, <2>4, <3>1, <3>4
      <4> QED
        BY <3>2, <4>1
    <3> QED
      BY <3>1, <3>3, <3>4
  <2> QED
    BY <2>2, <2>4, <2>5, <2>6
<1>3. k \in Good
  <2> HIDE DEF Good
  <2>1. 0..k \subseteq Good
    BY <1>1, <1>2, Inductive
  <2> QED
    BY <2>1
<1> QED
  BY <1>3 DEF IsIteration

\* An edge between two nodes, whichever it was read as.
Linked(E, v, w) == \E i \in 1..Len(E) : E[i] = <<v, w>> \/ E[i] = <<w, v>>

\* The two ends of the i-th edge among the ends.
LEMMA EndsOfEdge ==
  ASSUME NEW E, NEW i \in Nat, i >= 1
  PROVE  /\ Ends(E, 2 * i - 1) = E[i][1] /\ Ends(E, 2 * i) = E[i][2]
         /\ (2 * i - 1) % 2 = 1 /\ (2 * i) % 2 = 0
<1>1. (2 * i - 1 + 1) \div 2 = i /\ (2 * i - 1) % 2 = 1
  OBVIOUS
<1>2. (2 * i + 1) \div 2 = i /\ (2 * i) % 2 = 0
  OBVIOUS
<1> QED
  BY <1>1, <1>2 DEF Ends

\* The list of a node has those that are linked to it.
LEMMA AdjacentAre ==
  ASSUME NEW E \in Seq(Nat \X Nat), NEW v \in Nat
  PROVE  /\ Adjacent(E, v) \in Seq(Nat)
         /\ \A w : w \in ToSet(Adjacent(E, v)) <=> Linked(E, v, w)
<1> DEFINE S == {k \in 1..(2 * Len(E)) : Ends(E, k) = v}
           Partner(k) == Ends(E, IF k % 2 = 1 THEN k + 1 ELSE k - 1)
           pushed == InOrder(S)
           list == Adjacent(E, v)
<1>1. Len(E) \in Nat /\ \A i \in 1..Len(E) : E[i] \in Nat \X Nat
  OBVIOUS
<1>2. \A k \in 1..(2 * Len(E)) :
        \E i \in 1..Len(E) : k = 2 * i - 1 \/ k = 2 * i
  <2> SUFFICES ASSUME NEW k \in 1..(2 * Len(E))
               PROVE  \E i \in 1..Len(E) : k = 2 * i - 1 \/ k = 2 * i
    OBVIOUS
  <2>1. k = 2 * (k \div 2) + (k % 2) /\ k % 2 \in {0, 1} /\ k \div 2 \in Nat
    BY <1>1
  <2>2. CASE k % 2 = 0
    <3>1. k \div 2 \in 1..Len(E) /\ k = 2 * (k \div 2)
      BY <1>1, <2>1, <2>2
    <3> QED
      BY <3>1
  <2>3. CASE k % 2 = 1
    <3> DEFINE h == k \div 2
    <3>1. h \in Nat /\ k = 2 * h + 1
      BY <2>1, <2>3
    <3> HIDE DEF h
    <3>2. h + 1 \in 1..Len(E) /\ k = 2 * (h + 1) - 1
      BY <1>1, <3>1
    <3> QED
      BY <3>2
  <2> QED
    BY <2>1, <2>2, <2>3
<1>3. ASSUME NEW i \in 1..Len(E)
      PROVE  /\ 2 * i - 1 \in 1..(2 * Len(E)) /\ 2 * i \in 1..(2 * Len(E))
             /\ Ends(E, 2 * i - 1) = E[i][1] /\ Ends(E, 2 * i) = E[i][2]
             /\ Partner(2 * i - 1) = E[i][2] /\ Partner(2 * i) = E[i][1]
  <2>1. i \in Nat /\ i >= 1 /\ 2 * i - 1 + 1 = 2 * i
    BY <1>1
  <2>2. /\ Ends(E, 2 * i - 1) = E[i][1] /\ Ends(E, 2 * i) = E[i][2]
        /\ (2 * i - 1) % 2 = 1 /\ (2 * i) % 2 = 0
    BY <2>1, EndsOfEdge
  <2>3. 2 * i - 1 \in 1..(2 * Len(E)) /\ 2 * i \in 1..(2 * Len(E))
    BY <1>1, <2>1
  <2>4. Partner(2 * i - 1) = Ends(E, 2 * i - 1 + 1) /\ Partner(2 * i) = Ends(E, 2 * i - 1)
    BY <2>2
  <2>5. Partner(2 * i - 1) = Ends(E, 2 * i)
    BY <2>1, <2>4
  <2> HIDE DEF Partner, S, pushed, list
  <2> QED
    BY <2>2, <2>3, <2>4, <2>5
<1>4. S \in SUBSET Nat /\ IsFiniteSet(S)
  <2>1. IsFiniteSet(1..(2 * Len(E)))
    BY <1>1, FS_Interval
  <2> QED
    BY <2>1, FS_Subset
<1>5. /\ DOMAIN pushed = 1..Cardinality(S) /\ Cardinality(S) \in Nat
      /\ \A k \in 1..Cardinality(S) : pushed[k] \in S
      /\ \A i \in S : \E k \in 1..Cardinality(S) : pushed[k] = i
  <2>1. DOMAIN pushed = 1..Cardinality(S)
    BY DEF InOrder
  <2> HIDE DEF S
  <2> QED
    BY <1>4, <2>1, Ranked, FS_CardinalityType
<1>6. list = [j \in 1..Cardinality(S) |-> Partner(pushed[j])]
  BY <1>5 DEF Adjacent
<1>7. \A k \in S : Partner(k) \in Nat /\ Linked(E, v, Partner(k))
  <2> SUFFICES ASSUME NEW k \in S
               PROVE  Partner(k) \in Nat /\ Linked(E, v, Partner(k))
    OBVIOUS
  <2>1. PICK i \in 1..Len(E) : k = 2 * i - 1 \/ k = 2 * i
    BY <1>2
  <2>2. E[i] \in Nat \X Nat /\ E[i] = <<E[i][1], E[i][2]>>
    BY <1>1
  <2>3. Ends(E, k) = v
    OBVIOUS
  <2> HIDE DEF Partner
  <2>4. \/ v = E[i][1] /\ Partner(k) = E[i][2]
        \/ v = E[i][2] /\ Partner(k) = E[i][1]
    BY <1>3, <2>1, <2>3
  <2>5. E[i] = <<v, Partner(k)>> \/ E[i] = <<Partner(k), v>>
    BY <2>2, <2>4
  <2>6. Partner(k) \in Nat
    BY <2>2, <2>4
  <2> QED
    BY <2>5, <2>6 DEF Linked
<1>8. ASSUME NEW w, Linked(E, v, w) PROVE \E k \in S : Partner(k) = w
  <2>1. PICK i \in 1..Len(E) : E[i] = <<v, w>> \/ E[i] = <<w, v>>
    BY <1>8 DEF Linked
  <2> HIDE DEF Partner
  <2>2. \/ Ends(E, 2 * i - 1) = v /\ Partner(2 * i - 1) = w
        \/ Ends(E, 2 * i) = v /\ Partner(2 * i) = w
    BY <1>3, <2>1
  <2> QED
    BY <1>3, <2>2
<1> HIDE DEF S, pushed, list, Partner
<1>9. list \in [1..Cardinality(S) -> Nat]
  BY <1>5, <1>6, <1>7
<1>10. list \in Seq(Nat) /\ DOMAIN list = 1..Cardinality(S)
  BY <1>5, <1>9, FunctionIsSeq
<1>11. ASSUME NEW w PROVE w \in ToSet(list) <=> Linked(E, v, w)
  <2>1. ASSUME w \in ToSet(list) PROVE Linked(E, v, w)
    <3>1. PICK j \in 1..Cardinality(S) : list[j] = w
      BY <1>10, <2>1 DEF ToSet
    <3> QED
      BY <1>5, <1>6, <1>7, <3>1
  <2>2. ASSUME Linked(E, v, w) PROVE w \in ToSet(list)
    <3>1. PICK k \in S : Partner(k) = w
      BY <1>8, <2>2
    <3>2. PICK j \in 1..Cardinality(S) : pushed[j] = k
      BY <1>5
    <3>3. list[j] = w
      BY <1>6, <3>1, <3>2
    <3> QED
      BY <1>10, <3>3 DEF ToSet
  <2> QED
    BY <2>1, <2>2
<1> QED
  BY <1>10, <1>11 DEF list

-----------------------------------------------------------------------------
(* What makes distances and parents right: a condition on single edges *)

\* The sources, and only they, are at distance 0; a parent is a neighbour that is one
\* nearer; neighbours are at most one apart.
Solved(E, N, S, d, p) ==
  \A v \in 0..(N - 1) :
    /\ d[v] \in 0..N
    /\ v \in S <=> d[v] = 0
    /\ v \in S => p[v] = v
    /\ v \notin S => /\ p[v] \in 0..(N - 1) /\ Linked(E, v, p[v])
                     /\ d[p[v]] + 1 = d[v]
    /\ \A w \in 0..(N - 1) : Linked(E, v, w) => d[w] <= d[v] + 1

\* An edge has no direction.
LEMMA LinkedBothWays ==
  ASSUME NEW E, NEW v, NEW w, Linked(E, v, w)  PROVE Linked(E, w, v)
BY DEF Linked

\* The nodes within k edges are those whose distance is at most k.
LEMMA WithinIs ==
  ASSUME NEW N \in Nat, NEW E \in Seq(Pairs(N)), NEW S \in SUBSET (0..(N - 1)),
         NEW d, NEW p, Solved(E, N, S, d, p), NEW k \in Nat
  PROVE  \A v : v \in Within(E, N, S, k) <=> v \in 0..(N - 1) /\ d[v] <= k
<1> DEFINE More(X) == X \cup UNION {ToSet(Adjacent(E, v)) : v \in X}
           IsNear(near) == near = [j \in 0..k |-> IF j = 0 THEN S ELSE More(near[j - 1])]
           near == CHOOSE f : IsNear(f)
           Ball(j) == {v \in 0..(N - 1) : d[v] <= j}
           Sets == SUBSET Nat
           F == [x \in (1..k) \X Sets |-> More(x[2])]
<1>1. E \in Seq(Nat \X Nat) /\ \A i \in 1..Len(E) : E[i] \in Pairs(N)
  <2>1. Pairs(N) \subseteq Nat \X Nat
    BY DEF Pairs
  <2> QED
    BY <2>1, SeqMonotonic
<1>2. Within(E, N, S, k) = near[k]
  BY DEF Within
<1>3. \A X \in SUBSET Nat : More(X) \in SUBSET Nat
  <2> SUFFICES ASSUME NEW X \in SUBSET Nat, NEW v \in X
               PROVE  ToSet(Adjacent(E, v)) \in SUBSET Nat
    OBVIOUS
  <2>1. Adjacent(E, v) \in Seq(Nat)
    BY <1>1, AdjacentAre
  <2> QED
    BY <2>1 DEF ToSet
<1> HIDE DEF More
<1>4. \E f : IsNear(f)
  <2>1. F \in [(1..k) \X Sets -> Sets] /\ S \in Sets
    BY <1>3
  <2>2. PICK f \in [0..k -> Sets] : IsIteration(f, k, S, F)
    <3> HIDE DEF F, Sets
    <3> QED
      BY <2>1, Iterates
  <2>3. ASSUME NEW j \in 1..k PROVE f[j] = More(f[j - 1])
    <3>1. <<j, f[j - 1]>> \in (1..k) \X Sets
      <4>1. j - 1 \in 0..k
        OBVIOUS
      <4> QED
        BY <4>1
    <3> QED
      BY <2>2, <3>1 DEF IsIteration
  <2>4. \A j \in 0..k : j = 0 \/ j \in 1..k
    OBVIOUS
  <2>5. f = [j \in 0..k |-> IF j = 0 THEN S ELSE More(f[j - 1])]
    BY <2>2, <2>3, <2>4 DEF IsIteration
  <2> QED
    BY <2>5
<1>5. IsNear(near)
  BY <1>4
<1> HIDE DEF near
<1>6. near[0] = S /\ \A j \in 1..k : near[j] = More(near[j - 1])
  BY <1>5
<1> HIDE DEF IsNear
<1>7. ASSUME NEW j \in 0..k, j # k, near[j] = Ball(j)
      PROVE  near[j + 1] = Ball(j + 1)
  <2>1. near[j + 1] = More(Ball(j))
    <3>1. j + 1 \in 1..k /\ (j + 1) - 1 = j
      BY <1>7
    <3> QED
      BY <1>6, <1>7, <3>1
  <2>2. ASSUME NEW w \in More(Ball(j)) PROVE w \in Ball(j + 1)
    <3>1. CASE w \in Ball(j)
      BY <3>1 DEF Solved
    <3>2. CASE w \notin Ball(j)
      <4>1. PICK v \in Ball(j) : w \in ToSet(Adjacent(E, v))
        BY <3>2 DEF More
      <4>2. Linked(E, v, w)
        BY <1>1, <4>1, AdjacentAre
      <4>3. w \in 0..(N - 1)
        BY <1>1, <4>2 DEF Linked, Pairs
      <4> QED
        BY <4>1, <4>2, <4>3 DEF Solved
    <3> QED
      BY <3>1, <3>2
  <2>3. ASSUME NEW w \in Ball(j + 1) PROVE w \in More(Ball(j))
    <3>1. CASE w \in Ball(j)
      BY <3>1 DEF More
    <3>2. CASE w \notin Ball(j)
      <4>1. d[w] \in Nat /\ d[w] <= j + 1 /\ ~(d[w] <= j)
        BY <3>2 DEF Solved
      <4>2. w \notin S
        BY <4>1 DEF Solved
      <4>3. p[w] \in 0..(N - 1) /\ Linked(E, p[w], w) /\ d[p[w]] + 1 = d[w] /\ d[p[w]] \in Nat
        BY <4>2, LinkedBothWays DEF Solved
      <4>4. p[w] \in Ball(j)
        BY <4>1, <4>3
      <4>5. w \in ToSet(Adjacent(E, p[w]))
        <5>1. p[w] \in Nat
          BY <4>3
        <5> QED
          BY <1>1, <4>3, <5>1, AdjacentAre
      <4> QED
        BY <4>4, <4>5 DEF More
    <3> QED
      BY <3>1, <3>2
  <2> QED
    BY <2>1, <2>2, <2>3
<1>8. near[0] = Ball(0)
  <2>1. \A v \in 0..(N - 1) : v \in S <=> d[v] <= 0
    BY DEF Solved
  <2> QED
    BY <1>6, <2>1
<1> DEFINE Good == {j \in 0..k : near[j] = Ball(j)}
<1>9. 0 \in Good /\ \A j \in 0..k : j # k /\ j \in Good => j + 1 \in Good
  <2> HIDE DEF Ball
  <2> QED
    BY <1>7, <1>8
<1>10. k \in Good
  <2> HIDE DEF Good
  <2>1. 0..k \subseteq Good
    BY <1>9, Inductive
  <2> QED
    BY <2>1
<1> QED
  BY <1>2, <1>10

\* So d has the true distances and p leads to the sources.
LEMMA SolvedIsCorrect ==
  ASSUME NEW N \in Nat, NEW E \in Seq(Pairs(N)), NEW S \in SUBSET (0..(N - 1)),
         NEW d \in [0..(N - 1) -> Nat], NEW p \in [0..(N - 1) -> Int],
         Solved(E, N, S, d, p)
  PROVE  Correct(E, N, S, d, p)
<1>1. ASSUME NEW v \in 0..(N - 1) PROVE d[v] = TrueDistance(E, N, S, v)
  <2> DEFINE ks == {k \in 0..N : v \in Within(E, N, S, k)}
  <2>1. ASSUME NEW k \in 0..N PROVE v \in Within(E, N, S, k) <=> d[v] <= k
    <3>1. k \in Nat
      OBVIOUS
    <3> HIDE DEF ks
    <3> QED
      BY <3>1, WithinIs
  <2>2. ks = {k \in 0..N : d[v] <= k} /\ d[v] \in 0..N
    BY <2>1 DEF Solved
  <2>3. d[v] \in ks /\ \A k \in ks : d[v] <= k
    <3> HIDE DEF ks
    <3> QED
      BY <2>2
  <2>4. \A k \in ks : (\A j \in ks : k <= j) => k = d[v]
    <3> HIDE DEF ks
    <3> SUFFICES ASSUME NEW k \in ks, \A j \in ks : k <= j PROVE k = d[v]
      OBVIOUS
    <3>1. k <= d[v] /\ d[v] <= k /\ k \in Nat /\ d[v] \in Nat
      BY <2>2, <2>3
    <3> QED
      BY <3>1
  <2> HIDE DEF ks
  <2>5. Min(ks) = d[v] /\ ks # {}
    BY <2>3, <2>4 DEF Min
  <2> QED
    BY <2>5 DEF TrueDistance, ks
<1>2. E \in Seq(Nat \X Nat)
  <2>1. Pairs(N) \subseteq Nat \X Nat
    BY DEF Pairs
  <2> QED
    BY <2>1, SeqMonotonic
<1>3. ASSUME NEW v \in 0..(N - 1)
      PROVE  IF v \in S THEN p[v] = v
             ELSE p[v] \in ToSet(Adjacent(E, v)) /\ d[p[v]] + 1 = d[v]
  <2>1. v \in Nat /\ \A w : w \in ToSet(Adjacent(E, v)) <=> Linked(E, v, w)
    BY <1>2, AdjacentAre
  <2> QED
    BY <2>1 DEF Solved
<1> QED
  BY <1>1, <1>3 DEF Correct

-----------------------------------------------------------------------------
(* Breadth-first search *)

States(last) == [dist : [0..last -> Nat], par : [0..last -> Int], queue : Seq(0..last)]

\* The nodes that a turn of the loop reaches.
Near(s, E, last) ==
  {v \in 0..last : Linked(E, Head(s.queue), v) /\ s.dist[v] > s.dist[Head(s.queue)] + 1}

\* It pushes each of them once.
LEMMA VisitIs ==
  ASSUME NEW last \in Nat, NEW E \in Seq(Nat \X Nat), NEW s \in States(last),
         s.queue # <<>>
  PROVE  /\ Visit(s, E, last) \in States(last)
         /\ \A v \in 0..last :
              /\ Visit(s, E, last).dist[v] = IF v \in Near(s, E, last)
                                             THEN s.dist[Head(s.queue)] + 1 ELSE s.dist[v]
              /\ Visit(s, E, last).par[v] = IF v \in Near(s, E, last)
                                            THEN Head(s.queue) ELSE s.par[v]
         /\ \E q \in Seq(0..last) :
              /\ Visit(s, E, last).queue = Tail(s.queue) \o q
              /\ \A i \in 1..Len(q) : q[i] \in Near(s, E, last)
              /\ \A v \in Near(s, E, last) : \E i \in 1..Len(q) : q[i] = v
              /\ \A i, j \in 1..Len(q) : q[i] = q[j] => i = j
<1> DEFINE fs == Head(s.queue)
           list == Adjacent(E, fs)
           First(k) == /\ list[k] <= last /\ s.dist[list[k]] > s.dist[fs] + 1
                       /\ \A j \in 1..(k - 1) : list[j] # list[k]
           S == {k \in DOMAIN list : First(k)}
           reached == InOrder(S)
           q == [j \in DOMAIN reached |-> list[reached[j]]]
           near == Near(s, E, last)
<1>1. /\ s.dist \in [0..last -> Nat] /\ s.par \in [0..last -> Int]
      /\ s.queue \in Seq(0..last) /\ fs \in 0..last /\ fs \in Nat
      /\ Tail(s.queue) \in Seq(0..last)
  <2>1. s.queue \in Seq(0..last)
    BY DEF States
  <2>2. fs \in 0..last /\ Tail(s.queue) \in Seq(0..last)
    BY <2>1, HeadTailProperties
  <2> QED
    BY <2>1, <2>2 DEF States
<1>2. /\ Visit(s, E, last).dist = [v \in 0..last |-> IF v \in ToSet(q) THEN s.dist[fs] + 1
                                                                       ELSE s.dist[v]]
      /\ Visit(s, E, last).par = [v \in 0..last |-> IF v \in ToSet(q) THEN fs ELSE s.par[v]]
      /\ Visit(s, E, last).queue = Tail(s.queue) \o q
      /\ Visit(s, E, last) = [dist |-> Visit(s, E, last).dist, par |-> Visit(s, E, last).par,
                              queue |-> Visit(s, E, last).queue]
  BY <1>1 DEF Visit
<1>3. list \in Seq(Nat) /\ \A w : w \in ToSet(list) <=> Linked(E, fs, w)
  BY <1>1, AdjacentAre
<1>4. /\ S \in SUBSET Nat /\ IsFiniteSet(S) /\ DOMAIN list = 1..Len(list) /\ Len(list) \in Nat
      /\ \A k \in 1..Len(list) : list[k] \in Nat
  <2> HIDE DEF list
  <2>1. DOMAIN list = 1..Len(list) /\ Len(list) \in Nat
    BY <1>3
  <2>2. IsFiniteSet(1..Len(list))
    <3>1. 1 \in Int /\ Len(list) \in Int
      BY <2>1
    <3> QED
      BY <3>1, FS_Interval
  <2>3. S \in SUBSET (1..Len(list))
    BY <2>1
  <2>4. \A k \in 1..Len(list) : list[k] \in Nat
    BY <1>3
  <2> HIDE DEF S
  <2>5. IsFiniteSet(S)
    BY <2>2, <2>3, FS_Subset
  <2>6. S \in SUBSET Nat
    BY <2>3
  <2> QED
    BY <2>1, <2>4, <2>5, <2>6
<1> HIDE DEF fs
<1>5. /\ DOMAIN reached = 1..Cardinality(S) /\ Cardinality(S) \in Nat
      /\ \A j \in 1..Cardinality(S) : reached[j] \in S
      /\ \A k \in S : \E j \in 1..Cardinality(S) : reached[j] = k
      /\ \A i, j \in 1..Cardinality(S) : reached[i] = reached[j] => i = j
  <2>1. DOMAIN reached = 1..Cardinality(S)
    BY DEF InOrder
  <2> HIDE DEF S
  <2> QED
    BY <1>4, <2>1, Ranked, FS_CardinalityType
<1> HIDE DEF reached, list
<1>6. ASSUME NEW k \in S PROVE list[k] \in near /\ list[k] \in 0..last
  <2>1. list[k] \in ToSet(list) /\ list[k] \in 0..last
    BY <1>4 DEF ToSet
  <2> QED
    BY <1>3, <2>1 DEF Near, fs
<1>7. ASSUME NEW v \in near PROVE \E k \in S : list[k] = v
  <2>1. v \in 0..last /\ v \in ToSet(list) /\ s.dist[v] > s.dist[fs] + 1
    BY <1>3 DEF Near, fs
  <2> DEFINE At == {k \in 1..Len(list) : list[k] = v}
  <2>2. At \subseteq Nat /\ At # {}
    BY <1>4, <2>1 DEF ToSet
  <2>3. PICK k \in At : \A j \in At : k <= j
    <3> HIDE DEF At
    <3> QED
      BY <2>2, LeastNatural
  <2>4. \A j \in 1..(k - 1) : list[j] # list[k]
    <3> SUFFICES ASSUME NEW j \in 1..(k - 1), list[j] = list[k] PROVE FALSE
      OBVIOUS
    <3>1. j \in At /\ ~(k <= j)
      BY <1>4
    <3> QED
      BY <2>3, <3>1
  <2>5. k \in S
    BY <1>4, <2>1, <2>4
  <2> QED
    BY <2>5
<1>8. ASSUME NEW j \in S, NEW k \in S, list[j] = list[k] PROVE j = k
  <2>1. j \in Nat /\ k \in Nat /\ j >= 1 /\ k >= 1
    BY <1>4
  <2>2. ~(j < k)
    <3> SUFFICES ASSUME j < k PROVE FALSE
      OBVIOUS
    <3>1. j \in 1..(k - 1)
      BY <2>1
    <3> QED
      BY <1>8, <3>1
  <2>3. ~(k < j)
    <3> SUFFICES ASSUME k < j PROVE FALSE
      OBVIOUS
    <3>1. k \in 1..(j - 1)
      BY <2>1
    <3> QED
      BY <1>8, <3>1
  <2> QED
    BY <2>1, <2>2, <2>3
<1> HIDE DEF S, near
<1>9. q \in [1..Cardinality(S) -> 0..last]
  BY <1>5, <1>6
<1>10. q \in Seq(0..last) /\ Len(q) = Cardinality(S) /\ DOMAIN q = 1..Cardinality(S)
  <2> HIDE DEF q
  <2> QED
    BY <1>5, <1>9, FunctionIsSeq
<1>11. \A j \in 1..Cardinality(S) : q[j] = list[reached[j]]
  BY <1>5
<1> HIDE DEF q
<1>12. /\ \A i \in 1..Len(q) : q[i] \in near
       /\ \A v \in near : \E i \in 1..Len(q) : q[i] = v
       /\ \A i, j \in 1..Len(q) : q[i] = q[j] => i = j
  <2>1. \A i \in 1..Len(q) : q[i] \in near
    BY <1>5, <1>6, <1>10, <1>11
  <2>2. ASSUME NEW v \in near PROVE \E i \in 1..Len(q) : q[i] = v
    <3>1. PICK k \in S : list[k] = v
      BY <1>7
    <3>2. PICK i \in 1..Cardinality(S) : reached[i] = k
      BY <1>5
    <3> QED
      BY <1>10, <1>11, <3>1, <3>2
  <2>3. ASSUME NEW i \in 1..Len(q), NEW j \in 1..Len(q), q[i] = q[j] PROVE i = j
    <3>1. /\ i \in 1..Cardinality(S) /\ j \in 1..Cardinality(S)
          /\ list[reached[i]] = list[reached[j]]
      BY <1>10, <1>11, <2>3
    <3>2. reached[i] = reached[j]
      BY <1>5, <1>8, <3>1
    <3> QED
      BY <1>5, <3>1, <3>2
  <2> QED
    BY <2>1, <2>2, <2>3
<1>13. \A v : v \in ToSet(q) <=> v \in near
  BY <1>10, <1>12 DEF ToSet
<1>14. Visit(s, E, last) \in States(last)
  <2>1. /\ Visit(s, E, last).dist \in [0..last -> Nat]
        /\ Visit(s, E, last).par \in [0..last -> Int]
    <3>1. s.dist[fs] + 1 \in Nat /\ fs \in Int
      <4>1. s.dist \in [0..last -> Nat] /\ fs \in 0..last
        BY <1>1
      <4>2. s.dist[fs] \in Nat
        BY <4>1
      <4> QED
        BY <4>1, <4>2
    <3>2. \A v \in 0..last : s.dist[v] \in Nat /\ s.par[v] \in Int
      BY <1>1
    <3> QED
      BY <1>2, <3>1, <3>2
  <2>2. Visit(s, E, last).queue \in Seq(0..last)
    BY <1>1, <1>2, <1>10, ConcatProperties
  <2> QED
    BY <1>2, <2>1, <2>2 DEF States
<1>15. \A v \in 0..last :
         /\ Visit(s, E, last).dist[v] = IF v \in near THEN s.dist[fs] + 1 ELSE s.dist[v]
         /\ Visit(s, E, last).par[v] = IF v \in near THEN fs ELSE s.par[v]
  BY <1>2, <1>13
<1> QED
  BY <1>2, <1>10, <1>12, <1>14, <1>15 DEF near, fs

\* The distances that are known, with their parents; none is above k.
Known(E, last, S, s, k) ==
  \A v \in 0..last :
    /\ s.dist[v] # Infinity => s.dist[v] <= k
    /\ v \in S <=> s.dist[v] = 0
    /\ v \in S => s.par[v] = v
    /\ v \notin S /\ s.dist[v] # Infinity =>
         /\ s.par[v] \in 0..last /\ Linked(E, v, s.par[v])
         /\ s.dist[s.par[v]] + 1 = s.dist[v]

\* The queue has different nodes, the nearest first, and nobody known is further away
\* than the next node and one edge.
Queued(last, s) ==
  /\ \A i, j \in 1..Len(s.queue) :
       /\ s.queue[i] = s.queue[j] => i = j
       /\ i <= j => s.dist[s.queue[i]] <= s.dist[s.queue[j]]
       /\ s.dist[s.queue[i]] # Infinity
  /\ s.queue # <<>> =>
       \A v \in 0..last : s.dist[v] # Infinity => s.dist[v] <= s.dist[s.queue[1]] + 1

\* The nodes that have been in the queue: their neighbours are known, and as long as
\* the queue is not empty there is one for each turn of the loop.
Seen(last, s) ==
  {v \in 0..last : s.dist[v] # Infinity /\ \A i \in 1..Len(s.queue) : s.queue[i] # v}
Visited(E, last, s, k) ==
  /\ \A v \in Seen(last, s) :
       /\ \A w \in 0..last : Linked(E, v, w) => s.dist[w] <= s.dist[v] + 1
       /\ s.queue # <<>> => s.dist[v] <= s.dist[s.queue[1]]
  /\ s.queue # <<>> => Cardinality(Seen(last, s)) = k

Searched(E, last, S, s, k) ==
  s \in States(last) /\ Known(E, last, S, s, k) /\ Queued(last, s) /\ Visited(E, last, s, k)

\* A turn of the loop keeps the invariant of the search.
LEMMA VisitKeeps ==
  ASSUME NEW last \in Nat, last + 1 < Infinity, NEW E \in Seq(Nat \X Nat), NEW S,
         NEW k \in Nat, k <= last, NEW s, Searched(E, last, S, s, k), s.queue # <<>>
  PROVE  Searched(E, last, S, Visit(s, E, last), k + 1)
<1> DEFINE fs == Head(s.queue)
           D == s.dist[fs]
           near == Near(s, E, last)
           t == Visit(s, E, last)
           L == Len(s.queue)
<1>1. /\ s \in States(last) /\ s.dist \in [0..last -> Nat] /\ s.par \in [0..last -> Int]
      /\ s.queue \in Seq(0..last) /\ fs \in 0..last /\ L \in Nat /\ L >= 1 /\ fs = s.queue[1]
      /\ D \in Nat
  <2>1. s \in States(last) /\ s.queue \in Seq(0..last)
    BY DEF Searched, States
  <2>2. fs \in 0..last /\ L \in Nat /\ L >= 1 /\ fs = s.queue[1]
    <3>1. s.queue # <<>> /\ L \in Nat /\ fs = s.queue[1] /\ fs \in 0..last
      BY <2>1, HeadTailProperties
    <3>2. L # 0
      BY <2>1, <3>1, EmptySeq
    <3> QED
      BY <3>1, <3>2
  <2>3. s.dist \in [0..last -> Nat] /\ s.par \in [0..last -> Int]
    BY <2>1 DEF States
  <2>4. D \in Nat
    BY <2>2, <2>3
  <2> QED
    BY <2>1, <2>2, <2>3, <2>4
<1>0. L \in Nat /\ L >= 1 /\ D \in Nat /\ fs \in 0..last
  BY <1>1
<1>2. \A i \in 1..L : s.queue[i] \in 0..last
  <2>1. s.queue \in Seq(0..last)
    BY <1>1
  <2> QED
    BY <2>1, ElementOfSeq
<1>3. /\ t \in States(last) /\ t.dist \in [0..last -> Nat] /\ t.par \in [0..last -> Int]
      /\ t.queue \in Seq(0..last)
      /\ \A v \in 0..last : /\ t.dist[v] = IF v \in near THEN D + 1 ELSE s.dist[v]
                            /\ t.par[v] = IF v \in near THEN fs ELSE s.par[v]
  <2>1. t \in States(last)
    BY <1>1, VisitIs
  <2>2. \A v \in 0..last : /\ t.dist[v] = IF v \in near THEN D + 1 ELSE s.dist[v]
                           /\ t.par[v] = IF v \in near THEN fs ELSE s.par[v]
    BY SMTT(30), <1>1, VisitIs
  <2> HIDE DEF t, near, fs, D, L
  <2>3. /\ t.dist \in [0..last -> Nat] /\ t.par \in [0..last -> Int]
        /\ t.queue \in Seq(0..last)
    BY <2>1 DEF States
  <2> QED
    BY <2>1, <2>2, <2>3
<1>4. PICK q \in Seq(0..last) :
        /\ t.queue = Tail(s.queue) \o q
        /\ \A i \in 1..Len(q) : q[i] \in near
        /\ \A v \in near : \E i \in 1..Len(q) : q[i] = v
        /\ \A i, j \in 1..Len(q) : q[i] = q[j] => i = j
  BY <1>1, VisitIs
<1> DEFINE Q == Len(q)
<1>5. /\ Q \in Nat /\ Len(t.queue) = L - 1 + Q
      /\ \A i \in 1..(L - 1) : t.queue[i] = s.queue[i + 1]
      /\ \A i \in 1..Q : t.queue[L - 1 + i] = q[i]
  <2>1. /\ Tail(s.queue) \in Seq(0..last) /\ Len(Tail(s.queue)) = L - 1
        /\ \A i \in 1..(L - 1) : Tail(s.queue)[i] = s.queue[i + 1]
    BY <1>1, HeadTailProperties
  <2> DEFINE r == Tail(s.queue)
  <2>2. /\ Len(r \o q) = Len(r) + Len(q)
        /\ \A i \in 1..(Len(r) + Len(q)) :
             (r \o q)[i] = IF i <= Len(r) THEN r[i] ELSE q[i - Len(r)]
    BY <2>1, ConcatProperties
  <2>3. Len(q) \in Nat /\ Len(r) = L - 1
    BY <2>1
  <2> HIDE DEF r, t, L
  <2>4. ASSUME NEW i \in 1..(L - 1) PROVE (r \o q)[i] = r[i]
    BY <1>1, <2>2, <2>3
  <2>5. ASSUME NEW i \in 1..Len(q) PROVE (r \o q)[L - 1 + i] = q[i]
    <3>0. i \in Nat /\ i >= 1 /\ i <= Len(q)
      BY <2>3
    <3>1. /\ L - 1 + i \in 1..(Len(r) + Len(q)) /\ ~(L - 1 + i <= Len(r))
          /\ L - 1 + i - Len(r) = i
      BY <1>0, <2>3, <3>0
    <3>2. PICK x \in Int : x = L - 1 + i
      BY <1>0, <3>0
    <3>3. x \in 1..(Len(r) + Len(q)) /\ ~(x <= Len(r)) /\ x - Len(r) = i
      BY <1>0, <2>3, <3>0, <3>2
    <3>4. (r \o q)[x] = q[x - Len(r)]
      BY <2>2, <3>3
    <3> QED
      BY <3>2, <3>3, <3>4
  <2> QED
    BY <1>4, <2>1, <2>2, <2>3, <2>4, <2>5 DEF r
<1>6. Known(E, last, S, s, k) /\ Queued(last, s) /\ Visited(E, last, s, k)
  <2> HIDE DEF t, near, fs, D, L, Q
  <2> QED
    BY DEF Searched
<1>7. D # Infinity /\ D <= k /\ D + 1 # Infinity /\ Infinity \in Nat
  <2>1. D # Infinity
    <3>1. 1 \in 1..L
      BY <1>0
    <3> HIDE DEF t, near, Q, L
    <3> QED
      BY <1>1, <1>6, <3>1 DEF Queued, L
  <2> HIDE DEF t, near, Q, L
  <2>2. D <= k
    BY <1>1, <1>6, <2>1 DEF Known
  <2> HIDE DEF D
  <2> QED
    BY <1>0, <2>1, <2>2 DEF Infinity
<1>8. ASSUME NEW v \in near
      PROVE  /\ v \in 0..last /\ Linked(E, fs, v) /\ s.dist[v] = Infinity
             /\ t.dist[v] = D + 1 /\ t.par[v] = fs
  <2>1. v \in 0..last /\ Linked(E, fs, v) /\ s.dist[v] > D + 1
    BY DEF Near
  <2>2. s.dist[v] = Infinity
    <3>1. s.dist[v] # Infinity => s.dist[v] <= D + 1
      BY <1>1, <1>6, <2>1 DEF Queued
    <3>2. s.dist[v] \in Nat
      BY <1>1, <2>1
    <3> QED
      BY <1>0, <2>1, <3>1, <3>2
  <2> QED
    BY <1>3, <2>1, <2>2
<1>9. ASSUME NEW v \in 0..last, s.dist[v] # Infinity
      PROVE  t.dist[v] = s.dist[v] /\ t.par[v] = s.par[v] /\ v \notin near
  BY <1>3, <1>8, <1>9
<1>10. ASSUME NEW v \in 0..last, v \notin near
       PROVE  t.dist[v] = s.dist[v] /\ t.par[v] = s.par[v]
  BY <1>3, <1>10
<1> HIDE DEF t, near, Q, D, L, fs
<1>11. Known(E, last, S, t, k + 1)
  <2> SUFFICES ASSUME NEW v \in 0..last
               PROVE  /\ t.dist[v] # Infinity => t.dist[v] <= k + 1
                      /\ v \in S <=> t.dist[v] = 0
                      /\ v \in S => t.par[v] = v
                      /\ v \notin S /\ t.dist[v] # Infinity =>
                           /\ t.par[v] \in 0..last /\ Linked(E, v, t.par[v])
                           /\ t.dist[t.par[v]] + 1 = t.dist[v]
    BY DEF Known
  <2>1. /\ s.dist[v] # Infinity => s.dist[v] <= k
        /\ v \in S <=> s.dist[v] = 0
        /\ v \in S => s.par[v] = v
        /\ v \notin S /\ s.dist[v] # Infinity =>
             /\ s.par[v] \in 0..last /\ Linked(E, v, s.par[v])
             /\ s.dist[s.par[v]] + 1 = s.dist[v]
    BY <1>6 DEF Known
  <2>2. CASE v \in near
    <3>1. s.dist[v] = Infinity /\ t.dist[v] = D + 1 /\ t.par[v] = fs /\ Linked(E, fs, v)
      BY <1>8, <2>2
    <3>2. v \notin S
      BY <2>1, <3>1 DEF Infinity
    <3>3. Linked(E, v, fs) /\ t.dist[fs] = D
      BY <1>1, <1>7, <1>9, <3>1, LinkedBothWays DEF D
    <3>4. D + 1 <= k + 1 /\ D + 1 # 0
      BY <1>0, <1>7
    <3>5. fs \in 0..last /\ t.dist[fs] + 1 = t.dist[v]
      BY <1>0, <3>1, <3>3
    <3> QED
      BY <3>1, <3>2, <3>3, <3>4, <3>5
  <2>3. CASE v \notin near
    <3>1. t.dist[v] = s.dist[v] /\ t.par[v] = s.par[v] /\ s.dist[v] \in Nat
      BY <1>1, <1>10, <2>3
    <3>2. CASE v \notin S /\ s.dist[v] # Infinity
      <4>1. /\ s.par[v] \in 0..last /\ s.dist[s.par[v]] + 1 = s.dist[v]
            /\ s.dist[s.par[v]] \in Nat
        BY <1>1, <2>1, <3>2
      <4>2. s.dist[s.par[v]] # Infinity
        BY <2>1, <3>1, <3>2, <4>1 DEF Infinity
      <4>3. t.dist[s.par[v]] = s.dist[s.par[v]]
        BY <1>9, <4>1, <4>2
      <4> QED
        BY <2>1, <3>1, <3>2, <4>3
    <3>3. CASE ~(v \notin S /\ s.dist[v] # Infinity)
      BY <2>1, <3>1, <3>3
    <3> QED
      BY <3>2, <3>3
  <2> QED
    BY <2>2, <2>3
<1>12. ASSUME NEW i \in 1..Len(t.queue)
       PROVE  \/ /\ i \in 1..(L - 1) /\ i + 1 \in 1..L /\ t.queue[i] = s.queue[i + 1]
                 /\ t.dist[t.queue[i]] = s.dist[s.queue[i + 1]]
                 /\ s.dist[s.queue[i + 1]] # Infinity
                 /\ s.dist[s.queue[i + 1]] \in Nat
                 /\ D <= s.dist[s.queue[i + 1]] /\ s.dist[s.queue[i + 1]] <= D + 1
              \/ /\ i > L - 1 /\ i - (L - 1) \in 1..Q /\ t.queue[i] = q[i - (L - 1)]
                 /\ t.queue[i] \in near /\ t.dist[t.queue[i]] = D + 1
  <2>1. CASE i \in 1..(L - 1)
    <3>1. /\ i + 1 \in 1..L /\ t.queue[i] = s.queue[i + 1]
          /\ s.queue[i + 1] \in 0..last /\ 1 \in 1..L
          /\ 1 <= i + 1
      <4>1. i + 1 \in 1..L /\ 1 \in 1..L /\ 1 <= i + 1
        BY <1>0, <2>1
      <4> QED
        BY <1>2, <1>5, <2>1, <4>1
    <3>2. /\ s.dist[s.queue[i + 1]] # Infinity /\ s.dist[s.queue[1]] <= s.dist[s.queue[i + 1]]
          /\ s.dist[s.queue[i + 1]] <= s.dist[s.queue[1]] + 1
      BY <1>6, <3>1 DEF Queued, L
    <3>3. t.dist[s.queue[i + 1]] = s.dist[s.queue[i + 1]] /\ s.dist[s.queue[i + 1]] \in Nat
      BY <1>1, <1>9, <3>1, <3>2
    <3> QED
      BY <1>1, <2>1, <3>1, <3>2, <3>3 DEF D, fs
  <2>2. CASE i \notin 1..(L - 1)
    <3>1. i > L - 1 /\ i - (L - 1) \in 1..Q /\ L - 1 + (i - (L - 1)) = i
      BY <1>1, <1>5, <2>2
    <3>2. t.queue[i] = q[i - (L - 1)]
      BY <1>5, <3>1
    <3>3. t.queue[i] \in near
      BY <1>4, <3>1, <3>2 DEF Q
    <3> QED
      BY <1>8, <3>1, <3>2, <3>3
  <2> QED
    BY <2>1, <2>2
<1>16. ASSUME NEW i \in 1..Len(t.queue), i \in 1..(L - 1)
       PROVE  /\ i + 1 \in 1..L /\ t.queue[i] = s.queue[i + 1]
              /\ t.dist[t.queue[i]] = s.dist[s.queue[i + 1]]
              /\ s.dist[s.queue[i + 1]] # Infinity
              /\ s.dist[s.queue[i + 1]] \in Nat
              /\ D <= s.dist[s.queue[i + 1]] /\ s.dist[s.queue[i + 1]] <= D + 1
              /\ s.queue[i + 1] \in 0..last
  <2>1. ~(i > L - 1)
    BY <1>0, <1>16
  <2> QED
    BY <1>2, <1>12, <1>16, <2>1
<1>17. ASSUME NEW i \in 1..Len(t.queue), i \notin 1..(L - 1)
       PROVE  /\ i > L - 1 /\ i - (L - 1) \in 1..Q /\ t.queue[i] = q[i - (L - 1)]
              /\ t.queue[i] \in near /\ t.dist[t.queue[i]] = D + 1
  BY <1>12, <1>17
<1>18. \A i \in 1..Len(t.queue) : t.dist[t.queue[i]] \in Nat /\ D <= t.dist[t.queue[i]]
  <2> SUFFICES ASSUME NEW i \in 1..Len(t.queue)
               PROVE  t.dist[t.queue[i]] \in Nat /\ D <= t.dist[t.queue[i]]
    OBVIOUS
  <2>1. CASE i \in 1..(L - 1)
    BY <1>16, <2>1
  <2>2. CASE i \notin 1..(L - 1)
    <3>1. t.dist[t.queue[i]] = D + 1
      BY <1>17, <2>2
    <3> QED
      BY <1>0, <3>1
  <2> QED
    BY <2>1, <2>2
<1>13. Queued(last, t)
  <2>1. ASSUME NEW i \in 1..Len(t.queue), NEW j \in 1..Len(t.queue)
        PROVE  /\ t.queue[i] = t.queue[j] => i = j
               /\ i <= j => t.dist[t.queue[i]] <= t.dist[t.queue[j]]
               /\ t.dist[t.queue[i]] # Infinity
    <3>1. CASE i \in 1..(L - 1) /\ j \in 1..(L - 1)
      <4>1. /\ i + 1 \in 1..L /\ t.queue[i] = s.queue[i + 1]
            /\ t.dist[t.queue[i]] = s.dist[s.queue[i + 1]] /\ s.dist[s.queue[i + 1]] # Infinity
            /\ j + 1 \in 1..L /\ t.queue[j] = s.queue[j + 1]
            /\ t.dist[t.queue[j]] = s.dist[s.queue[j + 1]]
        BY <1>16, <3>1
      <4>2. /\ s.queue[i + 1] = s.queue[j + 1] => i + 1 = j + 1
            /\ i + 1 <= j + 1 => s.dist[s.queue[i + 1]] <= s.dist[s.queue[j + 1]]
        BY <1>6, <4>1 DEF Queued, L
      <4>3. i \in Int /\ j \in Int
        OBVIOUS
      <4> QED
        BY <4>1, <4>2, <4>3
    <3>2. CASE i \in 1..(L - 1) /\ j \notin 1..(L - 1)
      <4>1. /\ t.queue[i] = s.queue[i + 1] /\ s.queue[i + 1] \in 0..last
            /\ t.dist[t.queue[i]] = s.dist[s.queue[i + 1]] /\ s.dist[s.queue[i + 1]] # Infinity
            /\ s.dist[s.queue[i + 1]] <= D + 1
        BY <1>16, <3>2
      <4>2. t.queue[j] \in near /\ t.dist[t.queue[j]] = D + 1
        BY <1>17, <3>2
      <4> QED
        BY <1>9, <4>1, <4>2
    <3>3. CASE i \notin 1..(L - 1) /\ j \in 1..(L - 1)
      <4>1. i > j
        <5>1. i > L - 1 /\ i \in Int /\ j \in Int /\ j <= L - 1
          BY <1>0, <1>17, <3>3
        <5> QED
          BY <1>0, <5>1
      <4>2. t.queue[j] = s.queue[j + 1] /\ s.queue[j + 1] \in 0..last
            /\ s.dist[s.queue[j + 1]] # Infinity
        BY <1>16, <3>3
      <4>3. t.queue[i] \in near /\ t.dist[t.queue[i]] = D + 1
        BY <1>17, <3>3
      <4>4. t.queue[i] # t.queue[j]
        BY <1>9, <4>2, <4>3
      <4> QED
        BY <1>7, <4>1, <4>3, <4>4
    <3>4. CASE i \notin 1..(L - 1) /\ j \notin 1..(L - 1)
      <4>1. /\ i - (L - 1) \in 1..Q /\ t.queue[i] = q[i - (L - 1)]
            /\ t.dist[t.queue[i]] = D + 1
            /\ j - (L - 1) \in 1..Q /\ t.queue[j] = q[j - (L - 1)]
            /\ t.dist[t.queue[j]] = D + 1
        BY <1>17, <3>4
      <4>2. q[i - (L - 1)] = q[j - (L - 1)] => i - (L - 1) = j - (L - 1)
        BY <1>4, <4>1 DEF Q
      <4>3. i \in Int /\ j \in Int /\ L \in Int
        BY <1>1
      <4>4. i - (L - 1) = j - (L - 1) => i = j
        BY <4>3
      <4> QED
        BY <1>1, <1>7, <4>1, <4>2, <4>4
    <3> QED
      BY <3>1, <3>2, <3>3, <3>4
  <2>2. ASSUME t.queue # <<>>, NEW v \in 0..last, t.dist[v] # Infinity
        PROVE  t.dist[v] <= t.dist[t.queue[1]] + 1
    <3>1. 1 \in 1..Len(t.queue)
      <4>1. t.queue \in Seq(0..last)
        BY <1>3
      <4>2. Len(t.queue) \in Nat /\ Len(t.queue) # 0
        BY <2>2, <4>1, EmptySeq
      <4> QED
        BY <4>2
    <3>2. t.dist[t.queue[1]] \in Nat /\ D <= t.dist[t.queue[1]]
      BY <1>18, <3>1
    <3>3. t.dist[v] \in Nat /\ t.dist[v] <= D + 1
      <4>1. CASE v \in near
        BY <1>0, <1>8, <4>1
      <4>2. CASE v \notin near
        <5>1. t.dist[v] = s.dist[v] /\ s.dist[v] \in Nat
          BY <1>1, <1>10, <4>2
        <5>2. s.queue # <<>> /\ s.dist[v] # Infinity
          BY <2>2, <5>1
        <5>3. s.dist[v] <= s.dist[s.queue[1]] + 1
          BY <1>6, <5>2 DEF Queued
        <5> QED
          BY <1>1, <5>1, <5>3 DEF D
      <4> QED
        BY <4>1, <4>2
    <3> QED
      BY <1>0, <3>2, <3>3
  <2> QED
    BY <2>1, <2>2 DEF Queued
<1>14. Seen(last, t) = Seen(last, s) \cup {fs} /\ fs \notin Seen(last, s)
  <2>1. ASSUME NEW v \in Seen(last, t), v # fs PROVE v \in Seen(last, s)
    <3>1. v \in 0..last /\ t.dist[v] # Infinity /\ \A i \in 1..Len(t.queue) : t.queue[i] # v
      BY DEF Seen
    <3>2. v \notin near
      <4> SUFFICES ASSUME v \in near PROVE FALSE
        OBVIOUS
      <4>1. PICK i \in 1..Q : q[i] = v
        BY <1>4 DEF Q
      <4>2. L - 1 + i \in 1..Len(t.queue)
        BY <1>1, <1>5
      <4> QED
        BY <1>5, <3>1, <4>1, <4>2
    <3>3. s.dist[v] # Infinity
      BY <1>10, <3>1, <3>2
    <3>4. ASSUME NEW i \in 1..L PROVE s.queue[i] # v
      <4>1. CASE i = 1
        BY <1>1, <2>1, <4>1
      <4>2. CASE i # 1
        <5>1. i - 1 \in 1..(L - 1) /\ i - 1 \in 1..Len(t.queue) /\ i - 1 + 1 = i
          BY <1>1, <1>5, <4>2
        <5>2. t.queue[i - 1] = s.queue[i]
          BY <1>5, <5>1
        <5> QED
          BY <3>1, <5>1, <5>2
      <4> QED
        BY <4>1, <4>2
    <3> QED
      BY <3>1, <3>3, <3>4 DEF Seen, L
  <2>2. ASSUME NEW v \in Seen(last, s) PROVE v \in Seen(last, t)
    <3>1. v \in 0..last /\ s.dist[v] # Infinity /\ \A i \in 1..L : s.queue[i] # v
      BY DEF Seen, L
    <3>2. t.dist[v] # Infinity /\ v \notin near
      BY <1>9, <3>1
    <3>3. \A i \in 1..Len(t.queue) : t.queue[i] # v
      BY <1>12, <3>1, <3>2
    <3> QED
      BY <3>1, <3>2, <3>3 DEF Seen
  <2>3. fs \in Seen(last, t)
    <3>1. t.dist[fs] # Infinity /\ fs \notin near
      BY <1>1, <1>7, <1>9 DEF D
    <3>2. ASSUME NEW i \in 1..Len(t.queue) PROVE t.queue[i] # fs
      <4>1. CASE i \in 1..(L - 1)
        <5>1. i + 1 \in 1..L /\ 1 \in 1..L /\ i + 1 # 1 /\ t.queue[i] = s.queue[i + 1]
          BY SMTT(30), <1>1, <1>5, <4>1
        <5>2. s.queue[i + 1] # s.queue[1]
          BY <1>6, <5>1 DEF Queued, L
        <5> QED
          BY <1>1, <5>1, <5>2
      <4>2. CASE i \notin 1..(L - 1)
        BY <1>12, <3>1, <4>2
      <4> QED
        BY <4>1, <4>2
    <3> QED
      BY <1>1, <3>1, <3>2 DEF Seen
  <2>4. fs \notin Seen(last, s)
    <3>1. 1 \in 1..L
      BY <1>1
    <3> QED
      BY <1>1, <3>1 DEF Seen, L
  <2> QED
    BY <2>1, <2>2, <2>3, <2>4
<1>15. Visited(E, last, t, k + 1)
  <2>1. ASSUME NEW v \in Seen(last, t)
        PROVE  /\ \A w \in 0..last : Linked(E, v, w) => t.dist[w] <= t.dist[v] + 1
               /\ t.queue # <<>> => t.dist[v] <= t.dist[t.queue[1]]
    <3>1. t.dist[v] \in Nat /\ t.dist[v] <= D /\ t.dist[v] = s.dist[v] /\ s.dist[v] # Infinity
      <4>1. CASE v = fs
        <5>1. s.dist[fs] = D
          BY DEF D
        <5>2. t.dist[fs] = s.dist[fs]
          BY <1>0, <1>7, <1>9, <5>1
        <5> QED
          BY <1>0, <1>7, <4>1, <5>1, <5>2
      <4>2. CASE v \in Seen(last, s)
        <5>1. v \in 0..last /\ s.dist[v] # Infinity /\ s.dist[v] <= s.dist[s.queue[1]]
          BY <1>6, <4>2 DEF Seen, Visited
        <5> QED
          BY <1>1, <1>9, <5>1 DEF D, fs
      <4> QED
        BY <1>14, <4>1, <4>2
    <3>2. ASSUME t.queue # <<>> PROVE t.dist[v] <= t.dist[t.queue[1]]
      <4>1. 1 \in 1..Len(t.queue)
        <5>1. t.queue \in Seq(0..last)
          BY <1>3
        <5>2. Len(t.queue) \in Nat /\ Len(t.queue) # 0
          BY <3>2, <5>1, EmptySeq
        <5> QED
          BY <5>2
      <4>2. t.dist[t.queue[1]] \in Nat /\ D <= t.dist[t.queue[1]]
        BY <1>18, <4>1
      <4> QED
        BY <1>0, <3>1, <4>2
    <3>3. ASSUME NEW w \in 0..last, Linked(E, v, w) PROVE t.dist[w] <= t.dist[v] + 1
      <4>1. CASE v = fs
        <5>1. CASE w \in near
          <6>1. t.dist[w] = D + 1 /\ t.dist[fs] = D
            BY <1>0, <1>7, <1>8, <1>9, <5>1 DEF D
          <6> QED
            BY <1>0, <4>1, <6>1
        <5>2. CASE w \notin near
          <6>1. ~(s.dist[w] > D + 1) /\ s.dist[w] \in Nat
            BY <1>1, <3>3, <4>1, <5>2 DEF near, Near, D, fs
          <6>2. t.dist[w] = s.dist[w]
            BY <1>10, <5>2
          <6>3. t.dist[v] = D
            BY <1>0, <1>7, <1>9, <4>1 DEF D
          <6> QED
            BY <1>0, <6>1, <6>2, <6>3
        <5> QED
          BY <5>1, <5>2
      <4>2. CASE v \in Seen(last, s)
        <5>1. s.dist[w] <= s.dist[v] + 1 /\ s.dist[w] \in Nat
          BY <1>1, <1>6, <3>3, <4>2 DEF Visited
        <5>2. s.dist[w] # Infinity
          BY <1>1, <1>7, <3>1, <5>1 DEF Infinity
        <5> QED
          BY <1>9, <3>1, <5>1, <5>2
      <4> QED
        BY <1>14, <4>1, <4>2
    <3> QED
      BY <3>2, <3>3
  <2>2. Cardinality(Seen(last, t)) = k + 1
    <3>1. IsFiniteSet(Seen(last, s))
      <4>1. IsFiniteSet(0..last)
        BY FS_Interval
      <4>2. Seen(last, s) \in SUBSET (0..last)
        BY DEF Seen
      <4> QED
        BY <4>1, <4>2, FS_Subset
    <3>2. Cardinality(Seen(last, s)) = k
      BY <1>6 DEF Visited
    <3> QED
      BY <1>14, <3>1, <3>2, FS_AddElement
  <2> QED
    BY <2>1, <2>2 DEF Visited
<1> QED
  BY <1>3, <1>11, <1>13, <1>15 DEF Searched, t

\* From no set of the nodes but all of them is there no link to another one.
LEMMA ClosedIsAll ==
  ASSUME NEW N \in Nat, NEW E \in Seq(Nat \X Nat), Connected(E, N),
         NEW X \in SUBSET (0..(N - 1)), X # {},
         \A v \in X : \A w \in 0..(N - 1) : Linked(E, v, w) => w \in X
  PROVE  X = 0..(N - 1)
<1>1. ASSUME NEW v \in X PROVE ToSet(Adjacent(E, v)) \cap 0..(N - 1) \subseteq X
  <2>1. v \in Nat
    OBVIOUS
  <2>2. \A w : w \in ToSet(Adjacent(E, v)) <=> Linked(E, v, w)
    BY <2>1, AdjacentAre
  <2> QED
    BY <2>2
<1> QED
  BY <1>1 DEF Connected

\* The other direction.
LEMMA ConnectedIf ==
  ASSUME NEW N \in Nat, NEW E \in Seq(Nat \X Nat),
         \A X \in SUBSET (0..(N - 1)) :
           X # {} /\ (\A v \in X : \A w \in 0..(N - 1) : Linked(E, v, w) => w \in X)
             => X = 0..(N - 1)
  PROVE  Connected(E, N)
<1> SUFFICES ASSUME NEW X \in SUBSET (0..(N - 1)), X # {},
                    \A v \in X : ToSet(Adjacent(E, v)) \cap 0..(N - 1) \subseteq X
             PROVE  X = 0..(N - 1)
  BY DEF Connected
<1>1. ASSUME NEW v \in X, NEW w \in 0..(N - 1), Linked(E, v, w) PROVE w \in X
  <2>1. v \in Nat
    OBVIOUS
  <2>2. w \in ToSet(Adjacent(E, v))
    BY <1>1, <2>1, AdjacentAre
  <2> QED
    BY <2>2
<1> QED
  BY <1>1

\* At first the queue has the sources, at distance 0, and nobody else is known.
LEMMA SearchStarts ==
  ASSUME NEW last \in Nat, NEW E, NEW S \in SUBSET (0..last), NEW s \in States(last),
         \A v \in 0..last : /\ s.dist[v] = IF v \in S THEN 0 ELSE Infinity
                            /\ v \in S => s.par[v] = v,
         \A i \in 1..Len(s.queue) : s.queue[i] \in S,
         \A v \in S : \E i \in 1..Len(s.queue) : s.queue[i] = v,
         \A i, j \in 1..Len(s.queue) : s.queue[i] = s.queue[j] => i = j
  PROVE  Searched(E, last, S, s, 0)
<1>1. Infinity \in Nat /\ Infinity # 0
  BY DEF Infinity
<1>2. Known(E, last, S, s, 0)
  BY <1>1 DEF Known
<1>3. \A i \in 1..Len(s.queue) : s.queue[i] \in 0..last /\ s.dist[s.queue[i]] = 0
  OBVIOUS
<1>4. Queued(last, s)
  <2>1. ASSUME s.queue # <<>>, NEW v \in 0..last, s.dist[v] # Infinity
        PROVE  s.dist[v] <= s.dist[s.queue[1]] + 1
    <3>1. s.queue \in Seq(0..last)
      BY DEF States
    <3>2. Len(s.queue) \in Nat /\ Len(s.queue) # 0
      BY <2>1, <3>1, EmptySeq
    <3>3. s.dist[s.queue[1]] = 0
      BY <1>3, <3>2
    <3>4. s.dist[v] = 0
      BY <2>1
    <3> QED
      BY <3>3, <3>4
  <2> QED
    BY <1>1, <1>3, <2>1 DEF Queued
<1>5. Seen(last, s) = {}
  BY DEF Seen
<1>6. Visited(E, last, s, 0)
  BY <1>5, FS_EmptySet DEF Visited
<1> QED
  BY <1>2, <1>4, <1>6 DEF Searched

\* A search that has an empty queue after its turns has solved the problem.
LEMMA SearchEnds ==
  ASSUME NEW last \in Nat, last + 2 < Infinity, NEW E \in Seq(Nat \X Nat),
         NEW S \in SUBSET (0..last), S # {}, Connected(E, last + 1),
         NEW s, Searched(E, last, S, s, last + 1)
  PROVE  Solved(E, last + 1, S, s.dist, s.par)
<1>1. /\ s.dist \in [0..last -> Nat] /\ s.par \in [0..last -> Int] /\ s.queue \in Seq(0..last)
      /\ Known(E, last, S, s, last + 1) /\ Queued(last, s) /\ Visited(E, last, s, last + 1)
  BY DEF Searched, States
<1>2. s.queue = <<>>
  <2> SUFFICES ASSUME s.queue # <<>> PROVE FALSE
    OBVIOUS
  <2> DEFINE fs == s.queue[1]
  <2>1. Len(s.queue) \in Nat /\ Len(s.queue) # 0 /\ fs \in 0..last
    <3>1. Len(s.queue) \in Nat /\ Len(s.queue) # 0
      BY <1>1, EmptySeq
    <3> QED
      BY <1>1, <3>1, ElementOfSeq
  <2>2. 1 \in 1..Len(s.queue)
    BY <2>1
  <2>3. fs \notin Seen(last, s)
    BY <2>2 DEF Seen
  <2>4. Seen(last, s) \subseteq (0..last) \ {fs}
    BY <2>3 DEF Seen
  <2>5. IsFiniteSet(0..last) /\ Cardinality(0..last) = last + 1
    BY FS_Interval
  <2>6. IsFiniteSet((0..last) \ {fs}) /\ Cardinality((0..last) \ {fs}) = last
    <3>1. /\ IsFiniteSet((0..last) \ {fs})
          /\ Cardinality((0..last) \ {fs}) = Cardinality(0..last) - 1
      BY <2>1, <2>5, FS_RemoveElement
    <3> QED
      BY <2>5, <3>1
  <2>7. Cardinality(Seen(last, s)) <= last
    <3> DEFINE A == Seen(last, s)
               B == (0..last) \ {fs}
    <3>1. A \subseteq B /\ IsFiniteSet(B) /\ Cardinality(B) = last
      BY <2>4, <2>6
    <3> HIDE DEF A, B
    <3>2. Cardinality(A) <= Cardinality(B)
      BY <3>1, FS_Subset
    <3> QED
      BY <3>1, <3>2 DEF A
  <2>8. Cardinality(Seen(last, s)) = last + 1
    BY <1>1 DEF Visited
  <2> QED
    BY <2>7, <2>8
<1>3. \A v \in 0..last : s.dist[v] # Infinity => v \in Seen(last, s)
  <2>1. Len(s.queue) = 0
    BY <1>2
  <2> QED
    BY <2>1 DEF Seen
<1>4. \A v, w \in 0..last :
        s.dist[v] # Infinity /\ Linked(E, v, w) => s.dist[w] <= s.dist[v] + 1
  BY <1>1, <1>3 DEF Visited
<1> DEFINE X == {v \in 0..last : s.dist[v] # Infinity}
<1>5. X = 0..last
  <2>1. X # {}
    <3>1. PICK v \in S : TRUE
      OBVIOUS
    <3>2. s.dist[v] = 0
      BY <1>1, <3>1 DEF Known
    <3> QED
      BY <3>1, <3>2 DEF Infinity
  <2>2. ASSUME NEW v \in X, NEW w \in 0..last, Linked(E, v, w) PROVE w \in X
    <3>1. s.dist[w] <= s.dist[v] + 1 /\ s.dist[v] <= last + 1
      BY <1>1, <1>4, <2>2 DEF Known
    <3>2. s.dist[w] \in Nat /\ s.dist[v] \in Nat /\ Infinity \in Nat
      BY <1>1 DEF Infinity
    <3> QED
      BY <3>1, <3>2
  <2>3. last + 1 \in Nat /\ (last + 1) - 1 = last /\ X \in SUBSET (0..last)
    OBVIOUS
  <2> HIDE DEF X
  <2> QED
    BY <2>1, <2>2, <2>3, ClosedIsAll
<1>6. \A v \in 0..last : s.dist[v] # Infinity
  BY <1>5
<1> SUFFICES ASSUME NEW v \in 0..last
             PROVE  /\ s.dist[v] \in 0..(last + 1)
                    /\ v \in S <=> s.dist[v] = 0
                    /\ v \in S => s.par[v] = v
                    /\ v \notin S => /\ s.par[v] \in 0..last /\ Linked(E, v, s.par[v])
                                     /\ s.dist[s.par[v]] + 1 = s.dist[v]
                    /\ \A w \in 0..last : Linked(E, v, w) => s.dist[w] <= s.dist[v] + 1
  <2>1. (last + 1) - 1 = last
    OBVIOUS
  <2> QED
    BY <2>1 DEF Solved
<1>7. s.dist[v] <= last + 1 /\ s.dist[v] \in Nat
  BY <1>1, <1>6 DEF Known
<1>8. s.dist[v] \in 0..(last + 1)
  BY <1>7
<1> QED
  BY <1>1, <1>4, <1>6, <1>8 DEF Known

\* Search from the sources solves the problem.
LEMMA SearchSolves ==
  ASSUME NEW last \in Nat, last + 2 < Infinity, NEW E \in Seq(Nat \X Nat),
         NEW S \in SUBSET (0..last), S # {}, Connected(E, last + 1),
         NEW s, Searched(E, last, S, s, 0)
  PROVE  /\ Search(s, E, last) \in States(last)
         /\ Solved(E, last + 1, S, Search(s, E, last).dist, Search(s, E, last).par)
<1> DEFINE k == last + 1
           T == States(last)
           Turn(x) == IF x.queue = <<>> THEN x ELSE Visit(x, E, last)
           IsRun(f) == f = [j \in 0..k |-> IF j = 0 THEN s ELSE Turn(f[j - 1])]
           run == CHOOSE f : IsRun(f)
           F == [x \in (1..k) \X T |-> Turn(x[2])]
<1>1. Search(s, E, last) = run[k]
  BY DEF Search
<1>2. s \in T /\ k \in Nat
  BY DEF Searched
<1>3. \A x \in T : Turn(x) \in T
  BY VisitIs
<1>4. ASSUME NEW j \in 0..last, NEW x, Searched(E, last, S, x, j)
      PROVE  Searched(E, last, S, Turn(x), j + 1)
  <2>1. j \in Nat /\ j <= last
    OBVIOUS
  <2>2. CASE x.queue = <<>>
    <3>1. x \in States(last) /\ Known(E, last, S, x, j) /\ Queued(last, x)
          /\ Visited(E, last, x, j)
      BY <1>4 DEF Searched
    <3>2. Known(E, last, S, x, j + 1)
      <4>1. \A v \in 0..last : x.dist[v] \in Nat /\ (x.dist[v] <= j => x.dist[v] <= j + 1)
        BY <2>1, <3>1 DEF States
      <4> QED
        BY <3>1, <4>1 DEF Known
    <3>3. Visited(E, last, x, j + 1)
      BY <2>2, <3>1 DEF Visited
    <3> QED
      BY <2>2, <3>1, <3>2, <3>3 DEF Searched
  <2>3. CASE x.queue # <<>>
    <3>1. last + 1 < Infinity
      BY DEF Infinity
    <3>2. Searched(E, last, S, Visit(x, E, last), j + 1)
      BY <1>4, <2>1, <2>3, <3>1, VisitKeeps
    <3> QED
      BY <2>3, <3>2
  <2> QED
    BY <2>2, <2>3
<1> HIDE DEF Turn, T
<1>5. \E f : IsRun(f)
  <2>1. F \in [(1..k) \X T -> T] /\ s \in T
    BY <1>2, <1>3
  <2>2. PICK f \in [0..k -> T] : IsIteration(f, k, s, F)
    <3> HIDE DEF F, k
    <3> QED
      BY <1>2, <2>1, Iterates
  <2>3. ASSUME NEW j \in 1..k PROVE f[j] = Turn(f[j - 1])
    <3>1. <<j, f[j - 1]>> \in (1..k) \X T
      <4>1. j - 1 \in 0..k
        BY <1>2
      <4> QED
        BY <4>1
    <3> QED
      BY <2>2, <3>1 DEF IsIteration
  <2>4. \A j \in 0..k : j = 0 \/ j \in 1..k
    BY <1>2
  <2>5. f = [j \in 0..k |-> IF j = 0 THEN s ELSE Turn(f[j - 1])]
    BY <2>2, <2>3, <2>4 DEF IsIteration
  <2> QED
    BY <2>5
<1>6. IsRun(run)
  BY <1>5
<1> HIDE DEF run
<1>7. run[0] = s /\ \A j \in 1..k : run[j] = Turn(run[j - 1])
  BY <1>2, <1>6
<1> HIDE DEF IsRun
<1> DEFINE Good == {j \in 0..k : Searched(E, last, S, run[j], j)}
<1>8. 0 \in Good /\ \A j \in 0..k : j # k /\ j \in Good => j + 1 \in Good
  <2>1. ASSUME NEW j \in 0..k, j # k, j \in Good PROVE j + 1 \in Good
    <3>1. j \in 0..last /\ j + 1 \in 1..k /\ (j + 1) - 1 = j
      BY <2>1
    <3>2. Searched(E, last, S, Turn(run[j]), j + 1)
      BY <1>4, <2>1, <3>1
    <3>3. run[j + 1] = Turn(run[j])
      BY <1>7, <3>1
    <3> QED
      BY <3>1, <3>2, <3>3
  <2>2. 0 \in Good
    BY <1>2, <1>7
  <2> QED
    BY <2>1, <2>2
<1>9. Searched(E, last, S, run[k], k)
  <2>1. 0..k \subseteq Good
    <3> HIDE DEF Good, k
    <3> QED
      BY <1>2, <1>8, Inductive
  <2> QED
    BY <1>2, <2>1
<1>10. Solved(E, last + 1, S, run[k].dist, run[k].par) /\ run[k] \in States(last)
  <2>1. Searched(E, last, S, run[k], last + 1)
    BY <1>9
  <2> HIDE DEF k
  <2> QED
    BY <2>1, SearchEnds DEF Searched
<1> QED
  BY <1>1, <1>10

-----------------------------------------------------------------------------
(* dijkstra *)

SetStates(last) == [dist : [0..last -> Nat], par : [0..last -> Int], sp : SUBSET (0..last)]

\* The nodes that come nearer through start.
Nearer(s, E, start, last) ==
  {v \in 0..last : Linked(E, start, v) /\ s.dist[v] > s.dist[start] + 1}

\* What dijkstra_update does to each node.
LEMMA UpdateIs ==
  ASSUME NEW last \in Nat, NEW E \in Seq(Pairs(last + 1)), NEW s \in SetStates(last),
         NEW start \in 0..last
  PROVE  /\ Update(s, E, start) \in SetStates(last)
         /\ Update(s, E, start).sp = s.sp
         /\ \A v \in 0..last :
              /\ Update(s, E, start).dist[v] = IF v \in Nearer(s, E, start, last)
                                               THEN s.dist[start] + 1 ELSE s.dist[v]
              /\ Update(s, E, start).par[v] = IF v \in Nearer(s, E, start, last)
                                              THEN start ELSE s.par[v]
<1> DEFINE nearer == {v \in ToSet(Adjacent(E, start)) : s.dist[v] > s.dist[start] + 1}
<1>1. /\ s.dist \in [0..last -> Nat] /\ s.par \in [0..last -> Int] /\ s.sp \in SUBSET (0..last)
      /\ s = [dist |-> s.dist, par |-> s.par, sp |-> s.sp]
  BY DEF SetStates
<1>2. E \in Seq(Nat \X Nat) /\ \A i \in 1..Len(E) : E[i] \in (0..last) \X (0..last)
  <2>1. Pairs(last + 1) \subseteq Nat \X Nat /\ Pairs(last + 1) = (0..last) \X (0..last)
    BY DEF Pairs
  <2>2. E \in Seq(Nat \X Nat)
    BY <2>1, SeqMonotonic
  <2> QED
    BY <2>1, <2>2
<1>3. nearer = Nearer(s, E, start, last)
  <2>1. \A v : v \in ToSet(Adjacent(E, start)) <=> Linked(E, start, v)
    BY <1>2, AdjacentAre
  <2>2. \A v : Linked(E, start, v) => v \in 0..last
    BY <1>2 DEF Linked
  <2> QED
    BY <2>1, <2>2 DEF Nearer
<1>4. Update(s, E, start) =
        [dist |-> [v \in 0..last |-> IF v \in nearer THEN s.dist[start] + 1 ELSE s.dist[v]],
         par |-> [v \in 0..last |-> IF v \in nearer THEN start ELSE s.par[v]],
         sp |-> s.sp]
  BY <1>1 DEF Update
<1>5. s.dist[start] + 1 \in Nat /\ start \in Int
  BY <1>1
<1> HIDE DEF nearer
<1>6. Update(s, E, start) \in SetStates(last)
  BY <1>1, <1>4, <1>5 DEF SetStates
<1> QED
  BY <1>3, <1>4, <1>6

\* If nobody known is further away than start and one edge, only unknown nodes come
\* nearer, and the neighbours of start are then no further.
LEMMA UpdateKeeps ==
  ASSUME NEW last \in Nat, NEW E \in Seq(Pairs(last + 1)), NEW S, NEW s \in SetStates(last),
         NEW start \in 0..last, NEW b \in Nat, NEW c \in Nat, b <= c, b + 1 < Infinity,
         c + 1 < Infinity,
         Known(E, last, S, s, b),
         \A v \in 0..last : s.dist[v] # Infinity => s.dist[v] <= s.dist[start] + 1,
         s.dist[start] # Infinity => s.dist[start] + 1 <= c
  PROVE  /\ Known(E, last, S, Update(s, E, start), c)
         /\ \A v \in 0..last :
              /\ s.dist[v] # Infinity => Update(s, E, start).dist[v] = s.dist[v]
              /\ \/ Update(s, E, start).dist[v] = s.dist[v]
                 \/ /\ Update(s, E, start).dist[v] = s.dist[start] + 1
                    /\ s.dist[start] # Infinity
              /\ Linked(E, start, v) =>
                   Update(s, E, start).dist[v] <= Update(s, E, start).dist[start] + 1
<1> DEFINE t == Update(s, E, start)
           D == s.dist[start]
           near == Nearer(s, E, start, last)
<1>1. /\ \A v \in 0..last : s.dist[v] \in Nat /\ t.dist[v] \in Nat
      /\ D \in Nat /\ Infinity \in Nat
      /\ \A v \in 0..last : /\ t.dist[v] = IF v \in near THEN D + 1 ELSE s.dist[v]
                            /\ t.par[v] = IF v \in near THEN start ELSE s.par[v]
  <2>1. t \in SetStates(last)
    BY UpdateIs
  <2>2. \A v \in 0..last : /\ t.dist[v] = IF v \in near THEN D + 1 ELSE s.dist[v]
                           /\ t.par[v] = IF v \in near THEN start ELSE s.par[v]
    BY UpdateIs
  <2> HIDE DEF t
  <2>3. Infinity \in Nat
    BY DEF Infinity
  <2> QED
    BY <2>1, <2>2, <2>3 DEF SetStates
<1>2. ASSUME NEW v \in near
      PROVE  /\ v \in 0..last /\ Linked(E, start, v) /\ s.dist[v] = Infinity
             /\ D # Infinity /\ t.dist[v] = D + 1 /\ t.par[v] = start
  <2>1. v \in 0..last /\ Linked(E, start, v) /\ s.dist[v] > D + 1
    BY DEF Nearer
  <2>2. s.dist[v] \in Nat /\ (s.dist[v] # Infinity => s.dist[v] <= D + 1)
    BY <1>1, <2>1
  <2> HIDE DEF D, t, near
  <2>3. s.dist[v] = Infinity
    BY <1>1, <2>1, <2>2
  <2>4. D # Infinity
    BY <1>1, <2>1, <2>3
  <2> QED
    BY <1>1, <2>1, <2>3, <2>4
<1>3. ASSUME NEW v \in 0..last, s.dist[v] # Infinity
      PROVE  t.dist[v] = s.dist[v] /\ t.par[v] = s.par[v] /\ v \notin near
  BY <1>1, <1>2, <1>3
<1>4. ASSUME NEW v \in 0..last, v \notin near
      PROVE  t.dist[v] = s.dist[v] /\ t.par[v] = s.par[v]
  BY <1>1, <1>4
<1>5. ASSUME NEW v \in 0..last, Linked(E, start, v) PROVE t.dist[v] <= t.dist[start] + 1
  <2>1. start \notin near
    <3>1. ~(D > D + 1)
      BY <1>1
    <3> QED
      BY <3>1 DEF Nearer
  <2>2. t.dist[start] = D
    BY <1>4, <2>1
  <2>3. CASE v \in near
    BY <1>1, <1>2, <2>2, <2>3
  <2>4. CASE v \notin near
    <3>1. ~(s.dist[v] > D + 1)
      BY <1>5, <2>4 DEF Nearer
    <3>2. t.dist[v] = s.dist[v] /\ s.dist[v] \in Nat
      BY <1>1, <1>4, <2>4
    <3> HIDE DEF t, near, D
    <3> QED
      BY <1>1, <2>2, <3>1, <3>2
  <2> QED
    BY <2>3, <2>4
<1>6. ASSUME NEW v \in 0..last
      PROVE  t.dist[v] = s.dist[v] \/ (t.dist[v] = D + 1 /\ D # Infinity)
  BY <1>2, <1>4
<1>7. D # Infinity => D + 1 <= c
  OBVIOUS
<1> HIDE DEF t, near, D
<1>8. Known(E, last, S, t, c)
  <2> SUFFICES ASSUME NEW v \in 0..last
               PROVE  /\ t.dist[v] # Infinity => t.dist[v] <= c
                      /\ v \in S <=> t.dist[v] = 0
                      /\ v \in S => t.par[v] = v
                      /\ v \notin S /\ t.dist[v] # Infinity =>
                           /\ t.par[v] \in 0..last /\ Linked(E, v, t.par[v])
                           /\ t.dist[t.par[v]] + 1 = t.dist[v]
    BY DEF Known
  <2>1. /\ s.dist[v] # Infinity => s.dist[v] <= b
        /\ v \in S <=> s.dist[v] = 0
        /\ v \in S => s.par[v] = v
        /\ v \notin S /\ s.dist[v] # Infinity =>
             /\ s.par[v] \in 0..last /\ Linked(E, v, s.par[v])
             /\ s.dist[s.par[v]] + 1 = s.dist[v]
    BY DEF Known
  <2>2. CASE v \in near
    <3>1. /\ s.dist[v] = Infinity /\ t.dist[v] = D + 1 /\ t.par[v] = start
          /\ Linked(E, start, v) /\ D # Infinity
      BY <1>2, <2>2
    <3>2. v \notin S
      BY <2>1, <3>1 DEF Infinity
    <3>3. Linked(E, v, start) /\ t.dist[start] = D
      BY <1>3, <3>1, LinkedBothWays DEF D
    <3>4. D + 1 <= c /\ D + 1 # 0
      BY <1>1, <1>7, <3>1
    <3> QED
      BY <3>1, <3>2, <3>3, <3>4
  <2>3. CASE v \notin near
    <3>1. t.dist[v] = s.dist[v] /\ t.par[v] = s.par[v] /\ s.dist[v] \in Nat
      BY <1>1, <1>4, <2>3
    <3>2. CASE v \notin S /\ s.dist[v] # Infinity
      <4>1. s.par[v] \in 0..last /\ s.dist[s.par[v]] + 1 = s.dist[v]
        BY <2>1, <3>2
      <4>2. s.dist[s.par[v]] \in Nat /\ s.dist[v] <= b
        BY <1>1, <2>1, <3>2, <4>1
      <4>3. s.dist[s.par[v]] # Infinity
        BY <1>1, <3>1, <4>1, <4>2
      <4>4. t.dist[s.par[v]] = s.dist[s.par[v]]
        BY <1>3, <4>1, <4>3
      <4>5. s.dist[v] <= c
        BY <3>1, <4>2
      <4> QED
        BY <2>1, <3>1, <3>2, <4>4, <4>5
    <3>3. CASE ~(v \notin S /\ s.dist[v] # Infinity)
      <4>1. s.dist[v] # Infinity => s.dist[v] <= c
        BY <2>1, <3>1
      <4> QED
        BY <2>1, <3>1, <3>3, <4>1
    <3> QED
      BY <3>2, <3>3
  <2> QED
    BY <2>2, <2>3
<1> QED
  BY <1>3, <1>5, <1>6, <1>8 DEF t, D

\* The set has a first node: one of the nearest.
LEMMA BeginIs ==
  ASSUME NEW last \in Nat, NEW s \in SetStates(last), s.sp # {}
  PROVE  Begin(s) \in s.sp /\ \A w \in s.sp : s.dist[Begin(s)] <= s.dist[w]
<1>1. s.sp \subseteq 0..last /\ \A v \in s.sp : s.dist[v] \in Nat
  BY DEF SetStates
<1> DEFINE Values == {s.dist[v] : v \in s.sp}
<1>2. PICK x \in Values : \A y \in Values : x <= y
  <2>1. Values \subseteq Nat /\ Values # {}
    BY <1>1
  <2> HIDE DEF Values
  <2> QED
    BY <2>1, LeastNatural
<1>3. \A w \in s.sp : x <= s.dist[w]
  BY <1>2
<1> DEFINE At == {v \in s.sp : s.dist[v] = x}
<1>4. PICK v \in At : \A w \in At : v <= w
  <2>1. At \subseteq Nat /\ At # {}
    BY <1>1, <1>2
  <2> HIDE DEF At
  <2> QED
    BY <2>1, LeastNatural
<1>5. ASSUME NEW w \in s.sp
      PROVE  s.dist[v] < s.dist[w] \/ (s.dist[v] = s.dist[w] /\ v <= w)
  <2>1. s.dist[v] = x /\ x <= s.dist[w] /\ x \in Nat /\ s.dist[w] \in Nat
    BY <1>1, <1>2, <1>3, <1>4
  <2>2. s.dist[w] = x => v <= w
    BY <1>4
  <2> HIDE DEF At, Values
  <2> QED
    BY <2>1, <2>2
<1>6. /\ Begin(s) \in s.sp
      /\ \A w \in s.sp : \/ s.dist[Begin(s)] < s.dist[w]
                         \/ s.dist[Begin(s)] = s.dist[w] /\ Begin(s) <= w
  <2>1. v \in s.sp
    BY <1>4
  <2> HIDE DEF At, Values
  <2> QED
    BY <1>5, <2>1 DEF Begin
<1> QED
  BY <1>1, <1>6

\* After k of the turns: the nodes out of the set are the nearest and their neighbours
\* are known, and nobody known is further away than a node of the set and one edge.
Settled(E, last, S, s, k) ==
  /\ s \in SetStates(last) /\ Cardinality(s.sp) = last + 1 - k /\ (k = 0 => s.sp = 0..last)
  /\ Known(E, last, S, s, IF k = 0 THEN 1 ELSE k)
  /\ \A v \in 0..last : v \notin s.sp =>
       /\ \A w \in s.sp : s.dist[v] <= s.dist[w]
       /\ \A w \in 0..last : Linked(E, v, w) => s.dist[w] <= s.dist[v] + 1
  /\ \A v \in 0..last : s.dist[v] # Infinity =>
       \A w \in s.sp : s.dist[v] <= s.dist[w] + 1

\* The first turn, for which the nearest node stays in the set.
LEMMA SettledAtFirst ==
  ASSUME NEW last \in Nat, last + 3 < Infinity, NEW E \in Seq(Pairs(last + 1)),
         NEW S \in SUBSET (0..last), S # {}, NEW s \in SetStates(last),
         s.sp = 0..last,
         \A v \in 0..last : /\ s.dist[v] = IF v \in S THEN 0 ELSE Infinity
                            /\ v \in S => s.par[v] = v
  PROVE  Settled(E, last, S, Update(s, E, Begin(s)), 0)
<1> DEFINE b == Begin(s)
           t == Update(s, E, b)
<1>0. Infinity \in Nat /\ Infinity > 3
  BY DEF Infinity
<1>1. b \in 0..last /\ \A w \in 0..last : s.dist[b] <= s.dist[w]
  <2>1. 0 \in s.sp
    OBVIOUS
  <2> QED
    BY <2>1, BeginIs
<1>2. s.dist[b] = 0
  <2>1. PICK v \in S : TRUE
    OBVIOUS
  <2>2. s.dist[v] = 0 /\ s.dist[b] <= s.dist[v]
    BY <1>1, <2>1
  <2> HIDE DEF b
  <2>3. s.dist[b] \in {0, Infinity}
    BY <1>1
  <2> QED
    BY <1>0, <2>2, <2>3
<1> HIDE DEF b
<1>3. Known(E, last, S, s, 0)
  BY <1>0 DEF Known
<1>4. /\ Known(E, last, S, t, 1)
      /\ \A v \in 0..last :
           /\ s.dist[v] # Infinity => t.dist[v] = s.dist[v]
           /\ t.dist[v] = s.dist[v] \/ t.dist[v] = s.dist[b] + 1
  <2>1. \A v \in 0..last : s.dist[v] # Infinity => s.dist[v] <= s.dist[b] + 1
    BY <1>2
  <2>2. s.dist[b] # Infinity => s.dist[b] + 1 <= 1
    BY <1>2
  <2>3. 0 \in Nat /\ 1 \in Nat /\ 0 <= 1 /\ 0 + 1 < Infinity /\ 1 + 1 < Infinity
    BY <1>0
  <2>4. /\ Known(E, last, S, Update(s, E, b), 1)
        /\ \A v \in 0..last :
              /\ s.dist[v] # Infinity => Update(s, E, b).dist[v] = s.dist[v]
              /\ \/ Update(s, E, b).dist[v] = s.dist[v]
                 \/ /\ Update(s, E, b).dist[v] = s.dist[b] + 1
                    /\ s.dist[b] # Infinity
    <3>1. b \in 0..last
      BY <1>1
    <3>2. PICK zero \in Nat, one \in Nat : zero = 0 /\ one = 1
      OBVIOUS
    <3>3. /\ zero \in Nat /\ one \in Nat /\ zero <= one
          /\ zero + 1 < Infinity /\ one + 1 < Infinity
          /\ Known(E, last, S, s, zero)
          /\ s.dist[b] # Infinity => s.dist[b] + 1 <= one
      BY <1>3, <2>2, <2>3, <3>2
    <3> HIDE DEF t
    <3>4. /\ Known(E, last, S, Update(s, E, b), one)
          /\ \A v \in 0..last :
                /\ s.dist[v] # Infinity => Update(s, E, b).dist[v] = s.dist[v]
                /\ \/ Update(s, E, b).dist[v] = s.dist[v]
                   \/ /\ Update(s, E, b).dist[v] = s.dist[b] + 1
                      /\ s.dist[b] # Infinity
                /\ Linked(E, b, v) =>
                     Update(s, E, b).dist[v] <= Update(s, E, b).dist[b] + 1
      BY ONLY <3>1, <3>3, <2>1, UpdateKeeps, last \in Nat, E \in Seq(Pairs(last + 1)),
              s \in SetStates(last)
    <3> QED
      BY <3>2, <3>4
  <2> QED
    BY <2>4
<1>5. t \in SetStates(last) /\ t.sp = 0..last
  <2>1. b \in 0..last
    BY <1>1
  <2>2. t \in SetStates(last) /\ t.sp = s.sp
    BY ONLY <2>1, UpdateIs, last \in Nat, E \in Seq(Pairs(last + 1)), s \in SetStates(last)
  <2> QED
    BY <2>2
<1> HIDE DEF t
<1>6. \A v, w \in 0..last : t.dist[v] # Infinity => t.dist[v] <= t.dist[w] + 1
  <2> SUFFICES ASSUME NEW v \in 0..last, NEW w \in 0..last, t.dist[v] # Infinity
               PROVE  t.dist[v] <= t.dist[w] + 1
    OBVIOUS
  <2>1. t.dist[v] \in {0, 1} /\ t.dist[w] \in Nat
    <3>1. t.dist[w] \in Nat
      BY <1>5 DEF SetStates
    <3>2. s.dist[v] \in {0, Infinity}
      OBVIOUS
    <3>3. t.dist[v] = s.dist[v] \/ t.dist[v] = 1
      BY <1>2, <1>4
    <3> QED
      BY <3>1, <3>2, <3>3
  <2> QED
    BY <2>1
<1>7. Cardinality(t.sp) = last + 1 - 0
  BY <1>5, FS_Interval
<1> QED
  BY <1>4, <1>5, <1>6, <1>7 DEF Settled, t, b

\* A turn takes the nearest node out of the set.
LEMMA TurnSettles ==
  ASSUME NEW last \in Nat, last + 3 < Infinity, NEW E \in Seq(Pairs(last + 1)),
         NEW S \in SUBSET (0..last), S # {}, NEW k \in 0..last, NEW s,
         Settled(E, last, S, s, k)
  PROVE  Settled(E, last, S, Update([s EXCEPT !.sp = @ \ {Begin(s)}], E, Begin(s)), k + 1)
<1> DEFINE b == Begin(s)
           r == [s EXCEPT !.sp = @ \ {b}]
           t == Update(r, E, b)
           D == s.dist[b]
<1>0. Infinity \in Nat /\ k \in Nat /\ k <= last
  BY DEF Infinity
<1>1. /\ s \in SetStates(last) /\ s.sp \in SUBSET (0..last)
      /\ \A v \in 0..last : s.dist[v] \in Nat
  BY DEF Settled, SetStates
<1>2. IsFiniteSet(s.sp) /\ Cardinality(s.sp) = last + 1 - k
  <2>1. IsFiniteSet(0..last)
    BY FS_Interval
  <2> QED
    BY <1>1, <2>1, FS_Subset DEF Settled
<1>3. s.sp # {}
  <2> SUFFICES ASSUME s.sp = {} PROVE FALSE
    OBVIOUS
  <2>1. Cardinality(s.sp) = 0
    BY FS_EmptySet
  <2> QED
    BY <1>0, <1>2, <2>1
<1>4. b \in s.sp /\ b \in 0..last /\ \A w \in s.sp : D <= s.dist[w]
  BY <1>1, <1>3, BeginIs
<1>5. D \in Nat
  BY <1>1, <1>4
<1> HIDE DEF b
<1>6. r \in SetStates(last) /\ r.dist = s.dist /\ r.par = s.par /\ r.sp = s.sp \ {b}
  BY <1>1 DEF SetStates
<1> HIDE DEF r
<1> DEFINE c == IF k = 0 THEN 1 ELSE k
<1>7. Known(E, last, S, r, c)
  BY <1>6 DEF Settled, Known
<1>8. \A v \in 0..last : s.dist[v] # Infinity => s.dist[v] <= D + 1
  BY <1>4 DEF Settled
<1>9. D # Infinity => D + 1 <= k + 1
  <2> SUFFICES ASSUME D # Infinity PROVE D <= k
    BY <1>0, <1>5
  <2>1. CASE k = 0
    <3>1. s.sp = 0..last
      BY <2>1 DEF Settled
    <3>2. PICK v \in S : TRUE
      OBVIOUS
    <3>3. s.dist[v] = 0
      BY <3>2 DEF Settled, Known
    <3> QED
      BY <1>0, <1>4, <1>5, <3>1, <3>3
  <2>2. CASE k # 0
    BY <1>4, <2>2 DEF Settled, Known
  <2> QED
    BY <2>1, <2>2
<1>10. /\ Known(E, last, S, t, k + 1)
       /\ \A v \in 0..last :
            /\ s.dist[v] # Infinity => t.dist[v] = s.dist[v]
            /\ t.dist[v] = s.dist[v] \/ (t.dist[v] = D + 1 /\ D # Infinity)
            /\ Linked(E, b, v) => t.dist[v] <= t.dist[b] + 1
  <2>1. c \in Nat /\ k + 1 \in Nat /\ c <= k + 1 /\ c + 1 < Infinity /\ k + 1 + 1 < Infinity
    BY <1>0
  <2>2. \A v \in 0..last : r.dist[v] # Infinity => r.dist[v] <= r.dist[b] + 1
    BY <1>6, <1>8
  <2>3. r.dist[b] # Infinity => r.dist[b] + 1 <= k + 1
    BY <1>6, <1>9
  <2> HIDE DEF c
  <2>4. /\ Known(E, last, S, Update(r, E, b), k + 1)
        /\ \A v \in 0..last :
              /\ r.dist[v] # Infinity => Update(r, E, b).dist[v] = r.dist[v]
              /\ \/ Update(r, E, b).dist[v] = r.dist[v]
                 \/ /\ Update(r, E, b).dist[v] = r.dist[b] + 1
                    /\ r.dist[b] # Infinity
              /\ Linked(E, b, v) =>
                   Update(r, E, b).dist[v] <= Update(r, E, b).dist[b] + 1
    BY <1>4, <1>6, <1>7, <2>1, <2>2, <2>3, UpdateKeeps
  <2> QED
    BY <1>6, <2>4
<1>11. t \in SetStates(last) /\ t.sp = s.sp \ {b}
  BY <1>4, <1>6, UpdateIs
<1> HIDE DEF t, c, D
<1>12. /\ t.dist[b] = D /\ \A v \in 0..last : t.dist[v] \in Nat
       /\ \A w \in s.sp : D <= t.dist[w]
  <2>1. t.dist[b] = D
    <3>1. s.dist[b] # D + 1 /\ s.dist[b] = D
      BY <1>5 DEF D
    <3>2. t.dist[b] = s.dist[b] \/ (t.dist[b] = D + 1 /\ D # Infinity)
      BY <1>4, <1>10
    <3>3. s.dist[b] # Infinity => t.dist[b] = s.dist[b]
      BY <1>4, <1>10
    <3> QED
      BY <3>1, <3>2, <3>3
  <2>2. \A v \in 0..last : t.dist[v] \in Nat
    BY <1>11 DEF SetStates
  <2>3. ASSUME NEW w \in s.sp PROVE D <= t.dist[w]
    <3>1. w \in 0..last /\ D <= s.dist[w]
      BY <1>1, <1>4
    <3>2. t.dist[w] = s.dist[w] \/ t.dist[w] = D + 1
      BY <1>10, <3>1
    <3> QED
      BY <1>5, <3>1, <3>2
  <2> QED
    BY <2>1, <2>2, <2>3
<1>13. ASSUME NEW v \in 0..last, v \notin s.sp, s.dist[v] # Infinity
       PROVE  t.dist[v] = s.dist[v] /\ s.dist[v] <= D
  BY <1>4, <1>10, <1>13 DEF Settled, D
<1>14. ASSUME NEW v \in 0..last, v \notin s.sp
       PROVE  t.dist[v] <= D \/ (D = Infinity /\ t.dist[v] = Infinity)
  <2>1. CASE s.dist[v] # Infinity
    BY <1>13, <1>14, <2>1
  <2>2. CASE s.dist[v] = Infinity
    <3>1. s.dist[v] <= D
      BY <1>4, <1>14 DEF Settled, D
    <3>2. D = Infinity
      <4>1. D # Infinity => D <= k
        BY <1>0, <1>5, <1>9
      <4> QED
        BY <1>0, <1>5, <2>2, <3>1, <4>1
    <3>3. t.dist[v] = s.dist[v]
      BY <1>10, <3>2
    <3> QED
      BY <2>2, <3>2, <3>3
  <2> QED
    BY <2>1, <2>2
<1>15. ASSUME NEW v \in 0..last, v \notin t.sp, NEW w \in t.sp
       PROVE  t.dist[v] <= t.dist[w]
  <2>1. D <= t.dist[w] /\ w \in 0..last
    BY <1>1, <1>11, <1>12
  <2>2. CASE v = b
    BY <1>12, <2>1, <2>2
  <2>3. CASE v \notin s.sp
    <3>1. t.dist[v] <= D
      <4>1. CASE t.dist[v] <= D
        BY <4>1
      <4>2. CASE D = Infinity /\ t.dist[v] = Infinity
        BY <1>0, <4>2
      <4> QED
        BY <1>14, <2>3, <4>1, <4>2
    <3>2. t.dist[v] \in Nat /\ t.dist[w] \in Nat
      BY <1>12, <2>1
    <3> QED
      BY <1>5, <2>1, <3>1, <3>2
  <2> QED
    BY <1>11, <1>15, <2>2, <2>3
<1>16. ASSUME NEW v \in 0..last, v \notin t.sp, NEW w \in 0..last, Linked(E, v, w)
       PROVE  t.dist[w] <= t.dist[v] + 1
  <2>1. CASE v = b
    BY <1>10, <1>16, <2>1
  <2>2. CASE v \notin s.sp
    <3>1. s.dist[w] <= s.dist[v] + 1 /\ s.dist[w] \in Nat /\ s.dist[v] \in Nat
      BY <1>1, <1>16, <2>2 DEF Settled
    <3>2. CASE s.dist[v] # Infinity
      <4>1. s.dist[v] <= IF k = 0 THEN 1 ELSE k
        BY <3>2 DEF Settled, Known
      <4>2. s.dist[w] # Infinity
        BY <1>0, <3>1, <4>1
      <4>3. t.dist[v] = s.dist[v] /\ t.dist[w] = s.dist[w]
        BY <1>10, <3>2, <4>2
      <4> QED
        BY <3>1, <4>3
    <3>3. CASE s.dist[v] = Infinity
      <4>1. D = Infinity
        <5>1. s.dist[v] <= D
          BY <1>4, <2>2 DEF Settled, D
        <5>2. D # Infinity => D <= k
          BY <1>0, <1>5, <1>9
        <5> QED
          BY <1>0, <1>5, <3>3, <5>1, <5>2
      <4>2. t.dist[v] = s.dist[v] /\ t.dist[w] = s.dist[w]
        BY <1>10, <4>1
      <4> QED
        BY <3>1, <4>2
    <3> QED
      BY <3>2, <3>3
  <2> QED
    BY <1>11, <1>16, <2>1, <2>2
<1>17. ASSUME NEW v \in 0..last, t.dist[v] # Infinity, NEW w \in t.sp
       PROVE  t.dist[v] <= t.dist[w] + 1
  <2>1. D <= t.dist[w] /\ t.dist[w] \in Nat /\ t.dist[v] \in Nat
    BY <1>1, <1>11, <1>12
  <2>2. t.dist[v] <= D + 1
    <3>1. CASE t.dist[v] = s.dist[v]
      BY <1>8, <1>17, <3>1 DEF D
    <3>2. CASE t.dist[v] = D + 1
      BY <1>5, <3>2
    <3> QED
      BY <1>10, <3>1, <3>2
  <2> QED
    BY <1>5, <2>1, <2>2
<1>18. Cardinality(t.sp) = last + 1 - (k + 1)
  <2>1. Cardinality(s.sp \ {b}) = Cardinality(s.sp) - 1
    BY <1>2, <1>4, FS_RemoveElement
  <2> QED
    BY <1>0, <1>2, <1>11, <2>1
<1>19. Known(E, last, S, t, IF k + 1 = 0 THEN 1 ELSE k + 1) /\ k + 1 # 0
  BY <1>0, <1>10
<1>20. Settled(E, last, S, t, k + 1)
  BY <1>11, <1>15, <1>16, <1>17, <1>18, <1>19 DEF Settled
<1> QED
  BY <1>20 DEF t, r, b

\* After all turns the set is empty and the problem is solved.
LEMMA SettledEnds ==
  ASSUME NEW last \in Nat, last + 3 < Infinity, NEW E \in Seq(Pairs(last + 1)),
         NEW S \in SUBSET (0..last), S # {}, Connected(E, last + 1), NEW s,
         Settled(E, last, S, s, last + 1)
  PROVE  Solved(E, last + 1, S, s.dist, s.par)
<1>0. Infinity \in Nat
  BY DEF Infinity
<1>1. /\ \A v \in 0..last : s.dist[v] \in Nat
      /\ Known(E, last, S, s, last + 1)
  BY DEF Settled, SetStates
<1>2. s.sp = {}
  <2>1. IsFiniteSet(s.sp)
    <3>1. IsFiniteSet(0..last)
      BY FS_Interval
    <3> QED
      BY <3>1, FS_Subset DEF Settled, SetStates
  <2>2. Cardinality(s.sp) = 0
    BY DEF Settled
  <2> QED
    BY <2>1, <2>2, FS_EmptySet
<1>3. \A v, w \in 0..last : Linked(E, v, w) => s.dist[w] <= s.dist[v] + 1
  BY <1>2 DEF Settled
<1>4. \A v \in 0..last : s.dist[v] # Infinity => s.dist[v] <= last + 1
  BY <1>1 DEF Known
<1> DEFINE X == {v \in 0..last : s.dist[v] # Infinity}
<1>5. X = 0..last
  <2>1. X # {}
    <3>1. PICK v \in S : TRUE
      OBVIOUS
    <3>2. s.dist[v] = 0
      BY <1>1, <3>1 DEF Known
    <3> QED
      BY <3>1, <3>2 DEF Infinity
  <2>2. ASSUME NEW v \in X, NEW w \in 0..last, Linked(E, v, w) PROVE w \in X
    <3>1. s.dist[w] <= s.dist[v] + 1 /\ s.dist[v] <= last + 1
      BY <1>3, <1>4, <2>2
    <3>2. s.dist[w] \in Nat /\ s.dist[v] \in Nat
      BY <1>1
    <3> QED
      BY <1>0, <3>1, <3>2
  <2>3. last + 1 \in Nat /\ (last + 1) - 1 = last /\ X \in SUBSET (0..last)
    OBVIOUS
  <2>4. E \in Seq(Nat \X Nat)
    <3>1. Pairs(last + 1) \subseteq Nat \X Nat
      BY DEF Pairs
    <3> QED
      BY <3>1, SeqMonotonic
  <2> HIDE DEF X
  <2> QED
    BY <2>1, <2>2, <2>3, <2>4, ClosedIsAll
<1>6. \A v \in 0..last : s.dist[v] # Infinity
  BY <1>5
<1> SUFFICES ASSUME NEW v \in 0..last
             PROVE  /\ s.dist[v] \in 0..(last + 1)
                    /\ v \in S <=> s.dist[v] = 0
                    /\ v \in S => s.par[v] = v
                    /\ v \notin S => /\ s.par[v] \in 0..last /\ Linked(E, v, s.par[v])
                                     /\ s.dist[s.par[v]] + 1 = s.dist[v]
                    /\ \A w \in 0..last : Linked(E, v, w) => s.dist[w] <= s.dist[v] + 1
  <2>1. (last + 1) - 1 = last
    OBVIOUS
  <2> QED
    BY <2>1 DEF Solved
<1>7. s.dist[v] <= last + 1 /\ s.dist[v] \in Nat
  BY <1>1, <1>4, <1>6
<1>8. s.dist[v] \in 0..(last + 1)
  BY <1>7
<1> QED
  BY <1>1, <1>3, <1>6, <1>8 DEF Known

\* dijkstra solves the problem.
LEMMA DijkstraSolves ==
  ASSUME NEW last \in Nat, last + 3 < Infinity, NEW E \in Seq(Pairs(last + 1)),
         NEW S \in SUBSET (0..last), S # {}, Connected(E, last + 1),
         NEW d \in [0..last -> Nat], NEW p \in [0..last -> Int],
         \A v \in 0..last : /\ d[v] = IF v \in S THEN 0 ELSE Infinity
                            /\ v \in S => p[v] = v
  PROVE  /\ Dijkstra(E, last + 1, d, p) \in SetStates(last)
         /\ Solved(E, last + 1, S, Dijkstra(E, last + 1, d, p).dist,
                   Dijkstra(E, last + 1, d, p).par)
<1> DEFINE k == last + 1
           T == SetStates(last)
           all == [dist |-> d, par |-> p, sp |-> 0..(k - 1)]
           first == Update(all, E, Begin(all))
           Turn(x) == Update([x EXCEPT !.sp = @ \ {Begin(x)}], E, Begin(x))
           IsRun(f) == f = [j \in 0..k |-> IF j = 0 THEN first ELSE Turn(f[j - 1])]
           run == CHOOSE f : IsRun(f)
           F == [x \in (1..k) \X T |-> IF x[2].sp = {} THEN x[2] ELSE Turn(x[2])]
<1>1. Dijkstra(E, last + 1, d, p) = run[k]
  BY DEF Dijkstra
<1>2. k \in Nat /\ k - 1 = last
  OBVIOUS
<1>3. Settled(E, last, S, first, 0)
  <2>1. all \in SetStates(last) /\ all.sp = 0..last /\ all.dist = d /\ all.par = p
    BY DEF SetStates
  <2> HIDE DEF all
  <2> QED
    BY <2>1, SettledAtFirst
<1>4. ASSUME NEW x \in T, x.sp # {} PROVE Turn(x) \in T
  <2>1. Begin(x) \in 0..last
    BY <1>4, BeginIs DEF SetStates
  <2> DEFINE r == [x EXCEPT !.sp = @ \ {Begin(x)}]
  <2>2. r \in SetStates(last)
    BY DEF SetStates
  <2> HIDE DEF r
  <2>3. Update(r, E, Begin(x)) \in SetStates(last)
    BY <2>1, <2>2, UpdateIs
  <2> QED
    BY <2>3 DEF r
<1>5. ASSUME NEW j \in 0..last, NEW x, Settled(E, last, S, x, j)
      PROVE  Settled(E, last, S, Turn(x), j + 1)
  BY <1>5, TurnSettles
<1>6. ASSUME NEW j \in 0..last, NEW x, Settled(E, last, S, x, j)
      PROVE  x.sp # {}
  <2> SUFFICES ASSUME x.sp = {} PROVE FALSE
    OBVIOUS
  <2>1. Cardinality(x.sp) = 0
    BY FS_EmptySet
  <2>2. Cardinality(x.sp) = last + 1 - j
    BY <1>6 DEF Settled
  <2> QED
    BY <2>1, <2>2
<1> HIDE DEF Turn, T, first
<1>7. ASSUME NEW f, f[0] = first,
             \A j \in 1..k : Settled(E, last, S, f[j - 1], j - 1) => f[j] = Turn(f[j - 1])
      PROVE  \A j \in 0..k : Settled(E, last, S, f[j], j)
  <2> DEFINE Good == {j \in 0..k : Settled(E, last, S, f[j], j)}
  <2>1. ASSUME NEW j \in 0..k, j # k, j \in Good PROVE j + 1 \in Good
    <3>1. j \in 0..last /\ j + 1 \in 1..k /\ (j + 1) - 1 = j
      BY <2>1
    <3>2. Settled(E, last, S, Turn(f[j]), j + 1)
      BY <1>5, <2>1, <3>1
    <3>3. f[j + 1] = Turn(f[j])
      BY <1>7, <2>1, <3>1
    <3> QED
      BY <3>1, <3>2, <3>3
  <2>2. 0 \in Good
    BY <1>2, <1>3, <1>7
  <2>3. 0..k \subseteq Good
    <3> HIDE DEF Good, k
    <3> QED
      BY <1>2, <2>1, <2>2, Inductive
  <2> QED
    BY <2>3
<1>8. \E f : IsRun(f)
  <2>1. F \in [(1..k) \X T -> T] /\ first \in T
    <3>1. first \in T
      BY <1>3 DEF Settled, T
    <3> QED
      BY <1>4, <3>1
  <2>2. PICK f \in [0..k -> T] : IsIteration(f, k, first, F)
    <3> HIDE DEF F, k
    <3> QED
      BY <1>2, <2>1, Iterates
  <2>3. ASSUME NEW j \in 1..k
        PROVE f[j] = IF f[j - 1].sp = {} THEN f[j - 1] ELSE Turn(f[j - 1])
    <3>1. <<j, f[j - 1]>> \in (1..k) \X T
      <4>1. j - 1 \in 0..k
        BY <1>2
      <4> QED
        BY <4>1
    <3> QED
      BY <2>2, <3>1 DEF IsIteration
  <2>4. f[0] = first
    BY <2>2 DEF IsIteration
  <2>5. \A j \in 1..k : j - 1 \in 0..last /\ j - 1 \in 0..k
    OBVIOUS
  <2>6. \A j \in 0..k : Settled(E, last, S, f[j], j)
    <3>1. \A j \in 1..k : Settled(E, last, S, f[j - 1], j - 1) => f[j] = Turn(f[j - 1])
      <4> HIDE DEF k
      <4> QED
        BY <1>6, <2>3, <2>5
    <3> QED
      BY <1>7, <2>4, <3>1
  <2>7. \A j \in 1..k : f[j] = Turn(f[j - 1])
    <3> HIDE DEF k
    <3> QED
      BY <1>6, <2>3, <2>5, <2>6
  <2>8. \A j \in 0..k : j = 0 \/ j \in 1..k
    BY <1>2
  <2>9. f = [j \in 0..k |-> IF j = 0 THEN first ELSE Turn(f[j - 1])]
    BY <2>4, <2>7, <2>8
  <2> QED
    BY <2>9
<1>9. IsRun(run)
  BY <1>8
<1> HIDE DEF run
<1>10. run[0] = first /\ \A j \in 1..k : run[j] = Turn(run[j - 1])
  BY <1>2, <1>9
<1> HIDE DEF IsRun
<1>11. Settled(E, last, S, run[k], last + 1)
  <2>1. \A j \in 0..k : Settled(E, last, S, run[j], j)
    BY <1>7, <1>10
  <2> QED
    BY <1>2, <2>1
<1>12. Solved(E, last + 1, S, run[k].dist, run[k].par)
  <2> HIDE DEF k
  <2> QED
    BY <1>11, SettledEnds
<1> QED
  BY <1>1, <1>11, <1>12 DEF Settled

\* The search from a new node finds the distances to it.
LEMMA SearchFromSolves ==
  ASSUME NEW i \in Nat, i + 2 < Infinity, NEW E \in Seq(Nat \X Nat), Connected(E, i + 1)
  PROVE  /\ SearchFrom(E, i) \in States(i)
         /\ Solved(E, i + 1, {i}, SearchFrom(E, i).dist, SearchFrom(E, i).par)
<1> DEFINE s == [dist |-> [v \in 0..i |-> IF v = i THEN 0 ELSE Infinity],
                 par |-> [v \in 0..i |-> IF v = i THEN i ELSE NoParent],
                 queue |-> <<i>>]
<1>1. /\ s \in States(i)
      /\ \A v \in 0..i : /\ s.dist[v] = IF v \in {i} THEN 0 ELSE Infinity
                         /\ v \in {i} => s.par[v] = v
      /\ Len(s.queue) = 1 /\ s.queue[1] = i /\ i \in 0..i
  <2>1. Infinity \in Nat /\ NoParent \in Int
    BY DEF Infinity, NoParent
  <2>2. <<i>> \in Seq(0..i)
    OBVIOUS
  <2> QED
    BY <2>1, <2>2 DEF States
<1> HIDE DEF s
<1>2. \A j \in 1..Len(s.queue) : j = 1
  BY <1>1
<1>3. 1 \in 1..Len(s.queue)
  BY <1>1
<1>4. Searched(E, i, {i}, s, 0)
  <2>1. {i} \in SUBSET (0..i)
    BY <1>1
  <2>2. /\ \A j \in 1..Len(s.queue) : s.queue[j] \in {i}
        /\ \A v \in {i} : \E j \in 1..Len(s.queue) : s.queue[j] = v
        /\ \A a, b \in 1..Len(s.queue) : s.queue[a] = s.queue[b] => a = b
    BY <1>1, <1>2, <1>3
  <2> QED
    BY <1>1, <2>1, <2>2, SearchStarts
<1>5. /\ Search(s, E, i) \in States(i)
      /\ Solved(E, i + 1, {i}, Search(s, E, i).dist, Search(s, E, i).par)
  <2>1. {i} \in SUBSET (0..i) /\ {i} # {}
    BY <1>1
  <2> QED
    BY <1>4, <2>1, SearchSolves
<1> QED
  BY <1>5 DEF SearchFrom, s

-----------------------------------------------------------------------------
(* optimised_dijkstra: a node joins *)

\* The way from s up to i, along the parents of the search.
IsClimb(climb, i, s, new) ==
  /\ climb \in [0..new.dist[s] -> 0..i]
  /\ Towards(i, s, new) = climb[new.dist[s] - 1] /\ climb[0] = s
  /\ \A k \in 1..new.dist[s] : climb[k] = new.par[climb[k - 1]]

\* There is one: the parents are among the nodes.
LEMMA TowardsIs ==
  ASSUME NEW i \in Nat, NEW E, NEW new, Solved(E, i + 1, {i}, new.dist, new.par),
         NEW s \in 0..i, s # i
  PROVE  \E climb : IsClimb(climb, i, s, new)
<1> DEFINE M == new.dist[s]
           T == 0..i
           IsRun(f) == f = [k \in 0..M |-> IF k = 0 THEN s ELSE new.par[f[k - 1]]]
           run == CHOOSE f : IsRun(f)
           F == [x \in (1..M) \X T |-> new.par[x[2]]]
<1>1. Towards(i, s, new) = run[M - 1]
  BY DEF Towards
<1>2. M \in Nat
  BY DEF Solved
<1>3. \A x \in T : new.par[x] \in T
  <2>1. (i + 1) - 1 = i
    OBVIOUS
  <2> QED
    BY <2>1 DEF Solved
<1> HIDE DEF M, T
<1>4. \E f \in [0..M -> T] : IsRun(f)
  <2>1. F \in [(1..M) \X T -> T] /\ s \in T
    BY <1>3 DEF T
  <2>2. PICK f \in [0..M -> T] : IsIteration(f, M, s, F)
    <3> HIDE DEF F
    <3> QED
      BY <1>2, <2>1, Iterates
  <2>3. ASSUME NEW j \in 1..M PROVE f[j] = new.par[f[j - 1]]
    <3>1. <<j, f[j - 1]>> \in (1..M) \X T
      <4>1. j - 1 \in 0..M
        BY <1>2
      <4> QED
        BY <4>1
    <3> QED
      BY <2>2, <3>1 DEF IsIteration
  <2>4. \A j \in 0..M : j = 0 \/ j \in 1..M
    BY <1>2
  <2>5. f = [k \in 0..M |-> IF k = 0 THEN s ELSE new.par[f[k - 1]]]
    BY <2>2, <2>3, <2>4 DEF IsIteration
  <2> QED
    BY <2>5
<1>5. IsRun(run)
  BY <1>4
<1> HIDE DEF run
<1>6. run[0] = s /\ \A j \in 1..M : run[j] = new.par[run[j - 1]]
  BY <1>2, <1>5
<1>7. DOMAIN run = 0..M
  BY <1>5
<1>8. run \in [0..M -> T]
  <2> DEFINE Good == {j \in 0..M : run[j] \in T}
  <2>1. ASSUME NEW j \in 0..M, j # M, j \in Good PROVE j + 1 \in Good
    <3>1. j + 1 \in 1..M /\ (j + 1) - 1 = j /\ j + 1 \in 0..M
      BY <1>2, <2>1
    <3> QED
      BY <1>3, <1>6, <2>1, <3>1
  <2>2. 0 \in Good
    BY <1>2, <1>6 DEF T
  <2>3. 0..M \subseteq Good
    <3> HIDE DEF Good
    <3> QED
      BY <1>2, <2>1, <2>2, Inductive
  <2>4. run = [j \in 0..M |-> run[j]]
    BY <1>5
  <2> QED
    BY <2>3, <2>4
<1> QED
  BY <1>1, <1>6, <1>8 DEF M, T, IsClimb

\* A source is within reach of the search: no further than over any node.
LEMMA SourceOver ==
  ASSUME NEW i \in Nat, NEW E, NEW S, NEW d, NEW p, Solved(E, i, S, d, p),
         NEW e, NEW q, Solved(E, i + 1, {i}, e, q), NEW v \in 0..(i - 1)
  PROVE  \E s \in S \cap 0..(i - 1) : e[s] <= e[v] + d[v]
<1> DEFINE Over(w) == \E s \in S \cap 0..(i - 1) : e[s] <= e[w] + d[w]
           Good == {k \in 0..i : \A w \in 0..(i - 1) : d[w] = k => Over(w)}
<1>0. \A w \in 0..(i - 1) : w \in 0..((i + 1) - 1)
  OBVIOUS
<1>1. \A w \in 0..(i - 1) : d[w] \in 0..i /\ e[w] \in Nat
  BY <1>0 DEF Solved
<1>2. 0 \in Good
  <2>1. ASSUME NEW w \in 0..(i - 1), d[w] = 0 PROVE Over(w)
    <3>1. w \in S /\ e[w] <= e[w] + d[w]
      BY <1>1, <2>1 DEF Solved
    <3> QED
      BY <3>1
  <2> QED
    BY <2>1
<1>3. ASSUME NEW k \in 0..i, k # i, k \in Good PROVE k + 1 \in Good
  <2>1. ASSUME NEW w \in 0..(i - 1), d[w] = k + 1 PROVE Over(w)
    <3>1. w \notin S
      <4>1. k + 1 # 0
        OBVIOUS
      <4> QED
        BY <2>1, <4>1 DEF Solved
    <3>2. p[w] \in 0..(i - 1) /\ Linked(E, w, p[w]) /\ d[p[w]] + 1 = d[w]
      BY <3>1 DEF Solved
    <3>3. d[p[w]] = k
      <4>1. d[p[w]] \in Nat /\ k \in Nat
        BY <1>1, <3>2
      <4> QED
        BY <2>1, <3>2, <4>1
    <3>4. Over(p[w])
      BY <1>3, <3>2, <3>3
    <3>5. e[p[w]] <= e[w] + 1
      BY <1>0, <3>2 DEF Solved
    <3>6. PICK s \in S \cap 0..(i - 1) : e[s] <= e[p[w]] + d[p[w]]
      BY <3>4
    <3>7. e[s] \in Nat /\ e[p[w]] \in Nat /\ e[w] \in Nat /\ d[p[w]] \in Nat /\ d[w] \in Nat
      BY <1>1, <3>2
    <3>8. e[s] <= e[w] + d[w]
      BY <3>2, <3>5, <3>6, <3>7
    <3> QED
      BY <3>8
  <2>2. k + 1 \in 0..i
    BY <1>3
  <2> HIDE DEF Over
  <2> QED
    BY <2>1, <2>2
<1>4. 0..i \subseteq Good
  <2> HIDE DEF Good
  <2> QED
    BY <1>2, <1>3, Inductive
<1>5. Over(v)
  <2>1. d[v] \in Good
    BY <1>1, <1>4
  <2> HIDE DEF Over
  <2> QED
    BY <2>1
<1> QED
  BY <1>5

\* The new distances and parents are right for one node more.
LEMMA JoinSolves ==
  ASSUME NEW N \in Nat, NEW i \in 0..(N - 1), NEW E, NEW S, NEW Srcs,
         NEW d, d.dist \in [0..(N - 1) -> Nat], d.par \in [0..(N - 1) -> Int],
         NEW new, NEW s,
         Solved(E, i, S, d.dist, d.par), Solved(E, i + 1, {i}, new.dist, new.par),
         \A v \in 0..(i - 1) : v \in Srcs <=> v \in S,
         s \in Srcs, s \in 0..i, \A v \in Srcs \cap 0..i : new.dist[s] <= new.dist[v]
  PROVE  /\ Join(d, i, s, new).dist \in [0..(N - 1) -> Nat]
         /\ Join(d, i, s, new).par \in [0..(N - 1) -> Int]
         /\ Solved(E, i + 1, Srcs, Join(d, i, s, new).dist, Join(d, i, s, new).par)
<1> DEFINE M == new.dist[s]
           e == new.dist
           through == {j \in 0..(i - 1) : d.dist[j] # 0 /\ d.dist[j] >= new.dist[j] + M}
           next == Towards(i, s, new)
           t == Join(d, i, s, new).dist
           r == Join(d, i, s, new).par
<1>0. i \in Nat /\ (i + 1) - 1 = i /\ i < N
  OBVIOUS
<1>1. /\ \A v \in 0..(i - 1) :
           /\ d.dist[v] \in 0..i
           /\ v \in S <=> d.dist[v] = 0
           /\ v \in S => d.par[v] = v
           /\ v \notin S => /\ d.par[v] \in 0..(i - 1) /\ Linked(E, v, d.par[v])
                            /\ d.dist[d.par[v]] + 1 = d.dist[v]
           /\ \A w \in 0..(i - 1) : Linked(E, v, w) => d.dist[w] <= d.dist[v] + 1
      /\ \A v \in 0..i :
           /\ e[v] \in 0..(i + 1)
           /\ v = i <=> e[v] = 0
           /\ v # i => /\ new.par[v] \in 0..i /\ Linked(E, v, new.par[v])
                       /\ e[new.par[v]] + 1 = e[v]
           /\ \A w \in 0..i : Linked(E, v, w) => e[w] <= e[v] + 1
  BY <1>0 DEF Solved
<1>2. \A v \in 0..i : v = i \/ v \in 0..(i - 1)
  BY <1>0
<1>3. \A v \in 0..(i - 1) : v \in 0..i /\ v # i /\ v \in 0..(N - 1) /\ d.dist[v] \in Nat
  BY <1>0
<1>4. M \in Nat /\ i \in 0..i /\ e[i] = 0 /\ \A v \in 0..i : e[v] \in Nat
  BY <1>0, <1>1
<1>a. M \in Nat
  BY <1>4
<1>5. next \in 0..i
  <2>1. CASE s = i
    BY <1>4, <2>1 DEF Towards
  <2>2. CASE s # i
    <3>1. \E climb : IsClimb(climb, i, s, new)
      BY ONLY <1>0, <2>2, TowardsIs, s \in 0..i, Solved(E, i + 1, {i}, new.dist, new.par)
    <3>4. PICK climb \in [0..M -> 0..i] : next = climb[M - 1]
      BY <3>1 DEF IsClimb
    <3>2. M # 0
      BY <1>1, <2>2
    <3>3. M - 1 \in 0..M
      BY SMTT(30), <1>4, <3>2
    <3> QED
      BY <3>3, <3>4
  <2> QED
    BY <2>1, <2>2
<1>6. /\ t = [j \in 0..(N - 1) |-> IF j = i THEN M ELSE
                IF j \in through THEN e[j] + M ELSE d.dist[j]]
      /\ r = [j \in 0..(N - 1) |-> IF j = i THEN next ELSE
                IF j \in through THEN new.par[j] ELSE d.par[j]]
  BY DEF Join
<1>7. \A j \in through : /\ j \in 0..(i - 1) /\ d.dist[j] # 0 /\ d.dist[j] >= e[j] + M
                         /\ j \in 0..i /\ new.par[j] \in 0..i /\ e[j] \in Nat
  BY <1>1, <1>3, <1>4
<1>8. \A j \in 0..(i - 1) : d.dist[j] # 0 /\ d.dist[j] >= e[j] + M => j \in through
  OBVIOUS
<1> HIDE DEF M, e, through, next, t, r
<1>9. t \in [0..(N - 1) -> Nat] /\ r \in [0..(N - 1) -> Int]
  <2>1. \A j \in 0..(N - 1) : d.dist[j] \in Nat /\ d.par[j] \in Int
    OBVIOUS
  <2>2. \A j \in through : e[j] + M \in Nat /\ new.par[j] \in Int
    BY SMTT(30), <1>4, <1>7
  <2>3. next \in Int
    BY <1>5
  <2>4. t \in [0..(N - 1) -> Nat]
    BY <1>4, <1>6, <2>1, <2>2
  <2>5. r \in [0..(N - 1) -> Int]
    BY <1>6, <2>1, <2>2, <2>3
  <2> QED
    BY <2>4, <2>5
<1>10. /\ t[i] = M /\ r[i] = next
       /\ \A j \in 0..(i - 1) :
            /\ t[j] = IF j \in through THEN e[j] + M ELSE d.dist[j]
            /\ r[j] = IF j \in through THEN new.par[j] ELSE d.par[j]
  BY <1>0, <1>3, <1>6
<1>11. \A j \in 0..(i - 1) : t[j] <= d.dist[j] /\ t[j] <= e[j] + M /\ t[j] \in Nat
  <2> SUFFICES ASSUME NEW j \in 0..(i - 1)
               PROVE  t[j] <= d.dist[j] /\ t[j] <= e[j] + M /\ t[j] \in Nat
    OBVIOUS
  <2>1. d.dist[j] \in Nat /\ e[j] \in Nat
    BY <1>3, <1>4
  <2>2. CASE j \in through
    <3>1. t[j] = e[j] + M /\ d.dist[j] >= e[j] + M
      BY <1>7, <1>10, <2>2
    <3> QED
      BY ONLY <1>a, <2>1, <3>1
  <2>3. CASE j \notin through
    <3>1. t[j] = d.dist[j] /\ (d.dist[j] = 0 \/ ~(d.dist[j] >= e[j] + M))
      BY <1>8, <1>10, <2>3
    <3> QED
      BY ONLY <1>a, <2>1, <3>1
  <2> QED
    BY <2>2, <2>3
<1>12. i \in Srcs <=> M = 0
  <2>1. ASSUME i \in Srcs PROVE M = 0
    <3>1. M <= e[i]
      BY <1>4, <2>1 DEF M, e
    <3> QED
      BY <1>4, <3>1
  <2>2. ASSUME M = 0 PROVE i \in Srcs
    <3>1. s = i
      BY <1>1, <2>2 DEF M, e
    <3> QED
      BY <3>1
  <2> QED
    BY <2>1, <2>2
<1>13. \A v \in 0..i : v \in Srcs <=> t[v] = 0
  <2>1. i \in Srcs <=> t[i] = 0
    BY <1>10, <1>12
  <2>2. ASSUME NEW v \in 0..(i - 1) PROVE v \in Srcs <=> t[v] = 0
    <3>1. v \in Srcs <=> d.dist[v] = 0
      BY <1>1
    <3>2. CASE v \in through
      <4>1. t[v] = e[v] + M /\ d.dist[v] # 0
        BY <1>7, <1>10, <3>2
      <4>2. e[v] # 0 /\ e[v] \in Nat
        BY <1>1, <1>3, <1>4
      <4>3. t[v] # 0
        BY ONLY <1>a, <4>1, <4>2
      <4> QED
        BY <3>1, <4>1, <4>3
    <3>3. CASE v \notin through
      BY <1>10, <3>1, <3>3
    <3> QED
      BY <3>2, <3>3
  <2> QED
    BY <1>2, <2>1, <2>2
<1>14. \A v, w \in 0..i : Linked(E, v, w) => t[w] <= t[v] + 1
  <2> SUFFICES ASSUME NEW v \in 0..i, NEW w \in 0..i, Linked(E, v, w)
               PROVE  t[w] <= t[v] + 1
    OBVIOUS
  <2>1. e[w] <= e[v] + 1 /\ e[w] \in Nat /\ e[v] \in Nat
    BY <1>1, <1>4
  <2>2. t[w] <= e[w] + M /\ t[w] \in Nat
    <3>1. CASE w = i
      BY <1>4, <1>10, <3>1
    <3>2. CASE w \in 0..(i - 1)
      BY <1>11, <3>2
    <3> QED
      BY <1>2, <3>1, <3>2
  <2>3. CASE v = i \/ v \in through
    <3>1. t[v] = e[v] + M
      <4>1. CASE v = i
        BY <1>4, <1>10, <4>1
      <4>2. CASE v \in through
        BY <1>7, <1>10, <4>2
      <4> QED
        BY <2>3, <4>1, <4>2
    <3> QED
      BY <1>4, <2>1, <2>2, <3>1
  <2>4. CASE v \in 0..(i - 1) /\ v \notin through /\ w \in 0..(i - 1)
    <3>1. t[v] = d.dist[v] /\ d.dist[w] <= d.dist[v] + 1 /\ t[w] <= d.dist[w]
      BY <1>1, <1>10, <1>11, <2>4
    <3>2. d.dist[v] \in Nat /\ d.dist[w] \in Nat
      BY <1>3, <2>4
    <3> QED
      BY <2>2, <3>1, <3>2
  <2>5. CASE v \in 0..(i - 1) /\ v \notin through /\ w = i
    <3>1. e[v] <= 1
      <4>1. Linked(E, i, v)
        BY <2>5, LinkedBothWays
      <4>2. e[v] <= e[i] + 1
        BY <1>1, <1>4, <4>1
      <4> QED
        BY <1>4, <4>2
    <3>2. PICK x \in S \cap 0..(i - 1) : e[x] <= e[v] + d.dist[v]
      BY <1>0, <2>5, SourceOver DEF e
    <3>3. x \in Srcs \cap 0..i /\ e[x] \in Nat
      BY <1>3, <1>4, <3>2
    <3>4. M <= e[x]
      BY <3>3 DEF M, e
    <3>5. t[v] = d.dist[v] /\ d.dist[v] \in Nat /\ t[w] = M
      BY <1>3, <1>10, <2>5
    <3> QED
      BY ONLY <1>a, <2>1, <3>1, <3>2, <3>3, <3>4, <3>5
  <2> QED
    BY <1>2, <2>3, <2>4, <2>5
<1>15. ASSUME NEW v \in 0..(i - 1), v \in Srcs PROVE r[v] = v
  <2>1. v \in S /\ d.dist[v] = 0
    BY <1>1, <1>15
  <2>2. v \notin through
    BY <1>7, <2>1
  <2> QED
    BY <1>1, <1>10, <2>1, <2>2
<1>16. ASSUME i \in Srcs PROVE r[i] = i
  <2>1. M = 0
    BY <1>12, <1>16
  <2>2. s = i
    BY <1>1, <2>1 DEF M, e
  <2>3. next = i
    BY <2>2 DEF next, Towards
  <2> QED
    BY <1>10, <2>3
<1>17. ASSUME NEW v \in 0..(i - 1), v \notin Srcs
       PROVE  r[v] \in 0..i /\ Linked(E, v, r[v]) /\ t[r[v]] + 1 = t[v]
  <2>1. v \notin S /\ d.dist[v] # 0
    BY <1>1, <1>17
  <2>2. CASE v \notin through
    <3> DEFINE q == d.par[v]
    <3>1. q \in 0..(i - 1) /\ Linked(E, v, q) /\ d.dist[q] + 1 = d.dist[v] /\ r[v] = q
          /\ t[v] = d.dist[v]
      BY <1>1, <1>10, <2>1, <2>2
    <3> HIDE DEF q
    <3>2. q \notin through
      <4> SUFFICES ASSUME q \in through PROVE FALSE
        OBVIOUS
      <4>1. d.dist[q] >= e[q] + M /\ d.dist[q] \in Nat /\ d.dist[v] \in Nat
        BY <1>3, <1>7, <3>1
      <4>2. e[v] <= e[q] + 1 /\ e[v] \in Nat /\ e[q] \in Nat
        BY <1>1, <1>3, <1>4, <3>1, LinkedBothWays
      <4>3. d.dist[v] >= e[v] + M
        BY ONLY <1>a, <3>1, <4>1, <4>2
      <4> QED
        BY <1>8, <2>1, <2>2, <4>3
    <3>3. t[q] = d.dist[q]
      BY <1>10, <3>1, <3>2
    <3> QED
      BY <1>3, <3>1, <3>3
  <2>3. CASE v \in through
    <3> DEFINE q == new.par[v]
    <3>1. q \in 0..i /\ Linked(E, v, q) /\ e[q] + 1 = e[v] /\ r[v] = q /\ t[v] = e[v] + M
      BY <1>1, <1>3, <1>10, <2>3
    <3>2. d.dist[v] >= e[v] + M /\ d.dist[v] \in Nat /\ e[v] \in Nat /\ e[q] \in Nat
      BY <1>3, <1>4, <1>7, <2>3, <3>1
    <3> HIDE DEF q
    <3>3. t[q] = e[q] + M
      <4>1. CASE q = i
        BY <1>4, <1>10, <4>1
      <4>2. CASE q \in 0..(i - 1)
        <5>1. d.dist[v] <= d.dist[q] + 1 /\ d.dist[q] \in Nat
          BY <1>1, <1>3, <3>1, <4>2, LinkedBothWays
        <5>2. e[q] # 0
          BY <1>1, <1>3, <4>2
        <5>3. d.dist[q] >= e[q] + M /\ d.dist[q] # 0
          BY ONLY <1>a, <3>1, <3>2, <5>1, <5>2
        <5>4. q \in through
          BY <1>8, <4>2, <5>3
        <5> QED
          BY <1>10, <4>2, <5>4
      <4> QED
        BY <1>2, <3>1, <4>1, <4>2
    <3> QED
      BY ONLY <1>a, <3>1, <3>2, <3>3
  <2> QED
    BY <2>2, <2>3
<1>18. ASSUME i \notin Srcs
       PROVE  r[i] \in 0..i /\ Linked(E, i, r[i]) /\ t[r[i]] + 1 = t[i]
  <2>1. s # i /\ M # 0 /\ s \in 0..(i - 1)
    BY <1>2, <1>12, <1>18
  <2>2. PICK climb \in [0..M -> 0..i] :
          /\ next = climb[M - 1] /\ climb[0] = s
          /\ \A k \in 1..M : climb[k] = new.par[climb[k - 1]]
    <3>1. \E climb : IsClimb(climb, i, s, new)
      BY ONLY <1>0, <2>1, TowardsIs, s \in 0..i, Solved(E, i + 1, {i}, new.dist, new.par)
    <3> QED
      BY <3>1 DEF M, next, IsClimb
  <2> DEFINE K == M - 1
             Good == {k \in 0..K : /\ climb[k] \in 0..(i - 1) /\ e[climb[k]] = M - k
                                   /\ d.dist[climb[k]] <= k}
  <2>3. K \in Nat
    BY <1>4, <2>1
  <2>4. 0 \in Good
    <3>1. s \in S /\ d.dist[s] = 0
      BY <1>1, <2>1
    <3>2. e[s] = M
      BY DEF M, e
    <3> QED
      BY SMTT(30), <1>4, <2>1, <2>2, <2>3, <3>1, <3>2
  <2>5. ASSUME NEW k \in 0..K, k # K, k \in Good PROVE k + 1 \in Good
    <3>1. k + 1 \in 1..M /\ k + 1 \in 0..K /\ (k + 1) - 1 = k /\ k \in Nat /\ M - k > 1
      <4>1. k \in 0..K /\ k # K /\ K \in Nat /\ K = M - 1
        BY <2>3, <2>5
      <4> QED
        BY ONLY <1>a, <4>1
    <3> DEFINE a == climb[k]
               b == climb[k + 1]
    <3>2. b = new.par[a] /\ a \in 0..(i - 1) /\ e[a] = M - k /\ d.dist[a] <= k
      BY <2>2, <2>5, <3>1
    <3> HIDE DEF a, b
    <3>3. b \in 0..i /\ Linked(E, a, b) /\ e[b] + 1 = e[a] /\ e[b] \in Nat
      BY <1>1, <1>3, <1>4, <3>2
    <3>4. e[b] = M - (k + 1) /\ e[b] # 0
      BY ONLY <1>a, <3>1, <3>2, <3>3
    <3>5. b \in 0..(i - 1)
      BY <1>1, <1>2, <3>3, <3>4
    <3>6. d.dist[b] <= d.dist[a] + 1 /\ d.dist[b] \in Nat /\ d.dist[a] \in Nat
      BY <1>1, <1>3, <3>2, <3>3, <3>5
    <3>7. d.dist[b] <= k + 1
      BY ONLY <3>1, <3>2, <3>6
    <3> QED
      BY <3>1, <3>4, <3>5, <3>7 DEF b
  <2>6. K \in Good
    <3>1. 0..K \subseteq Good
      <4> HIDE DEF Good, K
      <4> QED
        BY <2>3, <2>4, <2>5, Inductive
    <3> HIDE DEF Good
    <3> QED
      BY <2>3, <3>1
  <2>7. next \in 0..(i - 1) /\ e[next] = M - (M - 1) /\ d.dist[next] <= M - 1
    BY <2>2, <2>6
  <2>8. e[next] = 1
    BY <1>4, <2>7
  <2>9. new.par[next] \in 0..i /\ Linked(E, next, new.par[next]) /\ e[new.par[next]] + 1 = 1
    BY <1>1, <1>3, <2>7, <2>8
  <2>10. new.par[next] = i
    <3>1. e[new.par[next]] \in Nat
      BY <1>4, <2>9
    <3>2. e[new.par[next]] = 0
      BY <2>9, <3>1
    <3> QED
      BY <1>1, <2>9, <3>2
  <2>11. Linked(E, i, next) /\ Linked(E, next, i)
    BY <2>9, <2>10, LinkedBothWays
  <2>12. t[i] <= t[next] + 1 /\ t[next] <= d.dist[next] /\ t[next] \in Nat
    BY <1>4, <1>5, <1>11, <1>14, <2>7, <2>11
  <2>13. d.dist[next] \in Nat
    BY <1>3, <2>7
  <2>14. t[next] + 1 = t[i]
    <3>1. t[i] = M
      BY <1>10
    <3> QED
      BY ONLY <1>a, <2>7, <2>12, <2>13, <3>1
  <2> QED
    BY <1>5, <1>10, <2>11, <2>14
<1>19. \A v \in 0..i : t[v] \in 0..(i + 1)
  <2>1. t[i] \in 0..(i + 1)
    BY <1>1, <1>10 DEF M, e
  <2>2. ASSUME NEW v \in 0..(i - 1) PROVE t[v] \in 0..(i + 1)
    <3>1. t[v] \in Nat /\ t[v] <= d.dist[v] /\ d.dist[v] \in 0..i
      BY <1>1, <1>11
    <3> QED
      BY <1>0, <3>1
  <2> QED
    BY <1>2, <2>1, <2>2
<1>20. Solved(E, i + 1, Srcs, t, r)
  <2> SUFFICES ASSUME NEW v \in 0..i
               PROVE  /\ t[v] \in 0..(i + 1)
                      /\ v \in Srcs <=> t[v] = 0
                      /\ v \in Srcs => r[v] = v
                      /\ v \notin Srcs => /\ r[v] \in 0..i /\ Linked(E, v, r[v])
                                          /\ t[r[v]] + 1 = t[v]
                      /\ \A w \in 0..i : Linked(E, v, w) => t[w] <= t[v] + 1
    BY <1>0 DEF Solved
  <2>1. v \in Srcs => r[v] = v
    BY <1>2, <1>15, <1>16
  <2>2. v \notin Srcs => r[v] \in 0..i /\ Linked(E, v, r[v]) /\ t[r[v]] + 1 = t[v]
    BY <1>2, <1>17, <1>18
  <2> QED
    BY <1>13, <1>14, <1>19, <2>1, <2>2
<1> QED
  BY <1>9, <1>20 DEF t, r

\* Min is a least member, Max of 0 and more is more.
LEMMA MinIs == ASSUME NEW S, S \subseteq Nat, S # {} PROVE Min(S) \in S
<1>1. \E x \in S : \A y \in S : x <= y
  BY LeastNatural
<1> QED
  BY <1>1 DEF Min

\* The number of new nodes.
LEMMA MaxIs == ASSUME NEW k \in Nat PROVE Max({0, k}) = k
<1> DEFINE P(x) == x \in {0, k} /\ \A y \in {0, k} : x >= y
<1>1. P(k)
  OBVIOUS
<1>2. \A x : P(x) => x = k
  OBVIOUS
<1>3. Max({0, k}) = CHOOSE x \in {0, k} : \A y \in {0, k} : x >= y
  BY DEF Max
<1> QED
  BY <1>1, <1>2, <1>3

\* The source that is taken for i is one, and none is nearer.
LEMMA NearestIs ==
  ASSUME NEW i \in Nat, i + 1 < Infinity, NEW E, NEW owned \in Seq(Nat),
         NEW new, Solved(E, i + 1, {i}, new.dist, new.par),
         NEW isSource \in BOOLEAN, isSource <=> i \in ToSet(owned),
         \E v \in ToSet(owned) : v <= i
  PROVE  /\ NearestSource(i, isSource, owned, new) \in ToSet(owned)
         /\ NearestSource(i, isSource, owned, new) \in 0..i
         /\ \A v \in ToSet(owned) \cap 0..i :
              new.dist[NearestSource(i, isSource, owned, new)] <= new.dist[v]
<1> DEFINE s == NearestSource(i, isSource, owned, new)
           e == new.dist
<1>1. \A v \in 0..i : e[v] \in Nat /\ e[v] < Infinity
  <2>1. (i + 1) - 1 = i /\ Infinity \in Nat
    BY DEF Infinity
  <2>2. \A v \in 0..i : e[v] \in 0..(i + 1)
    BY <2>1 DEF Solved
  <2> HIDE DEF e
  <2> QED
    BY <2>1, <2>2
<1>2. e[i] = 0 /\ i \in 0..i
  BY DEF Solved
<1>3. /\ DOMAIN owned = 1..Len(owned) /\ Len(owned) \in Nat
      /\ \A k \in DOMAIN owned : owned[k] \in Nat
  OBVIOUS
<1>4. \A v : v \in ToSet(owned) <=> \E k \in DOMAIN owned : owned[k] = v
  BY DEF ToSet
<1>5. CASE isSource
  <2>1. s = i
    BY <1>5 DEF NearestSource
  <2>2. \A v \in 0..i : e[i] <= e[v]
    <3> HIDE DEF e
    <3> QED
      BY <1>1, <1>2
  <2>3. s \in ToSet(owned) /\ s \in 0..i
    BY <1>2, <1>5, <2>1
  <2> HIDE DEF s
  <2> QED
    BY <2>1, <2>2, <2>3 DEF s
<1>6. CASE ~isSource
  <2> DEFINE reached == {k \in DOMAIN owned : owned[k] <= i /\ e[owned[k]] < Infinity}
             nearest == {k \in reached : \A j \in reached : e[owned[k]] <= e[owned[j]]}
             values == {e[owned[k]] : k \in reached}
  <2>1. s = IF reached = {} THEN -1 ELSE owned[Min(nearest)]
    BY <1>6 DEF NearestSource
  <2>2. \A k \in DOMAIN owned : owned[k] <= i => k \in reached
    <3> SUFFICES ASSUME NEW k \in DOMAIN owned, owned[k] <= i PROVE e[owned[k]] < Infinity
      OBVIOUS
    <3>1. owned[k] \in 0..i
      BY <1>3
    <3> QED
      BY <1>1, <3>1
  <2>3. reached # {}
    <3>1. PICK v \in ToSet(owned) : v <= i
      OBVIOUS
    <3>2. PICK k \in DOMAIN owned : owned[k] = v
      BY <1>4
    <3> QED
      BY <2>2, <3>1, <3>2
  <2>4. \A k \in reached : k \in DOMAIN owned /\ owned[k] \in 0..i /\ e[owned[k]] \in Nat
    <3>1. \A k \in reached : k \in DOMAIN owned /\ owned[k] \in 0..i
      BY <1>3
    <3> HIDE DEF reached, e
    <3> QED
      BY <1>1, <3>1
  <2> HIDE DEF reached, e
  <2>5. PICK x \in values : \A y \in values : x <= y
    <3>1. values \subseteq Nat /\ values # {}
      BY <2>3, <2>4
    <3> HIDE DEF values
    <3> QED
      BY <3>1, LeastNatural
  <2>6. nearest # {} /\ nearest \subseteq Nat
    <3>1. PICK k \in reached : x = e[owned[k]]
      BY <2>5
    <3>2. k \in nearest
      BY <2>5, <3>1
    <3>3. reached \subseteq Nat
      BY <1>3, <2>4
    <3> QED
      BY <3>2, <3>3
  <2> DEFINE k == Min(nearest)
  <2>7. k \in nearest
    <3> HIDE DEF nearest
    <3> QED
      BY <2>6, MinIs
  <2> HIDE DEF k, s
  <2>8. k \in reached /\ s = owned[k] /\ \A j \in reached : e[owned[k]] <= e[owned[j]]
    BY <2>1, <2>3, <2>7 DEF k
  <2>9. s \in ToSet(owned) /\ s \in 0..i
    BY <1>4, <2>4, <2>8
  <2>10. ASSUME NEW v \in ToSet(owned) \cap 0..i PROVE e[s] <= e[v]
    <3>1. PICK j \in DOMAIN owned : owned[j] = v
      BY <1>4
    <3>2. j \in reached
      BY <2>2, <3>1
    <3> QED
      BY <2>8, <3>1, <3>2
  <2> QED
    BY <2>9, <2>10 DEF s, e
<1> QED
  BY <1>5, <1>6

\* optimised_dijkstra solves the problem for the nodes that join, one after the other,
\* if it was solved for those before.
LEMMA JoinAllSolves ==
  ASSUME NEW c, NEW N \in Nat, NEW P \in 1..(N - 1), n[c] = N, prevN[c] = P,
         N + 2 < Infinity, NEW E \in Seq(Nat \X Nat),
         \A i \in P..(N - 1) : Connected(E, i + 1),
         NEW owned \in Seq(Nat), \E v \in ToSet(owned) : v < P,
         \A i \in P..(N - 1) : i \in ToSet(owned) <=> i % NConsumers = c,
         NEW d, d.dist \in [0..(N - 1) -> Nat], d.par \in [0..(N - 1) -> Int],
         Solved(E, P, ToSet(owned), d.dist, d.par)
  PROVE  /\ JoinAll(c, E, owned, d).dist \in [0..(N - 1) -> Nat]
         /\ JoinAll(c, E, owned, d).par \in [0..(N - 1) -> Int]
         /\ Solved(E, N, ToSet(owned), JoinAll(c, E, owned, d).dist,
                   JoinAll(c, E, owned, d).par)
<1> DEFINE new == Max({0, n[c] - prevN[c]})
           k == N - P
           S == ToSet(owned)
           near(i) == NearestSource(i, i % NConsumers = c, owned, SearchFrom(E, i))
           first == [ok |-> TRUE, dist |-> d.dist, par |-> d.par]
           Turn(j, x) == LET i == P + j - 1 IN
                           IF x.ok /\ near(i) # -1
                           THEN Outcome(Join(x, i, near(i), SearchFrom(E, i)), TRUE)
                           ELSE Outcome(x, FALSE)
           IsRun(f) == f = [j \in 0..k |-> IF j = 0 THEN first ELSE Turn(j, f[j - 1])]
           run == CHOOSE f : IsRun(f)
           T == [ok : BOOLEAN, dist : [0..(N - 1) -> Nat], par : [0..(N - 1) -> Int]]
           Right(x, j) == x \in T /\ x.ok /\ Solved(E, P + j, S, x.dist, x.par)
           F == [x \in (1..k) \X T |->
                   IF Right(x[2], x[1] - 1) THEN Turn(x[1], x[2]) ELSE x[2]]
<1>0. P \in Nat /\ P >= 1 /\ P < N /\ k \in Nat /\ k >= 1
  OBVIOUS
<1>1. JoinAll(c, E, owned, d) = run[k]
  <2>1. new = k
    <3>1. n[c] - prevN[c] = k
      OBVIOUS
    <3> HIDE DEF k
    <3> QED
      BY <1>0, <3>1, MaxIs
  <2>2. JoinAll(c, E, owned, d) =
          (CHOOSE f : f = [j \in 0..new |-> IF j = 0 THEN first ELSE Turn(j, f[j - 1])])[new]
    BY DEF JoinAll
  <2> HIDE DEF new, Turn, first, k
  <2> QED
    BY <2>1, <2>2
<1>2. Right(first, 0)
  <2>1. P + 0 = P
    BY <1>0
  <2> QED
    BY <2>1
<1>3. ASSUME NEW j \in 1..k, NEW x, Right(x, j - 1)
      PROVE  Right(Turn(j, x), j)
  <2> DEFINE i == P + j - 1
             e == SearchFrom(E, i)
             s == near(i)
             t == Join(x, i, s, e)
  <2>1. /\ i \in P..(N - 1) /\ i \in Nat /\ i \in 0..(N - 1) /\ i + 2 < Infinity
        /\ i + 1 < Infinity /\ P + (j - 1) = i /\ P + j = i + 1
    <3>1. Infinity \in Nat
      BY DEF Infinity
    <3> QED
      BY <1>0, <3>1
  <2>2. Solved(E, i, S, x.dist, x.par) /\ x \in T /\ x.ok
    BY <1>3, <2>1
  <2> HIDE DEF i, T, S
  <2>3. Solved(E, i + 1, {i}, e.dist, e.par)
    BY <2>1, SearchFromSolves
  <2> HIDE DEF e
  <2>4. s \in S /\ s \in 0..i /\ \A v \in S \cap 0..i : e.dist[s] <= e.dist[v]
    <3>1. (i % NConsumers = c) \in BOOLEAN /\ (i % NConsumers = c <=> i \in ToSet(owned))
      BY <2>1
    <3>2. \E v \in ToSet(owned) : v <= i
      <4>1. PICK v \in ToSet(owned) : v < P
        OBVIOUS
      <4>2. v \in Nat
        BY DEF ToSet
      <4> QED
        BY <1>0, <2>1, <4>1, <4>2
    <3> DEFINE b == i % NConsumers = c
    <3>3. b \in BOOLEAN /\ (b <=> i \in ToSet(owned)) /\ s = NearestSource(i, b, owned, e)
      BY <3>1 DEF e
    <3> HIDE DEF b, s
    <3> QED
      BY <2>1, <2>3, <3>2, <3>3, NearestIs DEF S
  <2> HIDE DEF s
  <2>5. x.dist \in [0..(N - 1) -> Nat] /\ x.par \in [0..(N - 1) -> Int]
    BY <2>2 DEF T
  <2>6. /\ t.dist \in [0..(N - 1) -> Nat] /\ t.par \in [0..(N - 1) -> Int]
        /\ Solved(E, i + 1, S, t.dist, t.par)
    BY <2>1, <2>2, <2>3, <2>4, <2>5, JoinSolves
  <2>7. Turn(j, x) = Outcome(t, TRUE)
    <3>1. s # -1
      BY <2>4
    <3> QED
      BY <2>2, <3>1 DEF i, s, e
  <2> HIDE DEF t
  <2>8. Outcome(t, TRUE) \in T /\ Outcome(t, TRUE).ok
        /\ Outcome(t, TRUE).dist = t.dist /\ Outcome(t, TRUE).par = t.par
    BY <2>6 DEF Outcome, T
  <2> HIDE DEF Turn
  <2> QED
    BY <2>1, <2>6, <2>7, <2>8
<1> HIDE DEF Turn, first, S
<1>4. ASSUME NEW f, f[0] = first,
             \A j \in 1..k : Right(f[j - 1], j - 1) => f[j] = Turn(j, f[j - 1])
      PROVE  \A j \in 0..k : Right(f[j], j)
  <2> DEFINE Good == {j \in 0..k : Right(f[j], j)}
  <2> HIDE DEF Right, k
  <2>1. ASSUME NEW j \in 0..k, j # k, j \in Good PROVE j + 1 \in Good
    <3>1. j + 1 \in 1..k /\ (j + 1) - 1 = j /\ j + 1 \in 0..k
      <4>1. j \in 0..k /\ j # k
        BY <2>1
      <4> QED
        BY ONLY <1>0, <4>1
    <3>2. Right(f[j], (j + 1) - 1)
      BY <2>1, <3>1
    <3>3. Right(Turn(j + 1, f[j]), j + 1)
      BY <1>3, <3>1, <3>2
    <3>4. f[j + 1] = Turn(j + 1, f[j])
      BY <1>4, <3>1, <3>2
    <3> QED
      BY <3>1, <3>3, <3>4
  <2>2. 0 \in Good
    BY <1>0, <1>2, <1>4
  <2>3. 0..k \subseteq Good
    <3> HIDE DEF Good
    <3> QED
      BY <1>0, <2>1, <2>2, Inductive
  <2> QED
    BY <2>3
<1>5. \E f : IsRun(f)
  <2>1. F \in [(1..k) \X T -> T] /\ first \in T
    <3>1. first \in T
      BY <1>2
    <3>2. ASSUME NEW j \in 1..k, NEW x \in T, Right(x, j - 1) PROVE Turn(j, x) \in T
      BY <1>3, <3>2
    <3> HIDE DEF Right, T, k
    <3> QED
      BY <3>1, <3>2
  <2> HIDE DEF Right, T, k
  <2>2. PICK f \in [0..k -> T] : IsIteration(f, k, first, F)
    <3> HIDE DEF F
    <3> QED
      BY <1>0, <2>1, Iterates
  <2>3. ASSUME NEW j \in 1..k
        PROVE f[j] = IF Right(f[j - 1], j - 1) THEN Turn(j, f[j - 1]) ELSE f[j - 1]
    <3>1. <<j, f[j - 1]>> \in (1..k) \X T
      <4>1. j - 1 \in 0..k
        BY <1>0
      <4> QED
        BY <4>1
    <3> QED
      BY <2>2, <3>1 DEF IsIteration
  <2>4. f[0] = first
    BY <2>2 DEF IsIteration
  <2>5. \A j \in 0..k : Right(f[j], j)
    BY <1>4, <2>3, <2>4
  <2>6. \A j \in 1..k : j - 1 \in 0..k
    BY <1>0
  <2>7. \A j \in 1..k : f[j] = Turn(j, f[j - 1])
    BY <2>3, <2>5, <2>6
  <2>8. \A j \in 0..k : j = 0 \/ j \in 1..k
    BY <1>0
  <2>9. f = [j \in 0..k |-> IF j = 0 THEN first ELSE Turn(j, f[j - 1])]
    BY <2>4, <2>7, <2>8
  <2> QED
    BY <2>9
<1>6. IsRun(run)
  BY <1>5
<1> HIDE DEF run
<1>7. run[0] = first /\ \A j \in 1..k : run[j] = Turn(j, run[j - 1])
  <2> HIDE DEF k
  <2>1. run = [j \in 0..k |-> IF j = 0 THEN first ELSE Turn(j, run[j - 1])]
    BY <1>6
  <2>2. 0 \in 0..k /\ \A j \in 1..k : j \in 0..k /\ j # 0
    BY <1>0
  <2>3. \A j \in 0..k : run[j] = IF j = 0 THEN first ELSE Turn(j, run[j - 1])
    BY <2>1
  <2> QED
    BY <2>2, <2>3
<1> HIDE DEF IsRun
<1>8. Right(run[k], k)
  <2> HIDE DEF Right, k
  <2>1. \A j \in 0..k : Right(run[j], j)
    BY <1>4, <1>7
  <2> QED
    BY <1>0, <2>1
<1>9. P + k = N
  OBVIOUS
<1> HIDE DEF k
<1> QED
  BY <1>1, <1>8, <1>9 DEF S

-----------------------------------------------------------------------------
(* The graphs that are published, and what consumers know of them *)

\* From the first graph on, the nodes are connected at every size.
Grown(E, N) == \A M \in InitialNodes..N : Connected(E, M)

\* The edges of a later graph link no two nodes of an older one anew.
NoNewLinks(E, old, N) ==
  \A v, w \in 0..(N - 1) : Linked(E, v, w) => Linked(old, v, w)

GrownInv ==
  /\ pN <= InitialNodes + (ProducerCapacity - capacity) * MaxNewNodes + fresh
  /\ capacity = 0 => fresh = 0
  /\ Grown(pEdges, pN)
  /\ \A s \in 1..Newest :
       /\ InitialNodes <= NodesWord(s)
       /\ Grown(EdgesIn(segment[s]), NodesWord(s))
       /\ NoNewLinks(pEdges, EdgesIn(segment[s]), NodesWord(s))
  /\ \A s, t \in 1..Newest : s < t =>
       NoNewLinks(EdgesIn(segment[t]), EdgesIn(segment[s]), NodesWord(s))

\* The sources are some of the first N nodes, and dist and par solve the problem for
\* these.
SolvesFor(E, N, from, d, p) ==
  /\ N = 0 => from = <<>> /\ d = <<>> /\ p = <<>>
  /\ N > 0 => /\ from \in Seq(0..(N - 1)) /\ from # <<>>
              /\ d \in [0..(N - 1) -> Nat] /\ p \in [0..(N - 1) -> Int]
              /\ Solved(E, N, ToSet(from), d, p)
Solves(E, N, c) == SolvesFor(E, N, sources[c], dist[c], par[c])

\* While it reads, those of the product before, whose nodes are linked as they were.
Computed(c) ==
  ~torn[c] => IF Busy(c)
              THEN /\ prevN[c] < n[c] /\ (prevN[c] > 0 => InitialNodes <= prevN[c])
                   /\ Solves(EdgesIn(segment[at[c]]), prevN[c], c)
              ELSE Solves(g[c], n[c], c)

ComputedTypes ==
  DOMAIN sources = Consumers /\ DOMAIN dist = Consumers /\ DOMAIN par = Consumers

PathsInv == GraphInv /\ GrownInv /\ ComputedTypes /\ \A c \in Consumers : Computed(c)

-----------------------------------------------------------------------------
(* Links of a graph that grows *)

\* The links of an extended graph.
LEMMA LinksKept ==
  ASSUME NEW E \in Seq(Nat \X Nat), NEW old \in Seq(Nat \X Nat), Extends(E, old),
         NEW v, NEW w, Linked(old, v, w)
  PROVE  Linked(E, v, w)
<1>1. PICK i \in 1..Len(old) : old[i] = <<v, w>> \/ old[i] = <<w, v>>
  BY DEF Linked
<1>2. i \in 1..Len(E) /\ E[i] = old[i]
  <2>1. Len(old) \in Nat /\ Len(E) \in Nat
    OBVIOUS
  <2> QED
    BY <1>1, <2>1 DEF Extends
<1> QED
  BY <1>1, <1>2 DEF Linked

\* What is connected stays so with more edges.
LEMMA ConnectedKept ==
  ASSUME NEW N \in Nat, NEW E \in Seq(Nat \X Nat), NEW old \in Seq(Nat \X Nat),
         Extends(E, old), Connected(old, N)
  PROVE  Connected(E, N)
<1>1. ASSUME NEW X \in SUBSET (0..(N - 1)), X # {},
             \A v \in X : \A w \in 0..(N - 1) : Linked(E, v, w) => w \in X
      PROVE  X = 0..(N - 1)
  <2>1. \A v \in X : \A w \in 0..(N - 1) : Linked(old, v, w) => w \in X
    BY <1>1, LinksKept
  <2> QED
    BY <1>1, <2>1, ClosedIsAll
<1> QED
  BY <1>1, ConnectedIf

\* The edges of a new node.
NewEdges(ends, degree, N) == [k \in 1..degree |-> <<ends[k], N>>]

EndsOf(ends, degree) == {ends[k] : k \in 1..degree}

\* They link the new node to the ends, and nothing else.
LEMMA NewEdgesAre ==
  ASSUME NEW N \in Nat, NEW degree \in Nat, NEW ends \in [1..degree -> 0..(N - 1)]
  PROVE  /\ NewEdges(ends, degree, N) \in Seq(Nat \X Nat)
         /\ \A v, w : Linked(NewEdges(ends, degree, N), v, w) <=>
                        (v = N /\ w \in EndsOf(ends, degree)) \/ (w = N /\ v \in EndsOf(ends, degree))
<1> DEFINE new == NewEdges(ends, degree, N)
           S == EndsOf(ends, degree)
<1>1. new \in Seq(Nat \X Nat) /\ Len(new) = degree
  <2>1. \A k \in 1..degree : ends[k] \in Nat
    OBVIOUS
  <2>2. new \in [1..degree -> Nat \X Nat]
    BY <2>1 DEF NewEdges
  <2> QED
    BY <2>2, FunctionIsSeq
<1>2. ASSUME NEW v, NEW w
      PROVE  Linked(new, v, w) <=> (v = N /\ w \in S) \/ (w = N /\ v \in S)
  <2>1. Linked(new, v, w) <=>
          \E k \in 1..degree : <<ends[k], N>> = <<v, w>> \/ <<ends[k], N>> = <<w, v>>
    BY <1>1 DEF Linked, NewEdges
  <2> QED
    BY <2>1 DEF EndsOf
<1> QED
  BY <1>1, <1>2

\* The links after two sequences of edges are joined.
LEMMA LinksJoined ==
  ASSUME NEW E \in Seq(Nat \X Nat), NEW new \in Seq(Nat \X Nat), NEW v, NEW w
  PROVE  Linked(E \o new, v, w) <=> Linked(E, v, w) \/ Linked(new, v, w)
<1>1. /\ Len(E \o new) = Len(E) + Len(new)
      /\ \A i \in 1..(Len(E) + Len(new)) :
           (E \o new)[i] = IF i <= Len(E) THEN E[i] ELSE new[i - Len(E)]
  BY ConcatProperties
<1>2. Len(E) \in Nat /\ Len(new) \in Nat
  OBVIOUS
<1>3. ASSUME Linked(E \o new, v, w) PROVE Linked(E, v, w) \/ Linked(new, v, w)
  <2>1. PICK i \in 1..(Len(E) + Len(new)) :
          (E \o new)[i] = <<v, w>> \/ (E \o new)[i] = <<w, v>>
    BY <1>1, <1>3 DEF Linked
  <2>2. CASE i <= Len(E)
    <3>1. i \in 1..Len(E) /\ (E \o new)[i] = E[i]
      BY <1>1, <1>2, <2>1, <2>2
    <3> QED
      BY <2>1, <3>1 DEF Linked
  <2>3. CASE ~(i <= Len(E))
    <3>1. i - Len(E) \in 1..Len(new) /\ (E \o new)[i] = new[i - Len(E)]
      BY <1>1, <1>2, <2>1, <2>3
    <3> QED
      BY <2>1, <3>1 DEF Linked
  <2> QED
    BY <2>2, <2>3
<1>4. ASSUME Linked(E, v, w) PROVE Linked(E \o new, v, w)
  <2>1. PICK i \in 1..Len(E) : E[i] = <<v, w>> \/ E[i] = <<w, v>>
    BY <1>4 DEF Linked
  <2>2. i \in 1..(Len(E) + Len(new)) /\ i <= Len(E)
    BY <1>2, <2>1
  <2>3. (E \o new)[i] = E[i] /\ i \in 1..Len(E \o new)
    BY <1>1, <2>2
  <2> QED
    BY <2>1, <2>3 DEF Linked
<1>5. ASSUME Linked(new, v, w) PROVE Linked(E \o new, v, w)
  <2>1. PICK i \in 1..Len(new) : new[i] = <<v, w>> \/ new[i] = <<w, v>>
    BY <1>5 DEF Linked
  <2>2. i + Len(E) \in 1..(Len(E) + Len(new)) /\ ~(i + Len(E) <= Len(E))
        /\ i + Len(E) - Len(E) = i
    BY <1>2, <2>1
  <2>3. (E \o new)[i + Len(E)] = new[i] /\ i + Len(E) \in 1..Len(E \o new)
    BY <1>1, <2>2
  <2> QED
    BY <2>1, <2>3 DEF Linked
<1> QED
  BY <1>3, <1>4, <1>5

\* A new node that is linked to an old one keeps the graph connected.
LEMMA ConnectedWithNew ==
  ASSUME NEW N \in Nat, NEW E \in Seq(Nat \X Nat), NEW old \in Seq(Nat \X Nat),
         Connected(old, N), NEW x \in 0..(N - 1),
         \A v, w : Linked(old, v, w) => Linked(E, v, w),
         Linked(E, x, N), Linked(E, N, x)
  PROVE  Connected(E, N + 1)
<1>1. N + 1 \in Nat /\ N + 1 - 1 = N
  OBVIOUS
<1>2. ASSUME NEW X \in SUBSET (0..N), X # {},
             \A v \in X : \A w \in 0..N : Linked(E, v, w) => w \in X
      PROVE  X = 0..N
  <2> DEFINE Y == X \cap 0..(N - 1)
  <2>1. Y # {}
    <3>1. CASE N \in X
      <4>1. x \in 0..N
        OBVIOUS
      <4> QED
        BY <1>2, <3>1, <4>1
    <3>2. CASE N \notin X
      <4>1. PICK y \in X : TRUE
        BY <1>2
      <4>2. y \in 0..(N - 1)
        BY <3>2, <4>1
      <4> QED
        BY <4>1, <4>2
    <3> QED
      BY <3>1, <3>2
  <2>2. \A v \in Y : \A w \in 0..(N - 1) : Linked(old, v, w) => w \in Y
    <3>1. \A w \in 0..(N - 1) : w \in 0..N
      OBVIOUS
    <3> QED
      BY <1>2, <3>1
  <2>3. Y \in SUBSET (0..(N - 1))
    OBVIOUS
  <2> HIDE DEF Y
  <2>4. Y = 0..(N - 1)
    BY <2>1, <2>2, <2>3, ClosedIsAll
  <2>5. N \in X
    <3>1. x \in X
      BY <2>4 DEF Y
    <3>2. N \in 0..N
      OBVIOUS
    <3> QED
      BY <1>2, <3>1, <3>2
  <2>6. \A v \in 0..N : v \in 0..(N - 1) \/ v = N
    OBVIOUS
  <2>7. \A v \in 0..(N - 1) : v \in X
    BY <2>4 DEF Y
  <2> QED
    BY <2>5, <2>6, <2>7
<1> DEFINE M == N + 1
<1>3. M \in Nat /\ 0..(M - 1) = 0..N
  BY <1>1
<1> HIDE DEF M
<1>4. \A X \in SUBSET (0..(M - 1)) :
        X # {} /\ (\A v \in X : \A w \in 0..(M - 1) : Linked(E, v, w) => w \in X)
          => X = 0..(M - 1)
  BY <1>2, <1>3
<1>5. Connected(E, M)
  BY <1>3, <1>4, ConnectedIf
<1> QED
  BY <1>5 DEF M

-----------------------------------------------------------------------------
(* The graphs of the producer and of the complete segments *)

\* What is known of the numbers that the producer has.
LEMMA ProducerNumbers ==
  ASSUME ProducerInv, GrownInv
  PROVE  /\ pN \in Nat /\ pEdges \in Seq(Pairs(pN)) /\ pEdges \in Seq(Nat \X Nat)
         /\ InitialNodes \in Nat /\ InitialNodes <= pN
         /\ Newest \in 1..Newest /\ Newest \in Nat
         /\ capacity \in 0..ProducerCapacity /\ fresh \in 0..MaxNewNodes
         /\ ProducerCapacity \in Nat /\ MaxNewNodes \in Nat
<1>1. pN \in Nat /\ pEdges \in Seq(Pairs(pN)) /\ InitialNodes \in Nat
  BY GraphAssumption DEF ProducerInv, ProducerTypes
<1>2. pEdges \in Seq(Nat \X Nat)
  <2>1. Pairs(pN) \subseteq Nat \X Nat
    BY <1>1 DEF Pairs
  <2> QED
    BY <1>1, <2>1, SeqMonotonic
<1>3. Newest \in 1..Newest /\ Newest \in Nat
  BY DEF ProducerInv, Published, ProducerTypes, Newest
<1>4. InitialNodes <= pN
  <2>1. InitialNodes <= NodesWord(Newest) /\ NodesWord(Newest) <= pN
    BY <1>3 DEF GrownInv, ProducerInv, Published
  <2>2. NodesWord(Newest) \in Nat
    BY <1>3, ProductWords DEF NodesWord
  <2> QED
    BY <1>1, <2>1, <2>2
<1>5. /\ capacity \in 0..ProducerCapacity /\ fresh \in 0..MaxNewNodes
      /\ ProducerCapacity \in Nat /\ MaxNewNodes \in Nat
  BY GraphAssumption DEF ProducerInv, ProducerTypes
<1> QED
  BY <1>1, <1>2, <1>3, <1>4, <1>5

\* A complete segment has no more nodes than the producer, and no fewer than at first.
LEMMA NodesOfSegment ==
  ASSUME ProducerInv, GrownInv, NEW s \in 1..Newest
  PROVE  NodesWord(s) \in Nat /\ InitialNodes <= NodesWord(s) /\ NodesWord(s) <= pN
<1>1. NodesWord(s) \in Nat /\ NodesWord(Newest) \in Nat
  BY ProductWords, ProducerNumbers DEF NodesWord
<1>2. NodesWord(Newest) <= pN /\ pN \in Nat
  BY ProducerNumbers DEF ProducerInv, Published
<1>3. s = Newest \/ s < Newest
  BY ProducerNumbers
<1>4. NodesWord(s) <= NodesWord(Newest)
  <2>1. CASE s = Newest
    BY <1>1, <2>1
  <2>2. CASE s < Newest
    <3>1. segment[s][2] < segment[Newest][2]
      BY <2>2, ProducerNumbers DEF ProducerInv, Published, Outgrows
    <3> QED
      BY <1>1, <3>1 DEF NodesWord
  <2> QED
    BY <1>3, <2>1, <2>2
<1> QED
  BY <1>1, <1>2, <1>4 DEF GrownInv

\* No graph has so many nodes that a distance could be infinite.
LEMMA FewNodes ==
  ASSUME ProducerInv, GrownInv
  PROVE  pN + 2 < Infinity
<1> DEFINE P == ProducerCapacity
           M == MaxNewNodes
           k == P - capacity
<1>1. P \in Nat /\ M \in Nat /\ capacity \in 0..P /\ fresh \in 0..M /\ k \in Nat
      /\ pN \in Nat /\ InitialNodes \in Nat
  BY ProducerNumbers
<1>2. pN <= InitialNodes + k * M + fresh /\ (capacity = 0 => fresh = 0)
  BY DEF GrownInv
<1>3. InitialNodes + P * M + 2 < Infinity /\ Infinity \in Nat
  BY InputAssumption DEF Infinity
<1> HIDE DEF P, M
<1>4. k * M + fresh <= P * M
  <2>1. CASE capacity = 0
    <3>1. k = P /\ fresh = 0 /\ P * M \in Nat
      BY <1>1, <1>2, <2>1
    <3> HIDE DEF k
    <3> QED
      BY <3>1
  <2>2. CASE capacity # 0
    <3>1. k + 1 <= P
      BY <1>1, <2>2
    <3> HIDE DEF k
    <3>2. (k + 1) * M <= P * M
      BY <1>1, <3>1, TimesMonotone
    <3>3. (k + 1) * M = k * M + M
      BY <1>1
    <3>4. k * M \in Nat /\ P * M \in Nat
      BY <1>1
    <3> QED
      BY <1>1, <3>2, <3>3, <3>4
  <2> QED
    BY <2>1, <2>2
<1> HIDE DEF k
<1>5. k * M \in Nat /\ P * M \in Nat
  BY <1>1
<1> QED
  BY <1>1, <1>2, <1>3, <1>4, <1>5

\* The graph with a new node, which is linked to older ones.
LEMMA ProduceNodeGrows == ASSUME ProducerInv, GrownInv, ProduceNode PROVE GrownInv'
<1> DEFINE old == {v \in 0..(pN - 1) : Degree(v) > 0}
<1>0. PICK degree \in 1..MaxDegree :
        \E ends \in [1..degree -> old] :
          pEdges' = pEdges \o [k \in 1..degree |-> <<ends[k], pN>>]
  BY DEF ProduceNode
<1>1. PICK ends \in [1..degree -> old] :
        pEdges' = pEdges \o [k \in 1..degree |-> <<ends[k], pN>>]
  BY <1>0
<1> DEFINE S == EndsOf(ends, degree)
           new == NewEdges(ends, degree, pN)
<1>2. /\ pN' = pN + 1 /\ fresh' = fresh + 1 /\ pPc \in {"sleep", "produce"}
      /\ pPc' = "produce" /\ UNCHANGED <<segment, capacity>>
  BY DEF ProduceNode, shm
<1>3. pN \in Nat /\ pEdges \in Seq(Nat \X Nat) /\ InitialNodes \in Nat /\ InitialNodes <= pN
  BY ProducerNumbers
<1>4. S \in SUBSET (0..(pN - 1)) /\ pEdges' = pEdges \o new
  BY <1>1 DEF NewEdges, EndsOf
<1>5. PICK x \in S : TRUE
  <2>1. ends[1] \in S
    BY GraphAssumption DEF EndsOf
  <2> QED
    BY <2>1
<1>6. /\ new \in Seq(Nat \X Nat)
      /\ \A v, w : Linked(new, v, w) <=> (v = pN /\ w \in S) \/ (w = pN /\ v \in S)
  <2>1. degree \in Nat /\ ends \in [1..degree -> 0..(pN - 1)]
    BY GraphAssumption
  <2> HIDE DEF old
  <2> QED
    BY <1>3, <2>1, NewEdgesAre
<1> HIDE DEF new, S
<1>7. pEdges' \in Seq(Nat \X Nat) /\ Extends(pEdges', pEdges)
  <2>1. new \in Seq(Nat \X Nat) /\ pEdges' = pEdges \o new
    BY <1>4, <1>6
  <2>2. /\ pEdges \o new \in Seq(Nat \X Nat) /\ Len(pEdges \o new) = Len(pEdges) + Len(new)
        /\ \A i \in 1..(Len(pEdges) + Len(new)) :
             (pEdges \o new)[i] = IF i <= Len(pEdges) THEN pEdges[i] ELSE new[i - Len(pEdges)]
    BY <1>3, <2>1, ConcatProperties
  <2>3. Len(pEdges) \in Nat /\ Len(new) \in Nat
    BY <1>3, <2>1
  <2> QED
    BY <2>1, <2>2, <2>3 DEF Extends
<1>8. \A v, w : Linked(pEdges', v, w) <=>
                  Linked(pEdges, v, w) \/ (v = pN /\ w \in S) \/ (w = pN /\ v \in S)
  BY <1>3, <1>4, <1>6, LinksJoined
<1>9. Grown(pEdges', pN')
  <2> SUFFICES ASSUME NEW M \in InitialNodes..(pN + 1) PROVE Connected(pEdges', M)
    BY <1>2 DEF Grown
  <2>1. CASE M \in InitialNodes..pN
    <3>1. Connected(pEdges, M) /\ M \in Nat
      BY <1>3, <2>1 DEF GrownInv, Grown
    <3> QED
      BY <1>3, <1>7, <3>1, ConnectedKept
  <2>2. CASE M = pN + 1
    <3>1. Connected(pEdges, pN)
      BY <1>3 DEF GrownInv, Grown
    <3>2. Linked(pEdges', x, pN) /\ Linked(pEdges', pN, x) /\ x \in 0..(pN - 1)
      BY <1>4, <1>5, <1>8
    <3>3. \A v, w : Linked(pEdges, v, w) => Linked(pEdges', v, w)
      BY <1>8
    <3>4. Connected(pEdges', pN + 1)
      BY <1>3, <1>7, <3>1, <3>2, <3>3, ConnectedWithNew
    <3> QED
      BY <2>2, <3>4
  <2> QED
    BY <1>3, <2>1, <2>2
<1>10. Newest' = Newest
  BY <1>2 DEF Newest
<1>11. ASSUME NEW s \in 1..Newest
       PROVE  NoNewLinks(pEdges', EdgesIn(segment[s]), NodesWord(s))
  <2>1. NoNewLinks(pEdges, EdgesIn(segment[s]), NodesWord(s))
    BY DEF GrownInv
  <2>2. NodesWord(s) \in Nat /\ NodesWord(s) <= pN
    BY NodesOfSegment
  <2>3. \A v \in 0..(NodesWord(s) - 1) : v # pN
    BY <1>3, <2>2
  <2> QED
    BY <1>8, <2>1, <2>3 DEF NoNewLinks
<1>12. /\ pN' <= InitialNodes + (ProducerCapacity - capacity') * MaxNewNodes + fresh'
       /\ capacity' = 0 => fresh' = 0
  <2>1. capacity' = capacity /\ capacity # 0
    BY <1>2 DEF ProducerInv, ProducerTypes
  <2> DEFINE b == (ProducerCapacity - capacity) * MaxNewNodes
  <2>2. b \in Int /\ fresh \in Int
    BY ProducerNumbers
  <2>3. pN <= InitialNodes + b + fresh
    BY DEF GrownInv
  <2> HIDE DEF b
  <2>4. pN + 1 <= InitialNodes + b + (fresh + 1)
    BY <1>3, <2>2, <2>3
  <2> QED
    BY <1>2, <2>1, <2>4 DEF b
<1> QED
  BY <1>2, <1>9, <1>10, <1>11, <1>12 DEF GrownInv, NodesWord

\* The steps after which the same segments are complete and the graph is the same.
LEMMA SameGraphKeeps ==
  ASSUME ProducerInv, GrownInv, Stable, Newest' = Newest,
         pN' = pN, pEdges' = pEdges, capacity' = capacity, fresh' = fresh
  PROVE  GrownInv'
<1>1. \A s \in 1..Newest : segment'[s] = segment[s]
  BY DEF Stable
<1>2. \A s \in 1..Newest : NodesWord(s)' = NodesWord(s)
  BY <1>1 DEF NodesWord
<1>3. /\ pN' <= InitialNodes + (ProducerCapacity - capacity') * MaxNewNodes + fresh'
      /\ capacity' = 0 => fresh' = 0
      /\ Grown(pEdges', pN')
  BY DEF GrownInv
<1>4. \A s \in 1..Newest :
        /\ InitialNodes <= NodesWord(s)'
        /\ Grown(EdgesIn(segment[s])', NodesWord(s)')
        /\ NoNewLinks(pEdges', EdgesIn(segment[s])', NodesWord(s)')
  BY <1>1, <1>2 DEF GrownInv
<1>5. \A s, t \in 1..Newest : s < t =>
        NoNewLinks(EdgesIn(segment[t])', EdgesIn(segment[s])', NodesWord(s)')
  BY <1>1, <1>2 DEF GrownInv
<1> QED
  BY <1>3, <1>4, <1>5 DEF GrownInv

\* With its last word a segment has the graph of the producer.
LEMMA FillGrows == ASSUME ProducerInv, GrownInv, Fill PROVE GrownInv'
<1>1. Stable /\ Completes /\ pN' = pN /\ pEdges' = pEdges
  BY FillKeeps DEF Fill
<1>2. CASE Newest' = Newest
  BY <1>1, <1>2, SameGraphKeeps DEF Completes
<1>3. CASE Newest' # Newest
  <2> DEFINE L == Newest + 1
  <2>1. /\ Newest' = L /\ segment'[L][2] = pN /\ EdgesIn(segment'[L]) = pEdges
        /\ capacity' = capacity - 1 /\ fresh' = 0
    BY <1>1, <1>3 DEF Completes
  <2>2. /\ \A s \in 1..Newest : segment'[s] = segment[s]
        /\ pN \in Nat /\ InitialNodes \in Nat /\ InitialNodes <= pN /\ Newest \in Nat
        /\ \A s \in 1..L : s \in 1..Newest \/ s = L
    BY <1>1, ProducerNumbers DEF Stable
  <2>3. capacity \in 1..ProducerCapacity
    BY ProducerNumbers DEF Fill, ProducerInv, ProducerTypes
  <2>4. /\ pN' <= InitialNodes + (ProducerCapacity - capacity') * MaxNewNodes + fresh'
        /\ capacity' = 0 => fresh' = 0
    <3> DEFINE k == ProducerCapacity - capacity
    <3>1. k \in Nat /\ MaxNewNodes \in Nat /\ fresh \in 0..MaxNewNodes /\ capacity \in Int
          /\ ProducerCapacity \in Nat
      BY <2>3, ProducerNumbers
    <3>2. pN <= InitialNodes + k * MaxNewNodes + fresh
      BY DEF GrownInv
    <3>3. ProducerCapacity - capacity' = k + 1
      BY <2>1, <3>1
    <3> HIDE DEF k
    <3>4. (k + 1) * MaxNewNodes = k * MaxNewNodes + MaxNewNodes /\ k * MaxNewNodes \in Nat
      BY <3>1
    <3>5. pN <= InitialNodes + (k + 1) * MaxNewNodes + 0
      BY <2>2, <3>1, <3>2, <3>4
    <3> QED
      BY <1>1, <2>1, <3>3, <3>5
  <2>5. Grown(pEdges, pN) /\ NoNewLinks(pEdges, pEdges, pN)
    BY DEF GrownInv, NoNewLinks
  <2> HIDE DEF L, Newest
  <2>6. /\ \A s \in 1..Newest : segment'[s] = segment[s]
        /\ segment'[L][2] = pN /\ EdgesIn(segment'[L]) = pEdges
    BY <2>1, <2>2
  <2>7. \A s \in 1..L : /\ InitialNodes <= segment'[s][2]
                        /\ Grown(EdgesIn(segment'[s]), segment'[s][2])
                        /\ NoNewLinks(pEdges, EdgesIn(segment'[s]), segment'[s][2])
    <3> SUFFICES ASSUME NEW s \in 1..L
                 PROVE  /\ InitialNodes <= segment'[s][2]
                        /\ Grown(EdgesIn(segment'[s]), segment'[s][2])
                        /\ NoNewLinks(pEdges, EdgesIn(segment'[s]), segment'[s][2])
      OBVIOUS
    <3>1. CASE s \in 1..Newest
      BY <2>6, <3>1 DEF GrownInv, NodesWord
    <3>2. CASE s = L
      BY <2>2, <2>5, <2>6, <3>2
    <3> QED
      BY <2>2, <3>1, <3>2
  <2>8. ASSUME NEW s \in 1..L, NEW t \in 1..L, s < t
        PROVE  NoNewLinks(EdgesIn(segment'[t]), EdgesIn(segment'[s]), segment'[s][2])
    <3>1. s \in 1..Newest
      BY <2>2, <2>8 DEF L
    <3>2. CASE t \in 1..Newest
      BY <2>6, <2>8, <3>1, <3>2 DEF GrownInv, NodesWord
    <3>3. CASE t = L
      BY <2>6, <3>1, <3>3 DEF GrownInv, NodesWord
    <3> QED
      BY <2>2, <3>2, <3>3
  <2>9. /\ pN' <= InitialNodes + (ProducerCapacity - capacity') * MaxNewNodes + fresh'
        /\ capacity' = 0 => fresh' = 0
        /\ Grown(pEdges', pN')
    BY <1>1, <2>4, <2>5
  <2> QED
    BY <1>1, <2>1, <2>7, <2>8, <2>9 DEF GrownInv, NodesWord
<1> QED
  BY <1>2, <1>3

\* The producer keeps what is known of its graphs.
LEMMA ProducerGrows == ASSUME ProducerInv, GrownInv, Producer PROVE GrownInv'
<1>1. CASE ProduceNode
  BY <1>1, ProduceNodeGrows
<1>2. CASE Fill
  BY <1>2, FillGrows
<1>3. CASE RemoveOld \/ ProducerExit \/ CreateNew
  <2>1. UNCHANGED <<pN, pEdges, capacity, fresh>> /\ Stable
    BY <1>3, OthersStable DEF RemoveOld, ProducerExit, CreateNew
  <2>2. Newest' = Newest
    <3>1. CASE RemoveOld \/ ProducerExit
      BY <3>1 DEF RemoveOld, ProducerExit, Newest
    <3>2. CASE CreateNew
      <4>1. Len(segment') = Len(segment) + 1 /\ Len(segment) \in Nat
        BY <3>2 DEF CreateNew, ProducerInv, ProducerTypes
      <4> QED
        BY <3>2, <4>1 DEF CreateNew, Newest
    <3> QED
      BY <1>3, <3>1, <3>2
  <2> QED
    BY <2>1, <2>2, SameGraphKeeps
<1> QED
  BY <1>1, <1>2, <1>3 DEF Producer

\* The graph of the input file is connected.
LEMMA InitGrown == Init => GrownInv
<1> SUFFICES ASSUME Init PROVE GrownInv
  OBVIOUS
<1>1. /\ segment = <<Image(InitialNodes, InitialEdges)>> /\ pPc = "sleep"
      /\ capacity = ProducerCapacity /\ pN = InitialNodes /\ pEdges = InitialEdges
      /\ fresh = 0
  BY DEF Init
<1>2. InitialNodes \in Nat /\ InitialEdges \in Seq(Pairs(InitialNodes))
  BY GraphAssumption DEF Pairs
<1>3. InitialEdges \in Seq(Nat \X Nat)
  <2>1. Pairs(InitialNodes) \subseteq Nat \X Nat
    BY <1>2 DEF Pairs
  <2> QED
    BY <1>2, <2>1, SeqMonotonic
<1>4. segment[1][2] = InitialNodes /\ EdgesIn(segment[1]) = InitialEdges
  <2>1. segment[1] = Image(InitialNodes, InitialEdges)
    BY <1>1
  <2> QED
    BY <1>2, <1>3, <2>1, ImageTells
<1>5. Newest = 1
  BY <1>1 DEF Newest
<1>6. Grown(InitialEdges, InitialNodes)
  BY <1>2, InputAssumption DEF Grown
<1>7. NoNewLinks(InitialEdges, InitialEdges, InitialNodes)
  BY DEF NoNewLinks
<1>8. /\ pN <= InitialNodes + (ProducerCapacity - capacity) * MaxNewNodes + fresh
      /\ capacity = 0 => fresh = 0
  <2>1. ProducerCapacity - capacity = 0 /\ MaxNewNodes \in Nat /\ ProducerCapacity \in Nat
    BY <1>1, GraphAssumption
  <2>2. 0 * MaxNewNodes = 0
    BY <2>1
  <2> QED
    BY <1>1, <1>2, <2>1, <2>2
<1>9. \A s \in 1..Newest : s = 1
  BY <1>5
<1> QED
  BY <1>1, <1>2, <1>4, <1>6, <1>7, <1>8, <1>9 DEF GrownInv, NodesWord

-----------------------------------------------------------------------------
(* The sources *)

\* A finite set of numbers in order: each is there once.
LEMMA OrderedSet ==
  ASSUME NEW S \in SUBSET Nat, IsFiniteSet(S)
  PROVE  /\ InOrder(S) \in Seq(S) /\ ToSet(InOrder(S)) = S
         /\ \A j, k \in 1..Len(InOrder(S)) : InOrder(S)[j] = InOrder(S)[k] => j = k
<1> DEFINE q == InOrder(S)
           C == Cardinality(S)
<1>1. /\ \A k \in 1..C : q[k] \in S
      /\ \A i \in S : \E k \in 1..C : q[k] = i
      /\ \A j, k \in 1..C : q[j] = q[k] => j = k
  BY Ranked
<1>2. C \in Nat
  BY FS_CardinalityType
<1>3. q = [k \in 1..C |-> q[k]]
  <2> DEFINE F(k) == CHOOSE i \in S : Cardinality({j \in S : j <= i}) = k
  <2>1. q = [k \in 1..C |-> F(k)]
    BY DEF InOrder
  <2> HIDE DEF F, q
  <2> QED
    BY <2>1
<1> HIDE DEF q, C
<1>4. q \in [1..C -> S]
  BY <1>1, <1>3
<1>5. q \in Seq(S) /\ Len(q) = C
  BY <1>2, <1>4, FunctionIsSeq
<1>6. ToSet(q) = S
  <2>1. \A x : x \in ToSet(q) <=> \E k \in 1..C : q[k] = x
    BY <1>4 DEF ToSet
  <2>2. \A x \in ToSet(q) : x \in S
    BY <1>1, <2>1
  <2>3. \A x \in S : x \in ToSet(q)
    BY <1>1, <2>1
  <2> QED
    BY <2>2, <2>3
<1> QED
  BY <1>1, <1>5, <1>6 DEF q

\* The values of two sequences that are joined.
LEMMA ToSetJoined ==
  ASSUME NEW S, NEW a \in Seq(S), NEW b \in Seq(S)
  PROVE  a \o b \in Seq(S) /\ ToSet(a \o b) = ToSet(a) \cup ToSet(b)
<1>1. /\ a \o b \in Seq(S) /\ Len(a \o b) = Len(a) + Len(b)
      /\ \A i \in 1..(Len(a) + Len(b)) :
           (a \o b)[i] = IF i <= Len(a) THEN a[i] ELSE b[i - Len(a)]
  BY ConcatProperties
<1>2. Len(a) \in Nat /\ Len(b) \in Nat
  OBVIOUS
<1>3. \A x : x \in ToSet(a) <=> \E i \in 1..Len(a) : a[i] = x
  BY DEF ToSet
<1>4. \A x : x \in ToSet(b) <=> \E i \in 1..Len(b) : b[i] = x
  BY DEF ToSet
<1>5. \A x : x \in ToSet(a \o b) <=> \E i \in 1..(Len(a) + Len(b)) : (a \o b)[i] = x
  BY <1>1 DEF ToSet
<1>6. ASSUME NEW x \in ToSet(a \o b) PROVE x \in ToSet(a) \cup ToSet(b)
  <2>1. PICK i \in 1..(Len(a) + Len(b)) : (a \o b)[i] = x
    BY <1>5
  <2>2. CASE i <= Len(a)
    <3>1. i \in 1..Len(a) /\ a[i] = x
      BY <1>1, <1>2, <2>1, <2>2
    <3> QED
      BY <1>3, <3>1
  <2>3. CASE ~(i <= Len(a))
    <3>1. i - Len(a) \in 1..Len(b) /\ b[i - Len(a)] = x
      BY <1>1, <1>2, <2>1, <2>3
    <3> QED
      BY <1>4, <3>1
  <2> QED
    BY <2>2, <2>3
<1>7. ASSUME NEW x \in ToSet(a) PROVE x \in ToSet(a \o b)
  <2>1. PICK i \in 1..Len(a) : a[i] = x
    BY <1>3
  <2>2. i \in 1..(Len(a) + Len(b)) /\ i <= Len(a)
    BY <1>2
  <2>3. (a \o b)[i] = x
    BY <1>1, <2>1, <2>2
  <2> QED
    BY <1>5, <2>2, <2>3
<1>8. ASSUME NEW x \in ToSet(b) PROVE x \in ToSet(a \o b)
  <2>1. PICK i \in 1..Len(b) : b[i] = x
    BY <1>4
  <2>2. i + Len(a) \in 1..(Len(a) + Len(b)) /\ ~(i + Len(a) <= Len(a))
        /\ i + Len(a) - Len(a) = i
    BY <1>2
  <2>3. (a \o b)[i + Len(a)] = x
    BY <1>1, <2>1, <2>2
  <2> QED
    BY <1>5, <2>2, <2>3
<1> QED
  BY <1>1, <1>6, <1>7, <1>8

\* Every consumer gets at least one node of a graph that has any.
LEMMA ShareNonempty ==
  ASSUME NEW nodes \in Nat \ {0}, NConsumers * (NConsumers - 1) <= nodes,
         NEW c \in 0..(NConsumers - 1)
  PROVE  Share(c, nodes) # {}
<1> DEFINE K == NConsumers
           q == Ceil(nodes, K)
<1>1. K \in Nat \ {0}
  BY GraphAssumption
<1>2. /\ q \in Nat
      /\ (K - 1) * q <= nodes /\ nodes <= K * q
      /\ \A d \in 0..(K - 1) :
           Share(d, nodes) = (d * q)..(IF d < K - 1 THEN (d + 1) * q - 1 ELSE nodes - 1)
  BY SharesMeet
<1>3. K * q <= nodes + K - 1
  BY <1>1, CeilBounds
<1>4. K * (K - 1) <= nodes
  OBVIOUS
<1> HIDE DEF K, q
<1>5. q > 0
  <2>1. CASE q = 0
    BY <2>1, <1>1, <1>2
  <2> QED BY <2>1, <1>2
<1>6. CASE c < K - 1
  <2>1. Share(c, nodes) = (c * q)..((c + 1) * q - 1)
    BY <1>2, <1>6 DEF K
  <2>2. c * q \in Nat /\ (c + 1) * q = c * q + q /\ c \in Nat
    BY <1>2
  <2> HIDE DEF Share
  <2>3. c * q <= c * q + q - 1
    BY <1>2, <1>5, <2>2
  <2>4. c * q \in (c * q)..((c + 1) * q - 1)
    BY <1>2, <2>2, <2>3
  <2> QED
    BY <2>1, <2>4
<1>7. CASE ~(c < K - 1)
  <2>1. c = K - 1
    BY <1>1, <1>7 DEF K
  <2>2. Share(c, nodes) = ((K - 1) * q)..(nodes - 1)
    BY <1>2, <1>7, <2>1 DEF K
  <2> DEFINE x == (K - 1) * q
  <2>3. x \in Nat /\ K * q = x + q
    BY <1>1, <1>2
  <2>4. x < nodes
    <3>1. CASE q >= K
      <4> HIDE DEF x
      <4>1. K * q <= nodes + K - 1 /\ K * q = x + q
        BY <1>3, <2>3
      <4> QED
        BY ONLY <4>1, <3>1, <2>3, <1>1, <1>2, nodes \in Nat \ {0}
    <3>2. CASE q < K
      <4>1. q <= K - 1
        BY <1>1, <1>2, <3>2
      <4>2. q * (K - 1) <= (K - 1) * (K - 1)
        <5>1. K - 1 \in Nat /\ q \in Int /\ K - 1 \in Int
          BY <1>1, <1>2
        <5> QED
          BY <4>1, <5>1, TimesMonotone
      <4>3. q * (K - 1) = x /\ (K - 1) * (K - 1) = K * (K - 1) - (K - 1)
        BY <1>1, <1>2
      <4>4. K * (K - 1) \in Nat
        BY <1>1
      <4>5. CASE K = 1
        <5>1. q = 0
          BY <1>2, <3>2, <4>5
        <5> QED
          BY <1>5, <5>1
      <4>6. CASE K > 1
        <5> HIDE DEF x
        <5> DEFINE y == K * (K - 1)
        <5>1. x <= y - (K - 1) /\ y <= nodes /\ y \in Nat
          BY <1>4, <4>2, <4>3, <4>4
        <5> HIDE DEF y
        <5> QED
          BY <1>1, <2>3, <4>6, <5>1
      <4> QED
        BY <1>1, <4>5, <4>6
    <3> QED
      BY <1>1, <1>2, <3>1, <3>2
  <2>5. x \in x..(nodes - 1)
    <3> HIDE DEF x
    <3> QED
      BY <2>3, <2>4
  <2> QED
    BY <2>2, <2>5
<1> QED
  BY <1>6, <1>7

-----------------------------------------------------------------------------
(* What consume computes *)

\* The first sources are the nodes of the share.
LEMMA FirstSources ==
  ASSUME NEW c \in 0..(NConsumers - 1), NEW N \in Nat \ {0},
         NConsumers * (NConsumers - 1) <= N,
         n[c] = N, prevN[c] = 0, sources[c] = <<>>
  PROVE  /\ Sources(c) \in Seq(0..(N - 1))
         /\ ToSet(Sources(c)) \in SUBSET (0..(N - 1)) /\ ToSet(Sources(c)) # {}
         /\ \A j, k \in 1..Len(Sources(c)) : Sources(c)[j] = Sources(c)[k] => j = k
<1> DEFINE S == Share(c, N)
<1>1. S # {}
  BY ShareNonempty
<1>2. S \in SUBSET (0..(N - 1))
  <2>1. 0 \in 0..(N - 1)
    OBVIOUS
  <2> QED
    BY <2>1, SharesAreAPartition
<1> HIDE DEF S
<1>3. IsFiniteSet(S) /\ S \in SUBSET Nat
  <2>1. 0 \in Int /\ N - 1 \in Int
    OBVIOUS
  <2>2. IsFiniteSet(0..(N - 1)) /\ 0..(N - 1) \subseteq Nat
    BY <2>1, FS_Interval
  <2> QED
    BY <1>2, <2>2, FS_Subset
<1>4. /\ InOrder(S) \in Seq(S) /\ ToSet(InOrder(S)) = S
      /\ \A j, k \in 1..Len(InOrder(S)) : InOrder(S)[j] = InOrder(S)[k] => j = k
  BY <1>3, OrderedSet
<1>5. Sources(c) = <<>> \o InOrder(S)
  BY DEF Sources, S
<1>6. Sources(c) = InOrder(S)
  BY <1>4, <1>5, ConcatEmptySeq
<1>7. InOrder(S) \in Seq(0..(N - 1))
  <2> DEFINE D == 0..(N - 1)
  <2>1. S \subseteq D
    BY <1>2
  <2> HIDE DEF D
  <2>2. InOrder(S) \in Seq(D)
    BY <1>4, <2>1, SeqMonotonic
  <2> QED
    BY <2>2 DEF D
<1> QED
  BY <1>1, <1>2, <1>4, <1>6, <1>7

\* Then the new nodes come to the old ones.
LEMMA NextSources ==
  ASSUME NEW c, NEW N \in Nat, NEW P \in 1..(N - 1), n[c] = N, prevN[c] = P,
         sources[c] \in Seq(0..(P - 1)), sources[c] # <<>>
  PROVE  /\ Sources(c) \in Seq(0..(N - 1)) /\ Sources(c) \in Seq(Nat)
         /\ ToSet(Sources(c)) \in SUBSET (0..(N - 1))
         /\ ToSet(Sources(c)) # {}
         /\ \E v \in ToSet(Sources(c)) : v < P
         /\ \A i \in P..(N - 1) : i \in ToSet(Sources(c)) <=> i % NConsumers = c
         /\ \A v \in 0..(P - 1) : v \in ToSet(Sources(c)) <=> v \in ToSet(sources[c])
<1> DEFINE T == Fraction(c, P, N)
<1>1. P \in Nat /\ N - 1 \in Int /\ P \in Int
  OBVIOUS
<1>2. T \in SUBSET (P..(N - 1)) /\ \A i \in P..(N - 1) : i \in T <=> i % NConsumers = c
  BY DEF Fraction
<1>3. Sources(c) = sources[c] \o InOrder(T)
  <2>1. prevN[c] # 0
    BY <1>1
  <2> QED
    BY <2>1 DEF Sources
<1> HIDE DEF T
<1>4. IsFiniteSet(T) /\ T \in SUBSET Nat
  <2>1. IsFiniteSet(P..(N - 1))
    BY <1>1, FS_Interval
  <2>2. T \in SUBSET Nat
    BY <1>1, <1>2
  <2> QED
    BY <1>2, <2>1, <2>2, FS_Subset
<1>5. InOrder(T) \in Seq(T) /\ ToSet(InOrder(T)) = T
  BY <1>4, OrderedSet
<1>6. T \subseteq 0..(N - 1) /\ 0..(P - 1) \subseteq 0..(N - 1)
  BY <1>1, <1>2
<1>7. InOrder(T) \in Seq(0..(N - 1)) /\ sources[c] \in Seq(0..(N - 1))
  <2> DEFINE D == 0..(N - 1)
             C == 0..(P - 1)
  <2>1. T \subseteq D /\ C \subseteq D /\ sources[c] \in Seq(C)
    BY <1>6
  <2> HIDE DEF C, D
  <2>2. InOrder(T) \in Seq(D) /\ sources[c] \in Seq(D)
    BY <1>5, <2>1, SeqMonotonic
  <2> QED
    BY <2>2 DEF D
<1>8. Sources(c) \in Seq(0..(N - 1)) /\ ToSet(Sources(c)) = ToSet(sources[c]) \cup T
  BY <1>3, <1>5, <1>7, ToSetJoined
<1>9. /\ \A v \in ToSet(sources[c]) : v \in 0..(P - 1)
      /\ \E v \in ToSet(sources[c]) : TRUE
  <2>1. \A v \in ToSet(sources[c]) : v \in 0..(P - 1)
    BY DEF ToSet
  <2>2. sources[c][1] \in ToSet(sources[c])
    <3>1. 1 \in 1..Len(sources[c])
      BY EmptySeq
    <3> QED
      BY <3>1 DEF ToSet
  <2> QED
    BY <2>1, <2>2
<1>10. Sources(c) \in Seq(Nat)
  <2>1. 0..(N - 1) \subseteq Nat
    OBVIOUS
  <2> QED
    BY <1>8, <2>1, SeqMonotonic
<1>11. \E v \in ToSet(Sources(c)) : v < P
  BY <1>1, <1>8, <1>9
<1>12. \A i \in P..(N - 1) : i \in ToSet(Sources(c)) <=> i % NConsumers = c
  <2>1. \A i \in P..(N - 1) : i \notin 0..(P - 1)
    BY <1>1
  <2> QED
    BY <1>2, <1>8, <1>9, <2>1
<1>13. \A v \in 0..(P - 1) : v \in ToSet(Sources(c)) <=> v \in ToSet(sources[c])
  <2>1. \A v \in 0..(P - 1) : v \notin P..(N - 1)
    BY <1>1
  <2> QED
    BY <1>2, <1>8, <2>1
<1> QED
  BY <1>6, <1>8, <1>9, <1>10, <1>11, <1>12, <1>13

-----------------------------------------------------------------------------

\* dist and par as the algorithms find them, and what they make of them.
Zeroed(c) == IF prevN[c] = 0 \/ flag = 0 THEN ToSet(Sources(c)) ELSE {}
Begun(c) ==
  [dist |-> AtSources(Resized(dist[c], n[c], Infinity), Zeroed(c), LAMBDA v : 0),
   par |-> AtSources(Resized(par[c], n[c], NoParent), Zeroed(c), LAMBDA v : v)]
Result(c) ==
  CASE flag = 0 -> FromScratch(c, Begun(c))
    [] flag = 1 /\ prevN[c] = 0 -> FirstSearch(c, g[c], Sources(c), Begun(c))
    [] OTHER -> JoinAll(c, g[c], Sources(c), Begun(c))

\* From scratch, or the first time: 0 at the sources, which are their own parents.
LEMMA BegunAfresh ==
  ASSUME NEW c, NEW N \in Nat, n[c] = N, ToSet(Sources(c)) \in SUBSET (0..(N - 1)),
         flag = 0 \/ (prevN[c] = 0 /\ dist[c] = <<>> /\ par[c] = <<>>)
  PROVE  /\ Begun(c).dist \in [0..(N - 1) -> Nat] /\ Begun(c).par \in [0..(N - 1) -> Int]
         /\ \A v \in 0..(N - 1) :
              /\ Begun(c).dist[v] = IF v \in ToSet(Sources(c)) THEN 0 ELSE Infinity
              /\ v \in ToSet(Sources(c)) => Begun(c).par[v] = v
<1> DEFINE S == ToSet(Sources(c))
<1>1. Zeroed(c) = S
  BY DEF Zeroed
<1>2. Infinity \in Nat /\ NoParent \in Int
  BY DEF Infinity, NoParent
<1>3. /\ Resized(dist[c], N, Infinity) = [v \in 0..(N - 1) |-> Infinity]
      /\ Resized(par[c], N, NoParent) = [v \in 0..(N - 1) |-> NoParent]
  <2>1. CASE flag = 0
    BY <2>1 DEF Resized
  <2>2. CASE dist[c] = <<>> /\ par[c] = <<>>
    <3>1. DOMAIN dist[c] = {} /\ DOMAIN par[c] = {}
      BY <2>2
    <3> QED
      BY <3>1 DEF Resized
  <2> QED
    BY <2>1, <2>2
<1>4. Begun(c).dist = [v \in 0..(N - 1) |-> IF v \in S THEN 0 ELSE Infinity]
  BY <1>1, <1>3 DEF Begun, AtSources
<1>5. Begun(c).par = [v \in 0..(N - 1) |-> IF v \in S THEN v ELSE NoParent]
  BY <1>1, <1>3 DEF Begun, AtSources
<1> HIDE DEF S, Begun
<1>6. Begun(c).dist \in [0..(N - 1) -> Nat] /\ Begun(c).par \in [0..(N - 1) -> Int]
  BY <1>2, <1>4, <1>5
<1> QED
  BY <1>4, <1>5, <1>6 DEF S

\* Otherwise as they were, for the nodes before.
LEMMA BegunAgain ==
  ASSUME NEW c, NEW N \in Nat, NEW P \in 1..(N - 1), n[c] = N, prevN[c] = P, flag = 1,
         dist[c] \in [0..(P - 1) -> Nat], par[c] \in [0..(P - 1) -> Int]
  PROVE  /\ Begun(c).dist \in [0..(N - 1) -> Nat] /\ Begun(c).par \in [0..(N - 1) -> Int]
         /\ \A v \in 0..(P - 1) : /\ Begun(c).dist[v] = dist[c][v]
                                  /\ Begun(c).par[v] = par[c][v]
<1>1. Zeroed(c) = {}
  <2>1. prevN[c] # 0
    OBVIOUS
  <2> QED
    BY <2>1 DEF Zeroed
<1>2. Infinity \in Nat /\ NoParent \in Int
  BY DEF Infinity, NoParent
<1>3. Begun(c).dist = [v \in 0..(N - 1) |-> IF v \in 0..(P - 1) THEN dist[c][v] ELSE Infinity]
  BY <1>1 DEF Begun, AtSources, Resized
<1>4. Begun(c).par = [v \in 0..(N - 1) |-> IF v \in 0..(P - 1) THEN par[c][v] ELSE NoParent]
  BY <1>1 DEF Begun, AtSources, Resized
<1> HIDE DEF Begun
<1>5. 0..(P - 1) \subseteq 0..(N - 1)
  OBVIOUS
<1>6. Begun(c).dist \in [0..(N - 1) -> Nat] /\ Begun(c).par \in [0..(N - 1) -> Int]
  BY <1>2, <1>3, <1>4
<1> QED
  BY <1>3, <1>4, <1>5, <1>6

\* Values for all the nodes up to the last.
Typed(new, last) == new.dist \in [0..last -> Nat] /\ new.par \in [0..last -> Int]

\* Without -optimize dijkstra starts from all the sources.
LEMMA FromScratchSolves ==
  ASSUME NEW c, NEW last \in Nat, last + 3 < Infinity, n[c] = last + 1, flag = 0,
         g[c] \in Seq(Pairs(last + 1)), Connected(g[c], last + 1),
         ToSet(Sources(c)) \in SUBSET (0..last), ToSet(Sources(c)) # {}
  PROVE  /\ Typed(Result(c), last)
         /\ Solved(g[c], last + 1, ToSet(Sources(c)), Result(c).dist, Result(c).par)
<1> DEFINE S == ToSet(Sources(c))
           d == Begun(c)
           new == Dijkstra(g[c], last + 1, d.dist, d.par)
<1>1. last + 1 \in Nat /\ 0..(last + 1 - 1) = 0..last
  OBVIOUS
<1>2. /\ d.dist \in [0..last -> Nat] /\ d.par \in [0..last -> Int]
      /\ \A v \in 0..last : /\ d.dist[v] = IF v \in S THEN 0 ELSE Infinity
                            /\ v \in S => d.par[v] = v
  <2> DEFINE N == last + 1
  <2>1. N \in Nat /\ 0..(N - 1) = 0..last /\ n[c] = N
    BY <1>1
  <2> HIDE DEF N
  <2>2. ToSet(Sources(c)) \in SUBSET (0..(N - 1))
    BY <2>1
  <2>3. /\ Begun(c).dist \in [0..(N - 1) -> Nat] /\ Begun(c).par \in [0..(N - 1) -> Int]
        /\ \A v \in 0..(N - 1) :
             /\ Begun(c).dist[v] = IF v \in ToSet(Sources(c)) THEN 0 ELSE Infinity
             /\ v \in ToSet(Sources(c)) => Begun(c).par[v] = v
    BY <2>1, <2>2, BegunAfresh
  <2> QED
    BY <2>1, <2>3
<1>3. Result(c).dist = new.dist /\ Result(c).par = new.par
  <2>1. Result(c) = FromScratch(c, d)
    BY DEF Result
  <2> HIDE DEF d
  <2>2. FromScratch(c, d).dist = new.dist /\ FromScratch(c, d).par = new.par
    BY DEF FromScratch, Outcome
  <2> QED
    BY <2>1, <2>2
<1> HIDE DEF S, d
<1>4. new \in SetStates(last) /\ Solved(g[c], last + 1, S, new.dist, new.par)
  BY <1>2, DijkstraSolves DEF S
<1> HIDE DEF new
<1>5. new.dist \in [0..last -> Nat] /\ new.par \in [0..last -> Int]
  BY <1>4 DEF SetStates
<1> QED
  BY <1>3, <1>4, <1>5 DEF Typed, S

\* With -optimize the first time a search does.
LEMMA FirstSearchSolves ==
  ASSUME NEW c, NEW last \in Nat, last + 3 < Infinity, n[c] = last + 1,
         flag = 1, prevN[c] = 0, dist[c] = <<>>, par[c] = <<>>,
         g[c] \in Seq(Nat \X Nat), Connected(g[c], last + 1),
         Sources(c) \in Seq(0..last),
         ToSet(Sources(c)) \in SUBSET (0..last), ToSet(Sources(c)) # {},
         \A j, k \in 1..Len(Sources(c)) : Sources(c)[j] = Sources(c)[k] => j = k
  PROVE  /\ Typed(Result(c), last)
         /\ Solved(g[c], last + 1, ToSet(Sources(c)), Result(c).dist, Result(c).par)
<1> DEFINE q == Sources(c)
           S == ToSet(q)
           d == Begun(c)
           s == [dist |-> d.dist, par |-> d.par, queue |-> q]
           new == Search(s, g[c], last)
<1>1. last + 1 \in Nat /\ 0..(last + 1 - 1) = 0..last /\ last + 1 - 1 = last
  OBVIOUS
<1>2. /\ d.dist \in [0..last -> Nat] /\ d.par \in [0..last -> Int]
      /\ \A v \in 0..last : /\ d.dist[v] = IF v \in S THEN 0 ELSE Infinity
                            /\ v \in S => d.par[v] = v
  <2> DEFINE N == last + 1
  <2>1. N \in Nat /\ 0..(N - 1) = 0..last /\ n[c] = N
    BY <1>1
  <2> HIDE DEF N
  <2>2. ToSet(Sources(c)) \in SUBSET (0..(N - 1))
    BY <2>1
  <2>3. /\ Begun(c).dist \in [0..(N - 1) -> Nat] /\ Begun(c).par \in [0..(N - 1) -> Int]
        /\ \A v \in 0..(N - 1) :
             /\ Begun(c).dist[v] = IF v \in ToSet(Sources(c)) THEN 0 ELSE Infinity
             /\ v \in ToSet(Sources(c)) => Begun(c).par[v] = v
    BY <2>1, <2>2, BegunAfresh
  <2> QED
    BY <2>1, <2>3
<1>3. Result(c).dist = new.dist /\ Result(c).par = new.par
  <2>1. Result(c) = FirstSearch(c, g[c], q, d)
    BY DEF Result
  <2> HIDE DEF d, q
  <2>2. FirstSearch(c, g[c], q, d).dist = new.dist /\ FirstSearch(c, g[c], q, d).par = new.par
    BY <1>1 DEF FirstSearch, Outcome
  <2> QED
    BY <2>1, <2>2
<1>4. q \in Seq(0..last) /\ S \in SUBSET (0..last) /\ S # {}
      /\ \A j, k \in 1..Len(q) : q[j] = q[k] => j = k
  OBVIOUS
<1> HIDE DEF q, d
<1>5. /\ \A i \in 1..Len(q) : q[i] \in S
      /\ \A v \in S : \E i \in 1..Len(q) : q[i] = v
  BY SMTT(30), <1>4 DEF ToSet
<1> HIDE DEF S
<1>6. s \in States(last) /\ s.dist = d.dist /\ s.par = d.par /\ s.queue = q
  BY <1>2, <1>4 DEF States
<1> HIDE DEF s
<1>7. Searched(g[c], last, S, s, 0)
  <2>1. \A v \in 0..last : /\ s.dist[v] = IF v \in S THEN 0 ELSE Infinity
                           /\ v \in S => s.par[v] = v
    BY <1>2, <1>6
  <2>2. /\ \A i \in 1..Len(s.queue) : s.queue[i] \in S
        /\ \A v \in S : \E i \in 1..Len(s.queue) : s.queue[i] = v
        /\ \A i, j \in 1..Len(s.queue) : s.queue[i] = s.queue[j] => i = j
    BY <1>4, <1>5, <1>6
  <2> QED
    BY <1>4, <1>6, <2>1, <2>2, SearchStarts
<1>8. last + 2 < Infinity
  BY DEF Infinity
<1>9. new \in States(last) /\ Solved(g[c], last + 1, S, new.dist, new.par)
  BY <1>4, <1>7, <1>8, SearchSolves
<1> HIDE DEF new
<1>10. new.dist \in [0..last -> Nat] /\ new.par \in [0..last -> Int]
  BY <1>9 DEF States
<1> QED
  BY <1>3, <1>9, <1>10 DEF Typed, S, q

\* That it is solved says nothing of other nodes, nor of which of these are sources.
LEMMA SolvedSame ==
  ASSUME NEW E, NEW N \in Nat, NEW S, NEW T, NEW d, NEW p, NEW e, NEW q,
         Solved(E, N, S, d, p), \A v \in 0..(N - 1) : v \in S <=> v \in T,
         \A v \in 0..(N - 1) : e[v] = d[v] /\ q[v] = p[v]
  PROVE  Solved(E, N, T, e, q)
BY DEF Solved

\* After that the new nodes join what was computed before.
LEMMA JoinAllAgainSolves ==
  ASSUME NEW c, NEW N \in Nat, NEW P \in 1..(N - 1), N + 2 < Infinity,
         n[c] = N, prevN[c] = P, flag = 1, g[c] \in Seq(Nat \X Nat),
         \A i \in P..(N - 1) : Connected(g[c], i + 1), Solves(g[c], P, c)
  PROVE  /\ Typed(Result(c), N - 1)
         /\ Solved(g[c], N, ToSet(Sources(c)), Result(c).dist, Result(c).par)
<1> DEFINE d == Begun(c)
           q == Sources(c)
           new == JoinAll(c, g[c], q, d)
<1>1. P \in Nat /\ P > 0
  OBVIOUS
<1>2. /\ sources[c] \in Seq(0..(P - 1)) /\ sources[c] # <<>>
      /\ dist[c] \in [0..(P - 1) -> Nat] /\ par[c] \in [0..(P - 1) -> Int]
      /\ Solved(g[c], P, ToSet(sources[c]), dist[c], par[c])
  BY <1>1 DEF Solves, SolvesFor
<1>3. /\ q \in Seq(Nat) /\ \E v \in ToSet(q) : v < P
      /\ \A i \in P..(N - 1) : i \in ToSet(q) <=> i % NConsumers = c
      /\ \A v \in 0..(P - 1) : v \in ToSet(q) <=> v \in ToSet(sources[c])
  BY <1>2, NextSources
<1>4. /\ d.dist \in [0..(N - 1) -> Nat] /\ d.par \in [0..(N - 1) -> Int]
      /\ \A v \in 0..(P - 1) : d.dist[v] = dist[c][v] /\ d.par[v] = par[c][v]
  BY <1>2, BegunAgain
<1>5. Result(c) = new
  <2>1. prevN[c] # 0 /\ flag # 0
    BY <1>1
  <2> QED
    BY <2>1 DEF Result
<1> HIDE DEF d, q
<1>6. Solved(g[c], P, ToSet(q), d.dist, d.par)
  <2> DEFINE a == dist[c]
             b == par[c]
             e == d.dist
             f == d.par
             T == ToSet(sources[c])
             S == ToSet(q)
  <2>1. /\ Solved(g[c], P, T, a, b) /\ \A v \in 0..(P - 1) : v \in T <=> v \in S
        /\ \A v \in 0..(P - 1) : e[v] = a[v] /\ f[v] = b[v]
    BY <1>2, <1>3, <1>4
  <2> HIDE DEF a, b, e, f, S, T
  <2>2. Solved(g[c], P, S, e, f)
    BY <1>1, <2>1, SolvedSame
  <2> QED
    BY <2>2 DEF S, e, f
<1>7. /\ new.dist \in [0..(N - 1) -> Nat] /\ new.par \in [0..(N - 1) -> Int]
      /\ Solved(g[c], N, ToSet(q), new.dist, new.par)
  BY <1>3, <1>4, <1>6, JoinAllSolves
<1> QED
  BY <1>5, <1>7 DEF Typed, q

\* Whichever it is, the problem is solved for the product that was read.
LEMMA ResultSolves ==
  ASSUME NEW c \in 0..(NConsumers - 1), NEW last \in Nat, last + 3 < Infinity,
         n[c] = last + 1, NConsumers * (NConsumers - 1) <= last + 1, flag \in {0, 1},
         prevN[c] \in 0..last, g[c] \in Seq(Pairs(last + 1)),
         InitialNodes \in 0..(last + 1), Grown(g[c], last + 1),
         prevN[c] > 0 => InitialNodes <= prevN[c], Solves(g[c], prevN[c], c)
  PROVE  /\ Typed(Result(c), last)
         /\ SolvesFor(g[c], last + 1, Sources(c), Result(c).dist, Result(c).par)
<1> DEFINE N == last + 1
           S == ToSet(Sources(c))
<1>1. N \in Nat \ {0} /\ N - 1 = last /\ n[c] = N /\ NConsumers * (NConsumers - 1) <= N
  OBVIOUS
<1>2. Connected(g[c], N) /\ \A i \in prevN[c]..last : prevN[c] > 0 => Connected(g[c], i + 1)
  <2>1. N \in InitialNodes..N
    OBVIOUS
  <2>2. \A i \in prevN[c]..last : prevN[c] > 0 => i + 1 \in InitialNodes..N
    OBVIOUS
  <2> QED
    BY <2>1, <2>2 DEF Grown
<1>3. g[c] \in Seq(Nat \X Nat)
  <2>1. Pairs(last + 1) \subseteq Nat \X Nat
    BY DEF Pairs
  <2> QED
    BY <2>1, SeqMonotonic
<1>6. ASSUME Sources(c) \in Seq(0..last), Sources(c) # <<>>, Typed(Result(c), last),
             Solved(g[c], last + 1, S, Result(c).dist, Result(c).par)
      PROVE  SolvesFor(g[c], last + 1, Sources(c), Result(c).dist, Result(c).par)
  <2>1. last + 1 - 1 = last /\ last + 1 # 0
    OBVIOUS
  <2>2. Result(c).dist \in [0..last -> Nat] /\ Result(c).par \in [0..last -> Int]
    BY <1>6 DEF Typed
  <2> QED
    BY SMTT(30), <1>6, <2>1, <2>2 DEF SolvesFor
<1>4. CASE prevN[c] = 0
  <2>1. sources[c] = <<>> /\ dist[c] = <<>> /\ par[c] = <<>>
    BY <1>4 DEF Solves, SolvesFor
  <2> HIDE DEF N
  <2>2. /\ Sources(c) \in Seq(0..(N - 1)) /\ S \in SUBSET (0..(N - 1)) /\ S # {}
        /\ \A j, k \in 1..Len(Sources(c)) : Sources(c)[j] = Sources(c)[k] => j = k
    BY <1>1, <1>4, <2>1, FirstSources
  <2>3. /\ Sources(c) \in Seq(0..last) /\ S \in SUBSET (0..last) /\ S # {}
        /\ Connected(g[c], last + 1)
    BY <1>1, <1>2, <2>2 DEF N
  <2>4. Typed(Result(c), last) /\ Solved(g[c], last + 1, S, Result(c).dist, Result(c).par)
    <3>1. CASE flag = 0
      BY <2>3, <3>1, FromScratchSolves
    <3>2. CASE flag = 1
      BY <1>3, <1>4, <2>1, <2>2, <2>3, <3>2, FirstSearchSolves
    <3> QED
      BY <3>1, <3>2
  <2>5. Sources(c) # <<>>
    BY <2>3 DEF ToSet
  <2> QED
    BY <1>6, <2>3, <2>4, <2>5
<1>5. CASE prevN[c] > 0
  <2> DEFINE P == prevN[c]
  <2>1. P \in 1..(N - 1) /\ P > 0 /\ P # 0 /\ P \in Nat
    BY <1>1, <1>5
  <2>2. sources[c] \in Seq(0..(P - 1)) /\ sources[c] # <<>>
    BY <2>1 DEF Solves, SolvesFor
  <2> HIDE DEF N
  <2>3. Sources(c) \in Seq(0..(N - 1)) /\ S \in SUBSET (0..(N - 1)) /\ S # {}
    BY <1>1, <2>1, <2>2, NextSources
  <2>4. /\ Sources(c) \in Seq(0..last) /\ S \in SUBSET (0..last) /\ S # {}
        /\ Connected(g[c], last + 1)
    BY <1>1, <1>2, <2>3 DEF N
  <2>5. Typed(Result(c), last) /\ Solved(g[c], last + 1, S, Result(c).dist, Result(c).par)
    <3>1. CASE flag = 0
      BY <2>4, <3>1, FromScratchSolves
    <3>2. CASE flag = 1
      <4>1. \A i \in P..(N - 1) : Connected(g[c], i + 1)
        BY <1>1, <1>2, <1>5
      <4>2. N + 2 < Infinity
        BY DEF N
      <4>3. Typed(Result(c), N - 1) /\ Solved(g[c], N, S, Result(c).dist, Result(c).par)
        BY <1>1, <1>3, <2>1, <3>2, <4>1, <4>2, JoinAllAgainSolves
      <4> QED
        BY <1>1, <4>3 DEF N
    <3> QED
      BY <3>1, <3>2
  <2>6. Sources(c) # <<>>
    BY <2>4 DEF ToSet
  <2> QED
    BY <1>6, <2>4, <2>5, <2>6
<1> QED
  BY <1>4, <1>5

\* The same links, the same solution.
LEMMA SolvedRelinked ==
  ASSUME NEW E, NEW F, NEW N \in Nat, NEW S, NEW d, NEW p, Solved(E, N, S, d, p),
         \A v, w \in 0..(N - 1) : Linked(E, v, w) <=> Linked(F, v, w)
  PROVE  Solved(F, N, S, d, p)
BY DEF Solved

-----------------------------------------------------------------------------
(* The steps of the consumers *)

\* A step of one consumer leaves what the others have computed alone.
LEMMA OthersComputed ==
  ASSUME ConsumerTypes, ComputedTypes, NEW c \in Consumers, Consumer(c)
  PROVE  /\ ComputedTypes'
         /\ \A d \in Consumers \ {c} :
              /\ prevN'[d] = prevN[d] /\ sources'[d] = sources[d]
              /\ dist'[d] = dist[d] /\ par'[d] = par[d]
<1> USE DEF ComputedTypes
<1>1. CASE GetSize(c) \/ ReadFirstEnd(c) \/ ReadEdgesEnd(c)
  BY <1>1 DEF GetSize, ReadFirstEnd, ReadEdgesEnd, product
<1>2. CASE Crash(c) \/ Exit(c)
  BY SMTT(30), <1>2 DEF Crash, Exit, End, ConsumerTypes
<1>3. CASE Attach(c)
  BY <1>3 DEF Attach, ConsumerTypes
<1>4. CASE ReadSecondEnd(c)
  BY <1>4 DEF ReadSecondEnd, End, ConsumerTypes
<1>5. CASE Compute(c)
  <2>1. \/ End(c, "undefined")
        \/ /\ \E x : sources' = [sources EXCEPT ![c] = x]
           /\ \E x : dist' = [dist EXCEPT ![c] = x]
           /\ \E x : par' = [par EXCEPT ![c] = x]
           /\ prevN' = prevN
    BY <1>5 DEF Compute
  <2>2. CASE End(c, "undefined")
    BY <2>2 DEF End, ConsumerTypes
  <2>3. CASE /\ \E x : sources' = [sources EXCEPT ![c] = x]
             /\ \E x : dist' = [dist EXCEPT ![c] = x]
             /\ \E x : par' = [par EXCEPT ![c] = x]
             /\ prevN' = prevN
    BY <2>3
  <2> QED
    BY <2>1, <2>2, <2>3
<1> QED
  BY <1>1, <1>2, <1>3, <1>4, <1>5 DEF Consumer

\* A consumer that ends has no nodes.
LEMMA EndComputes ==
  ASSUME ConsumerTypes, ComputedTypes, NEW c \in Consumers,
         NEW label \in {"exited", "crashed", "undefined"}, End(c, label)
  PROVE  Computed(c)'
<1>1. /\ n'[c] = 0 /\ g'[c] = <<>> /\ sources'[c] = <<>> /\ dist'[c] = <<>>
      /\ par'[c] = <<>> /\ cPc'[c] = label
  BY DEF End, ConsumerTypes, ComputedTypes
<1>2. ~Busy(c)'
  BY <1>1 DEF Busy
<1> QED
  BY <1>1, <1>2 DEF Computed, Solves, SolvesFor

\* The steps that leave alone what has been computed, and whether it reads.
LEMMA ReadingComputes ==
  ASSUME GraphInv, ComputedTypes, NEW c \in Consumers, Computed(c),
         GetSize(c) \/ ReadFirstEnd(c) \/ ReadSecondEnd(c) \/ ReadEdgesEnd(c)
  PROVE  Computed(c)'
<1>1. segment' = segment /\ cPc \in [Consumers -> ConsumerLabels]
  BY DEF GetSize, ReadFirstEnd, ReadSecondEnd, ReadEdgesEnd, shm, GraphInv, ConsumerTypes
<1>2. CASE GetSize(c)
  <2>1. /\ ~Busy(c) /\ cPc'[c] = "attach" /\ UNCHANGED product
    BY <1>1, <1>2 DEF GetSize, Busy
  <2>2. ~Busy(c)'
    BY <2>1 DEF Busy
  <2> QED
    BY <2>1, <2>2 DEF Computed, Solves, product
<1>3. CASE ReadFirstEnd(c) \/ ReadEdgesEnd(c)
  <2>1. Busy(c) /\ Busy(c)' /\ UNCHANGED product /\ at' = at
    BY <1>1, <1>3 DEF ReadFirstEnd, ReadEdgesEnd, Busy, reading
  <2> QED
    BY <1>1, <2>1 DEF Computed, Solves, product
<1>4. CASE ReadSecondEnd(c) /\ End(c, "undefined")
  BY <1>4, EndComputes DEF GraphInv
<1>5. CASE ReadSecondEnd(c) /\ ~End(c, "undefined")
  <2>1. /\ cPc[c] = "second" /\ cPc' = [cPc EXCEPT ![c] = "edges"]
        /\ UNCHANGED <<at, n, prevN, sources, dist, par, torn>>
    BY <1>5 DEF ReadSecondEnd
  <2>2. Busy(c) /\ Busy(c)'
    BY <1>1, <2>1 DEF Busy
  <2> QED
    BY <1>1, <2>1, <2>2 DEF Computed, Solves
<1> QED
  BY <1>2, <1>3, <1>4, <1>5

\* What was computed is right for the larger product too, as far as it goes: the nodes
\* that were there before are linked as they were.
LEMMA AttachComputes ==
  ASSUME GraphInv, GrownInv, ComputedTypes, NEW c \in Consumers, Computed(c), Attach(c)
  PROVE  Computed(c)'
<1>1. /\ segment' = segment /\ key \in 1..Len(segment) /\ Newest \in 1..Newest
      /\ Newest \in Nat /\ Complete(key) => key = Newest
  BY DEF Attach, GraphInv, ProducerInv, ProducerTypes, Published, NoSegment, shm, Newest,
         Complete
<1>2. /\ ~Busy(c) /\ cPc \in [Consumers -> ConsumerLabels]
      /\ n'[c] = NodesWord(key) /\ prevN'[c] = n[c] /\ n[c] \in Nat
      /\ UNCHANGED <<sources, dist, par>>
  BY DEF Attach, Busy, GraphInv, ConsumerTypes
<1>3. CASE NodesWord(key) = n[c]
  <2>1. cPc'[c] = "sleep" /\ g' = g /\ torn' = torn
    BY <1>2, <1>3 DEF Attach, EndRound
  <2>2. ~Busy(c)'
    BY <2>1 DEF Busy
  <2> QED
    BY <1>2, <1>3, <2>1, <2>2 DEF Computed, Solves
<1>4. CASE NodesWord(key) # n[c]
  <2>1. /\ at' = [at EXCEPT ![c] = key] /\ cPc' = [cPc EXCEPT ![c] = "edges"]
        /\ torn' = [torn EXCEPT ![c] = @ \/ ~Complete(key)]
    BY <1>4 DEF Attach
  <2>2. /\ Busy(c)' /\ at'[c] = key
    BY <1>2, <2>1 DEF Busy, GraphInv, ConsumerTypes
  <2>3. torn'[c] = (torn[c] \/ ~Complete(key))
    BY <2>1, Zenon DEF GraphInv, ConsumerTypes
  <2> SUFFICES ASSUME ~torn'[c]
               PROVE  /\ n[c] < NodesWord(key) /\ (n[c] > 0 => InitialNodes <= n[c])
                      /\ Solves(EdgesIn(segment[key]), n[c], c)
    <3>1. ASSUME ~torn'[c]
          PROVE  /\ prevN'[c] < n'[c] /\ (prevN'[c] > 0 => InitialNodes <= prevN'[c])
                 /\ Solves(EdgesIn(segment[at[c]]), prevN[c], c)'
      BY <1>1, <1>2, <2>2, <3>1 DEF Solves
    <3> QED
      BY <2>2, <3>1, Zenon DEF Computed
  <2>0. ~torn[c] /\ key = Newest
    <3>1. ~torn'[c]
      OBVIOUS
    <3>2. ~torn[c] /\ Complete(key)
      BY <2>3, <3>1, Zenon
    <3> QED
      BY <1>1, <3>2
  <2>4. seen[c] \in 0..Newest /\ HoldsAll(c) /\ Solves(g[c], n[c], c)
    BY <1>2, <2>0 DEF GraphInv, Undisturbed, Computed
  <2>5. NodesWord(key) \in Nat
    BY <1>1, SegmentWords DEF GraphInv, NodesWord
  <2>6. CASE n[c] = 0
    <3>1. n[c] < NodesWord(key)
      BY <1>4, <2>5, <2>6
    <3> QED
      BY <2>4, <2>6, <3>1 DEF Solves, SolvesFor
  <2>7. CASE n[c] # 0
    <3> DEFINE s == seen[c]
               E == EdgesIn(segment[key])
               N == n[c]
    <3>1. /\ s \in 1..Newest /\ N = NodesWord(s) /\ g[c] = EdgesIn(segment[s])
          /\ s < Newest /\ key \in 1..Newest
      BY <1>1, <1>4, <2>0, <2>4, <2>7 DEF HoldsAll, NoSegment
    <3>2. N < NodesWord(key) /\ Extends(E, g[c])
      BY <1>1, <2>0, <3>1 DEF GraphInv, ProducerInv, Published, Outgrows, NodesWord
    <3>3. InitialNodes <= N /\ NoNewLinks(E, g[c], N)
      BY <1>1, <2>0, <3>1 DEF GrownInv
    <3>4. E \in Seq(Nat \X Nat) /\ g[c] \in Seq(Nat \X Nat)
      BY <3>1, ProductWords DEF GraphInv
    <3>5. SolvesFor(g[c], N, sources[c], dist[c], par[c])
      BY <2>4 DEF Solves
    <3>6. N \in Nat /\ N > 0
      BY <1>2, <2>7
    <3> HIDE DEF E, N
    <3>7. \A v, w \in 0..(N - 1) : Linked(g[c], v, w) <=> Linked(E, v, w)
      BY <3>2, <3>3, <3>4, LinksKept DEF NoNewLinks
    <3>8. Solved(g[c], N, ToSet(sources[c]), dist[c], par[c])
      BY <3>5, <3>6 DEF SolvesFor
    <3>9. Solved(E, N, ToSet(sources[c]), dist[c], par[c])
      BY <3>6, <3>7, <3>8, SolvedRelinked
    <3>10. SolvesFor(E, N, sources[c], dist[c], par[c])
      BY <3>5, <3>6, <3>9 DEF SolvesFor
    <3> QED
      BY <3>2, <3>3, <3>10 DEF E, N, Solves
  <2> QED
    BY <2>6, <2>7
<1> QED
  BY <1>3, <1>4

\* dist and par are brought up to date with the product that has been read.
LEMMA ComputeComputes ==
  ASSUME GraphInv, GrownInv, ComputedTypes, NEW c \in Consumers, Computed(c), Compute(c)
  PROVE  Computed(c)'
<1>1. \/ End(c, "undefined")
      \/ /\ sources' = [sources EXCEPT ![c] = Sources(c)]
         /\ dist' = [dist EXCEPT ![c] = Result(c).dist]
         /\ par' = [par EXCEPT ![c] = Result(c).par]
         /\ EndRound(c, leaked[c])
         /\ UNCHANGED <<n, prevN, g, torn, seen>>
  BY DEF Compute, Result, Begun, Zeroed
<1>2. CASE End(c, "undefined")
  BY <1>2, EndComputes DEF GraphInv
<1>3. CASE /\ sources' = [sources EXCEPT ![c] = Sources(c)]
           /\ dist' = [dist EXCEPT ![c] = Result(c).dist]
           /\ par' = [par EXCEPT ![c] = Result(c).par]
           /\ EndRound(c, leaked[c])
           /\ UNCHANGED <<n, prevN, g, torn, seen>>
  <2>1. /\ sources'[c] = Sources(c) /\ dist'[c] = Result(c).dist /\ par'[c] = Result(c).par
        /\ cPc'[c] = "sleep" /\ segment' = segment /\ Busy(c)
    BY <1>3 DEF ComputedTypes, EndRound, GraphInv, ConsumerTypes, Compute, shm, Busy
  <2>2. ~Busy(c)'
    BY <2>1 DEF Busy
  <2> SUFFICES ASSUME ~torn[c]
               PROVE  SolvesFor(g[c], n[c], Sources(c), Result(c).dist, Result(c).par)
    BY <1>3, <2>1, <2>2 DEF Computed, Solves
  <2> DEFINE s == at[c]
             N == NodesWord(s)
             last == N - 1
  <2>3. /\ seen[c] = s /\ n[c] = N /\ seen[c] \in 0..Newest /\ s # 0
        /\ prevN[c] < n[c] /\ (prevN[c] > 0 => InitialNodes <= prevN[c])
        /\ Solves(EdgesIn(segment[s]), prevN[c], c) /\ prevN[c] \in Nat
    BY <2>1 DEF GraphInv, Undisturbed, ReadsPart, Computed, ConsumerTypes, NoSegment
  <2>4. s \in 1..Newest
    BY <2>3
  <2>5. g[c] = EdgesIn(segment[s])
    <3>1. Undisturbed(c)'
      BY ComputeKeeps
    <3> QED
      BY <1>3, <2>1, <2>2, <2>3, <3>1 DEF Undisturbed, HoldsAll, NoSegment
  <2>6. /\ N \in Nat /\ InitialNodes <= N /\ N <= pN /\ InitialNodes \in Nat /\ pN \in Nat
        /\ pN + 2 < Infinity
    BY <2>4, NodesOfSegment, ProducerNumbers, FewNodes DEF GraphInv
  <2>7. g[c] \in Seq(Pairs(N)) /\ Grown(g[c], N)
    BY <2>4, <2>5, ProductWords DEF GraphInv, GrownInv, NodesWord
  <2>8. Solves(g[c], prevN[c], c)
    BY <2>3, <2>5
  <2> HIDE DEF N, s
  <2>9. /\ last \in Nat /\ last + 1 = N /\ last + 3 < Infinity /\ prevN[c] \in 0..last
        /\ InitialNodes \in 0..(last + 1)
    BY <2>3, <2>6 DEF Infinity
  <2>10. c \in 0..(NConsumers - 1) /\ NConsumers * (NConsumers - 1) <= N
    <3>1. NConsumers * (NConsumers - 1) \in Int
      BY GraphAssumption
    <3>2. NConsumers * (NConsumers - 1) <= InitialNodes /\ c \in 0..(NConsumers - 1)
      BY GraphAssumption
    <3> DEFINE k == NConsumers * (NConsumers - 1)
    <3> HIDE DEF k
    <3>3. k <= N
      BY <2>6, <3>1, <3>2 DEF k
    <3> QED
      BY <3>2, <3>3 DEF k
  <2>11. flag \in {0, 1}
    BY DEF GraphInv, ProducerInv, ProducerTypes
  <2> HIDE DEF last
  <2>12. SolvesFor(g[c], last + 1, Sources(c), Result(c).dist, Result(c).par)
    BY <2>3, <2>7, <2>8, <2>9, <2>10, <2>11, ResultSolves
  <2> QED
    BY <2>3, <2>9, <2>12
<1> QED
  BY <1>1, <1>2, <1>3

\* So every step of a consumer keeps what it has computed right.
LEMMA ConsumerComputes ==
  ASSUME GraphInv, GrownInv, ComputedTypes, NEW c \in Consumers, Computed(c), Consumer(c)
  PROVE  Computed(c)'
<1>1. CASE Crash(c) \/ Exit(c)
  BY <1>1, EndComputes DEF Crash, Exit, GraphInv
<1> QED
  BY <1>1, ReadingComputes, AttachComputes, ComputeComputes DEF Consumer

\* A step of the producer changes neither what is computed nor the segment it is for.
LEMMA ProducerComputes ==
  ASSUME GraphInv, Producer, Stable, NEW c \in Consumers, Computed(c)
  PROVE  Computed(c)'
<1>1. UNCHANGED <<cPc, at, product>>
  BY DEF Producer, ProduceNode, RemoveOld, CreateNew, Fill, ProducerExit, reading
<1>2. Busy(c)' = Busy(c)
  BY <1>1 DEF Busy
<1>3. ASSUME ~torn[c], Busy(c) PROVE segment'[at[c]] = segment[at[c]]
  <2>1. at[c] \in 1..Newest
    BY <1>3 DEF GraphInv, Undisturbed, ReadsPart, ConsumerTypes, NoSegment
  <2> QED
    BY <2>1 DEF Stable
<1> QED
  BY <1>1, <1>2, <1>3 DEF Computed, Solves, product

\* The invariant is inductive, and holds at first.
LEMMA PathsInductive == PathsInv /\ [Next]_vars => PathsInv'
<1> SUFFICES ASSUME PathsInv, [Next]_vars PROVE PathsInv'
  OBVIOUS
<1>1. GraphInv'
  BY GraphInductive DEF PathsInv
<1>2. GraphInv /\ GrownInv /\ ComputedTypes /\ \A c \in Consumers : Computed(c)
  BY DEF PathsInv
<1>3. CASE Producer
  <2>1. Stable /\ GrownInv'
    BY <1>2, <1>3, ProducerKeeps, ProducerGrows DEF GraphInv
  <2>2. ComputedTypes'
    BY <1>2, <1>3 DEF Producer, ProduceNode, RemoveOld, CreateNew, Fill, ProducerExit,
                      product, ComputedTypes
  <2>3. \A c \in Consumers : Computed(c)'
    BY <1>2, <1>3, <2>1, ProducerComputes
  <2> QED
    BY <1>1, <2>1, <2>2, <2>3 DEF PathsInv
<1>4. ASSUME NEW c \in Consumers, Consumer(c) PROVE PathsInv'
  <2>1. /\ UNCHANGED <<shm, producer>>
        /\ \A d \in Consumers \ {c} :
              /\ cPc'[d] = cPc[d] /\ at'[d] = at[d] /\ n'[d] = n[d] /\ g'[d] = g[d]
              /\ torn'[d] = torn[d]
    BY <1>2, <1>4, OneAtATime DEF GraphInv
  <2>2. /\ ComputedTypes'
        /\ \A d \in Consumers \ {c} :
              /\ prevN'[d] = prevN[d] /\ sources'[d] = sources[d]
              /\ dist'[d] = dist[d] /\ par'[d] = par[d]
    BY <1>2, <1>4, OthersComputed DEF GraphInv
  <2>3. GrownInv'
    BY <1>2, <2>1 DEF GrownInv, shm, producer, Newest, NodesWord
  <2>4. Computed(c)'
    BY <1>2, <1>4, ConsumerComputes
  <2>5. ASSUME NEW d \in Consumers \ {c} PROVE Computed(d)'
    <3>1. Computed(d) /\ segment' = segment
      BY <1>2, <2>1 DEF shm
    <3> QED
      BY <2>1, <2>2, <3>1 DEF Computed, Solves, Busy
  <2> QED
    BY <1>1, <2>2, <2>3, <2>4, <2>5 DEF PathsInv
<1>5. CASE UNCHANGED vars
  <2>1. UNCHANGED <<shm, producer, cPc, rounds, reading, product>>
    BY <1>5 DEF vars
  <2>2. GrownInv' /\ ComputedTypes'
    BY <1>2, <2>1 DEF GrownInv, shm, producer, product, Newest, NodesWord, ComputedTypes
  <2>3. ASSUME NEW d \in Consumers PROVE Computed(d)'
    <3>1. Computed(d)
      BY <1>2
    <3> QED
      BY <2>1, <3>1 DEF Computed, Solves, Busy, shm, reading, product
  <2> QED
    BY <1>1, <2>2, <2>3 DEF PathsInv
<1> QED
  BY <1>3, <1>4, <1>5 DEF Next

\* At first nothing has been computed.
LEMMA InitPaths == Init => PathsInv
<1> SUFFICES ASSUME Init PROVE PathsInv
  OBVIOUS
<1>1. GraphInv /\ GrownInv
  BY InitProducer, InitConsumers, InitGrown DEF GraphInv
<1>2. ComputedTypes
  BY DEF Init, ComputedTypes
<1>3. ASSUME NEW c \in Consumers PROVE Computed(c)
  <2>1. /\ cPc[c] = "sleep" /\ n[c] = 0 /\ sources[c] = <<>> /\ dist[c] = <<>>
        /\ par[c] = <<>>
    BY DEF Init
  <2> QED
    BY <2>1 DEF Computed, Busy, Solves, SolvesFor
<1> QED
  BY <1>1, <1>2, <1>3 DEF PathsInv

\* A consumer that never took a product from a segment that was being filled has, between
\* two rounds, the true distances of all nodes to those it owns, and a parent on a
\* shortest path for each of the others: from scratch or with -optimize, however large
\* the graph, however many nodes joined at once and however the processes interleave.
THEOREM PathsCorrect == Spec => []PathsShortest
<1>1. PathsInv => PathsShortest
  <2> SUFFICES ASSUME PathsInv, NEW c \in Consumers, Resting(c), ~torn[c], n[c] > 0
               PROVE  Correct(g[c], n[c], ToSet(sources[c]), dist[c], par[c])
    BY DEF PathsShortest
  <2> DEFINE N == n[c]
             S == ToSet(sources[c])
  <2>1. N \in Nat /\ seen[c] \in 0..Newest /\ HoldsAll(c) /\ Solves(g[c], N, c)
    BY DEF PathsInv, GraphInv, ConsumerTypes, Undisturbed, Computed, Resting, Busy
  <2>2. seen[c] \in 1..Newest /\ g[c] = EdgesIn(segment[seen[c]]) /\ N = segment[seen[c]][2]
    BY <2>1 DEF HoldsAll, NoSegment, NodesWord
  <2>3. g[c] \in Seq(Pairs(N))
    BY <2>2, ProductWords DEF PathsInv, GraphInv
  <2>4. /\ sources[c] \in Seq(0..(N - 1))
        /\ dist[c] \in [0..(N - 1) -> Nat] /\ par[c] \in [0..(N - 1) -> Int]
        /\ Solved(g[c], N, S, dist[c], par[c])
    BY <2>1 DEF Solves, SolvesFor
  <2>5. S \in SUBSET (0..(N - 1))
    <3> DEFINE D == 0..(N - 1)
               q == sources[c]
    <3>1. q \in Seq(D)
      BY <2>4
    <3> HIDE DEF D, q
    <3>2. ToSet(q) \subseteq D
      BY <3>1 DEF ToSet
    <3> QED
      BY <3>2 DEF D, q
  <2> HIDE DEF N, S
  <2>6. Correct(g[c], N, S, dist[c], par[c])
    BY <2>1, <2>3, <2>4, <2>5, SolvedIsCorrect
  <2> QED
    BY <2>6 DEF N, S
<1> QED
  BY <1>1, InitPaths, PathsInductive, PTL DEF Spec
=============================================================================
