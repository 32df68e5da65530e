-------------------------- MODULE GoodMallocProofs --------------------------
(***************************************************************************)
(* The headers lead through the memory of the allocator from one list or    *)
(* hole to the next, in whatever order lists come and go, and the clients   *)
(* of Assignment 6 are served, for any number of threads and any size of    *)
(* the memory and of what the threads ask for.                              *)
(***************************************************************************)
EXTENDS GoodMalloc, FiniteSetTheorems, WellFoundedInduction, TLAPS

-----------------------------------------------------------------------------
(* The walk over the headers *)

\* A set of natural numbers that is not empty has a least one.
LEMMA LeastNatural ==
  ASSUME NEW S, S \subseteq Nat, S # {}
  PROVE  \E x \in S : \A y \in S : x <= y
<1>1. IsWellFoundedOn(OpToRel(<, Nat), Nat)
  BY NatLessThanWellFounded
<1>2. PICK x \in S : \A y \in S : ~ (<<y, x>> \in OpToRel(<, Nat))
  BY <1>1, WFMin
<1>3. \A y \in S : ~ (y < x)
  BY <1>2 DEF OpToRel
<1> QED
  BY <1>3

\* Where a walk goes from i, and where it may be after as many steps.
NextHeader(i) == IF i < M THEN i + SizeOf(mem[i]) ELSE i
After(met, k) == IF k = 0 THEN {0} ELSE {0} \cup {NextHeader(i) : i \in met[k - 1]}

\* The size in a header is a number.
LEMMA SizesAreNumbers ==
  ASSUME mem \in [Addresses -> Nat]
  PROVE  \A i \in Nat : NextHeader(i) \in Nat
<1>1. \A w \in Nat : SizeOf(w) \in Nat
  BY DEF SizeOf
<1>2. \A i \in Nat : i < M => i \in Addresses
  BY SizeAssumption DEF Addresses
<1> QED
  BY <1>1, <1>2 DEF NextHeader

\* The walk is defined: what it may meet in k steps, for all k.  It is extended step
\* by step, and there is no least k up to which it cannot be.
LEMMA WalkExists ==
  ASSUME mem \in [Addresses -> Nat]
  PROVE  \E met : met = [k \in 0..M |-> After(met, k)] /\ met \in [0..M -> SUBSET Nat]
<1> DEFINE Upto(n) == \E met \in [Nat -> SUBSET Nat] : \A k \in 0..n : met[k] = After(met, k)
           Stuck == {n \in Nat : ~Upto(n)}
<1>1. Upto(0)
  <2> DEFINE met == [k \in Nat |-> {0}]
  <2>1. met \in [Nat -> SUBSET Nat] /\ met[0] = After(met, 0)
    BY DEF After
  <2>2. \A k \in 0..0 : k = 0
    OBVIOUS
  <2> HIDE DEF met
  <2> QED
    BY <2>1, <2>2
<1>2. ASSUME NEW n \in Nat, Upto(n)
      PROVE  Upto(n + 1)
  <2>1. PICK met \in [Nat -> SUBSET Nat] : \A k \in 0..n : met[k] = After(met, k)
    BY <1>2
  <2> DEFINE next == {0} \cup {NextHeader(i) : i \in met[n]}
             more == [met EXCEPT ![n + 1] = next]
  <2>2. next \subseteq Nat
    BY <2>1, SizesAreNumbers
  <2> HIDE DEF next
  <2>3. more \in [Nat -> SUBSET Nat] /\ more[n + 1] = next
        /\ \A k \in Nat : k # n + 1 => more[k] = met[k]
    BY <2>1, <2>2
  <2> HIDE DEF more
  <2>4. \A k \in 0..n : more[k] = After(more, k)
    <3> SUFFICES ASSUME NEW k \in 0..n
                 PROVE  more[k] = After(more, k)
      OBVIOUS
    <3>1. more[k] = met[k] /\ (k # 0 => k - 1 \in Nat /\ more[k - 1] = met[k - 1])
      BY <2>3
    <3> QED
      BY <2>1, <3>1 DEF After
  <2>5. more[n + 1] = After(more, n + 1)
    <3>1. n + 1 # 0 /\ (n + 1) - 1 = n /\ more[n] = met[n]
      BY <2>3
    <3> QED
      BY <2>3, <3>1 DEF After, next
  <2>6. \A k \in 0..(n + 1) : k \in 0..n \/ k = n + 1
    OBVIOUS
  <2> QED
    BY <2>3, <2>4, <2>5, <2>6
<1>3. Upto(M)
  <2> SUFFICES ASSUME Stuck # {}
               PROVE  FALSE
    BY SizeAssumption
  <2>1. PICK n \in Stuck : \A k \in Stuck : n <= k
    BY LeastNatural
  <2> HIDE DEF Upto
  <2>2. n \in Nat /\ n # 0
    BY <1>1, <2>1
  <2>3. n - 1 \in Nat /\ ~(n <= n - 1) /\ (n - 1) + 1 = n
    BY <2>2
  <2>4. Upto(n - 1)
    BY <2>1, <2>3
  <2> QED
    BY <1>2, <2>1, <2>3, <2>4
<1>4. PICK met \in [Nat -> SUBSET Nat] : \A k \in 0..M : met[k] = After(met, k)
  BY <1>3
<1> DEFINE part == [k \in 0..M |-> met[k]]
<1>5. \A k \in 0..M : After(met, k) = After(part, k)
  <2>1. \A k \in 0..M : k # 0 => k - 1 \in 0..M
    BY SizeAssumption
  <2> QED
    BY <2>1 DEF After
<1>6. part = [k \in 0..M |-> After(part, k)]
  BY <1>4, <1>5
<1>7. part \in [0..M -> SUBSET Nat]
  BY SizeAssumption
<1> QED
  BY <1>6, <1>7

\* What a walk meets, as the steps of the walk.
LEMMA ChainWalk ==
  ASSUME mem \in [Addresses -> Nat]
  PROVE  \E met \in [0..M -> SUBSET Nat] :
           Chain = met[M] /\ \A k \in 0..M : met[k] = After(met, k)
<1> DEFINE IsWalk(met) == met = [k \in 0..M |-> After(met, k)]
           walk == CHOOSE met : IsWalk(met)
<1>1. Chain = walk[M]
  BY DEF Chain, After, NextHeader
<1>2. PICK met : IsWalk(met) /\ met \in [0..M -> SUBSET Nat]
  BY WalkExists
<1>3. IsWalk(walk)
  BY <1>2
<1> HIDE DEF walk
<1>4. /\ DOMAIN walk = 0..M /\ \A k \in 0..M : walk[k] = After(walk, k)
  BY <1>3
<1> HIDE DEF IsWalk
<1>5. \A k \in 0..M : walk[k] \in SUBSET Nat
  <2> DEFINE Bad == {k \in 0..M : walk[k] \notin SUBSET Nat}
  <2> SUFFICES ASSUME Bad # {}
               PROVE  FALSE
    OBVIOUS
  <2>1. PICK k \in Bad : \A j \in Bad : k <= j
    <3>1. Bad \subseteq Nat
      OBVIOUS
    <3> HIDE DEF Bad
    <3> QED
      BY <3>1, LeastNatural
  <2>2. k \in 0..M /\ walk[k] = After(walk, k) /\ walk[k] \notin SUBSET Nat
    BY <1>4
  <2>3. k # 0
    BY <2>2 DEF After
  <2>4. k - 1 \in 0..M /\ ~(k <= k - 1)
    BY <2>2, <2>3, SizeAssumption
  <2>5. walk[k - 1] \in SUBSET Nat
    BY <2>1, <2>4
  <2> QED
    BY <2>2, <2>3, <2>5, SizesAreNumbers DEF After
<1>6. walk \in [0..M -> SUBSET Nat]
  BY <1>3, <1>4, <1>5 DEF IsWalk
<1> QED
  BY <1>1, <1>4, <1>6

\* A set that a walk from 0 cannot leave, and in which every step goes on, holds what
\* the walk meets; and the walk goes as far as the end of the memory.
LEMMA ChainWithin ==
  ASSUME mem \in [Addresses -> Nat], NEW S \in SUBSET Nat, 0 \in S,
         \A i \in S : i < M => NextHeader(i) \in S /\ NextHeader(i) > i
  PROVE  /\ Chain \subseteq S /\ 0 \in Chain
         /\ \A i \in Chain : NextHeader(i) \in Chain
<1>1. PICK met \in [0..M -> SUBSET Nat] :
        Chain = met[M] /\ \A k \in 0..M : met[k] = After(met, k)
  BY ChainWalk
<1>2. M \in Nat /\ M \in 0..M /\ M # 0
  BY SizeAssumption
<1>3. \A i \in S : NextHeader(i) \in S
  BY <1>2 DEF NextHeader
<1> DEFINE Good(k) == /\ met[k] \subseteq S
                      /\ \A i \in met[k] : NextHeader(i) \in met[k] \/ i >= k
           Bad == {k \in 0..M : ~Good(k)}
<1>4. Good(0)
  <2>1. met[0] = {0}
    BY <1>1, <1>2 DEF After
  <2> QED
    BY <2>1
<1>5. ASSUME NEW k \in 0..M, k # 0, Good(k - 1)
      PROVE  Good(k)
  <2>1. k - 1 \in 0..M /\ k \in Nat /\ k - 1 \in Nat
    BY <1>2, <1>5
  <2>2. met[k] = {0} \cup {NextHeader(i) : i \in met[k - 1]}
    BY <1>1, <1>5 DEF After
  <2>3. met[k] \subseteq S
    BY <1>3, <1>5, <2>2
  <2>4. 0 \in met[k - 1]
    BY <1>1, <2>1 DEF After
  <2>5. ASSUME NEW i \in met[k]
        PROVE  NextHeader(i) \in met[k] \/ i >= k
    <3>1. CASE i = 0
      BY <2>2, <2>4, <3>1
    <3>2. ASSUME NEW j \in met[k - 1], i = NextHeader(j)
          PROVE  NextHeader(i) \in met[k] \/ i >= k
      <4>1. j \in S /\ j \in Nat
        BY <1>5
      <4>2. CASE NextHeader(j) \in met[k - 1]
        BY <2>2, <3>2, <4>2
      <4>3. CASE j >= k - 1 /\ j < M
        BY <2>1, <3>2, <4>1, <4>3
      <4>4. CASE ~(j < M)
        <5>1. i = j
          BY <3>2, <4>4 DEF NextHeader
        <5> QED
          BY <2>5, <3>2, <5>1
      <4> QED
        BY <1>5, <4>2, <4>3, <4>4
    <3> QED
      BY <2>2, <3>1, <3>2
  <2> QED
    BY <2>3, <2>5
<1>6. Good(M)
  <2> SUFFICES ASSUME Bad # {}
               PROVE  FALSE
    BY <1>2
  <2>1. PICK k \in Bad : \A j \in Bad : k <= j
    <3>1. Bad \subseteq Nat
      OBVIOUS
    <3> HIDE DEF Bad
    <3> QED
      BY <3>1, LeastNatural
  <2> HIDE DEF Good
  <2>2. k \in 0..M /\ k # 0
    BY <1>4, <2>1
  <2>3. k - 1 \in 0..M /\ ~(k <= k - 1)
    BY <1>2, <2>2
  <2>4. Good(k - 1)
    BY <2>1, <2>3
  <2> QED
    BY <1>5, <2>1, <2>2, <2>4
<1>7. \A i \in Chain : NextHeader(i) \in Chain
  <2>1. \A i \in Chain : NextHeader(i) \in Chain \/ i >= M
    BY <1>1, <1>6
  <2>2. \A i \in Chain : i \in Nat
    BY <1>1, <1>2
  <2>3. \A i \in Chain : i >= M => NextHeader(i) = i
    BY <1>2, <2>2 DEF NextHeader
  <2> QED
    BY <2>1, <2>3
<1>8. 0 \in Chain
  BY <1>1, <1>2 DEF After
<1> QED
  BY <1>1, <1>6, <1>7, <1>8

\* If moreover each of its members but 0 comes after another one, the walk meets all.
LEMMA ChainIs ==
  ASSUME mem \in [Addresses -> Nat], NEW S \in SUBSET Nat, 0 \in S,
         \A i \in S : i < M => NextHeader(i) \in S /\ NextHeader(i) > i,
         \A i \in S : i = 0 \/ \E j \in S : j < i /\ NextHeader(j) = i
  PROVE  Chain = S
<1>1. /\ Chain \subseteq S /\ 0 \in Chain
      /\ \A i \in Chain : NextHeader(i) \in Chain
  BY ChainWithin
<1> SUFFICES ASSUME S \ Chain # {}
             PROVE  FALSE
  BY <1>1
<1>2. PICK i \in S \ Chain : \A j \in S \ Chain : i <= j
  BY LeastNatural
<1>3. PICK j \in S : j < i /\ NextHeader(j) = i
  BY <1>1
<1>4. i \in Nat /\ j \in Nat /\ ~(i <= j)
  BY <1>3
<1> QED
  BY <1>1, <1>2, <1>3, <1>4

-----------------------------------------------------------------------------
(* Words and sums *)

\* What a header says.
LEMMA HeaderWords ==
  \A n \in Nat : /\ 2 * n \in Nat /\ SizeOf(2 * n) = n /\ ~Used(2 * n)
                 /\ 2 * n + 1 \in Nat /\ SizeOf(2 * n + 1) = n /\ Used(2 * n + 1)
BY DEF SizeOf, Used

\* The least and the greatest number of a set, once they are known.
LEMMA MinIs ==
  ASSUME NEW S, NEW m \in S, S \subseteq Int, \A x \in S : m <= x
  PROVE  Min(S) = m
<1>1. \A k \in S : (\A x \in S : k <= x) => k = m
  OBVIOUS
<1> QED
  BY <1>1 DEF Min

LEMMA MaxIs ==
  ASSUME NEW S, NEW m \in S, S \subseteq Int, \A x \in S : m >= x
  PROVE  Max(S) = m
<1>1. \A k \in S : (\A x \in S : k >= x) => k = m
  OBVIOUS
<1> QED
  BY <1>1 DEF Max

\* The words that the lists of some threads take, headers included.
Words(threads) == UNION {{t} \X (0..Size[t]) : t \in threads}
WordsOf(t) == {t} \X (0..Size[t])

LEMMA WordsFinite ==
  ASSUME NEW threads \in SUBSET Threads
  PROVE  /\ IsFiniteSet(Words(threads))
         /\ Cardinality(Words(threads)) \in Nat
<1>1. IsFiniteSet(threads)
  BY ClientAssumption, FS_Subset
<1>2. IsFiniteSet(0..M)
  BY SizeAssumption, FS_Interval
<1>3. IsFiniteSet(threads \X (0..M))
  BY <1>1, <1>2, FS_Product
<1>4. \A t \in threads : 0..Size[t] \subseteq 0..M
  BY ClientAssumption, SizeAssumption
<1>5. Words(threads) \subseteq threads \X (0..M)
  BY <1>4 DEF Words
<1>6. IsFiniteSet(Words(threads))
  BY <1>3, <1>5, FS_Subset
<1> QED
  BY <1>6, FS_CardinalityType

\* One more list takes the words it asked for, and the one of its header.
LEMMA OneMoreList ==
  ASSUME NEW threads \in SUBSET Threads, NEW t \in Threads, t \notin threads
  PROVE  Cardinality(Words(threads \cup {t})) = Cardinality(Words(threads)) + Size[t] + 1
<1>1. IsFiniteSet({t}) /\ Cardinality({t}) = 1
  BY FS_Singleton
<1>2. Size[t] \in Nat /\ IsFiniteSet(0..Size[t]) /\ Cardinality(0..Size[t]) = Size[t] + 1
  BY ClientAssumption, SizeAssumption, FS_Interval
<1>3. IsFiniteSet(WordsOf(t)) /\ Cardinality(WordsOf(t)) = 1 * (Size[t] + 1)
  BY <1>1, <1>2, FS_Product DEF WordsOf
<1>4. Words(threads \cup {t}) = Words(threads) \cup WordsOf(t)
  BY DEF Words, WordsOf
<1>5. Words(threads) \cap WordsOf(t) = {}
  BY DEF Words, WordsOf
<1>6. IsFiniteSet(Words(threads)) /\ Cardinality(Words(threads)) \in Nat
  BY WordsFinite
<1>7. Cardinality(Words(threads) \cap WordsOf(t)) = 0
  BY <1>5, FS_EmptySet
<1>8. Cardinality(Words(threads) \cup WordsOf(t)) =
        Cardinality(Words(threads)) + Cardinality(WordsOf(t))
        - Cardinality(Words(threads) \cap WordsOf(t))
  BY <1>3, <1>6, FS_Union
<1>9. Cardinality(WordsOf(t)) = Size[t] + 1
  BY <1>2, <1>3
<1>10. ASSUME NEW words \in Nat, NEW new, NEW both, NEW all, new = Size[t] + 1, both = 0,
              all = words + new - both
       PROVE  all = words + Size[t] + 1
  BY <1>2, <1>10
<1> QED
  BY <1>4, <1>6, <1>7, <1>8, <1>9, <1>10

\* Without a list nothing is taken.
LEMMA NoList ==
  Cardinality(Words({})) = 0
<1>1. Words({}) = {}
  BY DEF Words
<1> QED
  BY <1>1, FS_EmptySet

-----------------------------------------------------------------------------
(* The lists lie one after another from address 0, and one free segment holds *)
(* the rest *)

\* The types, but for lifo, which is looked at with the steps that set it.
Types ==
  /\ mem \in [Addresses -> Nat]
  /\ pc \in [Threads -> {"idle", "partitioned", "live", "spin", "exited", "undefined"}]
  /\ start \in [Threads -> 0..M] /\ size \in [Threads -> 0..M]
  /\ filled \in BOOLEAN

Over(t) == start[t] + Size[t] + 1

\* A list, its header, and what is before and after it.
Stacked(t) ==
  /\ Over(t) <= Taken
  /\ mem[start[t]] = 2 * (Size[t] + 1) + 1
  /\ start[t] = 0 \/ \E u \in Allocated : Over(u) = start[t]
  /\ Over(t) = Taken \/ \E u \in Allocated : start[u] = Over(t)

Apart == \A t, u \in Allocated : t # u => Over(t) <= start[u] \/ Over(u) <= start[t]

\* The rest of the memory, and the word that follows it.
Rest ==
  /\ Taken <= M
  /\ Taken = 0 \/ \E u \in Allocated : Over(u) = Taken
  /\ Taken < M => mem[Taken] = 2 * (M - Taken)
  /\ mem[M] \in PastEnd

Sizes ==
  /\ Running /\ ~filled
  /\ \A t \in Threads : size[t] = IF pc[t] = "live" THEN Size[t] + 1 ELSE 0

StackInv ==
  /\ Types
  /\ \A t \in Allocated : Stacked(t)
  /\ Apart
  /\ Rest
  /\ Sizes

\* What the headers are in such a memory.
Headers == {start[t] : t \in Allocated} \cup {Taken, M}

\* The types that follow from those of the variables.
LEMMA Numbers ==
  ASSUME Types
  PROVE  /\ Allocated \subseteq Threads /\ Taken \in Nat /\ M \in Nat /\ M # 0
         /\ \A t \in Threads : start[t] \in Nat /\ Size[t] \in Nat /\ Size[t] # 0
                               /\ Over(t) \in Nat /\ start[t] < Over(t)
<1>1. Allocated \subseteq Threads
  BY DEF Allocated
<1>2. Taken = Cardinality(Words(Allocated))
  BY DEF Taken, Words
<1>3. Taken \in Nat
  BY <1>1, <1>2, WordsFinite
<1> QED
  BY <1>1, <1>3, SizeAssumption, ClientAssumption DEF Types, Over

\* The first list is at 0, or there is none.
LEMMA FirstAtZero ==
  ASSUME StackInv
  PROVE  0 \in Headers
<1>1. CASE Taken = 0
  BY <1>1 DEF Headers
<1>2. CASE Taken # 0
  <2> DEFINE S == {start[t] : t \in Allocated}
  <2>1. S \subseteq Nat /\ S # {}
    BY <1>2, Numbers DEF StackInv, Rest
  <2>2. PICK i \in S : \A j \in S : i <= j
    <3> HIDE DEF S
    <3> QED
      BY <2>1, LeastNatural
  <2>3. PICK t \in Allocated : i = start[t]
    BY <2>2
  <2>4. ASSUME NEW u \in Allocated, Over(u) = start[t]
        PROVE  FALSE
    <3>1. start[u] \in Nat /\ start[t] \in Nat /\ start[u] < start[t]
      BY <2>4, Numbers DEF StackInv
    <3>2. start[t] <= start[u]
      BY <2>2, <2>3
    <3> QED
      BY <3>1, <3>2
  <2>5. start[t] = 0
    BY <2>4 DEF StackInv, Stacked
  <2> QED
    BY <2>5 DEF Headers
<1> QED
  BY <1>1, <1>2

\* The walk over the headers meets those, and no other word.
LEMMA ChainIsHeaders ==
  ASSUME StackInv
  PROVE  Chain = Headers
<1>1. mem \in [Addresses -> Nat] /\ Headers \in SUBSET Nat /\ 0 \in Headers
  BY Numbers, FirstAtZero DEF StackInv, Types, Headers
<1>2. ASSUME NEW t \in Allocated
      PROVE  NextHeader(start[t]) = Over(t) /\ start[t] < M /\ Over(t) \in Headers
  <2>1. t \in Threads /\ start[t] \in Nat /\ Over(t) \in Nat /\ Size[t] \in Nat
        /\ start[t] < Over(t) /\ Taken \in Nat /\ M \in Nat
    BY Numbers DEF StackInv
  <2>2. Over(t) <= Taken /\ Taken <= M /\ mem[start[t]] = 2 * (Size[t] + 1) + 1
    BY DEF StackInv, Stacked, Rest
  <2>3. start[t] < M
    BY <2>1, <2>2
  <2>4. Size[t] + 1 \in Nat
    BY <2>1
  <2>5. SizeOf(mem[start[t]]) = Size[t] + 1
    BY <2>2, <2>4, HeaderWords
  <2>6. NextHeader(start[t]) = Over(t)
    BY <2>1, <2>3, <2>5 DEF NextHeader, Over
  <2>7. Over(t) \in Headers
    BY DEF StackInv, Stacked, Headers
  <2> QED
    BY <2>3, <2>6, <2>7
<1>3. Taken < M => NextHeader(Taken) = M
  <2> SUFFICES ASSUME Taken < M
               PROVE  NextHeader(Taken) = M
    OBVIOUS
  <2>1. Taken \in Nat /\ M \in Nat
    BY Numbers DEF StackInv
  <2>2. M - Taken \in Nat /\ mem[Taken] = 2 * (M - Taken)
    BY <2>1 DEF StackInv, Rest
  <2>3. SizeOf(mem[Taken]) = M - Taken
    BY <2>2, HeaderWords
  <2> QED
    BY <2>1, <2>3 DEF NextHeader
<1>4. ASSUME NEW i \in Headers, i < M
      PROVE  NextHeader(i) \in Headers /\ NextHeader(i) > i
  <2>1. CASE i = Taken
    BY <1>3, <1>4, <2>1, Numbers DEF StackInv, Headers
  <2>2. ASSUME NEW t \in Allocated, i = start[t]
        PROVE  NextHeader(i) \in Headers /\ NextHeader(i) > i
    BY <1>2, <2>2, Numbers DEF StackInv
  <2>3. i # M
    BY <1>4, Numbers DEF StackInv
  <2> QED
    BY <2>1, <2>2, <2>3 DEF Headers
<1>5. ASSUME NEW u \in Allocated
      PROVE  start[u] \in Headers /\ start[u] < Over(u) /\ NextHeader(start[u]) = Over(u)
  BY <1>2, Numbers DEF StackInv, Headers
<1>6. ASSUME NEW i \in Headers
      PROVE  i = 0 \/ \E j \in Headers : j < i /\ NextHeader(j) = i
  <2>1. ASSUME NEW t \in Allocated, i = start[t]
        PROVE  i = 0 \/ \E j \in Headers : j < i /\ NextHeader(j) = i
    BY <1>5, <2>1 DEF StackInv, Stacked
  <2>2. CASE i = Taken
    BY <1>5, <2>2 DEF StackInv, Rest
  <2>3. CASE i = M /\ Taken # M
    <3>1. Taken < M
      BY <2>3, Numbers DEF StackInv, Rest
    <3> QED
      BY <1>3, <2>3, <3>1 DEF Headers
  <2> QED
    BY <2>1, <2>2, <2>3 DEF Headers
<1> HIDE DEF Headers
<1> QED
  BY <1>1, <1>4, <1>6, ChainIs

\* The first fit is the rest, if it is large enough.
LEMMA FitIsRest ==
  ASSUME StackInv, NEW n \in Nat, n # 0, Taken + n <= M
  PROVE  FirstFit(n) = Taken /\ ~Searching(Taken, n) /\ SizeOf(mem[Taken]) = M - Taken
<1>1. Taken \in Nat /\ M \in Nat /\ Taken < M
  BY Numbers DEF StackInv
<1>2. mem[Taken] = 2 * (M - Taken) /\ M - Taken \in Nat
  BY <1>1 DEF StackInv, Rest
<1>3. SizeOf(mem[Taken]) = M - Taken /\ ~Used(mem[Taken])
  BY <1>2, HeaderWords
<1>4. ~Searching(Taken, n)
  BY <1>1, <1>3 DEF Searching
<1>5. ASSUME NEW t \in Allocated
      PROVE  Searching(start[t], n) /\ start[t] < M /\ start[t] \in Nat
  <2>1. start[t] \in Nat /\ Size[t] + 1 \in Nat /\ Over(t) \in Nat /\ start[t] < Over(t)
    BY Numbers DEF StackInv
  <2>2. Over(t) <= Taken /\ mem[start[t]] = 2 * (Size[t] + 1) + 1
    BY DEF StackInv, Stacked
  <2>3. Used(mem[start[t]])
    BY <2>1, <2>2, HeaderWords
  <2> QED
    BY <1>1, <2>1, <2>2, <2>3 DEF Searching
<1>6. Chain \subseteq Int /\ M \in Chain /\ \A i \in Chain : M >= i
  BY <1>1, <1>5, ChainIsHeaders DEF Headers
<1>7. Max(Chain) = M
  BY <1>6, MaxIs
<1>8. {i \in Chain : ~Searching(i, n)} \cup {Max(Chain)} = {Taken, M}
  BY <1>1, <1>4, <1>5, <1>7, ChainIsHeaders DEF Headers, Searching
<1>9. Min({Taken, M}) = Taken
  <2> DEFINE S == {Taken, M}
  <2>1. Taken \in S /\ S \subseteq Int /\ \A x \in S : Taken <= x
    BY <1>1
  <2> HIDE DEF S
  <2>2. Min(S) = Taken
    BY <2>1, MinIs
  <2> QED
    BY <2>2 DEF S
<1> QED
  BY <1>3, <1>4, <1>8, <1>9 DEF FirstFit

-----------------------------------------------------------------------------
(* The steps keep the lists stacked *)

\* The words past the end: 0, or a word of the C heap whose lowest bit is set.
NothingPastEnd == \A w \in PastEnd : Used(w) \/ SizeOf(w) = 0

LEMMA Starts ==
  Init => StackInv
<1> SUFFICES ASSUME Init
             PROVE  StackInv
  OBVIOUS
<1>1. M \in Nat /\ M # 0 /\ 0 \in Inside /\ M \in Addresses /\ M \notin Inside
  BY SizeAssumption DEF Inside, Addresses
<1>2. PICK w \in PastEnd : mem = [a \in Addresses |->
        IF a = 0 THEN 2 * M ELSE IF a \in Inside THEN 0 ELSE w]
  BY DEF Init, CreateMem
<1>3. w \in Nat /\ 2 * M \in Nat /\ 0 \in Nat /\ 0 \in Addresses
  BY <1>1, SizeAssumption DEF Addresses
<1>4. mem \in [Addresses -> Nat]
  BY <1>2, <1>3
<1>5. mem[0] = 2 * M /\ mem[M] = w
  BY <1>1, <1>2, <1>3
<1>6. Allocated = {}
  BY DEF Init, Allocated
<1>7. Taken = 0
  BY <1>6, NoList DEF Taken, Words
<1>8. Types
  <2>1. filled \in BOOLEAN
    BY Zenon DEF Init
  <2> QED
    BY <1>1, <1>4, <2>1 DEF Init, Types
<1>9. Rest
  BY <1>1, <1>5, <1>7 DEF Rest
<1>10. Sizes
  BY DEF Init, Sizes, Running
<1> QED
  BY <1>6, <1>8, <1>9, <1>10 DEF StackInv, Apart

\* A new list goes on top of the others.
LEMMA PartitionStacks ==
  ASSUME StackInv, NEW t \in Threads, Fits(t), Partition(t)
  PROVE  StackInv'
<1> DEFINE n == Size[t] + 1
<1>1. /\ Allocated \subseteq Threads /\ Taken \in Nat /\ M \in Nat /\ M # 0
      /\ \A u \in Threads : start[u] \in Nat /\ Size[u] \in Nat /\ Size[u] # 0
                            /\ Over(u) \in Nat /\ start[u] < Over(u)
  BY Numbers DEF StackInv
<1>2. n \in Nat /\ n # 0 /\ Taken + n <= M /\ pc[t] = "idle"
  BY <1>1 DEF Partition, Fits
<1>3. FirstFit(n) = Taken /\ ~Searching(Taken, n) /\ SizeOf(mem[Taken]) = M - Taken
  BY <1>2, FitIsRest
<1>4. /\ mem' = Split(Taken, n) /\ start' = [start EXCEPT ![t] = Taken]
      /\ pc' = [pc EXCEPT ![t] = "partitioned"] /\ size' = size /\ filled' = filled
  <2>1. Taken < M
    BY <1>1, <1>2
  <2>2. Take(t, Taken, n)
    <3>1. ~(Taken >= M \/ Searching(Taken, n))
      BY <1>1, <1>3, <2>1
    <3> QED
      BY <1>3, <3>1 DEF Partition
  <2>3. ~(Taken + n < M /\ SizeOf(mem[Taken]) = n)
    BY <1>1, <1>2, <1>3
  <2> QED
    BY <2>2, <2>3 DEF Take, StackInv, Types
<1>5. /\ Taken \in Addresses /\ Taken + n \in Addresses /\ Taken # Taken + n
      /\ M \in Addresses /\ Taken # M
  BY <1>1, <1>2 DEF Addresses
<1>6. mem \in [Addresses -> Nat] /\ pc \in [Threads -> {"idle", "partitioned", "live", "spin", "exited", "undefined"}]
      /\ start \in [Threads -> 0..M] /\ size \in [Threads -> 0..M]
  BY DEF StackInv, Types
<1>7. /\ mem' \in [Addresses -> Nat]
      /\ mem'[Taken] = 2 * n + 1
      /\ Taken + n < M => mem'[Taken + n] = 2 * (M - (Taken + n))
      /\ Taken + n = M => mem'[Taken + n] = mem[Taken + n]
      /\ \A a \in Addresses : a # Taken /\ a # Taken + n => mem'[a] = mem[a]
  <2> DEFINE rest == IF Taken + n < M THEN 2 * (M - Taken - n) ELSE mem[Taken + n]
  <2>1. mem' = [mem EXCEPT ![Taken] = 2 * n + 1, ![Taken + n] = rest]
    BY <1>3, <1>4, <1>5, <1>6 DEF Split
  <2>2. rest \in Nat /\ 2 * n + 1 \in Nat
    BY <1>1, <1>2, <1>5, <1>6
  <2>3. /\ Taken + n < M => rest = 2 * (M - (Taken + n))
        /\ Taken + n = M => rest = mem[Taken + n]
    BY <1>1, <1>2
  <2> HIDE DEF rest, n
  <2>4. mem' \in [Addresses -> Nat]
    BY <1>6, <2>1, <2>2
  <2>5. mem'[Taken] = 2 * n + 1 /\ mem'[Taken + n] = rest
    BY <1>5, <1>6, <2>1
  <2>6. \A a \in Addresses : a # Taken /\ a # Taken + n => mem'[a] = mem[a]
    BY <1>5, <1>6, <2>1
  <2> QED
    BY <2>3, <2>4, <2>5, <2>6
<1>8. Allocated' = Allocated \cup {t} /\ t \notin Allocated
  BY <1>2, <1>4, <1>6 DEF Allocated
<1>9. Taken' = Taken + n
  <2>1. Taken = Cardinality(Words(Allocated)) /\ Taken' = Cardinality(Words(Allocated'))
    BY DEF Taken, Words
  <2>2. Cardinality(Words(Allocated \cup {t})) = Cardinality(Words(Allocated)) + Size[t] + 1
    BY <1>1, <1>8, OneMoreList
  <2>3. Taken' = Taken + Size[t] + 1
    BY <1>8, <2>1, <2>2
  <2> QED
    BY <1>1, <2>3
<1>10. /\ start'[t] = Taken /\ Over(t)' = Taken + n
       /\ \A u \in Allocated : u # t /\ start'[u] = start[u] /\ Over(u)' = Over(u)
  BY <1>1, <1>4, <1>6, <1>8 DEF Over
<1>11. \A u \in Allocated : Over(u) <= Taken /\ start[u] < Taken
  BY <1>1 DEF StackInv, Stacked
<1>12. Types'
  <2>1. Taken \in 0..M
    BY <1>1, <1>2
  <2>2. filled' \in BOOLEAN
    BY <1>4, Zenon DEF StackInv, Types
  <2> QED
    BY <1>4, <1>6, <1>7, <2>1, <2>2 DEF Types
<1>13. ASSUME NEW u \in Allocated'
       PROVE  Stacked(u)'
  <2>1. CASE u = t
    <3>1. Over(t)' <= Taken' /\ Over(t)' = Taken'
      BY <1>1, <1>2, <1>9, <1>10
    <3>2. mem'[start'[t]] = 2 * (Size[t] + 1) + 1
      BY <1>7, <1>10
    <3>3. start'[t] = 0 \/ \E v \in Allocated' : Over(v)' = start'[t]
      <4>1. Taken = 0 \/ \E v \in Allocated : Over(v) = Taken
        BY DEF StackInv, Rest
      <4> QED
        BY <1>8, <1>10, <4>1
    <3> QED
      BY <2>1, <3>1, <3>2, <3>3 DEF Stacked
  <2>2. CASE u \in Allocated
    <3>1. Over(u)' <= Taken'
      BY <1>1, <1>2, <1>9, <1>10, <1>11, <2>2
    <3>2. start[u] \in Addresses /\ start[u] # Taken /\ start[u] # Taken + n
      BY <1>1, <1>2, <1>11, <2>2 DEF Addresses
    <3>3. mem'[start'[u]] = 2 * (Size[u] + 1) + 1
      BY <1>7, <1>10, <2>2, <3>2 DEF StackInv, Stacked
    <3>4. start'[u] = 0 \/ \E v \in Allocated' : Over(v)' = start'[u]
      <4>1. start[u] = 0 \/ \E v \in Allocated : Over(v) = start[u]
        BY <2>2 DEF StackInv, Stacked
      <4> QED
        BY <1>8, <1>10, <2>2, <4>1
    <3>5. \E v \in Allocated' : start'[v] = Over(u)'
      <4>1. Over(u) = Taken \/ \E v \in Allocated : start[v] = Over(u)
        BY <2>2 DEF StackInv, Stacked
      <4> QED
        BY <1>8, <1>10, <2>2, <4>1
    <3> QED
      BY <3>1, <3>3, <3>4, <3>5 DEF Stacked
  <2> QED
    BY <1>8, <2>1, <2>2
<1>14. Apart'
  <2>1. \A u, v \in Allocated : u # v => Over(u)' <= start'[v] \/ Over(v)' <= start'[u]
    BY <1>10 DEF StackInv, Apart
  <2>2. \A u \in Allocated : Over(u)' <= start'[t]
    BY <1>10, <1>11
  <2> QED
    BY <1>8, <2>1, <2>2 DEF Apart
<1>15. Rest'
  <2>1. Taken' <= M /\ \E u \in Allocated' : Over(u)' = Taken'
    BY <1>2, <1>8, <1>9, <1>10
  <2>2. Taken' < M => mem'[Taken'] = 2 * (M - Taken')
    BY <1>7, <1>9
  <2>3. mem'[M] = mem[M]
    <3>1. CASE Taken + n = M
      BY <1>7, <3>1
    <3>2. CASE Taken + n # M
      BY <1>5, <1>7, <3>2
    <3> QED
      BY <3>1, <3>2
  <2> QED
    BY <2>1, <2>2, <2>3 DEF Rest, StackInv
<1>16. Sizes'
  BY <1>2, <1>4, <1>6 DEF StackInv, Sizes, Running
<1> QED
  BY <1>12, <1>13, <1>14, <1>15, <1>16 DEF StackInv

\* The lists that stay where they are stay stacked.
LEMMA SameStack ==
  ASSUME StackInv, Types', Sizes', start' = start, Allocated' = Allocated,
         \A i \in Headers : mem'[i] = mem[i]
  PROVE  StackInv'
<1>1. Taken' = Taken /\ \A t : Over(t)' = Over(t)
  BY DEF Taken, Over
<1>2. /\ mem'[M] = mem[M] /\ mem'[Taken] = mem[Taken]
      /\ \A t \in Allocated : mem'[start[t]] = mem[start[t]]
  BY DEF Headers
<1>3. \A t \in Allocated : Stacked(t)'
  BY <1>1, <1>2 DEF StackInv, Stacked
<1>4. Apart'
  BY <1>1 DEF StackInv, Apart
<1>5. Rest'
  BY <1>1, <1>2 DEF StackInv, Rest
<1> QED
  BY <1>3, <1>4, <1>5 DEF StackInv

\* The size that is read back from the header is the one asked for.
LEMMA EnterListStacks ==
  ASSUME StackInv, NEW t \in Threads, EnterList(t)
  PROVE  StackInv'
<1>1. /\ pc \in [Threads -> {"idle", "partitioned", "live", "spin", "exited", "undefined"}]
      /\ size \in [Threads -> 0..M] /\ pc[t] = "partitioned"
      /\ size' = [size EXCEPT ![t] = SizeOf(mem[start[t]])]
      /\ pc' = [pc EXCEPT ![t] = "live"] /\ mem' = mem /\ start' = start
      /\ filled' = filled
  BY DEF StackInv, Types, EnterList
<1>2. t \in Allocated /\ Size[t] + 1 \in Nat /\ M \in Nat
  BY <1>1, Numbers DEF StackInv, Allocated
<1>3. SizeOf(mem[start[t]]) = Size[t] + 1
  BY <1>2, HeaderWords DEF StackInv, Stacked
<1>4. Size[t] + 1 \in 0..M
  BY ClientAssumption, SizeAssumption
<1>5. Types'
  BY <1>1, <1>3, <1>4 DEF StackInv, Types
<1>6. Allocated' = Allocated
  BY <1>1 DEF Allocated
<1>7. Sizes'
  BY <1>1, <1>3 DEF StackInv, Sizes, Running
<1> QED
  BY <1>1, <1>5, <1>6, <1>7, SameStack

\* No word of a list is a header.
LEMMA AssignValStacks ==
  ASSUME StackInv, NEW t \in Threads, AssignVal(t)
  PROVE  StackInv'
<1>1. PICK a \in (start[t] + 1)..(start[t] + Size[t]) : mem' = [mem EXCEPT ![a] = DataWord]
  BY DEF AssignVal
<1>2. mem \in [Addresses -> Nat] /\ pc' = pc /\ start' = start /\ size' = size /\ t \in Allocated
      /\ filled' = filled
  BY DEF StackInv, Types, AssignVal, Allocated
<1>3. /\ Allocated \subseteq Threads /\ Taken \in Nat /\ M \in Nat
      /\ \A u \in Threads : start[u] \in Nat /\ Size[u] \in Nat /\ Over(u) \in Nat
                            /\ start[u] < Over(u)
  BY Numbers DEF StackInv
<1>4. a \in Nat /\ start[t] < a /\ a < Over(t) /\ Over(t) <= Taken /\ Taken <= M
  BY <1>1, <1>2, <1>3 DEF StackInv, Stacked, Rest, Over
<1>5. DataWord \in Nat
  BY <1>3 DEF DataWord
<1>6. Types'
  BY <1>1, <1>2, <1>5 DEF StackInv, Types
<1>7. Allocated' = Allocated /\ Sizes'
  BY <1>2 DEF Allocated, StackInv, Sizes, Running
<1>8. a # Taken /\ a # M
  BY <1>3, <1>4, <1>2
<1>9. ASSUME NEW u \in Allocated
      PROVE  a # start[u]
  <2>1. u = t \/ Over(u) <= start[t] \/ Over(t) <= start[u]
    BY <1>2 DEF StackInv, Apart
  <2> QED
    BY <1>2, <1>3, <1>4, <2>1
<1>10. Headers \subseteq Addresses
  <2>1. \A u \in Allocated : start[u] \in 0..M
    BY <1>3 DEF StackInv, Types
  <2>2. Taken \in Addresses /\ M \in Addresses /\ 0..M \subseteq Addresses
    BY <1>3, <1>4 DEF Addresses
  <2> QED
    BY <2>1, <2>2 DEF Headers
<1>11. \A i \in Headers : mem'[i] = mem[i]
  <2>1. \A i \in Headers : i # a
    BY <1>8, <1>9 DEF Headers
  <2> QED
    BY <1>1, <1>2, <1>10, <2>1
<1> QED
  BY <1>2, <1>6, <1>7, <1>11, SameStack

\* The last list is freed, and what it took is part of the rest.
LEMMA FreeElemStacks ==
  ASSUME NothingPastEnd, StackInv, NEW t \in Threads, LastInMemory(t), FreeElem(t)
  PROVE  StackInv'
<1>1. /\ Allocated \subseteq Threads /\ Taken \in Nat /\ M \in Nat /\ M # 0
      /\ \A u \in Threads : start[u] \in Nat /\ Size[u] \in Nat /\ Size[u] # 0
                            /\ Over(u) \in Nat /\ start[u] < Over(u)
  BY Numbers DEF StackInv
<1>2. /\ mem \in [Addresses -> Nat] /\ start \in [Threads -> 0..M] /\ size \in [Threads -> 0..M]
      /\ pc \in [Threads -> {"idle", "partitioned", "live", "spin", "exited", "undefined"}]
      /\ pc[t] = "live" /\ t \in Allocated
      /\ \A u \in Allocated : start[u] <= start[t]
      /\ mem' = Released(mem, start[t], size[t])
      /\ pc' = [pc EXCEPT ![t] = "idle"]
      /\ start' = [start EXCEPT ![t] = 0] /\ size' = [size EXCEPT ![t] = 0]
      /\ filled' = filled
  BY DEF StackInv, Types, FreeElem, Allocated, LastInMemory
<1>3. size[t] = Size[t] + 1 /\ start[t] + size[t] = Over(t)
  BY <1>1, <1>2 DEF StackInv, Sizes, Over
<1>4. Over(t) = Taken
  <2>1. \A u \in Allocated : start[u] # Over(t)
    BY <1>1, <1>2
  <2> QED
    BY <1>2, <2>1 DEF StackInv, Stacked
<1>5. Taken <= M /\ start[t] < M
  BY <1>1, <1>2, <1>4 DEF StackInv, Rest
<1>6. (IF Used(mem[Taken]) THEN size[t] ELSE size[t] + SizeOf(mem[Taken])) = M - start[t]
  <2>1. CASE Taken < M
    <3>1. M - Taken \in Nat /\ mem[Taken] = 2 * (M - Taken)
      BY <1>1, <2>1 DEF StackInv, Rest
    <3>2. ~Used(mem[Taken]) /\ SizeOf(mem[Taken]) = M - Taken
      BY <3>1, HeaderWords
    <3>3. size[t] + (M - Taken) = M - start[t]
      BY <1>1, <1>3, <1>4 DEF Over
    <3> QED
      BY <3>2, <3>3
  <2>2. CASE Taken = M
    <3>1. size[t] = M - start[t] /\ size[t] + 0 = M - start[t]
      BY <1>1, <1>3, <1>4, <2>2 DEF Over
    <3>2. Used(mem[Taken]) \/ SizeOf(mem[Taken]) = 0
      BY <2>2 DEF StackInv, Rest, NothingPastEnd
    <3> QED
      BY <3>1, <3>2
  <2> QED
    BY <1>1, <1>5, <2>1, <2>2
<1>7. mem' = [mem EXCEPT ![start[t]] = 2 * (M - start[t])]
  <2>1. start[t] + size[t] = Taken
    BY <1>3, <1>4
  <2>2. mem' = [mem EXCEPT ![start[t]] =
                  2 * (IF Used(mem[Taken]) THEN size[t] ELSE size[t] + SizeOf(mem[Taken]))]
    BY <1>2, <2>1, Zenon DEF Released
  <2> QED
    BY <1>6, <2>2, Zenon
<1>8. start[t] \in Addresses /\ M \in Addresses /\ 2 * (M - start[t]) \in Nat
  BY <1>1, <1>5 DEF Addresses
<1>9. /\ mem' \in [Addresses -> Nat] /\ mem'[start[t]] = 2 * (M - start[t])
      /\ \A a \in Addresses : a # start[t] => mem'[a] = mem[a]
  BY <1>2, <1>7, <1>8
<1>10. Allocated' = Allocated \ {t}
  BY <1>2 DEF Allocated
<1>11. Taken' = start[t]
  <2>1. Taken = Cardinality(Words(Allocated)) /\ Taken' = Cardinality(Words(Allocated'))
    BY DEF Taken, Words
  <2>2. t \notin Allocated' /\ Allocated' \subseteq Threads /\ Allocated = Allocated' \cup {t}
    BY <1>1, <1>2, <1>10
  <2>3. Cardinality(Words(Allocated' \cup {t})) = Cardinality(Words(Allocated')) + Size[t] + 1
    <3> DEFINE A == Allocated'
    <3>1. A \in SUBSET Threads /\ t \notin A
      BY <2>2
    <3> HIDE DEF A
    <3>2. Cardinality(Words(A \cup {t})) = Cardinality(Words(A)) + Size[t] + 1
      BY <3>1, OneMoreList
    <3> QED
      BY <3>2 DEF A
  <2>4. Cardinality(Words(Allocated')) \in Nat
    <3> DEFINE A == Allocated'
    <3>1. A \in SUBSET Threads
      BY <2>2
    <3> HIDE DEF A
    <3>2. Cardinality(Words(A)) \in Nat
      BY <3>1, WordsFinite
    <3> QED
      BY <3>2 DEF A
  <2>5. Taken = Taken' + Size[t] + 1 /\ Taken' \in Nat
    BY <2>1, <2>2, <2>3, <2>4
  <2> QED
    BY <1>1, <1>4, <2>5 DEF Over
<1>12. \A u \in Allocated' : u \in Allocated /\ u # t /\ start'[u] = start[u] /\ Over(u)' = Over(u)
  BY <1>1, <1>2, <1>10 DEF Over
<1>13. \A u \in Allocated' : Over(u) <= start[t]
  <2>1. \A u \in Allocated' : Over(u) <= start[t] \/ Over(t) <= start[u]
    BY <1>2, <1>12 DEF StackInv, Apart
  <2> QED
    BY <1>1, <1>2, <1>12, <2>1
<1>14. Types'
  <2>1. 0 \in 0..M
    BY <1>1
  <2>2. filled' \in BOOLEAN
    BY <1>2, Zenon DEF StackInv, Types
  <2> QED
    BY <1>2, <1>9, <2>1, <2>2 DEF Types
<1>15. ASSUME NEW u \in Allocated'
       PROVE  Stacked(u)'
  <2>1. u \in Allocated /\ start'[u] = start[u] /\ Over(u)' = Over(u) /\ u \in Threads
    BY <1>1, <1>12
  <2>2. start[u] < start[t] /\ start[u] \in Addresses /\ Over(u) <= start[t]
    BY <1>1, <1>5, <1>13, <2>1 DEF Addresses
  <2>3. Over(u)' <= Taken'
    BY <1>11, <2>1, <2>2
  <2>4. mem'[start'[u]] = 2 * (Size[u] + 1) + 1
    BY <1>1, <1>9, <2>1, <2>2 DEF StackInv, Stacked
  <2>5. start'[u] = 0 \/ \E v \in Allocated' : Over(v)' = start'[u]
    <3>1. start[u] = 0 \/ \E v \in Allocated : Over(v) = start[u]
      BY <2>1 DEF StackInv, Stacked
    <3>2. Over(t) # start[u]
      BY <1>1, <2>1, <2>2
    <3> QED
      BY <1>10, <1>12, <2>1, <3>1, <3>2
  <2>6. Over(u)' = Taken' \/ \E v \in Allocated' : start'[v] = Over(u)'
    <3>1. Over(u) # Taken
      BY <1>1, <1>4, <2>1, <2>2
    <3>2. PICK v \in Allocated : start[v] = Over(u)
      BY <2>1, <3>1 DEF StackInv, Stacked
    <3>3. CASE v = t
      BY <1>11, <2>1, <3>2, <3>3
    <3>4. CASE v # t
      BY <1>10, <1>12, <2>1, <3>2, <3>4
    <3> QED
      BY <3>3, <3>4
  <2> QED
    BY <2>3, <2>4, <2>5, <2>6 DEF Stacked
<1>16. Apart'
  BY <1>12 DEF StackInv, Apart
<1>17. Rest'
  <2>1. Taken' = 0 \/ \E u \in Allocated' : Over(u)' = Taken'
    <3>1. start[t] = 0 \/ \E u \in Allocated : Over(u) = start[t]
      BY <1>2 DEF StackInv, Stacked
    <3>2. Over(t) # start[t]
      BY <1>1
    <3> QED
      BY <1>10, <1>11, <1>12, <3>1, <3>2
  <2>2. Taken' <= M /\ mem'[Taken'] = 2 * (M - Taken')
    BY <1>1, <1>5, <1>9, <1>11
  <2>3. mem'[M] = mem[M]
    BY <1>1, <1>5, <1>8, <1>9
  <2> QED
    BY <2>1, <2>2, <2>3 DEF Rest, StackInv
<1>18. Sizes'
  BY <1>2 DEF StackInv, Sizes, Running
<1> QED
  BY <1>14, <1>15, <1>16, <1>17, <1>18 DEF StackInv

\* While lifo, a thread asks for what fits and frees the last list first.
LifoStep(t) ==
  \/ Fits(t) /\ Partition(t)
  \/ EnterList(t)
  \/ AssignVal(t)
  \/ LastInMemory(t) /\ FreeElem(t)

LEMMA LifoSteps ==
  ASSUME [Next]_vars, lifo'
  PROVE  lifo /\ (UNCHANGED vars \/ \E t \in Threads : LifoStep(t))
<1>1. ASSUME NEW t \in Threads, Partition(t)
      PROVE  lifo /\ LifoStep(t)
  <2>1. lifo' = (lifo /\ Fits(t))
    BY <1>1 DEF Partition
  <2> QED
    BY <1>1, <2>1, Zenon DEF LifoStep
<1>2. ASSUME NEW t \in Threads, EnterList(t) \/ AssignVal(t)
      PROVE  lifo /\ LifoStep(t)
  <2>1. lifo' = lifo
    BY <1>2 DEF EnterList, AssignVal
  <2> QED
    BY <1>2, <2>1, Zenon DEF LifoStep
<1>3. ASSUME NEW t \in Threads, FreeElem(t)
      PROVE  lifo /\ LifoStep(t)
  <2>1. lifo' = (lifo /\ LastInMemory(t))
    BY <1>3 DEF FreeElem
  <2> QED
    BY <1>3, <2>1, Zenon DEF LifoStep
<1>4. CASE UNCHANGED vars
  <2>1. lifo' = lifo
    BY <1>4 DEF vars
  <2> QED
    BY <1>4, <2>1, Zenon
<1> QED
  BY <1>1, <1>2, <1>3, <1>4, Zenon DEF Next

LEMMA Stays ==
  ASSUME NothingPastEnd, StackInv, UNCHANGED vars \/ \E t \in Threads : LifoStep(t)
  PROVE  StackInv'
<1>1. ASSUME NEW t \in Threads, LifoStep(t)
      PROVE  StackInv'
  BY <1>1, PartitionStacks, EnterListStacks, AssignValStacks, FreeElemStacks DEF LifoStep
<1>2. CASE UNCHANGED vars
  <2>1. mem' = mem /\ pc' = pc /\ start' = start /\ size' = size /\ filled' = filled
    BY <1>2 DEF vars
  <2>2. Allocated' = Allocated /\ Types' /\ Sizes'
    BY <2>1 DEF Allocated, StackInv, Types, Sizes, Running
  <2> QED
    BY <2>1, <2>2, SameStack
<1> QED
  BY <1>1, <1>2

-----------------------------------------------------------------------------
(* What the clients of Assignment 6 get *)

\* A memory of stacked lists, or of none, is what these clients rely on.
LEMMA StackServes ==
  StackInv => LifoClientsServed
<1> SUFFICES ASSUME StackInv
             PROVE  LifoClientsServed
  OBVIOUS
<1>1. Running /\ ~filled
  BY DEF StackInv, Sizes
<1>2. Allocated = {} => mem[0] = 2 * M
  <2>1. Allocated = {} => Taken = 0
    BY NoList DEF Taken, Words
  <2> QED
    BY <2>1, Numbers DEF StackInv, Rest
<1> QED
  BY <1>1, <1>2 DEF LifoClientsServed

\* The lists stay stacked for as long as lifo holds.
LEMMA Stack ==
  ASSUME NothingPastEnd
  PROVE  Spec => [](lifo => StackInv)
<1>1. Init => (lifo => StackInv)
  BY Starts
<1>2. (lifo => StackInv) /\ [Next]_vars => (lifo => StackInv)'
  BY LifoSteps, Stays
<1> QED
  BY <1>1, <1>2, PTL DEF Spec

\* While the clients ask for what fits and free the last list first, no search fails or
\* goes on for ever, no hole is filled, and with the last list all the memory is one
\* segment again.
THEOREM LifoCorrect ==
  ASSUME NothingPastEnd
  PROVE  Spec => []LifoClientsServed
<1>1. (lifo => StackInv) => LifoClientsServed
  BY StackServes DEF LifoClientsServed
<1> QED
  BY <1>1, Stack, PTL

-----------------------------------------------------------------------------
(* The headers, in whatever order lists come and go: a set from which the walk never *)
(* leads out, though an exact fit may have left it a header of 0 to stop at          *)

\* A walk does not leave a set that it leads to from each of its members.
LEMMA ChainInside ==
  ASSUME mem \in [Addresses -> Nat], NEW S \in SUBSET Nat, 0 \in S,
         \A i \in S : i < M => NextHeader(i) \in S
  PROVE  Chain \subseteq S /\ 0 \in Chain
<1>1. PICK met \in [0..M -> SUBSET Nat] :
        Chain = met[M] /\ \A k \in 0..M : met[k] = After(met, k)
  BY ChainWalk
<1>2. M \in Nat /\ M \in 0..M
  BY SizeAssumption
<1>3. \A i \in S : NextHeader(i) \in S
  BY DEF NextHeader
<1> DEFINE Out == {k \in 0..M : ~(met[k] \subseteq S)}
<1>4. Out = {}
  <2> SUFFICES ASSUME Out # {}
               PROVE  FALSE
    OBVIOUS
  <2>1. PICK k \in Out : \A j \in Out : k <= j
    <3>1. Out \subseteq Nat
      OBVIOUS
    <3> HIDE DEF Out
    <3> QED
      BY <3>1, LeastNatural
  <2>2. k # 0
    BY <1>1, <2>1 DEF After
  <2>3. k - 1 \in 0..M /\ ~(k <= k - 1)
    BY <1>2, <2>1, <2>2
  <2>4. met[k - 1] \subseteq S
    BY <2>1, <2>3
  <2> QED
    BY <1>1, <1>3, <2>1, <2>2, <2>4 DEF After
<1> QED
  BY <1>1, <1>2, <1>4 DEF After

\* A set of addresses that is not empty has a greatest one.
LEMMA GreatestAddress ==
  ASSUME NEW S \in SUBSET (0..M), S # {}
  PROVE  \E x \in S : \A y \in S : x >= y
<1> DEFINE Left == {M - x : x \in S}
<1>1. Left \subseteq Nat /\ Left # {}
  <2>1. \A x \in S : M - x \in Nat
    BY SizeAssumption
  <2> QED
    BY <2>1
<1>2. PICK l \in Left : \A k \in Left : l <= k
  <2> HIDE DEF Left
  <2> QED
    BY <1>1, LeastNatural
<1>3. PICK x \in S : l = M - x
  BY <1>2
<1>4. ASSUME NEW y \in S
      PROVE  x >= y
  <2>1. M - x <= M - y
    BY <1>2, <1>3
  <2> QED
    BY <1>3, <2>1, SizeAssumption
<1> QED
  BY <1>4

\* The search ends where the walk comes by.
LEMMA FitIsMet ==
  ASSUME NEW n \in Nat, Chain \subseteq 0..M, Chain # {}
  PROVE  FirstFit(n) \in Chain
<1>1. PICK m \in Chain : \A y \in Chain : m >= y
  BY GreatestAddress
<1>2. Max(Chain) = m
  <2>1. Chain \subseteq Int
    BY SizeAssumption
  <2> QED
    BY <1>1, <2>1, MaxIs
<1> DEFINE S == {i \in Chain : ~Searching(i, n)} \cup {Max(Chain)}
<1>3. S \subseteq Chain /\ S # {}
  BY <1>1, <1>2
<1>4. FirstFit(n) = Min(S)
  BY DEF FirstFit
<1> HIDE DEF S
<1>5. PICK l \in S : \A y \in S : l <= y
  <2>1. 0..M \subseteq Nat
    BY SizeAssumption
  <2>2. S \subseteq Nat
    BY <1>3, <2>1
  <2> QED
    BY <1>3, <2>2, LeastNatural
<1>6. Min(S) = l
  <2>1. 0..M \subseteq Int
    BY SizeAssumption
  <2>2. S \subseteq Int
    BY <1>3, <2>1
  <2> QED
    BY <1>5, <2>2, MinIs
<1> QED
  BY <1>3, <1>4, <1>5, <1>6

Follows(H, a, b) == b \in H /\ a < b /\ \A c \in H : c <= a \/ b <= c

\* Every header leads to the next one, or is 0; a used one is that of a list.
HeadersLead(H) ==
  /\ 0 \in H /\ M \in H
  /\ \A a \in H \ {M} : mem[a] = 0 \/ Follows(H, a, a + SizeOf(mem[a]))
  /\ \A a \in H \ {M} : Used(mem[a]) => \E t \in Allocated : start[t] = a
  /\ mem[M] \in PastEnd
  /\ ~filled => \A a \in H \ {M} : mem[a] # 0

\* Every list has a header of its own, and no other one before its end; if that is not
\* its size any more it is 0, and what was read back from it may be.
ListsHeld(H) ==
  /\ \A t \in Allocated : /\ start[t] \in H /\ Follows(H, start[t], Over(t))
                          /\ mem[start[t]] = 2 * (Size[t] + 1) + 1 \/ mem[start[t]] = 0
  /\ \A t, u \in Allocated : start[t] = start[u] => t = u
  /\ \A t \in Threads : \/ size[t] = 0 /\ (pc[t] = "live" => mem[start[t]] = 0)
                        \/ pc[t] = "live" /\ size[t] = Size[t] + 1

HeapInv == Types /\ \E H \in SUBSET (0..M) : HeadersLead(H) /\ ListsHeld(H)

\* The numbers that a list takes.
LEMMA ListNumbers ==
  ASSUME Types
  PROVE  /\ M \in Nat /\ M # 0 /\ 0..M \subseteq Addresses /\ Allocated \subseteq Threads
         /\ \A t \in Threads : /\ start[t] \in 0..M /\ Size[t] \in Nat /\ Size[t] # 0
                               /\ Over(t) = start[t] + Size[t] + 1 /\ Over(t) \in Nat
BY SizeAssumption, ClientAssumption DEF Types, Over, Allocated, Addresses

\* The walk stays among the headers.
LEMMA ChainInHeaders ==
  ASSUME Types, NEW H \in SUBSET (0..M), HeadersLead(H)
  PROVE  Chain \subseteq H /\ 0 \in Chain
<1>1. mem \in [Addresses -> Nat] /\ H \in SUBSET Nat /\ M \in Nat
  BY SizeAssumption DEF Types
<1>2. ASSUME NEW i \in H, i < M
      PROVE  NextHeader(i) \in H
  <2>1. CASE mem[i] = 0
    <3>1. SizeOf(mem[i]) = 0
      BY <2>1 DEF SizeOf
    <3> QED
      BY <1>1, <1>2, <3>1 DEF NextHeader
  <2>2. CASE Follows(H, i, i + SizeOf(mem[i]))
    BY <1>2, <2>2 DEF Follows, NextHeader
  <2> QED
    BY <1>1, <1>2, <2>1, <2>2 DEF HeadersLead
<1> QED
  BY <1>1, <1>2, ChainInside DEF HeadersLead

LEMMA HeapStarts ==
  Init => HeapInv
<1> SUFFICES ASSUME Init
             PROVE  HeapInv
  OBVIOUS
<1>1. StackInv
  BY Starts
<1>2. M \in Nat /\ M # 0 /\ Allocated = {} /\ Types
  BY <1>1, SizeAssumption DEF StackInv, Init, Allocated
<1>3. Taken = 0
  BY <1>2, NoList DEF Taken, Words
<1>4. mem[0] = 2 * M /\ mem[M] \in PastEnd
  BY <1>1, <1>2, <1>3 DEF StackInv, Rest
<1>5. mem[0] # 0 /\ SizeOf(mem[0]) = M /\ ~Used(mem[0])
  BY <1>2, <1>4, HeaderWords
<1>6. HeadersLead({0, M})
  BY <1>2, <1>4, <1>5 DEF HeadersLead, Follows
<1>7. ListsHeld({0, M})
  BY <1>2 DEF ListsHeld, Init
<1>8. {0, M} \in SUBSET (0..M)
  BY <1>2
<1> QED
  BY <1>2, <1>6, <1>7, <1>8 DEF HeapInv

\* A header more where a list is made, or one set to 0.
LEMMA TakeLeads ==
  ASSUME Types, NEW H \in SUBSET (0..M), HeadersLead(H), ListsHeld(H),
         NEW t \in Threads, pc[t] = "idle", NEW i \in H, i < M,
         ~Searching(i, Size[t] + 1), Take(t, i, Size[t] + 1)
  PROVE  HeapInv'
<1> DEFINE n == Size[t] + 1
           e == i + SizeOf(mem[i])
           K == H \cup {i + n}
<1>1. /\ M \in Nat /\ M # 0 /\ 0..M \subseteq Addresses /\ Allocated \subseteq Threads
      /\ \A u \in Threads : /\ start[u] \in 0..M /\ Size[u] \in Nat /\ Size[u] # 0
                            /\ Over(u) = start[u] + Size[u] + 1 /\ Over(u) \in Nat
  BY ListNumbers
<1>2. /\ mem \in [Addresses -> Nat] /\ start \in [Threads -> 0..M] /\ size \in [Threads -> 0..M]
      /\ pc \in [Threads -> {"idle", "partitioned", "live", "spin", "exited", "undefined"}]
      /\ filled \in BOOLEAN
  BY DEF Types
<1>3. /\ mem' = Split(i, n) /\ start' = [start EXCEPT ![t] = i] /\ size' = size
      /\ pc' = [pc EXCEPT ![t] = "partitioned"]
      /\ filled' = (filled \/ (i + n < M /\ SizeOf(mem[i]) = n))
  BY DEF Take
<1>4. n \in Nat /\ n > 1 /\ i \in Nat /\ i \in Addresses
  <2>1. Size[t] \in Nat /\ Size[t] # 0
    BY <1>1
  <2>2. i \in 0..M
    OBVIOUS
  <2> QED
    BY <1>1, <2>1, <2>2
<1>5. ~Used(mem[i]) /\ SizeOf(mem[i]) \in Nat /\ n <= SizeOf(mem[i])
  <2>1. mem[i] \in Nat
    BY <1>2, <1>4
  <2>2. SizeOf(mem[i]) \in Nat
    BY <2>1 DEF SizeOf
  <2> QED
    BY <1>4, <2>2 DEF Searching
<1>6. e \in Nat /\ Follows(H, i, e) /\ mem[i] # 0
  <2>1. mem[i] # 0
    BY <1>4, <1>5 DEF SizeOf
  <2> QED
    BY <1>4, <1>5, <2>1 DEF HeadersLead
<1>7. i + n <= e /\ e \in H /\ e <= M /\ i + n \in 0..M /\ i + n \in Addresses /\ i # i + n
  BY <1>1, <1>4, <1>5, <1>6 DEF Follows
<1>8. \A a \in H : a <= i \/ e <= a
  BY <1>6 DEF Follows
<1> DEFINE rest == IF i + n < M THEN 2 * (SizeOf(mem[i]) - n) ELSE mem[i + n]
<1>9. /\ mem' \in [Addresses -> Nat]
      /\ mem'[i] = 2 * n + 1 /\ mem'[i + n] = rest
      /\ \A a \in Addresses : a # i /\ a # i + n => mem'[a] = mem[a]
  <2>1. mem' = [mem EXCEPT ![i] = 2 * n + 1, ![i + n] = rest]
    BY <1>2, <1>3, <1>7 DEF Split
  <2>2. rest \in Nat /\ 2 * n + 1 \in Nat
    BY <1>2, <1>4, <1>5, <1>7
  <2> HIDE DEF rest, n
  <2> QED
    BY <1>2, <1>4, <1>7, <2>1, <2>2
<1>10. /\ Allocated' = Allocated \cup {t} /\ t \notin Allocated
       /\ \A u \in Allocated : /\ u \in Threads /\ u # t /\ start'[u] = start[u]
                               /\ Over(u)' = Over(u)
       /\ start'[t] = i /\ Over(t)' = i + n
  BY <1>1, <1>2, <1>3, <1>4 DEF Allocated, Over
<1>11. ASSUME NEW u \in Allocated
       PROVE  start[u] # i /\ start[u] \in H /\ start[u] < M /\ Follows(H, start[u], Over(u))
  <2>1. /\ start[u] \in H /\ Follows(H, start[u], Over(u))
        /\ mem[start[u]] = 2 * (Size[u] + 1) + 1 \/ mem[start[u]] = 0
    BY DEF ListsHeld
  <2>2. Used(2 * (Size[u] + 1) + 1)
    <3>1. Size[u] + 1 \in Nat
      BY <1>1
    <3> QED
      BY <3>1, HeaderWords
  <2>3. start[u] < M
    BY <1>1, <2>1 DEF Follows
  <2> QED
    BY <1>5, <1>6, <2>1, <2>2, <2>3
<1>12. K \in SUBSET (0..M) /\ \A a \in K : a <= i \/ a = i + n \/ e <= a
  BY <1>7, <1>8
\* What leads from one header to the next still does.
<1>13. ASSUME NEW a \in H, a # i, NEW b, Follows(H, a, b)
       PROVE  Follows(K, a, b)
  <2>1. b \in H /\ a < b /\ \A c \in H : c <= a \/ b <= c
    BY <1>13 DEF Follows
  <2>2. i <= a \/ b <= i
    BY <2>1
  <2>3. i + n <= a \/ b <= i + n
    <3>1. a \in Nat /\ b \in Nat /\ i \in Nat /\ n \in Nat /\ e \in Nat
      BY <1>1, <1>4, <1>6, <2>1
    <3>2. CASE b <= i
      BY <3>1, <3>2
    <3>3. CASE i <= a
      <4>1. e <= a
        BY <1>8, <1>13, <3>1, <3>3
      <4> QED
        BY <1>7, <3>1, <4>1
    <3> QED
      BY <2>2, <3>2, <3>3
  <2> QED
    BY <2>1, <2>3 DEF Follows
<1>14. Follows(K, i, i + n)
  BY <1>1, <1>4, <1>7, <1>12 DEF Follows
<1>15. i + n < M => ~Used(mem'[i + n]) /\ SizeOf(mem'[i + n]) = SizeOf(mem[i]) - n
  <2>1. SizeOf(mem[i]) - n \in Nat
    BY <1>4, <1>5
  <2> QED
    BY <1>9, <2>1, HeaderWords
<1>16. Used(mem'[i]) /\ SizeOf(mem'[i]) = n /\ mem'[i] # 0
  BY <1>4, <1>9, HeaderWords
<1>17. HeadersLead(K)'
  <2>1. 0 \in K /\ M \in K
    BY DEF HeadersLead
  <2>2. ASSUME NEW a \in K \ {M}
        PROVE  /\ mem'[a] = 0 \/ Follows(K, a, a + SizeOf(mem'[a]))
               /\ Used(mem'[a]) => \E u \in Allocated' : start'[u] = a
               /\ ~filled' => mem'[a] # 0
    <3>1. CASE a = i
      BY <1>10, <1>14, <1>16, <3>1
    <3>2. CASE a = i + n
      <4>1. i + n < M
        BY <1>1, <1>7, <2>2, <3>2
      <4>2. CASE i + n = e
        <5>1. SizeOf(mem[i]) = n /\ mem'[a] = 0
          BY <1>4, <1>5, <1>9, <3>2, <4>1, <4>2
        <5> QED
          BY <1>3, <1>15, <3>2, <4>1, <5>1
      <4>3. CASE i + n # e
        <5>1. i + n < e /\ a + SizeOf(mem'[a]) = e
          BY <1>4, <1>5, <1>7, <1>15, <3>2, <4>1, <4>3
        <5>2. Follows(K, a, e)
          BY <1>4, <1>7, <1>12, <3>2, <5>1 DEF Follows
        <5>3. mem'[a] # 0
          BY <1>4, <1>5, <1>7, <1>9, <3>2, <4>1, <5>1
        <5> QED
          BY <1>15, <3>2, <4>1, <5>1, <5>2, <5>3
      <4> QED
        BY <4>2, <4>3
    <3>3. CASE a # i /\ a # i + n
      <4>1. a \in H \ {M} /\ a \in Addresses /\ mem'[a] = mem[a]
        BY <1>1, <1>9, <2>2, <3>3
      <4>2. mem[a] = 0 \/ Follows(H, a, a + SizeOf(mem[a]))
        BY <4>1 DEF HeadersLead
      <4>3. Used(mem[a]) => \E u \in Allocated' : start'[u] = a
        BY <1>10, <4>1 DEF HeadersLead
      <4>4. ~filled' => mem[a] # 0
        BY <1>3, <4>1 DEF HeadersLead
      <4> QED
        BY <1>13, <3>3, <4>1, <4>2, <4>3, <4>4
    <3> QED
      BY <3>1, <3>2, <3>3
  <2>3. mem'[M] = mem[M]
    <3>1. i # M /\ M \in Addresses
      BY <1>1
    <3>2. CASE i + n = M
      <4>1. ~(i + n < M)
        BY <1>1, <3>2
      <4> QED
        BY <1>9, <3>2, <4>1
    <3>3. CASE i + n # M
      BY <1>9, <3>1, <3>3
    <3> QED
      BY <3>2, <3>3
  <2>4. mem'[M] \in PastEnd
    BY <2>3 DEF HeadersLead
  <2> HIDE DEF K
  <2> QED
    BY <2>1, <2>2, <2>4 DEF HeadersLead
<1>18. ListsHeld(K)'
  <2>1. ASSUME NEW u \in Allocated'
        PROVE  /\ start'[u] \in K /\ Follows(K, start'[u], Over(u)')
               /\ mem'[start'[u]] = 2 * (Size[u] + 1) + 1 \/ mem'[start'[u]] = 0
    <3>1. CASE u = t
      BY <1>9, <1>10, <1>14, <3>1
    <3>2. CASE u \in Allocated
      <4>1. /\ start'[u] = start[u] /\ Over(u)' = Over(u) /\ start[u] \in H /\ start[u] # i
            /\ start[u] \in Addresses /\ start[u] < M /\ Follows(H, start[u], Over(u))
        BY <1>1, <1>10, <1>11, <3>2
      <4>2. mem[start[u]] = 2 * (Size[u] + 1) + 1 \/ mem[start[u]] = 0
        BY <3>2 DEF ListsHeld
      <4>3. CASE start[u] = i + n
        <5>1. start[u] = e
          <6>1. ~(i + n <= i)
            BY <1>4
          <6>2. e <= start[u]
            BY <1>8, <4>1, <4>3, <6>1
          <6> QED
            BY <1>4, <1>6, <1>7, <4>3, <6>2
        <5>2. mem'[start[u]] = 0
          BY <1>4, <1>5, <1>9, <4>1, <4>3, <5>1
        <5> QED
          BY <1>13, <4>1, <5>2
      <4>4. CASE start[u] # i + n
        BY <1>9, <1>13, <4>1, <4>2, <4>4
      <4> QED
        BY <4>3, <4>4
    <3> QED
      BY <1>10, <3>1, <3>2
  <2>2. ASSUME NEW u \in Allocated', NEW v \in Allocated', start'[u] = start'[v]
        PROVE  u = v
    BY <1>10, <1>11, <2>2 DEF ListsHeld
  <2>3. ASSUME NEW u \in Threads
        PROVE  \/ size'[u] = 0 /\ (pc'[u] = "live" => mem'[start'[u]] = 0)
               \/ pc'[u] = "live" /\ size'[u] = Size[u] + 1
    <3>1. CASE u = t
      BY <1>2, <1>3, <3>1 DEF ListsHeld
    <3>2. CASE u # t
      <4>1. pc'[u] = pc[u] /\ size'[u] = size[u] /\ start'[u] = start[u]
        BY <1>2, <1>3, <3>2
      <4>2. CASE pc[u] = "live" /\ mem[start[u]] = 0
        <5>1. u \in Allocated
          BY <4>2 DEF Allocated
        <5>2. start[u] # i /\ start[u] \in Addresses /\ start[u] < M
          BY <1>1, <1>11, <5>1
        <5>3. mem'[start[u]] = 0
          <6>1. CASE start[u] = i + n
            <7>1. start[u] = e
              <8>1. ~(i + n <= i)
                BY <1>4
              <8>2. e <= start[u]
                BY <1>8, <1>11, <5>1, <6>1, <8>1
              <8> QED
                BY <1>4, <1>6, <1>7, <6>1, <8>2
            <7> QED
              BY <1>4, <1>5, <1>9, <5>2, <6>1, <7>1
          <6>2. CASE start[u] # i + n
            BY <1>9, <4>2, <5>2, <6>2
          <6> QED
            BY <6>1, <6>2
        <5> QED
          BY <4>1, <4>2, <5>3 DEF ListsHeld
      <4>3. CASE ~(pc[u] = "live" /\ mem[start[u]] = 0)
        BY <4>1, <4>3 DEF ListsHeld
      <4> QED
        BY <4>2, <4>3
    <3> QED
      BY <3>1, <3>2
  <2> HIDE DEF K
  <2> QED
    BY <2>1, <2>2, <2>3 DEF ListsHeld
<1>19. Types'
  <2>1. filled' \in BOOLEAN
    BY <1>3
  <2> QED
    BY <1>2, <1>3, <1>9, <2>1 DEF Types
<1> QED
  BY <1>12, <1>17, <1>18, <1>19 DEF HeapInv


LEMMA PartitionLeads ==
  ASSUME HeapInv, NEW t \in Threads, Partition(t)
  PROVE  HeapInv'
<1> DEFINE n == Size[t] + 1
           i == FirstFit(n)
<1>1. PICK H \in SUBSET (0..M) : HeadersLead(H) /\ ListsHeld(H)
  BY DEF HeapInv
<1>2. Types /\ pc[t] = "idle"
  BY DEF HeapInv, Partition
<1>3. CASE i < M /\ ~Searching(i, n) /\ Take(t, i, n)
  <2>1. Chain \subseteq H /\ 0 \in Chain /\ n \in Nat
    BY <1>1, <1>2, ChainInHeaders, ListNumbers
  <2>2. i \in Chain
    BY <2>1, FitIsMet
  <2>3. i \in H
    BY <2>1, <2>2
  <2> HIDE DEF i
  <2> QED
    BY <1>1, <1>2, <1>3, <2>3, TakeLeads
<1>4. CASE /\ pc' = [pc EXCEPT ![t] = CASE i > M -> "exited"
                                       [] i = M -> "undefined"
                                       [] OTHER -> "spin"]
           /\ UNCHANGED <<mem, start, size, filled>>
  <2> HIDE DEF i
  <2>1. /\ pc \in [Threads -> {"idle", "partitioned", "live", "spin", "exited", "undefined"}]
        /\ mem' = mem /\ start' = start /\ size' = size /\ filled' = filled
    BY <1>2, <1>4 DEF Types
  <2> DEFINE end == CASE i > M -> "exited" [] i = M -> "undefined" [] OTHER -> "spin"
  <2>2. PICK stop \in {"exited", "undefined", "spin"} : pc' = [pc EXCEPT ![t] = stop]
    <3>1. end \in {"exited", "undefined", "spin"}
      OBVIOUS
    <3>2. pc' = [pc EXCEPT ![t] = end]
      BY <1>4
    <3> HIDE DEF end
    <3> QED
      BY <3>1, <3>2
  <2>3. Allocated' = Allocated /\ \A u \in Threads : pc'[u] = "live" <=> pc[u] = "live"
    BY <1>2, <2>1, <2>2 DEF Allocated
  <2>4. pc' \in [Threads -> {"idle", "partitioned", "live", "spin", "exited", "undefined"}]
    BY <2>1, <2>2
  <2>5. Types'
    BY <1>2, <2>1, <2>4 DEF Types
  <2>6. HeadersLead(H)'
    BY <1>1, <2>1, <2>3 DEF HeadersLead
  <2>7. ListsHeld(H)'
    BY <1>1, <2>1, <2>3 DEF ListsHeld, Over
  <2> QED
    BY <2>5, <2>6, <2>7 DEF HeapInv
<1> QED
  BY <1>3, <1>4 DEF Partition

\* What is read back is the size asked for, or 0.
LEMMA EnterListLeads ==
  ASSUME HeapInv, NEW t \in Threads, EnterList(t)
  PROVE  HeapInv'
<1>1. PICK H \in SUBSET (0..M) : HeadersLead(H) /\ ListsHeld(H)
  BY DEF HeapInv
<1>2. /\ pc \in [Threads -> {"idle", "partitioned", "live", "spin", "exited", "undefined"}]
      /\ size \in [Threads -> 0..M] /\ Types /\ pc[t] = "partitioned" /\ t \in Allocated
      /\ size' = [size EXCEPT ![t] = SizeOf(mem[start[t]])]
      /\ pc' = [pc EXCEPT ![t] = "live"]
      /\ mem' = mem /\ start' = start /\ filled' = filled
  BY DEF HeapInv, Types, EnterList, Allocated
<1>3. Size[t] + 1 \in Nat /\ Size[t] + 1 \in 0..M /\ 0 \in 0..M
  BY ClientAssumption, SizeAssumption
<1>4. \/ SizeOf(mem[start[t]]) = Size[t] + 1
      \/ SizeOf(mem[start[t]]) = 0 /\ mem[start[t]] = 0
  <2>1. mem[start[t]] = 2 * (Size[t] + 1) + 1 \/ mem[start[t]] = 0
    BY <1>1, <1>2 DEF ListsHeld
  <2>2. SizeOf(0) = 0
    BY DEF SizeOf
  <2> QED
    BY <1>3, <2>1, <2>2, HeaderWords
<1>5. Allocated' = Allocated
  BY <1>2 DEF Allocated
<1>6. Types'
  BY <1>2, <1>3, <1>4 DEF Types
<1>7. HeadersLead(H)'
  BY <1>1, <1>2, <1>5 DEF HeadersLead
<1>8. ASSUME NEW u \in Threads
      PROVE  \/ size'[u] = 0 /\ (pc'[u] = "live" => mem'[start'[u]] = 0)
             \/ pc'[u] = "live" /\ size'[u] = Size[u] + 1
  BY <1>1, <1>2, <1>4 DEF ListsHeld
<1>9. ListsHeld(H)'
  BY <1>1, <1>2, <1>5, <1>8 DEF ListsHeld, Over
<1> QED
  BY <1>6, <1>7, <1>9 DEF HeapInv

\* No word of a list is a header.
LEMMA AssignValLeads ==
  ASSUME HeapInv, NEW t \in Threads, AssignVal(t)
  PROVE  HeapInv'
<1>1. PICK H \in SUBSET (0..M) : HeadersLead(H) /\ ListsHeld(H)
  BY DEF HeapInv
<1>2. PICK a \in (start[t] + 1)..(start[t] + Size[t]) : mem' = [mem EXCEPT ![a] = DataWord]
  BY DEF AssignVal
<1>3. /\ mem \in [Addresses -> Nat] /\ Types /\ t \in Allocated
      /\ pc' = pc /\ start' = start /\ size' = size /\ filled' = filled
  BY DEF HeapInv, Types, AssignVal, Allocated
<1>4. /\ M \in Nat /\ 0..M \subseteq Addresses /\ Allocated \subseteq Threads
      /\ start[t] \in 0..M /\ Size[t] \in Nat /\ Over(t) = start[t] + Size[t] + 1
  BY <1>3, ListNumbers
<1>5. \A c \in H : c <= start[t] \/ Over(t) <= c
  BY <1>1, <1>3 DEF ListsHeld, Follows
<1>6. a \notin H
  <2>1. a \in Nat /\ ~(a <= start[t]) /\ ~(Over(t) <= a)
    BY <1>2, <1>4
  <2> QED
    BY <1>5, <2>1
<1>7. \A c \in H : mem'[c] = mem[c]
  BY <1>2, <1>3, <1>4, <1>6
<1>8. DataWord \in Nat
  BY <1>4 DEF DataWord
<1>9. Types'
  BY <1>2, <1>3, <1>8 DEF Types
<1>10. Allocated' = Allocated
  BY <1>3 DEF Allocated
<1>11. M \in H
  BY <1>1 DEF HeadersLead
<1>12. HeadersLead(H)'
  BY <1>1, <1>3, <1>7, <1>10, <1>11 DEF HeadersLead
<1>13. \A u \in Threads : pc[u] = "live" => mem'[start[u]] = mem[start[u]]
  BY <1>1, <1>7 DEF ListsHeld, Allocated
<1>14. ListsHeld(H)'
  BY <1>1, <1>3, <1>7, <1>10, <1>13 DEF ListsHeld, Over
<1> QED
  BY <1>9, <1>12, <1>14 DEF HeapInv

\* The segment that is given back takes over the next one, if that is free: one header
\* less, or none if the list had lost its own or its neighbour has.
LEMMA FreeElemLeads ==
  ASSUME NothingPastEnd, HeapInv, NEW t \in Threads, FreeElem(t)
  PROVE  HeapInv'
<1>1. PICK H \in SUBSET (0..M) : HeadersLead(H) /\ ListsHeld(H)
  BY DEF HeapInv
<1>2. /\ mem \in [Addresses -> Nat] /\ start \in [Threads -> 0..M] /\ size \in [Threads -> 0..M]
      /\ pc \in [Threads -> {"idle", "partitioned", "live", "spin", "exited", "undefined"}]
      /\ filled \in BOOLEAN
      /\ Types /\ pc[t] = "live" /\ t \in Allocated
      /\ mem' = Released(mem, start[t], size[t])
      /\ pc' = [pc EXCEPT ![t] = "idle"]
      /\ start' = [start EXCEPT ![t] = 0] /\ size' = [size EXCEPT ![t] = 0]
      /\ filled' = filled
  BY DEF HeapInv, Types, FreeElem, Allocated
<1>3. /\ M \in Nat /\ M # 0 /\ 0..M \subseteq Addresses /\ Allocated \subseteq Threads
      /\ \A u \in Threads : /\ start[u] \in 0..M /\ Size[u] \in Nat /\ Size[u] # 0
                            /\ Over(u) = start[u] + Size[u] + 1 /\ Over(u) \in Nat
  BY <1>2, ListNumbers
<1> DEFINE s == start[t]
           o == Over(t)
<1>4. /\ s \in H /\ s \in Nat /\ s \in Addresses /\ Follows(H, s, o) /\ s < M
      /\ o \in H /\ o \in Nat /\ o \in Addresses /\ o <= M /\ s < o
      /\ \A c \in H : c <= s \/ o <= c
  <2>1. s \in H /\ Follows(H, s, o)
    BY <1>1, <1>2 DEF ListsHeld
  <2>2. o \in H /\ s < o /\ \A c \in H : c <= s \/ o <= c
    BY <2>1 DEF Follows
  <2>3. s \in 0..M /\ o \in 0..M
    BY <2>1, <2>2
  <2>4. s \in Nat /\ o \in Nat /\ o <= M /\ s < M /\ s \in Addresses /\ o \in Addresses
    <3> HIDE DEF s, o
    <3> QED
      BY <1>3, <2>2, <2>3
  <2> QED
    BY <2>1, <2>2, <2>4
<1>5. Allocated' = Allocated \ {t}
  BY <1>2 DEF Allocated
<1>6. \A u \in Allocated' : /\ u \in Allocated /\ u # t /\ u \in Threads
                            /\ start'[u] = start[u] /\ Over(u)' = Over(u)
                            /\ start[u] \in H /\ start[u] # s
  BY <1>1, <1>2, <1>3, <1>5 DEF Over, ListsHeld
\* Whatever header is removed, the lists that stay have theirs.
<1>7. ASSUME NEW K \in SUBSET H, s \in K, M \in K, 0 \in K,
             \A c \in H : c = o \/ c \in K,
             o \in K \/ (~Used(mem[o]) /\ mem[o] # 0),
             NEW b, mem' = [mem EXCEPT ![s] = 2 * b], b \in Nat,
             b = 0 \/ Follows(K, s, s + b),
             b = 0 => mem[s] = 0
      PROVE  HeapInv'
  <2>1. /\ mem' \in [Addresses -> Nat] /\ mem'[s] = 2 * b
        /\ \A a \in Addresses : a # s => mem'[a] = mem[a]
    <3>1. 2 * b \in Nat
      BY <1>7
    <3> HIDE DEF s
    <3> QED
      BY <1>2, <1>4, <1>7, <3>1
  <2>2. ~Used(mem'[s]) /\ SizeOf(mem'[s]) = b
    BY <1>7, <2>1, HeaderWords
  <2>3. ASSUME NEW a \in H, a # s, NEW c, Follows(H, a, c), c # o
        PROVE  Follows(K, a, c)
    BY <1>7, <2>3 DEF Follows
  <2>4. ASSUME NEW a \in H, a # s, NEW c, Follows(H, a, c)
        PROVE  c # o
    <3>1. a \in Nat /\ c \in H /\ a < c /\ \A d \in H : d <= a \/ c <= d
      BY <1>3, <2>4 DEF Follows
    <3> HIDE DEF s, o
    <3>2. s <= a \/ c <= s
      BY <1>4, <3>1
    <3>3. a <= s \/ o <= a
      BY <1>4
    <3> QED
      BY <1>4, <2>4, <3>1, <3>2, <3>3
  <2>5. ASSUME NEW a \in K \ {M}
        PROVE  /\ mem'[a] = 0 \/ Follows(K, a, a + SizeOf(mem'[a]))
               /\ Used(mem'[a]) => \E u \in Allocated' : start'[u] = a
               /\ ~filled' => mem'[a] # 0
    <3>1. CASE a = s
      <4>1. mem'[a] = 0 \/ Follows(K, a, a + SizeOf(mem'[a]))
        <5>1. b = 0 => mem'[a] = 0
          BY <2>1, <3>1
        <5> QED
          BY <1>7, <2>2, <3>1, <5>1
      <4>2. ~filled' => mem'[a] # 0
        <5>1. s \in H \ {M}
          BY <1>4
        <5>2. ~filled => mem[s] # 0
          BY <1>1, <5>1 DEF HeadersLead
        <5>3. mem[s] # 0 => b # 0
          BY <1>7
        <5>4. b # 0 => mem'[s] # 0
          BY <1>7, <2>1
        <5> QED
          BY <1>2, <3>1, <5>2, <5>3, <5>4
      <4> QED
        BY <2>2, <3>1, <4>1, <4>2
    <3>2. CASE a # s
      <4>1. a \in H \ {M} /\ a \in Addresses /\ mem'[a] = mem[a]
        BY <1>3, <2>1, <3>2
      <4>2. mem[a] = 0 \/ Follows(K, a, a + SizeOf(mem[a]))
        BY <1>1, <2>3, <2>4, <3>2, <4>1 DEF HeadersLead
      <4>3. ASSUME Used(mem[a])
            PROVE  \E u \in Allocated' : start'[u] = a
        <5>1. PICK u \in Allocated : start[u] = a
          BY <1>1, <4>1, <4>3 DEF HeadersLead
        <5>2. u \in Allocated'
          BY <1>5, <3>2, <5>1
        <5> QED
          BY <1>6, <5>1, <5>2
      <4>4. ~filled' => mem[a] # 0
        BY <1>1, <1>2, <4>1 DEF HeadersLead
      <4> QED
        BY <4>1, <4>2, <4>3, <4>4
    <3> QED
      BY <3>1, <3>2
  <2>6. mem'[M] \in PastEnd
    <3>1. M \in Addresses /\ M # s
      BY <1>3, <1>4
    <3> QED
      BY <1>1, <2>1, <3>1 DEF HeadersLead
  <2>7. HeadersLead(K)'
    BY <1>7, <2>5, <2>6 DEF HeadersLead
  <2>8. ASSUME NEW u \in Allocated'
        PROVE  /\ start'[u] \in K /\ Follows(K, start'[u], Over(u)')
               /\ mem'[start'[u]] = 2 * (Size[u] + 1) + 1 \/ mem'[start'[u]] = 0
               /\ mem'[start'[u]] = mem[start[u]]
    <3>1. /\ Follows(H, start[u], Over(u))
          /\ mem[start[u]] = 2 * (Size[u] + 1) + 1 \/ mem[start[u]] = 0
      BY <1>1, <1>6 DEF ListsHeld
    <3>2. Used(2 * (Size[u] + 1) + 1)
      <4>1. Size[u] + 1 \in Nat
        BY <1>3, <1>6
      <4> QED
        BY <4>1, HeaderWords
    <3>3. start[u] \in K
      BY <1>6, <1>7, <3>1, <3>2
    <3>4. Follows(K, start[u], Over(u))
      BY <1>6, <2>3, <2>4, <3>1
    <3>5. mem'[start[u]] = mem[start[u]]
      BY <1>3, <1>6, <2>1
    <3> QED
      BY <1>6, <3>1, <3>3, <3>4, <3>5
  <2>9. \A u, v \in Allocated' : start'[u] = start'[v] => u = v
    BY <1>1, <1>6 DEF ListsHeld
  <2>10. ASSUME NEW u \in Threads
         PROVE  \/ size'[u] = 0 /\ (pc'[u] = "live" => mem'[start'[u]] = 0)
                \/ pc'[u] = "live" /\ size'[u] = Size[u] + 1
    <3>1. CASE u = t
      BY <1>2, <3>1
    <3>2. CASE u # t /\ pc[u] = "live"
      <4>1. u \in Allocated'
        BY <1>5, <3>2 DEF Allocated
      <4>2. mem'[start'[u]] = mem[start[u]] /\ pc'[u] = pc[u] /\ size'[u] = size[u]
        BY <1>2, <2>8, <3>2, <4>1
      <4> QED
        BY <1>1, <4>2 DEF ListsHeld
    <3>3. CASE u # t /\ pc[u] # "live"
      <4>1. pc'[u] = pc[u] /\ size'[u] = size[u]
        BY <1>2, <3>3
      <4> QED
        BY <1>1, <3>3, <4>1 DEF ListsHeld
    <3> QED
      BY <3>1, <3>2, <3>3
  <2>11. ListsHeld(K)'
    BY <2>8, <2>9, <2>10 DEF ListsHeld
  <2>12. Types'
    <3>1. 0 \in 0..M
      BY <1>3
    <3>2. filled' \in BOOLEAN
      BY <1>2
    <3> QED
      BY <1>2, <2>1, <3>1, <3>2 DEF Types
  <2>13. K \in SUBSET (0..M)
    OBVIOUS
  <2> QED
    BY <2>7, <2>11, <2>12, <2>13 DEF HeapInv
<1>8. 0 \in H /\ M \in H /\ o # 0
  BY <1>1, <1>4 DEF HeadersLead
\* The list has lost its size with its header: nothing is given back.
<1>9. CASE size[t] = 0
  <2>1. mem[s] = 0
    BY <1>1, <1>2, <1>3, <1>9 DEF ListsHeld
  <2>2. mem' = [mem EXCEPT ![s] = 2 * 0]
    <3>1. s + size[t] = s
      BY <1>4, <1>9
    <3>2. ~Used(mem[s]) /\ SizeOf(mem[s]) = 0
      BY <2>1 DEF Used, SizeOf
    <3> DEFINE given == IF Used(mem[s]) THEN size[t] ELSE size[t] + SizeOf(mem[s])
    <3>3. given = 0
      BY <1>9, <3>2
    <3>4. mem' = [mem EXCEPT ![s] = 2 * given]
      BY <1>2, <3>1, Zenon DEF Released
    <3> HIDE DEF given
    <3> QED
      BY <3>3, <3>4
  <2>3. 0 \in Nat /\ H \in SUBSET H
    OBVIOUS
  <2> HIDE DEF s, o
  <2> QED
    BY <1>4, <1>7, <1>8, <2>1, <2>2, <2>3
<1>10. CASE size[t] = Size[t] + 1
  <2>1. s + size[t] = o /\ size[t] \in Nat /\ size[t] # 0
    BY <1>2, <1>3, <1>10
  <2> DEFINE b == IF Used(mem[o]) THEN size[t] ELSE size[t] + SizeOf(mem[o])
  <2>2. mem' = [mem EXCEPT ![s] = 2 * b]
    <3> HIDE DEF o
    <3> QED
      BY <1>2, <2>1, Zenon DEF Released
  <2>3. CASE b = size[t]
    <3>1. Follows(H, s, s + b) /\ b \in Nat /\ b # 0 /\ H \in SUBSET H
      BY <1>4, <2>1, <2>3
    <3> HIDE DEF s, o, b
    <3> QED
      BY <1>4, <1>7, <1>8, <2>2, <3>1
  <2>4. CASE b # size[t]
    <3> DEFINE z == SizeOf(mem[o])
               K == H \ {o}
    <3>1. mem[o] \in Nat
      BY <1>2, <1>4
    <3>2. z \in Nat
      BY <3>1 DEF SizeOf
    <3>3. ~Used(mem[o]) /\ b = size[t] + z /\ z # 0 /\ b \in Nat /\ b # 0
      BY <2>1, <2>4, <3>2
    <3>4. mem[o] # 0
      BY <3>3 DEF SizeOf
    <3>5. o # M
      <4>1. ASSUME o = M
            PROVE  FALSE
        <5>1. mem[o] \in PastEnd
          BY <1>1, <4>1 DEF HeadersLead
        <5> QED
          BY <3>3, <5>1 DEF NothingPastEnd
      <4> QED
        BY <4>1
    <3>6. Follows(H, o, o + z)
      BY <1>1, <1>4, <3>4, <3>5 DEF HeadersLead
    <3> HIDE DEF z
    <3>7. s + b = o + z
      BY <1>4, <2>1, <3>2, <3>3
    <3>8. Follows(K, s, s + b)
      <4>1. o + z \in H /\ o < o + z /\ \A c \in H : c <= o \/ o + z <= c
        BY <3>6 DEF Follows
      <4>2. o + z \in K /\ s < o + z
        BY <1>4, <3>2, <4>1
      <4>3. ASSUME NEW c \in K
            PROVE  c <= s \/ o + z <= c
        <5>1. c \in Nat /\ c # o /\ (c <= s \/ o <= c) /\ (c <= o \/ o + z <= c)
          BY <1>3, <1>4, <4>1
        <5> QED
          BY <1>4, <3>2, <5>1
      <4> QED
        BY <3>7, <4>2, <4>3 DEF Follows
    <3>9. K \in SUBSET H /\ s \in K /\ M \in K /\ 0 \in K /\ \A c \in H : c = o \/ c \in K
      BY <1>4, <1>8, <3>5
    <3> HIDE DEF s, o, b, K
    <3> QED
      BY <1>7, <2>2, <3>3, <3>4, <3>8, <3>9
  <2> QED
    BY <2>3, <2>4
<1> QED
  BY <1>1, <1>2, <1>9, <1>10 DEF ListsHeld

LEMMA HeapStays ==
  ASSUME NothingPastEnd, HeapInv, [Next]_vars
  PROVE  HeapInv'
<1>1. CASE Next
  BY <1>1, PartitionLeads, EnterListLeads, AssignValLeads, FreeElemLeads DEF Next
<1>2. CASE UNCHANGED vars
  <2>1. mem' = mem /\ pc' = pc /\ start' = start /\ size' = size /\ filled' = filled
    BY <1>2 DEF vars
  <2>2. Types'
    BY <2>1 DEF HeapInv, Types
  <2>3. PICK H \in SUBSET (0..M) : HeadersLead(H) /\ ListsHeld(H)
    BY DEF HeapInv
  <2>4. HeadersLead(H)' /\ ListsHeld(H)'
    BY <2>1, <2>3 DEF HeadersLead, ListsHeld, Allocated, Over
  <2> QED
    BY <2>2, <2>4 DEF HeapInv
<1> QED
  BY <1>1, <1>2

\* Where no header was lost, the walk meets all of them.
LEMMA ChainIsAll ==
  ASSUME Types, ~filled, NEW H \in SUBSET (0..M), HeadersLead(H)
  PROVE  Chain = H
<1>1. mem \in [Addresses -> Nat] /\ H \in SUBSET Nat /\ M \in Nat /\ 0 \in H
  BY SizeAssumption DEF Types, HeadersLead
<1>2. ASSUME NEW a \in H, a < M
      PROVE  Follows(H, a, NextHeader(a))
  BY <1>1, <1>2 DEF HeadersLead, NextHeader
<1>3. ASSUME NEW i \in H, i # 0
      PROVE  \E j \in H : j < i /\ NextHeader(j) = i
  <2> DEFINE before == {j \in H : j < i}
  <2>1. before \in SUBSET (0..M) /\ 0 \in before /\ i \in 0..M
    <3>1. i \in 0..M
      OBVIOUS
    <3>2. 0 < i
      BY <1>1, <1>3, <3>1
    <3> QED
      BY <1>1, <3>1, <3>2
  <2>2. PICK j \in before : \A k \in before : j >= k
    <3> HIDE DEF before
    <3> QED
      BY <2>1, GreatestAddress
  <2>3. j \in H /\ j < i /\ j < M /\ j \in Nat /\ i \in Nat
    BY <1>1, <2>1
  <2>4. NextHeader(j) \in H /\ j < NextHeader(j) /\ i >= NextHeader(j)
    BY <1>2, <1>3, <2>3 DEF Follows
  <2>5. NextHeader(j) \in Nat
    BY <1>1, <2>4
  <2>6. ~(NextHeader(j) < i)
    BY <2>2, <2>3, <2>4, <2>5
  <2> QED
    BY <2>3, <2>4, <2>5, <2>6
<1>4. \A i \in H : i < M => NextHeader(i) \in H /\ NextHeader(i) > i
  BY <1>2 DEF Follows
<1> QED
  BY <1>1, <1>3, <1>4, ChainIs

\* No search is one for ever: with every header in place it would reach the last one.
SearchesEnd == ~filled => \A t \in Threads : pc[t] # "spin"

LEMMA SearchMeetsEnd ==
  ASSUME HeapInv, ~filled, NEW n \in Nat, FirstFit(n) < M
  PROVE  ~Searching(FirstFit(n), n)
<1>1. PICK H \in SUBSET (0..M) : HeadersLead(H) /\ ListsHeld(H)
  BY DEF HeapInv
<1>2. Chain = H /\ M \in Chain /\ M \in Nat
  BY <1>1, ChainIsAll, SizeAssumption DEF HeapInv, HeadersLead
<1>3. Max(Chain) = M
  <2>1. Chain \subseteq Int /\ \A y \in Chain : M >= y
    BY <1>2
  <2> QED
    BY <1>2, <2>1, MaxIs
<1> DEFINE S == {i \in Chain : ~Searching(i, n)} \cup {Max(Chain)}
<1>4. S \subseteq Nat /\ M \in S /\ \A i \in S : i = M \/ ~Searching(i, n)
  <2>1. Chain \subseteq Nat
    BY <1>1, <1>2, SizeAssumption
  <2> QED
    BY <1>2, <1>3, <2>1
<1>5. FirstFit(n) = Min(S)
  BY DEF FirstFit
<1> HIDE DEF S
<1>6. PICK l \in S : \A y \in S : l <= y
  BY <1>4, LeastNatural
<1>7. Min(S) = l
  <2>1. S \subseteq Int
    BY <1>4
  <2> QED
    BY <1>6, <2>1, MinIs
<1> QED
  BY <1>2, <1>4, <1>5, <1>6, <1>7

LEMMA SearchesStayEnding ==
  ASSUME HeapInv, SearchesEnd, [Next]_vars
  PROVE  SearchesEnd'
<1> SUFFICES ASSUME ~filled', NEW u \in Threads
             PROVE  pc'[u] # "spin"
  BY DEF SearchesEnd
<1>1. pc \in [Threads -> {"idle", "partitioned", "live", "spin", "exited", "undefined"}]
  BY DEF HeapInv, Types
<1>2. ASSUME ~filled
      PROVE  pc[u] # "spin"
  BY <1>2 DEF SearchesEnd
<1>3. ASSUME NEW t \in Threads, Partition(t)
      PROVE  pc'[u] # "spin"
  <2> DEFINE n == Size[t] + 1
             i == FirstFit(n)
  <2>1. n \in Nat /\ M \in Nat
    BY ListNumbers DEF HeapInv
  <2>2. CASE Take(t, i, n)
    <3>1. ~filled /\ pc' = [pc EXCEPT ![t] = "partitioned"]
      BY <2>2 DEF Take
    <3> QED
      BY <1>1, <1>2, <3>1
  <2>3. CASE /\ i >= M \/ Searching(i, n)
             /\ pc' = [pc EXCEPT ![t] = CASE i > M -> "exited"
                                         [] i = M -> "undefined"
                                         [] OTHER -> "spin"]
             /\ UNCHANGED <<mem, start, size, filled>>
    <3>1. ~filled /\ (i >= M \/ Searching(i, n))
      BY <2>3
    <3>2. i \in Nat
      <4>1. PICK H \in SUBSET (0..M) : HeadersLead(H) /\ ListsHeld(H)
        BY DEF HeapInv
      <4>2. Chain \subseteq H /\ 0 \in Chain
        BY <4>1, ChainInHeaders DEF HeapInv
      <4>3. Chain \subseteq 0..M /\ Chain # {}
        BY <4>2
      <4>4. i \in 0..M
        BY <2>1, <4>3, FitIsMet
      <4> HIDE DEF i
      <4> QED
        BY <2>1, <4>4
    <3>3. ~(i < M)
      BY <2>1, <3>1, <3>2, SearchMeetsEnd
    <3> HIDE DEF i
    <3>4. PICK stop \in {"exited", "undefined"} : pc' = [pc EXCEPT ![t] = stop]
      <4> DEFINE end == CASE i > M -> "exited" [] i = M -> "undefined" [] OTHER -> "spin"
      <4>1. i > M \/ (i = M /\ ~(i > M))
        BY <2>1, <3>2, <3>3
      <4>2. end \in {"exited", "undefined"}
        BY <4>1
      <4>3. pc' = [pc EXCEPT ![t] = end]
        BY <2>3
      <4> HIDE DEF end
      <4> QED
        BY <4>2, <4>3
    <3> QED
      BY <1>1, <1>2, <3>1, <3>4
  <2> QED
    BY <1>3, <2>2, <2>3 DEF Partition
<1>4. ASSUME NEW t \in Threads, EnterList(t) \/ AssignVal(t) \/ FreeElem(t)
      PROVE  pc'[u] # "spin"
  <2>1. /\ filled' = filled
        /\ pc' = pc \/ pc' = [pc EXCEPT ![t] = "live"] \/ pc' = [pc EXCEPT ![t] = "idle"]
    BY <1>4 DEF EnterList, AssignVal, FreeElem
  <2>2. pc[u] # "spin"
    BY <1>2, <2>1, Zenon
  <2> QED
    BY <1>1, <2>1, <2>2
<1>5. CASE UNCHANGED vars
  <2>1. filled' = filled /\ pc' = pc
    BY <1>5 DEF vars
  <2> QED
    BY <1>2, <2>1, Zenon
<1> QED
  BY <1>3, <1>4, <1>5 DEF Next

\* The headers lead from one to the next, in all that the threads do.
LEMMA HeapCorrect ==
  ASSUME NothingPastEnd
  PROVE  Spec => [](HeapInv /\ SearchesEnd)
<1>1. Init => SearchesEnd
  BY DEF Init, SearchesEnd
<1>2. HeapInv /\ SearchesEnd /\ [Next]_vars => HeapInv' /\ SearchesEnd'
  BY HeapStays, SearchesStayEnding
<1> QED
  BY HeapStarts, <1>1, <1>2, PTL DEF Spec

-----------------------------------------------------------------------------
(* What follows *)

LEMMA HeapTiles ==
  HeapInv /\ SearchesEnd => Tiled /\ ListsDisjoint
<1> SUFFICES ASSUME HeapInv, SearchesEnd
             PROVE  Tiled /\ ListsDisjoint
  OBVIOUS
<1>1. PICK H \in SUBSET (0..M) : HeadersLead(H) /\ ListsHeld(H)
  BY DEF HeapInv
<1>2. /\ Types /\ M \in Nat /\ Allocated \subseteq Threads
      /\ \A t \in Threads : /\ start[t] \in 0..M /\ Size[t] \in Nat /\ Size[t] # 0
                            /\ Over(t) = start[t] + Size[t] + 1 /\ Over(t) \in Nat
  BY ListNumbers DEF HeapInv
<1>3. ASSUME NEW t \in Allocated
      PROVE  /\ start[t] \in H \ {M} /\ start[t] < Over(t)
             /\ \A c \in H : c <= start[t] \/ Over(t) <= c
             /\ mem[start[t]] = 2 * (Size[t] + 1) + 1 \/ mem[start[t]] = 0
  <2>1. /\ start[t] \in H /\ Over(t) \in H /\ start[t] < Over(t)
        /\ \A c \in H : c <= start[t] \/ Over(t) <= c
        /\ mem[start[t]] = 2 * (Size[t] + 1) + 1 \/ mem[start[t]] = 0
    BY <1>1 DEF ListsHeld, Follows
  <2>2. Over(t) \in 0..M /\ start[t] \in 0..M
    BY <1>2, <2>1
  <2>3. start[t] # M
    BY <1>2, <2>1, <2>2
  <2> QED
    BY <2>1, <2>3
<1>4. ListsDisjoint
  <2> SUFFICES ASSUME NEW t \in Allocated, NEW u \in Allocated, t # u
               PROVE  \/ start[t] + Size[t] < start[u]
                      \/ start[u] + Size[u] < start[t]
    BY DEF ListsDisjoint
  <2>1. start[t] # start[u]
    BY <1>1 DEF ListsHeld
  <2>2. (start[u] <= start[t] \/ Over(t) <= start[u]) /\ (start[t] <= start[u] \/ Over(u) <= start[t])
    BY <1>3
  <2>3. /\ start[t] \in Nat /\ Size[t] \in Nat /\ Over(t) = start[t] + Size[t] + 1
        /\ start[u] \in Nat /\ Size[u] \in Nat /\ Over(u) = start[u] + Size[u] + 1
    BY <1>2
  <2> QED
    BY <2>1, <2>2, <2>3
<1>5. Tiled
  <2> DEFINE starts == {start[t] : t \in Allocated}
             sizes == [a \in starts |-> Size[CHOOSE t \in Allocated : start[t] = a] + 1]
  <2> SUFFICES ASSUME ~filled
               PROVE  /\ TiledBy(sizes)
                      /\ \A t, v \in Allocated : start[t] = start[v] => t = v
    BY DEF Tiled, SearchesEnd
  <2>1. Chain = H /\ M \in H
    BY <1>1, <1>2, ChainIsAll DEF HeadersLead
  <2>2. \A t, v \in Allocated : start[t] = start[v] => t = v
    BY <1>1 DEF ListsHeld
  <2>3. ASSUME NEW t \in Allocated
        PROVE  /\ start[t] \in H \ {M} /\ Used(mem[start[t]])
               /\ SizeOf(mem[start[t]]) = Size[t] + 1
    <3>1. mem[start[t]] # 0
      BY <1>1, <1>3 DEF HeadersLead
    <3>2. Size[t] + 1 \in Nat
      BY <1>2
    <3> QED
      BY <1>3, <3>1, <3>2, HeaderWords
  <2>4. {a \in H \ {M} : Used(mem[a])} = starts
    BY <1>1, <2>3 DEF HeadersLead
  <2>5. \A a \in starts : SizeOf(mem[a]) = sizes[a]
    <3> SUFFICES ASSUME NEW t \in Allocated
                 PROVE  SizeOf(mem[start[t]]) = sizes[start[t]]
      OBVIOUS
    <3>1. (CHOOSE u \in Allocated : start[u] = start[t]) = t
      BY <2>2
    <3>2. sizes[start[t]] = Size[t] + 1
      BY <3>1
    <3> QED
      BY <2>3, <3>2
  <2>6. DOMAIN sizes = starts
    OBVIOUS
  <2> HIDE DEF starts
  <2>7. TiledBy(sizes)
    <3> HIDE DEF sizes
    <3> QED
      BY <2>1, <2>4, <2>5, <2>6 DEF TiledBy
  <2> QED
    BY <2>2, <2>7
<1> QED
  BY <1>4, <1>5

\* Every variable keeps to its values: no address and no size leaves the memory, in
\* whatever order lists are made and freed.
THEOREM TypeCorrect ==
  ASSUME NothingPastEnd
  PROVE  Spec => []TypeOK
<1> DEFINE Typed == lifo \in BOOLEAN
<1>1. Init => Typed
  BY Zenon DEF Init
<1>2. Typed /\ [Next]_vars => Typed'
  <2>1. ASSUME NEW t \in Threads, Partition(t)
        PROVE  lifo' = (lifo /\ Fits(t))
    BY <2>1 DEF Partition
  <2>2. ASSUME NEW t \in Threads, FreeElem(t)
        PROVE  lifo' = (lifo /\ LastInMemory(t))
    BY <2>2 DEF FreeElem
  <2>3. ASSUME NEW t \in Threads, EnterList(t) \/ AssignVal(t)
        PROVE  lifo' = lifo
    BY <2>3 DEF EnterList, AssignVal
  <2>4. ASSUME UNCHANGED vars
        PROVE  lifo' = lifo
    BY <2>4 DEF vars
  <2> QED
    BY <2>1, <2>2, <2>3, <2>4, Zenon DEF Next
<1>3. HeapInv /\ Typed => TypeOK
  BY DEF HeapInv, Types, TypeOK
<1> HIDE DEF Typed
<1> QED
  BY <1>1, <1>2, <1>3, HeapCorrect, PTL DEF Spec

\* Until a hole is filled to its last word, the headers tile the memory, the used segments
\* are those of the lists, each of the size its creator asked for, and no search goes on
\* for ever.
THEOREM TilesCorrect ==
  ASSUME NothingPastEnd
  PROVE  Spec => []Tiled
<1> QED
  BY HeapTiles, HeapCorrect, PTL

\* No two lists share a word, in whatever order lists are made and freed, and even
\* where a header was lost.
THEOREM DisjointCorrect ==
  ASSUME NothingPastEnd
  PROVE  Spec => []ListsDisjoint
<1> QED
  BY HeapTiles, HeapCorrect, PTL
=============================================================================
