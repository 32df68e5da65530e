----------------------------- MODULE SharedGraph -----------------------------
(***************************************************************************)
(* Assignment 3: a producer that lets a graph grow and publishes it in      *)
(* shared memory, and consumers that read it now and then and keep the      *)
(* distances of all nodes to the nodes they own (main_process.cpp,          *)
(* producer.cpp, consumer.cpp).  Nothing synchronises the processes but     *)
(* their sleeps, which the model does not count: any order is possible.     *)
(*                                                                         *)
(* A segment of shared memory is the sequence of its words: the size, the   *)
(* number of nodes, the number of edges, and two words for each edge.       *)
(* Every access to a word is a step.  segment[s] is the s-th segment that   *)
(* was created; it exists while it has the key or a process is attached.    *)
(* A process that crashes, or whose behaviour is undefined, ends there.     *)
(***************************************************************************)
EXTENDS ShortestPaths

CONSTANTS
  NConsumers,       \* N_CONSUMERS, and the 10 of "i % 10 == id"
  Consumers,        \* the ids of those that run, from 0
  InitialNodes, InitialEdges,   \* the graph of the input file
  ProducerCapacity, ConsumerCapacity,
  MaxNewNodes,      \* N_NODES.S
  MaxDegree         \* N_DEGREES.S

NoSegment == 0

ASSUME GraphAssumption ==
  /\ NConsumers \in Nat \ {0} /\ Consumers \subseteq 0..(NConsumers - 1)
  /\ InitialNodes \in Nat /\ NConsumers * (NConsumers - 1) <= InitialNodes
  /\ InitialEdges \in Seq((0..(InitialNodes - 1)) \X (0..(InitialNodes - 1)))
  /\ ProducerCapacity \in Nat \ {0} /\ ConsumerCapacity \in Nat \ {0}
  /\ MaxNewNodes \in Nat \ {0} /\ MaxDegree \in Nat \ {0}

\* Every node of the input file can be reached from every other one, and all distances
\* are below the infinite one.  Only what is computed depends on it.
ASSUME InputAssumption ==
  /\ Connected(InitialEdges, InitialNodes)
  /\ InitialNodes + ProducerCapacity * MaxNewNodes + 2 < Infinity

VARIABLES
  segment,          \* the words of every segment, in the order of creation
  key,              \* the segment found under the key, or NoSegment
  flag,             \* 1 with -optimize
  pPc, capacity,    \* the producer: label, productions left
  pN, pEdges,       \* its n and edges
  fresh, written,   \* the nodes of this production, the words written of it
  cPc, rounds,      \* per consumer: label, consumptions left
  at, leaked,       \* the segment it reads, and those it never detached
  size,             \* shmsize, in words
  n, prevN, m, g,   \* n, prev_n, m and the edges in its graph
  u,                \* the first end of the edge it reads
  sources, dist, par,
  torn, seen        \* history: whether it ever took a product from a segment
                    \* that was not complete, the last complete one it read

shm == <<segment, key, flag>>
producer == <<pPc, capacity, pN, pEdges, fresh, written>>
reading == <<at, leaked, size, u>>
product == <<n, prevN, m, g, sources, dist, par, torn, seen>>
vars == <<shm, producer, cPc, rounds, reading, product>>

-----------------------------------------------------------------------------
(* The words of a segment *)

\* What is written for a graph: the size in words, n, m, and the edges.
Image(nodes, edges) ==
  <<3 + 2 * Len(edges), nodes, Len(edges)>> \o
    [k \in 1..(2 * Len(edges)) |-> edges[(k + 1) \div 2][IF k % 2 = 1 THEN 1 ELSE 2]]

Zeros(k) == [j \in 1..k |-> 0]
SizeWord(s) == segment[s][1]
NodesWord(s) == segment[s][2]
EdgesWord(s) == segment[s][3]
\* The end (1 or 2) of edge i, counted from 0.
EndWord(s, i, end) == segment[s][2 * (i + 1) + 1 + end]

-----------------------------------------------------------------------------
(* set_shares and take_fraction *)

Ceil(a, b) == (a + b - 1) \div b

\* Mutant: the last share is as large as the others.
LastShareEqual(nodes) == Ceil(nodes, NConsumers)

LastShare(nodes) ==
  IF nodes % NConsumers = 0 THEN Ceil(nodes, NConsumers)
  ELSE nodes - Ceil(nodes, NConsumers) * (NConsumers - 1)

\* lbs and ubs: the first and the last node of the share of consumer id.
Lbs(id, nodes) == id * Ceil(nodes, NConsumers)
Ubs(id, nodes) ==
  IF id < NConsumers - 1 THEN (id + 1) * Ceil(nodes, NConsumers) - 1
  ELSE Lbs(id, nodes) + LastShare(nodes) - 1

Share(id, nodes) == Lbs(id, nodes)..Ubs(id, nodes)

\* The new nodes that consumer id takes over.
Fraction(id, old, new) == {i \in old..(new - 1) : i % NConsumers = id}

-----------------------------------------------------------------------------
(* main_process creates and fills the first segment, then starts the others;  *)
(* the producer has read the graph before anything can change.               *)

Init ==
  /\ segment = <<Image(InitialNodes, InitialEdges)>> /\ key = 1
  /\ flag \in {0, 1}
  /\ pPc = "sleep" /\ capacity = ProducerCapacity
  /\ pN = InitialNodes /\ pEdges = InitialEdges /\ fresh = 0 /\ written = 0
  /\ cPc = [c \in Consumers |-> "sleep"]
  /\ rounds = [c \in Consumers |-> ConsumerCapacity]
  /\ at = [c \in Consumers |-> NoSegment] /\ leaked = [c \in Consumers |-> {}]
  /\ size = [c \in Consumers |-> 0] /\ u = [c \in Consumers |-> 0]
  /\ n = [c \in Consumers |-> 0] /\ prevN = [c \in Consumers |-> 0]
  /\ m = [c \in Consumers |-> 0] /\ g = [c \in Consumers |-> <<>>]
  /\ sources = [c \in Consumers |-> <<>>]
  /\ dist = [c \in Consumers |-> <<>>] /\ par = [c \in Consumers |-> <<>>]
  /\ torn = [c \in Consumers |-> FALSE] /\ seen = [c \in Consumers |-> NoSegment]

-----------------------------------------------------------------------------
(* The producer *)

Degree(v) == Cardinality({k \in DOMAIN pEdges : v \in {pEdges[k][1], pEdges[k][2]}})

\* One turn of the loop of produce: a new node with edges to distinct older ones,
\* drawn one by one with a probability that is not 0 for a node that has an edge.
ProduceNode ==
  /\ pPc \in {"sleep", "produce"} /\ fresh < MaxNewNodes
  /\ \E degree \in 1..MaxDegree :
       \E ends \in [1..degree -> {v \in 0..(pN - 1) : Degree(v) > 0}] :
         /\ \A j, k \in 1..degree : j # k => ends[j] # ends[k]
         /\ pEdges' = pEdges \o [k \in 1..degree |-> <<ends[k], pN>>]
  /\ pN' = pN + 1 /\ fresh' = fresh + 1 /\ pPc' = "produce"
  /\ UNCHANGED <<shm, capacity, written, cPc, rounds, reading, product>>

\* save_product: IPC_RMID takes the key from the old segment.
RemoveOld ==
  /\ pPc = "produce"
  /\ key' = NoSegment /\ pPc' = "create"
  /\ UNCHANGED <<segment, flag, capacity, pN, pEdges, fresh, written, cPc, rounds,
                 reading, product>>

\* Mutant: the old segment is enlarged in place.
CreateNewInPlace ==
  /\ pPc = "create"
  /\ key' = Len(segment) /\ pPc' = "fill"
  /\ segment' = [segment EXCEPT ![key'] =
                   @ \o Zeros(3 + 2 * Len(pEdges) - Len(@))]
  /\ UNCHANGED <<flag, capacity, pN, pEdges, fresh, written, cPc, rounds, reading,
                 product>>

\* shmget with IPC_CREAT: the memory of a new segment is zero.
CreateNew ==
  /\ pPc = "create"
  /\ segment' = Append(segment, Zeros(3 + 2 * Len(pEdges)))
  /\ key' = Len(segment) + 1 /\ pPc' = "fill"
  /\ UNCHANGED <<flag, capacity, pN, pEdges, fresh, written, cPc, rounds, reading,
                 product>>

\* One word of the new segment, in the order of the program.
Fill ==
  /\ pPc = "fill"
  /\ LET image == Image(pN, pEdges)
         k == written + 1
     IN /\ segment' = [segment EXCEPT ![key][k] = image[k]]
        /\ IF k < Len(image)
           THEN written' = k /\ UNCHANGED <<pPc, capacity, fresh>>
           ELSE /\ written' = 0 /\ fresh' = 0
                /\ capacity' = capacity - 1
                /\ pPc' = IF capacity = 1 THEN "done" ELSE "sleep"
  /\ UNCHANGED <<key, flag, pN, pEdges, cPc, rounds, reading, product>>

\* ~Producer removes the last segment.
ProducerExit ==
  /\ pPc = "done"
  /\ key' = NoSegment /\ pPc' = "exited"
  /\ UNCHANGED <<segment, flag, capacity, pN, pEdges, fresh, written, cPc, rounds,
                 reading, product>>

Complete(s) == ~(s = key /\ pPc = "fill")

Producer == ProduceNode \/ RemoveOld \/ CreateNew \/ Fill \/ ProducerExit

-----------------------------------------------------------------------------
(* A consumer *)

\* consume returns to the loop of main, possibly without shmdt.
EndRound(c, kept) ==
  /\ rounds' = [rounds EXCEPT ![c] = @ - 1]
  /\ cPc' = [cPc EXCEPT ![c] = "sleep"]
  /\ leaked' = [leaked EXCEPT ![c] = kept]
  /\ at' = [at EXCEPT ![c] = NoSegment]

\* The end of the process, good or bad: its memory is gone, its segments detached.
End(c, label) ==
  /\ cPc' = [cPc EXCEPT ![c] = label]
  /\ rounds' = [rounds EXCEPT ![c] = 0]
  /\ at' = [at EXCEPT ![c] = NoSegment] /\ leaked' = [leaked EXCEPT ![c] = {}]
  /\ size' = [size EXCEPT ![c] = 0] /\ u' = [u EXCEPT ![c] = 0]
  /\ n' = [n EXCEPT ![c] = 0] /\ prevN' = [prevN EXCEPT ![c] = 0]
  /\ m' = [m EXCEPT ![c] = 0] /\ g' = [g EXCEPT ![c] = <<>>]
  /\ sources' = [sources EXCEPT ![c] = <<>>]
  /\ dist' = [dist EXCEPT ![c] = <<>>] /\ par' = [par EXCEPT ![c] = <<>>]
  /\ torn' = [torn EXCEPT ![c] = FALSE] /\ seen' = [seen EXCEPT ![c] = NoSegment]

\* The last round is over: main returns.
Exit(c) ==
  /\ cPc[c] = "sleep" /\ rounds[c] = 0
  /\ End(c, "exited")
  /\ UNCHANGED <<shm, producer>>

\* Mutant: the rounds are not counted.
GetSizeForEver(c) ==
  /\ cPc[c] = "sleep" /\ key # NoSegment
  /\ size' = [size EXCEPT ![c] = SizeWord(key)]
  /\ cPc' = [cPc EXCEPT ![c] = "attach"]
  /\ UNCHANGED <<shm, producer, rounds, at, leaked, u, product>>

\* get_shm_size.
GetSize(c) ==
  /\ cPc[c] = "sleep" /\ rounds[c] > 0 /\ key # NoSegment
  /\ size' = [size EXCEPT ![c] = SizeWord(key)]
  /\ cPc' = [cPc EXCEPT ![c] = "attach"]
  /\ UNCHANGED <<shm, producer, rounds, at, leaked, u, product>>

\* The key is not there: shmat fails, and its result is used as an address.
Crash(c) ==
  /\ cPc[c] = "attach" \/ (cPc[c] = "sleep" /\ rounds[c] > 0)
  /\ key = NoSegment
  /\ End(c, "crashed")
  /\ UNCHANGED <<shm, producer>>

\* Attach, and read n.  Without new nodes return, still attached; otherwise
\* g.resize(n), which clears the graph if n is not written yet.
Attach(c) ==
  /\ cPc[c] = "attach" /\ key # NoSegment /\ size[c] <= Len(segment[key])
  /\ prevN' = [prevN EXCEPT ![c] = n[c]]
  /\ n' = [n EXCEPT ![c] = NodesWord(key)]
  /\ seen' = [seen EXCEPT ![c] = IF Complete(key) THEN key ELSE @]
  /\ size' = [size EXCEPT ![c] = 0]
  /\ IF NodesWord(key) = n[c]
     THEN /\ EndRound(c, leaked[c] \cup {key})
          /\ UNCHANGED <<g, torn>>
     ELSE /\ at' = [at EXCEPT ![c] = key]
          /\ g' = [g EXCEPT ![c] = IF NodesWord(key) = 0 THEN <<>> ELSE @]
          /\ torn' = [torn EXCEPT ![c] = @ \/ ~Complete(key)]
          /\ cPc' = [cPc EXCEPT ![c] = "edges"]
          /\ UNCHANGED <<rounds, leaked>>
  /\ UNCHANGED <<shm, producer, u, m, sources, dist, par>>

\* The loop over the new edges tests shmptr[2] each time; m[c] is the i of the loop.
ReadFirstEnd(c) ==
  /\ cPc[c] = "edges" /\ m[c] < EdgesWord(at[c])
  /\ u' = [u EXCEPT ![c] = EndWord(at[c], m[c], 1)]
  /\ cPc' = [cPc EXCEPT ![c] = "second"]
  /\ UNCHANGED <<shm, producer, rounds, at, leaked, size, product>>

\* The second end, and the edge goes into g, unless an end is not a node of g.
ReadSecondEnd(c) ==
  /\ cPc[c] = "second"
  /\ LET v == EndWord(at[c], m[c], 2) IN
       IF u[c] < n[c] /\ v < n[c]
       THEN /\ g' = [g EXCEPT ![c] = Append(@, <<u[c], v>>)]
            /\ m' = [m EXCEPT ![c] = @ + 1] /\ u' = [u EXCEPT ![c] = 0]
            /\ cPc' = [cPc EXCEPT ![c] = "edges"]
            /\ UNCHANGED <<rounds, at, leaked, size, n, prevN, sources, dist, par, torn,
                           seen>>
       ELSE End(c, "undefined")
  /\ UNCHANGED <<shm, producer>>

ReadEdgesEnd(c) ==
  /\ cPc[c] = "edges" /\ m[c] >= EdgesWord(at[c])
  /\ cPc' = [cPc EXCEPT ![c] = "update"]
  /\ UNCHANGED <<shm, producer, rounds, reading, product>>

\* dist and par after the resizing, over the nodes read; they start afresh
\* without -optimize.
Resized(f, nodes, default) ==
  [v \in 0..(nodes - 1) |-> IF flag = 1 /\ v \in DOMAIN f THEN f[v] ELSE default]

\* The sources and, in set S of them, the new values of dist and par.
AtSources(f, S, value(_)) == [v \in DOMAIN f |-> IF v \in S THEN value(v) ELSE f[v]]

\* What an algorithm returns, and whether it ran as far as that.
Outcome(new, ok) == [ok |-> ok, dist |-> new.dist, par |-> new.par]

\* optimised_dijkstra for the new nodes, one after the other; ok is FALSE from the
\* node on that no source reaches, where the code follows a parent of -1.
JoinAll(c, graph, owned, d) ==
  LET new == Max({0, n[c] - prevN[c]})
      f[k \in 0..new] ==
        IF k = 0 THEN [ok |-> TRUE, dist |-> d.dist, par |-> d.par]
        ELSE LET i == prevN[c] + k - 1
                 search == SearchFrom(graph, i)
                 s == NearestSource(i, i % NConsumers = c, owned, search)
             IN IF f[k - 1].ok /\ s # -1 THEN Outcome(Join(f[k - 1], i, s, search), TRUE)
                ELSE Outcome(f[k - 1], FALSE)
  IN f[new]

\* dijkstra, which then prints the path of every node: one that no source reaches
\* has the parent -1, and that is followed.
FromScratch(c, d) ==
  LET new == Dijkstra(g[c], n[c], d.dist, d.par)
  IN Outcome(new, \A v \in DOMAIN new.par : new.par[v] # NoParent)

\* The first time, a breadth-first search from the sources.
FirstSearch(c, graph, owned, d) ==
  Outcome(Search([dist |-> d.dist, par |-> d.par, queue |-> owned], graph, n[c] - 1), TRUE)

\* The sources after this consumption: a share the first time, then a fraction.
Sources(c) == sources[c] \o InOrder(IF prevN[c] = 0 THEN Share(c, n[c])
                                                   ELSE Fraction(c, prevN[c], n[c]))

\* What consume does after the loop over the edges: detach, extend the sources,
\* compute.  (n can be 0 here, if it was read before it was written.)
Compute(c) ==
  /\ cPc[c] = "update"
  /\ LET owned == Sources(c)
         zeroed == IF prevN[c] = 0 \/ flag = 0 THEN ToSet(owned) ELSE {}
         d == [dist |-> AtSources(Resized(dist[c], n[c], Infinity), zeroed, LAMBDA v : 0),
               par |-> AtSources(Resized(par[c], n[c], NoParent), zeroed, LAMBDA v : v)]
         defined == /\ \A v \in zeroed : v < n[c]
                    /\ flag = 0 => n[c] > 0
         new == CASE flag = 0 -> FromScratch(c, d)
                  [] flag = 1 /\ prevN[c] = 0 -> FirstSearch(c, g[c], owned, d)
                  [] OTHER -> JoinAll(c, g[c], owned, d)
     IN IF defined /\ new.ok
        THEN /\ m' = [m EXCEPT ![c] = EdgesWord(at[c])]
             /\ sources' = [sources EXCEPT ![c] = owned]
             /\ dist' = [dist EXCEPT ![c] = new.dist]
             /\ par' = [par EXCEPT ![c] = new.par]
             /\ EndRound(c, leaked[c])
             /\ UNCHANGED <<size, u, n, prevN, g, torn, seen>>
        ELSE End(c, "undefined")
  /\ UNCHANGED <<shm, producer>>

Consumer(c) ==
  \/ GetSize(c) \/ Crash(c) \/ Attach(c) \/ ReadFirstEnd(c) \/ ReadSecondEnd(c)
  \/ ReadEdgesEnd(c) \/ Compute(c) \/ Exit(c)

Next == Producer \/ \E c \in Consumers : Consumer(c)

Spec == Init /\ [][Next]_vars

-----------------------------------------------------------------------------
(* Properties *)

ProducerLabels == {"sleep", "produce", "create", "fill", "done", "exited"}
ConsumerLabels == {"sleep", "attach", "edges", "second", "update", "exited",
                   "crashed", "undefined"}

\* The values the variables range over.
TypeOK ==
  /\ key \in 0..Len(segment) /\ flag \in {0, 1}
  /\ pPc \in ProducerLabels /\ capacity \in 0..ProducerCapacity
  /\ pEdges \in Seq((0..(pN - 1)) \X (0..(pN - 1)))
  /\ fresh \in 0..MaxNewNodes /\ written \in Nat
  /\ cPc \in [Consumers -> ConsumerLabels]
  /\ rounds \in [Consumers -> 0..ConsumerCapacity]
  /\ at \in [Consumers -> 0..Len(segment)]
  /\ leaked \in [Consumers -> SUBSET (1..Len(segment))]
  /\ \A c \in Consumers :
       /\ {size[c], n[c], prevN[c], m[c], u[c]} \subseteq Nat
       /\ g[c] \in Seq(Nat \X Nat)
       /\ cPc[c] \in {"edges", "second", "update"} => at[c] # NoSegment

Resting(c) == cPc[c] \in {"sleep", "attach"}

\* Although segments come and go under one key while consumers look up its size,
\* attach and read word by word, a consumer that never took a product from a
\* segment still being filled holds exactly the product of the last complete
\* segment it saw: never a mixture of two, never an edge missed or read twice.
ReadsOneProduct ==
  \A c \in Consumers : Resting(c) /\ ~torn[c] /\ seen[c] # NoSegment =>
    Image(n[c], g[c]) = segment[seen[c]] /\ m[c] = Len(g[c])

\* Such a consumer has computed the true distances to the nodes it owns, from
\* scratch as well as with -optimize, however many productions it missed between
\* two rounds, and its parents lead to an owned node along a shortest path.
PathsShortest ==
  \A c \in Consumers : Resting(c) /\ ~torn[c] /\ n[c] > 0 =>
    Correct(g[c], n[c], ToSet(sources[c]), dist[c], par[c])

\* The shares that consumers take of the graph they find first are a partition of
\* its nodes: the last one, n - equal_share * (N_CONSUMERS - 1), is never negative
\* and the others never reach past the last node.
SharesPartition ==
  \A i \in 0..(pN - 1) : \E c \in 0..(NConsumers - 1) :
    /\ i \in Share(c, pN)
    /\ \A d \in 0..(NConsumers - 1) : /\ d # c => i \notin Share(d, pN)
                                      /\ Share(d, pN) \subseteq 0..(pN - 1)
=============================================================================
