---------------------------- MODULE ShortestPaths ----------------------------
(***************************************************************************)
(* The two algorithms of Assignment 3/consumer.cpp: the distance from every *)
(* node of a growing graph to the nearest source, computed from scratch     *)
(* (dijkstra) or brought up to date node by node (optimised_dijkstra).      *)
(*                                                                         *)
(* The nodes are 0 .. n - 1.  A graph is the sequence of its edges in the   *)
(* order they were read, sources the vector of that name, dist and par are  *)
(* functions on the nodes.                                                  *)
(***************************************************************************)
EXTENDS Integers, Sequences, FiniteSets, FiniteSetsExt, SequencesExt, Ordering

\* 1e18, and INT32_MAX in dijkstra: more than any distance.
Infinity == 1000000

\* par of a node that nobody reached.
NoParent == -1

\* The ends of the edges in a row, the first and the second end of each in turn.
Ends(g, k) == g[(k + 1) \div 2][IF k % 2 = 1 THEN 1 ELSE 2]

\* The vector g[u]: each edge was pushed to the lists of both its ends.
Adjacent(g, u) ==
  LET pushed == InOrder({k \in 1..(2 * Len(g)) : Ends(g, k) = u})
  IN [j \in DOMAIN pushed |-> Ends(g, IF pushed[j] % 2 = 1 THEN pushed[j] + 1
                                                          ELSE pushed[j] - 1)]

-----------------------------------------------------------------------------
(* dijkstra: s has the fields dist, par and sp, the nodes left in the set *)

\* The loop of dijkstra_update over the neighbours of start.
Update(s, g, start) ==
  LET nearer == {v \in ToSet(Adjacent(g, start)) : s.dist[v] > s.dist[start] + 1}
  IN [dist |-> [v \in DOMAIN s.dist |-> IF v \in nearer THEN s.dist[start] + 1
                                                         ELSE s.dist[v]],
      par |-> [v \in DOMAIN s.par |-> IF v \in nearer THEN start ELSE s.par[v]],
      sp |-> s.sp]

\* sp.begin(): the nearest node of the set, the smallest number among equals.
Begin(s) == CHOOSE v \in s.sp : \A w \in s.sp :
              s.dist[v] < s.dist[w] \/ (s.dist[v] = s.dist[w] /\ v <= w)

\* The first node is used once while it is in the set, then one by one all are.
Dijkstra(g, n, dist, par) ==
  LET all == [dist |-> dist, par |-> par, sp |-> 0..(n - 1)]
      f[k \in 0..n] ==
        IF k = 0 THEN Update(all, g, Begin(all))
        ELSE LET last == f[k - 1]
                 next == Begin(last)
             IN Update([last EXCEPT !.sp = @ \ {next}], g, next)
  IN f[n]

-----------------------------------------------------------------------------
(* Breadth-first search: s has the fields dist, par and queue *)

\* One turn of the loop over the queue; nodes above last are passed over, and so is
\* a node that the list names again.  (vis is true for the nodes whose distance is
\* finite, so dist alone decides.)
Visit(s, g, last) ==
  LET fs == Head(s.queue)
      list == Adjacent(g, fs)
      reached == InOrder({k \in DOMAIN list : /\ list[k] <= last
                                              /\ s.dist[list[k]] > s.dist[fs] + 1
                                              /\ \A j \in 1..(k - 1) : list[j] # list[k]})
      pushed == [j \in DOMAIN reached |-> list[reached[j]]]
  IN [dist |-> [v \in DOMAIN s.dist |-> IF v \in ToSet(pushed) THEN s.dist[fs] + 1
                                                               ELSE s.dist[v]],
      par |-> [v \in DOMAIN s.par |-> IF v \in ToSet(pushed) THEN fs ELSE s.par[v]],
      queue |-> Tail(s.queue) \o pushed]

Search(s, g, last) ==
  LET f[k \in 0..(last + 1)] ==
        IF k = 0 THEN s
        ELSE LET before == f[k - 1]
             IN IF before.queue = <<>> THEN before ELSE Visit(before, g, last)
  IN f[last + 1]

\* The search from node i among the nodes up to i.
SearchFrom(g, i) ==
  Search([dist |-> [v \in 0..i |-> IF v = i THEN 0 ELSE Infinity],
          par |-> [v \in 0..i |-> IF v = i THEN i ELSE NoParent],
          queue |-> <<i>>], g, i)

-----------------------------------------------------------------------------
(* optimised_dijkstra, after the first time: a new node i joins *)

\* min_source: the first source at the smallest distance from i, if one is reached.
NearestSource(i, isSource, sources, new) ==
  IF isSource THEN i
  ELSE LET reached == {k \in DOMAIN sources : sources[k] <= i /\
                                               new.dist[sources[k]] < Infinity}
           nearest == {k \in reached : \A j \in reached :
                         new.dist[sources[k]] <= new.dist[sources[j]]}
       IN IF reached = {} THEN -1 ELSE sources[Min(nearest)]

\* The node next to i on the path from i to source s: the stack of the code.
Towards(i, s, new) ==
  LET climb[k \in 0..new.dist[s]] == IF k = 0 THEN s ELSE new.par[climb[k - 1]]
  IN IF s = i THEN i ELSE climb[new.dist[s] - 1]

\* Mutant: the parents of nodes that come nearer are left alone.
JoinKeepsParents(d, i, s, new) ==
  LET minDist == new.dist[s] IN
  [dist |-> [j \in DOMAIN d.dist |->
     IF j = i THEN minDist
     ELSE IF j < i /\ d.dist[j] # 0 /\ d.dist[j] >= new.dist[j] + minDist
     THEN new.dist[j] + minDist ELSE d.dist[j]],
   par |-> [d.par EXCEPT ![i] = Towards(i, s, new)]]

\* dist and par with node i joined, of which s is the nearest source.
Join(d, i, s, new) ==
  LET minDist == new.dist[s]
      through == {j \in 0..(i - 1) : d.dist[j] # 0 /\ d.dist[j] >= new.dist[j] + minDist}
  IN [dist |-> [j \in DOMAIN d.dist |-> IF j = i THEN minDist
                  ELSE IF j \in through THEN new.dist[j] + minDist ELSE d.dist[j]],
      par |-> [j \in DOMAIN d.par |-> IF j = i THEN Towards(i, s, new)
                  ELSE IF j \in through THEN new.par[j] ELSE d.par[j]]]

-----------------------------------------------------------------------------
(* What the algorithms are for *)

\* From no set of the nodes but all of them is there no edge to another one.
Connected(g, n) ==
  \A X \in SUBSET (0..(n - 1)) :
    X # {} /\ (\A v \in X : ToSet(Adjacent(g, v)) \cap 0..(n - 1) \subseteq X)
      => X = 0..(n - 1)

\* The nodes at most k edges away from a set of nodes.
Within(g, n, from, k) ==
  LET near[j \in 0..k] ==
        IF j = 0 THEN from
        ELSE LET nearer == near[j - 1]
             IN nearer \cup UNION {ToSet(Adjacent(g, u)) : u \in nearer}
  IN near[k]

\* The length of the shortest path from v to a node of the set.
TrueDistance(g, n, from, v) ==
  LET ks == {k \in 0..n : v \in Within(g, n, from, k)}
  IN IF ks = {} THEN Infinity ELSE Min(ks)

\* dist holds the true distances and following par leads from every node to a
\* source along a shortest path.
Correct(g, n, from, dist, par) ==
  /\ DOMAIN dist = 0..(n - 1) /\ DOMAIN par = 0..(n - 1)
  /\ \A v \in 0..(n - 1) :
       /\ dist[v] = TrueDistance(g, n, from, v)
       /\ IF v \in from THEN par[v] = v
          ELSE /\ par[v] \in ToSet(Adjacent(g, v))
               /\ dist[par[v]] + 1 = dist[v]
=============================================================================
