------------------------------- MODULE MCSns -------------------------------
(***************************************************************************)
(* A small social network for TLC: a path of three users whose middle one  *)
(* has two neighbours, two pushers, two readers.                           *)
(***************************************************************************)
EXTENDS Sns, TLC

CONSTANTS u1, u2, u3, p1, p2, r1, r2

MCNodes == {u1, u2, u3}
MCNeighbours == u1 :> <<u2>> @@ u2 :> <<u1, u3>> @@ u3 :> <<u2>>
\* Readers of u2 go by priority, readers of its neighbours by time.
MCOrder == u1 :> 1 @@ u2 :> 0 @@ u3 :> 1

\* Two users who follow each other, one of each order.
MCPair == {u1, u2}
MCPairNeighbours == u1 :> <<u2>> @@ u2 :> <<u1>>
MCPairOrder == u1 :> 1 @@ u2 :> 0

MCPushers == {p1, p2}
MCReaders == {r1, r2}
MCOnePusher == {p1}
ThreadSymmetry == Permutations(MCPushers) \cup Permutations(MCReaders)
=============================================================================
