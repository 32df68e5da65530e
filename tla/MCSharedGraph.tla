---------------------------- MODULE MCSharedGraph ----------------------------
(***************************************************************************)
(* Two nodes and an edge, two consumers to share it of which one runs, and   *)
(* a producer that adds a node with one or two edges in each production.    *)
(***************************************************************************)
EXTENDS SharedGraph

MCConsumers == {1}
MCInitialEdges == <<<<0, 1>>>>
=============================================================================
