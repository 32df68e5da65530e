---------------------------- MODULE MCGoodMalloc ----------------------------
(***************************************************************************)
(* Eight words and three lists of two, two and four words with their       *)
(* headers: they fill the memory exactly.                                  *)
(***************************************************************************)
EXTENDS GoodMalloc, TLC

CONSTANTS t1, t2, t3

MCThreads == {t1, t2, t3}
MCSize == t1 :> 1 @@ t2 :> 1 @@ t3 :> 3
MCPastEnd == {0, 1}
=============================================================================
