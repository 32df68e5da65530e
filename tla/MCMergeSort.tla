----------------------------- MODULE MCMergeSort -----------------------------
(***************************************************************************)
(* Lists of five elements, in a memory that the list and the temporary list *)
(* of the last merge fill exactly.                                          *)
(***************************************************************************)
EXTENDS MergeSort

MCPastEnd == {0, 1}
MCValues == 1..3
=============================================================================
