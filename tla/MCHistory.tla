------------------------------ MODULE MCHistory -----------------------------
(***************************************************************************)
(* Lines of one and of two characters, in histories of two, and a file that *)
(* takes up to three reads.                                                 *)
(***************************************************************************)
EXTENDS History, TLC

MCTexts == {<<"l", "s">>, <<"x">>}
MCShells == Permutations(Shells)
MCExit == <<"x">>

\* What the file is after an overlap is explored no further: overlapped is never
\* reset, and the invariants of the run that are about the file end with it.
MCNoOverlapBefore == ~overlapped
=============================================================================
