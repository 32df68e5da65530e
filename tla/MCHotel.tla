------------------------------ MODULE MCHotel ------------------------------
(***************************************************************************)
(* Two rooms, three guests of different priorities, two cleaners.          *)
(***************************************************************************)
EXTENDS Hotel, TLC

CONSTANTS g1, g2, g3, c1, c2

MCGuests == {g1, g2, g3}
MCCleaners == {c1, c2}
MCPriority == g1 :> 1 @@ g2 :> 2 @@ g3 :> 3
CleanerSymmetry == Permutations(MCCleaners)
=============================================================================
