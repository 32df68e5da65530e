----------------------------- MODULE MCSnsUsers -----------------------------
(***************************************************************************)
(* Seven nodes, three of them drawn per round: the four nodes whose mark   *)
(* is never cleared are used up after two rounds at the earliest.          *)
(***************************************************************************)
EXTENDS SnsUsers
=============================================================================
