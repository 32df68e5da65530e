------------------------------ MODULE MCJobs ------------------------------
(***************************************************************************)
(* Jobs with small bounds: a session of a few processes.                   *)
(***************************************************************************)
EXTENDS Jobs
=============================================================================
