--------------------------- MODULE MCTaskRunner ---------------------------
(***************************************************************************)
(* Instance of TaskRunner for TLC.  Two tasks make a leak of the first     *)
(* visible while the second runs; an evaluation sandbox beside the task's  *)
(* makes a partial failure of their cleanup possible.                      *)
(***************************************************************************)
EXTENDS TaskRunner
=============================================================================
