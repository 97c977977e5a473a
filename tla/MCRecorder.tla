----------------------------- MODULE MCRecorder -----------------------------
(***************************************************************************)
(* Instance of Recorder for TLC: two callers of Start and Stop, two tasks. *)
(***************************************************************************)
EXTENDS Recorder

CONSTANTS c1, c2
=============================================================================
