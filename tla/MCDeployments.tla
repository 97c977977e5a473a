--------------------------- MODULE MCDeployments ----------------------------
(***************************************************************************)
(* Both platforms, one run with one task and its runtime; every call may   *)
(* fail or lose its answer, and a lost deletion may take effect late.  The *)
(* runtime is sampled all the while, over three points of time.            *)
(***************************************************************************)
EXTENDS Telemetry
=============================================================================
