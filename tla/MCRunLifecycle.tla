--------------------------- MODULE MCRunLifecycle ---------------------------
(* RunLifecycle for TLC: three tasks over two slots, so that an admission   *)
(* waits for a task, and an index that overflows in the second round of a   *)
(* loop.                                                                    *)
EXTENDS RunLifecycle
=============================================================================
