-------------------------- MODULE MCHarnessRuntime --------------------------
(* Model values for HarnessRuntime: two concurrent calls (a Run and the     *)
(* Stop that removes its runtime, or a Stop and one that joins it) over two *)
(* occurrences, the second of which may start when the first was removed.   *)
EXTENDS HarnessRuntime

CONSTANTS c1, c2, o1, o2
=============================================================================
