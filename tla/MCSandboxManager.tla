-------------------------- MODULE MCSandboxManager --------------------------
(***************************************************************************)
(* Instance of SandboxManager for TLC: two callers can start two sandboxes *)
(* at once, or meet in the stop of one.                                    *)
(***************************************************************************)
EXTENDS SandboxManager

CONSTANTS s1, s2, c1, c2
=============================================================================
