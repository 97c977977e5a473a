-------------------------- MODULE MCSglangRuntime --------------------------
(***************************************************************************)
(* Instance of SglangRuntime for TLC: two Stop calls can meet, join or     *)
(* follow each other.                                                      *)
(***************************************************************************)
EXTENDS SglangRuntime

CONSTANTS c1, c2
=============================================================================
