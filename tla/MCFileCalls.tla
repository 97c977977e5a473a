----------------------------- MODULE MCFileCalls ----------------------------
(***************************************************************************)
(* Two writes and one read of one path, on either platform.                *)
(***************************************************************************)
EXTENDS FileCalls
=============================================================================
