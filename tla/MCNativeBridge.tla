--------------------------- MODULE MCNativeBridge ---------------------------
(***************************************************************************)
(* Model values for NativeBridge: two handlers, two Stop calls and an      *)
(* audit that is full after one record.                                    *)
(***************************************************************************)
EXTENDS NativeBridge

CONSTANTS h1, h2, c1, c2
=============================================================================
