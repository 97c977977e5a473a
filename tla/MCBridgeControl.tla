-------------------------- MODULE MCBridgeControl --------------------------
(***************************************************************************)
(* Instance of BridgeService for TLC.  One sandbox shows every order of    *)
(* calls, strays, goroutines and exits of a session, under every order of  *)
(* the service's own Start and Stop.                                       *)
(***************************************************************************)
EXTENDS BridgeService

CONSTANTS s1
=============================================================================
