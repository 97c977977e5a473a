----------------------------- MODULE Deployment -----------------------------
(***************************************************************************)
(* What pkg/deployment promises of one runtime, whatever the backend:      *)
(* Create returns an identity, or an error that confirms that nothing was  *)
(* allocated, or ErrAllocationUnconfirmed; Stop returns nil only when the  *)
(* runtime is gone.  DockerDeployment and KubernetesDeployment implement   *)
(* this specification.                                                     *)
(***************************************************************************)
VARIABLES
  exists,     \* the backend holds the runtime
  outcome,    \* what Create returned
  confirmed   \* a Stop of the runtime returned nil

Outcome == {"none", "identity", "absent", "unconfirmed"}

Init == ~exists /\ outcome = "none" /\ ~confirmed

\* The allocation happens while Create runs, or later when nobody can tell.
Allocate ==
  /\ outcome \in {"none", "unconfirmed"}
  /\ exists' = TRUE
  /\ UNCHANGED <<outcome, confirmed>>

\* Only an identity or an unconfirmed allocation may leave a runtime behind.
Create ==
  /\ outcome = "none"
  /\ outcome' \in Outcome \ {"none"}
  /\ exists' \in {exists, TRUE}
  /\ outcome' = "absent" => ~exists'
  /\ UNCHANGED confirmed

Remove == exists /\ exists' = FALSE /\ UNCHANGED <<outcome, confirmed>>

Stop ==
  /\ outcome = "identity" /\ ~exists
  /\ confirmed' = TRUE
  /\ UNCHANGED <<exists, outcome>>

Next == Allocate \/ Create \/ Remove \/ Stop

Spec == Init /\ [][Next]_<<exists, outcome, confirmed>>
=============================================================================
