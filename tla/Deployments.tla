---------------------------- MODULE Deployments -----------------------------
(***************************************************************************)
(* The two deployments under the same calls: platform chooses one.  Both   *)
(* implement the contract of module Deployment.                            *)
(***************************************************************************)
EXTENDS DeploymentBackend

VARIABLE platform

Docker == INSTANCE DockerDeployment
Kubernetes == INSTANCE KubernetesDeployment

PlatformInit == Init /\ platform \in {"docker", "kubernetes"}

Next ==
  /\ \/ platform = "docker" /\ Docker!Next
     \/ platform = "kubernetes" /\ Kubernetes!Next
     \/ BackendStep
  /\ UNCHANGED platform

Spec == PlatformInit /\ [][Next]_<<vars, platform>>

-----------------------------------------------------------------------------
(* Properties *)

\* The object that isolates the sandbox: Docker's network, the pod's policy.
Attachments == IF platform = "docker" THEN {"run"} ELSE {"task"}

\* A nil Stop of an environment means that none of its objects is left, even
\* if the answer to their creation or to an earlier deletion was lost
\* (RunEnvironment.Stop and taskEnvironment.Stop of both packages).
EnvironmentConfirmed ==
  /\ "run" \in ended => "run" \notin objects
  /\ "task" \in ended => objects \cap {"task", "service"} = {}

\* A runtime never exists without the network or policy that isolates it, as
\* long as its Create could tell what it allocated: "one that lands second
\* leaves a window in which the container runs unisolated"
\* (kubernetes/environment.go, taskEnvironment.Start and Stop).  That holds
\* also for a runtime whose Stop failed, although the run's environment is
\* stopped under it: the daemon keeps a network in use, and stopOnce keeps
\* the policy of a pod it could not remove.
NeverUnisolated ==
  "runtime" \in objects /\ outcome # "unconfirmed" => Attachments \subseteq objects

\* A runtime of someone else that has the requested name is never removed,
\* whatever answers are lost (the ownership checks of Create's recovery).
ForeignSurvives == [][foreign' = foreign]_foreign

\* Create and Stop of both deployments keep the contract's promise.
Promise ==
  INSTANCE Deployment WITH exists <- "runtime" \in objects
Contract == Promise!Spec
=============================================================================
