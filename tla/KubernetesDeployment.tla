------------------------ MODULE KubernetesDeployment ------------------------
(***************************************************************************)
(* The Kubernetes deployment (pkg/deployment/kubernetes), which drives the *)
(* API server through kubectl: a policy of the run, a policy and a service *)
(* of the task, the pod behind its start gate, and the port-forward that   *)
(* serves a runtime until Stop or Close.  Every object is claimed before   *)
(* it is created, and every deletion is confirmed by a second call.        *)
(***************************************************************************)
EXTENDS DeploymentBackend

-----------------------------------------------------------------------------
(* RunEnvironment and taskEnvironment: Start *)

RunStart ==
  /\ MayStartRun
  /\ started' = started \cup {"run"}
  /\ \/ UNCHANGED <<claimed, pc>>
     \/ claimed' = claimed \cup {"run"} /\ Goto("createRunPolicy")
  /\ UNCHANGED <<backend, ended, known, ready, forward, calls>>

CreateRunPolicy ==
  /\ pc = "createRunPolicy" /\ Returns
  /\ \/ CreateSucceeds("run") /\ ready' = ready \cup {"run"}
     \/ CreateFails("run") /\ UNCHANGED ready
  /\ UNCHANGED <<started, ended, claimed, known, forward, calls>>

\* RunEnvironment.validate: started, not stopped, its policy owned.
RunActive == "run" \in started \ ended /\ "run" \in claimed

\* Refused for its request, or because the run's environment is not active.
TaskStart ==
  /\ MayStartTask
  /\ started' = started \cup {"task"}
  /\ \/ UNCHANGED <<claimed, pc>>
     \/ RunActive /\ claimed' = claimed \cup {"task"} /\ Goto("createTaskPolicy")
  /\ UNCHANGED <<backend, ended, known, ready, forward, calls>>

\* Mutant: the task's environment is ready although its policy failed.
CreateTaskPolicyAnyhow ==
  /\ pc = "createTaskPolicy" /\ Returns
  /\ CreateSucceeds("task") \/ CreateFails("task")
  /\ ready' = ready \cup {"task"}
  /\ UNCHANGED <<started, ended, claimed, known, forward, calls>>

\* A task that declares ports gets a service after its policy.
CreateTaskPolicy ==
  /\ pc = "createTaskPolicy"
  /\ \/ CreateFails("task") /\ Returns /\ UNCHANGED <<ready, claimed>>
     \/ CreateSucceeds("task") /\ Returns /\ ready' = ready \cup {"task"} /\ UNCHANGED claimed
     \/ /\ CreateSucceeds("task") /\ Goto("createService")
        /\ claimed' = claimed \cup {"service"} /\ UNCHANGED ready
  /\ UNCHANGED <<started, ended, known, forward, calls>>

CreateService ==
  /\ pc = "createService" /\ Returns
  /\ \/ CreateSucceeds("service") /\ ready' = ready \cup {"task"}
     \/ CreateFails("service") /\ UNCHANGED ready
  /\ UNCHANGED <<started, ended, claimed, known, forward, calls>>

-----------------------------------------------------------------------------
(* Stop of both environments, and deleteObject *)

\* No Address of a task is left by then.
RunStop ==
  /\ MayEndRun /\ forward # "dialing"
  /\ IF "run" \in claimed THEN Goto("deleteRun") /\ UNCHANGED ended
                          ELSE Ends("run") /\ UNCHANGED pc
  /\ ready' = ready \ {"run"}
  /\ UNCHANGED <<backend, started, claimed, known, forward, calls>>

\* The service first, then the policy.
TaskStop ==
  /\ MayEndTask
  /\ \/ "service" \in claimed /\ Goto("deleteService") /\ UNCHANGED ended
     \/ claimed \cap {"task", "service"} = {"task"} /\ Goto("deleteTask") /\ UNCHANGED ended
     \/ claimed \cap {"task", "service"} = {} /\ Ends("task") /\ UNCHANGED pc
  /\ ready' = ready \ {"task"}
  /\ UNCHANGED <<backend, started, claimed, known, forward, calls>>

DeleteObject(o, here, next) ==
  /\ pc = here
  /\ \/ DeleteSucceeds(o) /\ Goto(next)
     \/ DeleteFails(o) /\ Returns
  /\ UNCHANGED <<flags, calls>>

\* The second call must find nothing.
Deleted(o) == "missing" \in Answers(o)

VerifyDeleted(o, here, done) ==
  /\ pc = here
  /\ \/ Deleted(o) /\ claimed' = claimed \ {o} /\ done
     \/ Returns /\ UNCHANGED <<claimed, ended>>
  /\ UNCHANGED <<backend, started, known, ready, forward, calls>>

DeleteRun == DeleteObject("run", "deleteRun", "verifyRun")
VerifyRun == VerifyDeleted("run", "verifyRun", Ends("run") /\ Returns)
DeleteService == DeleteObject("service", "deleteService", "verifyService")
VerifyService ==
  VerifyDeleted("service", "verifyService", Goto("deleteTask") /\ UNCHANGED ended)
DeleteTask == DeleteObject("task", "deleteTask", "verifyTask")
VerifyTask == VerifyDeleted("task", "verifyTask", Ends("task") /\ Returns)

-----------------------------------------------------------------------------
(* Manager.Create, Validate, Start *)

CreateRefused ==
  /\ MayCreate /\ Create("absent")
  /\ UNCHANGED <<backend, flags>>

CreatePod ==
  /\ MayCreate
  /\ \/ CreateSucceeds("runtime") /\ Goto("waitRunning")
     \/ CreateFails("runtime") /\ Goto("recoverCreate")
  /\ UNCHANGED <<flags, calls>>

\* Whether the pod comes up in time or not, its name is returned.
WaitRunning ==
  /\ pc = "waitRunning" /\ Create("identity")
  /\ UNCHANGED <<backend, flags>>

\* A lost answer: the pod of that name is ours if its annotations are.
RecoverCreate ==
  /\ pc = "recoverCreate"
  /\ \E a \in Answers("runtime") :
       Create(CASE a = "found" /\ ~foreign -> "identity"
                [] a = "missing" -> "absent"
                [] OTHER -> "unconfirmed")
  /\ UNCHANGED <<backend, flags>>

Validate ==
  /\ MayStop /\ "runtime" \in objects
  /\ ready' = ready \cup {"runtime"}
  /\ UNCHANGED <<backend, started, ended, claimed, known, forward, calls, pc>>

\* Start writes the marker the gate waits for.
Start ==
  /\ MayStart
  /\ running' = TRUE /\ started' = started \cup {"runtime"}
  /\ UNCHANGED <<objects, deleting, foreign, ended, claimed, known, ready, forward,
                 calls, pc>>

-----------------------------------------------------------------------------
(* Manager.Address and startPortForward: the lock is held until the local  *)
(* port answers or the forward is given up.                                *)

Address ==
  /\ forward = "none" /\ outcome = "identity" /\ {"run", "runtime"} \subseteq ready
  /\ forward' = "dialing"
  /\ UNCHANGED <<backend, started, ended, claimed, known, ready, calls, pc>>

AddressReturns ==
  /\ forward = "dialing" /\ forward' \in {"held", "none"}
  /\ UNCHANGED <<backend, started, ended, claimed, known, ready, calls, pc>>

\* After the environment's Stop, confirmed or not, Close stops the forwards
\* that are left.
Close ==
  /\ pc = "idle" /\ "run" \in started \ ready /\ forward = "held"
  /\ forward' = "none"
  /\ UNCHANGED <<backend, started, ended, claimed, known, ready, calls, pc>>

-----------------------------------------------------------------------------
(* Manager.Stop *)

Stop ==
  /\ MayStop /\ forward # "dialing"
  /\ forward' = "none" /\ Goto("deletePod")
  /\ UNCHANGED <<backend, started, ended, claimed, known, ready, calls>>

DeletePod ==
  /\ pc = "deletePod"
  /\ \/ DeleteSucceeds("runtime") /\ Goto("verifyPod")
     \/ DeleteFails("runtime") /\ Returns
  /\ UNCHANGED <<flags, calls>>

VerifyPod ==
  /\ pc = "verifyPod" /\ Returns
  /\ \E a \in Answers("runtime") : confirmed' = (a = "missing")
  /\ UNCHANGED <<backend, flags, outcome>>

Next ==
  \/ RunStart \/ CreateRunPolicy \/ TaskStart \/ CreateTaskPolicy \/ CreateService
  \/ RunStop \/ TaskStop \/ DeleteRun \/ VerifyRun \/ DeleteService \/ VerifyService
  \/ DeleteTask \/ VerifyTask \/ CreateRefused \/ CreatePod \/ WaitRunning
  \/ RecoverCreate \/ Validate \/ Start \/ Address \/ AddressReturns \/ Close
  \/ Stop \/ DeletePod \/ VerifyPod
=============================================================================
