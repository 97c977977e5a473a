-------------------------- MODULE DeploymentBackend -------------------------
(***************************************************************************)
(* What DockerDeployment and KubernetesDeployment share: the objects a     *)
(* backend (the Docker daemon, the Kubernetes API server) holds for one    *)
(* run and one runtime, what a call to it may do and answer, and the order *)
(* in which the run and the sandbox manager call the deployment.           *)
(*                                                                         *)
(* A call may fail before or after it took effect, and a deletion whose    *)
(* answer is lost may take effect later (`deleting`).  A creation whose    *)
(* answer is lost has happened by the time Create looks for it, or never:  *)
(* no lookup could tell otherwise.                                         *)
(***************************************************************************)

\* The run's network (Docker) or policy on its bridge pods (Kubernetes), the
\* task's policy and service, the container or pod.  Docker has no objects of
\* a task's own besides the container.
Object == {"run", "task", "service", "runtime"}
Environment == {"run", "task"}

VARIABLES
  \* the backend
  objects,   \* the objects of this run that exist
  deleting,  \* deletions still to take effect
  foreign,   \* an object of someone else has the runtime's name
  running,   \* the container runs, or the pod's gate is open
  \* the deployment
  started, ended,   \* the started and stopped flags
  claimed,   \* objects under whose name Stop has to look
  known,     \* Docker: the network's identity is known
  ready,     \* environments started and not yet stopped, the validated runtime
  forward,   \* Kubernetes: the state of the runtime's port-forward
  \* the calls
  outcome, confirmed,   \* what Create returned; a Stop returned nil
  pc                    \* where the call in progress is

backend == <<objects, deleting, foreign, running>>
calls == <<outcome, confirmed>>
flags == <<started, ended, claimed, known, ready, forward>>
vars == <<backend, flags, calls, pc>>

Init ==
  /\ objects = {} /\ deleting = {} /\ running = FALSE
  /\ foreign \in BOOLEAN
  /\ started = {} /\ ended = {} /\ claimed = {} /\ known = {} /\ ready = {}
  /\ forward = "none"
  /\ outcome = "none" /\ confirmed = FALSE /\ pc = "idle"

-----------------------------------------------------------------------------
(* Calls to the backend *)

\* A creation is refused while the name is taken.
Conflict(o) == o = "runtime" /\ foreign

CreateSucceeds(o) ==
  /\ ~Conflict(o)
  /\ objects' = objects \cup {o}
  /\ UNCHANGED <<deleting, foreign, running>>

CreateFails(o) ==
  /\ UNCHANGED objects \/ (~Conflict(o) /\ objects' = objects \cup {o})
  /\ UNCHANGED <<deleting, foreign, running>>

\* A deletion by name removes whatever has the name.
Gone(o) ==
  /\ objects' = objects \ {o} /\ deleting' = deleting \ {o}
  /\ foreign' = (foreign /\ o # "runtime")
  /\ running' = (running /\ o # "runtime")
DeleteSucceeds(o) == Gone(o)
DeleteFails(o) ==
  \/ UNCHANGED backend
  \/ Gone(o)
  \/ /\ o \in objects /\ deleting' = deleting \cup {o}
     /\ UNCHANGED <<objects, foreign, running>>

\* What an inspection answers: it may also fail.
Answers(o) ==
  {"error", IF o \in objects \/ Conflict(o) THEN "found" ELSE "missing"}

\* The backend completes what it was asked for earlier; the process ends.
BackendStep ==
  /\ \/ \E o \in deleting : Gone(o)
     \/ /\ running /\ running' = FALSE
        /\ UNCHANGED <<objects, deleting, foreign>>
  /\ UNCHANGED <<flags, calls, pc>>

-----------------------------------------------------------------------------
(* The order of calls: internal/app/infrastructure.go for the run, and     *)
(* Manager.Start and Sandbox.stopOnce of pkg/sandbox for the task.  The    *)
(* run's environment is stopped once the tasks are over, whatever they     *)
(* left behind; no call of a task comes after that.                        *)

MayStartRun == pc = "idle" /\ "run" \notin started
MayStartTask == /\ pc = "idle" /\ "run" \in ready
                /\ "task" \notin started
MayCreate == pc = "idle" /\ Environment \subseteq ready /\ outcome = "none"
\* The sandbox manager starts a runtime once, after it was validated.
MayStart == /\ pc = "idle" /\ "run" \in ready
            /\ outcome = "identity" /\ ~confirmed
            /\ "runtime" \in (ready \cap objects) \ started
MayStop == /\ pc = "idle" /\ "run" \in ready
           /\ outcome = "identity" /\ ~confirmed
\* Stop of the task's environment, once nothing is known of the runtime.
MayEndTask ==
  /\ pc = "idle" /\ "run" \in ready
  /\ "task" \in started \ ended
  /\ outcome = "identity" => confirmed
MayEndRun == pc = "idle" /\ "run" \in started \ ended

\* The call returns, or goes on at p.
Goto(p) == pc' = p
Returns == Goto("idle")
Ends(e) == ended' = ended \cup {e}
Create(r) == outcome' = r /\ UNCHANGED confirmed /\ Returns
=============================================================================
