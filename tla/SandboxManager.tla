--------------------------- MODULE SandboxManager ---------------------------
(***************************************************************************)
(* Ownership of the container and the task environment (network) of each   *)
(* sandbox: Manager.Start with its rollback, Sandbox.stop with the calls   *)
(* that join a stop in progress, and Manager.Close, which retries what a   *)
(* rollback could not remove (pkg/sandbox/sandbox.go).                     *)
(*                                                                         *)
(* The deployment is external: each call succeeds or fails, and a failed   *)
(* call may have had its effect or not.  The calls of Start after Create   *)
(* (Validate, Start, Running, Exec of pwd) own nothing new, so they are    *)
(* one step that fails or not.                                             *)
(***************************************************************************)
CONSTANTS Sandbox, Caller

Part == {"container", "environment"}
Thread == Caller \cup {"close"}
ASSUME CallerAssumption == Sandbox # {} /\ "close" \notin Caller

VARIABLES
  \* Sandbox
  owned,     \* the parts whose containerOwned / environmentOwned is set
  stopping, stopped, stopErr,
  \* Manager
  started,   \* the sandboxes Start was called for
  live,      \* the sandboxes Start returned to its caller
  pending,   \* Manager.pending
  closeTodo, closeErr,   \* Close's copy of pending, and whether it met an error
  closed,    \* deployment.Close was called
  \* threads
  pc, job,   \* where each thread is, and the sandbox it works on
  failed,    \* whether its stopOnce met an error
  \* the deployment
  exists,    \* the parts of each sandbox that exist
  unconfirmed,  \* history: Create returned ErrAllocationUnconfirmed
  gone       \* history: sandboxes of which some Stop returned nil

sandbox == <<owned, stopping, stopped, stopErr>>
manager == <<started, live, pending, closeTodo, closeErr, closed>>
vars == <<sandbox, manager, pc, job, failed, exists, unconfirmed, gone>>

StartStep == {"startEnvironment", "create", "confirm"}
StopStep == {"logs", "container", "environment", "end"}
PC == {"idle", "wait", "awake", "next"} \cup StartStep \cup StopStep

Init ==
  /\ owned = [s \in Sandbox |-> {}] /\ exists = [s \in Sandbox |-> {}]
  /\ stopping = {} /\ stopped = {} /\ stopErr = {}
  /\ started = {} /\ live = {} /\ pending = {} /\ gone = {} /\ unconfirmed = {}
  /\ closeTodo = {} /\ closeErr = FALSE /\ closed = FALSE
  /\ pc = [c \in Thread |-> "idle"]
  /\ job = [c \in Thread |-> CHOOSE s \in Sandbox : TRUE]
  /\ failed = [c \in Thread |-> FALSE]

Goto(c, p) == pc' = [pc EXCEPT ![c] = p]
Enter(c, p, s) == Goto(c, p) /\ job' = [job EXCEPT ![c] = s]
\* stopOnce begins: with the logs when the caller asks for them.
StopOnce(c, p) == Goto(c, p) /\ failed' = [failed EXCEPT ![c] = FALSE]

-----------------------------------------------------------------------------
(* Manager.Start *)

\* Start refuses the request before it owns anything (identity, environment,
\* purpose, ID, artifact directory), or takes ownership of the environment
\* before it starts it.  The application closes the Manager last.
Start(c, s) ==
  /\ pc[c] = "idle" /\ s \notin started /\ ~closed /\ pc["close"] = "idle"
  /\ started' = started \cup {s}
  /\ \/ UNCHANGED <<owned, pc, job>>
     \/ /\ owned' = [owned EXCEPT ![s] = {"environment"}]
        /\ Enter(c, "startEnvironment", s)
  /\ UNCHANGED <<stopping, stopped, stopErr, live, pending, closeTodo, closeErr,
                 closed, failed, exists, gone, unconfirmed>>

\* A failed environment.Start may leave the environment behind.
StartEnvironment(c) ==
  /\ pc[c] = "startEnvironment"
  /\ \/ /\ exists' = [exists EXCEPT ![job[c]] = {"environment"}]
        /\ Goto(c, "create") /\ UNCHANGED failed
     \/ /\ exists' \in {exists, [exists EXCEPT ![job[c]] = {"environment"}]}
        /\ StopOnce(c, "container")
  /\ UNCHANGED <<sandbox, manager, job, gone, unconfirmed>>

\* Mutant: the container is owned only when Create succeeded.
OwnedIfCreated(id, err) == id /\ ~err

ContainerOwned(id, err) == id

\* deployment.Create may fail and still name a container to remove; without a
\* name there is none, unless the error is ErrAllocationUnconfirmed.
Create(c) ==
  /\ pc[c] = "create"
  /\ \/ \E id, err \in BOOLEAN :
          LET more == IF id THEN {"container"} ELSE {}
              ours == IF ContainerOwned(id, err) THEN {"container"} ELSE {} IN
          /\ exists' = [exists EXCEPT ![job[c]] = @ \cup more]
          /\ owned' = [owned EXCEPT ![job[c]] = @ \cup ours]
          /\ IF id /\ ~err THEN Goto(c, "confirm") /\ UNCHANGED failed
                           ELSE StopOnce(c, "container")
          /\ UNCHANGED unconfirmed
     \/ /\ exists' \in {exists, [exists EXCEPT ![job[c]] = @ \cup {"container"}]}
        /\ unconfirmed' = unconfirmed \cup {job[c]}
        /\ StopOnce(c, "container") /\ UNCHANGED owned
  /\ UNCHANGED <<stopping, stopped, stopErr, manager, job, gone>>

Confirm(c) ==
  /\ pc[c] = "confirm"
  /\ \/ live' = live \cup {job[c]} /\ Goto(c, "idle") /\ UNCHANGED failed
     \/ StopOnce(c, "container") /\ UNCHANGED live
  /\ UNCHANGED <<sandbox, started, pending, closeTodo, closeErr, closed, job,
                 exists, gone, unconfirmed>>

-----------------------------------------------------------------------------
(* Sandbox.stop *)

Join(s) == s \in stopping

Stop(c, s) ==
  /\ pc[c] = "idle" /\ c \in Caller /\ s \in live
  /\ \/ s \in stopped /\ gone' = gone \cup {s}
        /\ UNCHANGED <<stopping, pc, job, failed>>
     \/ /\ s \notin stopped /\ Join(s) /\ Enter(c, "wait", s)
        /\ UNCHANGED <<stopping, failed, gone>>
     \/ /\ s \notin stopped /\ ~Join(s)
        /\ stopping' = stopping \cup {s}
        /\ StopOnce(c, "logs") /\ job' = [job EXCEPT ![c] = s]
        /\ UNCHANGED gone
  /\ UNCHANGED <<owned, stopped, stopErr, manager, exists, unconfirmed>>

\* A joined call returns the error that is current when it looks.
StopJoined(c) ==
  /\ pc[c] = "awake" /\ Goto(c, "idle")
  /\ gone' = IF job[c] \in stopErr THEN gone ELSE gone \cup {job[c]}
  /\ UNCHANGED <<sandbox, manager, job, failed, exists, unconfirmed>>

\* The context of a joined call is done.
StopGivesUp(c) ==
  /\ pc[c] = "wait" /\ Goto(c, "idle")
  /\ UNCHANGED <<sandbox, manager, job, failed, exists, gone, unconfirmed>>

CollectLogs(c) ==
  /\ pc[c] = "logs"
  /\ Goto(c, "container")
  /\ failed' \in {failed, [failed EXCEPT ![c] = "container" \in owned[job[c]]]}
  /\ UNCHANGED <<sandbox, manager, job, exists, gone, unconfirmed>>

\* Remove part p of the sandbox: it is disowned only when the call succeeds.
Remove(c, p) ==
  \/ /\ exists' = [exists EXCEPT ![job[c]] = @ \ {p}]
     /\ owned' = [owned EXCEPT ![job[c]] = @ \ {p}]
     /\ UNCHANGED failed
  \/ /\ exists' \in {exists, [exists EXCEPT ![job[c]] = @ \ {p}]}
     /\ failed' = [failed EXCEPT ![c] = TRUE]
     /\ UNCHANGED owned

\* The environment is removed only after its container.
EnvironmentRemovable(s) == owned[s] = {"environment"}

RemoveContainer(c) ==
  /\ pc[c] = "container" /\ Goto(c, "environment")
  /\ IF "container" \in owned[job[c]] THEN Remove(c, "container")
                                      ELSE UNCHANGED <<exists, owned, failed>>
  /\ UNCHANGED <<stopping, stopped, stopErr, manager, job, gone, unconfirmed>>

RemoveEnvironment(c) ==
  /\ pc[c] = "environment" /\ Goto(c, "end")
  /\ IF EnvironmentRemovable(job[c]) THEN Remove(c, "environment")
                                     ELSE UNCHANGED <<exists, owned, failed>>
  /\ UNCHANGED <<stopping, stopped, stopErr, manager, job, gone, unconfirmed>>

\* Mutant: a removed container is enough.
StoppedIfNoContainer(s) == "container" \notin owned[s]

StoppedNow(s) == owned[s] = {}

Wakes(s) == {d \in Thread : pc[d] = "wait" /\ job[d] = s}

\* stop publishes the outcome and wakes the calls that joined it.
StopEnd(c) ==
  LET s == job[c] IN
  /\ pc[c] = "end" /\ c # "close" /\ s \in stopping
  /\ stopErr' = IF failed[c] THEN stopErr \cup {s} ELSE stopErr \ {s}
  /\ stopping' = stopping \ {s}
  /\ stopped' = IF StoppedNow(s) THEN stopped \cup {s} ELSE stopped \ {s}
  /\ gone' = IF failed[c] THEN gone ELSE gone \cup {s}
  /\ pc' = [d \in Thread |-> IF d = c THEN "idle"
                             ELSE IF d \in Wakes(s) THEN "awake" ELSE pc[d]]
  /\ UNCHANGED <<owned, manager, job, failed, exists, unconfirmed>>

\* rollbackStart keeps what it could not remove for Close.
PendingAfter(s, err) == IF err THEN pending \cup {s} ELSE pending

RollbackEnd(c) ==
  /\ pc[c] = "end" /\ c # "close" /\ job[c] \notin live
  /\ pending' = PendingAfter(job[c], failed[c])
  /\ Goto(c, "idle")
  /\ UNCHANGED <<sandbox, started, live, closeTodo, closeErr, closed, job, failed,
                 exists, gone, unconfirmed>>

-----------------------------------------------------------------------------
(* Manager.Close, serialised by closeMu; the application calls it when no    *)
(* Start is in progress.                                                     *)
Close ==
  /\ pc["close"] = "idle" /\ \A c \in Caller : job[c] \in live \/ pc[c] = "idle"
  /\ closeTodo' = pending /\ closeErr' = FALSE
  /\ Goto("close", "next")
  /\ UNCHANGED <<sandbox, started, live, pending, closed, job, failed,
                 exists, gone, unconfirmed>>

CloseNext ==
  /\ pc["close"] = "next"
  /\ \E s \in closeTodo :
       /\ closeTodo' = closeTodo \ {s}
       /\ StopOnce("close", "container") /\ job' = [job EXCEPT !["close"] = s]
  /\ UNCHANGED <<sandbox, started, live, pending, closeErr, closed,
                 exists, gone, unconfirmed>>

CloseStopped ==
  /\ pc["close"] = "end" /\ Goto("close", "next")
  /\ closeErr' = (closeErr \/ failed["close"])
  /\ pending' = IF failed["close"] THEN pending ELSE pending \ {job["close"]}
  /\ UNCHANGED <<sandbox, started, live, closeTodo, closed, job, failed,
                 exists, gone, unconfirmed>>

Closable == ~closeErr

\* The transport stays open for another Close when something was left.
CloseEnd ==
  /\ pc["close"] = "next" /\ closeTodo = {}
  /\ closed' = (closed \/ Closable)
  /\ Goto("close", "idle")
  /\ UNCHANGED <<sandbox, started, live, pending, closeTodo, closeErr, job, failed,
                 exists, gone, unconfirmed>>

Step(c) ==
  \/ StartEnvironment(c) \/ Create(c) \/ Confirm(c)
  \/ CollectLogs(c) \/ RemoveContainer(c) \/ RemoveEnvironment(c)
  \/ StopEnd(c) \/ RollbackEnd(c) \/ StopJoined(c)
CloseStep == CloseNext \/ CloseStopped \/ CloseEnd

Next ==
  \/ \E c \in Caller, s \in Sandbox : Start(c, s) \/ Stop(c, s)
  \/ \E c \in Thread : Step(c) \/ StopGivesUp(c)
  \/ Close \/ CloseStep

\* Deployment calls end: their contexts carry deadlines.
Spec == /\ Init /\ [][Next]_vars
        /\ \A c \in Thread : WF_vars(Step(c))
        /\ WF_vars(CloseStep)

-----------------------------------------------------------------------------
\* The shape of the manager's state.
TypeOK ==
  /\ owned \in [Sandbox -> SUBSET Part] /\ exists \in [Sandbox -> SUBSET Part]
  /\ stopping \subseteq Sandbox /\ stopped \subseteq Sandbox /\ stopErr \subseteq Sandbox
  /\ started \subseteq Sandbox /\ live \subseteq Sandbox /\ pending \subseteq Sandbox
  /\ closeTodo \subseteq Sandbox /\ gone \subseteq Sandbox /\ unconfirmed \subseteq Sandbox
  /\ closeErr \in BOOLEAN /\ closed \in BOOLEAN
  /\ pc \in [Thread -> PC] /\ job \in [Thread -> Sandbox]
  /\ failed \in [Thread -> BOOLEAN]

Busy(c, s) == job[c] = s /\ pc[c] \in StartStep \cup StopStep

(***************************************************************************)
(* Nothing that exists is forgotten: it is owned, and its owner can still  *)
(* act on it, being at work, live and not stopped, or the rollback of a    *)
(* failed Start that Close retries before it closes the transport.         *)
(***************************************************************************)
NothingForgotten ==
  \A s \in Sandbox \ unconfirmed :
    /\ exists[s] \subseteq owned[s]
    /\ owned[s] # {} => \/ \E c \in Thread : Busy(c, s)
                        \/ s \in live \ stopped
                        \/ s \in pending /\ ~closed

(***************************************************************************)
(* A Stop that returned nil left nothing behind, also when it only joined  *)
(* the stop of another caller or looked at its error late.                 *)
(***************************************************************************)
NilMeansGone == \A s \in gone : exists[s] = {}
=============================================================================
