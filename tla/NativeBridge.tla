---------------------------- MODULE NativeBridge ----------------------------
(***************************************************************************)
(* One native tool bridge: the Manager and session of pkg/bridge/grpc and  *)
(* pkg/bridge/ssh with their handlers, over the audit writer.  StartTarget *)
(* opens a listener and the logs; handlers are admitted, checked, run in   *)
(* the borrowed sandbox and recorded; Stop revokes admission, joins every  *)
(* handler, then seals the audit, and may be retried until it succeeds.    *)
(*                                                                         *)
(* The two transports differ in admission.  SSH admits a channel under the *)
(* lock that revoke takes.  A gRPC handler starts whenever the server has  *)
(* not been stopped and looks at an atomic flag; the server's Stop waits   *)
(* for handlers.  The SSH connection layer only passes channels on and is  *)
(* not modelled.  The sandbox is external: it ends a canceled call.        *)
(***************************************************************************)
EXTENDS AuditWriter

CONSTANT Caller   \* Stop calls of the bridge's owner

VARIABLES
  transport,
  \* Manager
  used,
  session,     \* none, live, partial (a failed start to clean up), ended
  stopping, stopErr,
  \* bridgeSession
  revoked, serving, removed,
  call,        \* where each handler is
  ran,         \* history: the calls that entered the sandbox
  stop,        \* where each Stop call is
  confirmed    \* history: some Stop call has returned nil

manager == <<used, session, stopping, stopErr>>
vars == <<auditVars, transport, manager, revoked, serving, removed, call, ran,
          stop, confirmed>>

Init ==
  /\ AuditInit
  /\ transport \in {"grpc", "ssh"}
  /\ used = FALSE /\ session = "none" /\ stopping = FALSE /\ stopErr = FALSE
  /\ revoked = FALSE /\ serving = FALSE /\ removed = FALSE
  /\ call = [h \in Call |-> "none"] /\ ran = {}
  /\ stop = [c \in Caller |-> "idle"]
  /\ confirmed = FALSE

-----------------------------------------------------------------------------
(* StartTarget, under the manager's lock *)

\* Already used, or no target, no listener address: nothing changes but the error.
Startable == ~used /\ session = "none" /\ ~stopping

StartTarget ==
  /\ Startable
  /\ used' = TRUE /\ session' = "live" /\ stopErr' = FALSE /\ serving' = TRUE
  /\ UNCHANGED <<auditVars, transport, stopping, revoked, removed, call, ran, stop,
                 confirmed>>

\* The listener or a log cannot be opened: there are no handlers and no audit
\* writer yet, only the artifact directory has to go.
StartFails ==
  /\ Startable
  /\ used' = TRUE /\ revoked' = TRUE
  /\ \/ removed' = TRUE /\ UNCHANGED session
     \/ session' = "partial" /\ UNCHANGED removed
  /\ UNCHANGED <<auditVars, transport, stopping, stopErr, serving, call, ran, stop,
                 confirmed>>

-----------------------------------------------------------------------------
(* Handlers *)

Step(h, p) == call' = [call EXCEPT ![h] = p]
Others == <<transport, manager, revoked, serving, removed, stop, confirmed>>

Admits == serving /\ (transport = "ssh" => ~revoked)

Admit(h) ==
  /\ session = "live" /\ call[h] = "none" /\ Admits
  /\ Step(h, "admitted")
  /\ UNCHANGED <<auditVars, Others, ran>>

\* An SSH request that is not exec, under the policy to reject and continue.
Unsupported(h) ==
  /\ transport = "ssh" /\ call[h] = "admitted"
  /\ Enqueue(h, FALSE)
  /\ UNCHANGED <<retained, writer, entry, disk, Others, call, ran>>

\* The SSH channel is closed before any exec request: there is nothing to record.
HangsUp(h) ==
  /\ transport = "ssh" /\ call[h] = "admitted"
  /\ Step(h, "finished")
  /\ UNCHANGED <<auditVars, Others, ran>>

\* revoked, or the request is malformed
Refuse(h) ==
  /\ call[h] = "admitted"
  /\ Step(h, "recording")
  /\ UNCHANGED <<auditVars, Others, ran>>

Check(h) ==
  /\ call[h] = "admitted"
  /\ transport = "grpc" => ~revoked
  /\ Step(h, "checked")
  /\ UNCHANGED <<auditVars, Others, ran>>

CheckAudit(h) ==
  /\ call[h] = "checked"
  /\ Step(h, IF auditErr THEN "recording" ELSE "allowed")
  /\ UNCHANGED <<auditVars, Others, ran>>

\* The SSH accept reply cannot be sent, or the gRPC arguments are refused.
RefuseLate(h) ==
  /\ call[h] = "allowed"
  /\ Step(h, "recording")
  /\ UNCHANGED <<auditVars, Others, ran>>

Run(h) ==
  /\ call[h] = "allowed"
  /\ Step(h, "running") /\ ran' = ran \cup {h}
  /\ UNCHANGED <<auditVars, Others>>

\* An SSH request that only drains its input is answered without the sandbox.
Drain(h) ==
  /\ call[h] = "allowed" /\ transport = "ssh"
  /\ Step(h, "running")
  /\ UNCHANGED <<auditVars, Others, ran>>

\* The sandbox call returns: completed, failed or canceled.
RunReturns(h) ==
  /\ call[h] = "running"
  /\ Step(h, "recording")
  /\ UNCHANGED <<auditVars, Others, ran>>

\* Mutant: the input that is too large to keep is not an audit error.
OverflowIgnored(h) ==
  /\ call[h] = "running" /\ transport = "ssh"
  /\ Step(h, "finished")
  /\ UNCHANGED <<auditVars, Others, ran>>
\* More SSH input was read than the audit may retain: no record, but an error.
Overflow(h) ==
  /\ call[h] = "running" /\ transport = "ssh"
  /\ Latch
  /\ Step(h, "finished")
  /\ UNCHANGED <<retained, writer, entry, disk, Others, ran>>

Recorded(h) ==
  /\ call[h] = "recording"
  /\ Enqueue(h, h \in ran)
  /\ Step(h, "finished")
  /\ UNCHANGED <<retained, writer, entry, disk, Others, ran>>

\* A handler moves on; Unsupported leaves it where it is.
HandlerStep(h) ==
  \/ HangsUp(h) \/ Refuse(h) \/ Check(h) \/ CheckAudit(h) \/ RefuseLate(h)
  \/ Run(h) \/ Drain(h) \/ RunReturns(h) \/ Overflow(h) \/ Recorded(h)

Alive == {h \in Call : call[h] \notin {"none", "finished"}}

-----------------------------------------------------------------------------
(* Stop *)

Goto(c, p) == stop' = [stop EXCEPT ![c] = p] /\ UNCHANGED confirmed
Return(c, failed) ==
  /\ stop' = [stop EXCEPT ![c] = "idle"]
  /\ confirmed' = (confirmed \/ ~failed)
Served == <<transport, call, ran>>

\* Nothing to stop; the manager cannot be started any more.
StopInactive(c) ==
  /\ stop[c] = "idle" /\ session \in {"none", "ended"} /\ ~stopping
  /\ used' = TRUE
  /\ Return(c, stopErr)
  /\ UNCHANGED <<auditVars, Served, session, stopping, stopErr, revoked, serving, removed>>
Join == stopping

StopJoins(c) ==
  /\ stop[c] = "idle" /\ Join
  /\ Goto(c, "join")
  /\ UNCHANGED <<auditVars, Served, manager, revoked, serving, removed>>

StopBegins(c) ==
  /\ stop[c] = "idle" /\ session \in {"live", "partial"} /\ ~Join
  /\ stopping' = TRUE
  /\ Goto(c, "revoke")
  /\ UNCHANGED <<auditVars, Served, used, session, stopErr, revoked, serving, removed>>

Revoke(c) ==
  /\ stop[c] = "revoke"
  /\ revoked' = TRUE
  /\ Goto(c, "close")
  /\ UNCHANGED <<auditVars, Served, manager, serving, removed>>

\* The context of the calls is canceled, then the listener and the connections
\* are closed (SSH) or the server is stopped (gRPC).
CloseTransport(c) ==
  /\ stop[c] = "close"
  /\ serving' = FALSE
  /\ Goto(c, "wait")
  /\ UNCHANGED <<auditVars, Served, manager, revoked, removed>>
\* wait.Wait: the accept loop and every handler have returned.
Joined == ~serving /\ Alive = {}

Waited(c) ==
  /\ stop[c] = "wait" /\ Joined
  /\ Goto(c, IF session = "live" THEN "seal" ELSE "remove")
  /\ UNCHANGED <<auditVars, Served, manager, revoked, serving, removed>>

Seals(c) ==
  /\ stop[c] = "seal"
  /\ Seal
  /\ Goto(c, "drain")
  /\ UNCHANGED <<Served, manager, revoked, serving, removed>>
\* Calls that wait for the done channel of this attempt.
Wakened(p) == [d \in Caller |-> IF stop[d] = "join" THEN "joined" ELSE p[d]]

\* The attempt ends: a failed one keeps the session for another Stop.
Ends(c, failed) ==
  /\ stopErr' = failed /\ stopping' = FALSE
  /\ session' = IF failed THEN session ELSE "ended"
  /\ stop' = Wakened([stop EXCEPT ![c] = "idle"])
  /\ confirmed' = (confirmed \/ ~failed)
  /\ UNCHANGED used

\* Mutant: the drain is confirmed when the queue is empty.
DrainedEmpty == pending = <<>>
Drained == Finished

StopDrained(c) ==
  /\ stop[c] = "drain" /\ Drained
  /\ Ends(c, auditErr)
  /\ UNCHANGED <<auditVars, Served, revoked, serving, removed>>

\* A partial start: the artifact directory is removed, or stays for a retry.
StopRemoves(c) ==
  /\ stop[c] = "remove"
  /\ \/ removed' = TRUE /\ Ends(c, FALSE)
     \/ UNCHANGED removed /\ Ends(c, TRUE)
  /\ UNCHANGED <<auditVars, Served, revoked, serving>>

\* The context of the call ends while it waits.
StopTimesOut(c) ==
  /\ stop[c] \in {"wait", "drain"}
  /\ Ends(c, TRUE)
  /\ UNCHANGED <<auditVars, Served, revoked, serving, removed>>

JoinReturns(c) ==
  /\ stop[c] = "joined"
  /\ Return(c, stopErr)
  /\ UNCHANGED <<auditVars, Served, manager, revoked, serving, removed>>

JoinGivesUp(c) ==
  /\ stop[c] = "join"
  /\ Return(c, TRUE)
  /\ UNCHANGED <<auditVars, Served, manager, revoked, serving, removed>>

StopStep(c) ==
  \/ Revoke(c) \/ CloseTransport(c) \/ Waited(c) \/ Seals(c) \/ StopDrained(c)
  \/ StopRemoves(c) \/ JoinReturns(c)

Next ==
  \/ StartTarget \/ StartFails
  \/ AuditNext /\ UNCHANGED <<Others, call, ran>>
  \/ \E h \in Call : Admit(h) \/ Unsupported(h) \/ HandlerStep(h)
  \/ \E c \in Caller : \/ StopInactive(c) \/ StopJoins(c) \/ StopBegins(c)
                       \/ StopStep(c) \/ StopTimesOut(c) \/ JoinGivesUp(c)

\* Goroutines run, and once revoked the sandbox ends the calls, whose context is
\* canceled, and the clients' channels are closed.  No fairness for timeouts: Stop must not depend on its deadline to return.
Spec ==
  /\ Init /\ [][Next]_vars
  /\ WF_vars(AuditNext /\ UNCHANGED <<Others, call, ran>>)
  /\ \A h \in Call : WF_vars(revoked /\ HandlerStep(h))
  /\ \A c \in Caller : WF_vars(StopStep(c))

-----------------------------------------------------------------------------
(* Properties *)

\* The shape of the bridge's state; the audit never holds more than its limit.
TypeOK ==
  /\ AuditTypeOK
  /\ transport \in {"grpc", "ssh"}
  /\ used \in BOOLEAN /\ stopping \in BOOLEAN /\ stopErr \in BOOLEAN
  /\ session \in {"none", "live", "partial", "ended"}
  /\ revoked \in BOOLEAN /\ serving \in BOOLEAN /\ removed \in BOOLEAN
  /\ call \in [Call -> {"none", "admitted", "checked", "allowed", "running",
                        "recording", "finished"}]
  /\ ran \in SUBSET Call
  /\ stop \in [Caller -> {"idle", "revoke", "close", "wait", "seal", "drain", "remove",
                          "join", "joined"}]
  /\ confirmed \in BOOLEAN

InLog(log, h) == \E i \in 1..Len(log) : log[i].of = h /\ log[i].ran

\* When Stop has returned nil, access is over and the evidence is complete: no
\* handler is left and none can come, and each call that entered the sandbox
\* is in the log and, where it is kept, in the raw log.
ConfirmedIsAudited ==
  confirmed =>
    /\ Alive = {} /\ ~serving
    /\ \A h \in ran : InLog(structured, h) /\ (retained => InLog(raw, h))

\* No record is lost in silence: a call that has entered the sandbox is still
\* at work, in the queue, in the writer's hands or in the log, or the audit
\* has latched an error, which no later Stop can hide.
NoSilentLoss ==
  \A h \in ran : h \in Alive \/ InLog(Written, h) \/ auditErr

\* Stop returns without the help of its deadline.
StopReturns == \A c \in Caller : stop[c] # "idle" ~> stop[c] = "idle"
=============================================================================
