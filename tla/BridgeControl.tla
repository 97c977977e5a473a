--------------------------- MODULE BridgeControl ---------------------------
(***************************************************************************)
(* How one sandbox's access is granted and revoked: the Session on the     *)
(* Runner's side (pkg/bridge session.go, admission.go) calls the control   *)
(* server of the bridge process (pkg/bridge/control), which runs the       *)
(* native server of the sandbox (pkg/bridge serve.go) in goroutines of its *)
(* own.                                                                    *)
(*                                                                         *)
(* A call can be lost or time out at any point.  A request whose caller    *)
(* has gone may still arrive later (stray).  The bridge process may close  *)
(* down in order or die.  A sandbox ID has one immutable binding, so       *)
(* RegisterSandbox's comparison of bindings never fails and is left out.   *)
(***************************************************************************)
EXTENDS Naturals

CONSTANT Sandbox

Flag == {"started", "stopped", "registered", "exposed", "released",
         "collected", "evidenceErr"}
State == {"none", "REGISTERING", "READY", "RELEASING", "RELEASED"}
Manifest == {"none", "absent", "complete"}
Snapshot == [state : State \cup {"noReply", "refused"}, manifest : Manifest,
             cleanupErr : BOOLEAN]
NoReply == [state |-> "noReply", manifest |-> "none", cleanupErr |-> FALSE]
\* FailedPrecondition: bridge service is closing
Refused == [state |-> "refused", manifest |-> "none", cleanupErr |-> FALSE]

VARIABLES
  \* Session
  pc,        \* where Start or Stop is; idle when neither runs
  flags,     \* the Session's Boolean fields that are set
  evidence,  \* the session's copy of the finalized manifest
  call,      \* the call in progress: none, sent, handling
  reply,     \* its reply on the way back
  stray,     \* requests without a caller that may still arrive
  confirmed, \* history: sessions of which some Stop returned nil
  local,     \* sandboxes whose complete evidence was copied to the run
  \* bridge process
  up,        \* the process runs
  closing,   \* Server.closing
  closeTodo, \* entries that Close has still to release
  state, cleanupErr, manifest,  \* entry.access
  op,        \* the entry's operation goroutine; busy when not none
  ready,     \* nativeSandbox.ready
  open       \* the sandbox can be reached through its native server

session == <<pc, flags, evidence, call, reply, stray, confirmed, local>>
entry == <<state, cleanupErr, manifest, op, ready, open>>
server == <<up, closing, closeTodo, entry>>
vars == <<session, server>>

Init ==
  /\ pc = [s \in Sandbox |-> "idle"]
  /\ flags = [s \in Sandbox |-> {}]
  /\ evidence = [s \in Sandbox |-> "none"]
  /\ call = [s \in Sandbox |-> "none"]
  /\ reply = [s \in Sandbox |-> NoReply]
  /\ stray = {} /\ confirmed = {} /\ local = {}
  /\ up = TRUE /\ closing = FALSE /\ closeTodo = {}
  /\ state = [s \in Sandbox |-> "none"]
  /\ cleanupErr = [s \in Sandbox |-> FALSE]
  /\ manifest = [s \in Sandbox |-> "none"]
  /\ op = [s \in Sandbox |-> "none"]
  /\ ready = [s \in Sandbox |-> FALSE]
  /\ open = [s \in Sandbox |-> FALSE]

snapshot(s) ==
  [state |-> state[s], manifest |-> manifest[s], cleanupErr |-> cleanupErr[s]]

-----------------------------------------------------------------------------
(* Session *)

Goto(s, p) == pc' = [pc EXCEPT ![s] = p]
Set(s, f) == flags' = [flags EXCEPT ![s] = @ \cup f]

\* Send the request of kind p and wait for its reply.
Send(s, p) ==
  /\ Goto(s, p)
  /\ call' = [call EXCEPT ![s] = "sent"]
  /\ reply' = [reply EXCEPT ![s] = NoReply]

\* The call is over for the caller.  A request not yet handled stays behind.
EndCall(s) ==
  /\ call' = [call EXCEPT ![s] = "none"]
  /\ reply' = [reply EXCEPT ![s] = NoReply]
  /\ stray' = IF call[s] = "sent" /\ pc[s] \in {"register", "release"}
              THEN stray \cup {<<s, pc[s]>>} ELSE stray

\* Mutant: a stopped session may be started.
StartableOnce(s) == "started" \notin flags[s]

Startable(s) == flags[s] \cap {"started", "stopped"} = {}

\* Start fails before it registers (service not running, no target, no
\* artifact directory), or takes ownership and sends the registration.
Start(s) ==
  /\ pc[s] = "idle" /\ Startable(s)
  /\ \/ Set(s, {"started"}) /\ UNCHANGED <<pc, call, reply>>
     \/ Set(s, {"started", "registered"}) /\ Send(s, "register")
  /\ UNCHANGED <<evidence, stray, confirmed, local, server>>

\* registerSandbox looks at the reply of RegisterSandbox or GetSandbox.
RegisterReply(s) ==
  /\ pc[s] \in {"register", "get"} /\ reply[s] # NoReply
  /\ IF reply[s].state = "none"   \* NotFound
     THEN Send(s, "register") /\ UNCHANGED <<stray, flags>>
     ELSE /\ EndCall(s)
          /\ \/ /\ reply[s].state = "REGISTERING"
                /\ Goto(s, "poll") /\ UNCHANGED flags
             \/ /\ reply[s].state = "READY"
                /\ Goto(s, "idle") /\ Set(s, {"exposed"})
             \* refused, not ready, or no usable address or helper
             \/ /\ reply[s].state # "REGISTERING"
                /\ Goto(s, "idle") /\ UNCHANGED flags
  /\ UNCHANGED <<evidence, confirmed, local, server>>

\* An uncertain result (Unavailable, DeadlineExceeded, Canceled) is looked up
\* again by ID; Start gives up when its own context is done.
RegisterUncertain(s) ==
  /\ pc[s] \in {"register", "get"}
  /\ EndCall(s)
  /\ Goto(s, "poll") \/ Goto(s, "idle")
  /\ UNCHANGED <<flags, evidence, confirmed, local, server>>

Poll(s) ==
  /\ pc[s] = "poll"
  /\ \/ Send(s, "get")
     \/ Goto(s, "idle") /\ UNCHANGED <<call, reply>>
  /\ UNCHANGED <<flags, evidence, stray, confirmed, local, server>>

\* Stop returns: nil unless the client helper could not be removed.
Return(s) ==
  /\ Goto(s, "idle")
  /\ confirmed' \in {confirmed, confirmed \cup {s}}

\* Stop of a session with nothing left to release, or with lost evidence,
\* returns; else it releases or goes on to collect.
Stop(s) ==
  /\ pc[s] = "idle"
  /\ Set(s, {"stopped"})
  /\ \/ /\ "evidenceErr" \in flags[s]
        /\ UNCHANGED <<pc, call, reply, confirmed>>
     \/ /\ "evidenceErr" \notin flags[s]
        /\ "registered" \in flags[s] /\ "released" \notin flags[s]
        /\ Send(s, "release") /\ UNCHANGED confirmed
     \/ /\ "evidenceErr" \notin flags[s]
        /\ "released" \in flags[s] /\ "collected" \notin flags[s]
        /\ Goto(s, "collect") /\ UNCHANGED <<call, reply, confirmed>>
     \/ /\ "evidenceErr" \notin flags[s]
        /\ "registered" \notin flags[s] \/ "collected" \in flags[s]
        /\ Return(s) /\ UNCHANGED <<call, reply>>
  /\ UNCHANGED <<evidence, stray, local, server>>

Released(r) == r.state = "RELEASED" /\ ~r.cleanupErr

ReleaseReply(s) ==
  /\ pc[s] = "release" /\ reply[s] # NoReply
  /\ EndCall(s)
  /\ IF ~Released(reply[s])
     THEN Goto(s, "idle") /\ UNCHANGED <<flags, evidence, confirmed>>
     ELSE /\ evidence' = [evidence EXCEPT ![s] = reply[s].manifest]
          /\ IF "exposed" \notin flags[s] /\ reply[s].manifest = "none"
             THEN Set(s, {"released", "collected"}) /\ Return(s)
             ELSE Set(s, {"released"}) /\ Goto(s, "collect") /\ UNCHANGED confirmed
  /\ UNCHANGED <<local, server>>

\* What is known when the process exited without answering the release.
ExitOutcome(s) == IF "exposed" \in flags[s] THEN {"evidenceErr"} ELSE {"collected"}

\* The release failed: only a runtime that is known not to run has let go.
ReleaseError(s) ==
  /\ pc[s] = "release"
  /\ EndCall(s)
  /\ \/ Goto(s, "idle") /\ UNCHANGED <<flags, confirmed>>  \* running or unknown
     \/ /\ ~up
        /\ Set(s, {"released"} \cup ExitOutcome(s))
        /\ IF "evidenceErr" \in ExitOutcome(s)
           THEN Goto(s, "idle") /\ UNCHANGED confirmed ELSE Return(s)
  /\ UNCHANGED <<evidence, local, server>>

\* The manifest must name every artifact, absent only if never exposed, and
\* each copy must match; an error leaves collection to a later Stop.
Collect(s) ==
  /\ pc[s] = "collect"
  /\ \/ /\ evidence[s] = "complete"
        /\ local' = local \cup {s}
        /\ Set(s, {"collected"}) /\ Return(s)
     \/ /\ evidence[s] = "absent" /\ "exposed" \notin flags[s]
        /\ Set(s, {"collected"}) /\ Return(s) /\ UNCHANGED local
     \/ Goto(s, "idle") /\ UNCHANGED <<flags, confirmed, local>>
  /\ UNCHANGED <<evidence, call, reply, stray, server>>

-----------------------------------------------------------------------------
(* Control server *)

\* A request of kind p arrives: from the waiting session, or a stray one.
FromCall(s, p) == call[s] = "sent" /\ pc[s] = p
Answer(s) == /\ reply' = [reply EXCEPT ![s] = snapshot(s)]
             /\ call' = [call EXCEPT ![s] = "handling"]
Wait(s) == call' = [call EXCEPT ![s] = "handling"] /\ UNCHANGED reply
Drop(s, p) == stray' = stray \ {<<s, p>>} /\ UNCHANGED <<call, reply>>

frame == <<pc, flags, evidence, confirmed, local, up, closing, closeTodo>>

\* RegisterSandbox: an existing entry is reported as it is, a closing server
\* refuses, else the entry is made and its registration goroutine started.
RegisterSandbox(s) ==
  /\ up
  /\ \/ /\ state[s] # "none" /\ UNCHANGED entry
        /\ \/ FromCall(s, "register") /\ Answer(s) /\ UNCHANGED stray
           \/ <<s, "register">> \in stray /\ Drop(s, "register")
     \/ /\ state[s] = "none" /\ closing /\ UNCHANGED entry
        /\ \/ /\ FromCall(s, "register")
              /\ reply' = [reply EXCEPT ![s] = Refused]
              /\ call' = [call EXCEPT ![s] = "handling"]
              /\ UNCHANGED stray
           \/ <<s, "register">> \in stray /\ Drop(s, "register")
     \/ /\ state[s] = "none" /\ ~closing
        /\ state' = [state EXCEPT ![s] = "REGISTERING"]
        /\ op' = [op EXCEPT ![s] = "register"]
        /\ UNCHANGED <<cleanupErr, manifest, ready, open>>
        /\ \/ FromCall(s, "register") /\ Wait(s) /\ UNCHANGED stray
           \/ <<s, "register">> \in stray /\ Drop(s, "register")
  /\ UNCHANGED frame

GetSandbox(s) ==
  /\ up /\ FromCall(s, "get") /\ Answer(s)
  /\ UNCHANGED <<frame, stray, entry>>

\* releaseLocked: the state moves to RELEASING; a busy entry is left to the
\* goroutine at work, else a release goroutine is started.
releaseLocked(s) ==
  /\ state' = [state EXCEPT ![s] = "RELEASING"]
  /\ op' = [op EXCEPT ![s] = IF @ = "none" THEN "release" ELSE @]

\* Mutant: releasing an ID that was never seen leaves no trace.
NoTombstone(s) == UNCHANGED state

\* A release reserves even an ID that was never seen.
Tombstone(s) == state' = [state EXCEPT ![s] = "RELEASED"]

ReleaseSandbox(s) ==
  /\ up
  /\ \/ /\ state[s] = "none" /\ Tombstone(s) /\ UNCHANGED op
        /\ \/ /\ FromCall(s, "release") /\ UNCHANGED stray
              /\ reply' = [reply EXCEPT ![s] = [snapshot(s) EXCEPT !.state = "RELEASED"]]
              /\ call' = [call EXCEPT ![s] = "handling"]
           \/ <<s, "release">> \in stray /\ Drop(s, "release")
     \/ /\ state[s] = "RELEASED" /\ UNCHANGED <<state, op>>
        /\ \/ FromCall(s, "release") /\ Answer(s) /\ UNCHANGED stray
           \/ <<s, "release">> \in stray /\ Drop(s, "release")
     \/ /\ state[s] \notin {"none", "RELEASED"} /\ releaseLocked(s)
        /\ \/ FromCall(s, "release") /\ Wait(s) /\ UNCHANGED stray
           \/ <<s, "release">> \in stray /\ Drop(s, "release")
  /\ UNCHANGED <<frame, cleanupErr, manifest, ready, open>>

\* A waiting handler answers: a registration when its goroutine has ended, a
\* release when no goroutine is at work.
HandlerReply(s) ==
  /\ up /\ call[s] = "handling" /\ reply[s] = NoReply
  /\ \/ pc[s] = "register" /\ op[s] # "register"
     \/ pc[s] = "release" /\ op[s] = "none"
  /\ reply' = [reply EXCEPT ![s] = snapshot(s)]
  /\ UNCHANGED <<frame, stray, call, entry>>

\* nativeSandbox.Register opens the sandbox before the entry is ready.
NativeOpens(s) ==
  /\ up /\ op[s] = "register" /\ ~open[s]
  /\ open' = [open EXCEPT ![s] = TRUE]
  /\ UNCHANGED <<session, up, closing, closeTodo, state, cleanupErr, manifest, op, ready>>

RegisteredState(s) == IF state[s] = "REGISTERING" THEN "READY" ELSE state[s]

\* Mutant: the end of a registration does not carry out a pending release.
OperationForgets(s, st) == "none"

\* The registration goroutine ends and carries out a release asked for since.
NextOperation(s, st) == IF st = "RELEASING" THEN "release" ELSE "none"

RegisterEnd(s) ==
  /\ up /\ op[s] = "register"
  /\ \E ok \in BOOLEAN :
     /\ ok => open[s]
     /\ ready' = [ready EXCEPT ![s] = ok]
     /\ LET st == IF ok THEN RegisteredState(s) ELSE "RELEASING" IN
        /\ state' = [state EXCEPT ![s] = st]
        /\ op' = [op EXCEPT ![s] = NextOperation(s, st)]
  /\ UNCHANGED <<session, up, closing, closeTodo, cleanupErr, manifest, open>>

\* nativeSandbox.Release revokes the target and stops the native server, which
\* may fail before or after it took effect; an artifact that does not exist is
\* named absent only if the server never came up.
NativeReleases(s, fails, artifact) ==
  /\ open' = [open EXCEPT ![s] = FALSE] \/ (fails /\ open' = open)
  /\ ~fails /\ artifact = "absent" => ~ready[s]

\* The release goroutine ends: nativeSandbox.Release failed and may be tried
\* again, or the native server is gone and its artifacts are final.
ReleaseEnd(s) ==
  /\ up /\ op[s] = "release"
  /\ op' = [op EXCEPT ![s] = "none"]
  /\ \E fails \in BOOLEAN, artifact \in {"absent", "complete"} :
       /\ NativeReleases(s, fails, artifact)
       /\ cleanupErr' = [cleanupErr EXCEPT ![s] = fails]
       /\ IF fails THEN UNCHANGED <<state, manifest>>
          ELSE /\ state' = [state EXCEPT ![s] = "RELEASED"]
               /\ manifest' = [manifest EXCEPT ![s] = artifact]
  /\ UNCHANGED <<session, up, closing, closeTodo, ready>>

\* serve's context is done: Server.Close refuses new entries and releases the
\* retained ones.
Close ==
  /\ up /\ ~closing
  /\ closing' = TRUE
  /\ closeTodo' = {s \in Sandbox : state[s] # "none"}
  /\ UNCHANGED <<session, up, entry>>

CloseRelease(s) ==
  /\ up /\ s \in closeTodo
  /\ closeTodo' = closeTodo \ {s}
  /\ IF state[s] = "RELEASED" THEN UNCHANGED <<state, op>> ELSE releaseLocked(s)
  /\ UNCHANGED <<session, up, closing, cleanupErr, manifest, ready, open>>

\* The process ends, after Close, when its minute is over, or by dying.
Exit ==
  /\ up
  /\ up' = FALSE
  /\ open' = [s \in Sandbox |-> FALSE]
  /\ UNCHANGED <<session, closing, closeTodo, state, cleanupErr, manifest, op, ready>>

SessionStep(s) ==
  \/ RegisterReply(s) \/ Poll(s) \/ ReleaseReply(s) \/ Collect(s)
  \/ RegisterUncertain(s) \/ ReleaseError(s)
ServerStep(s) ==
  \/ RegisterSandbox(s) \/ GetSandbox(s) \/ ReleaseSandbox(s) \/ HandlerReply(s)
  \/ RegisterEnd(s) \/ ReleaseEnd(s) \/ CloseRelease(s)

Next ==
  \/ \E s \in Sandbox :
       Start(s) \/ Stop(s) \/ SessionStep(s) \/ ServerStep(s) \/ NativeOpens(s)
  \/ Close \/ Exit

\* Calls end (they carry deadlines), handlers are scheduled and operations are
\* bounded by OperationTimeout.  Nothing makes a caller start, stop or retry.
Spec == /\ Init /\ [][Next]_vars
        /\ \A s \in Sandbox : /\ WF_vars(SessionStep(s))
                              /\ WF_vars(ServerStep(s))
                              /\ WF_vars(RegisterEnd(s)) /\ WF_vars(ReleaseEnd(s))

-----------------------------------------------------------------------------
TypeOK ==
  /\ pc \in [Sandbox -> {"idle", "register", "poll", "get", "release", "collect"}]
  /\ flags \in [Sandbox -> SUBSET Flag]
  /\ evidence \in [Sandbox -> Manifest]
  /\ call \in [Sandbox -> {"none", "sent", "handling"}]
  /\ reply \in [Sandbox -> Snapshot]
  /\ stray \subseteq Sandbox \X {"register", "release"}
  /\ confirmed \subseteq Sandbox /\ local \subseteq Sandbox
  /\ up \in BOOLEAN /\ closing \in BOOLEAN /\ closeTodo \subseteq Sandbox
  /\ state \in [Sandbox -> State]
  /\ cleanupErr \in [Sandbox -> BOOLEAN]
  /\ manifest \in [Sandbox -> Manifest]
  /\ op \in [Sandbox -> {"none", "register", "release"}]
  /\ ready \in [Sandbox -> BOOLEAN] /\ open \in [Sandbox -> BOOLEAN]

(***************************************************************************)
(* A nil error from Session.Stop is a positive confirmation: from then on  *)
(* the sandbox cannot be reached through the bridge, also when a           *)
(* registration that the session gave up on arrives afterwards.            *)
(***************************************************************************)
ConfirmedClosed == \A s \in confirmed : ~open[s]

(***************************************************************************)
(* A release that was asked for is carried out to its end without being    *)
(* asked again, also when it met a registration in progress: the entry is  *)
(* released, or holds an error to report, or the process is gone.          *)
(***************************************************************************)
ReleaseIsCarriedOut ==
  \A s \in Sandbox :
    state[s] = "RELEASING" ~> state[s] = "RELEASED" \/ cleanupErr[s] \/ ~up

(***************************************************************************)
(* Bridge and sessions implement the access promise, with a confirmed Stop *)
(* in the place of the evaluation it makes possible.                       *)
(***************************************************************************)
Access == INSTANCE AgentAccess WITH
  Task <- Sandbox, access <- {s \in Sandbox : open[s]}, evaluated <- confirmed
AccessSpec == Access!Spec
=============================================================================
