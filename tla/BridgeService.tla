--------------------------- MODULE BridgeService ----------------------------
(***************************************************************************)
(* The run's bridge service (pkg/bridge service.go, artifacts.go) around   *)
(* the protocol of BridgeControl: Service.Start creates and starts the     *)
(* container of the bridge process and waits for its control server,       *)
(* sessions are admitted while it runs, and Service.Stop stops every       *)
(* session and then removes the container.  The evidence a session         *)
(* collects is verified here against the finalized manifest.               *)
(*                                                                         *)
(* Runtime.Create and Runtime.Stop keep the promise of module Deployment.  *)
(* One Service.Stop runs at a time, as in internal/app; the Runner may     *)
(* start and stop sessions meanwhile.  `up` of BridgeControl holds until   *)
(* the process has ended, also before it was started.                      *)
(***************************************************************************)
EXTENDS BridgeControl

VARIABLES
  svc,            \* Service.state
  at,             \* where Service.Start or Service.Stop is
  container,      \* none, created, started, gone
  identity,       \* runtimeID is known
  removed,
  allocationErr, shutdownErr,
  sessions,       \* the sessions handed out
  todo, busy,     \* Service.Stop: sessions still to be stopped, being stopped
  copied,         \* the evidence file in the run's directory
  stopNil         \* history: some Service.Stop returned nil

launch == <<container, identity, removed, allocationErr>>
stopping == <<todo, busy, shutdownErr>>
service == <<svc, at, launch, stopping, sessions, copied, stopNil>>
serviceVars == <<vars, service>>

\* A file of evidence: its length and digest.  finalizeArtifacts records those
\* of the finished file in the manifest.
Finalized == [size |-> 1, sha |-> "final"]
NoFile == [size |-> 0, sha |-> "none"]

ServiceInit ==
  /\ Init
  /\ svc = "new" /\ at = "idle"
  /\ container = "none" /\ identity = FALSE /\ removed = FALSE
  /\ allocationErr = FALSE /\ shutdownErr = FALSE
  /\ sessions = {} /\ todo = {} /\ busy = {}
  /\ copied = [s \in Sandbox |-> NoFile] /\ stopNil = FALSE

-----------------------------------------------------------------------------
(* Service.Start, which holds the lock until it returns *)

ServiceStart ==
  /\ at = "idle" /\ svc = "new"
  /\ svc' = "starting"
  /\ at' \in {"create", "idle"}  \* no directory, no randomness
  /\ UNCHANGED <<vars, launch, stopping, sessions, copied, stopNil>>

\* Create returns an identity, with or without an error; or confirms that
\* nothing was allocated; or leaves it open (an empty identity is such a case).
CreateRuntime ==
  /\ at = "create"
  /\ \/ /\ container' = "created" /\ identity' = TRUE
        /\ at' \in {"launch", "idle"}   \* an error, or runtime.json not written
        /\ UNCHANGED allocationErr
     \/ at' = "idle" /\ UNCHANGED <<container, identity, allocationErr>>
     \/ /\ at' = "idle" /\ allocationErr' = TRUE
        /\ container' \in {"none", "created"} /\ UNCHANGED identity
  /\ UNCHANGED <<vars, svc, removed, stopping, sessions, copied, stopNil>>

\* Upload of the configuration, Validate, Start: each may fail.
LaunchRuntime ==
  /\ at = "launch"
  /\ \/ at' = "ready" /\ container' = "started"
     \/ at' = "idle" /\ container' \in {container, "started"}
  /\ UNCHANGED <<vars, svc, identity, removed, allocationErr, stopping, sessions,
                 copied, stopNil>>

\* The control server answers that it serves, or its process has ended, or is
\* not known to run, or the minute is over.  Else it is asked again.
AwaitReady ==
  /\ at = "ready" /\ at' = "idle"
  /\ \/ up /\ svc' = "running"
     \/ UNCHANGED svc
  /\ UNCHANGED <<vars, launch, stopping, sessions, copied, stopNil>>

-----------------------------------------------------------------------------
(* Sessions *)

\* Mutant: sessions are taken until the service is closed.
AcceptingUntilClosed == svc \in {"running", "closing"}

Accepting == svc = "running"

NewSession(s) ==
  /\ at \notin {"create", "launch", "ready", "remove", "close"}
  /\ Accepting /\ s \notin sessions
  /\ sessions' = sessions \cup {s}
  /\ UNCHANGED <<vars, svc, at, launch, stopping, copied, stopNil>>

\* Session.Start registers only with a service that runs.
SessionStart(s) ==
  /\ s \in sessions /\ Start(s)
  /\ ~Accepting => "registered" \notin flags'[s]
  /\ UNCHANGED service

\* Stop called by the Runner.
SessionStop(s) == s \in sessions /\ Stop(s) /\ UNCHANGED service

\* The session.Stop that Service.Stop waits for returned with this step.
Succeeded(s) ==
  /\ s \in confirmed' /\ "evidenceErr" \notin flags'[s]
  /\ "registered" \in flags'[s] => "collected" \in flags'[s]
Stopped(s) ==
  \E failed \in BOOLEAN :
    /\ ~failed => Succeeded(s)
    /\ failed => s \notin confirmed' \ confirmed
    /\ shutdownErr' = (shutdownErr \/ failed)

\* What DownloadArchive may bring: the file's mode and size as reported, the
\* archive's header, the bytes read with their digest, the entries.
Download == [regular : BOOLEAN, stat : 0..2, header : 0..2, size : 0..2,
             sha : {"final", "other"}, entries : 1..2]

\* Mutant: the copy is not compared with the manifest's digest.
CollectUnverified(e, d) ==
  /\ d.regular /\ d.stat = e.size /\ d.header = e.size /\ d.size = e.size
  /\ d.entries = 1

collectArtifact(e, d) ==
  /\ d.regular /\ d.stat = e.size /\ d.header = e.size
  /\ d.size = e.size /\ d.sha = e.sha
  /\ d.entries = 1

\* A step of the session; a collected file is written where it was verified.
SessionProgress(s) ==
  /\ SessionStep(s)
  /\ IF s \in local' \ local
     THEN \E d \in {x \in Download : collectArtifact(Finalized, x)} :
            copied' = [copied EXCEPT ![s] = [size |-> d.size, sha |-> d.sha]]
     ELSE UNCHANGED copied
  /\ IF s \in busy /\ pc'[s] = "idle"
     THEN busy' = busy \ {s} /\ Stopped(s)
     ELSE UNCHANGED <<busy, shutdownErr>>
  /\ UNCHANGED <<svc, at, launch, todo, sessions, stopNil>>

-----------------------------------------------------------------------------
(* Service.Stop *)

Nil == ~allocationErr /\ ~shutdownErr

\* A closed service repeats what is on record; else admission ends and every
\* session is stopped by a goroutine of its own.
ServiceStop ==
  /\ at = "idle"
  /\ IF svc = "closed"
     THEN stopNil' = (stopNil \/ Nil) /\ UNCHANGED <<svc, at, todo>>
     ELSE /\ svc' = "closing" /\ at' = "sessions" /\ todo' = sessions
          /\ UNCHANGED stopNil
  /\ UNCHANGED <<vars, launch, busy, shutdownErr, sessions, copied>>

\* The goroutine enters session.Stop once the session's lock is free.
StopSession(s) ==
  /\ s \in todo /\ Stop(s)
  /\ todo' = todo \ {s}
  /\ IF pc'[s] = "idle"
     THEN UNCHANGED busy /\ Stopped(s)
     ELSE busy' = busy \cup {s} /\ UNCHANGED shutdownErr
  /\ UNCHANGED <<svc, at, launch, sessions, copied, stopNil>>

\* The removal takes the process with it, whether it is confirmed or not.
Gone == /\ container' = "gone"
        /\ IF up THEN Exit ELSE UNCHANGED vars

\* Every session was tried: the lock is taken again and the container goes.
RemoveRuntime ==
  /\ at = "sessions" /\ todo = {} /\ busy = {}
  /\ \/ /\ ~identity \/ removed
        /\ at' = "close" /\ UNCHANGED <<vars, container, removed>>
     \/ /\ identity /\ ~removed
        /\ Gone /\ removed' = TRUE /\ at' = "close"
     \/ /\ identity /\ ~removed
        /\ Gone \/ UNCHANGED <<vars, container>>
        /\ at' = "idle" /\ UNCHANGED removed
  /\ UNCHANGED <<svc, identity, allocationErr, stopping, sessions, copied, stopNil>>

\* The connection and the Runtime are closed; a failure leaves the rest to
\* the next Stop.
CloseService ==
  /\ at = "close" /\ at' = "idle"
  /\ \/ UNCHANGED <<svc, stopNil>>
     \/ svc' = "closed" /\ stopNil' = (stopNil \/ Nil)
  /\ UNCHANGED <<vars, launch, stopping, sessions, copied>>

-----------------------------------------------------------------------------
\* The bridge process handles calls, closes down or dies on its own.
Process ==
  /\ container = "started"
  /\ \/ \E s \in Sandbox : ServerStep(s) \/ NativeOpens(s)
     \/ Close \/ Exit
  /\ UNCHANGED service

ServiceNext ==
  \/ ServiceStart \/ CreateRuntime \/ LaunchRuntime \/ AwaitReady
  \/ ServiceStop \/ RemoveRuntime \/ CloseService
  \/ \E s \in Sandbox :
       \/ NewSession(s) \/ SessionStart(s) \/ SessionStop(s)
       \/ SessionProgress(s) \/ StopSession(s)
  \/ Process

\* Fairness as in BridgeControl.
ServiceSpec ==
  /\ ServiceInit /\ [][ServiceNext]_serviceVars
  /\ \A s \in Sandbox :
       /\ WF_serviceVars(SessionProgress(s))
       /\ WF_serviceVars(ServerStep(s) /\ UNCHANGED service)
       /\ WF_serviceVars(RegisterEnd(s) /\ UNCHANGED service)
       /\ WF_serviceVars(ReleaseEnd(s) /\ UNCHANGED service)

-----------------------------------------------------------------------------
(* Properties *)

(***************************************************************************)
(* Evidence is part of a session's confirmation: once an endpoint was      *)
(* handed out, Session.Stop returns nil only when the run's directory      *)
(* holds exactly the file the bridge finalized, never after the process    *)
(* ended without finalizing it, and never a copy damaged on the way.       *)
(***************************************************************************)
EvidenceIntact ==
  \A s \in confirmed : "exposed" \in flags[s] => copied[s] = Finalized

(***************************************************************************)
(* A nil Service.Stop, the first or a repeated one, means that nothing of  *)
(* the bridge is left and nothing was lost: no container, also none that   *)
(* an unanswered Create may have made, no sandbox in reach, and the        *)
(* evidence of every session that was ever exposed.                        *)
(***************************************************************************)
ServiceNilMeansClean ==
  stopNil =>
    /\ container \in {"none", "gone"}
    /\ \A s \in Sandbox :
         ~open[s] /\ ("exposed" \in flags[s] => copied[s] = Finalized)
=============================================================================
