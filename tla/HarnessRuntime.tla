--------------------------- MODULE HarnessRuntime ---------------------------
(***************************************************************************)
(* One agent harness manager and the Runtime it composes: Start with its   *)
(* rollback, Run on a snapshot of the occurrence, Stop with the calls that *)
(* join it (pkg/harness/harness.go, internal/runtime/ownership.go, and the *)
(* managers of openclaw and hermes, with hermes/gateway.go).               *)
(*                                                                         *)
(* The manager's mutex is held through all of Start; Run and Stop hold it  *)
(* only to admit, to begin and to finish, so a Run, the Stop that removes  *)
(* its runtime and the Stops that join it interleave.  The two managers    *)
(* differ in what Stop and a failed Run do to the agent run in progress.   *)
(***************************************************************************)
CONSTANTS Occurrence, Caller, None
ASSUME NoneAssumption == None \notin Occurrence \cup Caller

VARIABLES
  native,        \* the manager: "openclaw" or "hermes"
  voice,         \* it speaks the instruction instead of sending its text
  mu,            \* the caller whose Start holds manager.mu, or None
  published,     \* manager.active
  \* Runtime and its StopState
  active, ready, admitted, running,
  attemptErr,    \* the error of the current StopAttempt
  \* occurrences
  owned,         \* history: the occurrences Own accepted
  started,       \* history: the occurrences Start was called for
  id,            \* those whose runtime identity is retained
  creds,         \* those whose credentials are not cleared
  \* the deployment and the agent
  exists,        \* occurrences whose container exists
  unconfirmed,   \* history: Create returned ErrAllocationUnconfirmed
  agent,         \* the agent run: "none", "running" or "ended"
  \* hermes gatewayExecution
  stopped, runID,
  \* callers
  pc, job, failed,
  missed,        \* some evidence of its Run could not be collected
  snapshot,      \* the credentials of its Run's snapshot are not cleared
  joined,        \* the outcome of the attempt it waits for
  asked,         \* history: what was owned when its Stop was called
  \* history
  gone,          \* occurrences a Stop that returned nil was asked to remove
  stopAsked, runFailed,  \* agent runs asked to stop; occurrences whose Run failed
  lost,          \* occurrences removed before a collector of their Run came
  succeeded      \* occurrences whose Run returned a success

manager == <<native, voice, mu, published>>
runtime == <<active, ready, admitted, running, attemptErr>>
occurrence == <<owned, started, id, creds>>
deployment == <<exists, unconfirmed>>
gateway == <<stopped, runID>>
thread == <<pc, job, failed, missed, snapshot, joined, asked>>
history == <<gone, stopAsked, runFailed, lost, succeeded>>
vars == <<manager, runtime, occurrence, deployment, agent, gateway, thread,
          history>>

StartStep == {"stage", "archive", "create", "prepare", "await", "publish",
              "rollback"}
RunStep == {"speak", "upload", "transcribe", "begin", "submit", "known", "poll",
            "runCancel", "runRequest", "result", "logs", "telemetry", "spans",
            "return"}
StopStep == {"stopCancel", "stopRequest", "remove", "finish"}
PC == {"idle", "wait"} \cup StartStep \cup RunStep \cup StopStep

Init ==
  /\ native \in {"openclaw", "hermes"} /\ voice \in BOOLEAN
  /\ mu = None /\ published = None
  /\ active = None /\ ready = FALSE /\ admitted = FALSE /\ running = FALSE
  /\ attemptErr = FALSE
  /\ owned = {} /\ started = {} /\ id = {} /\ creds = {}
  /\ exists = {} /\ unconfirmed = {}
  /\ agent = [o \in Occurrence |-> "none"]
  /\ stopped = {} /\ runID = {}
  /\ pc = [c \in Caller |-> "idle"] /\ job = [c \in Caller |-> None]
  /\ failed = [c \in Caller |-> FALSE] /\ missed = [c \in Caller |-> FALSE]
  /\ snapshot = [c \in Caller |-> FALSE]
  /\ joined = [c \in Caller |-> "open"] /\ asked = [c \in Caller |-> {}]
  /\ gone = {} /\ stopAsked = {} /\ runFailed = {}
  /\ lost = {} /\ succeeded = {}

Goto(c, p) == pc' = [pc EXCEPT ![c] = p]
Return(c) == Goto(c, "idle") /\ job' = [job EXCEPT ![c] = None]
Fail(c, p) == Goto(c, p) /\ failed' = [failed EXCEPT ![c] = TRUE]
InUse == active # None \/ running

-----------------------------------------------------------------------------
(* Start, all of it under manager.mu *)

\* The runtime is taken, the request, the rendered configuration or a key is
\* refused: the credentials loaded so far are cleared.
StartRefused(c, o) ==
  /\ pc[c] = "idle" /\ mu = None /\ ~InUse /\ o \notin started
  /\ started' = started \cup {o}
  /\ UNCHANGED <<manager, runtime, owned, id, creds, deployment, agent, gateway,
                 thread, history>>

\* Own forgets the attempt of the occurrence before.
Own(o) ==
  /\ active' = o /\ ready' = FALSE /\ admitted' = FALSE /\ attemptErr' = FALSE
  /\ owned' = owned \cup {o}

\* The Runtime owns the occurrence before anything is allocated for it.
Start(c, o) ==
  /\ pc[c] = "idle" /\ mu = None /\ ~InUse /\ o \notin started
  /\ started' = started \cup {o} /\ mu' = c
  /\ Own(o) /\ creds' = creds \cup {o}
  /\ Goto(c, "stage") /\ job' = [job EXCEPT ![c] = o]
  /\ UNCHANGED <<native, voice, published, running, id, deployment, agent, gateway,
                 failed, missed, snapshot, joined, asked, history>>

\* A step of Start that may fail and changes nothing the model keeps.
Tries(c, here, next) ==
  /\ pc[c] = here /\ \E p \in {next, "rollback"} : Goto(c, p)
  /\ UNCHANGED <<manager, runtime, occurrence, deployment, agent, gateway, job,
                 failed, missed, snapshot, joined, asked, history>>

\* The artifact directory and the retained configuration.
Stage(c) == Tries(c, "stage", "archive")

\* The archive of keys, launchers and, for openclaw, the SSH client.
RuntimeArchive(c) == Tries(c, "archive", "create")

\* Mutant: the identity is kept only when Create succeeded.
KeptIfCreated(o, err) == IF err THEN id ELSE id \cup {o}

Kept(o, err) == id \cup {o}

\* Create names the container, also when it fails, or confirms there is none,
\* or can do neither (ErrAllocationUnconfirmed).
Create(c) ==
  LET o == job[c] IN
  /\ pc[c] = "create"
  /\ \/ \E err \in BOOLEAN :
          /\ exists' = exists \cup {o} /\ id' = Kept(o, err)
          /\ Goto(c, IF err THEN "rollback" ELSE "prepare")
          /\ UNCHANGED unconfirmed
     \/ Goto(c, "rollback") /\ UNCHANGED <<exists, unconfirmed, id>>
     \/ /\ exists' \in {exists, exists \cup {o}}
        /\ unconfirmed' = unconfirmed \cup {o}
        /\ Goto(c, "rollback") /\ UNCHANGED id
  /\ UNCHANGED <<manager, runtime, owned, started, creds, agent, gateway, job,
                 failed, missed, snapshot, joined, asked, history>>

\* UploadArchive, Validate, Start.
Prepare(c) == Tries(c, "prepare", "await")

\* Probes until one succeeds, the container exits or StartTimeout passes.
WaitReady(c) == Tries(c, "await", "publish")

\* The gateway address is known; only now is the session published.
Publish(c) ==
  /\ pc[c] = "publish"
  /\ \/ /\ published' = job[c] /\ ready' = TRUE /\ mu' = None
        /\ Return(c)
     \/ Goto(c, "rollback") /\ UNCHANGED <<mu, published, ready, job>>
  /\ UNCHANGED <<native, voice, active, admitted, running, attemptErr, occurrence,
                 deployment, agent, gateway, failed, missed, snapshot, joined,
                 asked, history>>

-----------------------------------------------------------------------------
(* Removal: Runtime.Remove and StopOwned.  The identity is cleared only when *)
(* the deployment confirmed absence; then the credentials are.               *)

Cleared(o) == {o}

Killed(o) == [agent EXCEPT ![o] = IF @ = "none" THEN @ ELSE "ended"]

Removed(o) ==
  /\ exists' = IF o \in id THEN exists \ {o} ELSE exists
  /\ agent' = IF o \in id THEN Killed(o) ELSE agent
  /\ id' = id \ {o} /\ creds' = creds \ Cleared(o)

\* A failed Stop of the deployment may have removed the container.
NotRemoved(o) ==
  /\ o \in id
  /\ \/ exists' = exists \ {o} /\ agent' = Killed(o)
     \/ UNCHANGED <<exists, agent>>
  /\ UNCHANGED <<id, creds>>

\* fail: a runtime that could not be removed stays owned and is published, so
\* that Stop can remove it.
Rollback(c) ==
  LET o == job[c] IN
  /\ pc[c] = "rollback" /\ Return(c) /\ mu' = None
  /\ \/ /\ Removed(o)
        /\ active' = None /\ ready' = FALSE /\ attemptErr' = FALSE
        /\ UNCHANGED published
     \/ /\ NotRemoved(o)
        /\ attemptErr' = TRUE /\ published' = o
        /\ UNCHANGED <<active, ready>>
  /\ UNCHANGED <<native, voice, admitted, running, owned, started, unconfirmed,
                 gateway, failed, missed, snapshot, joined, asked, history>>

-----------------------------------------------------------------------------
(* Run *)

AdmitRun == ~running /\ active # None /\ ready /\ ~admitted

\* Run works on a snapshot of the session.
Run(c) ==
  /\ pc[c] = "idle" /\ mu = None /\ AdmitRun
  /\ admitted' = TRUE /\ Goto(c, IF voice THEN "speak" ELSE "begin")
  /\ job' = [job EXCEPT ![c] = published]
  /\ snapshot' = [snapshot EXCEPT ![c] = TRUE]
  /\ UNCHANGED <<manager, active, ready, running, attemptErr, occurrence, deployment,
                 agent, gateway, failed, missed, joined, asked, history>>

\* Run returns its failure or its success; the deferred Clear clears the
\* snapshot.
RunReturns(c, err) ==
  /\ Return(c) /\ snapshot' = [snapshot EXCEPT ![c] = FALSE]
  /\ failed' = [failed EXCEPT ![c] = FALSE] /\ missed' = [missed EXCEPT ![c] = FALSE]
  /\ runFailed' = IF err THEN runFailed \cup {job[c]} ELSE runFailed
  /\ succeeded' = IF err THEN succeeded ELSE succeeded \cup {job[c]}
  /\ UNCHANGED <<manager, runtime, occurrence, deployment, agent, gateway, joined,
                 asked, gone, stopAsked, lost>>

\* A step of Run that changes nothing the model keeps.
Steps(c, here, next) ==
  /\ pc[c] = here /\ Goto(c, next)
  /\ UNCHANGED <<manager, runtime, occurrence, deployment, agent, gateway, job, failed,
                 missed, snapshot, joined, asked, history>>

\* The speech of the instruction; hermes takes it into its runtime, and has it
\* transcribed there.
SynthesizeVoiceInstruction(c) ==
  Steps(c, "speak", IF native = "hermes" THEN "upload" ELSE "begin")

StageVoiceWAV(c) == job[c] \in exists /\ Steps(c, "upload", "transcribe")

TranscribeVoice(c) == job[c] \in exists /\ Steps(c, "transcribe", "begin")

\* No speech, no upload, no transcript or no client: nothing was sent, and
\* nothing is collected.
RunAborts(c) ==
  /\ \/ pc[c] \in {"speak", "upload", "transcribe"}
     \/ native = "openclaw" /\ pc[c] = "begin"
  /\ RunReturns(c, TRUE)

\* hermes: a stopped gateway accepts no run.  A Stop that comes later cancels
\* the context of this one, whose requests then fail, as they always may.
RunBegins(c) ==
  /\ pc[c] = "begin"
  /\ \/ job[c] \in stopped /\ Fail(c, "result")
     \/ job[c] \notin stopped /\ Goto(c, "submit") /\ UNCHANGED failed
  /\ UNCHANGED <<manager, runtime, occurrence, deployment, agent, gateway, job,
                 missed, snapshot, joined, asked, history>>

\* Mutant: a failed run is left to the agent.
LeaveRun == "result"

AfterError == IF native = "hermes" THEN "runCancel" ELSE "result"

\* The request may be admitted although its answer is lost.
Submit(c) ==
  LET o == job[c] IN
  /\ pc[c] = "submit"
  /\ \/ /\ o \in exists /\ agent' = [agent EXCEPT ![o] = "running"]
        /\ Goto(c, IF native = "hermes" THEN "known" ELSE "poll")
        /\ UNCHANGED failed
     \/ /\ \/ o \in exists /\ agent' = [agent EXCEPT ![o] = "running"]
           \/ UNCHANGED agent
        /\ Fail(c, AfterError)
  /\ UNCHANGED <<manager, runtime, occurrence, deployment, gateway, job, missed,
                 snapshot, joined, asked, history>>

RunKnown(c) ==
  /\ pc[c] = "known" /\ Goto(c, "poll")
  /\ runID' = runID \cup {job[c]}
  /\ UNCHANGED <<manager, runtime, occurrence, deployment, agent, stopped, job, failed,
                 missed, snapshot, joined, asked, history>>

\* The agent completed, or it did not, the request failed, the timeout passed
\* or Stop canceled the run.
Poll(c) ==
  /\ pc[c] = "poll"
  /\ \/ /\ agent[job[c]] = "ended" /\ job[c] \in exists
        /\ Goto(c, "result") /\ UNCHANGED failed
     \/ Fail(c, AfterError)
  /\ UNCHANGED <<manager, runtime, occurrence, deployment, agent, gateway, job,
                 missed, snapshot, joined, asked, history>>

\* cancelRun of hermes, by the failed Run itself or by Stop.
CancelRun(c, here, request, next) ==
  /\ pc[c] = here
  /\ stopped' = stopped \cup {job[c]}
  /\ Goto(c, IF job[c] \in runID THEN request ELSE next)
  /\ UNCHANGED <<manager, runtime, occurrence, deployment, agent, runID, job,
                 failed, missed, snapshot, joined, asked, history>>

RequestStop(c, here, next) ==
  /\ pc[c] = here /\ Goto(c, next)
  /\ stopAsked' = stopAsked \cup {job[c]}
  /\ UNCHANGED <<manager, runtime, occurrence, deployment, agent, gateway, job,
                 failed, missed, snapshot, joined, asked, gone, runFailed,
                 lost, succeeded>>

\* The result is written, or not.  hermes returns without the evidence when it
\* cannot write the result of a voice run.
WriteResult(c) ==
  /\ pc[c] = "result" /\ Goto(c, "logs")
  /\ missed' \in {missed, [missed EXCEPT ![c] = TRUE]}
  /\ UNCHANGED <<manager, runtime, occurrence, deployment, agent, gateway, job, failed,
                 snapshot, joined, asked, history>>

VoiceResultFails(c) ==
  /\ native = "hermes" /\ voice /\ pc[c] = "result" /\ RunReturns(c, TRUE)

\* Mutant: a runtime that is gone is taken for one that produced nothing.
NothingThere(o) == TRUE

\* A read from the runtime says so when the runtime is gone; a missing source
\* in one that exists is no error.
Readable(o) == o \in exists

\* One collector, on a runtime Stop may have removed meanwhile.  A failure is
\* kept while the others go on.
Collects(c, here, next) ==
  /\ pc[c] = here /\ Goto(c, next)
  /\ missed' \in {[missed EXCEPT ![c] = @ \/ ~Readable(job[c])],
                  [missed EXCEPT ![c] = TRUE]}
  /\ lost' = IF job[c] \in exists THEN lost ELSE lost \cup {job[c]}
  /\ UNCHANGED <<manager, runtime, occurrence, deployment, agent, gateway, job, failed,
                 snapshot, joined, asked, gone, stopAsked, runFailed,
                 succeeded>>

CollectLogs(c) == Collects(c, "logs", "telemetry")

\* The session files of openclaw, the session export of hermes.
CollectTelemetry(c) ==
  Collects(c, "telemetry", IF native = "hermes" THEN "spans" ELSE "return")

CollectSpans(c) == Collects(c, "spans", "return")

\* errors.Join of the run and of every collector.
RunEnds(c) == pc[c] = "return" /\ RunReturns(c, failed[c] \/ missed[c])

AgentEnds(o) ==
  /\ agent[o] = "running" /\ agent' = [agent EXCEPT ![o] = "ended"]
  /\ UNCHANGED <<manager, runtime, occurrence, deployment, gateway, thread, history>>

-----------------------------------------------------------------------------
(* Stop *)

Join == running

\* No Run is admitted any more, whatever comes of the removal.
BeginStop == ready' = FALSE

\* Stop joins the attempt in progress, finds nothing to remove or removes.
Stop(c) ==
  /\ pc[c] = "idle" /\ mu = None
  /\ BeginStop
  /\ \/ /\ Join /\ Goto(c, "wait") /\ asked' = [asked EXCEPT ![c] = owned]
        /\ UNCHANGED <<running, attemptErr, job, gone>>
     \/ /\ ~Join /\ active = None
        /\ gone' = IF attemptErr THEN gone ELSE gone \cup owned
        /\ UNCHANGED <<running, attemptErr, pc, job, asked>>
     \/ /\ ~Join /\ active # None
        /\ running' = TRUE /\ attemptErr' = FALSE
        /\ job' = [job EXCEPT ![c] = published]
        /\ Goto(c, IF native = "hermes" /\ published # None THEN "stopCancel"
                                                            ELSE "remove")
        /\ asked' = [asked EXCEPT ![c] = owned]
        /\ UNCHANGED gone
  /\ UNCHANGED <<manager, active, admitted, occurrence, deployment, agent, gateway,
                 failed, missed, snapshot, joined, stopAsked, runFailed, lost, succeeded>>

StopRemove(c) ==
  /\ pc[c] = "remove" /\ Goto(c, "finish")
  /\ \/ job[c] = None /\ UNCHANGED <<exists, agent, id, creds, failed>>
     \/ job[c] # None /\ Removed(job[c]) /\ UNCHANGED failed
     \/ /\ job[c] # None /\ NotRemoved(job[c])
        /\ failed' = [failed EXCEPT ![c] = TRUE]
  /\ UNCHANGED <<manager, runtime, owned, started, unconfirmed, gateway, job,
                 missed, snapshot, joined, asked, history>>

Released(o) == o \notin id

\* Mutant: the channel of the attempt is not closed.
WakesNone == {}

Wakes == {c \in Caller : pc[c] = "wait" /\ joined[c] = "open"}

\* FinishStop publishes the outcome to the calls that joined this attempt.
Finish(c) ==
  LET result == IF failed[c] THEN "err" ELSE "nil" IN
  /\ pc[c] = "finish" /\ mu = None /\ Return(c)
  /\ published' = IF Released(job[c]) THEN None ELSE published
  /\ active' = IF Released(active) THEN None ELSE active
  /\ ready' = (ready /\ ~Released(active))
  /\ running' = FALSE /\ attemptErr' = failed[c]
  /\ joined' = [d \in Caller |-> IF d \in Wakes THEN result ELSE joined[d]]
  /\ gone' = IF failed[c] THEN gone ELSE gone \cup asked[c]
  /\ asked' = [asked EXCEPT ![c] = {}] /\ failed' = [failed EXCEPT ![c] = FALSE]
  /\ UNCHANGED <<native, voice, mu, admitted, occurrence, deployment, agent, gateway,
                 missed, snapshot, stopAsked, runFailed, lost,
                 succeeded>>

\* Mutant: a joined call returns what the current attempt says.
CurrentOutcome(c) == IF joined[c] = "open" THEN joined[c]
                     ELSE IF attemptErr THEN "err" ELSE "nil"

\* A joined call returns the outcome of the attempt it joined, although a
\* later attempt may have begun.
Outcome(c) == joined[c]

StopJoined(c) ==
  /\ pc[c] = "wait" /\ Outcome(c) # "open" /\ Goto(c, "idle")
  /\ gone' = IF Outcome(c) = "nil" THEN gone \cup asked[c] ELSE gone
  /\ joined' = [joined EXCEPT ![c] = "open"] /\ asked' = [asked EXCEPT ![c] = {}]
  /\ UNCHANGED <<manager, runtime, occurrence, deployment, agent, gateway, job, failed,
                 missed, snapshot, stopAsked, runFailed, lost, succeeded>>

\* The context of a joined call is done; the cleanup goes on.
StopGivesUp(c) ==
  /\ pc[c] = "wait" /\ Goto(c, "idle")
  /\ joined' = [joined EXCEPT ![c] = "open"] /\ asked' = [asked EXCEPT ![c] = {}]
  /\ UNCHANGED <<manager, runtime, occurrence, deployment, agent, gateway, job, failed,
                 missed, snapshot, history>>

-----------------------------------------------------------------------------
Step(c) ==
  \/ Stage(c) \/ RuntimeArchive(c) \/ Create(c) \/ Prepare(c) \/ WaitReady(c)
  \/ Publish(c) \/ Rollback(c)
  \/ SynthesizeVoiceInstruction(c) \/ StageVoiceWAV(c) \/ TranscribeVoice(c)
  \/ RunAborts(c) \/ RunBegins(c) \/ Submit(c) \/ RunKnown(c) \/ Poll(c)
  \/ CancelRun(c, "runCancel", "runRequest", "result")
  \/ RequestStop(c, "runRequest", "result")
  \/ WriteResult(c) \/ VoiceResultFails(c) \/ CollectLogs(c) \/ CollectTelemetry(c)
  \/ CollectSpans(c) \/ RunEnds(c)
  \/ CancelRun(c, "stopCancel", "stopRequest", "remove")
  \/ RequestStop(c, "stopRequest", "remove")
  \/ StopRemove(c) \/ Finish(c) \/ StopJoined(c)

Next ==
  \/ \E c \in Caller, o \in Occurrence : StartRefused(c, o) \/ Start(c, o)
  \/ \E c \in Caller : Run(c) \/ Stop(c) \/ StopGivesUp(c) \/ Step(c)
  \/ \E o \in Occurrence : AgentEnds(o)

\* Every call a manager makes carries a deadline; nothing is assumed of the
\* agent or of the contexts of joined Stops.
Spec == Init /\ [][Next]_vars /\ \A c \in Caller : WF_vars(Step(c))

-----------------------------------------------------------------------------
\* The shape of the managers' state.
TypeOK ==
  /\ native \in {"openclaw", "hermes"} /\ voice \in BOOLEAN
  /\ mu \in Caller \cup {None}
  /\ published \in Occurrence \cup {None} /\ active \in Occurrence \cup {None}
  /\ ready \in BOOLEAN /\ admitted \in BOOLEAN /\ running \in BOOLEAN
  /\ attemptErr \in BOOLEAN
  /\ owned \subseteq Occurrence /\ started \subseteq Occurrence
  /\ id \subseteq Occurrence /\ creds \subseteq Occurrence
  /\ exists \subseteq Occurrence /\ unconfirmed \subseteq Occurrence
  /\ agent \in [Occurrence -> {"none", "running", "ended"}]
  /\ stopped \subseteq Occurrence /\ runID \subseteq Occurrence
  /\ pc \in [Caller -> PC] /\ job \in [Caller -> Occurrence \cup {None}]
  /\ failed \in [Caller -> BOOLEAN] /\ missed \in [Caller -> BOOLEAN]
  /\ snapshot \in [Caller -> BOOLEAN]
  /\ joined \in [Caller -> {"open", "nil", "err"}]
  /\ asked \in [Caller -> SUBSET Occurrence]
  /\ gone \subseteq Occurrence /\ stopAsked \subseteq Occurrence
  /\ runFailed \subseteq Occurrence /\ lost \subseteq Occurrence
  /\ succeeded \subseteq Occurrence

Starting(o) == \E c \in Caller : pc[c] \in StartStep /\ job[c] = o

(***************************************************************************)
(* A container that exists is never out of reach: its identity is kept,    *)
(* the Runtime owns it, and either its Start is still at work or it is the *)
(* session the next Stop removes.  This spans a Create that fails with an  *)
(* identity, a failed rollback and any number of failed Stops.             *)
(***************************************************************************)
AlwaysReachable ==
  \A o \in exists \ unconfirmed :
    o \in id /\ active = o /\ (Starting(o) \/ published = o)

(***************************************************************************)
(* A Stop that returned nil left no container and no credentials behind,   *)
(* whether it removed them itself, joined another Stop or came after it.   *)
(***************************************************************************)
NilMeansGone == \A o \in gone \ unconfirmed : o \notin exists \cup creds

(***************************************************************************)
(* A Run that reports success collected its evidence from a runtime that   *)
(* still existed: a Stop that removes it between the agent's answer and    *)
(* any of the collectors turns the success into a failure.                 *)
(***************************************************************************)
SuccessIsEvidenced == succeeded \cap lost = {}

(***************************************************************************)
(* hermes: when a Run has failed, the agent run it knows of has ended or   *)
(* was asked to stop, also when Stop's own cancellation came too early to  *)
(* know it.                                                                *)
(***************************************************************************)
FailedRunIsCancelled ==
  \A o \in runFailed \cap runID : agent[o] = "ended" \/ o \in stopAsked

(***************************************************************************)
(* The contract of Create in pkg/deployment/deployment.go: "Callers must   *)
(* not report successful cleanup when Create returns this error without an *)
(* identity."  No Stop returns nil for such an occurrence.                 *)
(***************************************************************************)
UncertaintyReported == gone \cap unconfirmed = {}

(***************************************************************************)
(* Every call returns: Start gives the mutex back, and a joined Stop is    *)
(* woken when the attempt it joined ends.                                  *)
(***************************************************************************)
CallsReturn == \A c \in Caller : pc[c] # "idle" ~> pc[c] = "idle"
=============================================================================
