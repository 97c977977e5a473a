---------------------------- MODULE RunLifecycle ----------------------------
(***************************************************************************)
(* One "aries run" (internal/app): Run prepares, starts the managed model  *)
(* runtime, validates the model, and leaves the tasks to a goroutine that  *)
(* owns the run infrastructure around runProfile (ProfileScheduler) and    *)
(* persists the result.  Run watches the runtime meanwhile.  Every call    *)
(* may fail, the caller's context may be cancelled and the runtime may     *)
(* exit at any moment.                                                     *)
(***************************************************************************)
EXTENDS Naturals, Sequences

CONSTANTS NumTasks, Concurrency, MaxIndex

ASSUME RunAssumption ==
  /\ NumTasks \in Nat \ {0} /\ Concurrency \in Nat \ {0} /\ MaxIndex \in Nat

VARIABLES
  mode, pc, pos, tokens, index, slots, left, cancelled, expired, fired, due, result
profile ==
  <<mode, pc, pos, tokens, index, slots, left, cancelled, expired, fired, due, result>>

Profile == INSTANCE ProfileScheduler

VARIABLES
  main,       \* where Run is
  err,        \* returnErr # nil
  managed,    \* prepared.Runtime # nil
  official,   \* isOfficialDeepSeek: the model is served by DeepSeek itself
  runtime,    \* the model server: "none", "up", "exited" by itself, "stopped"
  early,      \* history: it exited before Run looked for the last time
  keys,       \* where the API keys are looked up: "none", "environment", "file"
  log,        \* the run log is attached
  preflight,  \* the validation goroutine
  work,       \* where the execution goroutine is
  workErr,    \* the error that goroutine will send
  service, observer, owned,  \* service # nil, observerStarted, recorderOwnsSource
  source,     \* the run's resource source: "none", "open", "closed"
  closes,     \* history: how often its Close was called
  exists,     \* which of the run's network and bridge exist
  disk        \* what is in the output directory

control == <<main, err, log, keys>>
model == <<managed, official, runtime, early>>
worker == <<work, workErr>>
infra == <<service, observer, owned, source, closes, exists>>
vars == <<profile, control, model, preflight, worker, infra, disk>>

Init ==
  /\ Profile!Init
  /\ main = "prepare" /\ err = FALSE /\ runtime = "none"
  /\ managed \in BOOLEAN /\ official \in BOOLEAN /\ (official => ~managed)
  /\ early = FALSE /\ keys = "none" /\ log = FALSE /\ preflight = "none"
  /\ work = "none" /\ workErr = FALSE
  /\ service = FALSE /\ observer = FALSE /\ owned = FALSE
  /\ source = "none" /\ closes = 0 /\ exists = {} /\ disk = {}

-----------------------------------------------------------------------------
(* Run *)

\* return err: the deferred calls start with the last one registered.
Fails(p) == main' = p /\ err' = TRUE

\* The key file beside the repository is looked at by name and again once it is
\* open, and may be replaced in between.  It is refused unless it is a regular
\* file of its owner alone, of one well-formed line.
KeyFile == {"missing", "link", "exposed", "malformed", "good"}
loadLocalAPIKeySource(seen, opened) ==
  CASE seen = "missing" -> "environment"
    [] seen \in {"malformed", "good"} /\ opened = "good" -> "file"
    [] OTHER -> "refused"

\* Any other model has its key in the environment.
resolveAPIKeyLookup ==
  {"environment"} \cup
  {loadLocalAPIKeySource(seen, opened) : seen, opened \in {f \in KeyFile : official}}

\* Configuration, backend and API keys.  Without the keys the failed validation
\* is still put on disk, in an output directory made for it.
Prepare ==
  /\ main = "prepare"
  /\ \/ Fails("returned") /\ UNCHANGED <<keys, disk>>
     \/ \E k \in resolveAPIKeyLookup :
          \/ /\ k = "refused" /\ Fails("returned") /\ UNCHANGED keys
             /\ disk' \in {{}, {"root"}, {"root", "validation"}}
          \/ k # "refused" /\ main' = "setup" /\ keys' = k /\ UNCHANGED <<err, disk>>
  /\ UNCHANGED <<profile, log, model, preflight, worker, infra>>

\* ensurePrepared: bridge, benchmark, catalog and images, each of which may fail.
Setup ==
  /\ main = "setup"
  /\ Fails("release") \/ (main' = "root" /\ UNCHANGED err)
  /\ UNCHANGED <<profile, log, keys, model, preflight, worker, infra, disk>>

CreateRoot ==
  /\ main = "root"
  /\ \/ Fails("release") /\ UNCHANGED <<log, disk>>
     \/ Fails("release") /\ disk' = {"root"} /\ UNCHANGED log
     \/ /\ main' = IF managed THEN "startRuntime" ELSE "preflight"
        /\ disk' = {"root"} /\ log' = TRUE /\ UNCHANGED err
  /\ UNCHANGED <<profile, keys, model, preflight, worker, infra>>

\* A runtime that did not start has no deferred Stop.
StartRuntime ==
  /\ main = "startRuntime"
  /\ \/ Fails("detach") /\ UNCHANGED runtime
     \/ main' = "health" /\ runtime' = "up" /\ UNCHANGED err
  /\ UNCHANGED <<profile, log, keys, managed, official, early, preflight, worker, infra,
                 disk>>

\* waitForRuntimeHealth: whatever Health says, an exited runtime is an error.
Health ==
  /\ main = "health"
  /\ \/ Fails("stopRuntime")
     \/ runtime = "up" /\ main' = "preflight" /\ UNCHANGED err
  /\ UNCHANGED <<profile, log, keys, model, preflight, worker, infra, disk>>

StartPreflight ==
  /\ main = "preflight" /\ main' = "awaitPreflight" /\ preflight' = "running"
  /\ UNCHANGED <<profile, err, log, keys, model, worker, infra, disk>>

\* Mutant: once the runtime is gone, nobody waits for the goroutine.
CompletionIgnored(done) == done \/ (managed /\ runtime # "up")

\* The receive that is left when the select of awaitRuntimeCompletion saw Done.
Completion(done) == done

\* runtimeExitIfDone, after the result was received.
RuntimeExit == managed /\ runtime = "exited"

PreflightEnded == preflight \in {"valid", "invalid"}

AwaitPreflight ==
  /\ main = "awaitPreflight" /\ Completion(PreflightEnded)
  /\ main' = "validation" /\ err' = (preflight = "invalid" \/ RuntimeExit)
  /\ UNCHANGED <<profile, log, keys, model, preflight, worker, infra, disk>>

\* persistRunResult links a complete temporary file: a failure before the link
\* leaves no file, one after it leaves the file and an error.
Persist(file, fails) ==
  disk' \in {disk, disk \cup {file}} /\ (~fails => file \in disk')

PersistValidation ==
  /\ main = "validation"
  /\ \E fails \in BOOLEAN :
       /\ Persist("validation", fails)
       /\ err' = (err \/ fails)
       /\ main' = IF ~err' THEN "schedule"
                  ELSE IF managed THEN "stopRuntime" ELSE "detach"
  /\ UNCHANGED <<profile, log, keys, model, preflight, worker, infra>>

\* The arrivals are read only now, after the runtime is up.
Schedule ==
  /\ main = "schedule"
  /\ \/ mode = "arrivals" /\ Fails(IF managed THEN "stopRuntime" ELSE "detach")
        /\ UNCHANGED work
     \/ main' = "await" /\ work' = "construct" /\ UNCHANGED err
  /\ UNCHANGED <<profile, log, keys, model, preflight, workErr, infra, disk>>

\* The select of awaitRuntimeCompletion sees the runtime's exit: cancelRun.
RuntimeLostInRun ==
  /\ main = "await" /\ RuntimeExit /\ ~cancelled
  /\ Profile!Cancel
  /\ UNCHANGED <<control, model, preflight, worker, infra, disk>>

Await ==
  /\ main = "await" /\ Completion(work = "done")
  /\ err' = (workErr \/ RuntimeExit)
  /\ main' = IF managed THEN "stopRuntime" ELSE "detach"
  /\ UNCHANGED <<profile, log, keys, model, preflight, worker, infra, disk>>

\* The deferred Stop has a context of its own.
StopRuntime ==
  /\ main = "stopRuntime" /\ main' = "detach"
  /\ \/ runtime' = "stopped" /\ UNCHANGED err
     \/ err' = TRUE /\ UNCHANGED runtime
  /\ UNCHANGED <<profile, log, keys, managed, official, early, preflight, worker, infra,
                 disk>>

Detach ==
  /\ main = "detach" /\ main' = "release" /\ log' = FALSE
  /\ err' \in {err, TRUE}
  /\ UNCHANGED <<profile, keys, model, preflight, worker, infra, disk>>

Release ==
  /\ main = "release" /\ main' = "returned" /\ keys' = "none"
  /\ UNCHANGED <<profile, err, log, model, preflight, worker, infra, disk>>

-----------------------------------------------------------------------------
(* The goroutine of executeAndRecord and runWithInfrastructure.  Every part *)
(* is started in turn; whatever fails, all of them are stopped in reverse,  *)
(* each with a deadline of its own.                                         *)

\* One of the calls of the goroutine: ok, or an error that is reported.
WorkGoto(p, ok) == work' = p /\ workErr' = (workErr \/ ~ok)

\* Construction allocates nothing: without it there is nothing to clean up.
Construct ==
  /\ work = "construct"
  /\ \/ WorkGoto("persist", FALSE) /\ UNCHANGED source
     \/ WorkGoto("environment", TRUE) /\ source' = "open"
  /\ UNCHANGED <<profile, control, model, preflight, service, observer, owned, closes,
                 exists, disk>>

\* A start that fails may leave what it started behind.
StartEnvironment ==
  /\ work = "environment"
  /\ \/ WorkGoto("bridge", TRUE) /\ exists' = {"network"}
     \/ WorkGoto("stopBridge", FALSE) /\ exists' \in {{}, {"network"}}
  /\ UNCHANGED <<profile, control, model, preflight, service, observer, owned, source,
                 closes, disk>>

NewBridge ==
  /\ work = "bridge"
  /\ \/ WorkGoto("observer", TRUE) /\ service' = TRUE
     \/ WorkGoto("stopBridge", FALSE) /\ UNCHANGED service
  /\ UNCHANGED <<profile, control, model, preflight, observer, owned, source, closes,
                 exists, disk>>

\* A recorder owns the source from its construction on; a Start that fails has
\* closed it.  Without an observer the run goes on and reports the error.
StartObserver ==
  /\ work = "observer"
  /\ \E made, started \in BOOLEAN :
       /\ started => made
       /\ WorkGoto("startBridge", started) /\ observer' = started
       /\ owned' = made
       /\ \/ made /\ ~started /\ source' = "closed" /\ closes' = closes + 1
          \/ (started \/ ~made) /\ UNCHANGED <<source, closes>>
  /\ UNCHANGED <<profile, control, model, preflight, service, exists, disk>>

StartBridge ==
  /\ work = "startBridge"
  /\ \/ WorkGoto("execute", TRUE) /\ exists' = exists \cup {"bridge"}
     \/ WorkGoto("stopBridge", FALSE) /\ exists' \in {exists, exists \cup {"bridge"}}
  /\ UNCHANGED <<profile, control, model, preflight, service, observer, owned, source,
                 closes, disk>>

\* runProfile
Execute ==
  /\ work = "execute" /\ pc # "returned"
  /\ Profile!Dispatch \/ Profile!Goroutine
  /\ UNCHANGED <<control, model, preflight, worker, infra, disk>>

Time ==
  /\ work = "execute" /\ Profile!Time
  /\ UNCHANGED <<control, model, preflight, worker, infra, disk>>

Executed ==
  /\ work = "execute" /\ pc = "returned"
  /\ WorkGoto("stopBridge", ~result.err)
  /\ UNCHANGED <<profile, control, model, preflight, infra, disk>>

StopBridge ==
  /\ work = "stopBridge"
  /\ \/ /\ WorkGoto("stopObserver", TRUE)
        /\ exists' = IF service THEN exists \ {"bridge"} ELSE exists
     \/ service /\ WorkGoto("stopObserver", FALSE) /\ UNCHANGED exists
  /\ UNCHANGED <<profile, control, model, preflight, service, observer, owned, source,
                 closes, disk>>

CloseSource == source' = "closed" /\ closes' = closes + 1

\* recorder.Stop closes the source, or reports that it has not ended in time.
StopObserver ==
  /\ work = "stopObserver"
  /\ \E ok \in BOOLEAN :
       /\ WorkGoto("stopEnvironment", ok)
       /\ \/ (observer \/ ~owned) /\ CloseSource
          \/ observer /\ ~ok /\ UNCHANGED <<source, closes>>
          \/ ~observer /\ owned /\ ok /\ UNCHANGED <<source, closes>>
  /\ UNCHANGED <<profile, control, model, preflight, service, observer, owned, exists,
                 disk>>

StopEnvironment ==
  /\ work = "stopEnvironment"
  /\ \/ WorkGoto("close", TRUE) /\ exists' = exists \ {"network"}
     \/ WorkGoto("close", FALSE) /\ UNCHANGED exists
  /\ UNCHANGED <<profile, control, model, preflight, service, observer, owned, source,
                 closes, disk>>

CloseInfrastructure ==
  /\ work = "close"
  /\ \E ok \in BOOLEAN : WorkGoto("persist", ok)
  /\ UNCHANGED <<profile, control, model, preflight, infra, disk>>

\* The result goes to disk and to stdout, each with its own error.
RecordResult ==
  /\ work = "persist"
  /\ \E fails \in BOOLEAN : WorkGoto("done", ~fails) /\ Persist("result", fails)
  /\ UNCHANGED <<profile, control, model, preflight, infra>>

-----------------------------------------------------------------------------
(* What Run does not decide *)

\* What a request for the list of models comes to: no response, an error of the
\* server, another status, a body that is none, a list without the model or with.
ModelAnswer == {"none", "server", "status", "unreadable", "unlisted", "listed"}

\* One request, never repeated.
validateOpenAICompatibleModel(answer) == IF answer = "listed" THEN "valid" ELSE "invalid"

\* DeepSeek may be asked again, unless the context is the reason.
Retryable(answer) == answer = "server" \/ (answer = "none" /\ ~cancelled)
deepSeekAttempt(answer) ==
  CASE answer = "listed" -> "valid"
    [] preflight = "running" /\ Retryable(answer) -> "sleeping"
    [] OTHER -> "invalid"

sleepWithContext ==
  /\ preflight = "sleeping"
  /\ preflight' \in {"again"} \cup {p \in {"invalid"} : cancelled}

\* Nothing is sent without a usable configuration and key.
validateLiveModel ==
  /\ \/ preflight = "running" /\ preflight' = "invalid"
     \/ /\ preflight \in {"running", "again"}
        /\ \E answer \in ModelAnswer :
             preflight' = IF official THEN deepSeekAttempt(answer)
                          ELSE validateOpenAICompatibleModel(answer)
     \/ sleepWithContext
  /\ UNCHANGED <<profile, control, model, worker, infra, disk>>

\* The caller's context: the run context is derived from it.
Cancel ==
  /\ main # "returned" /\ ~cancelled /\ Profile!Cancel
  /\ UNCHANGED <<control, model, preflight, worker, infra, disk>>

RuntimeExits ==
  /\ runtime = "up" /\ main # "returned" /\ runtime' = "exited"
  /\ early' = (main \notin {"stopRuntime", "detach", "release"})
  /\ UNCHANGED <<profile, control, managed, official, preflight, worker, infra, disk>>

Main ==
  \/ Prepare \/ Setup \/ CreateRoot \/ StartRuntime \/ Health \/ StartPreflight
  \/ AwaitPreflight \/ PersistValidation \/ Schedule \/ RuntimeLostInRun \/ Await
  \/ StopRuntime \/ Detach \/ Release
Worker ==
  \/ Construct \/ StartEnvironment \/ NewBridge \/ StartObserver \/ StartBridge
  \/ Execute \/ Executed \/ StopBridge \/ StopObserver \/ StopEnvironment
  \/ CloseInfrastructure \/ RecordResult

Next == Main \/ Worker \/ Time \/ validateLiveModel \/ Cancel \/ RuntimeExits

\* Goroutines run, every call they make has a deadline, and time passes.
Spec == /\ Init /\ [][Next]_vars
        /\ WF_vars(Main) /\ WF_vars(Worker)
        /\ WF_vars(Time) /\ WF_vars(validateLiveModel)

-----------------------------------------------------------------------------
TypeOK ==
  /\ Profile!TypeOK
  /\ main \in {"prepare", "setup", "root", "startRuntime", "health", "preflight",
              "awaitPreflight", "validation", "schedule", "await", "stopRuntime",
              "detach", "release", "returned"}
  /\ work \in {"none", "construct", "environment", "bridge", "observer",
              "startBridge", "execute", "stopBridge", "stopObserver", "stopEnvironment", "close",
              "persist", "done"}
  /\ keys \in {"none", "environment", "file"}
  /\ err \in BOOLEAN /\ managed \in BOOLEAN /\ official \in BOOLEAN /\ early \in BOOLEAN /\ log \in BOOLEAN
  /\ workErr \in BOOLEAN /\ service \in BOOLEAN /\ observer \in BOOLEAN
  /\ owned \in BOOLEAN
  /\ runtime \in {"none", "up", "exited", "stopped"}
  /\ preflight \in {"none", "running", "sleeping", "again", "valid", "invalid"}
  /\ source \in {"none", "open", "closed"} /\ closes \in 0..2
  /\ exists \subseteq {"network", "bridge"}
  /\ disk \subseteq {"root", "validation", "result"}

(***************************************************************************)
(* When Run returns, everything it started has come to its end: neither    *)
(* goroutine is at work, so the runtime was not taken away under a running *)
(* task or a cleanup; the source was closed once at most, and is still     *)
(* open only if its recorder could not be stopped; no task leaves a client *)
(* open but such a source of its own; and what is left over was reported   *)
(* as an error.                                                            *)
(***************************************************************************)
SettledOnReturn ==
  /\ main \in {"detach", "release", "returned"} =>
       work \in {"none", "done"} /\ (preflight = "none" \/ PreflightEnded)
  /\ closes <= 1 /\ left \subseteq {"resources"}
  /\ main = "returned" =>
       /\ ~log /\ keys # "file"
       /\ source = "open" => observer
       /\ (exists # {} \/ source = "open" \/ left # {} \/ runtime = "up") => err

(***************************************************************************)
(* A nil error means a complete run: the validation and the result are on  *)
(* disk, every task of the profile ran without an error, the model runtime *)
(* did not exit early, also not at the moment the last task ended, and     *)
(* nothing of the infrastructure is left.                                  *)
(***************************************************************************)
NilMeansComplete ==
  main = "returned" /\ ~err =>
    /\ disk = {"root", "validation", "result"}
    /\ mode # "loop" => result.tasks = 1..NumTasks
    /\ \A i \in DOMAIN slots :
         slots[i].state = "done" /\ slots[i].reported /\ ~slots[i].err
    /\ exists = {} /\ source = "closed" /\ runtime # "up" /\ ~early

(***************************************************************************)
(* Run returns, whatever fails, and however cancellation, deadline, the    *)
(* runtime's exit, a full pool and ending tasks interleave.                *)
(***************************************************************************)
RunReturns == <>(main = "returned")
=============================================================================
