------------------------------ MODULE Recorder ------------------------------
(***************************************************************************)
(* The resource recorder (pkg/monitor/recorder.go, artifacts.go): Start    *)
(* creates one private directory and sample file per task, takes a first   *)
(* sample and launches the sampler; Stop calls share one finishStop        *)
(* goroutine, which cancels the sampler, waits for it no longer than the   *)
(* stop timeout, closes the files and writes one index per task.  A stop   *)
(* attempt that fails may be retried by a later Stop.                      *)
(*                                                                         *)
(* The resource source and the file system are external: any request, any  *)
(* write, sync, close, rename or removal may fail.  Tasks are numbered in  *)
(* the order of taskIDs.  A reading is only its task; its values, and the  *)
(* rates derived from them, matter here only as a reason to reject it.     *)
(***************************************************************************)
EXTENDS Naturals, FiniteSets

CONSTANTS Caller, NumTasks, MaxSamples

ASSUME RecorderAssumption == NumTasks \in Nat \ {0} /\ MaxSamples \in Nat \ {0}

Task == 1..NumTasks
None == "none"

\* index.json of a task, and the report made from it
NoIndex == [status |-> "none", count |-> 0]
Partial == [status |-> "partial", count |-> 0]
NoReports == [t \in Task |-> NoIndex]

VARIABLES
  \* Recorder
  starting, started, completed,
  unsupported, backgroundErr, filesClosed,
  attempt,   \* where finishStop of the current attempt is; none, finished
  reports,   \* the cached reports once completed
  \* the sampler goroutine: none, idle, asking, done; and its context
  sampler, canceled,
  \* taskArtifact of each task: none, open, closed
  file,
  \* the file system
  dir,       \* absent, own, foreign (made by someone else)
  lines,     \* complete samples in resources.jsonl
  torn,      \* an incomplete sample follows them
  index,     \* index.json: none, partial, or what was written
  source,    \* open, closed, closeFailed
  \* the callers of Start and Stop
  where, result

artifact == <<file, lines, torn>>
lifecycle == <<starting, started, completed>>
loop == <<sampler, canceled, backgroundErr>>
recorderVars == <<starting, started, completed, unsupported, backgroundErr, filesClosed,
          attempt, reports, sampler, canceled, file, dir, lines, torn, index,
          source, where, result>>

RecorderInit ==
  /\ starting = FALSE /\ started = FALSE /\ completed = FALSE
  /\ unsupported = FALSE /\ backgroundErr = FALSE /\ filesClosed = FALSE
  /\ attempt = None /\ reports = NoReports
  /\ sampler = None /\ canceled = FALSE
  /\ file = [t \in Task |-> None]
  /\ dir \in [Task -> {"absent", "foreign"}]
  /\ lines = [t \in Task |-> 0] /\ torn = [t \in Task |-> FALSE]
  /\ index = NoReports
  /\ source = "open"
  /\ where = [c \in Caller |-> "idle"]
  /\ result = [c \in Caller |-> [outcome |-> None, reports |-> NoReports]]

MoveTo(c, p) == where' = [where EXCEPT ![c] = p]
ReturnReports(c, o, r) ==
  /\ where' = [where EXCEPT ![c] = "idle"]
  /\ result' = [result EXCEPT ![c] = [outcome |-> o, reports |-> r]]
Returns(c, o) == ReturnReports(c, o, NoReports)

\* sourceCloseOnce: the source is closed once and its error is remembered.
CloseSource ==
  IF source = "open" THEN source' \in {"closed", "closeFailed"}
                     ELSE UNCHANGED source

-----------------------------------------------------------------------------
(* One sample *)
Writable(t) == file[t] = "open" /\ lines[t] < MaxSamples
Appendable(R, bad) ==
  /\ bad \in R \cup {0}
  /\ \A t \in R : ~Writable(t) => bad # 0 /\ bad <= t
Appended(R, bad) == {t \in R : bad = 0 \/ t < bad}
Append(R, bad) ==
  /\ lines' = [t \in Task |-> IF t \in Appended(R, bad) THEN lines[t] + 1 ELSE lines[t]]
  \* a failed write leaves part of the rejected sample behind
  /\ torn' \in {torn} \cup
       {[torn EXCEPT ![t] = TRUE] : t \in {u \in {bad} \cap Task : Writable(u)}}

-----------------------------------------------------------------------------
(* Start *)

StartCanceled(c) ==
  /\ where[c] = "idle"
  /\ CloseSource
  /\ Returns(c, "canceled")
  /\ UNCHANGED <<lifecycle, unsupported, loop, filesClosed, attempt, reports,
                 artifact, dir, index>>

StartRefused(c) ==
  /\ where[c] = "idle"
  /\ started \/ starting \/ completed
  /\ Returns(c, "already started")
  /\ UNCHANGED <<lifecycle, unsupported, loop, filesClosed, attempt, reports,
                 artifact, dir, index, source>>

StartBegins(c) ==
  /\ where[c] = "idle"
  /\ ~started /\ ~starting /\ ~completed
  /\ starting' = TRUE
  /\ MoveTo(c, "prepare")
  /\ UNCHANGED <<started, completed, unsupported, loop, filesClosed, attempt,
                 reports, artifact, dir, index, source, result>>

\* removePartialArtifacts over the tasks made: what it fails to remove stays.
Leftover(made) == SUBSET made
RolledBack(made, kept) ==
  [t \in Task |-> IF t \in made THEN IF t \in kept THEN "own" ELSE "absent" ELSE dir[t]]

\* The task whose directory cannot be made was not entered in the map and is
\* left as it is; the one whose file cannot be opened was, and is removed.
Made(t, opening) == IF opening THEN 1..t ELSE 1..(t - 1)

PrepareFails(c) ==
  /\ where[c] = "prepare"
  /\ \E t \in Task, opening \in BOOLEAN :
       /\ \A u \in Task : u < t \/ (u = t /\ opening) => dir[u] = "absent"
       /\ \E kept \in Leftover(Made(t, opening)) :
            dir' = RolledBack(Made(t, opening), kept)
  /\ starting' = FALSE
  /\ MoveTo(c, "closeSource")
  /\ UNCHANGED <<started, completed, unsupported, loop, filesClosed, attempt,
                 reports, artifact, index, source, result>>

Prepare(c) ==
  /\ where[c] = "prepare"
  /\ \A t \in Task : dir[t] = "absent"
  /\ dir' = [t \in Task |-> "own"]
  /\ file' = [t \in Task |-> "open"]
  /\ lines' = [t \in Task |-> 0] /\ torn' = [t \in Task |-> FALSE]
  /\ MoveTo(c, "sample")
  /\ UNCHANGED <<lifecycle, unsupported, loop, filesClosed, attempt, reports,
                 index, source, result>>

\* The first sample fails or the context ended: the artifacts are removed.
FirstSampleFails(c) ==
  /\ where[c] = "sample"
  /\ \E kept \in Leftover(Task) : dir' = RolledBack(Task, kept)
  /\ file' = [t \in Task |-> None]
  /\ lines' = [t \in Task |-> 0] /\ torn' = [t \in Task |-> FALSE]
  /\ starting' = FALSE
  /\ MoveTo(c, "closeSource")
  /\ UNCHANGED <<started, completed, unsupported, loop, filesClosed, attempt,
                 reports, index, source, result>>

StartFails(c) ==
  /\ where[c] = "closeSource"
  /\ CloseSource
  /\ Returns(c, "start failed")
  /\ UNCHANGED <<lifecycle, unsupported, loop, filesClosed, attempt, reports,
                 artifact, dir, index>>

StartSucceeds(c) ==
  /\ where[c] = "sample"
  /\ \/ /\ \E R \in SUBSET Task : Appendable(R, 0) /\ Append(R, 0)
        /\ sampler' = "idle" /\ UNCHANGED <<canceled, unsupported>>
     \/ /\ unsupported' = TRUE /\ canceled' = TRUE /\ sampler' = "done"
        /\ UNCHANGED <<lines, torn>>
  /\ starting' = FALSE /\ started' = TRUE
  /\ Returns(c, "started")
  /\ UNCHANGED <<completed, backgroundErr, filesClosed, attempt, reports, file,
                 dir, index, source>>

-----------------------------------------------------------------------------
(* The sampler goroutine *)

Tick ==
  /\ sampler = "idle" /\ sampler' = "asking"
  /\ UNCHANGED <<lifecycle, unsupported, canceled, backgroundErr, filesClosed,
                 attempt, reports, artifact, dir, index, source, where, result>>

SampleTaken ==
  /\ sampler = "asking"
  /\ \E R \in SUBSET Task : Appendable(R, 0) /\ Append(R, 0)
  /\ sampler' = "idle"
  /\ UNCHANGED <<lifecycle, unsupported, canceled, backgroundErr, filesClosed,
                 attempt, reports, file, dir, index, source, where, result>>

\* The source fails (no reading), or a reading is rejected.
SampleFails ==
  /\ sampler = "asking"
  /\ \/ UNCHANGED <<lines, torn>>
     \/ \E R \in SUBSET Task, bad \in Task : Appendable(R, bad) /\ Append(R, bad)
  /\ backgroundErr' = TRUE
  /\ sampler' = "done"
  /\ UNCHANGED <<lifecycle, unsupported, canceled, filesClosed, attempt, reports,
                 file, dir, index, source, where, result>>

\* The context ended: between samples, or the request reports it.
SamplerCanceled ==
  /\ sampler \in {"idle", "asking"} /\ canceled
  /\ sampler' = "done"
  /\ UNCHANGED <<lifecycle, unsupported, canceled, backgroundErr, filesClosed,
                 attempt, reports, artifact, dir, index, source, where, result>>

-----------------------------------------------------------------------------
(* Stop *)

StopNotStarted(c) ==
  /\ where[c] = "idle" /\ ~started
  /\ IF starting THEN Returns(c, "not started")
                 ELSE MoveTo(c, "closeUnstarted") /\ UNCHANGED result
  /\ UNCHANGED <<lifecycle, unsupported, loop, filesClosed, attempt, reports,
                 artifact, dir, index, source>>

StopUnstartedCloses(c) ==
  /\ where[c] = "closeUnstarted"
  /\ CloseSource
  /\ Returns(c, "not started")
  /\ UNCHANGED <<lifecycle, unsupported, loop, filesClosed, attempt, reports,
                 artifact, dir, index>>

StopCompleted(c) ==
  /\ where[c] = "idle" /\ started /\ completed
  /\ ReturnReports(c, "stopped", reports)
  /\ UNCHANGED <<lifecycle, unsupported, loop, filesClosed, attempt, reports,
                 artifact, dir, index, source>>

NewAttempt == attempt \in {None, "finished"}

StopWaits(c) ==
  /\ where[c] = "idle" /\ started /\ ~completed
  /\ IF NewAttempt THEN attempt' = "cancel" ELSE UNCHANGED attempt
  /\ MoveTo(c, "wait")
  /\ UNCHANGED <<lifecycle, unsupported, loop, filesClosed, reports, artifact,
                 dir, index, source, result>>

\* The caller's own context ends first; the attempt goes on.
StopGivesUp(c) ==
  /\ where[c] = "wait"
  /\ Returns(c, "canceled")
  /\ UNCHANGED <<lifecycle, unsupported, loop, filesClosed, attempt, reports,
                 artifact, dir, index, source>>

-----------------------------------------------------------------------------
(* finishStop *)

\* Closing attempt.done returns every call that waits for this attempt.
Woken == {c \in Caller : where[c] = "wait"}
Wake(o, r) ==
  /\ where' = [c \in Caller |-> IF c \in Woken THEN "idle" ELSE where[c]]
  /\ result' = [c \in Caller |-> IF c \in Woken THEN [outcome |-> o, reports |-> r]
                                        ELSE result[c]]
Succeeds(ok) == ok /\ source' = "closed"
CompleteOpen(ok, r) == \* mutant: a failed attempt keeps the source
  /\ IF ok THEN CloseSource ELSE UNCHANGED source
  /\ attempt' = "finished"
  /\ IF Succeeds(ok)
     THEN completed' = TRUE /\ reports' = r /\ Wake("stopped", r)
     ELSE UNCHANGED <<completed, reports>> /\ Wake("stop failed", r)
Complete(ok, r) ==
  /\ CloseSource
  /\ attempt' = "finished"
  /\ IF Succeeds(ok)
     THEN completed' = TRUE /\ reports' = r /\ Wake("stopped", r)
     ELSE UNCHANGED <<completed, reports>> /\ Wake("stop failed", r)

FinishCancel ==
  /\ attempt = "cancel" /\ attempt' = "wait"
  /\ canceled' = TRUE
  /\ UNCHANGED <<lifecycle, unsupported, sampler, backgroundErr, filesClosed,
                 reports, artifact, dir, index, source, where, result>>
FinishJoined ==
  /\ attempt = "wait" /\ sampler = "done"
  /\ attempt' = "close"
  /\ UNCHANGED <<lifecycle, unsupported, loop, filesClosed, reports, artifact,
                 dir, index, source, where, result>>

\* The timer fires; the sampler may have ended at the same time.
FinishTimesOut ==
  /\ attempt = "wait"
  /\ Complete(FALSE, NoReports)
  /\ UNCHANGED <<starting, started, unsupported, loop, filesClosed, artifact,
                 dir, index>>

\* Files are closed in task order.  A failed sync keeps the file open for the
\* next attempt, a failed close does not.
FinishClose ==
  /\ attempt = "close" /\ ~filesClosed
  /\ file' = [t \in Task |-> "closed"]
  /\ filesClosed' = TRUE
  /\ attempt' = "index"
  /\ UNCHANGED <<lifecycle, unsupported, loop, reports, lines, torn, dir, index,
                 source, where, result>>

FinishCloseFails ==
  /\ attempt = "close" /\ ~filesClosed
  /\ \E t \in {u \in Task : file[u] = "open"}, synced \in BOOLEAN :
       file' = [u \in Task |-> IF u < t \/ (u = t /\ synced) THEN "closed" ELSE file[u]]
  /\ Complete(FALSE, NoReports)
  /\ UNCHANGED <<starting, started, unsupported, loop, filesClosed, lines, torn,
                 dir, index>>

FinishClosedBefore ==
  /\ attempt = "close" /\ filesClosed
  /\ attempt' = "index"
  /\ UNCHANGED <<lifecycle, unsupported, loop, filesClosed, reports, artifact,
                 dir, index, source, where, result>>

StatusOptimistic == IF unsupported THEN "unsupported" ELSE "succeeded" \* mutant
Status ==
  IF backgroundErr THEN "failed" ELSE IF unsupported THEN "unsupported" ELSE "succeeded"
Wanted(t) == [status |-> Status, count |-> lines[t]]

\* writeIndexExact creates the file, or accepts one that is already exact.
Accepts(t) == index[t] \in {NoIndex, Wanted(t)}

FinishIndex ==
  /\ attempt = "index"
  /\ \A t \in Task : Accepts(t)
  /\ index' = [t \in Task |-> Wanted(t)]
  /\ Complete(TRUE, [t \in Task |-> Wanted(t)])
  /\ UNCHANGED <<starting, started, unsupported, loop, filesClosed, artifact, dir>>

\* A write fails at task t: the file is removed, unless that fails too.
FinishIndexFails ==
  /\ attempt = "index"
  /\ \E t \in Task :
       /\ \A u \in Task : u < t => Accepts(u)
       /\ \E left \in IF index[t] = NoIndex THEN {NoIndex, Partial} ELSE {index[t]} :
            index' = [u \in Task |-> IF u < t THEN Wanted(u)
                                     ELSE IF u = t THEN left ELSE index[u]]
  /\ Complete(FALSE, NoReports)
  /\ UNCHANGED <<starting, started, unsupported, loop, filesClosed, artifact, dir>>

RecorderNext ==
  \/ Tick \/ SampleTaken \/ SampleFails \/ SamplerCanceled
  \/ FinishCancel \/ FinishJoined \/ FinishTimesOut
  \/ FinishClose \/ FinishCloseFails \/ FinishClosedBefore
  \/ FinishIndex \/ FinishIndexFails
  \/ \E c \in Caller :
       \/ StartCanceled(c) \/ StartRefused(c) \/ StartBegins(c)
       \/ PrepareFails(c) \/ Prepare(c)
       \/ FirstSampleFails(c) \/ StartFails(c) \/ StartSucceeds(c)
       \/ StopNotStarted(c) \/ StopUnstartedCloses(c) \/ StopCompleted(c)
       \/ StopWaits(c) \/ StopGivesUp(c)

FinishStop ==
  \/ FinishCancel \/ FinishJoined \/ FinishTimesOut
  \/ FinishClose \/ FinishCloseFails \/ FinishClosedBefore
  \/ FinishIndex \/ FinishIndexFails

\* The finishStop goroutine runs and its timer fires.  Nothing is assumed of
\* the sampler, which may wait for the source for ever.
RecorderSpec == RecorderInit /\ [][RecorderNext]_recorderVars /\ WF_recorderVars(FinishStop)

-----------------------------------------------------------------------------
(* Properties *)

Summary == [status : {"none", "partial", "succeeded", "failed", "unsupported"},
            count : 0..MaxSamples]

\* The shape of the recorder's state; no file holds more samples than the bound.
RecorderTypeOK ==
  /\ starting \in BOOLEAN /\ started \in BOOLEAN /\ completed \in BOOLEAN
  /\ unsupported \in BOOLEAN /\ backgroundErr \in BOOLEAN /\ filesClosed \in BOOLEAN
  /\ canceled \in BOOLEAN
  /\ attempt \in {None, "cancel", "wait", "close", "index", "finished"}
  /\ reports \in [Task -> Summary]
  /\ sampler \in {None, "idle", "asking", "done"}
  /\ file \in [Task -> {None, "open", "closed"}]
  /\ dir \in [Task -> {"absent", "own", "foreign"}]
  /\ lines \in [Task -> 0..MaxSamples] /\ torn \in [Task -> BOOLEAN]
  /\ index \in [Task -> Summary]
  /\ source \in {"open", "closed", "closeFailed"}
  /\ where \in [Caller -> {"idle", "prepare", "sample", "closeSource", "closeUnstarted",
                           "wait"}]
  /\ result \in [Caller -> [outcome : {None, "canceled", "already started", "start failed",
                                     "started", "not started", "stop failed", "stopped"},
                          reports : [Task -> Summary]]]

\* An index, once on disk, describes its sample file for ever: the count is that
\* of the complete samples, an incomplete last sample or a lost sampler is never
\* called a success, and so a retry of finishStop always finds its own output.
\* Every report a Stop call returned is the one on disk.
IndexExact ==
  /\ \A t \in Task :
       index[t] \notin {NoIndex, Partial} =>
         /\ index[t] = Wanted(t)
         /\ torn[t] => index[t].status = "failed"
  /\ \A c \in Caller :
       result[c].outcome = "stopped" =>
         \A t \in Task : file[t] = "closed" /\ index[t] = result[c].reports[t]

\* The source is not left open: not by a start that failed, nor by a stop
\* attempt that ended, whatever its outcome.
SourceReleased ==
  /\ attempt = "finished" => source # "open"
  /\ \A c \in Caller : result[c].outcome \in {"start failed", "stop failed"} => source # "open"
=============================================================================
