----------------------------- MODULE TaskRunner -----------------------------
(***************************************************************************)
(* The Runner of pkg/runner: it takes the tasks one after the other and    *)
(* drives each through sandbox, bridge, harness, the two isolation gates,  *)
(* evaluation and cleanup.                                                 *)
(*                                                                         *)
(* The roles the Runner composes are interfaces and appear as what it may  *)
(* assume of them: a Start may fail and still leave something running, a   *)
(* nil error from Stop confirms absence, a Stop with an error may or may   *)
(* not have removed its object.  What exists (up, evalUp) is kept apart    *)
(* from what the Runner believes (active, started).                        *)
(***************************************************************************)
EXTENDS Naturals, Sequences, FiniteSets

CONSTANTS
  NumTasks,   \* length of the benchmark's task list
  MaxEval     \* bound on fresh evaluation sandboxes per task

ASSUME NumTasksAssumption == NumTasks \in Nat
ASSUME MaxEvalAssumption == MaxEval \in Nat

Task == 1 .. NumTasks
Role == {"harness", "bridge", "sandbox"}

\* context stands for context.Canceled and context.DeadlineExceeded.
ErrorKind == {"context", "other"}

Status == {"not_started", "not_run", "succeeded", "failed", "canceled",
           "confirmed", "blocked_isolation", "not_enabled", "not_needed"}

\* What Run and Evaluate may report themselves along with a nil error: nothing,
\* success, a failed verdict, or that there was nothing to judge.
OwnStatus == {"", "succeeded", "failed", "not_enabled"}

VARIABLES
  phase,          \* next statement of Run / runTask / finish
  task,           \* index of the current task in the task list
  canceled,       \* the run context is done
  active,         \* sandboxActive, bridgeActive, harnessActive
  started,        \* evaluationSandboxes.started, oldest first
  remaining,      \* the local list of evaluationSandboxes.stop, oldest first
  noted,          \* which error lists are non-empty, and cleanupUsed
  result,         \* the TaskResult under construction
  results,        \* finished tasks: result and whether it returned an error
  scheduleError,  \* Run failed outside of its tasks: no list, or cancelled
  up,             \* tasks whose harness, bridge, sandbox really exists
  evalUp,         \* evaluation sandboxes <<task, n>> that really exist
  orphans,        \* sandboxes a failed ToolSandbox.Start left to its manager
  evaluated,      \* history: tasks whose Evaluate was called
  faulted         \* history: tasks for which some Stop reported an error

run == <<task, canceled, results, scheduleError>>
evaluation == <<started, remaining, evalUp>>
vars == <<phase, run, active, evaluation, noted, result, up, orphans,
          evaluated, faulted>>

Phase == {"listTasks", "schedule", "startSandbox", "prepareSandbox",
          "startBridge", "startHarness", "runHarness", "stopHarness",
          "stopBridge", "gate", "evaluate", "cleanupEvaluation",
          "cleanupHarness", "cleanupBridge", "cleanupSandbox", "report",
          "returned"}

Note == {"allErrors", "isolationErrors", "cleanupErrors", "cleanupUsed"}

TaskResult ==
  [harness : Status, isolation : Status, harnessStopped : BOOLEAN,
   bridgeRevoked : BOOLEAN, evaluation : Status, cleanup : Status]

Reported == [task : Task, result : TaskResult, failed : BOOLEAN]

newTaskResult ==
  [harness |-> "not_started", isolation |-> "not_started",
   harnessStopped |-> FALSE, bridgeRevoked |-> FALSE,
   evaluation |-> "not_run", cleanup |-> "not_needed"]

failureStatus(e) == IF e = "context" THEN "canceled" ELSE "failed"

Init ==
  /\ phase = "listTasks"
  /\ task = 1 /\ canceled = FALSE /\ results = <<>> /\ scheduleError = FALSE
  /\ active = [r \in Role |-> FALSE]
  /\ started = <<>> /\ remaining = <<>> /\ evalUp = {}
  /\ noted = {}
  /\ result = newTaskResult
  /\ up = [r \in Role |-> {}] /\ orphans = {}
  /\ evaluated = {} /\ faulted = {}

\* The run context is cancelled from outside at any moment.
Cancel ==
  /\ ~canceled /\ phase # "returned"
  /\ canceled' = TRUE
  /\ UNCHANGED <<phase, task, results, scheduleError, active, evaluation, noted,
                 result, up, orphans, evaluated, faulted>>

\* Run asks the benchmark for its tasks; an error ends the run at once.
listTasks ==
  /\ phase = "listTasks"
  /\ \/ phase' = "schedule" /\ UNCHANGED scheduleError
     \/ phase' = "returned" /\ scheduleError' = TRUE
  /\ UNCHANGED <<task, canceled, results, active, evaluation, noted, result, up,
                 orphans, evaluated, faulted>>

\* Run's loop head gives runTask its fresh local state ...
Schedule ==
  /\ phase = "schedule" /\ task \in Task /\ ~canceled
  /\ phase' = "startSandbox"
  /\ active' = [r \in Role |-> FALSE]
  /\ started' = <<>> /\ remaining' = <<>>
  /\ noted' = {}
  /\ result' = newTaskResult
  /\ UNCHANGED <<run, evalUp, up, orphans, evaluated, faulted>>

\* ... or stops, with an error if tasks are left.
Return ==
  /\ phase = "schedule" /\ (task \notin Task \/ canceled)
  /\ phase' = "returned"
  /\ scheduleError' = (task \in Task)
  /\ UNCHANGED <<task, canceled, results, active, evaluation, noted, result, up,
                 orphans, evaluated, faulted>>

\* A failed step notes its error and goes on to p, for most of them finish.
Fail(p) == phase' = p /\ noted' = noted \cup {"allErrors"}

Own(r) == up' = [up EXCEPT ![r] = @ \cup {task}]

startSandbox ==
  /\ phase = "startSandbox"
  /\ \/ /\ phase' = "prepareSandbox"
        /\ active' = [active EXCEPT !["sandbox"] = TRUE]
        /\ Own("sandbox")
        /\ UNCHANGED <<noted, orphans>>
     \/ /\ Fail("cleanupEvaluation")   \* an error, or a nil sandbox
        /\ orphans' \in {orphans, orphans \cup {<<task, 0>>}}
        /\ UNCHANGED <<active, up>>
  /\ UNCHANGED <<run, evaluation, result, evaluated, faulted>>

prepareSandbox ==
  /\ phase = "prepareSandbox"
  /\ \/ phase' = "startBridge" /\ UNCHANGED noted
     \/ Fail("cleanupEvaluation")
  /\ UNCHANGED <<run, active, evaluation, result, up, orphans, evaluated, faulted>>

\* Ownership is taken whether or not Start failed.
ActiveAfterStart(ok) == TRUE

startBridge ==
  /\ phase = "startBridge"
  /\ \E ok \in BOOLEAN :
     /\ active' = [active EXCEPT !["bridge"] = ActiveAfterStart(ok)]
     /\ IF ok THEN phase' = "startHarness" /\ UNCHANGED noted
              ELSE Fail("cleanupEvaluation")
     /\ Own("bridge") \/ (~ok /\ UNCHANGED up)
  /\ UNCHANGED <<run, evaluation, result, orphans, evaluated, faulted>>

\* An error decides the status; without one the role's own is kept, and none
\* at all counts as success.
OutcomeStatus(e, own) ==
  IF e # "" THEN failureStatus(e) ELSE IF own = "" THEN "succeeded" ELSE own

startHarness ==
  /\ phase = "startHarness"
  /\ \E e \in ErrorKind \cup {""} :
     /\ active' = [active EXCEPT !["harness"] = ActiveAfterStart(e = "")]
     /\ IF e = "" THEN phase' = "runHarness" /\ UNCHANGED <<noted, result>>
                  ELSE /\ Fail("stopHarness")
                       /\ result' = [result EXCEPT !.harness = failureStatus(e)]
     /\ Own("harness") \/ (e # "" /\ UNCHANGED up)
  /\ UNCHANGED <<run, evaluation, orphans, evaluated, faulted>>

runHarness ==
  /\ phase = "runHarness"
  /\ \E e \in ErrorKind \cup {""}, own \in OwnStatus :
     /\ result' = [result EXCEPT !.harness = OutcomeStatus(e, own)]
     /\ IF e = "" THEN phase' = "stopHarness" /\ UNCHANGED noted
                  ELSE Fail("stopHarness")
  /\ UNCHANGED <<run, active, evaluation, up, orphans, evaluated, faulted>>

\* Mutant: Stop is called with the run's context.
ContextOfRun == canceled

\* The contexts of the gates and of finish are made with WithoutCancel(ctx).
cleanupContextDone == FALSE

\* A Stop that fails although its context is live has met a fault.
Fault == faulted' = IF cleanupContextDone THEN faulted ELSE faulted \cup {task}

\* Role r's Stop confirms absence ...
StopSucceeds(r) ==
  /\ up' = [up EXCEPT ![r] = @ \ {task}]
  /\ active' = [active EXCEPT ![r] = FALSE]
  /\ UNCHANGED <<noted, faulted>>

\* ... or fails, into the error list named by list, and leaves r or not.
StopFails(r, list) ==
  /\ up' \in {up, [up EXCEPT ![r] = @ \ {task}]}
  /\ noted' = noted \cup {"allErrors", list}
  /\ Fault
  /\ UNCHANGED active

\* The gates: bridge.Stop is called also if the harness could not be stopped.
stopGate(r, from, to, confirmation) ==
  /\ phase = from /\ phase' = to
  /\ \/ StopSucceeds(r) /\ result' = confirmation
     \/ StopFails(r, "isolationErrors") /\ UNCHANGED result
  /\ UNCHANGED <<run, evaluation, orphans, evaluated>>

stopHarness ==
  stopGate("harness", "stopHarness", "stopBridge",
           [result EXCEPT !.harnessStopped = TRUE])

stopBridge ==
  stopGate("bridge", "stopBridge", "gate",
           [result EXCEPT !.bridgeRevoked = TRUE])

\* Mutant: only the revocation is looked at.
BlockedByBridgeOnly == active["bridge"]

Blocked == "isolationErrors" \in noted

BlockedResult(r) == [r EXCEPT !.isolation = "blocked_isolation",
                              !.evaluation = "blocked_isolation"]

isolationGate ==
  /\ phase = "gate"
  /\ IF Blocked
       THEN /\ phase' = "cleanupEvaluation"
            /\ result' = BlockedResult(result)
            /\ UNCHANGED evaluated
       ELSE /\ phase' = "evaluate"
            /\ result' = [result EXCEPT !.isolation = "confirmed"]
            /\ evaluated' = evaluated \cup {task}
  /\ UNCHANGED <<run, active, evaluation, noted, up, orphans, faulted>>

\* While it runs, Evaluate may ask for fresh sandboxes; only a successful
\* start is the Runner's to stop.
evaluationStart ==
  /\ phase = "evaluate" /\ Len(started) < MaxEval
  /\ LET sb == <<task, Len(started) + 1>> IN
     \/ /\ started' = Append(started, sb)
        /\ evalUp' = evalUp \cup {sb}
        /\ UNCHANGED orphans
     \/ orphans' = orphans \cup {sb} /\ UNCHANGED <<started, evalUp>>
  /\ UNCHANGED <<phase, run, active, remaining, noted, result, up, evaluated, faulted>>

evaluate ==
  /\ phase = "evaluate"
  /\ \E e \in ErrorKind \cup {""}, own \in OwnStatus :
     /\ result' = [result EXCEPT !.evaluation = OutcomeStatus(e, own)]
     /\ IF e = "" THEN phase' = "cleanupEvaluation" /\ UNCHANGED noted
                  ELSE Fail("cleanupEvaluation")
  /\ UNCHANGED <<run, active, evaluation, up, orphans, evaluated, faulted>>

\* Mutant: a sandbox whose Stop failed is dropped.
KeepNone(sb) == remaining

Keep(sb) == <<sb>> \o remaining

\* finish begins with evaluationSandboxes.stop: newest first, and a sandbox
\* whose Stop failed stays on the list.
cleanupEvaluation ==
  /\ phase = "cleanupEvaluation" /\ started # <<>>
  /\ LET sb == started[Len(started)] IN
     /\ started' = SubSeq(started, 1, Len(started) - 1)
     /\ \/ /\ evalUp' = evalUp \ {sb}
           /\ noted' = noted \cup {"cleanupUsed"}
           /\ UNCHANGED <<remaining, faulted>>
        \/ /\ evalUp' \in {evalUp, evalUp \ {sb}}
           /\ noted' = noted \cup {"cleanupUsed", "cleanupErrors", "allErrors"}
           /\ remaining' = Keep(sb)
           /\ Fault
  /\ UNCHANGED <<phase, run, active, result, up, orphans, evaluated>>

cleanupEvaluationDone ==
  /\ phase = "cleanupEvaluation" /\ started = <<>>
  /\ phase' = "cleanupHarness"
  /\ started' = remaining /\ remaining' = <<>>
  /\ UNCHANGED <<run, evalUp, active, noted, result, up, orphans, evaluated, faulted>>

\* Then every role believed active, whatever the earlier ones reported.
cleanup(r, from, to) ==
  /\ phase = from /\ phase' = to
  /\ \/ ~active[r] /\ UNCHANGED <<active, up, noted, faulted>>
     \/ /\ active[r]
        /\ up' = [up EXCEPT ![r] = @ \ {task}]
        /\ active' = [active EXCEPT ![r] = FALSE]
        /\ noted' = noted \cup {"cleanupUsed"}
        /\ UNCHANGED faulted
     \/ /\ active[r]
        /\ up' \in {up, [up EXCEPT ![r] = @ \ {task}]}
        /\ noted' = noted \cup {"cleanupUsed", "cleanupErrors", "allErrors"}
        /\ Fault /\ UNCHANGED active
  /\ UNCHANGED <<run, evaluation, result, orphans, evaluated>>

cleanupHarness == cleanup("harness", "cleanupHarness", "cleanupBridge")
cleanupBridge == cleanup("bridge", "cleanupBridge", "cleanupSandbox")
cleanupSandbox == cleanup("sandbox", "cleanupSandbox", "report")

CleanupStatus ==
  IF "cleanupUsed" \notin noted THEN "not_needed"
  ELSE IF "cleanupErrors" \in noted THEN "failed" ELSE "succeeded"

\* Mutant: a cancellation met only by the loop is not the task's error.
TaskErrorOwn == "allErrors" \in noted

\* finish adds the context error unless the task error already wraps it.
TaskError == "allErrors" \in noted \/ canceled

report ==
  /\ phase = "report" /\ phase' = "schedule"
  /\ task' = task + 1
  /\ result' = [result EXCEPT !.cleanup = CleanupStatus]
  /\ results' = Append(results, [task |-> task, result |-> result',
                                 failed |-> TaskError])
  /\ UNCHANGED <<canceled, scheduleError, active, evaluation, noted, up, orphans,
                 evaluated, faulted>>

Step ==
  \/ listTasks \/ Schedule \/ Return \/ startSandbox \/ prepareSandbox
  \/ startBridge \/ startHarness \/ runHarness \/ stopHarness \/ stopBridge
  \/ isolationGate \/ evaluate \/ cleanupEvaluation \/ cleanupEvaluationDone
  \/ cleanupHarness \/ cleanupBridge \/ cleanupSandbox \/ report

Terminated == phase = "returned" /\ UNCHANGED vars

Next == Cancel \/ Step \/ evaluationStart \/ Terminated

\* The Runner is one goroutine, and every role call takes a context with a
\* deadline or the harness timeout and returns.
Spec == Init /\ [][Next]_vars /\ WF_vars(Step)

CountResults(P(_)) == Cardinality({i \in DOMAIN results : P(results[i].result)})

summarize ==
  [tasks |-> Len(results),
   evaluationsRun |->
     CountResults(LAMBDA r : r.evaluation \in {"succeeded", "failed", "canceled"}),
   evaluationsSucceeded |-> CountResults(LAMBDA r : r.evaluation = "succeeded"),
   evaluationsFailed |->
     CountResults(LAMBDA r : r.evaluation \in {"failed", "canceled"}),
   evaluationsBlocked |-> CountResults(LAMBDA r : r.evaluation = "blocked_isolation"),
   harnessSucceeded |-> CountResults(LAMBDA r : r.harness = "succeeded"),
   harnessFailed |-> CountResults(LAMBDA r : r.harness \in {"failed", "canceled"}),
   cleanupFailed |-> CountResults(LAMBDA r : r.cleanup = "failed")]

-----------------------------------------------------------------------------
TypeOK ==
  /\ phase \in Phase
  /\ task \in 1 .. NumTasks + 1
  /\ canceled \in BOOLEAN /\ scheduleError \in BOOLEAN
  /\ active \in [Role -> BOOLEAN]
  /\ started \in Seq(Task \X Nat) /\ remaining \in Seq(Task \X Nat)
  /\ noted \subseteq Note
  /\ result \in TaskResult /\ results \in Seq(Reported)
  /\ up \in [Role -> SUBSET Task]
  /\ evalUp \subseteq Task \X Nat /\ orphans \subseteq Task \X Nat
  /\ evaluated \subseteq Task /\ faulted \subseteq Task

(***************************************************************************)
(* No task's sandbox is evaluated, or was evaluated, while its agent could *)
(* reach it: runTask calls Evaluate only after both Stop calls confirmed   *)
(* absence, whatever failed or was cancelled before.                       *)
(***************************************************************************)
EvaluationIsolated == evaluated \cap (up["harness"] \cup up["bridge"]) = {}

Exists(t) == (\E r \in Role : t \in up[r]) \/ (\E sb \in evalUp : sb[1] = t)

Owned(t) ==
  \/ /\ t = task
     /\ \A r \in Role : t \in up[r] => active[r]
     /\ \A sb \in evalUp : sb[1] = t =>
          \E i \in DOMAIN (started \o remaining) : (started \o remaining)[i] = sb
  \/ \E i \in DOMAIN results :
       results[i].task = t /\ results[i].result.cleanup = "failed"

(***************************************************************************)
(* The Runner never forgets something that exists: until the task's        *)
(* report, every harness, bridge, task sandbox or evaluation sandbox that  *)
(* is up is owned, and after it the report says that cleanup failed.       *)
(***************************************************************************)
NothingForgotten == \A t \in Task : Exists(t) => Owned(t)

(***************************************************************************)
(* Cancelling the run never by itself blocks an evaluation or leaks an     *)
(* object: if no Stop reported an error for a task, its cleanup did not    *)
(* fail, isolation was not blocked and nothing of it is left, because both *)
(* the gates and finish run under contexts detached from the run's.        *)
(***************************************************************************)
CancellationLeaksNothing ==
  \A i \in DOMAIN results :
    results[i].task \notin faulted =>
      /\ ~Exists(results[i].task)
      /\ results[i].result.cleanup # "failed"
      /\ results[i].result.isolation # "blocked_isolation"

NotEnabled == CountResults(LAMBDA r : r.evaluation = "not_enabled")

Counted ==
  /\ summarize.evaluationsRun + NotEnabled
       = Cardinality({i \in DOMAIN results : results[i].task \in evaluated})
  /\ summarize.tasks = summarize.evaluationsRun + NotEnabled
       + summarize.evaluationsBlocked
       + CountResults(LAMBDA r : r.harness = "not_started")

CleanResult == [harness |-> "succeeded", isolation |-> "confirmed",
                harnessStopped |-> TRUE, bridgeRevoked |-> TRUE,
                evaluation |-> "succeeded", cleanup |-> "succeeded"]

\* A result whose only departure from CleanResult is a status the harness or
\* the evaluation reported itself.
Judged(r) ==
  /\ {r.harness, r.evaluation} \subseteq OwnStatus \ {""}
  /\ r.isolation = "confirmed" /\ r.harnessStopped /\ r.bridgeRevoked
  /\ r.cleanup = "succeeded"

(***************************************************************************)
(* Reports are honest.  An error a task returns is a cancellation or shows *)
(* in its result.  A task that returns none was isolated, evaluated and    *)
(* cleaned up in a run not cancelled before, and the statuses of harness   *)
(* and evaluation are their own verdicts: failed and not_enabled are no    *)
(* errors.  Isolation is reported confirmed exactly if the task was        *)
(* evaluated, and every result is counted once: evaluated, not enabled,    *)
(* blocked or never reached.                                               *)
(***************************************************************************)
ReportsHonest ==
  [][\A i \in DOMAIN results' \ DOMAIN results :
       LET r == results'[i] IN
       /\ r.failed => canceled \/ r.result # CleanResult
       /\ ~r.failed => ~canceled /\ Judged(r.result)
       /\ r.result.isolation = "confirmed" <=> r.task \in evaluated
       /\ Counted']_vars

(***************************************************************************)
(* The run implements the access promise: what can be reached is what has  *)
(* a harness or a bridge that exists.                                      *)
(***************************************************************************)
Access == INSTANCE AgentAccess WITH access <- up["harness"] \cup up["bridge"]
AccessSpec == Access!Spec
=============================================================================
