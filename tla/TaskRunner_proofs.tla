------------------------- MODULE TaskRunner_proofs -------------------------
(***************************************************************************)
(* Proofs about the Runner, for every number of tasks and of evaluation    *)
(* sandboxes: type correctness, that no sandbox is evaluated while its     *)
(* agent could reach it, that the Runner implements AgentAccess, that no   *)
(* sandbox is forgotten, that a cancellation leaks nothing and that what   *)
(* is reported of a task is true.                                          *)
(***************************************************************************)
EXTENDS TaskRunner, SequenceTheorems, FiniteSetTheorems, TLAPS

USE NumTasksAssumption, MaxEvalAssumption DEF Task


(***************************************************************************)
(* The phases in which task names an element of the task list.             *)
(***************************************************************************)
TaskInRange == phase \notin {"listTasks", "schedule", "returned"} => task \in Task

TypeInv == TypeOK /\ TaskInRange

(***************************************************************************)
(* Status values written by the Runner are statuses: failureStatus maps    *)
(* every error kind to one.                                                *)
(***************************************************************************)
LEMMA FailureStatusType == \A e \in ErrorKind : failureStatus(e) \in Status
  BY DEF ErrorKind, failureStatus, Status

(***************************************************************************)
(* Dropping the newest evaluation sandbox leaves a list of sandboxes.      *)
(***************************************************************************)
LEMMA FrontType ==
  ASSUME NEW S, NEW s \in Seq(S), s # <<>>
  PROVE  /\ SubSeq(s, 1, Len(s) - 1) \in Seq(S)
         /\ s[Len(s)] \in S
  <1>1. Len(s) \in Nat /\ Len(s) > 0
    BY EmptySeq, LenProperties
  <1>2. \A i \in 1 .. Len(s) - 1 : s[i] \in S
    BY <1>1, ElementOfSeq
  <1>3. SubSeq(s, 1, Len(s) - 1) \in Seq(S)
    BY <1>1, <1>2, SubSeqProperties
  <1> QED BY <1>1, <1>3, ElementOfSeq

(***************************************************************************)
(* The result a task starts with is a result.                              *)
(***************************************************************************)
LEMMA NewResultType == newTaskResult \in TaskResult
  BY DEF newTaskResult, TaskResult, Status

(***************************************************************************)
(* Writing the outcome of the harness or of the evaluation keeps a result. *)
(***************************************************************************)
LEMMA OutcomeType ==
  ASSUME result \in TaskResult
  PROVE  /\ \A e \in ErrorKind :
              [result EXCEPT !.harness = failureStatus(e)] \in TaskResult
         /\ \A e \in ErrorKind \cup {""}, own \in OwnStatus :
              /\ [result EXCEPT !.harness = OutcomeStatus(e, own)] \in TaskResult
              /\ [result EXCEPT !.evaluation = OutcomeStatus(e, own)] \in TaskResult
<1>1. \A e \in ErrorKind \cup {""}, own \in OwnStatus : OutcomeStatus(e, own) \in Status
  BY FailureStatusType DEF OutcomeStatus, OwnStatus, Status
<1> QED BY <1>1, FailureStatusType DEF TaskResult

(***************************************************************************)
(* A role's Stop, confirmed or not, keeps the types of what it changes.    *)
(***************************************************************************)
LEMMA StopType ==
  ASSUME TypeOK, task \in Task, NEW r \in Role, NEW list \in Note,
         StopSucceeds(r) \/ StopFails(r, list)
  PROVE  /\ active' \in [Role -> BOOLEAN] /\ up' \in [Role -> SUBSET Task]
         /\ noted' \subseteq Note /\ faulted' \subseteq Task
  BY DEF TypeOK, StopSucceeds, StopFails, Fault, cleanupContextDone, Note

LEMMA TypeInit == Init => TypeInv
<1> SUFFICES ASSUME Init PROVE TypeInv
  OBVIOUS
<1>1. started \in Seq(Task \X Nat) /\ remaining \in Seq(Task \X Nat)
  BY DEF Init
<1>2. results \in Seq(Reported) /\ result \in TaskResult
  BY NewResultType DEF Init
<1>3. phase \in Phase /\ TaskInRange /\ task \in 1 .. NumTasks + 1
  BY DEF Init, Phase, TaskInRange
<1>4. noted \subseteq Note
  BY DEF Init
<1> QED BY <1>1, <1>2, <1>3, <1>4 DEF Init, TypeInv, TypeOK

(***************************************************************************)
(* finish's treatment of one role is well typed.                           *)
(***************************************************************************)
LEMMA CleanupType ==
  ASSUME TypeInv, NEW r \in Role, NEW from \in Phase, NEW to \in Phase,
         from \notin {"listTasks", "schedule", "returned"}, cleanup(r, from, to)
  PROVE  TypeInv'
<1> USE DEF TypeInv, TypeOK, TaskInRange
<1>1. task \in Task
  BY DEF cleanup
<1>2. active' \in [Role -> BOOLEAN] /\ up' \in [Role -> SUBSET Task]
  BY DEF cleanup
<1>3. noted' \subseteq Note
  BY DEF cleanup, Note
<1>4. faulted' \subseteq Task
  BY <1>1 DEF cleanup, Fault, cleanupContextDone
<1> QED BY <1>1, <1>2, <1>3, <1>4 DEF cleanup, run, evaluation

LEMMA TypeNext == TypeInv /\ [Next]_vars => TypeInv'
<1> SUFFICES ASSUME TypeInv, [Next]_vars PROVE TypeInv'
  OBVIOUS
<1> USE DEF TypeInv, TypeOK, TaskInRange, Phase
<1>1. CASE Cancel
  BY <1>1 DEF Cancel, evaluation
<1>2. CASE listTasks
  BY <1>2 DEF listTasks, evaluation
<1>3. CASE Schedule
  <2>1. started' \in Seq(Task \X Nat) /\ remaining' \in Seq(Task \X Nat)
    BY <1>3 DEF Schedule
  <2>2. result' \in TaskResult
    BY <1>3, NewResultType DEF Schedule
  <2> QED BY <1>3, <2>1, <2>2 DEF Schedule, run
<1>4. CASE Return
  BY <1>4 DEF Return, evaluation
<1>5. CASE startSandbox
  <2>1. <<task, 0>> \in Task \X Nat
    BY <1>5 DEF startSandbox
  <2>2. active' \in [Role -> BOOLEAN] /\ up' \in [Role -> SUBSET Task]
    BY <1>5 DEF startSandbox, Own, Role
  <2>3. noted' \subseteq Note
    BY <1>5 DEF startSandbox, Fail, Note
  <2>4. orphans' \subseteq Task \X Nat
    BY <1>5, <2>1 DEF startSandbox
  <2> QED BY <1>5, <2>2, <2>3, <2>4 DEF startSandbox, Fail, run, evaluation
<1>6. CASE prepareSandbox
  BY <1>6 DEF prepareSandbox, Fail, Note, run, evaluation
<1>7. CASE startBridge
  <2>1. active' \in [Role -> BOOLEAN] /\ up' \in [Role -> SUBSET Task]
    BY <1>7 DEF startBridge, Own, Role, ActiveAfterStart
  <2>2. noted' \subseteq Note /\ phase' \in {"startHarness", "cleanupEvaluation"}
    BY <1>7 DEF startBridge, Fail, Note
  <2> QED BY <1>7, <2>1, <2>2 DEF startBridge, run, evaluation
<1>8. CASE startHarness
  <2>1. active' \in [Role -> BOOLEAN]
    BY <1>8 DEF startHarness, Role, ActiveAfterStart
  <2>a. up' \in [Role -> SUBSET Task]
    <3>1. Own("harness") \/ UNCHANGED up
      BY <1>8 DEF startHarness
    <3>2. task \in Task
      BY <1>8 DEF startHarness
    <3> QED BY <3>1, <3>2 DEF Own
  <2>2. noted' \subseteq Note /\ phase' \in {"runHarness", "stopHarness"}
    BY <1>8 DEF startHarness, Fail, Note
  <2>3. result' \in TaskResult
    BY <1>8, OutcomeType DEF startHarness
  <2> QED BY <1>8, <2>1, <2>a, <2>2, <2>3 DEF startHarness, run, evaluation
<1>9. CASE runHarness
  <2>1. noted' \subseteq Note /\ phase' = "stopHarness"
    BY <1>9 DEF runHarness, Fail, Note
  <2>2. result' \in TaskResult
    BY <1>9, OutcomeType DEF runHarness
  <2> QED BY <1>9, <2>1, <2>2 DEF runHarness, run, evaluation
<1>10. CASE stopHarness
  <2>1. result' \in TaskResult
    BY <1>10 DEF stopHarness, stopGate, TaskResult
  <2>2. StopSucceeds("harness") \/ StopFails("harness", "isolationErrors")
    BY <1>10 DEF stopHarness, stopGate
  <2>3. /\ active' \in [Role -> BOOLEAN] /\ up' \in [Role -> SUBSET Task]
        /\ noted' \subseteq Note /\ faulted' \subseteq Task
    BY <1>10, <2>2, StopType DEF stopHarness, stopGate, Note, Role
  <2> QED BY <1>10, <2>1, <2>3 DEF stopHarness, stopGate, run, evaluation
<1>11. CASE stopBridge
  <2>1. result' \in TaskResult
    BY <1>11 DEF stopBridge, stopGate, TaskResult
  <2>2. StopSucceeds("bridge") \/ StopFails("bridge", "isolationErrors")
    BY <1>11 DEF stopBridge, stopGate
  <2>3. /\ active' \in [Role -> BOOLEAN] /\ up' \in [Role -> SUBSET Task]
        /\ noted' \subseteq Note /\ faulted' \subseteq Task
    BY <1>11, <2>2, StopType DEF stopBridge, stopGate, Note, Role
  <2> QED BY <1>11, <2>1, <2>3 DEF stopBridge, stopGate, run, evaluation
<1>12. CASE isolationGate
  <2>1. BlockedResult(result) \in TaskResult
    BY DEF BlockedResult, TaskResult, Status
  <2>2. [result EXCEPT !.isolation = "confirmed"] \in TaskResult
    BY DEF TaskResult, Status
  <2>3. result' \in TaskResult
    BY <1>12, <2>1, <2>2 DEF isolationGate
  <2> QED BY <1>12, <2>3 DEF isolationGate, run, evaluation
<1>13. CASE evaluationStart
  <2> DEFINE sb == <<task, Len(started) + 1>>
  <2>1. sb \in Task \X Nat
    BY <1>13, LenProperties DEF evaluationStart
  <2>2. Append(started, sb) \in Seq(Task \X Nat)
    BY <2>1, AppendProperties
  <2>3. started' \in Seq(Task \X Nat)
    BY <1>13, <2>2 DEF evaluationStart
  <2>4. evalUp' \subseteq Task \X Nat /\ orphans' \subseteq Task \X Nat
    BY <1>13, <2>1 DEF evaluationStart
  <2> QED BY <1>13, <2>3, <2>4 DEF evaluationStart, run
<1>14. CASE evaluate
  <2>1. result' \in TaskResult
    BY <1>14, OutcomeType DEF evaluate
  <2>2. noted' \subseteq Note /\ phase' = "cleanupEvaluation"
    BY <1>14 DEF evaluate, Fail, Note
  <2> QED BY <1>14, <2>1, <2>2 DEF evaluate, run, evaluation
<1>15. CASE cleanupEvaluation
  <2>1. /\ SubSeq(started, 1, Len(started) - 1) \in Seq(Task \X Nat)
        /\ started[Len(started)] \in Task \X Nat
    BY <1>15, FrontType DEF cleanupEvaluation
  <2>2. Keep(started[Len(started)]) \in Seq(Task \X Nat)
    BY <2>1 DEF Keep
  <2>3. started' \in Seq(Task \X Nat) /\ remaining' \in Seq(Task \X Nat)
    BY <1>15, <2>1, <2>2 DEF cleanupEvaluation
  <2>4. noted' \subseteq Note /\ evalUp' \subseteq Task \X Nat
    BY <1>15 DEF cleanupEvaluation, Note
  <2>5. faulted' \subseteq Task
    BY <1>15 DEF cleanupEvaluation, Fault, cleanupContextDone
  <2> QED BY <1>15, <2>3, <2>4, <2>5 DEF cleanupEvaluation, run
<1>16. CASE cleanupEvaluationDone
  <2>1. started' \in Seq(Task \X Nat) /\ remaining' \in Seq(Task \X Nat)
    BY <1>16 DEF cleanupEvaluationDone
  <2> QED BY <1>16, <2>1 DEF cleanupEvaluationDone, run
<1>17. CASE cleanupHarness
  BY <1>17, CleanupType DEF cleanupHarness, Role
<1>18. CASE cleanupBridge
  BY <1>18, CleanupType DEF cleanupBridge, Role
<1>19. CASE cleanupSandbox
  BY <1>19, CleanupType DEF cleanupSandbox, Role
<1>20. CASE report
  <2>1. CleanupStatus \in Status /\ TaskError \in BOOLEAN
    BY DEF CleanupStatus, TaskError, Status
  <2>2. result' \in TaskResult
    BY <1>20, <2>1 DEF report, TaskResult
  <2>3. [task |-> task, result |-> result', failed |-> TaskError] \in Reported
    BY <1>20, <2>1, <2>2 DEF report, Reported
  <2>4. results' \in Seq(Reported)
    BY <1>20, <2>3, AppendProperties DEF report
  <2> QED BY <1>20, <2>2, <2>4 DEF report, evaluation
<1>21. CASE UNCHANGED vars
  BY <1>21 DEF vars, run, evaluation
<1> QED
  BY <1>1, <1>2, <1>3, <1>4, <1>5, <1>6, <1>7, <1>8, <1>9, <1>10, <1>11, <1>12,
     <1>13, <1>14, <1>15, <1>16, <1>17, <1>18, <1>19, <1>20, <1>21
  DEF Next, Step, Terminated

(***************************************************************************)
(* Type correctness of the Runner's state in every run.                    *)
(***************************************************************************)
THEOREM TypeCorrect == Spec => []TypeOK
<1>1. TypeInv => TypeOK
  BY DEF TypeInv
<1> QED BY <1>1, TypeInit, TypeNext, PTL DEF Spec
-----------------------------------------------------------------------------------
(***************************************************************************)
(* EvaluationIsolated is not inductive: nothing in it says why a harness   *)
(* or bridge cannot come up again for an evaluated task, nor what the      *)
(* flags of the gates stand for.  The strengthening says that evaluated    *)
(* tasks lie behind the phases that start things, and that a gate passed   *)
(* without error means absence.                                            *)
(***************************************************************************)
BeforeEvaluation ==
  {"listTasks", "schedule", "startSandbox", "prepareSandbox", "startBridge",
   "startHarness", "runHarness", "stopHarness", "stopBridge", "gate"}

EvaluatedInOrder ==
  /\ \A t \in evaluated : t <= task
  /\ phase \in BeforeEvaluation => task \notin evaluated

GatesConfirm ==
  /\ phase \in {"stopBridge", "gate"} /\ "isolationErrors" \notin noted => task \notin up["harness"]
  /\ phase = "gate" /\ "isolationErrors" \notin noted => task \notin up["bridge"]

IInv == TypeInv /\ EvaluationIsolated /\ EvaluatedInOrder /\ GatesConfirm

LEMMA IInvInit == Init => IInv
  BY TypeInit DEF Init, IInv, EvaluationIsolated, EvaluatedInOrder, GatesConfirm

LEMMA IInvNext == IInv /\ [Next]_vars => IInv'
<1> SUFFICES ASSUME IInv, [Next]_vars PROVE IInv'
  OBVIOUS
<1>0. TypeInv'
  BY TypeNext DEF IInv
<1>a. /\ task \in 1 .. NumTasks + 1 /\ evaluated \subseteq Task
      /\ up \in [Role -> SUBSET Task]
  BY DEF IInv, TypeInv, TypeOK
<1> USE <1>a DEF IInv, EvaluationIsolated, EvaluatedInOrder, GatesConfirm,
                BeforeEvaluation
<1>1. CASE Cancel
  BY <1>0, <1>1 DEF Cancel
<1>2. CASE listTasks
  BY <1>0, <1>2 DEF listTasks
<1>3. CASE Schedule
  BY <1>0, <1>3 DEF Schedule, run
<1>4. CASE Return
  BY <1>0, <1>4 DEF Return
<1>5. CASE startSandbox
  BY <1>0, <1>5 DEF startSandbox, Fail, Own, run, Role
<1>6. CASE prepareSandbox
  BY <1>0, <1>6 DEF prepareSandbox, Fail, run
<1>7. CASE startBridge
  BY <1>0, <1>7 DEF startBridge, Fail, Own, run, Role
<1>8. CASE startHarness
  BY <1>0, <1>8 DEF startHarness, Fail, Own, run, Role
<1>9. CASE runHarness
  BY <1>0, <1>9 DEF runHarness, Fail, run
<1>10. CASE stopHarness
  BY <1>0, <1>10 DEF stopHarness, stopGate, StopSucceeds, StopFails, run, Role
<1>11. CASE stopBridge
  BY <1>0, <1>11 DEF stopBridge, stopGate, StopSucceeds, StopFails, run, Role
<1>12. CASE isolationGate
  BY <1>0, <1>12 DEF isolationGate, Blocked, run
<1>13. CASE evaluationStart
  BY <1>0, <1>13 DEF evaluationStart, run
<1>14. CASE evaluate
  BY <1>0, <1>14 DEF evaluate, Fail, run
<1>15. CASE cleanupEvaluation
  BY <1>0, <1>15 DEF cleanupEvaluation, run
<1>16. CASE cleanupEvaluationDone
  BY <1>0, <1>16 DEF cleanupEvaluationDone, run
<1>17. CASE cleanupHarness
  BY <1>0, <1>17 DEF cleanupHarness, cleanup, run, Role
<1>18. CASE cleanupBridge
  BY <1>0, <1>18 DEF cleanupBridge, cleanup, run, Role
<1>19. CASE cleanupSandbox
  BY <1>0, <1>19 DEF cleanupSandbox, cleanup, run, Role
<1>20. CASE report
  BY <1>0, <1>20 DEF report
<1>21. CASE UNCHANGED vars
  BY <1>0, <1>21 DEF vars, run
<1> QED
  BY <1>1, <1>2, <1>3, <1>4, <1>5, <1>6, <1>7, <1>8, <1>9, <1>10, <1>11, <1>12,
     <1>13, <1>14, <1>15, <1>16, <1>17, <1>18, <1>19, <1>20, <1>21
  DEF Next, Step, Terminated

(***************************************************************************)
(* runTask never evaluates a sandbox that its agent may still reach, and   *)
(* never opens a way to one that was evaluated.                            *)
(***************************************************************************)
THEOREM Isolation == Spec => []EvaluationIsolated
<1>1. IInv => EvaluationIsolated
  BY DEF IInv
<1> QED BY <1>1, IInvInit, IInvNext, PTL DEF Spec

(***************************************************************************)
(* Removing one role of the current task is a revocation, or no change of  *)
(* access when the role is the sandbox.                                    *)
(***************************************************************************)
LEMMA RemovalIsRevocation ==
  ASSUME task \in Task, up \in [Role -> SUBSET Task],
         \/ UNCHANGED <<up, evaluated>>
         \/ \E r \in Role : up' = [up EXCEPT ![r] = @ \ {task}] /\ UNCHANGED evaluated
  PROVE  [Access!Next]_(Access!vars)
<1>1. CASE UNCHANGED <<up, evaluated>>
  BY <1>1 DEF Access!vars
<1>2. ASSUME NEW r \in Role, up' = [up EXCEPT ![r] = @ \ {task}], UNCHANGED evaluated
      PROVE  [Access!Next]_(Access!vars)
  <2>1. CASE r = "sandbox"
    BY <1>2, <2>1 DEF Access!vars, Role
  <2>2. CASE r \in {"harness", "bridge"}
    <3>1. \/ (up["harness"] \cup up["bridge"])' = (up["harness"] \cup up["bridge"]) \ {task}
          \/ UNCHANGED (up["harness"] \cup up["bridge"])
      BY <1>2, <2>2 DEF Role
    <3>2. Access!Revoke({task}) \/ UNCHANGED Access!vars
      BY <1>2, <3>1 DEF Access!Revoke, Access!vars
    <3> QED BY <3>2 DEF Access!Next
  <2> QED BY <2>1, <2>2 DEF Role
<1> QED BY <1>1, <1>2

(***************************************************************************)
(* The Runner implements AgentAccess: each of its steps grants, revokes,   *)
(* evaluates, or leaves access as it is.                                   *)
(***************************************************************************)
THEOREM ImplementsAccess == Spec => AccessSpec
<1>1. Init => Access!Init
  BY DEF Init, Access!Init, Role
<1>2. IInv /\ [Next]_vars => [Access!Next]_(Access!vars)
  <2> SUFFICES ASSUME IInv, [Next]_vars PROVE [Access!Next]_(Access!vars)
    OBVIOUS
  <2>a. /\ task \in 1 .. NumTasks + 1 /\ TaskInRange
        /\ up \in [Role -> SUBSET Task]
    BY DEF IInv, TypeInv, TypeOK
  <2> USE <2>a DEF TaskInRange, Access!vars
  <2>1. CASE startBridge
    <3>1. task \in Task /\ task \notin evaluated
      BY <2>1 DEF startBridge, IInv, EvaluatedInOrder, BeforeEvaluation
    <3>2. Access!Grant(task) \/ UNCHANGED Access!vars
      BY <2>1, <3>1 DEF startBridge, Own, Role, Access!Grant
    <3> QED BY <3>1, <3>2 DEF Access!Next
  <2>2. CASE startHarness
    <3>1. task \in Task /\ task \notin evaluated
      BY <2>2 DEF startHarness, IInv, EvaluatedInOrder, BeforeEvaluation
    <3>2. Access!Grant(task) \/ UNCHANGED Access!vars
      BY <2>2, <3>1 DEF startHarness, Own, Role, Access!Grant
    <3> QED BY <3>1, <3>2 DEF Access!Next
  <2>3. CASE stopHarness \/ stopBridge
    <3>1. task \in Task
      BY <2>3 DEF stopHarness, stopBridge, stopGate
    <3>2. \/ UNCHANGED <<up, evaluated>>
          \/ \E r \in {"harness", "bridge"} :
               up' = [up EXCEPT ![r] = @ \ {task}] /\ UNCHANGED evaluated
      BY <2>3 DEF stopHarness, stopBridge, stopGate, StopSucceeds, StopFails
    <3> QED BY <3>1, <3>2, RemovalIsRevocation
  <2>4. CASE cleanupHarness \/ cleanupBridge \/ cleanupSandbox
    <3>1. task \in Task
      BY <2>4 DEF cleanupHarness, cleanupBridge, cleanupSandbox, cleanup
    <3>2. \/ UNCHANGED <<up, evaluated>>
          \/ \E r \in Role :
               up' = [up EXCEPT ![r] = @ \ {task}] /\ UNCHANGED evaluated
      BY <2>4 DEF cleanupHarness, cleanupBridge, cleanupSandbox, cleanup, Role
    <3> QED BY <3>1, <3>2, RemovalIsRevocation
  <2>5. CASE isolationGate
    <3>1. task \in Task
      BY <2>5 DEF isolationGate
    <3>2. CASE Blocked
      BY <2>5, <3>2 DEF isolationGate
    <3>3. CASE ~Blocked
      <4>1. task \notin up["harness"] \cup up["bridge"]
        BY <2>5, <3>3 DEF isolationGate, Blocked, IInv, GatesConfirm
      <4>2. Access!Evaluate(task)
        BY <2>5, <3>3, <4>1 DEF isolationGate, Access!Evaluate
      <4> QED BY <3>1, <4>2 DEF Access!Next
    <3> QED BY <3>2, <3>3
  <2>6. CASE startSandbox
    BY <2>6 DEF startSandbox, Own, Role
  <2>7. CASE \/ Cancel \/ listTasks \/ Schedule \/ Return \/ prepareSandbox
             \/ runHarness \/ evaluationStart \/ evaluate \/ cleanupEvaluation
             \/ cleanupEvaluationDone \/ report \/ UNCHANGED vars
    <3>1. UNCHANGED <<up, evaluated>>
      BY <2>7 DEF Cancel, listTasks, Schedule, Return, prepareSandbox, runHarness,
         evaluationStart, evaluate, cleanupEvaluation, cleanupEvaluationDone,
         report, vars
    <3> QED BY <3>1
  <2> QED BY <2>1, <2>2, <2>3, <2>4, <2>5, <2>6, <2>7 DEF Next, Step, Terminated
<1> QED BY <1>1, <1>2, IInvInit, IInvNext, PTL DEF Spec, AccessSpec, Access!Spec
-----------------------------------------------------------------------------
(***************************************************************************)
(* What is left behind and what is reported.  The strengthening follows a  *)
(* task through its phases: what exists of it is held by the Runner, what  *)
(* cleanup left is noted, what is noted shows in its result, and a result  *)
(* is of one of three kinds.                                               *)
(***************************************************************************)
Finishing == {"cleanupEvaluation", "cleanupHarness", "cleanupBridge",
              "cleanupSandbox", "report"}
Working == Phase \ {"listTasks", "schedule", "returned"}
Outcome == {"succeeded", "failed", "canceled", "not_enabled"}

\* What a role may report itself, and so what stands without an error.
Verdict == Outcome \ {"canceled"}

CleanupFailed == {"cleanupUsed", "cleanupErrors"} \subseteq noted

\* Nothing of a task exists before it is begun.
Ahead ==
  /\ \A t \in Task : Exists(t) => t <= task
  /\ phase \notin Working => ~Exists(task)
  /\ phase = "startSandbox" => ~Exists(task)

\* What exists of the current task is held.
Held ==
  phase \in Working =>
    /\ \A r \in Role : task \in up[r] => active[r]
    /\ \A sb \in evalUp : sb[1] = task => sb \in Range(started) \cup Range(remaining)

\* What cleanup left is noted.
Leftovers ==
  /\ phase \in Working \ {"cleanupEvaluation"} => remaining = <<>>
  /\ phase = "cleanupEvaluation" /\ remaining # <<>> => CleanupFailed
  /\ phase \in Finishing \ {"cleanupEvaluation"} /\ started # <<>> => CleanupFailed
  /\ phase \in {"cleanupBridge", "cleanupSandbox", "report"} /\ task \in up["harness"]
       => CleanupFailed
  /\ phase \in {"cleanupSandbox", "report"} /\ task \in up["bridge"] => CleanupFailed
  /\ phase = "report" /\ task \in up["sandbox"] => CleanupFailed

\* What exists of an earlier task was reported.
Behind ==
  \A t \in Task : t < task /\ Exists(t) =>
    \E i \in DOMAIN results :
      results[i].task = t /\ results[i].result.cleanup = "failed"

\* An error of a Stop is a fault of the task.
Faults ==
  /\ phase \in Working /\ noted \cap {"cleanupErrors", "isolationErrors"} # {}
       => task \in faulted
  /\ phase \in Working /\ result.isolation = "blocked_isolation" => task \in faulted

\* A result is of a task that never reached its harness, was blocked, or was
\* evaluated.
Kind(r, t) ==
  \/ /\ r.harness = "not_started" /\ r.isolation = "not_started"
     /\ r.evaluation = "not_run" /\ t \notin evaluated
  \/ /\ r.harness \in Outcome /\ r.isolation = "blocked_isolation"
     /\ r.evaluation = "blocked_isolation" /\ t \notin evaluated
  \/ /\ r.harness \in Outcome /\ r.isolation = "confirmed"
     /\ r.evaluation \in Outcome /\ t \in evaluated

\* How far the result and the errors noted have come.
Untouched ==
  phase \in {"startSandbox", "prepareSandbox", "startBridge", "startHarness",
             "runHarness"} => noted = {} /\ result = newTaskResult

AtGates ==
  phase \in {"stopHarness", "stopBridge", "gate"} =>
    /\ result.harness \in Outcome /\ result.isolation = "not_started"
    /\ result.evaluation = "not_run"
    /\ phase # "stopHarness" /\ "isolationErrors" \notin noted => result.harnessStopped
    /\ phase = "gate" /\ "isolationErrors" \notin noted => result.bridgeRevoked
    /\ "allErrors" \notin noted =>
         result.harness \in Verdict /\ "isolationErrors" \notin noted
    /\ "allErrors" \in noted =>
         result.harness # "succeeded" \/ "isolationErrors" \in noted
    /\ noted \cap {"cleanupUsed", "cleanupErrors"} = {}

AtEvaluation ==
  phase = "evaluate" =>
    /\ result.harness \in Outcome /\ result.isolation = "confirmed"
    /\ result.harnessStopped /\ result.bridgeRevoked
    /\ result.evaluation = "not_run" /\ task \in evaluated
    /\ noted \subseteq {"allErrors"}
    /\ "allErrors" \notin noted => result.harness \in Verdict
    /\ "allErrors" \in noted => result.harness # "succeeded"

AtFinish ==
  phase \in Finishing =>
    /\ Kind(result, task)
    /\ result.isolation = "confirmed" => result.harnessStopped /\ result.bridgeRevoked
    /\ "allErrors" \notin noted =>
         /\ result.harness \in Verdict /\ result.isolation = "confirmed"
         /\ result.evaluation \in Verdict /\ "cleanupErrors" \notin noted
    /\ "allErrors" \in noted =>
         \/ result.harness # "succeeded" \/ result.isolation # "confirmed"
         \/ result.evaluation # "succeeded" \/ "cleanupErrors" \in noted
    /\ "cleanupErrors" \in noted => "cleanupUsed" \in noted

\* A task without an error had a sandbox to clean up.
SandboxUsed ==
  phase \in Working \ {"startSandbox"} /\ "allErrors" \notin noted =>
    IF phase = "report" THEN "cleanupUsed" \in noted ELSE active["sandbox"]

Progress == Untouched /\ AtGates /\ AtEvaluation /\ AtFinish /\ SandboxUsed

\* Results are kept, in the order of their tasks.
Verdicts ==
  \A i \in DOMAIN results :
    results[i].task \in 1 .. task - 1 /\ Kind(results[i].result, results[i].task)

LInv == /\ IInv /\ Ahead /\ Held /\ Leftovers /\ Behind /\ Faults
        /\ Progress /\ Verdicts /\ CancellationLeaksNothing


LEMMA LInvInit == Init => LInv
<1> SUFFICES ASSUME Init PROVE LInv
  OBVIOUS
<1> USE DEF Init, Exists
<1>1. IInv
  BY IInvInit
<1>2. Ahead /\ Held /\ Leftovers /\ Behind
  BY DEF Ahead, Held, Leftovers, Behind, Working, Finishing
<1>3. Faults /\ Progress /\ Verdicts /\ CancellationLeaksNothing
  BY DEF Faults, Progress, Untouched, AtGates, AtEvaluation, AtFinish, SandboxUsed, Verdicts, CancellationLeaksNothing, Working, Finishing
<1> QED BY <1>1, <1>2, <1>3 DEF LInv

(***************************************************************************)
(* What the Runner's lists contain after each of their updates.            *)
(***************************************************************************)
LEMMA EmptyRange == Range(<<>>) = {}
BY DEF Range

LEMMA FrontRange ==
  ASSUME NEW S, NEW s \in Seq(S), s # <<>>
  PROVE  Range(s) \subseteq Range(SubSeq(s, 1, Len(s) - 1)) \cup {s[Len(s)]}
<1> DEFINE f == SubSeq(s, 1, Len(s) - 1)
<1>1. Len(s) \in Nat /\ Len(s) > 0 /\ DOMAIN s = 1 .. Len(s)
  BY EmptySeq, LenProperties
<1>2. \A i \in 1 .. Len(s) - 1 : s[i] \in S
  BY <1>1, ElementOfSeq
<1>3. DOMAIN f = 1 .. Len(s) - 1 /\ \A i \in 1 .. Len(s) - 1 : f[i] = s[i]
  BY <1>1, <1>2, SubSeqProperties
<1> HIDE DEF f
<1>4. \A i \in DOMAIN s : i \in DOMAIN f \/ i = Len(s)
  BY <1>1, <1>3
<1>5. Range(s) \subseteq Range(f) \cup {s[Len(s)]}
  BY <1>1, <1>3, <1>4 DEF Range
<1> QED BY <1>5 DEF f

LEMMA ConsRange ==
  ASSUME NEW S, NEW s \in Seq(S), NEW x \in S
  PROVE  Range(<<x>> \o s) = {x} \cup Range(s)
<1> DEFINE t == <<x>>
<1>1. t \in Seq(S) /\ Range(t) = {x}
  BY DEF Range
<1> HIDE DEF t
<1>2. Range(t \o s) = {x} \cup Range(s)
  BY <1>1, RangeConcatenation
<1> QED BY <1>2 DEF t

LEMMA Appended ==
  ASSUME NEW S, NEW s \in Seq(S), NEW e
  PROVE  /\ DOMAIN Append(s, e) = DOMAIN s \cup {Len(s) + 1}
         /\ \A i \in DOMAIN s : Append(s, e)[i] = s[i]
         /\ Append(s, e)[Len(s) + 1] = e
BY LenProperties

LEMMA AppendRange ==
  ASSUME NEW S, NEW s \in Seq(S), NEW x
  PROVE  Range(Append(s, x)) = Range(s) \cup {x}
BY Appended DEF Range

LEMMA LInvNext == LInv /\ [Next]_vars => LInv'
<1> SUFFICES ASSUME LInv, [Next]_vars PROVE LInv'
  OBVIOUS
<1>0. IInv'
  BY IInvNext DEF LInv
<1>a. /\ task \in 1 .. NumTasks + 1 /\ phase \in Phase /\ TaskInRange
      /\ active \in [Role -> BOOLEAN] /\ up \in [Role -> SUBSET Task]
      /\ evalUp \subseteq Task \X Nat
  BY DEF LInv, IInv, TypeInv, TypeOK
<1>b. /\ started \in Seq(Task \X Nat) /\ remaining \in Seq(Task \X Nat)
      /\ result \in TaskResult /\ results \in Seq(Reported)
  BY DEF LInv, IInv, TypeInv, TypeOK
<1> USE <1>a DEF LInv, Progress, run, evaluation, TaskInRange
<1>1. CASE Cancel
  <2> USE <1>1 DEF Cancel
  <2>1. (Ahead /\ Held /\ Leftovers /\ Behind)'
    BY DEF Ahead, Exists, Working, Phase, Held, Role, Leftovers, CleanupFailed,
       Finishing, Behind
  <2>2. (Faults /\ Untouched /\ AtGates /\ AtEvaluation /\ AtFinish /\ SandboxUsed)'
    BY DEF Faults, Untouched, AtGates, AtEvaluation, Finishing, newTaskResult,
       Working, Phase, Outcome, AtFinish, Kind, IInv, EvaluatedInOrder,
       BeforeEvaluation, SandboxUsed, Role
  <2>3. (Verdicts /\ CancellationLeaksNothing)'
    BY DEF Verdicts, Kind, IInv, EvaluatedInOrder, CancellationLeaksNothing, Exists,
       Faults
  <2> QED BY <1>0, <2>1, <2>2, <2>3
<1>2. CASE listTasks
  <2> USE <1>2 DEF listTasks
  <2>1. (Ahead /\ Held /\ Leftovers /\ Behind)'
    BY DEF Ahead, Exists, Working, Phase, Held, Role, Leftovers, CleanupFailed,
       Finishing, Behind
  <2>2. (Faults /\ Untouched /\ AtGates /\ AtEvaluation /\ AtFinish /\ SandboxUsed)'
    BY DEF Faults, Untouched, AtGates, AtEvaluation, Finishing, newTaskResult,
       Working, Phase, Outcome, AtFinish, Kind, IInv, EvaluatedInOrder,
       BeforeEvaluation, SandboxUsed, Role
  <2>3. (Verdicts /\ CancellationLeaksNothing)'
    BY DEF Verdicts, Kind, IInv, EvaluatedInOrder, CancellationLeaksNothing, Exists,
       Faults
  <2> QED BY <1>0, <2>1, <2>2, <2>3
<1>3. CASE Schedule
  <2> USE <1>3 DEF Schedule
  <2>1. Held'
    BY EmptyRange DEF Held, Ahead, Exists, Role, Working, Phase
  <2>2. (Ahead /\ Leftovers /\ Behind)'
    BY DEF Ahead, Exists, Working, Phase, Leftovers, CleanupFailed, Held, Role,
       Finishing, Behind
  <2>3. (Faults /\ Untouched /\ AtGates /\ AtEvaluation /\ AtFinish /\ SandboxUsed)'
    BY DEF Faults, Untouched, AtGates, AtEvaluation, Finishing, newTaskResult,
       Working, Phase, Outcome, AtFinish, Kind, IInv, EvaluatedInOrder,
       BeforeEvaluation, SandboxUsed, Role
  <2>4. (Verdicts /\ CancellationLeaksNothing)'
    BY DEF Verdicts, Kind, IInv, EvaluatedInOrder, CancellationLeaksNothing, Exists,
       Faults
  <2> QED BY <1>0, <2>1, <2>2, <2>3, <2>4
<1>4. CASE Return
  <2> USE <1>4 DEF Return
  <2>1. (Ahead /\ Held /\ Leftovers /\ Behind)'
    BY DEF Ahead, Exists, Working, Phase, Held, Role, Leftovers, CleanupFailed,
       Finishing, Behind
  <2>2. (Faults /\ Untouched /\ AtGates /\ AtEvaluation /\ AtFinish /\ SandboxUsed)'
    BY DEF Faults, Untouched, AtGates, AtEvaluation, Finishing, newTaskResult,
       Working, Phase, Outcome, AtFinish, Kind, IInv, EvaluatedInOrder,
       BeforeEvaluation, SandboxUsed, Role
  <2>3. (Verdicts /\ CancellationLeaksNothing)'
    BY DEF Verdicts, Kind, IInv, EvaluatedInOrder, CancellationLeaksNothing, Exists,
       Faults
  <2> QED BY <1>0, <2>1, <2>2, <2>3
<1>5. CASE startSandbox
  <2> USE <1>5 DEF startSandbox, Fail, Own
  <2>1. Ahead'
    BY DEF Ahead, Exists, Working, Phase
  <2>2. Held'
    BY DEF Held, Ahead, Exists, Role, Working, Phase
  <2>3. Leftovers'
    BY DEF Leftovers, CleanupFailed, Held, Ahead, Exists, Role, Finishing, Working,
       Phase
  <2>4. Behind'
    BY DEF Behind, Exists, Ahead
  <2>5. Faults'
    BY <1>b DEF Faults, Untouched, AtGates, AtEvaluation, Finishing, newTaskResult,
       Working, Phase, TaskResult
  <2>6. Untouched'
    BY <1>b DEF Untouched, Finishing, TaskResult
  <2>7. AtGates'
    BY <1>b DEF AtGates, Untouched, Outcome, newTaskResult, TaskResult
  <2>8. AtEvaluation'
    BY <1>b DEF AtEvaluation, AtGates, Outcome, TaskResult
  <2>9. AtFinish'
    <3>1. phase' = "cleanupEvaluation" =>
            noted' = {"allErrors"} /\ result' = newTaskResult /\ task' \notin evaluated'
      BY DEF Untouched, IInv, EvaluatedInOrder, BeforeEvaluation
    <3>2. phase' \in {"prepareSandbox", "cleanupEvaluation"}
      OBVIOUS
    <3> QED BY <3>1, <3>2 DEF AtFinish, Kind, Finishing, newTaskResult
  <2>10. SandboxUsed'
    BY DEF SandboxUsed, Role, Working, Phase
  <2>11. (Verdicts /\ CancellationLeaksNothing)'
    BY DEF Verdicts, Kind, IInv, EvaluatedInOrder, CancellationLeaksNothing, Exists,
       Faults
  <2> QED BY <1>0, <2>1, <2>2, <2>3, <2>4, <2>5, <2>6, <2>7, <2>8, <2>9, <2>10, <2>11
<1>6. CASE prepareSandbox
  <2> USE <1>6 DEF prepareSandbox, Fail
  <2>1. (Ahead /\ Held /\ Leftovers /\ Behind)'
    BY DEF Ahead, Exists, Working, Phase, Held, Role, Leftovers, CleanupFailed,
       Finishing, Behind
  <2>2. (Faults /\ Untouched /\ AtGates /\ AtEvaluation /\ AtFinish /\ SandboxUsed)'
    BY DEF Faults, Untouched, AtGates, AtEvaluation, Finishing, newTaskResult,
       Working, Phase, Outcome, AtFinish, Kind, IInv, EvaluatedInOrder,
       BeforeEvaluation, SandboxUsed, Role
  <2>3. (Verdicts /\ CancellationLeaksNothing)'
    BY DEF Verdicts, Kind, IInv, EvaluatedInOrder, CancellationLeaksNothing, Exists,
       Faults
  <2> QED BY <1>0, <2>1, <2>2, <2>3
<1>7. CASE startBridge
  <2> USE <1>7 DEF startBridge, Fail, Own, ActiveAfterStart
  <2>1. (Ahead /\ Held /\ Leftovers /\ Behind)'
    BY DEF Ahead, Exists, Working, Phase, Held, Role, Leftovers, CleanupFailed,
       Finishing, Behind
  <2>2. (Faults /\ Untouched /\ AtGates /\ AtEvaluation /\ AtFinish /\ SandboxUsed)'
    BY DEF Faults, Untouched, AtGates, AtEvaluation, Finishing, newTaskResult,
       Working, Phase, Outcome, AtFinish, Kind, IInv, EvaluatedInOrder,
       BeforeEvaluation, SandboxUsed, Role
  <2>3. (Verdicts /\ CancellationLeaksNothing)'
    BY DEF Verdicts, Kind, IInv, EvaluatedInOrder, CancellationLeaksNothing, Exists,
       Faults
  <2> QED BY <1>0, <2>1, <2>2, <2>3
<1>8. CASE startHarness
  <2>a. /\ phase = "startHarness" /\ UNCHANGED <<run, evaluation, orphans, evaluated, faulted>>
        /\ active' = [active EXCEPT !["harness"] = TRUE]
    BY <1>8 DEF startHarness, ActiveAfterStart
  <2>b. up' \in {up, [up EXCEPT !["harness"] = @ \cup {task}]}
    BY <1>8 DEF startHarness, Own
  <2>c. \/ phase' = "runHarness" /\ UNCHANGED <<noted, result>>
        \/ /\ phase' = "stopHarness" /\ noted' = noted \cup {"allErrors"}
           /\ \E v \in {"failed", "canceled"} : result' = [result EXCEPT !.harness = v]
    BY <1>8 DEF startHarness, Fail, failureStatus
  <2>d. \A t \in Task : t # task /\ Exists(t)' => Exists(t)
    BY <2>a, <2>b DEF Exists, Role
  <2> USE <2>a, <2>c
  <2>1. Ahead'
    BY <2>d DEF Ahead, Working, Phase
  <2>2. Held'
    BY <2>b DEF Held, Working, Phase, Role
  <2>3. Leftovers'
    BY <2>b DEF Leftovers, CleanupFailed, Working, Phase, Finishing, Role
  <2>4. Behind'
    BY <2>d DEF Behind
  <2>5. Faults'
    BY <1>b DEF Faults, Untouched, AtGates, AtEvaluation, Finishing, newTaskResult,
       Working, Phase, TaskResult
  <2>6. Untouched'
    BY <1>b DEF Untouched, Finishing, TaskResult
  <2>7. AtGates'
    <3>1. phase' = "stopHarness" =>
            /\ result'.harness \in {"failed", "canceled"} /\ result'.isolation = "not_started"
            /\ result'.evaluation = "not_run" /\ noted' = {"allErrors"}
      BY DEF Untouched, newTaskResult
    <3> QED BY <3>1 DEF AtGates, Outcome
  <2>8. AtEvaluation'
    BY <1>b DEF AtEvaluation, AtGates, Outcome, TaskResult
  <2>9. AtFinish'
    BY <1>b DEF AtFinish, AtEvaluation, AtGates, Untouched, Kind, Outcome,
       Finishing, newTaskResult, IInv, EvaluatedInOrder, BeforeEvaluation,
       TaskResult
  <2>10. SandboxUsed'
    BY DEF SandboxUsed, Role, Working, Phase
  <2>11. Verdicts'
    BY DEF Verdicts, Kind, IInv, EvaluatedInOrder
  <2>12. CancellationLeaksNothing'
    BY <2>d DEF CancellationLeaksNothing, Verdicts
  <2> QED BY <1>0, <2>1, <2>2, <2>3, <2>4, <2>5, <2>6, <2>7, <2>8, <2>9, <2>10, <2>11, <2>12
<1>9. CASE runHarness
  <2>a. /\ phase = "runHarness" /\ phase' = "stopHarness"
        /\ UNCHANGED <<run, active, evaluation, up, orphans, evaluated, faulted>>
    BY <1>9 DEF runHarness, Fail
  <2>b. result = newTaskResult /\ noted = {}
    BY <2>a DEF Untouched
  <2>c. PICK v \in Outcome :
          /\ result' = [result EXCEPT !.harness = v]
          /\ \/ noted' = {} /\ v \in Verdict
             \/ noted' = {"allErrors"} /\ v # "succeeded"
    BY <1>9, <2>b DEF runHarness, Fail, OutcomeStatus, OwnStatus, ErrorKind,
       failureStatus, Outcome, Verdict
  <2>d. /\ result'.harness = v /\ result'.isolation = "not_started"
        /\ result'.evaluation = "not_run"
    BY <2>b, <2>c DEF newTaskResult
  <2> USE <2>a
  <2>1. Ahead'
    BY DEF Ahead, Exists, Working, Phase
  <2>2. Held'
    BY DEF Held, Ahead, Exists, Role, Working, Phase
  <2>3. Leftovers'
    BY DEF Leftovers, CleanupFailed, Held, Ahead, Exists, Role, Finishing, Working,
       Phase
  <2>4. Behind'
    BY DEF Behind, Exists, Ahead
  <2>5. Faults'
    BY <2>c, <2>d DEF Faults, Working, Phase
  <2>6. Untouched'
    BY DEF Untouched, Finishing
  <2>7. AtGates'
    BY <2>c, <2>d DEF AtGates
  <2>8. AtEvaluation'
    BY DEF AtEvaluation, AtGates, Outcome
  <2>9. AtFinish'
    BY DEF AtFinish, AtEvaluation, AtGates, Untouched, Kind, Outcome, Finishing,
       newTaskResult, IInv, EvaluatedInOrder, BeforeEvaluation
  <2>10. SandboxUsed'
    BY <2>b, <2>c DEF SandboxUsed, Working, Phase
  <2>11. (Verdicts /\ CancellationLeaksNothing)'
    BY DEF Verdicts, Kind, IInv, EvaluatedInOrder, CancellationLeaksNothing, Exists,
       Faults
  <2> QED BY <1>0, <2>1, <2>2, <2>3, <2>4, <2>5, <2>6, <2>7, <2>8, <2>9, <2>10, <2>11
<1>10. CASE stopHarness
  <2> USE <1>10 DEF stopHarness, stopGate, StopSucceeds, StopFails, Fault,
     cleanupContextDone
  <2>1. (Ahead /\ Behind)'
    BY DEF Ahead, Exists, Working, Phase, Behind
  <2>2. Held'
    BY DEF Held, Ahead, Exists, Role, Working, Phase
  <2>3. Leftovers'
    BY DEF Leftovers, CleanupFailed, Held, Ahead, Exists, Role, Finishing, Working,
       Phase
  <2>4. Faults'
    BY <1>b DEF Faults, Untouched, AtGates, AtEvaluation, Finishing, newTaskResult,
       Working, Phase, TaskResult
  <2>5. Untouched'
    BY DEF Untouched, Finishing
  <2>6. AtGates'
    BY <1>b DEF AtGates, Untouched, Outcome, newTaskResult, TaskResult
  <2>7. AtEvaluation'
    BY <1>b DEF AtEvaluation, AtGates, Outcome, TaskResult
  <2>8. AtFinish'
    BY <1>b DEF AtFinish, AtEvaluation, AtGates, Untouched, Kind, Outcome,
       Finishing, newTaskResult, IInv, EvaluatedInOrder, BeforeEvaluation,
       TaskResult
  <2>9. SandboxUsed'
    BY DEF SandboxUsed, Role, Working, Phase
  <2>10. (Verdicts /\ CancellationLeaksNothing)'
    BY DEF Verdicts, Kind, IInv, EvaluatedInOrder, CancellationLeaksNothing, Exists,
       Faults
  <2> QED BY <1>0, <2>1, <2>2, <2>3, <2>4, <2>5, <2>6, <2>7, <2>8, <2>9, <2>10
<1>11. CASE stopBridge
  <2> USE <1>11 DEF stopBridge, stopGate, StopSucceeds, StopFails, Fault,
     cleanupContextDone
  <2>1. (Ahead /\ Behind)'
    BY DEF Ahead, Exists, Working, Phase, Behind
  <2>2. Held'
    BY DEF Held, Ahead, Exists, Role, Working, Phase
  <2>3. Leftovers'
    BY DEF Leftovers, CleanupFailed, Held, Ahead, Exists, Role, Finishing, Working,
       Phase
  <2>4. Faults'
    BY <1>b DEF Faults, Untouched, AtGates, AtEvaluation, Finishing, newTaskResult,
       Working, Phase, TaskResult
  <2>5. Untouched'
    BY DEF Untouched, Finishing
  <2>6. AtGates'
    BY <1>b DEF AtGates, Untouched, Outcome, newTaskResult, TaskResult
  <2>7. AtEvaluation'
    BY <1>b DEF AtEvaluation, AtGates, Outcome, TaskResult
  <2>8. AtFinish'
    BY <1>b DEF AtFinish, AtEvaluation, AtGates, Untouched, Kind, Outcome,
       Finishing, newTaskResult, IInv, EvaluatedInOrder, BeforeEvaluation,
       TaskResult
  <2>9. SandboxUsed'
    BY DEF SandboxUsed, Role, Working, Phase
  <2>10. (Verdicts /\ CancellationLeaksNothing)'
    BY DEF Verdicts, Kind, IInv, EvaluatedInOrder, CancellationLeaksNothing, Exists,
       Faults
  <2> QED BY <1>0, <2>1, <2>2, <2>3, <2>4, <2>5, <2>6, <2>7, <2>8, <2>9, <2>10
<1>12. CASE isolationGate
  <2> USE <1>12 DEF isolationGate, Blocked, BlockedResult
  <2>1. (Ahead /\ Behind)'
    BY DEF Ahead, Exists, Working, Phase, Behind
  <2>2. Held'
    BY DEF Held, Ahead, Exists, Role, Working, Phase
  <2>3. Leftovers'
    BY DEF Leftovers, CleanupFailed, Held, Ahead, Exists, Role, Finishing, Working,
       Phase
  <2>4. Faults'
    BY <1>b DEF Faults, Untouched, AtGates, AtEvaluation, Finishing, newTaskResult,
       Working, Phase, TaskResult
  <2>5. Untouched'
    BY DEF Untouched, Finishing
  <2>6. AtGates'
    BY <1>b DEF AtGates, Untouched, Outcome, newTaskResult, TaskResult
  <2>7. AtEvaluation'
    <3>1. phase' = "evaluate" =>
            /\ result'.harness = result.harness /\ result'.isolation = "confirmed"
            /\ result'.harnessStopped = result.harnessStopped
            /\ result'.bridgeRevoked = result.bridgeRevoked
            /\ result'.evaluation = result.evaluation /\ task' \in evaluated'
            /\ "isolationErrors" \notin noted
      BY <1>b DEF TaskResult
    <3>2. noted \subseteq Note /\ noted' = noted
      BY DEF IInv, TypeInv, TypeOK
    <3> QED BY <3>1, <3>2 DEF AtEvaluation, AtGates, Note
  <2>8. AtFinish'
    BY <1>b DEF AtFinish, AtEvaluation, AtGates, Untouched, Kind, Outcome,
       Finishing, newTaskResult, IInv, EvaluatedInOrder, BeforeEvaluation,
       TaskResult
  <2>9. SandboxUsed'
    BY DEF SandboxUsed, Role, Working, Phase
  <2>10. (Verdicts /\ CancellationLeaksNothing)'
    BY DEF Verdicts, Kind, IInv, EvaluatedInOrder, CancellationLeaksNothing, Exists,
       Faults
  <2> QED BY <1>0, <2>1, <2>2, <2>3, <2>4, <2>5, <2>6, <2>7, <2>8, <2>9, <2>10
<1>13. CASE evaluationStart
  <2> USE <1>13 DEF evaluationStart
  <2>1. Ahead'
    BY DEF Ahead, Exists, Working, Phase
  <2>2. Held'
    <3> DEFINE sb == <<task, Len(started) + 1>>
    <3>1. \/ started' = Append(started, sb) /\ evalUp' = evalUp \cup {sb}
          \/ UNCHANGED <<started, evalUp>>
      OBVIOUS
    <3> HIDE DEF sb
    <3>2. CASE started' = Append(started, sb) /\ evalUp' = evalUp \cup {sb}
      <4>1. Range(started') = Range(started) \cup {sb}
        BY <1>b, <3>2, AppendRange
      <4> QED BY <3>2, <4>1 DEF Held, Working, Phase
    <3>3. CASE UNCHANGED <<started, evalUp>>
      BY <3>3 DEF Held, Working, Phase
    <3> QED BY <3>1, <3>2, <3>3
  <2>3. Leftovers'
    BY DEF Leftovers, CleanupFailed, Held, Ahead, Exists, Role, Finishing, Working,
       Phase
  <2>4. Behind'
    BY DEF Behind, Exists, Ahead
  <2>5. Faults'
    BY DEF Faults, Untouched, AtGates, AtEvaluation, Finishing, newTaskResult,
       Working, Phase
  <2>6. Untouched'
    BY DEF Untouched, Finishing
  <2>7. AtGates'
    BY DEF AtGates, Untouched, Outcome, newTaskResult
  <2>8. AtEvaluation'
    BY DEF AtEvaluation, AtGates, Outcome
  <2>9. AtFinish'
    BY DEF AtFinish, AtEvaluation, AtGates, Untouched, Kind, Outcome, Finishing,
       newTaskResult, IInv, EvaluatedInOrder, BeforeEvaluation
  <2>10. SandboxUsed'
    BY DEF SandboxUsed, Role, Working, Phase
  <2>11. (Verdicts /\ CancellationLeaksNothing)'
    BY DEF Verdicts, Kind, IInv, EvaluatedInOrder, CancellationLeaksNothing, Exists,
       Faults
  <2> QED BY <1>0, <2>1, <2>2, <2>3, <2>4, <2>5, <2>6, <2>7, <2>8, <2>9, <2>10, <2>11
<1>14. CASE evaluate
  <2>a. /\ phase = "evaluate" /\ phase' = "cleanupEvaluation"
        /\ UNCHANGED <<run, active, evaluation, up, orphans, evaluated, faulted>>
    BY <1>14 DEF evaluate, Fail
  <2>b. PICK v \in Outcome :
          /\ result' = [result EXCEPT !.evaluation = v]
          /\ \/ noted' = noted /\ v \in Verdict
             \/ noted' = noted \cup {"allErrors"} /\ v # "succeeded"
    BY <1>14 DEF evaluate, Fail, OutcomeStatus, OwnStatus, ErrorKind, failureStatus,
       Outcome, Verdict
  <2>c. /\ result'.harness = result.harness /\ result'.isolation = "confirmed"
        /\ result'.harnessStopped = result.harnessStopped
        /\ result'.bridgeRevoked = result.bridgeRevoked /\ result'.evaluation = v
    BY <1>b, <2>a, <2>b DEF TaskResult, AtEvaluation
  <2>d. noted \subseteq {"allErrors"} /\ task \in evaluated
    BY <2>a DEF AtEvaluation
  <2> USE <2>a, <2>b
  <2>1. (Ahead /\ Behind)'
    BY DEF Ahead, Exists, Working, Phase, Behind
  <2>2. Held'
    BY DEF Held, Ahead, Exists, Role, Working, Phase
  <2>3. Leftovers'
    BY DEF Leftovers, CleanupFailed, Held, Ahead, Exists, Role, Finishing, Working,
       Phase
  <2>4. Faults'
    BY <1>b DEF Faults, Untouched, AtGates, AtEvaluation, Finishing, newTaskResult,
       Working, Phase, TaskResult
  <2>5. Untouched'
    BY DEF Untouched, Finishing
  <2>6. AtGates'
    BY <1>b DEF AtGates, Untouched, Outcome, newTaskResult, TaskResult
  <2>7. AtEvaluation'
    BY <1>b DEF AtEvaluation, AtGates, Outcome, TaskResult
  <2>8. AtFinish'
    <3>1. Kind(result, task)'
      BY <2>c, <2>d DEF Kind, AtEvaluation
    <3>2. "allErrors" \notin noted' => result'.harness \in Verdict /\ v \in Verdict
      BY <2>c DEF AtEvaluation
    <3>3. "allErrors" \in noted' => result'.harness # "succeeded" \/ v # "succeeded"
      BY <2>c, <2>d DEF AtEvaluation
    <3>4. noted' \cap {"cleanupErrors"} = {}
      BY <2>d
    <3> QED BY <2>c, <3>1, <3>2, <3>3, <3>4 DEF AtFinish, AtEvaluation
  <2>9. SandboxUsed'
    BY DEF SandboxUsed, Role, Working, Phase
  <2>10. (Verdicts /\ CancellationLeaksNothing)'
    BY DEF Verdicts, Kind, IInv, EvaluatedInOrder, CancellationLeaksNothing, Exists,
       Faults
  <2> QED BY <1>0, <2>1, <2>2, <2>3, <2>4, <2>5, <2>6, <2>7, <2>8, <2>9, <2>10
<1>15. CASE cleanupEvaluation
  <2> DEFINE sb == started[Len(started)]
  <2>a. /\ phase = "cleanupEvaluation" /\ started # <<>>
        /\ UNCHANGED <<phase, run, active, result, up, orphans, evaluated>>
    BY <1>15 DEF cleanupEvaluation
  <2>b. /\ started' = SubSeq(started, 1, Len(started) - 1)
        /\ \/ /\ evalUp' = evalUp \ {sb} /\ UNCHANGED <<remaining, faulted>>
              /\ noted' = noted \cup {"cleanupUsed"}
           \/ /\ evalUp' \subseteq evalUp /\ remaining' = <<sb>> \o remaining
              /\ noted' = noted \cup {"cleanupUsed", "cleanupErrors", "allErrors"}
              /\ faulted' = faulted \cup {task}
    BY <1>15 DEF cleanupEvaluation, Keep, Fault, cleanupContextDone
  <2>c. sb \in Task \X Nat /\ Range(started) \subseteq Range(started') \cup {sb}
    BY <1>b, <2>a, <2>b, FrontType, FrontRange
  <2>d. Range(<<sb>> \o remaining) = {sb} \cup Range(remaining)
    BY <1>b, <2>c, ConsRange
  <2>e. /\ evalUp' \subseteq evalUp /\ faulted \subseteq faulted'
        /\ \A t : Exists(t)' => Exists(t)
    BY <2>a, <2>b DEF Exists
  <2> HIDE DEF sb
  <2> USE <2>a
  <2>1. Ahead'
    BY <2>e DEF Ahead, Working, Phase
  <2>2. Held'
    BY <2>b, <2>c, <2>d DEF Held, Working, Phase
  <2>3. Leftovers'
    BY <2>b DEF Leftovers, CleanupFailed, Working, Phase, Finishing
  <2>4. Behind'
    BY <2>e DEF Behind
  <2>5. Faults'
    BY <2>b DEF Faults, Working, Phase
  <2>6. Untouched'
    BY DEF Untouched, Finishing
  <2>7. AtGates'
    BY DEF AtGates, Untouched, Outcome, newTaskResult
  <2>8. AtEvaluation'
    BY DEF AtEvaluation, AtGates, Outcome
  <2>9. AtFinish'
    BY <2>b DEF AtFinish, Kind, Finishing
  <2>10. SandboxUsed'
    BY <2>b DEF SandboxUsed, Working, Phase
  <2>11. Verdicts'
    BY DEF Verdicts, Kind
  <2>12. CancellationLeaksNothing'
    BY <2>e DEF CancellationLeaksNothing
  <2> QED BY <1>0, <2>1, <2>2, <2>3, <2>4, <2>5, <2>6, <2>7, <2>8, <2>9, <2>10, <2>11, <2>12
<1>16. CASE cleanupEvaluationDone
  <2> USE <1>16 DEF cleanupEvaluationDone
  <2>1. (Ahead /\ Held /\ Leftovers /\ Behind)'
    BY DEF Ahead, Exists, Working, Phase, Held, Role, Leftovers, CleanupFailed,
       Finishing, Behind
  <2>2. (Faults /\ Untouched /\ AtGates /\ AtEvaluation /\ AtFinish /\ SandboxUsed)'
    BY DEF Faults, Untouched, AtGates, AtEvaluation, Finishing, newTaskResult,
       Working, Phase, Outcome, AtFinish, Kind, IInv, EvaluatedInOrder,
       BeforeEvaluation, SandboxUsed, Role
  <2>3. (Verdicts /\ CancellationLeaksNothing)'
    BY DEF Verdicts, Kind, IInv, EvaluatedInOrder, CancellationLeaksNothing, Exists,
       Faults
  <2> QED BY <1>0, <2>1, <2>2, <2>3
<1>17. CASE cleanupHarness
  <2> USE <1>17 DEF cleanupHarness, cleanup, Fault, cleanupContextDone
  <2>1. (Ahead /\ Held /\ Leftovers /\ Behind)'
    BY DEF Ahead, Exists, Working, Phase, Held, Role, Leftovers, CleanupFailed,
       Finishing, Behind
  <2>2. (Faults /\ Untouched /\ AtGates /\ AtEvaluation /\ AtFinish /\ SandboxUsed)'
    BY DEF Faults, Untouched, AtGates, AtEvaluation, Finishing, newTaskResult,
       Working, Phase, Outcome, AtFinish, Kind, IInv, EvaluatedInOrder,
       BeforeEvaluation, SandboxUsed, Role
  <2>3. (Verdicts /\ CancellationLeaksNothing)'
    BY DEF Verdicts, Kind, IInv, EvaluatedInOrder, CancellationLeaksNothing, Exists,
       Faults
  <2> QED BY <1>0, <2>1, <2>2, <2>3
<1>18. CASE cleanupBridge
  <2> USE <1>18 DEF cleanupBridge, cleanup, Fault, cleanupContextDone
  <2>1. (Ahead /\ Held /\ Leftovers /\ Behind)'
    BY DEF Ahead, Exists, Working, Phase, Held, Role, Leftovers, CleanupFailed,
       Finishing, Behind
  <2>2. (Faults /\ Untouched /\ AtGates /\ AtEvaluation /\ AtFinish /\ SandboxUsed)'
    BY DEF Faults, Untouched, AtGates, AtEvaluation, Finishing, newTaskResult,
       Working, Phase, Outcome, AtFinish, Kind, IInv, EvaluatedInOrder,
       BeforeEvaluation, SandboxUsed, Role
  <2>3. (Verdicts /\ CancellationLeaksNothing)'
    BY DEF Verdicts, Kind, IInv, EvaluatedInOrder, CancellationLeaksNothing, Exists,
       Faults
  <2> QED BY <1>0, <2>1, <2>2, <2>3
<1>19. CASE cleanupSandbox
  <2> USE <1>19 DEF cleanupSandbox, cleanup, Fault, cleanupContextDone
  <2>1. (Ahead /\ Held /\ Leftovers /\ Behind)'
    BY DEF Ahead, Exists, Working, Phase, Held, Role, Leftovers, CleanupFailed,
       Finishing, Behind
  <2>2. (Faults /\ Untouched /\ AtGates /\ AtEvaluation /\ AtFinish /\ SandboxUsed)'
    BY DEF Faults, Untouched, AtGates, AtEvaluation, Finishing, newTaskResult,
       Working, Phase, Outcome, AtFinish, Kind, IInv, EvaluatedInOrder,
       BeforeEvaluation, SandboxUsed, Role
  <2>3. (Verdicts /\ CancellationLeaksNothing)'
    BY DEF Verdicts, Kind, IInv, EvaluatedInOrder, CancellationLeaksNothing, Exists,
       Faults
  <2> QED BY <1>0, <2>1, <2>2, <2>3
<1>20. CASE report
  <2> USE <1>20 DEF report, CleanupStatus
  <2>a. LET r == [task |-> task, result |-> result', failed |-> TaskError]
        IN  /\ results' = Append(results, r) /\ result' = [result EXCEPT !.cleanup = CleanupStatus]
    OBVIOUS
  <2>b. /\ DOMAIN results' = DOMAIN results \cup {Len(results) + 1}
        /\ \A i \in DOMAIN results : results'[i] = results[i]
        /\ results'[Len(results) + 1].task = task
        /\ results'[Len(results) + 1].result = result'
        /\ results'[Len(results) + 1].failed = TaskError
    BY <1>b, Appended
  <2>c. /\ result'.harness = result.harness /\ result'.isolation = result.isolation
        /\ result'.evaluation = result.evaluation
        /\ result'.cleanup = CleanupStatus
    BY <1>b DEF TaskResult
  <2>d. Exists(task) => CleanupFailed
    BY EmptyRange DEF Exists, Held, Leftovers, Role, Working, Phase, Finishing
  <2>e. CleanupFailed <=> CleanupStatus = "failed"
    BY DEF CleanupFailed, CleanupStatus, AtFinish, Finishing
  <2>f. \A t \in Task : Exists(t)' <=> Exists(t)
    BY DEF Exists
  <2>1. Ahead'
    BY DEF Ahead, Exists, Working, Phase
  <2>2. Held'
    BY DEF Held, Ahead, Exists, Role, Working, Phase
  <2>3. Leftovers'
    BY DEF Leftovers, CleanupFailed, Held, Ahead, Exists, Role, Finishing, Working,
       Phase
  <2>4. Behind'
    <3> SUFFICES ASSUME NEW t \in Task, t < task', Exists(t)
                 PROVE  \E i \in DOMAIN results' :
                          results'[i].task = t /\ results'[i].result.cleanup = "failed"
      BY <2>f DEF Behind
    <3>1. CASE t < task
      BY <2>b, <3>1 DEF Behind
    <3>2. CASE t = task
      BY <2>b, <2>c, <2>d, <2>e, <3>2
    <3> QED BY <3>1, <3>2
  <2>5. Faults'
    BY DEF Faults, Untouched, AtGates, AtEvaluation, Finishing, newTaskResult,
       Working, Phase
  <2>6. Untouched'
    BY DEF Untouched, Finishing
  <2>7. AtGates'
    BY DEF AtGates, Untouched, Outcome, newTaskResult
  <2>8. AtEvaluation'
    BY DEF AtEvaluation, AtGates, Outcome
  <2>9. AtFinish'
    BY DEF AtFinish, AtEvaluation, AtGates, Untouched, Kind, Outcome, Finishing,
       newTaskResult, IInv, EvaluatedInOrder, BeforeEvaluation
  <2>10. SandboxUsed'
    BY DEF SandboxUsed, Role, Working, Phase
  <2>11. Verdicts'
    <3>1. Kind(result', task)
      BY <2>c DEF AtFinish, Finishing, Kind
    <3>2. \A i \in DOMAIN results' :
            /\ results'[i].task \in 1 .. task
            /\ Kind(results'[i].result, results'[i].task)
      BY <2>b, <3>1 DEF Verdicts
    <3> QED BY <3>2 DEF Verdicts, Kind
  <2>12. CancellationLeaksNothing'
    <3> SUFFICES ASSUME NEW i \in DOMAIN results', results'[i].task \notin faulted
                 PROVE  /\ ~Exists(results'[i].task)
                        /\ results'[i].result.cleanup # "failed"
                        /\ results'[i].result.isolation # "blocked_isolation"
      BY DEF CancellationLeaksNothing, Exists
    <3>1. CASE i \in DOMAIN results
      BY <2>b, <3>1 DEF CancellationLeaksNothing
    <3>2. CASE results'[i].task = task /\ results'[i].result = result'
      <4>1. ~CleanupFailed /\ result.isolation # "blocked_isolation"
        BY <3>2 DEF Faults, Working, Phase, CleanupFailed
      <4> QED BY <2>c, <2>d, <2>e, <3>2, <4>1
    <3> QED BY <2>b, <3>1, <3>2
  <2> QED BY <1>0, <2>1, <2>2, <2>3, <2>4, <2>5, <2>6, <2>7, <2>8, <2>9, <2>10, <2>11, <2>12
<1>21. CASE UNCHANGED vars
  <2> USE <1>21 DEF vars
  <2>1. (Ahead /\ Held /\ Leftovers /\ Behind)'
    BY DEF Ahead, Exists, Working, Phase, Held, Role, Leftovers, CleanupFailed,
       Finishing, Behind
  <2>2. (Faults /\ Untouched /\ AtGates /\ AtEvaluation /\ AtFinish /\ SandboxUsed)'
    BY DEF Faults, Untouched, AtGates, AtEvaluation, Finishing, newTaskResult,
       Working, Phase, Outcome, AtFinish, Kind, IInv, EvaluatedInOrder,
       BeforeEvaluation, SandboxUsed, Role
  <2>3. (Verdicts /\ CancellationLeaksNothing)'
    BY DEF Verdicts, Kind, IInv, EvaluatedInOrder, CancellationLeaksNothing, Exists,
       Faults
  <2> QED BY <1>0, <2>1, <2>2, <2>3
<1> QED BY <1>1, <1>2, <1>3, <1>4, <1>5, <1>6, <1>7, <1>8, <1>9, <1>10, <1>11,
   <1>12, <1>13, <1>14, <1>15, <1>16, <1>17, <1>18, <1>19, <1>20, <1>21
  DEF Next, Step, Terminated

(***************************************************************************)
(* Whatever fails, whatever is cancelled: until its report the Runner      *)
(* holds every harness, bridge and sandbox of a task that exists, and      *)
(* afterwards the report says that cleanup failed.                         *)
(***************************************************************************)
THEOREM Remembered == Spec => []NothingForgotten
<1>1. LInv => NothingForgotten
  <2> SUFFICES ASSUME LInv, NEW t \in Task, Exists(t) PROVE Owned(t)
    BY DEF NothingForgotten
  <2>1. task \in 1 .. NumTasks + 1 /\ phase \in Phase
    BY DEF LInv, IInv, TypeInv, TypeOK
  <2>2. CASE t < task
    BY <2>2 DEF LInv, Behind, Owned
  <2>3. CASE t = task
    <3>1. phase \in Working
      BY <2>3 DEF LInv, Ahead
    <3>2. Range(started \o remaining) = Range(started) \cup Range(remaining)
      BY RangeConcatenation DEF LInv, IInv, TypeInv, TypeOK
    <3>3. \A sb \in evalUp : sb[1] = t =>
            \E i \in DOMAIN (started \o remaining) : (started \o remaining)[i] = sb
      BY <2>3, <3>1, <3>2 DEF LInv, Held, Range
    <3> QED BY <2>3, <3>1, <3>3 DEF LInv, Held, Owned
  <2>4. t <= task
    BY DEF LInv, Ahead
  <2> QED BY <2>1, <2>2, <2>3, <2>4
<1> QED BY <1>1, LInvInit, LInvNext, PTL DEF Spec

(***************************************************************************)
(* A cancelled run neither blocks an evaluation nor leaks an object by     *)
(* itself: only a fault of a Stop does, and it is one of that task.        *)
(***************************************************************************)
THEOREM Cancellation == Spec => []CancellationLeaksNothing
<1>1. LInv => CancellationLeaksNothing
  BY DEF LInv
<1> QED BY <1>1, LInvInit, LInvNext, PTL DEF Spec

(***************************************************************************)
(* The counters of the summary split the results into the evaluated, the   *)
(* blocked and the ones that never reached their harness.                  *)
(***************************************************************************)
LEMMA Counts == LInv => Counted
<1> SUFFICES ASSUME LInv PROVE Counted
  OBVIOUS
<1> DEFINE D == DOMAIN results
           R == {i \in D : results[i].result.evaluation \in Outcome \ {"not_enabled"}}
           N == {i \in D : results[i].result.evaluation = "not_enabled"}
           A == R \cup N
           B == {i \in D : results[i].result.evaluation = "blocked_isolation"}
           C == {i \in D : results[i].result.harness = "not_started"}
           E == {i \in D : results[i].task \in evaluated}
<1>1. Verdicts /\ Len(results) \in Nat /\ D = 1 .. Len(results)
  BY LenProperties DEF LInv, IInv, TypeInv, TypeOK
<1>2. A = E /\ (A \cup B) \cup C = D /\ A \cap B = {} /\ (A \cup B) \cap C = {}
  BY <1>1 DEF Verdicts, Kind, Outcome
<1>3. /\ summarize.tasks = Len(results)
      /\ summarize.evaluationsRun = Cardinality(R)
      /\ NotEnabled = Cardinality(N) /\ R \cap N = {}
      /\ summarize.evaluationsBlocked = Cardinality(B)
      /\ CountResults(LAMBDA r : r.harness = "not_started") = Cardinality(C)
  <2>1. Outcome \ {"not_enabled"} = {"succeeded", "failed", "canceled"}
    BY DEF Outcome
  <2> QED BY <2>1 DEF summarize, CountResults, NotEnabled
<1>4. IsFiniteSet(D) /\ Cardinality(D) = Len(results)
  <2> DEFINE n == Len(results)
  <2>1. n \in Nat /\ D = 1 .. n
    BY <1>1
  <2> HIDE DEF n, D
  <2>2. IsFiniteSet(1 .. n) /\ Cardinality(1 .. n) = IF 1 > n THEN 0 ELSE n - 1 + 1
    BY <2>1, FS_Interval
  <2>3. IsFiniteSet(D) /\ Cardinality(D) = n
    BY <2>1, <2>2
  <2> QED BY <2>3 DEF n
<1> HIDE DEF R, N
<1>a. A \subseteq D /\ R \subseteq D /\ N \subseteq D
  BY DEF R, N
<1>b. IsFiniteSet(R) /\ IsFiniteSet(N) /\ Cardinality(R) \in Nat /\ Cardinality(N) \in Nat
  BY <1>4, <1>a, FS_Subset, FS_CardinalityType
<1>c. Cardinality(A) = Cardinality(R) + Cardinality(N)
  <2>1. Cardinality(R \cup N) = Cardinality(R) + Cardinality(N) - Cardinality(R \cap N)
    BY <1>b, FS_Union
  <2>2. Cardinality(R \cap N) = 0
    BY <1>3, FS_EmptySet
  <2> QED BY <1>b, <2>1, <2>2
<1> HIDE DEF A, B, C, D, E
<1>5. A \subseteq D /\ B \subseteq D /\ C \subseteq D
  BY <1>a DEF B, C
<1>6. IsFiniteSet(A) /\ IsFiniteSet(B) /\ IsFiniteSet(C)
  BY <1>4, <1>5, FS_Subset
<1>7. Cardinality(A) \in Nat /\ Cardinality(B) \in Nat /\ Cardinality(C) \in Nat
  BY <1>6, FS_CardinalityType
<1>8. IsFiniteSet(A \cup B) /\ Cardinality(A \cup B) = Cardinality(A) + Cardinality(B)
  BY <1>2, <1>6, <1>7, FS_Union, FS_EmptySet
<1>9. Cardinality(D) = Cardinality(A \cup B) + Cardinality(C)
  <2> DEFINE U == A \cup B
  <2>1. IsFiniteSet(U) /\ U \cup C = D /\ U \cap C = {} /\ Cardinality(U) \in Nat
    BY <1>2, <1>7, <1>8
  <2> HIDE DEF U
  <2>2. Cardinality(U \cup C) =
          Cardinality(U) + Cardinality(C) - Cardinality(U \cap C)
    BY <1>6, <2>1, FS_Union
  <2>3. Cardinality(U \cap C) = 0
    BY <2>1, FS_EmptySet
  <2>4. Cardinality(D) = Cardinality(U) + Cardinality(C)
    BY <1>7, <2>1, <2>2, <2>3
  <2> QED BY <2>4 DEF U
<1> QED BY <1>2, <1>3, <1>4, <1>7, <1>8, <1>9, <1>b, <1>c DEF Counted, E, D

\* What ReportsHonest says of the results a step adds.
Honest ==
  \A i \in DOMAIN results' \ DOMAIN results :
    LET r == results'[i] IN
    /\ r.failed => canceled \/ r.result # CleanResult
    /\ ~r.failed => ~canceled /\ Judged(r.result)
    /\ r.result.isolation = "confirmed" <=> r.task \in evaluated
    /\ Counted'

LEMMA StepHonest == LInv /\ Counted' /\ [Next]_vars => Honest
<1> SUFFICES ASSUME LInv, Counted', [Next]_vars PROVE Honest
  OBVIOUS
<1>1. CASE report
  <2>a. /\ result \in TaskResult /\ results \in Seq(Reported) /\ canceled \in BOOLEAN
        /\ phase = "report" /\ AtFinish /\ SandboxUsed
    BY <1>1 DEF report, LInv, IInv, TypeInv, TypeOK, Progress
  <2>1. /\ result' = [result EXCEPT !.cleanup = CleanupStatus]
        /\ results' = Append(results, [task |-> task, result |-> result',
                                       failed |-> TaskError])
    BY <1>1 DEF report
  <2>2. /\ DOMAIN results' \ DOMAIN results \subseteq {Len(results) + 1}
        /\ results'[Len(results) + 1].task = task
        /\ results'[Len(results) + 1].result = result'
        /\ results'[Len(results) + 1].failed = TaskError
    BY <2>a, <2>1, Appended
  <2>3. result' \in [harness : Status, isolation : Status, harnessStopped : BOOLEAN,
                     bridgeRevoked : BOOLEAN, evaluation : Status, cleanup : Status]
    BY <2>a, <2>1 DEF TaskResult, CleanupStatus, Status
  <2>4. /\ result'.harness = result.harness /\ result'.isolation = result.isolation
        /\ result'.harnessStopped = result.harnessStopped
        /\ result'.bridgeRevoked = result.bridgeRevoked
        /\ result'.evaluation = result.evaluation /\ result'.cleanup = CleanupStatus
    BY <2>a, <2>1 DEF TaskResult
  <2>5. result' = CleanResult <=>
          /\ result.harness = "succeeded" /\ result.isolation = "confirmed"
          /\ result.harnessStopped = TRUE /\ result.bridgeRevoked = TRUE
          /\ result.evaluation = "succeeded" /\ CleanupStatus = "succeeded"
    BY <2>3, <2>4 DEF CleanResult
  <2>6. "allErrors" \in noted => result' # CleanResult
    BY <2>a, <2>5 DEF AtFinish, Finishing, CleanupStatus
  <2>b. "allErrors" \notin noted => Judged(result')
    <3> SUFFICES ASSUME "allErrors" \notin noted PROVE Judged(result')
      OBVIOUS
    <3>1. /\ result.harness \in Verdict /\ result.evaluation \in Verdict
          /\ result.isolation = "confirmed" /\ result.harnessStopped = TRUE
          /\ result.bridgeRevoked = TRUE /\ CleanupStatus = "succeeded"
      BY <2>a DEF AtFinish, SandboxUsed, Finishing, CleanupStatus, Working, Phase,
         TaskResult
    <3>2. Verdict = OwnStatus \ {""}
      BY DEF Verdict, Outcome, OwnStatus
    <3> QED BY <2>4, <3>1, <3>2 DEF Judged
  <2>7. result'.isolation = "confirmed" <=> task \in evaluated
    BY <2>a, <2>4 DEF AtFinish, Finishing, Kind
  <2> QED BY <2>2, <2>6, <2>b, <2>7 DEF Honest, TaskError
<1>2. CASE ~report
  <2>1. UNCHANGED results
    BY <1>2 DEF Next, Step, Terminated, Cancel, listTasks, Schedule, Return, startSandbox,
       prepareSandbox, startBridge, startHarness, runHarness, stopHarness, stopBridge,
       stopGate, isolationGate, evaluationStart, evaluate, cleanupEvaluation,
       cleanupEvaluationDone, cleanupHarness, cleanupBridge, cleanupSandbox, cleanup,
       vars, run
  <2> QED BY <2>1 DEF Honest
<1> QED BY <1>1, <1>2

(***************************************************************************)
(* An error of a task is a cancellation or visible in its result; a report *)
(* without one is of a task that was isolated, evaluated and cleaned up in *)
(* a run that was not cancelled, with the verdicts of harness and          *)
(* evaluation as they gave them; confirmed isolation is reported for the   *)
(* evaluated tasks only, and every result is counted once.                 *)
(***************************************************************************)
THEOREM Honesty == Spec => ReportsHonest
<1>1. ReportsHonest <=> [][Honest]_vars
  BY PTL DEF ReportsHonest, Honest
<1> QED BY <1>1, LInvInit, LInvNext, Counts, StepHonest, PTL DEF Spec
=============================================================================
