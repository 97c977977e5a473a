------------------------ MODULE HarnessRuntime_proofs -----------------------
(***************************************************************************)
(* Proofs about the harness managers and their Runtime, for any number of  *)
(* callers and occurrences: a container is never out of reach, a nil Stop  *)
(* left nothing, a success has its evidence and a failed run of hermes was *)
(* cancelled.                                                              *)
(***************************************************************************)
EXTENDS HarnessRuntime, TLAPS

(***************************************************************************)
(* Who is at work.  One Start holds the mutex, one Stop is the attempt in  *)
(* progress, never both, and each works on the occurrence that is owned.   *)
(***************************************************************************)
OneStart == \A c \in Caller : /\ pc[c] \in StartStep <=> mu = c
                              /\ mu = c => job[c] = active
Exclusive == /\ mu # None => active # None /\ ~running /\ published = None
             /\ mu = None => published = active
             /\ running => active # None
OneStop ==
  \A c \in Caller : pc[c] \in StopStep =>
    /\ running /\ job[c] = active
    /\ \A d \in Caller : pc[d] \in StopStep => c = d

(***************************************************************************)
(* What is left of an occurrence.  Only the owned one has an identity or   *)
(* credentials, a container that was reported has an identity, and when no *)
(* Start is at work so has every one with credentials.                     *)
(***************************************************************************)
Retained ==
  /\ id \subseteq {active} /\ creds \subseteq {active}
  /\ exists \subseteq id \cup unconfirmed
  /\ mu = None => creds \subseteq id
  /\ \A c \in Caller : pc[c] \in {"prepare", "await", "publish"} => job[c] \in id

(***************************************************************************)
(* What Stops have answered for.  An occurrence is started once; the owned *)
(* one is not among those a nil Stop was, or will be, asked to remove.     *)
(***************************************************************************)
StartedOnce ==
  /\ active # None => active \in owned
  /\ owned \subseteq started /\ gone \subseteq owned
  /\ \A c \in Caller : asked[c] \subseteq owned

Answered ==
  /\ active \notin gone
  /\ \A c \in Caller :
       /\ joined[c] # "open" => pc[c] = "wait"
       /\ joined[c] = "nil" => active \notin asked[c]
       /\ pc[c] = "finish" /\ ~failed[c] => job[c] \notin id

(***************************************************************************)
(* Runs.  An occurrence has one Run: none before it is admitted, and no    *)
(* other while it is at work or after it has returned.                     *)
(***************************************************************************)
Past == succeeded \cup runFailed \cup lost \cup runID

OneRun ==
  \A c \in Caller : pc[c] \in RunStep =>
    /\ job[c] \in owned /\ job[c] \notin succeeded \cup runFailed
    /\ job[c] \in lost => missed[c]
    /\ \A d \in Caller : pc[d] \in RunStep /\ job[c] = job[d] => c = d

Unrun ==
  /\ Past \subseteq owned
  /\ active # None /\ ~admitted =>
       active \notin Past /\ \A c \in Caller : pc[c] \in RunStep => job[c] # active

(***************************************************************************)
(* The agent run that hermes knows of: not before its answer has come, and *)
(* on the way out it has ended or was asked to stop.                       *)
(***************************************************************************)
Cancels ==
  /\ native = "openclaw" => runID = {}
  /\ \A c \in Caller :
       /\ pc[c] = "known" => native = "hermes"
       /\ pc[c] \in {"speak", "upload", "transcribe", "begin", "submit", "known"} =>
            job[c] \notin runID
       /\ pc[c] \in {"result", "logs", "telemetry", "spans", "return"} /\ job[c] \in runID =>
            agent[job[c]] = "ended" \/ job[c] \in stopAsked

IInv ==
  /\ TypeOK /\ OneStart /\ Exclusive /\ OneStop /\ Retained /\ StartedOnce
  /\ Answered /\ OneRun /\ Unrun /\ Cancels
  /\ SuccessIsEvidenced /\ FailedRunIsCancelled

LEMMA IInvInit == Init => IInv
<1> SUFFICES ASSUME Init PROVE IInv
  OBVIOUS
<1>1. TypeOK
  BY DEF Init, TypeOK, PC
<1> QED BY <1>1, NoneAssumption
  DEF Init, IInv, OneStart, Exclusive, OneStop, Retained, StartedOnce, Answered, OneRun,
      Unrun, Past, Cancels, SuccessIsEvidenced, FailedRunIsCancelled, StartStep, RunStep,
      StopStep

(***************************************************************************)
(* Every step of a Start, a Run, a Stop and of the agent keeps them.       *)
(***************************************************************************)
LEMMA IInvNext == IInv /\ [Next]_vars => IInv'
<1> SUFFICES ASSUME IInv, [Next]_vars PROVE IInv'
  OBVIOUS
<1>0. \A c \in Caller :
        pc[c] \in StartStep \cup RunStep \cup StopStep => job[c] \in Occurrence
  BY NoneAssumption DEF IInv, TypeOK, OneStart, Exclusive, OneStop, OneRun
<1> USE NoneAssumption DEF IInv, Goto, manager, runtime, occurrence, deployment, gateway,
        history
<1>1. ASSUME NEW c \in Caller, NEW o \in Occurrence, StartRefused(c, o)
      PROVE  IInv'
  <2> USE <1>1 DEF StartRefused, thread
  <2>1. TypeOK'
    BY <1>0 DEF TypeOK, PC, StartStep, RunStep, StopStep
  <2>2. OneStart'
    BY DEF TypeOK, OneStart, Exclusive, StartStep, RunStep, StopStep
  <2>3. Exclusive'
    BY DEF TypeOK, OneStart, Exclusive, OneStop, StartStep, RunStep, StopStep
  <2>4. OneStop'
    BY DEF TypeOK, OneStart, Exclusive, OneStop, StartStep, RunStep, StopStep
  <2>5. Retained'
    BY DEF TypeOK, OneStart, Exclusive, OneStop, Retained, StartStep, RunStep,
       StopStep
  <2>6. StartedOnce'
    BY DEF TypeOK, OneStart, StartedOnce, StartStep, RunStep, StopStep
  <2>7. Answered'
    BY DEF TypeOK, OneStart, Exclusive, OneStop, Retained, StartedOnce, Answered,
       StartStep, RunStep, StopStep
  <2>8. OneRun'
    BY DEF TypeOK, Exclusive, StartedOnce, OneRun, Unrun, Past, StartStep, RunStep,
       StopStep
  <2>9. Unrun'
    BY DEF TypeOK, OneStart, Exclusive, StartedOnce, OneRun, Unrun, Past, StartStep,
       RunStep, StopStep
  <2>10. Cancels'
    BY DEF TypeOK, Exclusive, OneRun, Unrun, Past, Cancels, StartStep, RunStep,
       StopStep
  <2>11. SuccessIsEvidenced'
    BY DEF TypeOK, OneRun, SuccessIsEvidenced, StartStep, RunStep, StopStep
  <2>12. FailedRunIsCancelled'
    BY DEF TypeOK, OneRun, Cancels, FailedRunIsCancelled, StartStep, RunStep,
       StopStep
  <2> QED BY <2>1, <2>2, <2>3, <2>4, <2>5, <2>6, <2>7, <2>8, <2>9, <2>10, <2>11,
     <2>12
<1>2. ASSUME NEW c \in Caller, NEW o \in Occurrence, Start(c, o)
      PROVE  IInv'
  <2> USE <1>2 DEF Start, Own, InUse
  <2>1. TypeOK'
    BY <1>0 DEF TypeOK, PC, StartStep, RunStep, StopStep
  <2>2. OneStart'
    BY DEF TypeOK, OneStart, Exclusive, StartStep, RunStep, StopStep
  <2>3. Exclusive'
    BY DEF TypeOK, OneStart, Exclusive, OneStop, StartStep, RunStep, StopStep
  <2>4. OneStop'
    BY DEF TypeOK, OneStart, Exclusive, OneStop, StartStep, RunStep, StopStep
  <2>5. Retained'
    BY DEF TypeOK, OneStart, Exclusive, OneStop, Retained, StartStep, RunStep,
       StopStep
  <2>6. StartedOnce'
    BY DEF TypeOK, OneStart, StartedOnce, StartStep, RunStep, StopStep
  <2>7. Answered'
    BY DEF TypeOK, OneStart, Exclusive, OneStop, Retained, StartedOnce, Answered,
       StartStep, RunStep, StopStep
  <2>8. OneRun'
    BY DEF TypeOK, Exclusive, StartedOnce, OneRun, Unrun, Past, StartStep, RunStep,
       StopStep
  <2>9. Unrun'
    BY DEF TypeOK, OneStart, Exclusive, StartedOnce, OneRun, Unrun, Past, StartStep,
       RunStep, StopStep
  <2>10. Cancels'
    BY DEF TypeOK, Exclusive, OneRun, Unrun, Past, Cancels, StartStep, RunStep,
       StopStep
  <2>11. SuccessIsEvidenced'
    BY DEF TypeOK, OneRun, SuccessIsEvidenced, StartStep, RunStep, StopStep
  <2>12. FailedRunIsCancelled'
    BY DEF TypeOK, OneRun, Cancels, FailedRunIsCancelled, StartStep, RunStep,
       StopStep
  <2> QED BY <2>1, <2>2, <2>3, <2>4, <2>5, <2>6, <2>7, <2>8, <2>9, <2>10, <2>11,
     <2>12
<1>3. ASSUME NEW c \in Caller, Stage(c) \/ RuntimeArchive(c) \/ Prepare(c) \/ WaitReady(c)
      PROVE  IInv'
  <2> USE <1>3 DEF Stage, RuntimeArchive, Prepare, WaitReady, Tries
  <2>1. TypeOK'
    BY <1>0 DEF TypeOK, PC, StartStep, RunStep, StopStep
  <2>2. OneStart'
    BY DEF TypeOK, OneStart, Exclusive, StartStep, RunStep, StopStep
  <2>3. Exclusive'
    BY DEF TypeOK, OneStart, Exclusive, OneStop, StartStep, RunStep, StopStep
  <2>4. OneStop'
    BY DEF TypeOK, OneStart, Exclusive, OneStop, StartStep, RunStep, StopStep
  <2>5. Retained'
    BY DEF TypeOK, OneStart, Exclusive, OneStop, Retained, StartStep, RunStep,
       StopStep
  <2>6. StartedOnce'
    BY DEF TypeOK, OneStart, StartedOnce, StartStep, RunStep, StopStep
  <2>7. Answered'
    BY DEF TypeOK, OneStart, Exclusive, OneStop, Retained, StartedOnce, Answered,
       StartStep, RunStep, StopStep
  <2>8. OneRun'
    BY DEF TypeOK, Exclusive, StartedOnce, OneRun, Unrun, Past, StartStep, RunStep,
       StopStep
  <2>9. Unrun'
    BY DEF TypeOK, OneStart, Exclusive, StartedOnce, OneRun, Unrun, Past, StartStep,
       RunStep, StopStep
  <2>10. Cancels'
    BY DEF TypeOK, Exclusive, OneRun, Unrun, Past, Cancels, StartStep, RunStep,
       StopStep
  <2>11. SuccessIsEvidenced'
    BY DEF TypeOK, OneRun, SuccessIsEvidenced, StartStep, RunStep, StopStep
  <2>12. FailedRunIsCancelled'
    BY DEF TypeOK, OneRun, Cancels, FailedRunIsCancelled, StartStep, RunStep,
       StopStep
  <2> QED BY <2>1, <2>2, <2>3, <2>4, <2>5, <2>6, <2>7, <2>8, <2>9, <2>10, <2>11,
     <2>12
<1>4. ASSUME NEW c \in Caller, Create(c)
      PROVE  IInv'
  <2> USE <1>4 DEF Create, Kept
  <2>1. TypeOK'
    BY <1>0 DEF TypeOK, PC, StartStep, RunStep, StopStep
  <2>2. OneStart'
    BY DEF TypeOK, OneStart, Exclusive, StartStep, RunStep, StopStep
  <2>3. Exclusive'
    BY DEF TypeOK, OneStart, Exclusive, OneStop, StartStep, RunStep, StopStep
  <2>4. OneStop'
    BY DEF TypeOK, OneStart, Exclusive, OneStop, StartStep, RunStep, StopStep
  <2>5. Retained'
    BY DEF TypeOK, OneStart, Exclusive, OneStop, Retained, StartStep, RunStep,
       StopStep
  <2>6. StartedOnce'
    BY DEF TypeOK, OneStart, StartedOnce, StartStep, RunStep, StopStep
  <2>7. Answered'
    BY DEF TypeOK, OneStart, Exclusive, OneStop, Retained, StartedOnce, Answered,
       StartStep, RunStep, StopStep
  <2>8. OneRun'
    BY DEF TypeOK, Exclusive, StartedOnce, OneRun, Unrun, Past, StartStep, RunStep,
       StopStep
  <2>9. Unrun'
    BY DEF TypeOK, OneStart, Exclusive, StartedOnce, OneRun, Unrun, Past, StartStep,
       RunStep, StopStep
  <2>10. Cancels'
    BY DEF TypeOK, Exclusive, OneRun, Unrun, Past, Cancels, StartStep, RunStep,
       StopStep
  <2>11. SuccessIsEvidenced'
    BY DEF TypeOK, OneRun, SuccessIsEvidenced, StartStep, RunStep, StopStep
  <2>12. FailedRunIsCancelled'
    BY DEF TypeOK, OneRun, Cancels, FailedRunIsCancelled, StartStep, RunStep,
       StopStep
  <2> QED BY <2>1, <2>2, <2>3, <2>4, <2>5, <2>6, <2>7, <2>8, <2>9, <2>10, <2>11,
     <2>12
<1>5. ASSUME NEW c \in Caller, Publish(c)
      PROVE  IInv'
  <2> USE <1>5 DEF Publish, Return
  <2>1. TypeOK'
    BY <1>0 DEF TypeOK, PC, StartStep, RunStep, StopStep
  <2>2. OneStart'
    BY DEF TypeOK, OneStart, Exclusive, StartStep, RunStep, StopStep
  <2>3. Exclusive'
    BY DEF TypeOK, OneStart, Exclusive, OneStop, StartStep, RunStep, StopStep
  <2>4. OneStop'
    BY DEF TypeOK, OneStart, Exclusive, OneStop, StartStep, RunStep, StopStep
  <2>5. Retained'
    BY DEF TypeOK, OneStart, Exclusive, OneStop, Retained, StartStep, RunStep,
       StopStep
  <2>6. StartedOnce'
    BY DEF TypeOK, OneStart, StartedOnce, StartStep, RunStep, StopStep
  <2>7. Answered'
    BY DEF TypeOK, OneStart, Exclusive, OneStop, Retained, StartedOnce, Answered,
       StartStep, RunStep, StopStep
  <2>8. OneRun'
    BY DEF TypeOK, Exclusive, StartedOnce, OneRun, Unrun, Past, StartStep, RunStep,
       StopStep
  <2>9. Unrun'
    BY DEF TypeOK, OneStart, Exclusive, StartedOnce, OneRun, Unrun, Past, StartStep,
       RunStep, StopStep
  <2>10. Cancels'
    BY DEF TypeOK, Exclusive, OneRun, Unrun, Past, Cancels, StartStep, RunStep,
       StopStep
  <2>11. SuccessIsEvidenced'
    BY DEF TypeOK, OneRun, SuccessIsEvidenced, StartStep, RunStep, StopStep
  <2>12. FailedRunIsCancelled'
    BY DEF TypeOK, OneRun, Cancels, FailedRunIsCancelled, StartStep, RunStep,
       StopStep
  <2> QED BY <2>1, <2>2, <2>3, <2>4, <2>5, <2>6, <2>7, <2>8, <2>9, <2>10, <2>11,
     <2>12
<1>6. ASSUME NEW c \in Caller, Rollback(c)
      PROVE  IInv'
  <2> USE <1>6 DEF Rollback, Return, Removed, Cleared, Killed, NotRemoved
  <2>1. TypeOK'
    BY <1>0 DEF TypeOK, PC, StartStep, RunStep, StopStep
  <2>2. OneStart'
    BY DEF TypeOK, OneStart, Exclusive, StartStep, RunStep, StopStep
  <2>3. Exclusive'
    BY DEF TypeOK, OneStart, Exclusive, OneStop, StartStep, RunStep, StopStep
  <2>4. OneStop'
    BY DEF TypeOK, OneStart, Exclusive, OneStop, StartStep, RunStep, StopStep
  <2>5. Retained'
    BY DEF TypeOK, OneStart, Exclusive, OneStop, Retained, StartStep, RunStep,
       StopStep
  <2>6. StartedOnce'
    BY DEF TypeOK, OneStart, StartedOnce, StartStep, RunStep, StopStep
  <2>7. Answered'
    BY DEF TypeOK, OneStart, Exclusive, OneStop, Retained, StartedOnce, Answered,
       StartStep, RunStep, StopStep
  <2>8. OneRun'
    BY DEF TypeOK, Exclusive, StartedOnce, OneRun, Unrun, Past, StartStep, RunStep,
       StopStep
  <2>9. Unrun'
    BY DEF TypeOK, OneStart, Exclusive, StartedOnce, OneRun, Unrun, Past, StartStep,
       RunStep, StopStep
  <2>10. Cancels'
    BY DEF TypeOK, Exclusive, OneRun, Unrun, Past, Cancels, StartStep, RunStep,
       StopStep
  <2>11. SuccessIsEvidenced'
    BY DEF TypeOK, OneRun, SuccessIsEvidenced, StartStep, RunStep, StopStep
  <2>12. FailedRunIsCancelled'
    BY DEF TypeOK, OneRun, Cancels, FailedRunIsCancelled, StartStep, RunStep,
       StopStep
  <2> QED BY <2>1, <2>2, <2>3, <2>4, <2>5, <2>6, <2>7, <2>8, <2>9, <2>10, <2>11,
     <2>12
<1>7. ASSUME NEW c \in Caller, Run(c)
      PROVE  IInv'
  <2> USE <1>7 DEF Run, AdmitRun
  <2>1. TypeOK'
    BY <1>0 DEF TypeOK, PC, StartStep, RunStep, StopStep
  <2>2. OneStart'
    BY DEF TypeOK, OneStart, Exclusive, StartStep, RunStep, StopStep
  <2>3. Exclusive'
    BY DEF TypeOK, OneStart, Exclusive, OneStop, StartStep, RunStep, StopStep
  <2>4. OneStop'
    BY DEF TypeOK, OneStart, Exclusive, OneStop, StartStep, RunStep, StopStep
  <2>5. Retained'
    BY DEF TypeOK, OneStart, Exclusive, OneStop, Retained, StartStep, RunStep,
       StopStep
  <2>6. StartedOnce'
    BY DEF TypeOK, OneStart, StartedOnce, StartStep, RunStep, StopStep
  <2>7. Answered'
    BY DEF TypeOK, OneStart, Exclusive, OneStop, Retained, StartedOnce, Answered,
       StartStep, RunStep, StopStep
  <2>8. OneRun'
    BY DEF TypeOK, Exclusive, StartedOnce, OneRun, Unrun, Past, StartStep, RunStep,
       StopStep
  <2>9. Unrun'
    BY DEF TypeOK, OneStart, Exclusive, StartedOnce, OneRun, Unrun, Past, StartStep,
       RunStep, StopStep
  <2>10. Cancels'
    BY DEF TypeOK, Exclusive, OneRun, Unrun, Past, Cancels, StartStep, RunStep,
       StopStep
  <2>11. SuccessIsEvidenced'
    BY DEF TypeOK, OneRun, SuccessIsEvidenced, StartStep, RunStep, StopStep
  <2>12. FailedRunIsCancelled'
    BY DEF TypeOK, OneRun, Cancels, FailedRunIsCancelled, StartStep, RunStep,
       StopStep
  <2> QED BY <2>1, <2>2, <2>3, <2>4, <2>5, <2>6, <2>7, <2>8, <2>9, <2>10, <2>11,
     <2>12
<1>8. ASSUME NEW c \in Caller, \/ SynthesizeVoiceInstruction(c) \/ StageVoiceWAV(c)
             \/ TranscribeVoice(c)
      PROVE  IInv'
  <2> USE <1>8 DEF SynthesizeVoiceInstruction, StageVoiceWAV, TranscribeVoice, Steps
  <2>1. TypeOK'
    BY <1>0 DEF TypeOK, PC, StartStep, RunStep, StopStep
  <2>2. OneStart'
    BY DEF TypeOK, OneStart, Exclusive, StartStep, RunStep, StopStep
  <2>3. Exclusive'
    BY DEF TypeOK, OneStart, Exclusive, OneStop, StartStep, RunStep, StopStep
  <2>4. OneStop'
    BY DEF TypeOK, OneStart, Exclusive, OneStop, StartStep, RunStep, StopStep
  <2>5. Retained'
    BY DEF TypeOK, OneStart, Exclusive, OneStop, Retained, StartStep, RunStep,
       StopStep
  <2>6. StartedOnce'
    BY DEF TypeOK, OneStart, StartedOnce, StartStep, RunStep, StopStep
  <2>7. Answered'
    BY DEF TypeOK, OneStart, Exclusive, OneStop, Retained, StartedOnce, Answered,
       StartStep, RunStep, StopStep
  <2>8. OneRun'
    BY DEF TypeOK, Exclusive, StartedOnce, OneRun, Unrun, Past, StartStep, RunStep,
       StopStep
  <2>9. Unrun'
    BY DEF TypeOK, OneStart, Exclusive, StartedOnce, OneRun, Unrun, Past, StartStep,
       RunStep, StopStep
  <2>10. Cancels'
    BY DEF TypeOK, Exclusive, OneRun, Unrun, Past, Cancels, StartStep, RunStep,
       StopStep
  <2>11. SuccessIsEvidenced'
    BY DEF TypeOK, OneRun, SuccessIsEvidenced, StartStep, RunStep, StopStep
  <2>12. FailedRunIsCancelled'
    BY DEF TypeOK, OneRun, Cancels, FailedRunIsCancelled, StartStep, RunStep,
       StopStep
  <2> QED BY <2>1, <2>2, <2>3, <2>4, <2>5, <2>6, <2>7, <2>8, <2>9, <2>10, <2>11,
     <2>12
<1>9. ASSUME NEW c \in Caller, RunAborts(c)
      PROVE  IInv'
  <2> USE <1>9 DEF RunAborts, RunReturns, Return
  <2>1. TypeOK'
    BY <1>0 DEF TypeOK, PC, StartStep, RunStep, StopStep
  <2>2. OneStart'
    BY DEF TypeOK, OneStart, Exclusive, StartStep, RunStep, StopStep
  <2>3. Exclusive'
    BY DEF TypeOK, OneStart, Exclusive, OneStop, StartStep, RunStep, StopStep
  <2>4. OneStop'
    BY DEF TypeOK, OneStart, Exclusive, OneStop, StartStep, RunStep, StopStep
  <2>5. Retained'
    BY DEF TypeOK, OneStart, Exclusive, OneStop, Retained, StartStep, RunStep,
       StopStep
  <2>6. StartedOnce'
    BY DEF TypeOK, OneStart, StartedOnce, StartStep, RunStep, StopStep
  <2>7. Answered'
    BY DEF TypeOK, OneStart, Exclusive, OneStop, Retained, StartedOnce, Answered,
       StartStep, RunStep, StopStep
  <2>8. OneRun'
    BY DEF TypeOK, Exclusive, StartedOnce, OneRun, Unrun, Past, StartStep, RunStep,
       StopStep
  <2>9. Unrun'
    BY DEF TypeOK, OneStart, Exclusive, StartedOnce, OneRun, Unrun, Past, StartStep,
       RunStep, StopStep
  <2>10. Cancels'
    BY DEF TypeOK, Exclusive, OneRun, Unrun, Past, Cancels, StartStep, RunStep,
       StopStep
  <2>11. SuccessIsEvidenced'
    BY DEF TypeOK, OneRun, SuccessIsEvidenced, StartStep, RunStep, StopStep
  <2>12. FailedRunIsCancelled'
    BY DEF TypeOK, OneRun, Cancels, FailedRunIsCancelled, StartStep, RunStep,
       StopStep
  <2> QED BY <2>1, <2>2, <2>3, <2>4, <2>5, <2>6, <2>7, <2>8, <2>9, <2>10, <2>11,
     <2>12
<1>10. ASSUME NEW c \in Caller, RunBegins(c)
      PROVE  IInv'
  <2> USE <1>10 DEF RunBegins, Fail
  <2>1. TypeOK'
    <3>1. pc' \in [Caller -> PC]
      BY DEF TypeOK, PC, RunStep
    <3>2. failed' \in [Caller -> BOOLEAN]
      BY DEF TypeOK
    <3> QED BY <3>1, <3>2 DEF TypeOK
  <2>2. OneStart'
    BY DEF TypeOK, OneStart, Exclusive, StartStep, RunStep, StopStep
  <2>3. Exclusive'
    BY DEF TypeOK, OneStart, Exclusive, OneStop, StartStep, RunStep, StopStep
  <2>4. OneStop'
    BY DEF TypeOK, OneStart, Exclusive, OneStop, StartStep, RunStep, StopStep
  <2>5. Retained'
    BY DEF TypeOK, OneStart, Exclusive, OneStop, Retained, StartStep, RunStep,
       StopStep
  <2>6. StartedOnce'
    BY DEF TypeOK, OneStart, StartedOnce, StartStep, RunStep, StopStep
  <2>7. Answered'
    BY DEF TypeOK, OneStart, Exclusive, OneStop, Retained, StartedOnce, Answered,
       StartStep, RunStep, StopStep
  <2>8. OneRun'
    BY DEF TypeOK, Exclusive, StartedOnce, OneRun, Unrun, Past, StartStep, RunStep,
       StopStep
  <2>9. Unrun'
    BY DEF TypeOK, OneStart, Exclusive, StartedOnce, OneRun, Unrun, Past, StartStep,
       RunStep, StopStep
  <2>10. Cancels'
    BY DEF TypeOK, Exclusive, OneRun, Unrun, Past, Cancels, StartStep, RunStep,
       StopStep
  <2>11. SuccessIsEvidenced'
    BY DEF TypeOK, OneRun, SuccessIsEvidenced, StartStep, RunStep, StopStep
  <2>12. FailedRunIsCancelled'
    BY DEF TypeOK, OneRun, Cancels, FailedRunIsCancelled, StartStep, RunStep,
       StopStep
  <2> QED BY <2>1, <2>2, <2>3, <2>4, <2>5, <2>6, <2>7, <2>8, <2>9, <2>10, <2>11,
     <2>12
<1>11. ASSUME NEW c \in Caller, Submit(c)
      PROVE  IInv'
  <2> USE <1>11 DEF Submit, Fail, AfterError
  <2>1. TypeOK'
    <3>1. pc' \in [Caller -> PC]
      BY DEF TypeOK, PC, RunStep
    <3>2. failed' \in [Caller -> BOOLEAN]
      BY DEF TypeOK
    <3>3. agent' \in [Occurrence -> {"none", "running", "ended"}]
      BY DEF TypeOK
    <3> QED BY <3>1, <3>2, <3>3 DEF TypeOK
  <2>2. OneStart'
    BY DEF TypeOK, OneStart, Exclusive, StartStep, RunStep, StopStep
  <2>3. Exclusive'
    BY DEF TypeOK, OneStart, Exclusive, OneStop, StartStep, RunStep, StopStep
  <2>4. OneStop'
    BY DEF TypeOK, OneStart, Exclusive, OneStop, StartStep, RunStep, StopStep
  <2>5. Retained'
    BY DEF TypeOK, OneStart, Exclusive, OneStop, Retained, StartStep, RunStep,
       StopStep
  <2>6. StartedOnce'
    BY DEF TypeOK, OneStart, StartedOnce, StartStep, RunStep, StopStep
  <2>7. Answered'
    BY DEF TypeOK, OneStart, Exclusive, OneStop, Retained, StartedOnce, Answered,
       StartStep, RunStep, StopStep
  <2>8. OneRun'
    BY DEF TypeOK, Exclusive, StartedOnce, OneRun, Unrun, Past, StartStep, RunStep,
       StopStep
  <2>9. Unrun'
    BY DEF TypeOK, OneStart, Exclusive, StartedOnce, OneRun, Unrun, Past, StartStep,
       RunStep, StopStep
  <2>10. Cancels'
    BY DEF TypeOK, Exclusive, OneRun, Unrun, Past, Cancels, StartStep, RunStep,
       StopStep
  <2>11. SuccessIsEvidenced'
    BY DEF TypeOK, OneRun, SuccessIsEvidenced, StartStep, RunStep, StopStep
  <2>12. FailedRunIsCancelled'
    BY DEF TypeOK, OneRun, Cancels, FailedRunIsCancelled, StartStep, RunStep,
       StopStep
  <2> QED BY <2>1, <2>2, <2>3, <2>4, <2>5, <2>6, <2>7, <2>8, <2>9, <2>10, <2>11,
     <2>12
<1>12. ASSUME NEW c \in Caller, RunKnown(c)
      PROVE  IInv'
  <2> USE <1>12 DEF RunKnown
  <2>1. TypeOK'
    BY <1>0 DEF TypeOK, PC, StartStep, RunStep, StopStep
  <2>2. OneStart'
    BY DEF TypeOK, OneStart, Exclusive, StartStep, RunStep, StopStep
  <2>3. Exclusive'
    BY DEF TypeOK, OneStart, Exclusive, OneStop, StartStep, RunStep, StopStep
  <2>4. OneStop'
    BY DEF TypeOK, OneStart, Exclusive, OneStop, StartStep, RunStep, StopStep
  <2>5. Retained'
    BY DEF TypeOK, OneStart, Exclusive, OneStop, Retained, StartStep, RunStep,
       StopStep
  <2>6. StartedOnce'
    BY DEF TypeOK, OneStart, StartedOnce, StartStep, RunStep, StopStep
  <2>7. Answered'
    BY DEF TypeOK, OneStart, Exclusive, OneStop, Retained, StartedOnce, Answered,
       StartStep, RunStep, StopStep
  <2>8. OneRun'
    BY DEF TypeOK, Exclusive, StartedOnce, OneRun, Unrun, Past, StartStep, RunStep,
       StopStep
  <2>9. Unrun'
    BY DEF TypeOK, OneStart, Exclusive, StartedOnce, OneRun, Unrun, Past, StartStep,
       RunStep, StopStep
  <2>10. Cancels'
    BY DEF TypeOK, Exclusive, OneRun, Unrun, Past, Cancels, StartStep, RunStep,
       StopStep
  <2>11. SuccessIsEvidenced'
    BY DEF TypeOK, OneRun, SuccessIsEvidenced, StartStep, RunStep, StopStep
  <2>12. FailedRunIsCancelled'
    BY DEF TypeOK, OneRun, Cancels, FailedRunIsCancelled, StartStep, RunStep,
       StopStep
  <2> QED BY <2>1, <2>2, <2>3, <2>4, <2>5, <2>6, <2>7, <2>8, <2>9, <2>10, <2>11,
     <2>12
<1>13. ASSUME NEW c \in Caller, Poll(c)
      PROVE  IInv'
  <2> USE <1>13 DEF Poll, Fail, AfterError
  <2>1. TypeOK'
    <3>1. pc' \in [Caller -> PC]
      BY DEF TypeOK, PC, RunStep
    <3>2. failed' \in [Caller -> BOOLEAN]
      BY DEF TypeOK
    <3> QED BY <3>1, <3>2 DEF TypeOK
  <2>2. OneStart'
    BY DEF TypeOK, OneStart, Exclusive, StartStep, RunStep, StopStep
  <2>3. Exclusive'
    BY DEF TypeOK, OneStart, Exclusive, OneStop, StartStep, RunStep, StopStep
  <2>4. OneStop'
    BY DEF TypeOK, OneStart, Exclusive, OneStop, StartStep, RunStep, StopStep
  <2>5. Retained'
    BY DEF TypeOK, OneStart, Exclusive, OneStop, Retained, StartStep, RunStep,
       StopStep
  <2>6. StartedOnce'
    BY DEF TypeOK, OneStart, StartedOnce, StartStep, RunStep, StopStep
  <2>7. Answered'
    BY DEF TypeOK, OneStart, Exclusive, OneStop, Retained, StartedOnce, Answered,
       StartStep, RunStep, StopStep
  <2>8. OneRun'
    BY DEF TypeOK, Exclusive, StartedOnce, OneRun, Unrun, Past, StartStep, RunStep,
       StopStep
  <2>9. Unrun'
    BY DEF TypeOK, OneStart, Exclusive, StartedOnce, OneRun, Unrun, Past, StartStep,
       RunStep, StopStep
  <2>10. Cancels'
    BY DEF TypeOK, Exclusive, OneRun, Unrun, Past, Cancels, StartStep, RunStep,
       StopStep
  <2>11. SuccessIsEvidenced'
    BY DEF TypeOK, OneRun, SuccessIsEvidenced, StartStep, RunStep, StopStep
  <2>12. FailedRunIsCancelled'
    BY DEF TypeOK, OneRun, Cancels, FailedRunIsCancelled, StartStep, RunStep,
       StopStep
  <2> QED BY <2>1, <2>2, <2>3, <2>4, <2>5, <2>6, <2>7, <2>8, <2>9, <2>10, <2>11,
     <2>12
<1>14. ASSUME NEW c \in Caller, \/ CancelRun(c, "runCancel", "runRequest", "result")
             \/ CancelRun(c, "stopCancel", "stopRequest", "remove")
      PROVE  IInv'
  <2> USE <1>14 DEF CancelRun
  <2>1. TypeOK'
    BY <1>0 DEF TypeOK, PC, StartStep, RunStep, StopStep
  <2>2. OneStart'
    BY DEF TypeOK, OneStart, Exclusive, StartStep, RunStep, StopStep
  <2>3. Exclusive'
    BY DEF TypeOK, OneStart, Exclusive, OneStop, StartStep, RunStep, StopStep
  <2>4. OneStop'
    BY DEF TypeOK, OneStart, Exclusive, OneStop, StartStep, RunStep, StopStep
  <2>5. Retained'
    BY DEF TypeOK, OneStart, Exclusive, OneStop, Retained, StartStep, RunStep,
       StopStep
  <2>6. StartedOnce'
    BY DEF TypeOK, OneStart, StartedOnce, StartStep, RunStep, StopStep
  <2>7. Answered'
    BY DEF TypeOK, OneStart, Exclusive, OneStop, Retained, StartedOnce, Answered,
       StartStep, RunStep, StopStep
  <2>8. OneRun'
    BY DEF TypeOK, Exclusive, StartedOnce, OneRun, Unrun, Past, StartStep, RunStep,
       StopStep
  <2>9. Unrun'
    BY DEF TypeOK, OneStart, Exclusive, StartedOnce, OneRun, Unrun, Past, StartStep,
       RunStep, StopStep
  <2>10. Cancels'
    BY DEF TypeOK, Exclusive, OneRun, Unrun, Past, Cancels, StartStep, RunStep,
       StopStep
  <2>11. SuccessIsEvidenced'
    BY DEF TypeOK, OneRun, SuccessIsEvidenced, StartStep, RunStep, StopStep
  <2>12. FailedRunIsCancelled'
    BY DEF TypeOK, OneRun, Cancels, FailedRunIsCancelled, StartStep, RunStep,
       StopStep
  <2> QED BY <2>1, <2>2, <2>3, <2>4, <2>5, <2>6, <2>7, <2>8, <2>9, <2>10, <2>11,
     <2>12
<1>15. ASSUME NEW c \in Caller, \/ RequestStop(c, "runRequest", "result")
             \/ RequestStop(c, "stopRequest", "remove")
      PROVE  IInv'
  <2> USE <1>15 DEF RequestStop
  <2>1. TypeOK'
    BY <1>0 DEF TypeOK, PC, StartStep, RunStep, StopStep
  <2>2. OneStart'
    BY DEF TypeOK, OneStart, Exclusive, StartStep, RunStep, StopStep
  <2>3. Exclusive'
    BY DEF TypeOK, OneStart, Exclusive, OneStop, StartStep, RunStep, StopStep
  <2>4. OneStop'
    BY DEF TypeOK, OneStart, Exclusive, OneStop, StartStep, RunStep, StopStep
  <2>5. Retained'
    BY DEF TypeOK, OneStart, Exclusive, OneStop, Retained, StartStep, RunStep,
       StopStep
  <2>6. StartedOnce'
    BY DEF TypeOK, OneStart, StartedOnce, StartStep, RunStep, StopStep
  <2>7. Answered'
    BY DEF TypeOK, OneStart, Exclusive, OneStop, Retained, StartedOnce, Answered,
       StartStep, RunStep, StopStep
  <2>8. OneRun'
    BY DEF TypeOK, Exclusive, StartedOnce, OneRun, Unrun, Past, StartStep, RunStep,
       StopStep
  <2>9. Unrun'
    BY DEF TypeOK, OneStart, Exclusive, StartedOnce, OneRun, Unrun, Past, StartStep,
       RunStep, StopStep
  <2>10. Cancels'
    BY DEF TypeOK, Exclusive, OneRun, Unrun, Past, Cancels, StartStep, RunStep,
       StopStep
  <2>11. SuccessIsEvidenced'
    BY DEF TypeOK, OneRun, SuccessIsEvidenced, StartStep, RunStep, StopStep
  <2>12. FailedRunIsCancelled'
    BY DEF TypeOK, OneRun, Cancels, FailedRunIsCancelled, StartStep, RunStep,
       StopStep
  <2> QED BY <2>1, <2>2, <2>3, <2>4, <2>5, <2>6, <2>7, <2>8, <2>9, <2>10, <2>11,
     <2>12
<1>16. ASSUME NEW c \in Caller, WriteResult(c)
      PROVE  IInv'
  <2> USE <1>16 DEF WriteResult
  <2>1. TypeOK'
    BY <1>0 DEF TypeOK, PC, StartStep, RunStep, StopStep
  <2>2. OneStart'
    BY DEF TypeOK, OneStart, Exclusive, StartStep, RunStep, StopStep
  <2>3. Exclusive'
    BY DEF TypeOK, OneStart, Exclusive, OneStop, StartStep, RunStep, StopStep
  <2>4. OneStop'
    BY DEF TypeOK, OneStart, Exclusive, OneStop, StartStep, RunStep, StopStep
  <2>5. Retained'
    BY DEF TypeOK, OneStart, Exclusive, OneStop, Retained, StartStep, RunStep,
       StopStep
  <2>6. StartedOnce'
    BY DEF TypeOK, OneStart, StartedOnce, StartStep, RunStep, StopStep
  <2>7. Answered'
    BY DEF TypeOK, OneStart, Exclusive, OneStop, Retained, StartedOnce, Answered,
       StartStep, RunStep, StopStep
  <2>8. OneRun'
    BY DEF TypeOK, Exclusive, StartedOnce, OneRun, Unrun, Past, StartStep, RunStep,
       StopStep
  <2>9. Unrun'
    BY DEF TypeOK, OneStart, Exclusive, StartedOnce, OneRun, Unrun, Past, StartStep,
       RunStep, StopStep
  <2>10. Cancels'
    BY DEF TypeOK, Exclusive, OneRun, Unrun, Past, Cancels, StartStep, RunStep,
       StopStep
  <2>11. SuccessIsEvidenced'
    BY DEF TypeOK, OneRun, SuccessIsEvidenced, StartStep, RunStep, StopStep
  <2>12. FailedRunIsCancelled'
    BY DEF TypeOK, OneRun, Cancels, FailedRunIsCancelled, StartStep, RunStep,
       StopStep
  <2> QED BY <2>1, <2>2, <2>3, <2>4, <2>5, <2>6, <2>7, <2>8, <2>9, <2>10, <2>11,
     <2>12
<1>17. ASSUME NEW c \in Caller, VoiceResultFails(c)
      PROVE  IInv'
  <2> USE <1>17 DEF VoiceResultFails, RunReturns, Return
  <2>1. TypeOK'
    BY <1>0 DEF TypeOK, PC, StartStep, RunStep, StopStep
  <2>2. OneStart'
    BY DEF TypeOK, OneStart, Exclusive, StartStep, RunStep, StopStep
  <2>3. Exclusive'
    BY DEF TypeOK, OneStart, Exclusive, OneStop, StartStep, RunStep, StopStep
  <2>4. OneStop'
    BY DEF TypeOK, OneStart, Exclusive, OneStop, StartStep, RunStep, StopStep
  <2>5. Retained'
    BY DEF TypeOK, OneStart, Exclusive, OneStop, Retained, StartStep, RunStep,
       StopStep
  <2>6. StartedOnce'
    BY DEF TypeOK, OneStart, StartedOnce, StartStep, RunStep, StopStep
  <2>7. Answered'
    BY DEF TypeOK, OneStart, Exclusive, OneStop, Retained, StartedOnce, Answered,
       StartStep, RunStep, StopStep
  <2>8. OneRun'
    BY DEF TypeOK, Exclusive, StartedOnce, OneRun, Unrun, Past, StartStep, RunStep,
       StopStep
  <2>9. Unrun'
    BY DEF TypeOK, OneStart, Exclusive, StartedOnce, OneRun, Unrun, Past, StartStep,
       RunStep, StopStep
  <2>10. Cancels'
    BY DEF TypeOK, Exclusive, OneRun, Unrun, Past, Cancels, StartStep, RunStep,
       StopStep
  <2>11. SuccessIsEvidenced'
    BY DEF TypeOK, OneRun, SuccessIsEvidenced, StartStep, RunStep, StopStep
  <2>12. FailedRunIsCancelled'
    BY DEF TypeOK, OneRun, Cancels, FailedRunIsCancelled, StartStep, RunStep,
       StopStep
  <2> QED BY <2>1, <2>2, <2>3, <2>4, <2>5, <2>6, <2>7, <2>8, <2>9, <2>10, <2>11,
     <2>12
<1>18. ASSUME NEW c \in Caller, CollectLogs(c) \/ CollectTelemetry(c) \/ CollectSpans(c)
      PROVE  IInv'
  <2>a. /\ pc[c] \in {"logs", "telemetry", "spans"}
        /\ pc' \in {[pc EXCEPT ![c] = p] : p \in {"telemetry", "spans", "return"}}
        /\ UNCHANGED job
    BY <1>18 DEF CollectLogs, CollectTelemetry, CollectSpans, Collects
  <2>b. /\ missed' \in {[missed EXCEPT ![c] = @ \/ ~Readable(job[c])],
                        [missed EXCEPT ![c] = TRUE]}
        /\ lost' = IF job[c] \in exists THEN lost ELSE lost \cup {job[c]}
    BY <1>18 DEF CollectLogs, CollectTelemetry, CollectSpans, Collects
  <2>c. /\ missed' \in [Caller -> BOOLEAN]
        /\ \A d \in Caller : missed[d] => missed'[d]
        /\ job[c] \notin exists => missed'[c]
    BY <2>b DEF TypeOK, Readable
  <2> USE <1>18 DEF CollectLogs, CollectTelemetry, CollectSpans, Collects, Readable
  <2>1. TypeOK'
    <3>1. pc' \in [Caller -> PC]
      BY <2>a DEF TypeOK, PC, RunStep
    <3>2. lost' \subseteq Occurrence
      BY <1>0, <2>a, <2>b DEF TypeOK, RunStep
    <3> QED BY <2>c, <3>1, <3>2 DEF TypeOK
  <2>2. OneStart'
    BY DEF TypeOK, OneStart, Exclusive, StartStep, RunStep, StopStep
  <2>3. Exclusive'
    BY DEF TypeOK, OneStart, Exclusive, OneStop, StartStep, RunStep, StopStep
  <2>4. OneStop'
    BY DEF TypeOK, OneStart, Exclusive, OneStop, StartStep, RunStep, StopStep
  <2>5. Retained'
    BY DEF TypeOK, OneStart, Exclusive, OneStop, Retained, StartStep, RunStep,
       StopStep
  <2>6. StartedOnce'
    BY DEF TypeOK, OneStart, StartedOnce, StartStep, RunStep, StopStep
  <2>7. Answered'
    BY DEF TypeOK, OneStart, Exclusive, OneStop, Retained, StartedOnce, Answered,
       StartStep, RunStep, StopStep
  <2>8. OneRun'
    <3>1. \A d \in Caller : pc'[d] \in RunStep <=> pc[d] \in RunStep
      BY <2>a DEF TypeOK, RunStep
    <3>2. \A d \in Caller : job[d] \in lost' /\ pc[d] \in RunStep => missed'[d]
      BY <2>a, <2>b, <2>c DEF OneRun, RunStep
    <3>3. UNCHANGED <<job, owned, succeeded, runFailed>>
      OBVIOUS
    <3> QED BY <3>1, <3>2, <3>3 DEF OneRun
  <2>9. Unrun'
    BY DEF TypeOK, OneStart, Exclusive, StartedOnce, OneRun, Unrun, Past, StartStep,
       RunStep, StopStep
  <2>10. Cancels'
    BY DEF TypeOK, Exclusive, OneRun, Unrun, Past, Cancels, StartStep, RunStep,
       StopStep
  <2>11. SuccessIsEvidenced'
    BY DEF TypeOK, OneRun, SuccessIsEvidenced, StartStep, RunStep, StopStep
  <2>12. FailedRunIsCancelled'
    BY DEF TypeOK, OneRun, Cancels, FailedRunIsCancelled, StartStep, RunStep,
       StopStep
  <2> QED BY <2>1, <2>2, <2>3, <2>4, <2>5, <2>6, <2>7, <2>8, <2>9, <2>10, <2>11,
     <2>12
<1>19. ASSUME NEW c \in Caller, RunEnds(c)
      PROVE  IInv'
  <2> USE <1>19 DEF RunEnds, RunReturns, Return
  <2>1. TypeOK'
    BY <1>0 DEF TypeOK, PC, StartStep, RunStep, StopStep
  <2>2. OneStart'
    BY DEF TypeOK, OneStart, Exclusive, StartStep, RunStep, StopStep
  <2>3. Exclusive'
    BY DEF TypeOK, OneStart, Exclusive, OneStop, StartStep, RunStep, StopStep
  <2>4. OneStop'
    BY DEF TypeOK, OneStart, Exclusive, OneStop, StartStep, RunStep, StopStep
  <2>5. Retained'
    BY DEF TypeOK, OneStart, Exclusive, OneStop, Retained, StartStep, RunStep,
       StopStep
  <2>6. StartedOnce'
    BY DEF TypeOK, OneStart, StartedOnce, StartStep, RunStep, StopStep
  <2>7. Answered'
    BY DEF TypeOK, OneStart, Exclusive, OneStop, Retained, StartedOnce, Answered,
       StartStep, RunStep, StopStep
  <2>8. OneRun'
    BY DEF TypeOK, Exclusive, StartedOnce, OneRun, Unrun, Past, StartStep, RunStep,
       StopStep
  <2>9. Unrun'
    BY DEF TypeOK, OneStart, Exclusive, StartedOnce, OneRun, Unrun, Past, StartStep,
       RunStep, StopStep
  <2>10. Cancels'
    BY DEF TypeOK, Exclusive, OneRun, Unrun, Past, Cancels, StartStep, RunStep,
       StopStep
  <2>11. SuccessIsEvidenced'
    BY DEF TypeOK, OneRun, SuccessIsEvidenced, StartStep, RunStep, StopStep
  <2>12. FailedRunIsCancelled'
    BY DEF TypeOK, OneRun, Cancels, FailedRunIsCancelled, StartStep, RunStep,
       StopStep
  <2> QED BY <2>1, <2>2, <2>3, <2>4, <2>5, <2>6, <2>7, <2>8, <2>9, <2>10, <2>11,
     <2>12
<1>20. ASSUME NEW o \in Occurrence, AgentEnds(o)
      PROVE  IInv'
  <2> USE <1>20 DEF AgentEnds, thread
  <2>1. TypeOK'
    BY <1>0 DEF TypeOK, PC, StartStep, RunStep, StopStep
  <2>2. OneStart'
    BY DEF TypeOK, OneStart, Exclusive, StartStep, RunStep, StopStep
  <2>3. Exclusive'
    BY DEF TypeOK, OneStart, Exclusive, OneStop, StartStep, RunStep, StopStep
  <2>4. OneStop'
    BY DEF TypeOK, OneStart, Exclusive, OneStop, StartStep, RunStep, StopStep
  <2>5. Retained'
    BY DEF TypeOK, OneStart, Exclusive, OneStop, Retained, StartStep, RunStep,
       StopStep
  <2>6. StartedOnce'
    BY DEF TypeOK, OneStart, StartedOnce, StartStep, RunStep, StopStep
  <2>7. Answered'
    BY DEF TypeOK, OneStart, Exclusive, OneStop, Retained, StartedOnce, Answered,
       StartStep, RunStep, StopStep
  <2>8. OneRun'
    BY DEF TypeOK, Exclusive, StartedOnce, OneRun, Unrun, Past, StartStep, RunStep,
       StopStep
  <2>9. Unrun'
    BY DEF TypeOK, OneStart, Exclusive, StartedOnce, OneRun, Unrun, Past, StartStep,
       RunStep, StopStep
  <2>10. Cancels'
    BY DEF TypeOK, Exclusive, OneRun, Unrun, Past, Cancels, StartStep, RunStep,
       StopStep
  <2>11. SuccessIsEvidenced'
    BY DEF TypeOK, OneRun, SuccessIsEvidenced, StartStep, RunStep, StopStep
  <2>12. FailedRunIsCancelled'
    BY DEF TypeOK, OneRun, Cancels, FailedRunIsCancelled, StartStep, RunStep,
       StopStep
  <2> QED BY <2>1, <2>2, <2>3, <2>4, <2>5, <2>6, <2>7, <2>8, <2>9, <2>10, <2>11,
     <2>12
<1>21. ASSUME NEW c \in Caller, Stop(c)
      PROVE  IInv'
  <2> USE <1>21 DEF Stop, BeginStop, Join
  <2>1. TypeOK'
    <3>1. pc' \in [Caller -> PC]
      BY DEF TypeOK, PC, StopStep
    <3>2. job' \in [Caller -> Occurrence \cup {None}]
      BY DEF TypeOK
    <3>3. asked' \in [Caller -> SUBSET Occurrence]
      BY DEF TypeOK
    <3>4. gone' \subseteq Occurrence /\ running' \in BOOLEAN /\ attemptErr' \in BOOLEAN
      BY DEF TypeOK
    <3> QED BY <3>1, <3>2, <3>3, <3>4 DEF TypeOK
  <2>2. OneStart'
    BY DEF TypeOK, OneStart, Exclusive, StartStep, RunStep, StopStep
  <2>3. Exclusive'
    BY DEF TypeOK, OneStart, Exclusive, OneStop, StartStep, RunStep, StopStep
  <2>4. OneStop'
    BY DEF TypeOK, OneStart, Exclusive, OneStop, StartStep, RunStep, StopStep
  <2>5. Retained'
    BY DEF TypeOK, OneStart, Exclusive, OneStop, Retained, StartStep, RunStep,
       StopStep
  <2>6. StartedOnce'
    BY DEF TypeOK, OneStart, StartedOnce, StartStep, RunStep, StopStep
  <2>7. Answered'
    BY DEF TypeOK, OneStart, Exclusive, OneStop, Retained, StartedOnce, Answered,
       StartStep, RunStep, StopStep
  <2>8. OneRun'
    BY DEF TypeOK, Exclusive, StartedOnce, OneRun, Unrun, Past, StartStep, RunStep,
       StopStep
  <2>9. Unrun'
    BY DEF TypeOK, OneStart, Exclusive, StartedOnce, OneRun, Unrun, Past, StartStep,
       RunStep, StopStep
  <2>10. Cancels'
    BY DEF TypeOK, Exclusive, OneRun, Unrun, Past, Cancels, StartStep, RunStep,
       StopStep
  <2>11. SuccessIsEvidenced'
    BY DEF TypeOK, OneRun, SuccessIsEvidenced, StartStep, RunStep, StopStep
  <2>12. FailedRunIsCancelled'
    BY DEF TypeOK, OneRun, Cancels, FailedRunIsCancelled, StartStep, RunStep,
       StopStep
  <2> QED BY <2>1, <2>2, <2>3, <2>4, <2>5, <2>6, <2>7, <2>8, <2>9, <2>10, <2>11,
     <2>12
<1>22. ASSUME NEW c \in Caller, StopRemove(c)
      PROVE  IInv'
  <2> USE <1>22 DEF StopRemove, Removed, Cleared, Killed, NotRemoved
  <2>1. TypeOK'
    <3>1. pc' \in [Caller -> PC]
      BY DEF TypeOK, PC, StopStep
    <3>2. failed' \in [Caller -> BOOLEAN]
      BY DEF TypeOK
    <3>3. agent' \in [Occurrence -> {"none", "running", "ended"}]
      <4>1. job[c] \in Occurrence
        BY <1>0 DEF StopStep
      <4>2. Killed(job[c]) \in [Occurrence -> {"none", "running", "ended"}]
        BY <4>1 DEF TypeOK
      <4>3. agent' \in {agent, Killed(job[c])}
        OBVIOUS
      <4> QED BY <4>2, <4>3 DEF TypeOK
    <3>4. /\ exists' \subseteq Occurrence /\ id' \subseteq Occurrence
          /\ creds' \subseteq Occurrence
      BY DEF TypeOK
    <3> QED BY <3>1, <3>2, <3>3, <3>4 DEF TypeOK
  <2>2. OneStart'
    BY DEF TypeOK, OneStart, Exclusive, StartStep, RunStep, StopStep
  <2>3. Exclusive'
    BY DEF TypeOK, OneStart, Exclusive, OneStop, StartStep, RunStep, StopStep
  <2>4. OneStop'
    BY DEF TypeOK, OneStart, Exclusive, OneStop, StartStep, RunStep, StopStep
  <2>5. Retained'
    BY DEF TypeOK, OneStart, Exclusive, OneStop, Retained, StartStep, RunStep,
       StopStep
  <2>6. StartedOnce'
    BY DEF TypeOK, OneStart, StartedOnce, StartStep, RunStep, StopStep
  <2>7. Answered'
    BY DEF TypeOK, OneStart, Exclusive, OneStop, Retained, StartedOnce, Answered,
       StartStep, RunStep, StopStep
  <2>8. OneRun'
    BY DEF TypeOK, Exclusive, StartedOnce, OneRun, Unrun, Past, StartStep, RunStep,
       StopStep
  <2>9. Unrun'
    BY DEF TypeOK, OneStart, Exclusive, StartedOnce, OneRun, Unrun, Past, StartStep,
       RunStep, StopStep
  <2>10. Cancels'
    BY DEF TypeOK, Exclusive, OneRun, Unrun, Past, Cancels, StartStep, RunStep,
       StopStep
  <2>11. SuccessIsEvidenced'
    BY DEF TypeOK, OneRun, SuccessIsEvidenced, StartStep, RunStep, StopStep
  <2>12. FailedRunIsCancelled'
    BY DEF TypeOK, OneRun, Cancels, FailedRunIsCancelled, StartStep, RunStep,
       StopStep
  <2> QED BY <2>1, <2>2, <2>3, <2>4, <2>5, <2>6, <2>7, <2>8, <2>9, <2>10, <2>11,
     <2>12
<1>23. ASSUME NEW c \in Caller, Finish(c)
      PROVE  IInv'
  <2> USE <1>23 DEF Finish, Return, Released, Wakes
  <2>1. TypeOK'
    BY <1>0 DEF TypeOK, PC, StartStep, RunStep, StopStep
  <2>2. OneStart'
    BY DEF TypeOK, OneStart, Exclusive, StartStep, RunStep, StopStep
  <2>3. Exclusive'
    BY DEF TypeOK, OneStart, Exclusive, OneStop, StartStep, RunStep, StopStep
  <2>4. OneStop'
    BY DEF TypeOK, OneStart, Exclusive, OneStop, StartStep, RunStep, StopStep
  <2>5. Retained'
    BY DEF TypeOK, OneStart, Exclusive, OneStop, Retained, StartStep, RunStep,
       StopStep
  <2>6. StartedOnce'
    BY DEF TypeOK, OneStart, StartedOnce, StartStep, RunStep, StopStep
  <2>7. Answered'
    BY DEF TypeOK, OneStart, Exclusive, OneStop, Retained, StartedOnce, Answered,
       StartStep, RunStep, StopStep
  <2>8. OneRun'
    BY DEF TypeOK, Exclusive, StartedOnce, OneRun, Unrun, Past, StartStep, RunStep,
       StopStep
  <2>9. Unrun'
    BY DEF TypeOK, OneStart, Exclusive, StartedOnce, OneRun, Unrun, Past, StartStep,
       RunStep, StopStep
  <2>10. Cancels'
    BY DEF TypeOK, Exclusive, OneRun, Unrun, Past, Cancels, StartStep, RunStep,
       StopStep
  <2>11. SuccessIsEvidenced'
    BY DEF TypeOK, OneRun, SuccessIsEvidenced, StartStep, RunStep, StopStep
  <2>12. FailedRunIsCancelled'
    BY DEF TypeOK, OneRun, Cancels, FailedRunIsCancelled, StartStep, RunStep,
       StopStep
  <2> QED BY <2>1, <2>2, <2>3, <2>4, <2>5, <2>6, <2>7, <2>8, <2>9, <2>10, <2>11,
     <2>12
<1>24. ASSUME NEW c \in Caller, StopJoined(c)
      PROVE  IInv'
  <2> USE <1>24 DEF StopJoined, Outcome
  <2>1. TypeOK'
    BY <1>0 DEF TypeOK, PC, StartStep, RunStep, StopStep
  <2>2. OneStart'
    BY DEF TypeOK, OneStart, Exclusive, StartStep, RunStep, StopStep
  <2>3. Exclusive'
    BY DEF TypeOK, OneStart, Exclusive, OneStop, StartStep, RunStep, StopStep
  <2>4. OneStop'
    BY DEF TypeOK, OneStart, Exclusive, OneStop, StartStep, RunStep, StopStep
  <2>5. Retained'
    BY DEF TypeOK, OneStart, Exclusive, OneStop, Retained, StartStep, RunStep,
       StopStep
  <2>6. StartedOnce'
    BY DEF TypeOK, OneStart, StartedOnce, StartStep, RunStep, StopStep
  <2>7. Answered'
    BY DEF TypeOK, OneStart, Exclusive, OneStop, Retained, StartedOnce, Answered,
       StartStep, RunStep, StopStep
  <2>8. OneRun'
    BY DEF TypeOK, Exclusive, StartedOnce, OneRun, Unrun, Past, StartStep, RunStep,
       StopStep
  <2>9. Unrun'
    BY DEF TypeOK, OneStart, Exclusive, StartedOnce, OneRun, Unrun, Past, StartStep,
       RunStep, StopStep
  <2>10. Cancels'
    BY DEF TypeOK, Exclusive, OneRun, Unrun, Past, Cancels, StartStep, RunStep,
       StopStep
  <2>11. SuccessIsEvidenced'
    BY DEF TypeOK, OneRun, SuccessIsEvidenced, StartStep, RunStep, StopStep
  <2>12. FailedRunIsCancelled'
    BY DEF TypeOK, OneRun, Cancels, FailedRunIsCancelled, StartStep, RunStep,
       StopStep
  <2> QED BY <2>1, <2>2, <2>3, <2>4, <2>5, <2>6, <2>7, <2>8, <2>9, <2>10, <2>11,
     <2>12
<1>25. ASSUME NEW c \in Caller, StopGivesUp(c)
      PROVE  IInv'
  <2> USE <1>25 DEF StopGivesUp
  <2>1. TypeOK'
    BY <1>0 DEF TypeOK, PC, StartStep, RunStep, StopStep
  <2>2. OneStart'
    BY DEF TypeOK, OneStart, Exclusive, StartStep, RunStep, StopStep
  <2>3. Exclusive'
    BY DEF TypeOK, OneStart, Exclusive, OneStop, StartStep, RunStep, StopStep
  <2>4. OneStop'
    BY DEF TypeOK, OneStart, Exclusive, OneStop, StartStep, RunStep, StopStep
  <2>5. Retained'
    BY DEF TypeOK, OneStart, Exclusive, OneStop, Retained, StartStep, RunStep,
       StopStep
  <2>6. StartedOnce'
    BY DEF TypeOK, OneStart, StartedOnce, StartStep, RunStep, StopStep
  <2>7. Answered'
    BY DEF TypeOK, OneStart, Exclusive, OneStop, Retained, StartedOnce, Answered,
       StartStep, RunStep, StopStep
  <2>8. OneRun'
    BY DEF TypeOK, Exclusive, StartedOnce, OneRun, Unrun, Past, StartStep, RunStep,
       StopStep
  <2>9. Unrun'
    BY DEF TypeOK, OneStart, Exclusive, StartedOnce, OneRun, Unrun, Past, StartStep,
       RunStep, StopStep
  <2>10. Cancels'
    BY DEF TypeOK, Exclusive, OneRun, Unrun, Past, Cancels, StartStep, RunStep,
       StopStep
  <2>11. SuccessIsEvidenced'
    BY DEF TypeOK, OneRun, SuccessIsEvidenced, StartStep, RunStep, StopStep
  <2>12. FailedRunIsCancelled'
    BY DEF TypeOK, OneRun, Cancels, FailedRunIsCancelled, StartStep, RunStep,
       StopStep
  <2> QED BY <2>1, <2>2, <2>3, <2>4, <2>5, <2>6, <2>7, <2>8, <2>9, <2>10, <2>11,
     <2>12
<1>26. ASSUME UNCHANGED vars
      PROVE  IInv'
  <2> USE <1>26 DEF vars, thread
  <2>1. TypeOK'
    BY <1>0 DEF TypeOK, PC, StartStep, RunStep, StopStep
  <2>2. OneStart'
    BY DEF TypeOK, OneStart, Exclusive, StartStep, RunStep, StopStep
  <2>3. Exclusive'
    BY DEF TypeOK, OneStart, Exclusive, OneStop, StartStep, RunStep, StopStep
  <2>4. OneStop'
    BY DEF TypeOK, OneStart, Exclusive, OneStop, StartStep, RunStep, StopStep
  <2>5. Retained'
    BY DEF TypeOK, OneStart, Exclusive, OneStop, Retained, StartStep, RunStep,
       StopStep
  <2>6. StartedOnce'
    BY DEF TypeOK, OneStart, StartedOnce, StartStep, RunStep, StopStep
  <2>7. Answered'
    BY DEF TypeOK, OneStart, Exclusive, OneStop, Retained, StartedOnce, Answered,
       StartStep, RunStep, StopStep
  <2>8. OneRun'
    BY DEF TypeOK, Exclusive, StartedOnce, OneRun, Unrun, Past, StartStep, RunStep,
       StopStep
  <2>9. Unrun'
    BY DEF TypeOK, OneStart, Exclusive, StartedOnce, OneRun, Unrun, Past, StartStep,
       RunStep, StopStep
  <2>10. Cancels'
    BY DEF TypeOK, Exclusive, OneRun, Unrun, Past, Cancels, StartStep, RunStep,
       StopStep
  <2>11. SuccessIsEvidenced'
    BY DEF TypeOK, OneRun, SuccessIsEvidenced, StartStep, RunStep, StopStep
  <2>12. FailedRunIsCancelled'
    BY DEF TypeOK, OneRun, Cancels, FailedRunIsCancelled, StartStep, RunStep,
       StopStep
  <2> QED BY <2>1, <2>2, <2>3, <2>4, <2>5, <2>6, <2>7, <2>8, <2>9, <2>10, <2>11,
     <2>12
<1> QED BY <1>1, <1>2, <1>3, <1>4, <1>5, <1>6, <1>7, <1>8, <1>9, <1>10, <1>11,
   <1>12, <1>13, <1>14, <1>15, <1>16, <1>17, <1>18, <1>19, <1>20, <1>21, <1>22,
   <1>23, <1>24, <1>25, <1>26
  DEF Next, Step

(***************************************************************************)
(* A container that was reported to exist is never out of reach: the       *)
(* Runtime owns it, keeps its identity, and a Start at work or the next    *)
(* Stop removes it, after any failed Create, rollback or Stop.             *)
(***************************************************************************)
THEOREM Reachability == Spec => []AlwaysReachable
<1>1. IInv => AlwaysReachable
  <2> SUFFICES ASSUME IInv, NEW o \in exists \ unconfirmed
               PROVE  o \in id /\ active = o /\ (Starting(o) \/ published = o)
    BY DEF AlwaysReachable
  <2>1. o \in id /\ active = o
    BY DEF IInv, Retained
  <2>2. CASE mu = None
    BY <2>1, <2>2 DEF IInv, Exclusive
  <2>3. CASE mu # None
    BY <2>1, <2>3 DEF IInv, OneStart, Starting, TypeOK
  <2> QED BY <2>1, <2>2, <2>3
<1> QED BY <1>1, IInvInit, IInvNext, PTL DEF Spec

(***************************************************************************)
(* A Stop that returned nil, also one that joined another or came later,   *)
(* left neither a container nor credentials of what it was asked to stop.  *)
(***************************************************************************)
THEOREM NilConfirms == Spec => []NilMeansGone
<1>1. IInv => NilMeansGone
  BY DEF IInv, Retained, Answered, NilMeansGone
<1> QED BY <1>1, IInvInit, IInvNext, PTL DEF Spec

(***************************************************************************)
(* A successful Run collected all its evidence from a runtime that existed.*)
(***************************************************************************)
THEOREM Evidenced == Spec => []SuccessIsEvidenced
<1>1. IInv => SuccessIsEvidenced
  BY DEF IInv
<1> QED BY <1>1, IInvInit, IInvNext, PTL DEF Spec

(***************************************************************************)
(* The agent run of a failed Run of hermes has ended or was asked to stop, *)
(* wherever Stop's own cancellation fell.                                  *)
(***************************************************************************)
THEOREM Cancelled == Spec => []FailedRunIsCancelled
<1>1. IInv => FailedRunIsCancelled
  BY DEF IInv
<1> QED BY <1>1, IInvInit, IInvNext, PTL DEF Spec
=============================================================================
