----------------------- MODULE SandboxManager_proofs ------------------------
(***************************************************************************)
(* Proofs about the sandbox manager, for any sets of sandboxes and         *)
(* callers: nothing that exists is forgotten, and a nil Stop means gone.   *)
(* After them, the file procedures that reach a sandbox.                   *)
(***************************************************************************)
EXTENDS SandboxManager, FileCalls, TLAPS

USE CallerAssumption DEF Thread

\* A thread at work on its sandbox; the rest of a caller's phases.
Work == StartStep \cup StopStep
Removal == {"container", "environment", "end"}

-----------------------------------------------------------------------------
(* The inductive invariant *)

\* How the sets of the manager are nested.
Nesting ==
  /\ live \subseteq started /\ unconfirmed \subseteq started
  /\ pending \subseteq started \ live /\ closeTodo \subseteq pending
  /\ stopping \subseteq live \ stopped /\ stopErr \subseteq live
  /\ gone \subseteq stopped /\ stopped \subseteq live
  /\ live \cap unconfirmed = {}

\* A caller starts or rolls back a sandbox that nobody else knows of, or
\* stops one that it marked as stopping.
CallerJob(c) ==
  /\ pc[c] # "next"
  /\ pc[c] \in StartStep => job[c] \in started \ (live \cup pending \cup unconfirmed)
  /\ pc[c] \in StopStep => \/ job[c] \in stopping
                           \/ pc[c] # "logs" /\ job[c] \in started \ (live \cup pending)
  /\ pc[c] \in {"wait", "awake"} => job[c] \in live
  /\ pc[c] = "awake" => job[c] \in stopErr \cup stopped

\* Close works on pending sandboxes only.
CloseJob ==
  /\ pc["close"] \in {"idle", "next"} \cup Removal
  /\ pc["close"] \in Removal => job["close"] \in pending \ closeTodo

\* No two threads work on the same sandbox.
Exclusive ==
  \A c, d \in Thread :
    c # d /\ pc[c] \in Work /\ pc[d] \in Work => job[c] # job[d]

\* While Close runs, and after the transport is closed, no Start is under way.
Quiet ==
  pc["close"] # "idle" \/ closed =>
    \A c \in Caller : pc[c] \in Work => job[c] \in live

\* Close misses no rollback: what it has not met is still to do.
CloseExact ==
  /\ pc["close"] = "next" /\ ~closeErr => pending \subseteq closeTodo
  /\ pc["close"] \in Removal /\ ~closeErr =>
       pending \subseteq closeTodo \cup {job["close"]}
  /\ closed => pending = {}

\* What a thread at work knows of the parts of its sandbox.
Parts(c) ==
  /\ pc[c] \in {"startEnvironment", "create"} => owned[job[c]] = {"environment"}
  /\ pc[c] = "environment" /\ ~failed[c] => "container" \notin owned[job[c]]
  /\ pc[c] = "end" /\ ~failed[c] => owned[job[c]] = {}

Ownership ==
  /\ \A s \in Sandbox : s \notin started \/ s \in stopped => owned[s] = {}
  /\ NothingForgotten

IInv ==
  /\ TypeOK /\ Nesting /\ CloseJob /\ Exclusive /\ Quiet /\ CloseExact /\ Ownership
  /\ \A c \in Caller : CallerJob(c)
  /\ \A c \in Thread : Parts(c)
-----------------------------------------------------------------------------
(* Theorems *)

LEMMA IInvInit == Init => IInv
<1> SUFFICES ASSUME Init PROVE IInv
  OBVIOUS
<1>1. TypeOK
  BY DEF Init, TypeOK, PC, Part
<1>2. Nesting /\ CloseJob /\ Exclusive /\ Quiet /\ CloseExact
  BY DEF Init, Nesting, CloseJob, Exclusive, Quiet, CloseExact, Work, Removal,
     StartStep, StopStep
<1>3. Ownership /\ \A c \in Caller : CallerJob(c)
  BY DEF Init, Ownership, NothingForgotten, CallerJob, StartStep, StopStep
<1>4. \A c \in Thread : Parts(c)
  BY DEF Init, Parts
<1> QED BY <1>1, <1>2, <1>3, <1>4 DEF IInv

LEMMA IInvNext == IInv /\ [Next]_vars => IInv'
<1> SUFFICES ASSUME IInv, [Next]_vars PROVE IInv'
  OBVIOUS
<1> USE DEF IInv, TypeOK, sandbox, manager, Work, Removal, StartStep, StopStep
<1>1. ASSUME NEW c \in Caller, NEW s \in Sandbox, Start(c, s)
      PROVE  IInv'
  <2> USE <1>1 DEF Start, Enter, Goto
  <2>1. TypeOK'
    BY DEF PC, Part
  <2>2. Nesting'
    BY DEF Nesting, CallerJob, CloseJob, Parts
  <2>3. (CloseJob /\ Quiet)'
    BY DEF CloseJob, Quiet, CallerJob, Nesting
  <2>4. Exclusive'
    BY DEF Exclusive, CallerJob, CloseJob, Nesting, Quiet
  <2>5. CloseExact'
    BY DEF CloseExact, Nesting, Quiet, CloseJob, CallerJob
  <2>6. Ownership'
    BY DEF Ownership, NothingForgotten, Busy, Nesting, CallerJob, CloseJob,
       Exclusive, Parts, CloseExact, Part, Quiet
  <2>7. \A x \in Caller : CallerJob(x)'
    BY DEF CallerJob, Nesting, Exclusive, CloseJob, Quiet, Parts
  <2>8. \A x \in Thread : Parts(x)'
    BY DEF Parts, Exclusive, CallerJob, CloseJob, Part, Nesting, Ownership
  <2> QED BY <2>1, <2>2, <2>3, <2>4, <2>5, <2>6, <2>7, <2>8 DEF IInv
<1>2. ASSUME NEW c \in Caller, NEW s \in Sandbox, Stop(c, s)
      PROVE  IInv'
  <2> USE <1>2 DEF Stop, Join, Enter, StopOnce, Goto
  <2>1. TypeOK'
    <3>1. pc' \in [Thread -> PC]
      BY DEF PC
    <3>2. failed' \in [Thread -> BOOLEAN]
      OBVIOUS
    <3>3. job' \in [Thread -> Sandbox]
      OBVIOUS
    <3>4. owned' \in [Sandbox -> SUBSET Part] /\ exists' \in [Sandbox -> SUBSET Part]
      BY DEF Part
    <3> QED BY <3>1, <3>2, <3>3, <3>4
  <2>2. Nesting'
    BY DEF Nesting, CallerJob, CloseJob, Parts
  <2>3. (CloseJob /\ Quiet)'
    BY DEF CloseJob, Quiet, CallerJob, Nesting
  <2>4. Exclusive'
    BY DEF Exclusive, CallerJob, CloseJob, Nesting, Quiet
  <2>5. CloseExact'
    BY DEF CloseExact, Nesting, Quiet, CloseJob, CallerJob
  <2>6. Ownership'
    BY DEF Ownership, NothingForgotten, Busy, Nesting, CallerJob, CloseJob,
       Exclusive, Parts, CloseExact, Part, Quiet
  <2>7. \A x \in Caller : CallerJob(x)'
    BY DEF CallerJob, Nesting, Exclusive, CloseJob, Quiet, Parts
  <2>8. \A x \in Thread : Parts(x)'
    BY DEF Parts, Exclusive, CallerJob, CloseJob, Part, Nesting, Ownership
  <2> QED BY <2>1, <2>2, <2>3, <2>4, <2>5, <2>6, <2>7, <2>8 DEF IInv
<1>3. ASSUME NEW c \in Thread, StartEnvironment(c)
      PROVE  IInv'
  <2> USE <1>3 DEF StartEnvironment, StopOnce, Goto
  <2>1. TypeOK'
    <3>1. pc' \in [Thread -> PC]
      BY DEF PC
    <3>2. failed' \in [Thread -> BOOLEAN]
      OBVIOUS
    <3>3. job' \in [Thread -> Sandbox]
      OBVIOUS
    <3>4. owned' \in [Sandbox -> SUBSET Part] /\ exists' \in [Sandbox -> SUBSET Part]
      BY DEF Part
    <3> QED BY <3>1, <3>2, <3>3, <3>4
  <2>2. Nesting'
    BY DEF Nesting, CallerJob, CloseJob, Parts
  <2>3. (CloseJob /\ Quiet)'
    BY DEF CloseJob, Quiet, CallerJob, Nesting
  <2>4. Exclusive'
    BY DEF Exclusive, CallerJob, CloseJob, Nesting, Quiet
  <2>5. CloseExact'
    BY DEF CloseExact, Nesting, Quiet, CloseJob, CallerJob
  <2>6. Ownership'
    BY DEF Ownership, NothingForgotten, Busy, Nesting, CallerJob, CloseJob,
       Exclusive, Parts, CloseExact, Part, Quiet
  <2>7. \A x \in Caller : CallerJob(x)'
    BY DEF CallerJob, Nesting, Exclusive, CloseJob, Quiet, Parts
  <2>8. \A x \in Thread : Parts(x)'
    BY DEF Parts, Exclusive, CallerJob, CloseJob, Part, Nesting, Ownership
  <2> QED BY <2>1, <2>2, <2>3, <2>4, <2>5, <2>6, <2>7, <2>8 DEF IInv
<1>4. ASSUME NEW c \in Thread, Create(c)
      PROVE  IInv'
  <2> USE <1>4 DEF Create, ContainerOwned, StopOnce, Goto
  <2>1. TypeOK'
    <3>1. pc' \in [Thread -> PC]
      BY DEF PC
    <3>2. failed' \in [Thread -> BOOLEAN]
      OBVIOUS
    <3>3. job' \in [Thread -> Sandbox]
      OBVIOUS
    <3>4. owned' \in [Sandbox -> SUBSET Part] /\ exists' \in [Sandbox -> SUBSET Part]
      BY DEF Part
    <3> QED BY <3>1, <3>2, <3>3, <3>4
  <2>2. Nesting'
    BY DEF Nesting, CallerJob, CloseJob, Parts
  <2>3. (CloseJob /\ Quiet)'
    BY DEF CloseJob, Quiet, CallerJob, Nesting
  <2>4. Exclusive'
    BY DEF Exclusive, CallerJob, CloseJob, Nesting, Quiet
  <2>5. CloseExact'
    BY DEF CloseExact, Nesting, Quiet, CloseJob, CallerJob
  <2>6. Ownership'
    BY DEF Ownership, NothingForgotten, Busy, Nesting, CallerJob, CloseJob,
       Exclusive, Parts, CloseExact, Part, Quiet
  <2>7. \A x \in Caller : CallerJob(x)'
    BY DEF CallerJob, Nesting, Exclusive, CloseJob, Quiet, Parts
  <2>8. \A x \in Thread : Parts(x)'
    BY DEF Parts, Exclusive, CallerJob, CloseJob, Part, Nesting, Ownership
  <2> QED BY <2>1, <2>2, <2>3, <2>4, <2>5, <2>6, <2>7, <2>8 DEF IInv
<1>5. ASSUME NEW c \in Thread, Confirm(c)
      PROVE  IInv'
  <2> USE <1>5 DEF Confirm, StopOnce, Goto
  <2>1. TypeOK'
    <3>1. pc' \in [Thread -> PC]
      BY DEF PC
    <3>2. failed' \in [Thread -> BOOLEAN]
      OBVIOUS
    <3>3. job' \in [Thread -> Sandbox]
      OBVIOUS
    <3>4. owned' \in [Sandbox -> SUBSET Part] /\ exists' \in [Sandbox -> SUBSET Part]
      BY DEF Part
    <3> QED BY <3>1, <3>2, <3>3, <3>4
  <2>2. Nesting'
    BY DEF Nesting, CallerJob, CloseJob, Parts
  <2>3. (CloseJob /\ Quiet)'
    BY DEF CloseJob, Quiet, CallerJob, Nesting
  <2>4. Exclusive'
    BY DEF Exclusive, CallerJob, CloseJob, Nesting, Quiet
  <2>5. CloseExact'
    BY DEF CloseExact, Nesting, Quiet, CloseJob, CallerJob
  <2>6. Ownership'
    BY DEF Ownership, NothingForgotten, Busy, Nesting, CallerJob, CloseJob,
       Exclusive, Parts, CloseExact, Part, Quiet
  <2>7. \A x \in Caller : CallerJob(x)'
    BY DEF CallerJob, Nesting, Exclusive, CloseJob, Quiet, Parts
  <2>8. \A x \in Thread : Parts(x)'
    BY DEF Parts, Exclusive, CallerJob, CloseJob, Part, Nesting, Ownership
  <2> QED BY <2>1, <2>2, <2>3, <2>4, <2>5, <2>6, <2>7, <2>8 DEF IInv
<1>6. ASSUME NEW c \in Thread, CollectLogs(c)
      PROVE  IInv'
  <2> USE <1>6 DEF CollectLogs, Goto
  <2>1. TypeOK'
    <3>1. pc' \in [Thread -> PC]
      BY DEF PC
    <3>2. failed' \in [Thread -> BOOLEAN]
      <4> DEFINE b == "container" \in owned[job[c]]
      <4>1. [failed EXCEPT ![c] = b] \in [Thread -> BOOLEAN]
        <5>1. b \in BOOLEAN
          OBVIOUS
        <5> HIDE DEF b
        <5> QED BY <5>1
      <4> QED BY <4>1
    <3>3. job' \in [Thread -> Sandbox]
      OBVIOUS
    <3>4. owned' \in [Sandbox -> SUBSET Part] /\ exists' \in [Sandbox -> SUBSET Part]
      BY DEF Part
    <3> QED BY <3>1, <3>2, <3>3, <3>4
  <2>2. Nesting'
    BY DEF Nesting, CallerJob, CloseJob, Parts
  <2>3. (CloseJob /\ Quiet)'
    BY DEF CloseJob, Quiet, CallerJob, Nesting
  <2>4. Exclusive'
    BY DEF Exclusive, CallerJob, CloseJob, Nesting, Quiet
  <2>5. CloseExact'
    BY DEF CloseExact, Nesting, Quiet, CloseJob, CallerJob
  <2>6. Ownership'
    BY DEF Ownership, NothingForgotten, Busy, Nesting, CallerJob, CloseJob,
       Exclusive, Parts, CloseExact, Part, Quiet
  <2>7. \A x \in Caller : CallerJob(x)'
    BY DEF CallerJob, Nesting, Exclusive, CloseJob, Quiet, Parts
  <2>8. \A x \in Thread : Parts(x)'
    BY DEF Parts, Exclusive, CallerJob, CloseJob, Part, Nesting, Ownership
  <2> QED BY <2>1, <2>2, <2>3, <2>4, <2>5, <2>6, <2>7, <2>8 DEF IInv
<1>7. ASSUME NEW c \in Thread, RemoveContainer(c)
      PROVE  IInv'
  <2> USE <1>7 DEF RemoveContainer, Remove, Goto
  <2>1. TypeOK'
    <3>1. pc' \in [Thread -> PC]
      BY DEF PC
    <3>2. failed' \in [Thread -> BOOLEAN]
      OBVIOUS
    <3>3. job' \in [Thread -> Sandbox]
      OBVIOUS
    <3>4. owned' \in [Sandbox -> SUBSET Part] /\ exists' \in [Sandbox -> SUBSET Part]
      BY DEF Part
    <3> QED BY <3>1, <3>2, <3>3, <3>4
  <2>2. Nesting'
    BY DEF Nesting, CallerJob, CloseJob, Parts
  <2>3. (CloseJob /\ Quiet)'
    BY DEF CloseJob, Quiet, CallerJob, Nesting
  <2>4. Exclusive'
    BY DEF Exclusive, CallerJob, CloseJob, Nesting, Quiet
  <2>5. CloseExact'
    BY DEF CloseExact, Nesting, Quiet, CloseJob, CallerJob
  <2>6. Ownership'
    BY DEF Ownership, NothingForgotten, Busy, Nesting, CallerJob, CloseJob,
       Exclusive, Parts, CloseExact, Part, Quiet
  <2>7. \A x \in Caller : CallerJob(x)'
    BY DEF CallerJob, Nesting, Exclusive, CloseJob, Quiet, Parts
  <2>8. \A x \in Thread : Parts(x)'
    BY DEF Parts, Exclusive, CallerJob, CloseJob, Part, Nesting, Ownership
  <2> QED BY <2>1, <2>2, <2>3, <2>4, <2>5, <2>6, <2>7, <2>8 DEF IInv
<1>8. ASSUME NEW c \in Thread, RemoveEnvironment(c)
      PROVE  IInv'
  <2> USE <1>8 DEF RemoveEnvironment, EnvironmentRemovable, Remove, Goto
  <2>1. TypeOK'
    <3>1. pc' \in [Thread -> PC]
      BY DEF PC
    <3>2. failed' \in [Thread -> BOOLEAN]
      OBVIOUS
    <3>3. job' \in [Thread -> Sandbox]
      OBVIOUS
    <3>4. owned' \in [Sandbox -> SUBSET Part] /\ exists' \in [Sandbox -> SUBSET Part]
      BY DEF Part
    <3> QED BY <3>1, <3>2, <3>3, <3>4
  <2>2. Nesting'
    BY DEF Nesting, CallerJob, CloseJob, Parts
  <2>3. (CloseJob /\ Quiet)'
    BY DEF CloseJob, Quiet, CallerJob, Nesting
  <2>4. Exclusive'
    BY DEF Exclusive, CallerJob, CloseJob, Nesting, Quiet
  <2>5. CloseExact'
    BY DEF CloseExact, Nesting, Quiet, CloseJob, CallerJob
  <2>6. Ownership'
    BY DEF Ownership, NothingForgotten, Busy, Nesting, CallerJob, CloseJob,
       Exclusive, Parts, CloseExact, Part, Quiet
  <2>7. \A x \in Caller : CallerJob(x)'
    BY DEF CallerJob, Nesting, Exclusive, CloseJob, Quiet, Parts
  <2>8. \A x \in Thread : Parts(x)'
    BY DEF Parts, Exclusive, CallerJob, CloseJob, Part, Nesting, Ownership
  <2> QED BY <2>1, <2>2, <2>3, <2>4, <2>5, <2>6, <2>7, <2>8 DEF IInv
<1>9. ASSUME NEW c \in Thread, StopEnd(c)
      PROVE  IInv'
  <2> USE <1>9 DEF StopEnd, StoppedNow, Wakes
  <2>1. TypeOK'
    BY DEF PC, Part
  <2>2. Nesting'
    BY DEF Nesting, CallerJob, CloseJob, Parts
  <2>3. (CloseJob /\ Quiet)'
    BY DEF CloseJob, Quiet, CallerJob, Nesting
  <2>4. Exclusive'
    BY DEF Exclusive, CallerJob, CloseJob, Nesting, Quiet
  <2>5. CloseExact'
    BY DEF CloseExact, Nesting, Quiet, CloseJob, CallerJob
  <2>6. Ownership'
    BY DEF Ownership, NothingForgotten, Busy, Nesting, CallerJob, CloseJob,
       Exclusive, Parts, CloseExact, Part, Quiet
  <2>7. \A x \in Caller : CallerJob(x)'
    BY DEF CallerJob, Nesting, Exclusive, CloseJob, Quiet, Parts
  <2>8. \A x \in Thread : Parts(x)'
    BY DEF Parts, Exclusive, CallerJob, CloseJob, Part, Nesting, Ownership
  <2> QED BY <2>1, <2>2, <2>3, <2>4, <2>5, <2>6, <2>7, <2>8 DEF IInv
<1>10. ASSUME NEW c \in Thread, RollbackEnd(c)
      PROVE  IInv'
  <2> USE <1>10 DEF RollbackEnd, PendingAfter, Goto
  <2>1. TypeOK'
    BY DEF PC, Part
  <2>2. Nesting'
    BY DEF Nesting, CallerJob, CloseJob, Parts
  <2>3. (CloseJob /\ Quiet)'
    BY DEF CloseJob, Quiet, CallerJob, Nesting
  <2>4. Exclusive'
    BY DEF Exclusive, CallerJob, CloseJob, Nesting, Quiet
  <2>5. CloseExact'
    BY DEF CloseExact, Nesting, Quiet, CloseJob, CallerJob
  <2>6. Ownership'
    BY DEF Ownership, NothingForgotten, Busy, Nesting, CallerJob, CloseJob,
       Exclusive, Parts, CloseExact, Part, Quiet
  <2>7. \A x \in Caller : CallerJob(x)'
    BY DEF CallerJob, Nesting, Exclusive, CloseJob, Quiet, Parts
  <2>8. \A x \in Thread : Parts(x)'
    BY DEF Parts, Exclusive, CallerJob, CloseJob, Part, Nesting, Ownership
  <2> QED BY <2>1, <2>2, <2>3, <2>4, <2>5, <2>6, <2>7, <2>8 DEF IInv
<1>11. ASSUME NEW c \in Thread, StopJoined(c)
      PROVE  IInv'
  <2> USE <1>11 DEF StopJoined, Goto
  <2>1. TypeOK'
    BY DEF PC, Part
  <2>2. Nesting'
    BY DEF Nesting, CallerJob, CloseJob, Parts
  <2>3. (CloseJob /\ Quiet)'
    BY DEF CloseJob, Quiet, CallerJob, Nesting
  <2>4. Exclusive'
    BY DEF Exclusive, CallerJob, CloseJob, Nesting, Quiet
  <2>5. CloseExact'
    BY DEF CloseExact, Nesting, Quiet, CloseJob, CallerJob
  <2>6. Ownership'
    BY DEF Ownership, NothingForgotten, Busy, Nesting, CallerJob, CloseJob,
       Exclusive, Parts, CloseExact, Part, Quiet
  <2>7. \A x \in Caller : CallerJob(x)'
    BY DEF CallerJob, Nesting, Exclusive, CloseJob, Quiet, Parts
  <2>8. \A x \in Thread : Parts(x)'
    BY DEF Parts, Exclusive, CallerJob, CloseJob, Part, Nesting, Ownership
  <2> QED BY <2>1, <2>2, <2>3, <2>4, <2>5, <2>6, <2>7, <2>8 DEF IInv
<1>12. ASSUME NEW c \in Thread, StopGivesUp(c)
      PROVE  IInv'
  <2> USE <1>12 DEF StopGivesUp, Goto
  <2>1. TypeOK'
    BY DEF PC, Part
  <2>2. Nesting'
    BY DEF Nesting, CallerJob, CloseJob, Parts
  <2>3. (CloseJob /\ Quiet)'
    BY DEF CloseJob, Quiet, CallerJob, Nesting
  <2>4. Exclusive'
    BY DEF Exclusive, CallerJob, CloseJob, Nesting, Quiet
  <2>5. CloseExact'
    BY DEF CloseExact, Nesting, Quiet, CloseJob, CallerJob
  <2>6. Ownership'
    BY DEF Ownership, NothingForgotten, Busy, Nesting, CallerJob, CloseJob,
       Exclusive, Parts, CloseExact, Part, Quiet
  <2>7. \A x \in Caller : CallerJob(x)'
    BY DEF CallerJob, Nesting, Exclusive, CloseJob, Quiet, Parts
  <2>8. \A x \in Thread : Parts(x)'
    BY DEF Parts, Exclusive, CallerJob, CloseJob, Part, Nesting, Ownership
  <2> QED BY <2>1, <2>2, <2>3, <2>4, <2>5, <2>6, <2>7, <2>8 DEF IInv
<1>13. ASSUME Close
      PROVE  IInv'
  <2> USE <1>13 DEF Close, Goto
  <2>1. TypeOK'
    BY DEF PC, Part
  <2>2. Nesting'
    BY DEF Nesting, CallerJob, CloseJob, Parts
  <2>3. (CloseJob /\ Quiet)'
    BY DEF CloseJob, Quiet, CallerJob, Nesting
  <2>4. Exclusive'
    BY DEF Exclusive, CallerJob, CloseJob, Nesting, Quiet
  <2>5. CloseExact'
    BY DEF CloseExact, Nesting, Quiet, CloseJob, CallerJob
  <2>6. Ownership'
    BY DEF Ownership, NothingForgotten, Busy, Nesting, CallerJob, CloseJob,
       Exclusive, Parts, CloseExact, Part, Quiet
  <2>7. \A x \in Caller : CallerJob(x)'
    BY DEF CallerJob, Nesting, Exclusive, CloseJob, Quiet, Parts
  <2>8. \A x \in Thread : Parts(x)'
    BY DEF Parts, Exclusive, CallerJob, CloseJob, Part, Nesting, Ownership
  <2> QED BY <2>1, <2>2, <2>3, <2>4, <2>5, <2>6, <2>7, <2>8 DEF IInv
<1>14. ASSUME CloseNext
      PROVE  IInv'
  <2> USE <1>14 DEF CloseNext, StopOnce, Goto
  <2>1. TypeOK'
    BY DEF PC, Part
  <2>2. Nesting'
    BY DEF Nesting, CallerJob, CloseJob, Parts
  <2>3. (CloseJob /\ Quiet)'
    BY DEF CloseJob, Quiet, CallerJob, Nesting
  <2>4. Exclusive'
    BY DEF Exclusive, CallerJob, CloseJob, Nesting, Quiet
  <2>5. CloseExact'
    BY DEF CloseExact, Nesting, Quiet, CloseJob, CallerJob
  <2>6. Ownership'
    BY DEF Ownership, NothingForgotten, Busy, Nesting, CallerJob, CloseJob,
       Exclusive, Parts, CloseExact, Part, Quiet
  <2>7. \A x \in Caller : CallerJob(x)'
    BY DEF CallerJob, Nesting, Exclusive, CloseJob, Quiet, Parts
  <2>8. \A x \in Thread : Parts(x)'
    BY DEF Parts, Exclusive, CallerJob, CloseJob, Part, Nesting, Ownership
  <2> QED BY <2>1, <2>2, <2>3, <2>4, <2>5, <2>6, <2>7, <2>8 DEF IInv
<1>15. ASSUME CloseStopped
      PROVE  IInv'
  <2> USE <1>15 DEF CloseStopped, Goto
  <2>1. TypeOK'
    BY DEF PC, Part
  <2>2. Nesting'
    BY DEF Nesting, CallerJob, CloseJob, Parts
  <2>3. (CloseJob /\ Quiet)'
    BY DEF CloseJob, Quiet, CallerJob, Nesting
  <2>4. Exclusive'
    BY DEF Exclusive, CallerJob, CloseJob, Nesting, Quiet
  <2>5. CloseExact'
    BY DEF CloseExact, Nesting, Quiet, CloseJob, CallerJob
  <2>6. Ownership'
    BY DEF Ownership, NothingForgotten, Busy, Nesting, CallerJob, CloseJob,
       Exclusive, Parts, CloseExact, Part, Quiet
  <2>7. \A x \in Caller : CallerJob(x)'
    BY DEF CallerJob, Nesting, Exclusive, CloseJob, Quiet, Parts
  <2>8. \A x \in Thread : Parts(x)'
    BY DEF Parts, Exclusive, CallerJob, CloseJob, Part, Nesting, Ownership
  <2> QED BY <2>1, <2>2, <2>3, <2>4, <2>5, <2>6, <2>7, <2>8 DEF IInv
<1>16. ASSUME CloseEnd
      PROVE  IInv'
  <2> USE <1>16 DEF CloseEnd, Closable, Goto
  <2>1. TypeOK'
    BY DEF PC, Part
  <2>2. Nesting'
    BY DEF Nesting, CallerJob, CloseJob, Parts
  <2>3. (CloseJob /\ Quiet)'
    BY DEF CloseJob, Quiet, CallerJob, Nesting
  <2>4. Exclusive'
    BY DEF Exclusive, CallerJob, CloseJob, Nesting, Quiet
  <2>5. CloseExact'
    BY DEF CloseExact, Nesting, Quiet, CloseJob, CallerJob
  <2>6. Ownership'
    BY DEF Ownership, NothingForgotten, Busy, Nesting, CallerJob, CloseJob,
       Exclusive, Parts, CloseExact, Part, Quiet
  <2>7. \A x \in Caller : CallerJob(x)'
    BY DEF CallerJob, Nesting, Exclusive, CloseJob, Quiet, Parts
  <2>8. \A x \in Thread : Parts(x)'
    BY DEF Parts, Exclusive, CallerJob, CloseJob, Part, Nesting, Ownership
  <2> QED BY <2>1, <2>2, <2>3, <2>4, <2>5, <2>6, <2>7, <2>8 DEF IInv
<1>17. ASSUME UNCHANGED vars
      PROVE  IInv'
  <2> USE <1>17 DEF vars
  <2>1. TypeOK'
    BY DEF PC, Part
  <2>2. Nesting'
    BY DEF Nesting, CallerJob, CloseJob, Parts
  <2>3. (CloseJob /\ Quiet)'
    BY DEF CloseJob, Quiet, CallerJob, Nesting
  <2>4. Exclusive'
    BY DEF Exclusive, CallerJob, CloseJob, Nesting, Quiet
  <2>5. CloseExact'
    BY DEF CloseExact, Nesting, Quiet, CloseJob, CallerJob
  <2>6. Ownership'
    BY DEF Ownership, NothingForgotten, Busy, Nesting, CallerJob, CloseJob,
       Exclusive, Parts, CloseExact, Part, Quiet
  <2>7. \A x \in Caller : CallerJob(x)'
    BY DEF CallerJob, Nesting, Exclusive, CloseJob, Quiet, Parts
  <2>8. \A x \in Thread : Parts(x)'
    BY DEF Parts, Exclusive, CallerJob, CloseJob, Part, Nesting, Ownership
  <2> QED BY <2>1, <2>2, <2>3, <2>4, <2>5, <2>6, <2>7, <2>8 DEF IInv
<1> QED BY <1>1, <1>2, <1>3, <1>4, <1>5, <1>6, <1>7, <1>8, <1>9, <1>10, <1>11,
   <1>12, <1>13, <1>14, <1>15, <1>16, <1>17
  DEF Next, Step, CloseStep

(***************************************************************************)
(* Manager and sandboxes keep every part that exists in somebody's hands:  *)
(* a failed Start, a failed rollback, joined stops and a failed Close lose *)
(* nothing.                                                                *)
(***************************************************************************)
THEOREM Remembered == Spec => []NothingForgotten
<1>1. IInv => NothingForgotten
  BY DEF IInv, Ownership
<1> QED BY <1>1, IInvInit, IInvNext, PTL DEF Spec

(***************************************************************************)
(* A nil error from Sandbox.Stop means that container and environment are  *)
(* gone and stay gone, whichever of several calls returned it.             *)
(***************************************************************************)
THEOREM NilConfirms == Spec => []NilMeansGone
<1>1. IInv => NilMeansGone
  BY DEF IInv, TypeOK, Nesting, Ownership, NothingForgotten, NilMeansGone
<1> QED BY <1>1, IInvInit, IInvNext, PTL DEF Spec

-----------------------------------------------------------------------------
(* The file procedures of the gRPC bridge (FileCalls), for any writes and  *)
(* reads of one path: it holds whole files only, and a write lands as it   *)
(* was recorded, never after its cancellation.                             *)

(***************************************************************************)
(* What a step may rely on.  A temporary file comes from a body that was   *)
(* received to its end, and Docker's is never cut short.  A call is        *)
(* recorded when it ends, no rename took or will take effect before one    *)
(* was asked for, and a write that was cancelled before stays cancelled    *)
(* and is past the decision for a rename.                                  *)
(***************************************************************************)
Received ==
  \A w \in Writer :
    /\ temp[w] # "none" => body[w] = "exact"
    /\ w \in landed => body[w] = "exact"
    /\ backend = "docker" => temp[w] # "part"

Untorn ==
  /\ file # "torn"
  /\ \A r \in Reader :
       /\ got[r] # "torn"
       /\ backend = "docker" /\ at[r] = "stream" => header[r] = got[r]

AllRecorded == \A c \in Call : audit[c] # "none" => at[c] = "done"

Renamed ==
  \A w \in Writer :
    /\ w \in landed \cup late => at[w] \in {"remove", "done"}
    /\ audit[w] = "rejected" => w \notin landed \cup late
    /\ audit[w] = "completed" => w \in landed

Doomed ==
  \A w \in doomed :
    /\ Cancelled(w) /\ w \notin landed \cup late
    /\ at[w] \notin {"none", "rename"}

FilesInv == FileTypeOK /\ Received /\ Untorn /\ AllRecorded /\ Renamed /\ Doomed

LEMMA FilesInit == FileInit => FilesInv
<1> SUFFICES ASSUME FileInit PROVE FilesInv
  OBVIOUS
<1>1. FileTypeOK
  BY DEF FileInit, FileTypeOK, Content, Call
<1> QED BY <1>1, CallAssumption DEF FileInit, FilesInv, Received, Untorn, AllRecorded,
   Renamed, Doomed, Call

(***************************************************************************)
(* Every step of the calls, their clients, the revocation and the runtime  *)
(* keeps the invariant.                                                    *)
(***************************************************************************)
LEMMA FilesNext == FilesInv /\ [FileNext]_fileVars => FilesInv'
<1> SUFFICES ASSUME FilesInv, [FileNext]_fileVars PROVE FilesInv'
  OBVIOUS
<1>0. /\ Writer \subseteq Call /\ Reader \subseteq Call /\ Writer \cap Reader = {}
      /\ "torn" \notin Writer
  BY CallAssumption DEF Call
<1> USE <1>0 DEF FilesInv, MoveTo, Finish, runtime, session,
   reads, calls
<1>1. ASSUME Revoke
      PROVE  FilesInv'
  <2> USE <1>1 DEF Revoke, Undecided
  <2>1. FileTypeOK'
    BY DEF FileTypeOK, Content
  <2>2. Received'
    BY DEF FileTypeOK, Received
  <2>3. Untorn'
    BY DEF FileTypeOK, Content, Untorn, Received
  <2>4. AllRecorded'
    BY DEF FileTypeOK, AllRecorded
  <2>5. Renamed'
    BY DEF FileTypeOK, Renamed, AllRecorded
  <2>6. Doomed'
    BY DEF FileTypeOK, Doomed, Renamed, Cancelled
  <2> QED BY <2>1, <2>2, <2>3, <2>4, <2>5, <2>6
<1>2. ASSUME RuntimeRemoved
      PROVE  FilesInv'
  <2> USE <1>2 DEF RuntimeRemoved
  <2>1. FileTypeOK'
    BY DEF FileTypeOK, Content
  <2>2. Received'
    BY DEF FileTypeOK, Received
  <2>3. Untorn'
    BY DEF FileTypeOK, Content, Untorn, Received
  <2>4. AllRecorded'
    BY DEF FileTypeOK, AllRecorded
  <2>5. Renamed'
    BY DEF FileTypeOK, Renamed, AllRecorded
  <2>6. Doomed'
    BY DEF FileTypeOK, Doomed, Renamed, Cancelled
  <2> QED BY <2>1, <2>2, <2>3, <2>4, <2>5, <2>6
<1>3. ASSUME NEW c \in Call, Begin(c)
      PROVE  FilesInv'
  <2> USE <1>3 DEF Begin
  <2>1. FileTypeOK'
    BY DEF FileTypeOK, Content
  <2>2. Received'
    BY DEF FileTypeOK, Received
  <2>3. Untorn'
    BY DEF FileTypeOK, Content, Untorn, Received
  <2>4. AllRecorded'
    BY DEF FileTypeOK, AllRecorded
  <2>5. Renamed'
    BY DEF FileTypeOK, Renamed, AllRecorded
  <2>6. Doomed'
    BY DEF FileTypeOK, Doomed, Renamed, Cancelled
  <2> QED BY <2>1, <2>2, <2>3, <2>4, <2>5, <2>6
<1>4. ASSUME NEW c \in Writer, DockerPrepare(c) \/ KubernetesPrepare(c)
      PROVE  FilesInv'
  <2> USE <1>4 DEF DockerPrepare, KubernetesPrepare, Prepared
  <2>1. FileTypeOK'
    BY DEF FileTypeOK, Content
  <2>2. Received'
    BY DEF FileTypeOK, Received
  <2>3. Untorn'
    BY DEF FileTypeOK, Content, Untorn, Received
  <2>4. AllRecorded'
    BY DEF FileTypeOK, AllRecorded
  <2>5. Renamed'
    BY DEF FileTypeOK, Renamed, AllRecorded
  <2>6. Doomed'
    BY DEF FileTypeOK, Doomed, Renamed, Cancelled
  <2> QED BY <2>1, <2>2, <2>3, <2>4, <2>5, <2>6
<1>5. ASSUME NEW c \in Writer, DockerUpload(c)
      PROVE  FilesInv'
  <2> USE <1>5 DEF DockerUpload, Uploaded, UploadFails
  <2>1. FileTypeOK'
    BY DEF FileTypeOK, Content
  <2>2. Received'
    BY DEF FileTypeOK, Received
  <2>3. Untorn'
    BY DEF FileTypeOK, Content, Untorn, Received
  <2>4. AllRecorded'
    BY DEF FileTypeOK, AllRecorded
  <2>5. Renamed'
    BY DEF FileTypeOK, Renamed, AllRecorded
  <2>6. Doomed'
    BY DEF FileTypeOK, Doomed, Renamed, Cancelled
  <2> QED BY <2>1, <2>2, <2>3, <2>4, <2>5, <2>6
<1>6. ASSUME NEW c \in Writer, KubernetesUpload(c)
      PROVE  FilesInv'
  <2> USE <1>6 DEF KubernetesUpload, Uploaded, UploadFails
  <2>1. FileTypeOK'
    BY DEF FileTypeOK, Content
  <2>2. Received'
    BY DEF FileTypeOK, Received
  <2>3. Untorn'
    BY DEF FileTypeOK, Content, Untorn, Received
  <2>4. AllRecorded'
    BY DEF FileTypeOK, AllRecorded
  <2>5. Renamed'
    BY DEF FileTypeOK, Renamed, AllRecorded
  <2>6. Doomed'
    BY DEF FileTypeOK, Doomed, Renamed, Cancelled
  <2> QED BY <2>1, <2>2, <2>3, <2>4, <2>5, <2>6
<1>7. ASSUME NEW c \in Writer, Decide(c)
      PROVE  FilesInv'
  <2> USE <1>7 DEF Decide, Cancelled
  <2>1. FileTypeOK'
    BY DEF FileTypeOK, Content
  <2>2. Received'
    BY DEF FileTypeOK, Received
  <2>3. Untorn'
    BY DEF FileTypeOK, Content, Untorn, Received
  <2>4. AllRecorded'
    BY DEF FileTypeOK, AllRecorded
  <2>5. Renamed'
    BY DEF FileTypeOK, Renamed, AllRecorded
  <2>6. Doomed'
    BY DEF FileTypeOK, Doomed, Renamed, Cancelled
  <2> QED BY <2>1, <2>2, <2>3, <2>4, <2>5, <2>6
<1>8. ASSUME NEW c \in Writer, Rename(c)
      PROVE  FilesInv'
  <2> USE <1>8 DEF Rename, Moves, Movable
  <2>1. FileTypeOK'
    BY DEF FileTypeOK, Content
  <2>2. Received'
    BY DEF FileTypeOK, Received
  <2>3. Untorn'
    BY DEF FileTypeOK, Content, Untorn, Received
  <2>4. AllRecorded'
    BY DEF FileTypeOK, AllRecorded
  <2>5. Renamed'
    BY DEF FileTypeOK, Renamed, AllRecorded
  <2>6. Doomed'
    BY DEF FileTypeOK, Doomed, Renamed, Cancelled
  <2> QED BY <2>1, <2>2, <2>3, <2>4, <2>5, <2>6
<1>9. ASSUME NEW c \in Writer, RemoveTemporary(c)
      PROVE  FilesInv'
  <2> USE <1>9 DEF RemoveTemporary
  <2>1. FileTypeOK'
    BY DEF FileTypeOK, Content
  <2>2. Received'
    BY DEF FileTypeOK, Received
  <2>3. Untorn'
    BY DEF FileTypeOK, Content, Untorn, Received
  <2>4. AllRecorded'
    BY DEF FileTypeOK, AllRecorded
  <2>5. Renamed'
    BY DEF FileTypeOK, Renamed, AllRecorded
  <2>6. Doomed'
    BY DEF FileTypeOK, Doomed, Renamed, Cancelled
  <2> QED BY <2>1, <2>2, <2>3, <2>4, <2>5, <2>6
<1>10. ASSUME NEW c \in Reader, StatReturns(c)
      PROVE  FilesInv'
  <2> USE <1>10 DEF StatReturns
  <2>1. FileTypeOK'
    BY DEF FileTypeOK, Content
  <2>2. Received'
    BY DEF FileTypeOK, Received
  <2>3. Untorn'
    BY DEF FileTypeOK, Content, Untorn, Received
  <2>4. AllRecorded'
    BY DEF FileTypeOK, AllRecorded
  <2>5. Renamed'
    BY DEF FileTypeOK, Renamed, AllRecorded
  <2>6. Doomed'
    BY DEF FileTypeOK, Doomed, Renamed, Cancelled
  <2> QED BY <2>1, <2>2, <2>3, <2>4, <2>5, <2>6
<1>11. ASSUME NEW c \in Reader, ReadStat(c)
      PROVE  FilesInv'
  <2> USE <1>11 DEF ReadStat
  <2>1. FileTypeOK'
    BY DEF FileTypeOK, Content
  <2>2. Received'
    BY DEF FileTypeOK, Received
  <2>3. Untorn'
    BY DEF FileTypeOK, Content, Untorn, Received
  <2>4. AllRecorded'
    BY DEF FileTypeOK, AllRecorded
  <2>5. Renamed'
    BY DEF FileTypeOK, Renamed, AllRecorded
  <2>6. Doomed'
    BY DEF FileTypeOK, Doomed, Renamed, Cancelled
  <2> QED BY <2>1, <2>2, <2>3, <2>4, <2>5, <2>6
<1>12. ASSUME NEW c \in Reader, ReadOpen(c)
      PROVE  FilesInv'
  <2> USE <1>12 DEF ReadOpen
  <2>1. FileTypeOK'
    BY DEF FileTypeOK, Content
  <2>2. Received'
    BY DEF FileTypeOK, Received
  <2>3. Untorn'
    BY DEF FileTypeOK, Content, Untorn, Received
  <2>4. AllRecorded'
    BY DEF FileTypeOK, AllRecorded
  <2>5. Renamed'
    BY DEF FileTypeOK, Renamed, AllRecorded
  <2>6. Doomed'
    BY DEF FileTypeOK, Doomed, Renamed, Cancelled
  <2> QED BY <2>1, <2>2, <2>3, <2>4, <2>5, <2>6
<1>13. ASSUME NEW c \in Reader, ReadStream(c)
      PROVE  FilesInv'
  <2> USE <1>13 DEF ReadStream
  <2>1. FileTypeOK'
    BY DEF FileTypeOK, Content
  <2>2. Received'
    BY DEF FileTypeOK, Received
  <2>3. Untorn'
    BY DEF FileTypeOK, Content, Untorn, Received
  <2>4. AllRecorded'
    BY DEF FileTypeOK, AllRecorded
  <2>5. Renamed'
    BY DEF FileTypeOK, Renamed, AllRecorded
  <2>6. Doomed'
    BY DEF FileTypeOK, Doomed, Renamed, Cancelled
  <2> QED BY <2>1, <2>2, <2>3, <2>4, <2>5, <2>6
<1>14. ASSUME NEW c \in Writer, ClientLeaves(c)
      PROVE  FilesInv'
  <2> USE <1>14 DEF ClientLeaves, Undecided
  <2>1. FileTypeOK'
    BY DEF FileTypeOK, Content
  <2>2. Received'
    BY DEF FileTypeOK, Received
  <2>3. Untorn'
    BY DEF FileTypeOK, Content, Untorn, Received
  <2>4. AllRecorded'
    BY DEF FileTypeOK, AllRecorded
  <2>5. Renamed'
    BY DEF FileTypeOK, Renamed, AllRecorded
  <2>6. Doomed'
    BY DEF FileTypeOK, Doomed, Renamed, Cancelled
  <2> QED BY <2>1, <2>2, <2>3, <2>4, <2>5, <2>6
<1>15. ASSUME NEW c \in Writer, ClientSends(c)
      PROVE  FilesInv'
  <2> USE <1>15 DEF ClientSends
  <2>1. FileTypeOK'
    BY DEF FileTypeOK, Content
  <2>2. Received'
    BY DEF FileTypeOK, Received
  <2>3. Untorn'
    BY DEF FileTypeOK, Content, Untorn, Received
  <2>4. AllRecorded'
    BY DEF FileTypeOK, AllRecorded
  <2>5. Renamed'
    BY DEF FileTypeOK, Renamed, AllRecorded
  <2>6. Doomed'
    BY DEF FileTypeOK, Doomed, Renamed, Cancelled
  <2> QED BY <2>1, <2>2, <2>3, <2>4, <2>5, <2>6
<1>16. ASSUME NEW c \in Writer, LateRename(c)
      PROVE  FilesInv'
  <2> USE <1>16 DEF LateRename, Moves, Movable
  <2>1. FileTypeOK'
    BY DEF FileTypeOK, Content
  <2>2. Received'
    BY DEF FileTypeOK, Received
  <2>3. Untorn'
    BY DEF FileTypeOK, Content, Untorn, Received
  <2>4. AllRecorded'
    BY DEF FileTypeOK, AllRecorded
  <2>5. Renamed'
    BY DEF FileTypeOK, Renamed, AllRecorded
  <2>6. Doomed'
    BY DEF FileTypeOK, Doomed, Renamed, Cancelled
  <2> QED BY <2>1, <2>2, <2>3, <2>4, <2>5, <2>6
<1>17. ASSUME UNCHANGED fileVars
      PROVE  FilesInv'
  <2> USE <1>17 DEF fileVars
  <2>1. FileTypeOK'
    BY DEF FileTypeOK, Content
  <2>2. Received'
    BY DEF FileTypeOK, Received
  <2>3. Untorn'
    BY DEF FileTypeOK, Content, Untorn, Received
  <2>4. AllRecorded'
    BY DEF FileTypeOK, AllRecorded
  <2>5. Renamed'
    BY DEF FileTypeOK, Renamed, AllRecorded
  <2>6. Doomed'
    BY DEF FileTypeOK, Doomed, Renamed, Cancelled
  <2> QED BY <2>1, <2>2, <2>3, <2>4, <2>5, <2>6
<1> QED BY <1>1, <1>2, <1>3, <1>4, <1>5, <1>6, <1>7, <1>8, <1>9, <1>10, <1>11, <1>12,
   <1>13, <1>14, <1>15, <1>16, <1>17 DEF FileNext, CallStep, WriteStep

(***************************************************************************)
(* The path never holds, and no read returns, part of a write or a body    *)
(* other than the one its client sent to the end, on either platform and   *)
(* whatever command of the runtime fails, is lost or runs on late.         *)
(***************************************************************************)
THEOREM Wholeness == FileSpec => []WholeOrNothing
<1>1. FilesInv => WholeOrNothing
  BY DEF FilesInv, Received, Untorn, WholeOrNothing, FileTypeOK
<1> QED BY <1>1, FilesInit, FilesNext, PTL DEF FileSpec

(***************************************************************************)
(* A write that was cancelled before its rename, or refused, never lands,  *)
(* not even after its call has returned; a completed one has landed.       *)
(***************************************************************************)
THEOREM Landing == FileSpec => []LandedAsRecorded
<1>1. FilesInv => LandedAsRecorded
  BY DEF FilesInv, Doomed, Renamed, LandedAsRecorded
<1> QED BY <1>1, FilesInit, FilesNext, PTL DEF FileSpec
=============================================================================
