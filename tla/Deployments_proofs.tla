------------------------- MODULE Deployments_proofs -------------------------
(***************************************************************************)
(* Proofs about both deployments and about the telemetry of a runtime, for *)
(* every answer, loss and delay of the backend and for every bound on time *)
(* and on failed listings.                                                 *)
(*                                                                         *)
(* The argument is about phases.  Where a call stands (pc) tells which     *)
(* environment may be created or deleted; ready tells which objects nobody *)
(* has asked to delete; a runtime that may exist keeps the task's          *)
(* environment ready, and with it the policy that isolates it, while       *)
(* Docker's network is never removed under a container.                    *)
(***************************************************************************)
EXTENDS Telemetry, TLAPS

-----------------------------------------------------------------------------
(* The inductive invariant of the deployments *)

RunUp == {"createNetwork", "createRunPolicy"}
TaskUp == {"createTaskPolicy", "createService"}
Creating == {"recover", "waitRunning", "recoverCreate"}
RuntimeDown == {"stopContainer", "inspectStopped", "kill", "remove", "verify",
                "deletePod", "verifyPod"}
TaskDown == {"deleteService", "verifyService", "deleteTask", "verifyTask"}
RunDown == {"recoverNetwork", "inspectNetwork", "removeNetwork", "verifyNetwork",
            "deleteRun", "verifyRun"}

TypeOK ==
  /\ objects \subseteq Object /\ deleting \subseteq objects
  /\ foreign \in BOOLEAN /\ running \in BOOLEAN /\ confirmed \in BOOLEAN
  /\ started \subseteq Object /\ ended \subseteq Environment
  /\ claimed \subseteq Object /\ ready \subseteq Object
  /\ outcome \in {"none", "identity", "absent", "unconfirmed"}
  /\ pc \in {"idle"} \cup RunUp \cup TaskUp \cup Creating \cup RuntimeDown
            \cup TaskDown \cup RunDown
  /\ platform \in {"docker", "kubernetes"}

\* Stop looks for everything that may exist.
Claims ==
  /\ objects \subseteq claimed \cup {"runtime"}
  /\ "run" \in claimed => "run" \in started
  /\ claimed \cap {"task", "service"} # {} =>
       "task" \in started /\ platform = "kubernetes"
  /\ ended \subseteq started
  /\ "task" \in started => "run" \in started

\* What the place of the call in progress tells of the environments.
Phase ==
  /\ pc \in RunUp => "run" \in claimed \ (objects \cup ended \cup ready)
                     /\ "task" \notin started
  /\ pc \in TaskUp => /\ "task" \in claimed \ (ended \cup ready)
                      /\ "run" \in ready
                      /\ outcome = "none" /\ "service" \notin objects
  /\ pc = "createTaskPolicy" => "task" \notin objects
  /\ pc = "createService" => "service" \in claimed /\ "task" \in objects \ deleting
  /\ pc \in Creating => outcome = "none" /\ Environment \subseteq ready
  /\ pc = "waitRunning" => ~foreign
  /\ pc \in RuntimeDown => outcome = "identity" /\ ~confirmed
  /\ pc \in TaskDown => /\ "task" \in started \ (ended \cup ready)
                        /\ outcome = "identity" => confirmed
  /\ pc \in {"deleteTask", "verifyTask"} => "service" \notin claimed
  /\ pc \in RunDown => "run" \in started \ (ended \cup ready)

\* No object of a ready environment is missing or being deleted.
Ready ==
  /\ "run" \in ready => "run" \in (started \cap objects) \ (deleting \cup ended)
  /\ "task" \in ready => /\ "task" \in started \ ended
                         /\ platform = "kubernetes" => "task" \in objects \ deleting

\* A runtime exists only where its Create or its identity answers for it.
Runtime ==
  /\ "runtime" \in objects =>
       /\ ~foreign
       /\ \/ outcome = "identity" /\ ~confirmed
          \/ outcome = "unconfirmed"
          \/ outcome = "none" /\ pc \in Creating
       /\ outcome # "unconfirmed" => Attachments \subseteq objects \ deleting
  /\ outcome = "identity" => ~foreign
  /\ outcome = "identity" /\ ~confirmed => "task" \in ready
  /\ confirmed => outcome = "identity"
  /\ outcome # "none" => "task" \in started
  /\ running => "runtime" \in objects \cap started

IInv == TypeOK /\ Claims /\ Phase /\ Ready /\ Runtime /\ EnvironmentConfirmed
-----------------------------------------------------------------------------
(* The steps of the deployments *)

LEMMA DeploymentInit == PlatformInit => IInv
<1> SUFFICES ASSUME PlatformInit PROVE IInv
  OBVIOUS
<1> USE DEF PlatformInit, Init
<1>1. TypeOK /\ Claims /\ EnvironmentConfirmed
  BY DEF TypeOK, Claims, EnvironmentConfirmed
<1>2. Phase /\ Ready /\ Runtime
  BY DEF Phase, Ready, Runtime, RunUp, TaskUp, Creating, RuntimeDown, TaskDown, RunDown
<1> QED BY <1>1, <1>2 DEF IInv

LEMMA DockerStep ==
  ASSUME IInv, Docker!Next, platform = "docker", UNCHANGED platform
  PROVE  IInv'
<1> USE DEF IInv, Object, Environment, RunUp, TaskUp, Creating, RuntimeDown,
   TaskDown, RunDown, Docker!backend, Docker!flags, Docker!calls, Docker!Environment
<1>1. ASSUME Docker!RunStart
      PROVE  IInv'
  <2> USE <1>1 DEF Docker!RunStart, Docker!MayStartRun, Docker!Goto
  <2>1. (TypeOK /\ Claims /\ EnvironmentConfirmed)'
    BY DEF TypeOK, Claims, EnvironmentConfirmed, Phase, Ready
  <2>2. (Phase /\ Ready /\ Runtime)'
    BY DEF Phase, Ready, Runtime, Attachments, Claims, TypeOK
  <2> QED BY <2>1, <2>2
<1>2. ASSUME Docker!CreateNetwork
      PROVE  IInv'
  <2> USE <1>2 DEF Docker!CreateNetwork, Docker!CreateSucceeds, Docker!CreateFails,
     Docker!Conflict, Docker!Returns, Docker!Goto
  <2>1. TypeOK'
    BY DEF TypeOK
  <2>2. Claims'
    BY DEF Claims, Phase, Ready
  <2>3. Phase'
    BY DEF Phase, Ready, Runtime, Claims, TypeOK
  <2>4. Ready'
    BY DEF Ready, Phase, Runtime, Claims, Attachments, TypeOK
  <2>5. Runtime'
    BY DEF Runtime, Phase, Ready, Attachments, TypeOK
  <2>6. EnvironmentConfirmed'
    BY DEF EnvironmentConfirmed, Phase, Claims, Ready, TypeOK
  <2> QED BY <2>1, <2>2, <2>3, <2>4, <2>5, <2>6
<1>3. ASSUME Docker!RunStop
      PROVE  IInv'
  <2> USE <1>3 DEF Docker!RunStop, Docker!MayEndRun, Docker!Ends, Docker!Goto
  <2>1. (TypeOK /\ Claims /\ EnvironmentConfirmed)'
    BY DEF TypeOK, Claims, EnvironmentConfirmed, Phase, Ready
  <2>2. (Phase /\ Ready /\ Runtime)'
    BY DEF Phase, Ready, Runtime, Attachments, Claims, TypeOK
  <2> QED BY <2>1, <2>2
<1>4. ASSUME Docker!RecoverNetwork
      PROVE  IInv'
  <2> USE <1>4 DEF Docker!RecoverNetwork, Docker!NetworkFound, Docker!Answers,
     Docker!Conflict, Docker!Goto, Docker!Returns, Docker!Ends
  <2>1. (TypeOK /\ Claims /\ EnvironmentConfirmed)'
    BY DEF TypeOK, Claims, EnvironmentConfirmed, Phase, Ready
  <2>2. (Phase /\ Ready /\ Runtime)'
    BY DEF Phase, Ready, Runtime, Attachments, Claims, TypeOK
  <2> QED BY <2>1, <2>2
<1>5. ASSUME Docker!InspectNetwork
      PROVE  IInv'
  <2> USE <1>5 DEF Docker!InspectNetwork, Docker!NetworkFound, Docker!Answers,
     Docker!Conflict, Docker!Goto, Docker!Returns, Docker!Ends
  <2>1. (TypeOK /\ Claims /\ EnvironmentConfirmed)'
    BY DEF TypeOK, Claims, EnvironmentConfirmed, Phase, Ready
  <2>2. (Phase /\ Ready /\ Runtime)'
    BY DEF Phase, Ready, Runtime, Attachments, Claims, TypeOK
  <2> QED BY <2>1, <2>2
<1>6. ASSUME Docker!RemoveNetwork
      PROVE  IInv'
  <2> USE <1>6 DEF Docker!RemoveNetwork, Docker!Goto, Docker!DeleteSucceeds,
     Docker!DeleteFails, Docker!Gone
  <2>1. TypeOK'
    BY DEF TypeOK
  <2>2. Claims'
    BY DEF Claims, Phase, Ready
  <2>3. Phase'
    BY DEF Phase, Ready, Runtime, Claims, TypeOK
  <2>4. Ready'
    BY DEF Ready, Phase, Runtime, Claims, Attachments, TypeOK
  <2>5. Runtime'
    BY DEF Runtime, Phase, Ready, Attachments, TypeOK
  <2>6. EnvironmentConfirmed'
    BY DEF EnvironmentConfirmed, Phase, Claims, Ready, TypeOK
  <2> QED BY <2>1, <2>2, <2>3, <2>4, <2>5, <2>6
<1>7. ASSUME Docker!VerifyNetwork
      PROVE  IInv'
  <2> USE <1>7 DEF Docker!VerifyNetwork, Docker!Answers, Docker!Conflict,
     Docker!Returns, Docker!Goto, Docker!Ends
  <2>1. (TypeOK /\ Claims /\ EnvironmentConfirmed)'
    BY DEF TypeOK, Claims, EnvironmentConfirmed, Phase, Ready
  <2>2. (Phase /\ Ready /\ Runtime)'
    BY DEF Phase, Ready, Runtime, Attachments, Claims, TypeOK
  <2> QED BY <2>1, <2>2
<1>8. ASSUME Docker!TaskStart
      PROVE  IInv'
  <2> USE <1>8 DEF Docker!TaskStart, Docker!MayStartTask, Docker!NetworkActive,
     Docker!Answers, Docker!Conflict
  <2>1. TypeOK'
    BY DEF TypeOK
  <2>2. Claims'
    BY DEF Claims, Phase, Ready
  <2>3. Phase'
    BY DEF Phase, Ready, Runtime, Claims, TypeOK
  <2>4. Ready'
    BY DEF Ready, Phase, Runtime, Claims, Attachments, TypeOK
  <2>5. Runtime'
    BY DEF Runtime, Phase, Ready, Attachments, TypeOK
  <2>6. EnvironmentConfirmed'
    BY DEF EnvironmentConfirmed, Phase, Claims, Ready, TypeOK
  <2> QED BY <2>1, <2>2, <2>3, <2>4, <2>5, <2>6
<1>9. ASSUME Docker!TaskStop
      PROVE  IInv'
  <2> USE <1>9 DEF Docker!TaskStop, Docker!MayEndTask, Docker!Ends
  <2>1. (TypeOK /\ Claims /\ EnvironmentConfirmed)'
    BY DEF TypeOK, Claims, EnvironmentConfirmed, Phase, Ready
  <2>2. (Phase /\ Ready /\ Runtime)'
    BY DEF Phase, Ready, Runtime, Attachments, Claims, TypeOK
  <2> QED BY <2>1, <2>2
<1>10. ASSUME Docker!CreateRefused
      PROVE  IInv'
  <2> USE <1>10 DEF Docker!CreateRefused, Docker!MayCreate, Docker!Create,
     Docker!Returns, Docker!Goto
  <2>1. (TypeOK /\ Claims /\ EnvironmentConfirmed)'
    BY DEF TypeOK, Claims, EnvironmentConfirmed, Phase, Ready
  <2>2. (Phase /\ Ready /\ Runtime)'
    BY DEF Phase, Ready, Runtime, Attachments, Claims, TypeOK
  <2> QED BY <2>1, <2>2
<1>11. ASSUME Docker!ContainerCreate
      PROVE  IInv'
  <2> USE <1>11 DEF Docker!ContainerCreate, Docker!MayCreate, Docker!CreateSucceeds,
     Docker!CreateFails, Docker!Conflict, Docker!Create, Docker!Returns, Docker!Goto
  <2>1. TypeOK'
    BY DEF TypeOK
  <2>2. Claims'
    BY DEF Claims, Phase, Ready
  <2>3. Phase'
    BY DEF Phase, Ready, Runtime, Claims, TypeOK
  <2>4. Ready'
    BY DEF Ready, Phase, Runtime, Claims, Attachments, TypeOK
  <2>5. Runtime'
    BY DEF Runtime, Phase, Ready, Attachments, TypeOK
  <2>6. EnvironmentConfirmed'
    BY DEF EnvironmentConfirmed, Phase, Claims, Ready, TypeOK
  <2> QED BY <2>1, <2>2, <2>3, <2>4, <2>5, <2>6
<1>12. ASSUME Docker!Recover
      PROVE  IInv'
  <2> USE <1>12 DEF Docker!Recover, Docker!Answers, Docker!Conflict, Docker!Create,
     Docker!Returns, Docker!Goto
  <2>1. (TypeOK /\ Claims /\ EnvironmentConfirmed)'
    BY DEF TypeOK, Claims, EnvironmentConfirmed, Phase, Ready
  <2>2. (Phase /\ Ready /\ Runtime)'
    BY DEF Phase, Ready, Runtime, Attachments, Claims, TypeOK
  <2> QED BY <2>1, <2>2
<1>13. ASSUME Docker!Validate
      PROVE  IInv'
  <2> USE <1>13 DEF Docker!Validate, Docker!MayStop
  <2>1. (TypeOK /\ Claims /\ EnvironmentConfirmed)'
    BY DEF TypeOK, Claims, EnvironmentConfirmed, Phase, Ready
  <2>2. (Phase /\ Ready /\ Runtime)'
    BY DEF Phase, Ready, Runtime, Attachments, Claims, TypeOK
  <2> QED BY <2>1, <2>2
<1>14. ASSUME Docker!Start
      PROVE  IInv'
  <2> USE <1>14 DEF Docker!Start, Docker!MayStart
  <2>1. (TypeOK /\ Claims /\ EnvironmentConfirmed)'
    BY DEF TypeOK, Claims, EnvironmentConfirmed, Phase, Ready
  <2>2. (Phase /\ Ready /\ Runtime)'
    BY DEF Phase, Ready, Runtime, Attachments, Claims, TypeOK
  <2> QED BY <2>1, <2>2
<1>15. ASSUME Docker!Stop
      PROVE  IInv'
  <2> USE <1>15 DEF Docker!Stop, Docker!MayStop, Docker!Answers, Docker!Conflict,
     Docker!Goto
  <2>1. (TypeOK /\ Claims /\ EnvironmentConfirmed)'
    BY DEF TypeOK, Claims, EnvironmentConfirmed, Phase, Ready
  <2>2. (Phase /\ Ready /\ Runtime)'
    BY DEF Phase, Ready, Runtime, Attachments, Claims, TypeOK
  <2> QED BY <2>1, <2>2
<1>16. ASSUME Docker!StopContainer
      PROVE  IInv'
  <2> USE <1>16 DEF Docker!StopContainer, Docker!Goto
  <2>1. TypeOK'
    BY DEF TypeOK
  <2>2. Claims'
    BY DEF Claims, Phase, Ready
  <2>3. Phase'
    BY DEF Phase, Ready, Runtime, Claims, TypeOK
  <2>4. Ready'
    BY DEF Ready, Phase, Runtime, Claims, Attachments, TypeOK
  <2>5. Runtime'
    <3>1. running' => running
      OBVIOUS
    <3> QED BY <3>1 DEF Runtime, Phase, Attachments
  <2>6. EnvironmentConfirmed'
    BY DEF EnvironmentConfirmed, Phase, Claims, Ready, TypeOK
  <2> QED BY <2>1, <2>2, <2>3, <2>4, <2>5, <2>6
<1>17. ASSUME Docker!InspectStopped
      PROVE  IInv'
  <2> USE <1>17 DEF Docker!InspectStopped, Docker!Answers, Docker!Conflict,
     Docker!Goto
  <2>1. (TypeOK /\ Claims /\ EnvironmentConfirmed)'
    BY DEF TypeOK, Claims, EnvironmentConfirmed, Phase, Ready
  <2>2. (Phase /\ Ready /\ Runtime)'
    BY DEF Phase, Ready, Runtime, Attachments, Claims, TypeOK
  <2> QED BY <2>1, <2>2
<1>18. ASSUME Docker!Kill
      PROVE  IInv'
  <2> USE <1>18 DEF Docker!Kill, Docker!Goto
  <2>1. TypeOK'
    BY DEF TypeOK
  <2>2. Claims'
    BY DEF Claims, Phase, Ready
  <2>3. Phase'
    BY DEF Phase, Ready, Runtime, Claims, TypeOK
  <2>4. Ready'
    BY DEF Ready, Phase, Runtime, Claims, Attachments, TypeOK
  <2>5. Runtime'
    <3>1. running' => running
      OBVIOUS
    <3> QED BY <3>1 DEF Runtime, Phase, Attachments
  <2>6. EnvironmentConfirmed'
    BY DEF EnvironmentConfirmed, Phase, Claims, Ready, TypeOK
  <2> QED BY <2>1, <2>2, <2>3, <2>4, <2>5, <2>6
<1>19. ASSUME Docker!Remove
      PROVE  IInv'
  <2> USE <1>19 DEF Docker!Remove, Docker!Goto, Docker!DeleteSucceeds,
     Docker!DeleteFails, Docker!Gone
  <2>1. TypeOK'
    BY DEF TypeOK
  <2>2. Claims'
    BY DEF Claims, Phase, Ready
  <2>3. Phase'
    BY DEF Phase, Ready, Runtime, Claims, TypeOK
  <2>4. Ready'
    BY DEF Ready, Phase, Runtime, Claims, Attachments, TypeOK
  <2>5. Runtime'
    BY DEF Runtime, Phase, Ready, Attachments, TypeOK
  <2>6. EnvironmentConfirmed'
    BY DEF EnvironmentConfirmed, Phase, Claims, Ready, TypeOK
  <2> QED BY <2>1, <2>2, <2>3, <2>4, <2>5, <2>6
<1>20. ASSUME Docker!Verify
      PROVE  IInv'
  <2> USE <1>20 DEF Docker!Verify, Docker!Answers, Docker!Conflict, Docker!Returns,
     Docker!Goto
  <2>1. (TypeOK /\ Claims /\ EnvironmentConfirmed)'
    BY DEF TypeOK, Claims, EnvironmentConfirmed, Phase, Ready
  <2>2. (Phase /\ Ready /\ Runtime)'
    BY DEF Phase, Ready, Runtime, Attachments, Claims, TypeOK
  <2> QED BY <2>1, <2>2
<1> QED BY <1>1, <1>2, <1>3, <1>4, <1>5, <1>6, <1>7, <1>8, <1>9, <1>10, <1>11,
   <1>12, <1>13, <1>14, <1>15, <1>16, <1>17, <1>18, <1>19, <1>20
  DEF Docker!Next

LEMMA KubernetesStep ==
  ASSUME IInv, Kubernetes!Next, platform = "kubernetes", UNCHANGED platform
  PROVE  IInv'
<1> USE DEF IInv, Object, Environment, RunUp, TaskUp, Creating, RuntimeDown,
   TaskDown, RunDown, Kubernetes!backend, Kubernetes!flags, Kubernetes!calls,
   Kubernetes!Environment
<1>1. ASSUME Kubernetes!RunStart
      PROVE  IInv'
  <2> USE <1>1 DEF Kubernetes!RunStart, Kubernetes!MayStartRun, Kubernetes!Goto
  <2>1. (TypeOK /\ Claims /\ EnvironmentConfirmed)'
    BY DEF TypeOK, Claims, EnvironmentConfirmed, Phase, Ready
  <2>2. (Phase /\ Ready /\ Runtime)'
    BY DEF Phase, Ready, Runtime, Attachments, Claims, TypeOK
  <2> QED BY <2>1, <2>2
<1>2. ASSUME Kubernetes!CreateRunPolicy
      PROVE  IInv'
  <2> USE <1>2 DEF Kubernetes!CreateRunPolicy, Kubernetes!CreateSucceeds,
     Kubernetes!CreateFails, Kubernetes!Conflict, Kubernetes!Returns,
     Kubernetes!Goto
  <2>1. TypeOK'
    BY DEF TypeOK
  <2>2. Claims'
    BY DEF Claims, Phase, Ready
  <2>3. Phase'
    BY DEF Phase, Ready, Runtime, Claims, TypeOK
  <2>4. Ready'
    BY DEF Ready, Phase, Runtime, Claims, Attachments, TypeOK
  <2>5. Runtime'
    BY DEF Runtime, Phase, Ready, Attachments, TypeOK
  <2>6. EnvironmentConfirmed'
    BY DEF EnvironmentConfirmed, Phase, Claims, Ready, TypeOK
  <2> QED BY <2>1, <2>2, <2>3, <2>4, <2>5, <2>6
<1>3. ASSUME Kubernetes!TaskStart
      PROVE  IInv'
  <2> USE <1>3 DEF Kubernetes!TaskStart, Kubernetes!MayStartTask,
     Kubernetes!RunActive, Kubernetes!Goto
  <2>1. (TypeOK /\ Claims /\ EnvironmentConfirmed)'
    BY DEF TypeOK, Claims, EnvironmentConfirmed, Phase, Ready
  <2>2. (Phase /\ Ready /\ Runtime)'
    BY DEF Phase, Ready, Runtime, Attachments, Claims, TypeOK
  <2> QED BY <2>1, <2>2
<1>4. ASSUME Kubernetes!CreateTaskPolicy
      PROVE  IInv'
  <2> USE <1>4 DEF Kubernetes!CreateTaskPolicy, Kubernetes!CreateSucceeds,
     Kubernetes!CreateFails, Kubernetes!Conflict, Kubernetes!Returns,
     Kubernetes!Goto
  <2>1. TypeOK'
    BY DEF TypeOK
  <2>2. Claims'
    BY DEF Claims, Phase, Ready
  <2>3. Phase'
    BY DEF Phase, Ready, Runtime, Claims, TypeOK
  <2>4. Ready'
    BY DEF Ready, Phase, Runtime, Claims, Attachments, TypeOK
  <2>5. Runtime'
    BY DEF Runtime, Phase, Ready, Attachments, TypeOK
  <2>6. EnvironmentConfirmed'
    BY DEF EnvironmentConfirmed, Phase, Claims, Ready, TypeOK
  <2> QED BY <2>1, <2>2, <2>3, <2>4, <2>5, <2>6
<1>5. ASSUME Kubernetes!CreateService
      PROVE  IInv'
  <2> USE <1>5 DEF Kubernetes!CreateService, Kubernetes!CreateSucceeds,
     Kubernetes!CreateFails, Kubernetes!Conflict, Kubernetes!Returns,
     Kubernetes!Goto
  <2>1. TypeOK'
    BY DEF TypeOK
  <2>2. Claims'
    BY DEF Claims, Phase, Ready
  <2>3. Phase'
    BY DEF Phase, Ready, Runtime, Claims, TypeOK
  <2>4. Ready'
    BY DEF Ready, Phase, Runtime, Claims, Attachments, TypeOK
  <2>5. Runtime'
    BY DEF Runtime, Phase, Ready, Attachments, TypeOK
  <2>6. EnvironmentConfirmed'
    BY DEF EnvironmentConfirmed, Phase, Claims, Ready, TypeOK
  <2> QED BY <2>1, <2>2, <2>3, <2>4, <2>5, <2>6
<1>6. ASSUME Kubernetes!RunStop
      PROVE  IInv'
  <2> USE <1>6 DEF Kubernetes!RunStop, Kubernetes!MayEndRun, Kubernetes!Ends,
     Kubernetes!Goto
  <2>a. (TypeOK /\ Claims)'
    BY DEF TypeOK, Claims
  <2>b. EnvironmentConfirmed'
    BY DEF EnvironmentConfirmed, Claims
  <2>1. (TypeOK /\ Claims /\ EnvironmentConfirmed)'
    BY <2>a, <2>b
  <2>2. (Phase /\ Ready /\ Runtime)'
    BY DEF Phase, Ready, Runtime, Attachments, Claims, TypeOK
  <2> QED BY <2>1, <2>2
<1>7. ASSUME Kubernetes!TaskStop
      PROVE  IInv'
  <2> USE <1>7 DEF Kubernetes!TaskStop, Kubernetes!MayEndTask, Kubernetes!Ends,
     Kubernetes!Goto
  <2>1. TypeOK'
    BY DEF TypeOK
  <2>2. Claims'
    BY DEF Claims, Phase, Ready
  <2>3. Phase'
    BY DEF Phase, Ready, Runtime, Claims, TypeOK
  <2>4. Ready'
    BY DEF Ready, Phase, Runtime, Claims, Attachments, TypeOK
  <2>5. Runtime'
    BY DEF Runtime, Phase, Ready, Attachments, TypeOK
  <2>6. EnvironmentConfirmed'
    BY DEF EnvironmentConfirmed, Phase, Claims, Ready, TypeOK
  <2> QED BY <2>1, <2>2, <2>3, <2>4, <2>5, <2>6
<1>8. ASSUME Kubernetes!DeleteRun
      PROVE  IInv'
  <2> USE <1>8 DEF Kubernetes!DeleteRun, Kubernetes!DeleteObject,
     Kubernetes!DeleteSucceeds, Kubernetes!DeleteFails, Kubernetes!Gone,
     Kubernetes!Goto, Kubernetes!Returns
  <2>1. TypeOK'
    BY DEF TypeOK
  <2>2. Claims'
    BY DEF Claims, Phase, Ready
  <2>3. Phase'
    BY DEF Phase, Ready, Runtime, Claims, TypeOK
  <2>4. Ready'
    BY DEF Ready, Phase, Runtime, Claims, Attachments, TypeOK
  <2>5. Runtime'
    BY DEF Runtime, Phase, Ready, Attachments, TypeOK
  <2>6. EnvironmentConfirmed'
    BY DEF EnvironmentConfirmed, Phase, Claims, Ready, TypeOK
  <2> QED BY <2>1, <2>2, <2>3, <2>4, <2>5, <2>6
<1>9. ASSUME Kubernetes!VerifyRun
      PROVE  IInv'
  <2> USE <1>9 DEF Kubernetes!VerifyRun, Kubernetes!VerifyDeleted,
     Kubernetes!Deleted, Kubernetes!Answers, Kubernetes!Conflict, Kubernetes!Ends,
     Kubernetes!Goto, Kubernetes!Returns
  <2>1. (TypeOK /\ Claims /\ EnvironmentConfirmed)'
    BY DEF TypeOK, Claims, EnvironmentConfirmed, Phase, Ready
  <2>2. (Phase /\ Ready /\ Runtime)'
    BY DEF Phase, Ready, Runtime, Attachments, Claims, TypeOK
  <2> QED BY <2>1, <2>2
<1>10. ASSUME Kubernetes!DeleteService
      PROVE  IInv'
  <2> USE <1>10 DEF Kubernetes!DeleteService, Kubernetes!DeleteObject,
     Kubernetes!DeleteSucceeds, Kubernetes!DeleteFails, Kubernetes!Gone,
     Kubernetes!Goto, Kubernetes!Returns
  <2>1. TypeOK'
    BY DEF TypeOK
  <2>2. Claims'
    BY DEF Claims, Phase, Ready
  <2>3. Phase'
    BY DEF Phase, Ready, Runtime, Claims, TypeOK
  <2>4. Ready'
    BY DEF Ready, Phase, Runtime, Claims, Attachments, TypeOK
  <2>5. Runtime'
    BY DEF Runtime, Phase, Ready, Attachments, TypeOK
  <2>6. EnvironmentConfirmed'
    BY DEF EnvironmentConfirmed, Phase, Claims, Ready, TypeOK
  <2> QED BY <2>1, <2>2, <2>3, <2>4, <2>5, <2>6
<1>11. ASSUME Kubernetes!VerifyService
      PROVE  IInv'
  <2> USE <1>11 DEF Kubernetes!VerifyService, Kubernetes!VerifyDeleted,
     Kubernetes!Deleted, Kubernetes!Answers, Kubernetes!Conflict, Kubernetes!Goto,
     Kubernetes!Returns
  <2>1. (TypeOK /\ Claims /\ EnvironmentConfirmed)'
    BY DEF TypeOK, Claims, EnvironmentConfirmed, Phase, Ready
  <2>2. (Phase /\ Ready /\ Runtime)'
    BY DEF Phase, Ready, Runtime, Attachments, Claims, TypeOK
  <2> QED BY <2>1, <2>2
<1>12. ASSUME Kubernetes!DeleteTask
      PROVE  IInv'
  <2> USE <1>12 DEF Kubernetes!DeleteTask, Kubernetes!DeleteObject,
     Kubernetes!DeleteSucceeds, Kubernetes!DeleteFails, Kubernetes!Gone,
     Kubernetes!Goto, Kubernetes!Returns
  <2>1. TypeOK'
    BY DEF TypeOK
  <2>2. Claims'
    BY DEF Claims, Phase, Ready
  <2>3. Phase'
    BY DEF Phase, Ready, Runtime, Claims, TypeOK
  <2>4. Ready'
    BY DEF Ready, Phase, Runtime, Claims, Attachments, TypeOK
  <2>5. Runtime'
    BY DEF Runtime, Phase, Ready, Attachments, TypeOK
  <2>6. EnvironmentConfirmed'
    BY DEF EnvironmentConfirmed, Phase, Claims, Ready, TypeOK
  <2> QED BY <2>1, <2>2, <2>3, <2>4, <2>5, <2>6
<1>13. ASSUME Kubernetes!VerifyTask
      PROVE  IInv'
  <2> USE <1>13 DEF Kubernetes!VerifyTask, Kubernetes!VerifyDeleted,
     Kubernetes!Deleted, Kubernetes!Answers, Kubernetes!Conflict, Kubernetes!Ends,
     Kubernetes!Goto, Kubernetes!Returns
  <2>1. TypeOK'
    BY DEF TypeOK
  <2>2. Claims'
    BY DEF Claims, Phase, Ready
  <2>3. Phase'
    BY DEF Phase, Ready, Runtime, Claims, TypeOK
  <2>4. Ready'
    BY DEF Ready, Phase, Runtime, Claims, Attachments, TypeOK
  <2>5. Runtime'
    BY DEF Runtime, Phase, Ready, Attachments, TypeOK
  <2>6. EnvironmentConfirmed'
    BY DEF EnvironmentConfirmed, Phase, Claims, Ready, TypeOK
  <2> QED BY <2>1, <2>2, <2>3, <2>4, <2>5, <2>6
<1>14. ASSUME Kubernetes!CreateRefused
      PROVE  IInv'
  <2> USE <1>14 DEF Kubernetes!CreateRefused, Kubernetes!MayCreate,
     Kubernetes!Create, Kubernetes!Returns, Kubernetes!Goto
  <2>1. (TypeOK /\ Claims /\ EnvironmentConfirmed)'
    BY DEF TypeOK, Claims, EnvironmentConfirmed, Phase, Ready
  <2>2. (Phase /\ Ready /\ Runtime)'
    BY DEF Phase, Ready, Runtime, Attachments, Claims, TypeOK
  <2> QED BY <2>1, <2>2
<1>15. ASSUME Kubernetes!CreatePod
      PROVE  IInv'
  <2> USE <1>15 DEF Kubernetes!CreatePod, Kubernetes!MayCreate,
     Kubernetes!CreateSucceeds, Kubernetes!CreateFails, Kubernetes!Conflict,
     Kubernetes!Goto
  <2>1. TypeOK'
    BY DEF TypeOK
  <2>2. Claims'
    BY DEF Claims, Phase, Ready
  <2>3. Phase'
    BY DEF Phase, Ready, Runtime, Claims, TypeOK
  <2>4. Ready'
    BY DEF Ready, Phase, Runtime, Claims, Attachments, TypeOK
  <2>5. Runtime'
    BY DEF Runtime, Phase, Ready, Attachments, TypeOK
  <2>6. EnvironmentConfirmed'
    BY DEF EnvironmentConfirmed, Phase, Claims, Ready, TypeOK
  <2> QED BY <2>1, <2>2, <2>3, <2>4, <2>5, <2>6
<1>16. ASSUME Kubernetes!WaitRunning
      PROVE  IInv'
  <2> USE <1>16 DEF Kubernetes!WaitRunning, Kubernetes!Create, Kubernetes!Returns,
     Kubernetes!Goto
  <2>1. (TypeOK /\ Claims /\ EnvironmentConfirmed)'
    BY DEF TypeOK, Claims, EnvironmentConfirmed, Phase, Ready
  <2>2. (Phase /\ Ready /\ Runtime)'
    BY DEF Phase, Ready, Runtime, Attachments, Claims, TypeOK
  <2> QED BY <2>1, <2>2
<1>17. ASSUME Kubernetes!RecoverCreate
      PROVE  IInv'
  <2> USE <1>17 DEF Kubernetes!RecoverCreate, Kubernetes!Answers,
     Kubernetes!Conflict, Kubernetes!Create, Kubernetes!Returns, Kubernetes!Goto
  <2>1. (TypeOK /\ Claims /\ EnvironmentConfirmed)'
    BY DEF TypeOK, Claims, EnvironmentConfirmed, Phase, Ready
  <2>2. (Phase /\ Ready /\ Runtime)'
    BY DEF Phase, Ready, Runtime, Attachments, Claims, TypeOK
  <2> QED BY <2>1, <2>2
<1>18. ASSUME Kubernetes!Validate
      PROVE  IInv'
  <2> USE <1>18 DEF Kubernetes!Validate, Kubernetes!MayStop
  <2>1. (TypeOK /\ Claims /\ EnvironmentConfirmed)'
    BY DEF TypeOK, Claims, EnvironmentConfirmed, Phase, Ready
  <2>2. (Phase /\ Ready /\ Runtime)'
    BY DEF Phase, Ready, Runtime, Attachments, Claims, TypeOK
  <2> QED BY <2>1, <2>2
<1>19. ASSUME Kubernetes!Start
      PROVE  IInv'
  <2> USE <1>19 DEF Kubernetes!Start, Kubernetes!MayStart
  <2>1. (TypeOK /\ Claims /\ EnvironmentConfirmed)'
    BY DEF TypeOK, Claims, EnvironmentConfirmed, Phase, Ready
  <2>2. (Phase /\ Ready /\ Runtime)'
    BY DEF Phase, Ready, Runtime, Attachments, Claims, TypeOK
  <2> QED BY <2>1, <2>2
<1>20. ASSUME Kubernetes!Address
      PROVE  IInv'
  <2> USE <1>20 DEF Kubernetes!Address
  <2>1. (TypeOK /\ Claims /\ EnvironmentConfirmed)'
    BY DEF TypeOK, Claims, EnvironmentConfirmed, Phase, Ready
  <2>2. (Phase /\ Ready /\ Runtime)'
    BY DEF Phase, Ready, Runtime, Attachments, Claims, TypeOK
  <2> QED BY <2>1, <2>2
<1>21. ASSUME Kubernetes!AddressReturns
      PROVE  IInv'
  <2> USE <1>21 DEF Kubernetes!AddressReturns
  <2>1. (TypeOK /\ Claims /\ EnvironmentConfirmed)'
    BY DEF TypeOK, Claims, EnvironmentConfirmed, Phase, Ready
  <2>2. (Phase /\ Ready /\ Runtime)'
    BY DEF Phase, Ready, Runtime, Attachments, Claims, TypeOK
  <2> QED BY <2>1, <2>2
<1>22. ASSUME Kubernetes!Close
      PROVE  IInv'
  <2> USE <1>22 DEF Kubernetes!Close
  <2>1. (TypeOK /\ Claims /\ EnvironmentConfirmed)'
    BY DEF TypeOK, Claims, EnvironmentConfirmed, Phase, Ready
  <2>2. (Phase /\ Ready /\ Runtime)'
    BY DEF Phase, Ready, Runtime, Attachments, Claims, TypeOK
  <2> QED BY <2>1, <2>2
<1>23. ASSUME Kubernetes!Stop
      PROVE  IInv'
  <2> USE <1>23 DEF Kubernetes!Stop, Kubernetes!MayStop, Kubernetes!Goto
  <2>1. (TypeOK /\ Claims /\ EnvironmentConfirmed)'
    BY DEF TypeOK, Claims, EnvironmentConfirmed, Phase, Ready
  <2>2. (Phase /\ Ready /\ Runtime)'
    BY DEF Phase, Ready, Runtime, Attachments, Claims, TypeOK
  <2> QED BY <2>1, <2>2
<1>24. ASSUME Kubernetes!DeletePod
      PROVE  IInv'
  <2> USE <1>24 DEF Kubernetes!DeletePod, Kubernetes!DeleteSucceeds,
     Kubernetes!DeleteFails, Kubernetes!Gone, Kubernetes!Goto, Kubernetes!Returns
  <2>1. TypeOK'
    BY DEF TypeOK
  <2>2. Claims'
    BY DEF Claims, Phase, Ready
  <2>3. Phase'
    BY DEF Phase, Ready, Runtime, Claims, TypeOK
  <2>4. Ready'
    BY DEF Ready, Phase, Runtime, Claims, Attachments, TypeOK
  <2>5. Runtime'
    BY DEF Runtime, Phase, Ready, Attachments, TypeOK
  <2>6. EnvironmentConfirmed'
    BY DEF EnvironmentConfirmed, Phase, Claims, Ready, TypeOK
  <2> QED BY <2>1, <2>2, <2>3, <2>4, <2>5, <2>6
<1>25. ASSUME Kubernetes!VerifyPod
      PROVE  IInv'
  <2> USE <1>25 DEF Kubernetes!VerifyPod, Kubernetes!Answers, Kubernetes!Conflict,
     Kubernetes!Returns, Kubernetes!Goto
  <2>1. (TypeOK /\ Claims /\ EnvironmentConfirmed)'
    BY DEF TypeOK, Claims, EnvironmentConfirmed, Phase, Ready
  <2>2. (Phase /\ Ready /\ Runtime)'
    BY DEF Phase, Ready, Runtime, Attachments, Claims, TypeOK
  <2> QED BY <2>1, <2>2
<1> QED BY <1>1, <1>2, <1>3, <1>4, <1>5, <1>6, <1>7, <1>8, <1>9, <1>10, <1>11,
   <1>12, <1>13, <1>14, <1>15, <1>16, <1>17, <1>18, <1>19, <1>20, <1>21, <1>22,
   <1>23, <1>24, <1>25
  DEF Kubernetes!Next

\* A deletion takes effect late, or the process ends.
LEMMA BackendSteps ==
  ASSUME IInv, BackendStep, UNCHANGED platform
  PROVE  IInv'
<1> USE DEF IInv, BackendStep, Gone, flags, calls, Object, Environment,
      RunUp, TaskUp, Creating, RuntimeDown, TaskDown, RunDown
<1>1. TypeOK'
  BY DEF TypeOK
<1>2. (Claims /\ EnvironmentConfirmed)'
  BY DEF Claims, EnvironmentConfirmed
<1>3. Phase'
  BY DEF Phase, TypeOK
<1>4. Ready'
  BY DEF Ready, Attachments, TypeOK
<1>5. Runtime'
  BY DEF Runtime, Attachments, TypeOK
<1> QED BY <1>1, <1>2, <1>3, <1>4, <1>5

LEMMA DeploymentNext == IInv /\ [Next]_<<vars, platform>> => IInv'
<1> SUFFICES ASSUME IInv, [Next]_<<vars, platform>> PROVE IInv'
  OBVIOUS
<1>1. CASE platform = "docker" /\ Docker!Next /\ UNCHANGED platform
  BY <1>1, DockerStep
<1>2. CASE platform = "kubernetes" /\ Kubernetes!Next /\ UNCHANGED platform
  BY <1>2, KubernetesStep
<1>3. CASE BackendStep /\ UNCHANGED platform
  BY <1>3, BackendSteps
<1>4. CASE UNCHANGED <<vars, platform>>
  BY <1>4 DEF IInv, TypeOK, Claims, Phase, Ready, Runtime, EnvironmentConfirmed,
     Attachments, vars, backend, flags, calls
<1> QED BY <1>1, <1>2, <1>3, <1>4 DEF Next

-----------------------------------------------------------------------------
(* What a step does to the runtime and to its name *)

\* A step of the contract, or one it does not see.  Nobody else's runtime is
\* touched, and a runtime starts at most once.
Keeps ==
  /\ [Promise!Next]_<<"runtime" \in objects, outcome, confirmed>>
  /\ foreign' = foreign
  /\ started \subseteq started'
  /\ "runtime" \in started /\ ~running => ~running'

LEMMA DockerKeeps ==
  ASSUME IInv, Docker!Next
  PROVE  Keeps
<1> USE DEF IInv, Docker!backend, Docker!flags, Docker!calls, Keeps
<1>1. CASE Docker!ContainerCreate
  <2> USE <1>1 DEF Docker!ContainerCreate, Docker!CreateSucceeds, Docker!CreateFails
  <2>1. [Promise!Next]_<<"runtime" \in objects, outcome, confirmed>>
    BY DEF Docker!MayCreate, Docker!Conflict, Docker!Create, Docker!Returns, Docker!Goto,
       Promise!Next, Promise!Allocate, Promise!Create, Promise!Outcome
  <2>2. UNCHANGED <<foreign, started, running>>
    OBVIOUS
  <2> QED BY <2>1, <2>2
<1>2. CASE Docker!Recover
  BY <1>2 DEF Docker!Recover, Docker!Answers, Docker!Conflict, Docker!Create,
     Docker!Returns, Docker!Goto, Phase, Creating,
     Promise!Next, Promise!Create, Promise!Outcome
<1>3. CASE Docker!CreateRefused
  BY <1>3 DEF Docker!CreateRefused, Docker!MayCreate, Docker!Create, Docker!Returns,
     Docker!Goto, Runtime, Creating, Promise!Next, Promise!Create, Promise!Outcome
<1>4. CASE Docker!Stop
  BY <1>4 DEF Docker!Stop, Docker!MayStop, Docker!Answers, Docker!Conflict, Docker!Goto,
     Promise!Next, Promise!Stop
<1>5. CASE Docker!Remove
  BY <1>5 DEF Docker!Remove, Docker!Goto, Docker!DeleteSucceeds, Docker!DeleteFails,
     Docker!Gone, Phase, RuntimeDown, Runtime, TypeOK, Promise!Next, Promise!Remove
<1>6. CASE Docker!Verify
  BY <1>6 DEF Docker!Verify, Docker!Answers, Docker!Conflict, Docker!Returns, Docker!Goto,
     Phase, RuntimeDown, TypeOK, Promise!Next, Promise!Stop
<1>7. CASE Docker!CreateNetwork \/ Docker!RemoveNetwork
  BY <1>7 DEF Docker!CreateNetwork, Docker!RemoveNetwork, Docker!CreateSucceeds,
     Docker!CreateFails, Docker!DeleteSucceeds, Docker!DeleteFails, Docker!Gone, TypeOK
<1>8. CASE \/ Docker!RunStart \/ Docker!RunStop \/ Docker!RecoverNetwork
           \/ Docker!InspectNetwork \/ Docker!VerifyNetwork \/ Docker!TaskStart
           \/ Docker!TaskStop \/ Docker!Validate \/ Docker!Start
           \/ Docker!InspectStopped
  BY <1>8 DEF Docker!RunStart, Docker!RunStop, Docker!RecoverNetwork,
     Docker!InspectNetwork, Docker!NetworkFound, Docker!VerifyNetwork, Docker!TaskStart,
     Docker!TaskStop, Docker!Validate, Docker!Start, Docker!MayStart,
     Docker!InspectStopped
<1>9. CASE Docker!StopContainer \/ Docker!Kill
  <2>1. running' => running
    BY <1>9 DEF Docker!StopContainer, Docker!Kill
  <2> QED BY <1>9, <2>1 DEF Docker!StopContainer, Docker!Kill
<1> QED BY <1>1, <1>2, <1>3, <1>4, <1>5, <1>6, <1>7, <1>8, <1>9 DEF Docker!Next

LEMMA KubernetesKeeps ==
  ASSUME IInv, Kubernetes!Next
  PROVE  Keeps
<1> USE DEF IInv, Kubernetes!backend, Kubernetes!flags, Kubernetes!calls, Keeps
<1>1. CASE Kubernetes!CreatePod
  <2> USE <1>1 DEF Kubernetes!CreatePod, Kubernetes!CreateSucceeds, Kubernetes!CreateFails
  <2>1. [Promise!Next]_<<"runtime" \in objects, outcome, confirmed>>
    BY DEF Kubernetes!MayCreate, Kubernetes!Conflict, Kubernetes!Goto,
       Promise!Next, Promise!Allocate
  <2>2. UNCHANGED <<foreign, started, running>>
    OBVIOUS
  <2> QED BY <2>1, <2>2
<1>2. CASE Kubernetes!WaitRunning \/ Kubernetes!RecoverCreate
  <2>1. [Promise!Next]_<<"runtime" \in objects, outcome, confirmed>>
    BY <1>2 DEF Kubernetes!WaitRunning, Kubernetes!RecoverCreate, Kubernetes!Answers,
       Kubernetes!Conflict, Kubernetes!Create, Kubernetes!Returns, Kubernetes!Goto,
       Phase, Creating, Promise!Next, Promise!Create, Promise!Outcome
  <2>2. UNCHANGED <<foreign, started, running>>
    BY <1>2 DEF Kubernetes!WaitRunning, Kubernetes!RecoverCreate
  <2> QED BY <2>1, <2>2
<1>3. CASE Kubernetes!CreateRefused
  BY <1>3 DEF Kubernetes!CreateRefused, Kubernetes!MayCreate, Kubernetes!Create,
     Kubernetes!Returns, Kubernetes!Goto, Runtime, Creating,
     Promise!Next, Promise!Create, Promise!Outcome
<1>4. CASE Kubernetes!DeletePod
  BY <1>4 DEF Kubernetes!DeletePod, Kubernetes!Goto, Kubernetes!Returns,
     Kubernetes!DeleteSucceeds, Kubernetes!DeleteFails, Kubernetes!Gone,
     Phase, RuntimeDown, Runtime, TypeOK, Promise!Next, Promise!Remove
<1>5. CASE Kubernetes!VerifyPod
  BY <1>5 DEF Kubernetes!VerifyPod, Kubernetes!Answers, Kubernetes!Conflict,
     Kubernetes!Returns, Kubernetes!Goto, Phase, RuntimeDown, TypeOK,
     Promise!Next, Promise!Stop
<1>6. CASE \/ Kubernetes!CreateRunPolicy \/ Kubernetes!CreateTaskPolicy
           \/ Kubernetes!CreateService \/ Kubernetes!DeleteRun
           \/ Kubernetes!DeleteService \/ Kubernetes!DeleteTask
  BY <1>6 DEF Kubernetes!CreateRunPolicy, Kubernetes!CreateTaskPolicy,
     Kubernetes!CreateService, Kubernetes!DeleteRun, Kubernetes!DeleteService,
     Kubernetes!DeleteTask, Kubernetes!DeleteObject, Kubernetes!CreateSucceeds,
     Kubernetes!CreateFails, Kubernetes!DeleteSucceeds, Kubernetes!DeleteFails,
     Kubernetes!Gone, TypeOK
<1>7. CASE \/ Kubernetes!RunStart \/ Kubernetes!TaskStart \/ Kubernetes!RunStop
           \/ Kubernetes!TaskStop \/ Kubernetes!VerifyRun \/ Kubernetes!VerifyService
           \/ Kubernetes!VerifyTask \/ Kubernetes!Validate \/ Kubernetes!Start
           \/ Kubernetes!Address \/ Kubernetes!AddressReturns \/ Kubernetes!Close
           \/ Kubernetes!Stop
  BY <1>7 DEF Kubernetes!RunStart, Kubernetes!TaskStart, Kubernetes!RunStop,
     Kubernetes!TaskStop, Kubernetes!VerifyRun, Kubernetes!VerifyService,
     Kubernetes!VerifyTask, Kubernetes!VerifyDeleted, Kubernetes!Validate,
     Kubernetes!Start, Kubernetes!Address, Kubernetes!AddressReturns,
     Kubernetes!Close, Kubernetes!Stop, Kubernetes!MayStart
<1> QED BY <1>1, <1>2, <1>3, <1>4, <1>5, <1>6, <1>7 DEF Kubernetes!Next

LEMMA StepKeeps == IInv /\ [Next]_<<vars, platform>> => Keeps
<1> SUFFICES ASSUME IInv, [Next]_<<vars, platform>> PROVE Keeps
  OBVIOUS
<1>1. CASE Docker!Next
  BY <1>1, DockerKeeps
<1>2. CASE Kubernetes!Next
  BY <1>2, KubernetesKeeps
<1>3. CASE BackendStep
  BY <1>3 DEF BackendStep, Gone, flags, calls, IInv, TypeOK, Runtime, Keeps,
     Promise!Next, Promise!Remove
<1>4. CASE UNCHANGED <<vars, platform>>
  BY <1>4 DEF vars, backend, flags, calls, Keeps
<1> QED BY <1>1, <1>2, <1>3, <1>4 DEF Next

-----------------------------------------------------------------------------
(* Theorems about the deployments *)

(***************************************************************************)
(* RunEnvironment.Stop and taskEnvironment.Stop of both packages return    *)
(* nil only when no object of the environment is left, whichever answers   *)
(* to its creation or deletion were lost or came late.                     *)
(***************************************************************************)
THEOREM Confirmation == Spec => []EnvironmentConfirmed
<1>1. IInv => EnvironmentConfirmed
  BY DEF IInv
<1> QED BY <1>1, DeploymentInit, DeploymentNext, PTL DEF Spec

(***************************************************************************)
(* A runtime whose Create could tell what it allocated exists only while   *)
(* the network or the policy that isolates it exists, although the run's   *)
(* environment is stopped whatever became of the runtime.                  *)
(***************************************************************************)
THEOREM Isolation == Spec => []NeverUnisolated
<1>1. IInv => NeverUnisolated
  BY DEF IInv, NeverUnisolated, Runtime, Ready, Phase
<1> QED BY <1>1, DeploymentInit, DeploymentNext, PTL DEF Spec

(***************************************************************************)
(* Neither deployment removes a container or pod of someone else that has  *)
(* the runtime's name.                                                     *)
(***************************************************************************)
THEOREM ForeignKept == Spec => ForeignSurvives
<1>1. IInv /\ [Next]_<<vars, platform>> => [foreign' = foreign]_foreign
  BY StepKeeps DEF Keeps
<1> QED BY <1>1, DeploymentInit, DeploymentNext, PTL DEF Spec, ForeignSurvives

(***************************************************************************)
(* Docker and Kubernetes keep the contract of pkg/deployment: what Create  *)
(* and Stop return is what module Deployment allows.                       *)
(***************************************************************************)
THEOREM ImplementsContract == Spec => Contract
<1>1. PlatformInit => Promise!Init
  BY DEF PlatformInit, Init, Promise!Init
<1>2. IInv /\ [Next]_<<vars, platform>> =>
        [Promise!Next]_<<"runtime" \in objects, outcome, confirmed>>
  BY StepKeeps DEF Keeps
<1> QED BY <1>1, <1>2, DeploymentInit, DeploymentNext, PTL
  DEF Spec, Contract, Promise!Spec

-----------------------------------------------------------------------------
(* The inductive invariant of the telemetry *)

Reads == [cpu : Nat, time : Nat]

TelemetryType ==
  /\ cpuAt \in Seq(Nat) /\ clock \in Nat \ {0}
  /\ series \in Reads /\ first \in Reads /\ last \in Reads /\ baseline \in Reads
  /\ lastObserved \in 0..clock
  /\ missed \in Nat /\ discoveryFailures \in Nat
  /\ class \in {"new", "owned", "unknown"}
  /\ at \in {"idle", "listed", "inspected", "recheck", "identify", "query", "failed"}

\* The CPU counter never falls, and rises by one at most.
Rises ==
  /\ \A i, j \in 1..clock : i <= j => cpuAt[i] <= cpuAt[j]
  /\ \A i \in 1..clock : cpuAt[i] < i
  /\ clock <= MaxClock + 1

\* What a query answers is the counter at the time of its scrape.
IsScrape(r) == r # None => r.time \in 1..clock /\ r.cpu = cpuAt[r.time]

\* Scrapes are seen in the order of their times, later ones in later samples.
Scrapes ==
  /\ IsScrape(series) /\ IsScrape(first)
  /\ series # None => first.time <= series.time /\ lastObserved <= series.time
  /\ first # None => lastObserved <= first.time

\* The baseline is the last reading or none.
Recorded ==
  /\ last # None => last.time \in 1..clock /\ last.cpu <= cpuAt[last.time]
  /\ baseline \in {None, last}
  /\ lastObserved = IF platform = "docker" THEN 0 ELSE last.time

\* What the source has learned before it asks again stays true.
Sampling ==
  /\ at \in {"listed", "inspected", "recheck"} =>
       platform = "docker" /\ "runtime" \in started
  /\ at = "recheck" => ~running
  /\ at \in {"identify", "query"} => platform = "kubernetes" /\ first # None
  /\ class = "owned" => ~foreign

TInv == IInv /\ TelemetryType /\ Rises /\ Scrapes /\ Recorded /\ Sampling

LEMMA TelemetryBegins == TelemetryInit => TInv
<1> SUFFICES ASSUME TelemetryInit PROVE TInv
  OBVIOUS
<1> USE DEF TelemetryInit, None, clock
<1>1. IInv
  BY DeploymentInit
<1>2. cpuAt \in Seq(Nat) /\ Len(cpuAt) = 1
  OBVIOUS
<1>3. TelemetryType
  BY <1>2 DEF TelemetryType, Reads
<1>4. Rises
  BY <1>2, TelemetryAssumption DEF Rises
<1>5. Scrapes /\ Recorded /\ Sampling
  BY DEF Scrapes, IsScrape, Recorded, Sampling
<1> QED BY <1>1, <1>3, <1>4, <1>5 DEF TInv

\* A step of the deployment keeps what the source has learned.
LEMMA DeploymentMoves ==
  ASSUME TInv, [Next]_<<vars, platform>>, UNCHANGED telemetry
  PROVE  TInv'
<1> USE DEF TInv, telemetry, cluster, source, recorder
<1>1. IInv' /\ Keeps /\ UNCHANGED platform
  BY DeploymentNext, StepKeeps DEF Next
<1>2. (TelemetryType /\ Rises /\ Scrapes)'
  BY DEF TelemetryType, Rises, Scrapes, IsScrape, clock
<1>3. Recorded'
  BY <1>1 DEF Recorded, clock
<1>4. Sampling'
  BY <1>1 DEF Sampling, Keeps
<1> QED BY <1>1, <1>2, <1>3, <1>4

LEMMA DeploymentStays ==
  ASSUME IInv, UNCHANGED <<vars, platform>>
  PROVE  IInv'
BY DeploymentNext

LEMMA TickKeeps ==
  ASSUME TInv, Tick, UNCHANGED <<vars, platform>>
  PROVE  TInv'
<1> USE DEF TInv
<1>1. PICK use \in {0, 1} : cpuAt' = Append(cpuAt, cpuAt[clock] + use)
  BY DEF Tick
<1>2. /\ cpuAt' \in Seq(Nat) /\ clock' = clock + 1 /\ clock \in Nat \ {0}
      /\ \A i \in 1..clock : cpuAt'[i] = cpuAt[i] /\ cpuAt[i] \in Nat
      /\ cpuAt'[clock'] = cpuAt[clock] + use
  BY <1>1 DEF clock, TelemetryType
<1>3. UNCHANGED <<series, at, first, lastObserved, class, discoveryFailures, baseline,
                  missed, last, platform>>
  BY DEF Tick, source, recorder
<1>4. TelemetryType'
  BY <1>2, <1>3 DEF TelemetryType
<1>5. Rises'
  <2>a. \A k \in 1..clock' : cpuAt'[k] < k
    <3> SUFFICES ASSUME NEW k \in 1..clock' PROVE cpuAt'[k] < k
      OBVIOUS
    <3>1. CASE k \in 1..clock
      BY <1>2, <3>1 DEF Rises
    <3>2. CASE k = clock'
      BY <1>2, <3>2 DEF Rises
    <3> QED BY <1>2, <3>1, <3>2
  <2>b. clock' <= MaxClock + 1
    BY <1>2, TelemetryAssumption DEF Tick
  <2> SUFFICES ASSUME NEW i \in 1..clock', NEW j \in 1..clock', i <= j
               PROVE  cpuAt'[i] <= cpuAt'[j]
    BY <2>a, <2>b DEF Rises
  <2>1. CASE j \in 1..clock
    BY <1>2, <2>1 DEF Rises
  <2>2. CASE i \in 1..clock /\ j = clock'
    <3>1. cpuAt[i] <= cpuAt[clock]
      BY <1>2, <2>2 DEF Rises
    <3> QED BY <1>2, <2>2, <3>1
  <2>3. CASE i = clock' /\ j = clock'
    BY <1>2, <2>3
  <2> QED BY <1>2, <2>1, <2>2, <2>3
<1>6. Scrapes'
  BY <1>2, <1>3 DEF Scrapes, IsScrape, None
<1>7. Recorded'
  BY <1>2, <1>3 DEF Recorded, None
<1>8. Sampling'
  BY <1>3 DEF Sampling, vars, backend, flags
<1> QED BY <1>4, <1>5, <1>6, <1>7, <1>8, DeploymentStays

LEMMA ScrapeKeeps ==
  ASSUME TInv, Scrape, UNCHANGED <<vars, platform>>
  PROVE  TInv'
<1> USE DEF TInv, Scrape, source, recorder
<1>1. clock' = clock /\ cpuAt[clock] \in Nat
  BY DEF clock, TelemetryType
<1>2. TelemetryType'
  BY <1>1 DEF TelemetryType, Reads, None
<1>3. Rises' /\ Recorded'
  BY <1>1 DEF Rises, Recorded
<1>4. Scrapes'
  BY <1>1 DEF Scrapes, IsScrape, None, TelemetryType, Reads, Recorded
<1>5. Sampling'
  BY DEF Sampling, vars, backend, flags
<1> QED BY <1>2, <1>3, <1>4, <1>5, DeploymentStays

\* What ReadingsBracketed says of one step.
Bracketed ==
  last' # last =>
    /\ ~foreign
    /\ last.time > 0 => cpuAt[last.time] <= last'.cpu
    /\ last'.cpu <= cpuAt[last'.time]

\* A sample step that leaves the readings alone, or drops the baseline.
Quiet == UNCHANGED last /\ baseline' \in {baseline, None} /\ missed' \in Nat

LEMMA QuietRecorder ==
  ASSUME TInv, NoReading \/ Fails \/ UNCHANGED recorder
  PROVE  Quiet
BY DEF TInv, TelemetryType, NoReading, Fails, dropMissingBaselines, recorder, Quiet

\* The recorder takes a reading that follows the last one.
LEMMA Recording ==
  ASSUME TInv, NEW r \in Reads, Record(r),
         r.time \in 1..clock, r.time > last.time, r.cpu <= cpuAt[r.time],
         last # None => cpuAt[last.time] <= r.cpu
  PROVE  at' = "idle" /\ baseline' = r /\ last' = r /\ missed' = 0
<1>1. last # None => last.cpu <= r.cpu
  BY DEF TInv, TelemetryType, Reads, Recorded, clock
<1>2. baseline # None => r.cpu - baseline.cpu <= MaxRate * (r.time - baseline.time)
  <2> SUFFICES ASSUME baseline # None
               PROVE  r.cpu - baseline.cpu <= MaxRate * (r.time - baseline.time)
    OBVIOUS
  <2> DEFINE c == cpuAt[r.time]
             d == r.time - baseline.time
             u == r.cpu - baseline.cpu
  <2>1. /\ r.cpu \in Nat /\ r.time \in Nat /\ clock \in Nat
        /\ baseline.cpu \in Nat /\ baseline.time \in Nat /\ c \in Nat
    BY DEF TInv, TelemetryType, Reads, clock
  <2>2. c < r.time /\ r.time <= clock /\ clock <= MaxClock + 1 /\ r.cpu <= c
    BY DEF TInv, Rises
  <2>3. baseline = last
    BY DEF TInv, Recorded
  <2>4. d \in Nat /\ d >= 1 /\ u \in Nat /\ u <= MaxRate
    BY <1>1, <2>1, <2>2, <2>3, TelemetryAssumption
  <2>5. MaxRate \in Nat
    BY TelemetryAssumption
  <2> HIDE DEF d, u
  <2>6. MaxRate * d >= MaxRate
    BY <2>4, <2>5
  <2>7. u <= MaxRate * d
    BY <2>4, <2>5, <2>6
  <2> QED BY <2>7 DEF d, u
<1>3. Accepts(r)
  BY <1>1, <1>2 DEF TInv, Recorded, Accepts, None, TelemetryType, Reads
<1> QED BY <1>3 DEF Record

\* A sample step that records nothing.
LEMMA QuietKeeps ==
  ASSUME TInv, UNCHANGED <<vars, platform, cluster, lastObserved>>, Quiet,
         first' \in Reads, Scrapes', Sampling',
         at' \in {"idle", "listed", "inspected", "recheck", "identify", "query", "failed"},
         class' \in {"new", "owned", "unknown"}, discoveryFailures' \in Nat
  PROVE  TInv' /\ Bracketed
<1> USE DEF TInv, Quiet, cluster, clock
<1>1. TelemetryType'
  BY DEF TelemetryType, Reads, None
<1>2. Rises' /\ Recorded'
  BY DEF Rises, Recorded
<1>3. Bracketed
  BY DEF Bracketed
<1> QED BY <1>1, <1>2, <1>3, DeploymentStays

\* A sample step that records r.
LEMMA RecordKeeps ==
  ASSUME TInv, UNCHANGED <<vars, platform, cluster>>, NEW r \in Reads, Record(r),
         r.time \in 1..clock, r.time > last.time, r.cpu <= cpuAt[r.time],
         last # None => cpuAt[last.time] <= r.cpu,
         ~foreign, first' \in Reads, Scrapes', UNCHANGED <<class, discoveryFailures>>,
         lastObserved' = IF platform = "docker" THEN 0 ELSE r.time
  PROVE  TInv' /\ Bracketed
<1>1. at' = "idle" /\ baseline' = r /\ last' = r /\ missed' = 0
  BY Recording
<1>2. UNCHANGED <<cpuAt, series, platform, foreign, running, started>> /\ clock' = clock
  BY DEF cluster, clock, vars, backend, flags
<1>3. TelemetryType'
  BY <1>1, <1>2 DEF TInv, TelemetryType
<1>4. Rises' /\ Recorded'
  BY <1>1, <1>2 DEF TInv, Rises, Recorded
<1>5. Sampling'
  BY <1>1, <1>2 DEF TInv, Sampling
<1>6. Bracketed
  BY <1>1 DEF TInv, TelemetryType, Reads, None, Bracketed
<1> QED BY <1>3, <1>4, <1>5, <1>6, DeploymentStays DEF TInv

LEMMA SampleKeeps ==
  ASSUME TInv, Sample, UNCHANGED <<vars, platform>>
  PROVE  TInv' /\ Bracketed
<1>1. UNCHANGED <<foreign, running, started, objects, platform>>
  BY DEF vars, backend, flags
<1>2. UNCHANGED cluster /\ UNCHANGED <<cpuAt, series>> /\ clock' = clock
  BY DEF Sample, DockerList, DockerInspect, DockerStats, DockerRecheck, QueryCPU,
     Identify, QueryScraped, cluster, clock
<1> USE DEF TInv, source
<1>3. CASE DockerList \/ DockerInspect \/ DockerRecheck
  <2> USE <1>3 DEF DockerList, DockerInspect, DockerRecheck
  <2>1. ~(at = "recheck" /\ Live)
    BY DEF Sampling, Live
  <2>2. Quiet
    BY <2>1, QuietRecorder DEF Continues, Fails
  <2>3. /\ at' \in {"idle", "listed", "inspected", "failed"}
        /\ at' \in {"listed", "inspected"} => Live /\ platform = "docker"
    BY <2>1 DEF Continues, Fails, NoReading, Sampling
  <2>4. Sampling'
    BY <1>1, <2>3 DEF Sampling, Live, IInv, Runtime
  <2>5. Scrapes'
    BY <1>2 DEF Scrapes, IsScrape
  <2> QED BY <1>2, <2>2, <2>3, <2>4, <2>5, QuietKeeps DEF TelemetryType
<1>4. CASE DockerStats
  <2> USE <1>4 DEF DockerStats
  <2>1. Scrapes' /\ platform = "docker" /\ "runtime" \in started
    BY <1>2 DEF Scrapes, IsScrape, Sampling
  <2>2. CASE Live /\ clock > last.time /\ Record([cpu |-> cpuAt[clock], time |-> clock])
    <3> DEFINE r == [cpu |-> cpuAt[clock], time |-> clock]
    <3>1. clock \in 1..clock /\ cpuAt[clock] \in Nat
      BY DEF TelemetryType, clock
    <3>2. r \in Reads /\ r.time = clock /\ r.cpu = cpuAt[clock]
      BY <3>1 DEF Reads
    <3>3. last # None => cpuAt[last.time] <= r.cpu
      BY <3>1 DEF Rises, Recorded
    <3>4. ~foreign
      BY <2>2 DEF Live, Exists, IInv, Runtime
    <3>5. lastObserved' = 0 /\ first' \in Reads
      BY <2>1 DEF Recorded, TelemetryType
    <3> HIDE DEF r
    <3>6. Record(r)
      BY <2>2 DEF r
    <3> QED BY <1>2, <2>1, <2>2, <3>1, <3>2, <3>3, <3>4, <3>5, <3>6, RecordKeeps
  <2>3. CASE Fails \/ NoReading \/ (~Live /\ Exists /\ Continues("recheck"))
    <3>1. Quiet
      BY <2>3, QuietRecorder DEF Continues
    <3>2. at' \in {"idle", "recheck", "failed"} /\ (at' = "recheck" => ~running)
      BY <2>1, <2>3 DEF Continues, Fails, NoReading, Live
    <3>3. Sampling'
      BY <1>1, <2>1, <3>2 DEF Sampling
    <3> QED BY <1>2, <2>1, <3>1, <3>2, <3>3, QuietKeeps DEF TelemetryType
  <2> QED BY <2>2, <2>3
<1>5. CASE QueryCPU
  <2> USE <1>5 DEF QueryCPU
  <2>1. Quiet
    BY QuietRecorder DEF Continues
  <2>2. at' \in {"idle", "identify", "failed"} /\ first' \in {first, series}
    BY DEF Continues, Fails, NoReading
  <2>3. Sampling'
    BY <1>1 DEF Sampling, Continues, Fails, NoReading
  <2>4. Scrapes'
    BY <1>2 DEF Scrapes, IsScrape, TelemetryType, Reads
  <2> QED BY <1>2, <2>1, <2>2, <2>3, <2>4, QuietKeeps DEF TelemetryType
<1>6. CASE Identify
  <2> USE <1>6 DEF Identify
  <2>1. Quiet
    BY QuietRecorder DEF Continues
  <2>2. /\ at' \in {"query", "failed"} /\ class' \in {"new", "owned", "unknown"}
        /\ discoveryFailures' \in Nat
    BY DEF Continues, Fails, Discovered, TelemetryType
  <2>3. Sampling'
    BY <1>1, <2>2 DEF Sampling, Discovered
  <2>4. Scrapes'
    BY <1>2 DEF Scrapes, IsScrape
  <2> QED BY <1>2, <2>1, <2>2, <2>3, <2>4, QuietKeeps DEF TelemetryType
<1>7. CASE QueryScraped
  <2> USE <1>7 DEF QueryScraped
  <2>1. first' \in Reads /\ first' = None
    BY DEF None, Reads
  <2>2. platform = "kubernetes" /\ first # None
    BY DEF Sampling
  <2>3. CASE /\ class = "owned" /\ series # None /\ observationIsNew
             /\ Record(Reading) /\ lastObserved' = Reading.time
    <3> DEFINE r == Reading
    <3>1. r \in Reads /\ r.cpu = first.cpu /\ r.time = series.time
      BY DEF Reading, TelemetryType, Reads
    <3>2. /\ r.time \in 1..clock /\ r.time > last.time /\ first.time <= r.time
          /\ first.time \in 1..clock /\ first.cpu = cpuAt[first.time]
          /\ last.time <= first.time
      BY <2>2, <2>3, <3>1 DEF Scrapes, IsScrape, Recorded, observationIsNew
    <3>3. r.cpu <= cpuAt[r.time]
      BY <3>1, <3>2 DEF Rises
    <3>4. last # None => cpuAt[last.time] <= r.cpu
      BY <3>1, <3>2 DEF Rises, Recorded
    <3>5. ~foreign /\ UNCHANGED <<class, discoveryFailures>>
      BY <2>3 DEF Sampling
    <3>6. lastObserved' = r.time /\ Record(r)
      BY <2>3
    <3>7. Scrapes'
      BY <1>2, <2>1, <3>1, <3>6 DEF Scrapes, IsScrape, None, TelemetryType, Reads
    <3> HIDE DEF r
    <3> QED BY <1>2, <2>1, <2>2, <3>1, <3>2, <3>3, <3>4, <3>5, <3>6, <3>7, RecordKeeps
  <2>4. CASE (Fails \/ NoReading) /\ UNCHANGED lastObserved
    <3>1. Quiet /\ at' \in {"idle", "failed"}
      BY <2>4, QuietRecorder DEF Fails, NoReading
    <3>2. Sampling'
      BY <1>1, <3>1 DEF Sampling
    <3>3. Scrapes'
      BY <1>2, <2>1, <2>4 DEF Scrapes, IsScrape, None, TelemetryType, Reads
    <3> QED BY <1>2, <2>1, <2>4, <3>1, <3>2, <3>3, QuietKeeps DEF TelemetryType
  <2> QED BY <2>3, <2>4
<1> QED BY <1>3, <1>4, <1>5, <1>6, <1>7 DEF Sample

LEMMA TelemetryMoves ==
  TInv /\ [TelemetryNext]_<<vars, platform, telemetry>> =>
    TInv' /\ [Bracketed]_telemetry
<1> SUFFICES ASSUME TInv, [TelemetryNext]_<<vars, platform, telemetry>>
             PROVE  TInv' /\ [Bracketed]_telemetry
  OBVIOUS
<1>1. CASE [Next]_<<vars, platform>> /\ UNCHANGED telemetry
  BY <1>1, DeploymentMoves
<1>2. CASE (Tick \/ Scrape) /\ UNCHANGED <<vars, platform>>
  <2>1. UNCHANGED last
    BY <1>2 DEF Tick, Scrape, recorder
  <2> QED BY <1>2, <2>1, TickKeeps, ScrapeKeeps DEF Bracketed
<1>3. CASE Sample /\ UNCHANGED <<vars, platform>>
  BY <1>3, SampleKeeps
<1> QED BY <1>1, <1>2, <1>3 DEF TelemetryNext

-----------------------------------------------------------------------------
(* Theorems about the telemetry *)

(***************************************************************************)
(* Sampling only reads: the deployments behave under telemetry as without  *)
(* it, so that the theorems above hold of the whole specification.         *)
(***************************************************************************)
THEOREM TelemetryOnlyReads == TelemetrySpec => Spec
<1>1. TelemetryInit => PlatformInit
  BY DEF TelemetryInit
<1>2. [TelemetryNext]_<<vars, platform, telemetry>> => [Next]_<<vars, platform>>
  BY DEF TelemetryNext
<1> QED BY <1>1, <1>2, PTL DEF TelemetrySpec, Spec

(***************************************************************************)
(* No stop, removal, crash, lost listing or repeated scrape makes the      *)
(* recorder or a resource source reject a reading, for every bound on time *)
(* and on failures.                                                        *)
(***************************************************************************)
THEOREM TelemetrySafe == TelemetrySpec => []TelemetrySurvives
<1>1. TInv => TelemetrySurvives
  BY DEF TInv, TelemetryType, TelemetrySurvives
<1> QED BY <1>1, TelemetryBegins, TelemetryMoves, PTL DEF TelemetrySpec

(***************************************************************************)
(* Every reading recorded lies between the runtime's own counter at the    *)
(* last recorded time and at its own time, although the counter and its    *)
(* time come from different queries.                                       *)
(***************************************************************************)
THEOREM ReadingsTrue == TelemetrySpec => ReadingsBracketed
<1>1. ReadingsBracketed <=> [][Bracketed]_telemetry
  BY PTL DEF ReadingsBracketed, Bracketed
<1> QED BY <1>1, TelemetryBegins, TelemetryMoves, PTL DEF TelemetrySpec
=============================================================================
