-------------------------- MODULE DockerDeployment --------------------------
(***************************************************************************)
(* The Docker deployment (pkg/deployment/docker): Create with its recovery *)
(* of a lost answer by name and labels, Stop that confirms absence, and    *)
(* the network of a run, whose task handles only borrow it.                *)
(***************************************************************************)
EXTENDS DeploymentBackend

-----------------------------------------------------------------------------
(* RunEnvironment *)

\* Start refuses (no run ID, no randomness) or fixes the network's name.
RunStart ==
  /\ MayStartRun
  /\ started' = started \cup {"run"}
  /\ \/ UNCHANGED <<claimed, pc>>
     \/ claimed' = claimed \cup {"run"} /\ Goto("createNetwork")
  /\ UNCHANGED <<backend, ended, known, ready, forward, calls>>

\* An error may come with the identity or without it.
CreateNetwork ==
  /\ pc = "createNetwork" /\ Returns
  /\ \/ CreateSucceeds("run") /\ known' = {"run"} /\ ready' = ready \cup {"run"}
     \/ CreateFails("run") /\ known' \in {{}, objects' \cap {"run"}} /\ UNCHANGED ready
  /\ UNCHANGED <<started, ended, claimed, forward, calls>>

\* Mutant: without an identity there is nothing to remove.
RunStopKnown ==
  /\ MayEndRun
  /\ IF known = {}
       THEN Ends("run") /\ UNCHANGED pc
       ELSE Goto("inspectNetwork") /\ UNCHANGED ended
  /\ ready' = ready \ {"run"}
  /\ UNCHANGED <<backend, started, claimed, known, forward, calls>>

\* Stop looks for the network by its name when a lost answer hid its
\* identity, inspects it, removes it and confirms that it is gone.
RunStop ==
  /\ MayEndRun
  /\ IF claimed = {}
       THEN Ends("run") /\ UNCHANGED pc
       ELSE Goto(IF known = {} THEN "recoverNetwork" ELSE "inspectNetwork") /\ UNCHANGED ended
  /\ ready' = ready \ {"run"}
  /\ UNCHANGED <<backend, started, claimed, known, forward, calls>>

NetworkFound(from, to) ==
  /\ pc = from
  /\ \E a \in Answers("run") :
       CASE a = "found" -> Goto(to) /\ known' = {"run"} /\ UNCHANGED ended
         [] a = "missing" -> Returns /\ Ends("run") /\ UNCHANGED known
         [] OTHER -> Returns /\ UNCHANGED <<known, ended>>
  /\ UNCHANGED <<backend, started, claimed, ready, forward, calls>>
RecoverNetwork == NetworkFound("recoverNetwork", "inspectNetwork")
InspectNetwork == NetworkFound("inspectNetwork", "removeNetwork")

\* The daemon refuses to remove a network with a container on it.
RemoveNetwork ==
  /\ pc = "removeNetwork" /\ Goto("verifyNetwork")
  /\ \/ "runtime" \notin objects /\ DeleteSucceeds("run")
     \/ "runtime" \notin objects /\ DeleteFails("run")
     \/ UNCHANGED backend
  /\ UNCHANGED <<flags, calls>>

VerifyNetwork ==
  /\ pc = "verifyNetwork" /\ Returns
  /\ \E a \in Answers("run") : IF a = "missing" THEN Ends("run") ELSE UNCHANGED ended
  /\ UNCHANGED <<backend, started, claimed, known, ready, forward, calls>>

\* RunEnvironment.validate: the network is known, not given up, and there.
NetworkActive == "run" \in known \ ended /\ "found" \in Answers("run")

\* taskEnvironment.Start only confirms the network; Stop gives the handle up.
TaskStart ==
  /\ MayStartTask
  /\ started' = started \cup {"task"}
  /\ \/ NetworkActive /\ ready' = ready \cup {"task"}
     \/ UNCHANGED ready
  /\ UNCHANGED <<backend, ended, claimed, known, forward, calls, pc>>

TaskStop ==
  /\ MayEndTask /\ Ends("task")
  /\ ready' = ready \ {"task"}
  /\ UNCHANGED <<backend, started, claimed, known, forward, calls, pc>>

-----------------------------------------------------------------------------
(* Manager.Create, Validate, Start *)

\* A request that cannot be honoured is refused before any call.
CreateRefused ==
  /\ MayCreate /\ Create("absent")
  /\ UNCHANGED <<backend, flags>>

\* An answer with an identity is returned even when it is an error.
ContainerCreate ==
  /\ MayCreate
  /\ \/ CreateSucceeds("runtime") /\ Create("identity")
     \/ CreateFails("runtime") /\ Goto("recover") /\ UNCHANGED calls
  /\ UNCHANGED flags

\* Mutant: whatever has the name is taken for ours.
RecoverByName ==
  /\ pc = "recover"
  /\ \E a \in Answers("runtime") :
       Create(CASE a = "found" -> "identity"
                [] a = "missing" -> "absent"
                [] OTHER -> "unconfirmed")
  /\ UNCHANGED <<backend, flags>>

\* A lost answer: the container is looked up by name, on a context of its
\* own, and is ours only if it has all of the request's labels.
Recover ==
  /\ pc = "recover"
  /\ \E a \in Answers("runtime") :
       Create(CASE a = "found" /\ ~foreign -> "identity"
                [] a = "missing" -> "absent"
                [] OTHER -> "unconfirmed")
  /\ UNCHANGED <<backend, flags>>

\* Validate accepts the container only if it is as requested.
Validate ==
  /\ MayStop /\ "runtime" \in objects
  /\ ready' = ready \cup {"runtime"}
  /\ UNCHANGED <<backend, started, ended, claimed, known, forward, calls, pc>>

Start ==
  /\ MayStart
  /\ running' = TRUE /\ started' = started \cup {"runtime"}
  /\ UNCHANGED <<objects, deleting, foreign, ended, claimed, known, ready, forward,
                 calls, pc>>

-----------------------------------------------------------------------------
(* Manager.Stop *)

\* Inspect: a missing container needs nothing, one that stands still is
\* removed at once.
Stop ==
  /\ MayStop
  /\ \E a \in Answers("runtime") :
       CASE a = "missing" -> confirmed' = TRUE /\ UNCHANGED pc
         [] a = "found" /\ ~running -> Goto("remove") /\ UNCHANGED confirmed
         [] OTHER -> Goto("stopContainer") /\ UNCHANGED confirmed
  /\ UNCHANGED <<backend, flags, outcome>>

StopContainer ==
  /\ pc = "stopContainer" /\ Goto("inspectStopped")
  /\ running' \in {running, FALSE}
  /\ UNCHANGED <<objects, deleting, foreign, flags, calls>>

\* A container that still runs, or may run, is killed.
InspectStopped ==
  /\ pc = "inspectStopped"
  /\ \E a \in Answers("runtime") :
       Goto(IF a = "error" \/ running THEN "kill" ELSE "remove")
  /\ UNCHANGED <<backend, flags, calls>>

Kill ==
  /\ pc = "kill" /\ Goto("remove")
  /\ running' \in {running, FALSE}
  /\ UNCHANGED <<objects, deleting, foreign, flags, calls>>

\* The container with the identity is removed, by force.
Remove ==
  /\ pc = "remove" /\ Goto("verify")
  /\ DeleteSucceeds("runtime") \/ DeleteFails("runtime")
  /\ UNCHANGED <<flags, calls>>

\* Mutant: a removal without an error is taken for gone.
VerifyNothing ==
  /\ pc = "verify" /\ Returns
  /\ confirmed' = TRUE
  /\ UNCHANGED <<backend, flags, outcome>>

\* The last inspection alone decides what Stop returns.
Verify ==
  /\ pc = "verify" /\ Returns
  /\ \E a \in Answers("runtime") : confirmed' = (a = "missing")
  /\ UNCHANGED <<backend, flags, outcome>>

Next ==
  \/ RunStart \/ CreateNetwork \/ RunStop \/ RecoverNetwork \/ InspectNetwork
  \/ RemoveNetwork \/ VerifyNetwork \/ TaskStart \/ TaskStop
  \/ CreateRefused \/ ContainerCreate \/ Recover \/ Validate \/ Start
  \/ Stop \/ StopContainer \/ InspectStopped \/ Kill \/ Remove \/ Verify
=============================================================================
