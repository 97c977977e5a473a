------------------------- MODULE RunLifecycle_proofs ------------------------
(***************************************************************************)
(* Proofs about one run of the application, for any profile, pool and      *)
(* index limit: when Run returns everything has come to its end or is      *)
(* reported, and a nil error means a complete run.  After them, the        *)
(* managed model server that the run owns.                                 *)
(***************************************************************************)
EXTENDS RunLifecycle, SglangRuntime, TLAPS

-----------------------------------------------------------------------------
(* runProfile *)

ProfileType ==
  /\ mode \in {"once", "loop", "arrivals"} /\ pos \in 1..(NumTasks + 1)
  /\ pc \in {"next", "check", "select", "admit", "wait", "returned"}
  /\ slots \in Seq(Profile!Slot)
  /\ cancelled \in BOOLEAN /\ expired \in BOOLEAN /\ fired \in BOOLEAN

(***************************************************************************)
(* A task that has ended reported its result or an error, one that runs    *)
(* has none yet, and the slot of an overflow holds its error.              *)
(***************************************************************************)
Accounted ==
  \A i \in DOMAIN slots :
    /\ slots[i].state \in {"stored", "done"} /\ ~slots[i].err => slots[i].reported
    /\ slots[i].state = "overflow" => slots[i].err
    /\ slots[i].state = "running" => ~slots[i].err

Overflowed == \E i \in DOMAIN slots : slots[i].state = "overflow"

(***************************************************************************)
(* Without a deadline the slots are the tasks passed so far, and the       *)
(* dispatcher stops early only on a cancellation or an overflow.           *)
(***************************************************************************)
Counted ==
  /\ pc \in {"check", "select", "admit"} => pos <= NumTasks
  /\ mode # "loop" =>
       /\ ~expired /\ ~fired
       /\ Len(slots) = pos - 1 \/ Overflowed
       /\ pc \in {"wait", "returned"} => pos > NumTasks \/ cancelled \/ Overflowed

AllRan == \A i \in DOMAIN slots :
            slots[i].state = "done" /\ slots[i].reported /\ ~slots[i].err

CompleteResult ==
  pc = "returned" /\ ~result.err =>
    AllRan /\ (mode # "loop" => result.tasks = 1..NumTasks)

(***************************************************************************)
(* A task leaves nothing open but the source of a recorder that could not  *)
(* be stopped, and has an error then.                                      *)
(***************************************************************************)
Leftover ==
  /\ left \subseteq {"resources"}
  /\ left # {} => \E i \in DOMAIN slots : slots[i].err

PInv == ProfileType /\ Accounted /\ Counted /\ CompleteResult /\ Leftover

(***************************************************************************)
(* What a slot at the end of the sequence, and what a change of one slot,  *)
(* leave as they were.                                                     *)
(***************************************************************************)
LEMMA Appended ==
  ASSUME NEW S, NEW s \in Seq(S), NEW e \in S
  PROVE  /\ Append(s, e) \in Seq(S) /\ Len(Append(s, e)) = Len(s) + 1
         /\ DOMAIN s = 1..Len(s) /\ DOMAIN Append(s, e) = 1..(Len(s) + 1)
         /\ \A i \in 1..Len(s) : Append(s, e)[i] = s[i]
         /\ Append(s, e)[Len(s) + 1] = e
  OBVIOUS

LEMMA Updated ==
  ASSUME NEW S, NEW s \in Seq(S), NEW j \in DOMAIN s, NEW e \in S
  PROVE  /\ [s EXCEPT ![j] = e] \in Seq(S) /\ DOMAIN [s EXCEPT ![j] = e] = DOMAIN s
         /\ [s EXCEPT ![j] = e][j] = e
         /\ \A i \in DOMAIN s : i # j => [s EXCEPT ![j] = e][i] = s[i]
  OBVIOUS

(***************************************************************************)
(* The dispatcher, the goroutines of its tasks, the clock and the caller's *)
(* cancellation keep them.                                                 *)
(***************************************************************************)
LEMMA ProfileNext ==
  ASSUME PInv,
         \/ pc # "returned" /\ (Profile!Dispatch \/ Profile!Goroutine)
         \/ Profile!Time \/ Profile!Cancel \/ UNCHANGED profile
  PROVE  PInv'
<1> USE RunAssumption DEF PInv, Profile!dispatcher, Profile!occurrences, Profile!clock,
   Profile!Goto
<1>1. ASSUME Profile!NextTask
      PROVE  PInv'
  <2> USE <1>1 DEF Profile!NextTask, Profile!Position
  <2>1. ProfileType'
    BY DEF ProfileType
  <2>2. Accounted'
    BY DEF ProfileType, Accounted
  <2>3. Counted'
    BY DEF ProfileType, Counted, Overflowed
  <2>4. CompleteResult'
    BY DEF CompleteResult, AllRan
  <2>5. Leftover'
    BY DEF Leftover
  <2> QED BY <2>1, <2>2, <2>3, <2>4, <2>5
<1>2. ASSUME Profile!Check
      PROVE  PInv'
  <2> USE <1>2 DEF Profile!Check
  <2>1. ProfileType'
    BY DEF ProfileType
  <2>2. Accounted'
    BY DEF ProfileType, Accounted
  <2>3. Counted'
    BY DEF ProfileType, Counted, Overflowed
  <2>4. CompleteResult'
    BY DEF CompleteResult, AllRan
  <2>5. Leftover'
    BY DEF Leftover
  <2> QED BY <2>1, <2>2, <2>3, <2>4, <2>5
<1>3. ASSUME Profile!Select
      PROVE  PInv'
  <2> USE <1>3 DEF Profile!Select
  <2>1. ProfileType'
    BY DEF ProfileType
  <2>2. Accounted'
    BY DEF ProfileType, Accounted
  <2>3. Counted'
    BY DEF ProfileType, Counted, Overflowed
  <2>4. CompleteResult'
    BY DEF CompleteResult, AllRan
  <2>5. Leftover'
    BY DEF Leftover
  <2> QED BY <2>1, <2>2, <2>3, <2>4, <2>5
<1>4. ASSUME Profile!Admit
      PROVE  PInv'
  <2> DEFINE over == [task |-> pos, state |-> "overflow", reported |-> FALSE, err |-> TRUE]
             run  == [task |-> pos, state |-> "running", reported |-> FALSE, err |-> FALSE]
  <2>a. pos \in 1..NumTasks /\ pc = "admit"
    BY <1>4 DEF Profile!Admit, ProfileType, Counted
  <2>b. /\ over \in Profile!Slot /\ over.state = "overflow" /\ over.err = TRUE
        /\ run \in Profile!Slot /\ run.state = "running" /\ ~run.err
    BY <2>a DEF Profile!Slot
  <2>c. /\ mode' = mode /\ cancelled' = cancelled /\ expired' = expired /\ fired' = fired
        /\ pc' # "returned" /\ left' = left
        /\ \/ /\ slots' = slots /\ pos' = pos /\ pc' = "wait" /\ (cancelled \/ expired)
           \/ /\ slots' = Append(slots, over) /\ pos' = pos /\ pc' = "wait"
           \/ /\ slots' = Append(slots, run) /\ pos' = pos + 1 /\ pc' = "next"
    BY <1>4 DEF Profile!Admit, Profile!TooLate
  <2>d. slots \in Seq(Profile!Slot)
    BY DEF ProfileType
  <2> HIDE DEF over, run
  <2>e. slots' \in Seq(Profile!Slot)
    BY <2>b, <2>c, <2>d, Appended
  <2>1. ProfileType'
    BY <2>a, <2>c, <2>e DEF ProfileType
  <2>2. Accounted'
    <3>1. CASE slots' = slots
      BY <3>1 DEF Accounted
    <3>2. CASE slots' = Append(slots, over)
      BY <3>2, <2>b, <2>d, Appended DEF Accounted
    <3>3. CASE slots' = Append(slots, run)
      BY <3>3, <2>b, <2>d, Appended DEF Accounted
    <3> QED BY <2>c, <3>1, <3>2, <3>3
  <2>3. Counted'
    <3>1. CASE slots' = slots /\ pos' = pos /\ pc' = "wait" /\ (cancelled \/ expired)
      BY <2>a, <2>c, <3>1 DEF ProfileType, Counted, Overflowed
    <3>2. CASE slots' = Append(slots, over) /\ pos' = pos /\ pc' = "wait"
      <4>1. Overflowed'
        BY <3>2, <2>b, <2>d, Appended DEF Overflowed
      <4> QED BY <2>a, <2>c, <3>2, <4>1 DEF ProfileType, Counted
    <3>3. CASE slots' = Append(slots, run) /\ pos' = pos + 1 /\ pc' = "next"
      <4>1. Len(slots') = Len(slots) + 1 /\ (Overflowed => Overflowed')
        BY <3>3, <2>b, <2>d, Appended DEF Overflowed
      <4> QED BY <2>a, <2>c, <2>d, <3>3, <4>1 DEF ProfileType, Counted
    <3> QED BY <2>c, <3>1, <3>2, <3>3
  <2>4. CompleteResult'
    BY <2>c DEF CompleteResult
  <2>5. Leftover'
    <3>1. \A i \in DOMAIN slots : i \in DOMAIN slots' /\ slots'[i] = slots[i]
      BY <2>b, <2>c, <2>d, Appended
    <3> QED BY <2>c, <3>1 DEF Leftover
  <2> QED BY <2>1, <2>2, <2>3, <2>4, <2>5
<1>5. ASSUME Profile!Collect
      PROVE  PInv'
  <2> USE <1>5 DEF Profile!Collect, Profile!AllDone, Profile!RunError,
     Profile!Reported
  <2>1. ProfileType'
    BY DEF ProfileType
  <2>2. Accounted'
    BY DEF ProfileType, Accounted
  <2>3. Counted'
    BY DEF ProfileType, Counted, Overflowed
  <2>4. CompleteResult'
    <3> SUFFICES ASSUME ~result'.err
                 PROVE  AllRan /\ (mode # "loop" => result'.tasks = 1..NumTasks)
      BY DEF CompleteResult, AllRan
    <3>1. ~cancelled /\ \A i \in DOMAIN slots : ~slots[i].err
      OBVIOUS
    <3>2. AllRan
      BY <3>1 DEF Accounted, AllRan
    <3>3. DOMAIN slots = 1..Len(slots)
      BY DEF ProfileType
    <3>4. ASSUME mode # "loop" PROVE Len(slots) = NumTasks
      <4>1. ~Overflowed
        BY <3>2 DEF AllRan, Overflowed
      <4> QED BY <3>1, <3>4, <4>1 DEF ProfileType, Counted
    <3>5. result'.tasks = DOMAIN slots
      BY <3>2 DEF AllRan
    <3> QED BY <3>2, <3>3, <3>4, <3>5
  <2>5. Leftover'
    BY DEF Leftover
  <2> QED BY <2>1, <2>2, <2>3, <2>4, <2>5
<1>6. ASSUME NEW j \in DOMAIN slots, pc # "returned", Profile!OccurrenceEnds(j)
      PROVE  PInv'
  <2> PICK o \in Profile!buildTaskExperiment \cup Profile!RunExperiment :
        /\ slots' = [slots EXCEPT ![j].state = "stored", ![j].reported = o.reported,
                                  ![j].err = o.err]
        /\ left' = left \cup o.left
    BY <1>6 DEF Profile!OccurrenceEnds
  <2>a. /\ o.reported \in BOOLEAN /\ o.err \in BOOLEAN /\ (~o.reported => o.err)
        /\ o.left \subseteq {"resources"} /\ (o.left # {} => o.err)
    <3>1. CASE o \in Profile!buildTaskExperiment
      <4>1. PICK k \in 1..6 : o = [reported |-> FALSE, err |-> TRUE,
                                  left |-> Profile!OpenBefore(k) \ Profile!ClosedAfter(k)]
        BY <3>1 DEF Profile!buildTaskExperiment, Profile!Constructors
      <4>2. o.reported = FALSE /\ o.err = TRUE
            /\ o.left = Profile!OpenBefore(k) \ Profile!ClosedAfter(k)
        BY <4>1
      <4>3. Profile!OpenBefore(k) \ Profile!ClosedAfter(k) = {}
        BY DEF Profile!OpenBefore, Profile!ClosedAfter, Profile!Constructors,
           Profile!closeOccurrenceClients
      <4> QED BY <4>2, <4>3
    <3>2. CASE o \in Profile!RunExperiment
      <4>1. PICK p \in Profile!runObserved, fails \in BOOLEAN :
              o = [reported |-> p.reported, err |-> p.err \/ fails,
                   left |-> p.left \ Profile!closeOccurrenceClients]
        BY <3>2 DEF Profile!RunExperiment
      <4>2. /\ p.reported \in BOOLEAN /\ p.err \in BOOLEAN
            /\ p.left \subseteq {"harness", "sandbox", "resources"}
            /\ ~p.reported \/ "resources" \in p.left => p.err
        BY DEF Profile!runObserved, Profile!Outcome, Profile!Clients
      <4>3. /\ o.reported = p.reported /\ o.err = (p.err \/ fails)
            /\ o.left = p.left \ Profile!closeOccurrenceClients
        BY <4>1
      <4> QED BY <4>2, <4>3 DEF Profile!closeOccurrenceClients
    <3> QED BY <3>1, <3>2
  <2>b. /\ slots' \in Seq(Profile!Slot) /\ DOMAIN slots' = DOMAIN slots
        /\ \A i \in DOMAIN slots : i # j => slots'[i] = slots[i]
        /\ slots'[j].state = "stored" /\ slots'[j].reported = o.reported
        /\ slots'[j].err = o.err
    <3>1. slots \in Seq(Profile!Slot) /\ j \in DOMAIN slots /\ slots[j] \in Profile!Slot
      BY <1>6 DEF ProfileType
    <3> DEFINE e == [slots[j] EXCEPT !.state = "stored", !.reported = o.reported, !.err = o.err]
    <3>2. e \in Profile!Slot /\ e.state = "stored" /\ e.reported = o.reported /\ e.err = o.err
      BY <2>a, <3>1 DEF Profile!Slot
    <3>3. slots' = [slots EXCEPT ![j] = e]
      OBVIOUS
    <3> HIDE DEF e
    <3> QED BY <3>1, <3>2, <3>3, Updated
  <2> USE <1>6 DEF Profile!OccurrenceEnds
  <2>1. ProfileType'
    BY <2>b DEF ProfileType
  <2>2. Accounted'
    BY <2>a, <2>b DEF Accounted
  <2>3. Counted'
    <3>1. Overflowed' <=> Overflowed
      BY <2>b DEF Overflowed
    <3>2. Len(slots') = Len(slots)
      BY <2>b DEF ProfileType
    <3> QED BY <3>1, <3>2 DEF Counted
  <2>4. CompleteResult'
    BY DEF CompleteResult, AllRan
  <2>5. Leftover'
    BY <2>a, <2>b DEF Accounted, Leftover
  <2> QED BY <2>1, <2>2, <2>3, <2>4, <2>5
<1>7. ASSUME NEW j \in DOMAIN slots, pc # "returned", Profile!OccurrenceReleases(j)
      PROVE  PInv'
  <2>b. /\ slots' \in Seq(Profile!Slot) /\ DOMAIN slots' = DOMAIN slots
        /\ \A i \in DOMAIN slots : i # j => slots'[i] = slots[i]
        /\ slots'[j].state = "done" /\ slots'[j].reported = slots[j].reported
        /\ slots'[j].err = slots[j].err
    <3>1. slots \in Seq(Profile!Slot) /\ j \in DOMAIN slots /\ slots[j] \in Profile!Slot
      BY <1>7 DEF ProfileType
    <3> DEFINE e == [slots[j] EXCEPT !.state = "done"]
    <3>2. e \in Profile!Slot /\ e.state = "done" /\ e.reported = slots[j].reported /\ e.err = slots[j].err
      BY <3>1 DEF Profile!Slot
    <3>3. slots' = [slots EXCEPT ![j] = e]
      BY <1>7 DEF Profile!OccurrenceReleases
    <3> HIDE DEF e
    <3> QED BY <3>1, <3>2, <3>3, Updated
  <2> USE <1>7 DEF Profile!OccurrenceReleases
  <2>1. ProfileType'
    BY <2>b DEF ProfileType
  <2>2. Accounted'
    BY <2>b DEF Profile!OccurrenceReleases, Accounted
  <2>3. Counted'
    BY DEF ProfileType, Counted, Overflowed
  <2>4. CompleteResult'
    BY DEF CompleteResult, AllRan
  <2>5. Leftover'
    BY <2>b DEF Leftover
  <2> QED BY <2>1, <2>2, <2>3, <2>4, <2>5
<1>8. ASSUME Profile!Deadline
      PROVE  PInv'
  <2> USE <1>8 DEF Profile!Deadline
  <2>1. ProfileType'
    BY DEF ProfileType
  <2>2. Accounted'
    BY DEF ProfileType, Accounted
  <2>3. Counted'
    BY DEF ProfileType, Counted, Overflowed
  <2>4. CompleteResult'
    BY DEF CompleteResult, AllRan
  <2>5. Leftover'
    BY DEF Leftover
  <2> QED BY <2>1, <2>2, <2>3, <2>4, <2>5
<1>9. ASSUME Profile!Arrive
      PROVE  PInv'
  <2> USE <1>9 DEF Profile!Arrive
  <2>1. ProfileType'
    BY DEF ProfileType
  <2>2. Accounted'
    BY DEF ProfileType, Accounted
  <2>3. Counted'
    BY DEF ProfileType, Counted, Overflowed
  <2>4. CompleteResult'
    BY DEF CompleteResult, AllRan
  <2>5. Leftover'
    BY DEF Leftover
  <2> QED BY <2>1, <2>2, <2>3, <2>4, <2>5
<1>10. ASSUME Profile!Cancel
      PROVE  PInv'
  <2> USE <1>10 DEF Profile!Cancel
  <2>1. ProfileType'
    BY DEF ProfileType
  <2>2. Accounted'
    BY DEF ProfileType, Accounted
  <2>3. Counted'
    BY DEF ProfileType, Counted, Overflowed
  <2>4. CompleteResult'
    BY DEF CompleteResult, AllRan
  <2>5. Leftover'
    BY DEF Leftover
  <2> QED BY <2>1, <2>2, <2>3, <2>4, <2>5
<1>11. ASSUME UNCHANGED profile
      PROVE  PInv'
  <2> USE <1>11 DEF profile
  <2>1. ProfileType'
    BY DEF ProfileType
  <2>2. Accounted'
    BY DEF ProfileType, Accounted
  <2>3. Counted'
    BY DEF ProfileType, Counted, Overflowed
  <2>4. CompleteResult'
    BY DEF CompleteResult, AllRan
  <2>5. Leftover'
    BY DEF Leftover
  <2> QED BY <2>1, <2>2, <2>3, <2>4, <2>5
<1> QED BY <1>1, <1>2, <1>3, <1>4, <1>5, <1>6, <1>7, <1>8, <1>9, <1>10, <1>11
  DEF Profile!Dispatch, Profile!Goroutine, Profile!Time

-----------------------------------------------------------------------------
(* Run and its goroutines *)

MainPlaces ==
  {"prepare", "setup", "root", "startRuntime", "health", "preflight",
   "awaitPreflight", "validation", "schedule", "await", "stopRuntime", "detach",
   "release", "returned"}

WorkPlaces ==
  {"none", "construct", "environment", "bridge", "observer", "startBridge", "execute",
   "stopBridge", "stopObserver", "stopEnvironment", "close", "persist", "done"}

RunType ==
  /\ main \in MainPlaces /\ work \in WorkPlaces
  /\ err \in BOOLEAN /\ managed \in BOOLEAN /\ early \in BOOLEAN /\ log \in BOOLEAN
  /\ workErr \in BOOLEAN /\ service \in BOOLEAN /\ observer \in BOOLEAN
  /\ owned \in BOOLEAN
  /\ runtime \in {"none", "up", "exited", "stopped"}
  /\ source \in {"none", "open", "closed"} /\ closes \in 0..1
  /\ exists \subseteq {"network", "bridge"}
  /\ disk \subseteq {"root", "validation", "result"}

(***************************************************************************)
(* Each goroutine works only while Run waits for it.                       *)
(***************************************************************************)
Awaited ==
  /\ preflight \in {"none", "valid", "invalid"} \/ main = "awaitPreflight"
  /\ work \notin {"none", "done"} => main = "await"
  /\ main = "await" => work # "none"
  /\ work # "none" => main \in {"await", "stopRuntime", "detach", "release", "returned"}

(***************************************************************************)
(* What is taken is given back on the way out, or the error says so.       *)
(***************************************************************************)
Leaving == {"stopRuntime", "detach", "release", "returned"}

Deferred ==
  /\ log => main \notin {"prepare", "setup", "root", "release", "returned"}
  /\ keys # "none" => main \notin {"prepare", "returned"}
  /\ main \in {"startRuntime", "health", "stopRuntime"} => managed
  /\ runtime # "none" => managed /\ main \notin {"prepare", "setup", "root", "startRuntime"}
  /\ runtime = "up" /\ main \in {"detach", "release", "returned"} => err

(***************************************************************************)
(* An exit that came too early is still seen when Run looks for the last   *)
(* time, and an error ever after.                                          *)
(***************************************************************************)
EarlyExit ==
  early => /\ runtime \in {"exited", "stopped"}
           /\ main \notin Leaving => runtime = "exited"
           /\ main \in Leaving => err

(***************************************************************************)
(* Nobody leaves without an error but from the end of the work.            *)
(***************************************************************************)
OnDisk ==
  /\ main \in {"startRuntime", "health", "preflight", "awaitPreflight", "validation"} =>
       "root" \in disk
  /\ main = "schedule" \/ work # "none" => {"root", "validation"} \subseteq disk
  /\ work = "done" /\ ~workErr => "result" \in disk
  /\ main \in Leaving /\ ~err => work = "done" /\ ~workErr

(***************************************************************************)
(* The run's infrastructure, by how far the goroutine is: fresh, with its  *)
(* source open, with an owner of the source, and then each part gone or an *)
(* error kept.                                                             *)
(***************************************************************************)
Sources ==
  /\ work \in {"none", "construct"} => source = "none" /\ closes = 0
  /\ work \in {"none", "construct", "environment", "bridge", "observer"} =>
       ~observer /\ ~owned
  /\ work \in {"environment", "bridge", "observer"} => source = "open" /\ closes = 0
  /\ work \in {"startBridge", "execute", "stopBridge", "stopObserver"} =>
       /\ owned /\ ~observer => source = "closed"
       /\ observer \/ ~owned => source = "open" /\ closes = 0
  /\ work \in {"stopEnvironment", "close", "persist", "done"} /\ source # "closed" =>
       workErr /\ (source = "open" => observer)

Parts ==
  /\ work \in {"none", "construct"} => exists = {}
  /\ work \in {"environment", "bridge", "observer"} => "bridge" \notin exists
  /\ work \in {"observer", "startBridge", "execute"} => service
  /\ "bridge" \in exists => service
  /\ work \in {"stopObserver", "stopEnvironment", "close", "persist", "done"} /\
     "bridge" \in exists => workErr
  /\ work \in {"close", "persist", "done"} /\ "network" \in exists => workErr

Executing ==
  work \in {"stopBridge", "stopObserver", "stopEnvironment", "close", "persist", "done"}
  /\ ~workErr => pc = "returned" /\ ~result.err

IInv ==
  /\ PInv /\ RunType /\ Awaited /\ Deferred /\ EarlyExit /\ OnDisk /\ Sources
  /\ Parts /\ Executing

LEMMA IInvInit == Init => IInv
<1> SUFFICES ASSUME Init PROVE IInv
  OBVIOUS
<1>1. PInv
  <2>1. slots = <<>> /\ pos = 1 /\ pc = "next" /\ mode \in {"once", "loop", "arrivals"}
        /\ cancelled = FALSE /\ expired = FALSE /\ fired = FALSE /\ left = {}
    BY DEF Init, Profile!Init, Profile!Mode
  <2>2. slots \in Seq(Profile!Slot) /\ Len(slots) = 0 /\ DOMAIN slots = {}
    BY <2>1
  <2>3. ProfileType
    BY <2>1, <2>2, RunAssumption, 1 \in 1..(NumTasks + 1) DEF ProfileType
  <2>4. Accounted /\ Counted /\ CompleteResult /\ Leftover
    BY <2>1, <2>2, RunAssumption DEF Accounted, Counted, CompleteResult, Leftover
  <2> QED BY <2>3, <2>4 DEF PInv
<1>2. RunType
  <2>1. main \in MainPlaces /\ work \in WorkPlaces
    BY DEF Init, MainPlaces, WorkPlaces
  <2>2. /\ err \in BOOLEAN /\ managed \in BOOLEAN /\ early \in BOOLEAN /\ log \in BOOLEAN
        /\ workErr \in BOOLEAN /\ service \in BOOLEAN /\ observer \in BOOLEAN
        /\ owned \in BOOLEAN
    BY DEF Init
  <2> QED BY <2>1, <2>2 DEF Init, RunType
<1>3. Awaited /\ Deferred /\ EarlyExit /\ OnDisk
  BY DEF Init, Awaited, Deferred, Leaving, EarlyExit, OnDisk
<1>4. Sources /\ Parts /\ Executing
  BY DEF Init, Sources, Parts, Executing
<1> QED BY <1>1, <1>2, <1>3, <1>4 DEF IInv

(***************************************************************************)
(* Every step of Run, its goroutines, the model server and the caller      *)
(* keeps them.                                                             *)
(***************************************************************************)
LEMMA IInvNext == IInv /\ [Next]_vars => IInv'
<1> SUFFICES ASSUME IInv, [Next]_vars PROVE IInv'
  OBVIOUS
<1> USE DEF IInv, profile, control, model, worker, infra
<1>1. ASSUME Prepare
      PROVE  IInv'
  <2> USE <1>1 DEF Prepare, Fails
  <2>1. PInv'
    BY ProfileNext
  <2>2. RunType'
    <3>1. main' \in MainPlaces
      BY DEF RunType, MainPlaces
    <3>2. work' \in WorkPlaces
      BY DEF RunType, WorkPlaces
    <3>3. err' \in BOOLEAN
      BY DEF RunType
    <3>4. workErr' \in BOOLEAN
      BY DEF RunType
    <3>5. /\ managed' \in BOOLEAN /\ early' \in BOOLEAN /\ log' \in BOOLEAN
          /\ service' \in BOOLEAN /\ observer' \in BOOLEAN /\ owned' \in BOOLEAN
      BY DEF RunType
    <3>6. /\ runtime' \in {"none", "up", "exited", "stopped"}
          /\ source' \in {"none", "open", "closed"} /\ closes' \in 0..1
      BY DEF RunType, Sources
    <3>7. /\ exists' \subseteq {"network", "bridge"}
          /\ disk' \subseteq {"root", "validation", "result"}
      BY DEF RunType
    <3> QED BY <3>1, <3>2, <3>3, <3>4, <3>5, <3>6, <3>7 DEF RunType
  <2>3. Awaited'
    BY DEF RunType, Awaited
  <2>4. Deferred'
    BY DEF RunType, Deferred
  <2>5. EarlyExit'
    BY DEF RunType, Deferred, EarlyExit, Leaving
  <2>6. OnDisk'
    BY DEF RunType, Awaited, OnDisk, Leaving
  <2>7. Sources'
    BY DEF RunType, Awaited, Sources
  <2>8. Parts'
    BY DEF RunType, Awaited, Parts
  <2>9. Executing'
    BY DEF RunType, Awaited, Executing
  <2> QED BY <2>1, <2>2, <2>3, <2>4, <2>5, <2>6, <2>7, <2>8, <2>9
<1>2. ASSUME Setup
      PROVE  IInv'
  <2> USE <1>2 DEF Setup, Fails
  <2>1. PInv'
    BY ProfileNext
  <2>2. RunType'
    <3>1. main' \in MainPlaces
      BY DEF RunType, MainPlaces
    <3>2. work' \in WorkPlaces
      BY DEF RunType, WorkPlaces
    <3>3. err' \in BOOLEAN
      BY DEF RunType
    <3>4. workErr' \in BOOLEAN
      BY DEF RunType
    <3>5. /\ managed' \in BOOLEAN /\ early' \in BOOLEAN /\ log' \in BOOLEAN
          /\ service' \in BOOLEAN /\ observer' \in BOOLEAN /\ owned' \in BOOLEAN
      BY DEF RunType
    <3>6. /\ runtime' \in {"none", "up", "exited", "stopped"}
          /\ source' \in {"none", "open", "closed"} /\ closes' \in 0..1
      BY DEF RunType, Sources
    <3>7. /\ exists' \subseteq {"network", "bridge"}
          /\ disk' \subseteq {"root", "validation", "result"}
      BY DEF RunType
    <3> QED BY <3>1, <3>2, <3>3, <3>4, <3>5, <3>6, <3>7 DEF RunType
  <2>3. Awaited'
    BY DEF RunType, Awaited
  <2>4. Deferred'
    BY DEF RunType, Deferred
  <2>5. EarlyExit'
    BY DEF RunType, Deferred, EarlyExit, Leaving
  <2>6. OnDisk'
    BY DEF RunType, Awaited, OnDisk, Leaving
  <2>7. Sources'
    BY DEF RunType, Awaited, Sources
  <2>8. Parts'
    BY DEF RunType, Awaited, Parts
  <2>9. Executing'
    BY DEF RunType, Awaited, Executing
  <2> QED BY <2>1, <2>2, <2>3, <2>4, <2>5, <2>6, <2>7, <2>8, <2>9
<1>3. ASSUME CreateRoot
      PROVE  IInv'
  <2> USE <1>3 DEF CreateRoot, Fails
  <2>1. PInv'
    BY ProfileNext
  <2>2. RunType'
    <3>1. main' \in MainPlaces
      BY DEF RunType, MainPlaces
    <3>2. work' \in WorkPlaces
      BY DEF RunType, WorkPlaces
    <3>3. err' \in BOOLEAN
      BY DEF RunType
    <3>4. workErr' \in BOOLEAN
      BY DEF RunType
    <3>5. /\ managed' \in BOOLEAN /\ early' \in BOOLEAN /\ log' \in BOOLEAN
          /\ service' \in BOOLEAN /\ observer' \in BOOLEAN /\ owned' \in BOOLEAN
      BY DEF RunType
    <3>6. /\ runtime' \in {"none", "up", "exited", "stopped"}
          /\ source' \in {"none", "open", "closed"} /\ closes' \in 0..1
      BY DEF RunType, Sources
    <3>7. /\ exists' \subseteq {"network", "bridge"}
          /\ disk' \subseteq {"root", "validation", "result"}
      BY DEF RunType
    <3> QED BY <3>1, <3>2, <3>3, <3>4, <3>5, <3>6, <3>7 DEF RunType
  <2>3. Awaited'
    BY DEF RunType, Awaited
  <2>4. Deferred'
    BY DEF RunType, Deferred
  <2>5. EarlyExit'
    BY DEF RunType, Deferred, EarlyExit, Leaving
  <2>6. OnDisk'
    BY DEF RunType, Awaited, OnDisk, Leaving
  <2>7. Sources'
    BY DEF RunType, Awaited, Sources
  <2>8. Parts'
    BY DEF RunType, Awaited, Parts
  <2>9. Executing'
    BY DEF RunType, Awaited, Executing
  <2> QED BY <2>1, <2>2, <2>3, <2>4, <2>5, <2>6, <2>7, <2>8, <2>9
<1>4. ASSUME StartRuntime
      PROVE  IInv'
  <2> USE <1>4 DEF StartRuntime, Fails
  <2>1. PInv'
    BY ProfileNext
  <2>2. RunType'
    <3>1. main' \in MainPlaces
      BY DEF RunType, MainPlaces
    <3>2. work' \in WorkPlaces
      BY DEF RunType, WorkPlaces
    <3>3. err' \in BOOLEAN
      BY DEF RunType
    <3>4. workErr' \in BOOLEAN
      BY DEF RunType
    <3>5. /\ managed' \in BOOLEAN /\ early' \in BOOLEAN /\ log' \in BOOLEAN
          /\ service' \in BOOLEAN /\ observer' \in BOOLEAN /\ owned' \in BOOLEAN
      BY DEF RunType
    <3>6. /\ runtime' \in {"none", "up", "exited", "stopped"}
          /\ source' \in {"none", "open", "closed"} /\ closes' \in 0..1
      BY DEF RunType, Sources
    <3>7. /\ exists' \subseteq {"network", "bridge"}
          /\ disk' \subseteq {"root", "validation", "result"}
      BY DEF RunType
    <3> QED BY <3>1, <3>2, <3>3, <3>4, <3>5, <3>6, <3>7 DEF RunType
  <2>3. Awaited'
    BY DEF RunType, Awaited
  <2>4. Deferred'
    BY DEF RunType, Deferred
  <2>5. EarlyExit'
    BY DEF RunType, Deferred, EarlyExit, Leaving
  <2>6. OnDisk'
    BY DEF RunType, Awaited, OnDisk, Leaving
  <2>7. Sources'
    BY DEF RunType, Awaited, Sources
  <2>8. Parts'
    BY DEF RunType, Awaited, Parts
  <2>9. Executing'
    BY DEF RunType, Awaited, Executing
  <2> QED BY <2>1, <2>2, <2>3, <2>4, <2>5, <2>6, <2>7, <2>8, <2>9
<1>5. ASSUME Health
      PROVE  IInv'
  <2> USE <1>5 DEF Health, Fails
  <2>1. PInv'
    BY ProfileNext
  <2>2. RunType'
    <3>1. main' \in MainPlaces
      BY DEF RunType, MainPlaces
    <3>2. work' \in WorkPlaces
      BY DEF RunType, WorkPlaces
    <3>3. err' \in BOOLEAN
      BY DEF RunType
    <3>4. workErr' \in BOOLEAN
      BY DEF RunType
    <3>5. /\ managed' \in BOOLEAN /\ early' \in BOOLEAN /\ log' \in BOOLEAN
          /\ service' \in BOOLEAN /\ observer' \in BOOLEAN /\ owned' \in BOOLEAN
      BY DEF RunType
    <3>6. /\ runtime' \in {"none", "up", "exited", "stopped"}
          /\ source' \in {"none", "open", "closed"} /\ closes' \in 0..1
      BY DEF RunType, Sources
    <3>7. /\ exists' \subseteq {"network", "bridge"}
          /\ disk' \subseteq {"root", "validation", "result"}
      BY DEF RunType
    <3> QED BY <3>1, <3>2, <3>3, <3>4, <3>5, <3>6, <3>7 DEF RunType
  <2>3. Awaited'
    BY DEF RunType, Awaited
  <2>4. Deferred'
    BY DEF RunType, Deferred
  <2>5. EarlyExit'
    BY DEF RunType, Deferred, EarlyExit, Leaving
  <2>6. OnDisk'
    BY DEF RunType, Awaited, OnDisk, Leaving
  <2>7. Sources'
    BY DEF RunType, Awaited, Sources
  <2>8. Parts'
    BY DEF RunType, Awaited, Parts
  <2>9. Executing'
    BY DEF RunType, Awaited, Executing
  <2> QED BY <2>1, <2>2, <2>3, <2>4, <2>5, <2>6, <2>7, <2>8, <2>9
<1>6. ASSUME StartPreflight
      PROVE  IInv'
  <2> USE <1>6 DEF StartPreflight
  <2>1. PInv'
    BY ProfileNext
  <2>2. RunType'
    BY DEF RunType, MainPlaces, WorkPlaces
  <2>3. Awaited'
    BY DEF RunType, Awaited
  <2>4. Deferred'
    BY DEF RunType, Deferred
  <2>5. EarlyExit'
    BY DEF RunType, Deferred, EarlyExit, Leaving
  <2>6. OnDisk'
    BY DEF RunType, Awaited, OnDisk, Leaving
  <2>7. Sources'
    BY DEF RunType, Awaited, Sources
  <2>8. Parts'
    BY DEF RunType, Awaited, Parts
  <2>9. Executing'
    BY DEF RunType, Awaited, Executing
  <2> QED BY <2>1, <2>2, <2>3, <2>4, <2>5, <2>6, <2>7, <2>8, <2>9
<1>7. ASSUME AwaitPreflight
      PROVE  IInv'
  <2> USE <1>7 DEF AwaitPreflight, Completion, PreflightEnded, RuntimeExit
  <2>1. PInv'
    BY ProfileNext
  <2>2. RunType'
    BY DEF RunType, MainPlaces, WorkPlaces
  <2>3. Awaited'
    BY DEF RunType, Awaited
  <2>4. Deferred'
    BY DEF RunType, Deferred
  <2>5. EarlyExit'
    BY DEF RunType, Deferred, EarlyExit, Leaving
  <2>6. OnDisk'
    BY DEF RunType, Awaited, OnDisk, Leaving
  <2>7. Sources'
    BY DEF RunType, Awaited, Sources
  <2>8. Parts'
    BY DEF RunType, Awaited, Parts
  <2>9. Executing'
    BY DEF RunType, Awaited, Executing
  <2> QED BY <2>1, <2>2, <2>3, <2>4, <2>5, <2>6, <2>7, <2>8, <2>9
<1>8. ASSUME PersistValidation
      PROVE  IInv'
  <2> USE <1>8 DEF PersistValidation, Persist
  <2>1. PInv'
    BY ProfileNext
  <2>2. RunType'
    BY DEF RunType, MainPlaces, WorkPlaces
  <2>3. Awaited'
    BY DEF RunType, Awaited
  <2>4. Deferred'
    BY DEF RunType, Deferred
  <2>5. EarlyExit'
    BY DEF RunType, Deferred, EarlyExit, Leaving
  <2>6. OnDisk'
    BY DEF RunType, Awaited, OnDisk, Leaving
  <2>7. Sources'
    BY DEF RunType, Awaited, Sources
  <2>8. Parts'
    BY DEF RunType, Awaited, Parts
  <2>9. Executing'
    BY DEF RunType, Awaited, Executing
  <2> QED BY <2>1, <2>2, <2>3, <2>4, <2>5, <2>6, <2>7, <2>8, <2>9
<1>9. ASSUME Schedule
      PROVE  IInv'
  <2> USE <1>9 DEF Schedule, Fails
  <2>1. PInv'
    BY ProfileNext
  <2>2. RunType'
    <3>1. main' \in MainPlaces
      BY DEF RunType, MainPlaces
    <3>2. work' \in WorkPlaces
      BY DEF RunType, WorkPlaces
    <3>3. err' \in BOOLEAN
      BY DEF RunType
    <3>4. workErr' \in BOOLEAN
      BY DEF RunType
    <3>5. /\ managed' \in BOOLEAN /\ early' \in BOOLEAN /\ log' \in BOOLEAN
          /\ service' \in BOOLEAN /\ observer' \in BOOLEAN /\ owned' \in BOOLEAN
      BY DEF RunType
    <3>6. /\ runtime' \in {"none", "up", "exited", "stopped"}
          /\ source' \in {"none", "open", "closed"} /\ closes' \in 0..1
      BY DEF RunType, Sources
    <3>7. /\ exists' \subseteq {"network", "bridge"}
          /\ disk' \subseteq {"root", "validation", "result"}
      BY DEF RunType
    <3> QED BY <3>1, <3>2, <3>3, <3>4, <3>5, <3>6, <3>7 DEF RunType
  <2>3. Awaited'
    BY DEF RunType, Awaited
  <2>4. Deferred'
    BY DEF RunType, Deferred
  <2>5. EarlyExit'
    BY DEF RunType, Deferred, EarlyExit, Leaving
  <2>6. OnDisk'
    BY DEF RunType, Awaited, OnDisk, Leaving
  <2>7. Sources'
    BY DEF RunType, Awaited, Sources
  <2>8. Parts'
    BY DEF RunType, Awaited, Parts
  <2>9. Executing'
    BY DEF RunType, Awaited, Executing
  <2> QED BY <2>1, <2>2, <2>3, <2>4, <2>5, <2>6, <2>7, <2>8, <2>9
<1>10. ASSUME RuntimeLostInRun
      PROVE  IInv'
  <2> USE <1>10 DEF RuntimeLostInRun, Profile!Cancel, Profile!dispatcher, Profile!occurrences
  <2>1. PInv'
    BY ProfileNext
  <2>2. RunType'
    BY DEF RunType, MainPlaces, WorkPlaces
  <2>3. Awaited'
    BY DEF RunType, Awaited
  <2>4. Deferred'
    BY DEF RunType, Deferred
  <2>5. EarlyExit'
    BY DEF RunType, Deferred, EarlyExit, Leaving
  <2>6. OnDisk'
    BY DEF RunType, Awaited, OnDisk, Leaving
  <2>7. Sources'
    BY DEF RunType, Awaited, Sources
  <2>8. Parts'
    BY DEF RunType, Awaited, Parts
  <2>9. Executing'
    BY DEF RunType, Awaited, Executing
  <2> QED BY <2>1, <2>2, <2>3, <2>4, <2>5, <2>6, <2>7, <2>8, <2>9
<1>11. ASSUME Await
      PROVE  IInv'
  <2> USE <1>11 DEF Await, Completion, RuntimeExit
  <2>1. PInv'
    BY ProfileNext
  <2>2. RunType'
    BY DEF RunType, MainPlaces, WorkPlaces
  <2>3. Awaited'
    BY DEF RunType, Awaited
  <2>4. Deferred'
    BY DEF RunType, Deferred
  <2>5. EarlyExit'
    BY DEF RunType, Deferred, EarlyExit, Leaving
  <2>6. OnDisk'
    BY DEF RunType, Awaited, OnDisk, Leaving
  <2>7. Sources'
    BY DEF RunType, Awaited, Sources
  <2>8. Parts'
    BY DEF RunType, Awaited, Parts
  <2>9. Executing'
    BY DEF RunType, Awaited, Executing
  <2> QED BY <2>1, <2>2, <2>3, <2>4, <2>5, <2>6, <2>7, <2>8, <2>9
<1>12. ASSUME StopRuntime
      PROVE  IInv'
  <2> USE <1>12 DEF StopRuntime
  <2>1. PInv'
    BY ProfileNext
  <2>2. RunType'
    <3>1. main' \in MainPlaces
      BY DEF RunType, MainPlaces
    <3>2. work' \in WorkPlaces
      BY DEF RunType, WorkPlaces
    <3>3. err' \in BOOLEAN
      BY DEF RunType
    <3>4. workErr' \in BOOLEAN
      BY DEF RunType
    <3>5. /\ managed' \in BOOLEAN /\ early' \in BOOLEAN /\ log' \in BOOLEAN
          /\ service' \in BOOLEAN /\ observer' \in BOOLEAN /\ owned' \in BOOLEAN
      BY DEF RunType
    <3>6. /\ runtime' \in {"none", "up", "exited", "stopped"}
          /\ source' \in {"none", "open", "closed"} /\ closes' \in 0..1
      BY DEF RunType, Sources
    <3>7. /\ exists' \subseteq {"network", "bridge"}
          /\ disk' \subseteq {"root", "validation", "result"}
      BY DEF RunType
    <3> QED BY <3>1, <3>2, <3>3, <3>4, <3>5, <3>6, <3>7 DEF RunType
  <2>3. Awaited'
    BY DEF RunType, Awaited
  <2>4. Deferred'
    <3>1. CASE runtime' = "stopped" /\ err' = err
      BY <3>1 DEF RunType, Deferred
    <3>2. CASE err' = TRUE /\ runtime' = runtime
      BY <3>2 DEF RunType, Deferred
    <3> QED BY <3>1, <3>2
  <2>5. EarlyExit'
    BY DEF RunType, Deferred, EarlyExit, Leaving
  <2>6. OnDisk'
    BY DEF RunType, Awaited, OnDisk, Leaving
  <2>7. Sources'
    BY DEF RunType, Awaited, Sources
  <2>8. Parts'
    BY DEF RunType, Awaited, Parts
  <2>9. Executing'
    BY DEF RunType, Awaited, Executing
  <2> QED BY <2>1, <2>2, <2>3, <2>4, <2>5, <2>6, <2>7, <2>8, <2>9
<1>13. ASSUME Detach
      PROVE  IInv'
  <2> USE <1>13 DEF Detach
  <2>1. PInv'
    BY ProfileNext
  <2>2. RunType'
    <3>1. main' \in MainPlaces
      BY DEF RunType, MainPlaces
    <3>2. work' \in WorkPlaces
      BY DEF RunType, WorkPlaces
    <3>3. err' \in BOOLEAN
      BY DEF RunType
    <3>4. workErr' \in BOOLEAN
      BY DEF RunType
    <3>5. /\ managed' \in BOOLEAN /\ early' \in BOOLEAN /\ log' \in BOOLEAN
          /\ service' \in BOOLEAN /\ observer' \in BOOLEAN /\ owned' \in BOOLEAN
      BY DEF RunType
    <3>6. /\ runtime' \in {"none", "up", "exited", "stopped"}
          /\ source' \in {"none", "open", "closed"} /\ closes' \in 0..1
      BY DEF RunType, Sources
    <3>7. /\ exists' \subseteq {"network", "bridge"}
          /\ disk' \subseteq {"root", "validation", "result"}
      BY DEF RunType
    <3> QED BY <3>1, <3>2, <3>3, <3>4, <3>5, <3>6, <3>7 DEF RunType
  <2>3. Awaited'
    BY DEF RunType, Awaited
  <2>4. Deferred'
    BY DEF RunType, Deferred
  <2>5. EarlyExit'
    BY DEF RunType, Deferred, EarlyExit, Leaving
  <2>6. OnDisk'
    BY DEF RunType, Awaited, OnDisk, Leaving
  <2>7. Sources'
    BY DEF RunType, Awaited, Sources
  <2>8. Parts'
    BY DEF RunType, Awaited, Parts
  <2>9. Executing'
    BY DEF RunType, Awaited, Executing
  <2> QED BY <2>1, <2>2, <2>3, <2>4, <2>5, <2>6, <2>7, <2>8, <2>9
<1>14. ASSUME Release
      PROVE  IInv'
  <2> USE <1>14 DEF Release
  <2>1. PInv'
    BY ProfileNext
  <2>2. RunType'
    BY DEF RunType, MainPlaces, WorkPlaces
  <2>3. Awaited'
    BY DEF RunType, Awaited
  <2>4. Deferred'
    BY DEF RunType, Deferred
  <2>5. EarlyExit'
    BY DEF RunType, Deferred, EarlyExit, Leaving
  <2>6. OnDisk'
    BY DEF RunType, Awaited, OnDisk, Leaving
  <2>7. Sources'
    BY DEF RunType, Awaited, Sources
  <2>8. Parts'
    BY DEF RunType, Awaited, Parts
  <2>9. Executing'
    BY DEF RunType, Awaited, Executing
  <2> QED BY <2>1, <2>2, <2>3, <2>4, <2>5, <2>6, <2>7, <2>8, <2>9
<1>15. ASSUME Construct
      PROVE  IInv'
  <2> USE <1>15 DEF Construct, WorkGoto
  <2>1. PInv'
    BY ProfileNext
  <2>2. RunType'
    <3>1. main' \in MainPlaces
      BY DEF RunType, MainPlaces
    <3>2. work' \in WorkPlaces
      BY DEF RunType, WorkPlaces
    <3>3. err' \in BOOLEAN
      BY DEF RunType
    <3>4. workErr' \in BOOLEAN
      BY DEF RunType
    <3>5. /\ managed' \in BOOLEAN /\ early' \in BOOLEAN /\ log' \in BOOLEAN
          /\ service' \in BOOLEAN /\ observer' \in BOOLEAN /\ owned' \in BOOLEAN
      BY DEF RunType
    <3>6. /\ runtime' \in {"none", "up", "exited", "stopped"}
          /\ source' \in {"none", "open", "closed"} /\ closes' \in 0..1
      BY DEF RunType, Sources
    <3>7. /\ exists' \subseteq {"network", "bridge"}
          /\ disk' \subseteq {"root", "validation", "result"}
      BY DEF RunType
    <3> QED BY <3>1, <3>2, <3>3, <3>4, <3>5, <3>6, <3>7 DEF RunType
  <2>3. Awaited'
    BY DEF RunType, Awaited
  <2>4. Deferred'
    BY DEF RunType, Deferred
  <2>5. EarlyExit'
    BY DEF RunType, Deferred, EarlyExit, Leaving
  <2>6. OnDisk'
    BY DEF RunType, Awaited, OnDisk, Leaving
  <2>7. Sources'
    BY DEF RunType, Awaited, Sources
  <2>8. Parts'
    BY DEF RunType, Awaited, Parts
  <2>9. Executing'
    BY DEF RunType, Awaited, Executing
  <2> QED BY <2>1, <2>2, <2>3, <2>4, <2>5, <2>6, <2>7, <2>8, <2>9
<1>16. ASSUME StartEnvironment
      PROVE  IInv'
  <2> USE <1>16 DEF StartEnvironment, WorkGoto
  <2>1. PInv'
    BY ProfileNext
  <2>2. RunType'
    <3>1. main' \in MainPlaces
      BY DEF RunType, MainPlaces
    <3>2. work' \in WorkPlaces
      BY DEF RunType, WorkPlaces
    <3>3. err' \in BOOLEAN
      BY DEF RunType
    <3>4. workErr' \in BOOLEAN
      BY DEF RunType
    <3>5. /\ managed' \in BOOLEAN /\ early' \in BOOLEAN /\ log' \in BOOLEAN
          /\ service' \in BOOLEAN /\ observer' \in BOOLEAN /\ owned' \in BOOLEAN
      BY DEF RunType
    <3>6. /\ runtime' \in {"none", "up", "exited", "stopped"}
          /\ source' \in {"none", "open", "closed"} /\ closes' \in 0..1
      BY DEF RunType, Sources
    <3>7. /\ exists' \subseteq {"network", "bridge"}
          /\ disk' \subseteq {"root", "validation", "result"}
      BY DEF RunType
    <3> QED BY <3>1, <3>2, <3>3, <3>4, <3>5, <3>6, <3>7 DEF RunType
  <2>3. Awaited'
    BY DEF RunType, Awaited
  <2>4. Deferred'
    BY DEF RunType, Deferred
  <2>5. EarlyExit'
    BY DEF RunType, Deferred, EarlyExit, Leaving
  <2>6. OnDisk'
    BY DEF RunType, Awaited, OnDisk, Leaving
  <2>7. Sources'
    BY DEF RunType, Awaited, Sources
  <2>8. Parts'
    BY DEF RunType, Awaited, Parts
  <2>9. Executing'
    BY DEF RunType, Awaited, Executing
  <2> QED BY <2>1, <2>2, <2>3, <2>4, <2>5, <2>6, <2>7, <2>8, <2>9
<1>17. ASSUME NewBridge
      PROVE  IInv'
  <2> USE <1>17 DEF NewBridge, WorkGoto
  <2>1. PInv'
    BY ProfileNext
  <2>2. RunType'
    <3>1. main' \in MainPlaces
      BY DEF RunType, MainPlaces
    <3>2. work' \in WorkPlaces
      BY DEF RunType, WorkPlaces
    <3>3. err' \in BOOLEAN
      BY DEF RunType
    <3>4. workErr' \in BOOLEAN
      BY DEF RunType
    <3>5. /\ managed' \in BOOLEAN /\ early' \in BOOLEAN /\ log' \in BOOLEAN
          /\ service' \in BOOLEAN /\ observer' \in BOOLEAN /\ owned' \in BOOLEAN
      BY DEF RunType
    <3>6. /\ runtime' \in {"none", "up", "exited", "stopped"}
          /\ source' \in {"none", "open", "closed"} /\ closes' \in 0..1
      BY DEF RunType, Sources
    <3>7. /\ exists' \subseteq {"network", "bridge"}
          /\ disk' \subseteq {"root", "validation", "result"}
      BY DEF RunType
    <3> QED BY <3>1, <3>2, <3>3, <3>4, <3>5, <3>6, <3>7 DEF RunType
  <2>3. Awaited'
    BY DEF RunType, Awaited
  <2>4. Deferred'
    BY DEF RunType, Deferred
  <2>5. EarlyExit'
    BY DEF RunType, Deferred, EarlyExit, Leaving
  <2>6. OnDisk'
    BY DEF RunType, Awaited, OnDisk, Leaving
  <2>7. Sources'
    BY DEF RunType, Awaited, Sources
  <2>8. Parts'
    BY DEF RunType, Awaited, Parts
  <2>9. Executing'
    BY DEF RunType, Awaited, Executing
  <2> QED BY <2>1, <2>2, <2>3, <2>4, <2>5, <2>6, <2>7, <2>8, <2>9
<1>18. ASSUME StartObserver
      PROVE  IInv'
  <2> USE <1>18 DEF StartObserver, WorkGoto
  <2>1. PInv'
    BY ProfileNext
  <2>2. RunType'
    <3>1. main' \in MainPlaces
      BY DEF RunType, MainPlaces
    <3>2. work' \in WorkPlaces
      BY DEF RunType, WorkPlaces
    <3>3. err' \in BOOLEAN
      BY DEF RunType
    <3>4. workErr' \in BOOLEAN
      BY DEF RunType
    <3>5. /\ managed' \in BOOLEAN /\ early' \in BOOLEAN /\ log' \in BOOLEAN
          /\ service' \in BOOLEAN /\ observer' \in BOOLEAN /\ owned' \in BOOLEAN
      BY DEF RunType
    <3>6. /\ runtime' \in {"none", "up", "exited", "stopped"}
          /\ source' \in {"none", "open", "closed"} /\ closes' \in 0..1
      BY DEF RunType, Sources
    <3>7. /\ exists' \subseteq {"network", "bridge"}
          /\ disk' \subseteq {"root", "validation", "result"}
      BY DEF RunType
    <3> QED BY <3>1, <3>2, <3>3, <3>4, <3>5, <3>6, <3>7 DEF RunType
  <2>3. Awaited'
    BY DEF RunType, Awaited
  <2>4. Deferred'
    BY DEF RunType, Deferred
  <2>5. EarlyExit'
    BY DEF RunType, Deferred, EarlyExit, Leaving
  <2>6. OnDisk'
    BY DEF RunType, Awaited, OnDisk, Leaving
  <2>7. Sources'
    BY DEF RunType, Awaited, Sources
  <2>8. Parts'
    BY DEF RunType, Awaited, Parts
  <2>9. Executing'
    BY DEF RunType, Awaited, Executing
  <2> QED BY <2>1, <2>2, <2>3, <2>4, <2>5, <2>6, <2>7, <2>8, <2>9
<1>19. ASSUME StartBridge
      PROVE  IInv'
  <2> USE <1>19 DEF StartBridge, WorkGoto
  <2>1. PInv'
    BY ProfileNext
  <2>2. RunType'
    <3>1. main' \in MainPlaces
      BY DEF RunType, MainPlaces
    <3>2. work' \in WorkPlaces
      BY DEF RunType, WorkPlaces
    <3>3. err' \in BOOLEAN
      BY DEF RunType
    <3>4. workErr' \in BOOLEAN
      BY DEF RunType
    <3>5. /\ managed' \in BOOLEAN /\ early' \in BOOLEAN /\ log' \in BOOLEAN
          /\ service' \in BOOLEAN /\ observer' \in BOOLEAN /\ owned' \in BOOLEAN
      BY DEF RunType
    <3>6. /\ runtime' \in {"none", "up", "exited", "stopped"}
          /\ source' \in {"none", "open", "closed"} /\ closes' \in 0..1
      BY DEF RunType, Sources
    <3>7. /\ exists' \subseteq {"network", "bridge"}
          /\ disk' \subseteq {"root", "validation", "result"}
      BY DEF RunType
    <3> QED BY <3>1, <3>2, <3>3, <3>4, <3>5, <3>6, <3>7 DEF RunType
  <2>3. Awaited'
    BY DEF RunType, Awaited
  <2>4. Deferred'
    BY DEF RunType, Deferred
  <2>5. EarlyExit'
    BY DEF RunType, Deferred, EarlyExit, Leaving
  <2>6. OnDisk'
    BY DEF RunType, Awaited, OnDisk, Leaving
  <2>7. Sources'
    BY DEF RunType, Awaited, Sources
  <2>8. Parts'
    BY DEF RunType, Awaited, Parts
  <2>9. Executing'
    BY DEF RunType, Awaited, Executing
  <2> QED BY <2>1, <2>2, <2>3, <2>4, <2>5, <2>6, <2>7, <2>8, <2>9
<1>20. ASSUME Execute
      PROVE  IInv'
  <2> USE <1>20 DEF Execute
  <2>1. PInv'
    BY ProfileNext
  <2>2. RunType'
    BY DEF RunType, MainPlaces, WorkPlaces
  <2>3. Awaited'
    BY DEF RunType, Awaited
  <2>4. Deferred'
    BY DEF RunType, Deferred
  <2>5. EarlyExit'
    BY DEF RunType, Deferred, EarlyExit, Leaving
  <2>6. OnDisk'
    BY DEF RunType, Awaited, OnDisk, Leaving
  <2>7. Sources'
    BY DEF RunType, Awaited, Sources
  <2>8. Parts'
    BY DEF RunType, Awaited, Parts
  <2>9. Executing'
    BY DEF RunType, Awaited, Executing
  <2> QED BY <2>1, <2>2, <2>3, <2>4, <2>5, <2>6, <2>7, <2>8, <2>9
<1>21. ASSUME Executed
      PROVE  IInv'
  <2> USE <1>21 DEF Executed, WorkGoto
  <2>1. PInv'
    BY ProfileNext
  <2>2. RunType'
    BY DEF RunType, MainPlaces, WorkPlaces
  <2>3. Awaited'
    BY DEF RunType, Awaited
  <2>4. Deferred'
    BY DEF RunType, Deferred
  <2>5. EarlyExit'
    BY DEF RunType, Deferred, EarlyExit, Leaving
  <2>6. OnDisk'
    BY DEF RunType, Awaited, OnDisk, Leaving
  <2>7. Sources'
    BY DEF RunType, Awaited, Sources
  <2>8. Parts'
    BY DEF RunType, Awaited, Parts
  <2>9. Executing'
    BY DEF RunType, Awaited, Executing
  <2> QED BY <2>1, <2>2, <2>3, <2>4, <2>5, <2>6, <2>7, <2>8, <2>9
<1>22. ASSUME StopBridge
      PROVE  IInv'
  <2> USE <1>22 DEF StopBridge, WorkGoto
  <2>1. PInv'
    BY ProfileNext
  <2>2. RunType'
    <3>1. main' \in MainPlaces
      BY DEF RunType, MainPlaces
    <3>2. work' \in WorkPlaces
      BY DEF RunType, WorkPlaces
    <3>3. err' \in BOOLEAN
      BY DEF RunType
    <3>4. workErr' \in BOOLEAN
      BY DEF RunType
    <3>5. /\ managed' \in BOOLEAN /\ early' \in BOOLEAN /\ log' \in BOOLEAN
          /\ service' \in BOOLEAN /\ observer' \in BOOLEAN /\ owned' \in BOOLEAN
      BY DEF RunType
    <3>6. /\ runtime' \in {"none", "up", "exited", "stopped"}
          /\ source' \in {"none", "open", "closed"} /\ closes' \in 0..1
      BY DEF RunType, Sources
    <3>7. /\ exists' \subseteq {"network", "bridge"}
          /\ disk' \subseteq {"root", "validation", "result"}
      BY DEF RunType
    <3> QED BY <3>1, <3>2, <3>3, <3>4, <3>5, <3>6, <3>7 DEF RunType
  <2>3. Awaited'
    BY DEF RunType, Awaited
  <2>4. Deferred'
    BY DEF RunType, Deferred
  <2>5. EarlyExit'
    BY DEF RunType, Deferred, EarlyExit, Leaving
  <2>6. OnDisk'
    BY DEF RunType, Awaited, OnDisk, Leaving
  <2>7. Sources'
    BY DEF RunType, Awaited, Sources
  <2>8. Parts'
    BY DEF RunType, Awaited, Parts
  <2>9. Executing'
    BY DEF RunType, Awaited, Executing
  <2> QED BY <2>1, <2>2, <2>3, <2>4, <2>5, <2>6, <2>7, <2>8, <2>9
<1>23. ASSUME StopObserver
      PROVE  IInv'
  <2> USE <1>23 DEF StopObserver, WorkGoto, CloseSource
  <2>1. PInv'
    BY ProfileNext
  <2>2. RunType'
    <3>1. main' \in MainPlaces
      BY DEF RunType, MainPlaces
    <3>2. work' \in WorkPlaces
      BY DEF RunType, WorkPlaces
    <3>3. err' \in BOOLEAN
      BY DEF RunType
    <3>4. workErr' \in BOOLEAN
      BY DEF RunType
    <3>5. /\ managed' \in BOOLEAN /\ early' \in BOOLEAN /\ log' \in BOOLEAN
          /\ service' \in BOOLEAN /\ observer' \in BOOLEAN /\ owned' \in BOOLEAN
      BY DEF RunType
    <3>6. /\ runtime' \in {"none", "up", "exited", "stopped"}
          /\ source' \in {"none", "open", "closed"} /\ closes' \in 0..1
      BY DEF RunType, Sources
    <3>7. /\ exists' \subseteq {"network", "bridge"}
          /\ disk' \subseteq {"root", "validation", "result"}
      BY DEF RunType
    <3> QED BY <3>1, <3>2, <3>3, <3>4, <3>5, <3>6, <3>7 DEF RunType
  <2>3. Awaited'
    BY DEF RunType, Awaited
  <2>4. Deferred'
    BY DEF RunType, Deferred
  <2>5. EarlyExit'
    BY DEF RunType, Deferred, EarlyExit, Leaving
  <2>6. OnDisk'
    BY DEF RunType, Awaited, OnDisk, Leaving
  <2>7. Sources'
    BY DEF RunType, Awaited, Sources
  <2>8. Parts'
    BY DEF RunType, Awaited, Parts
  <2>9. Executing'
    BY DEF RunType, Awaited, Executing
  <2> QED BY <2>1, <2>2, <2>3, <2>4, <2>5, <2>6, <2>7, <2>8, <2>9
<1>24. ASSUME StopEnvironment
      PROVE  IInv'
  <2> USE <1>24 DEF StopEnvironment, WorkGoto
  <2>1. PInv'
    BY ProfileNext
  <2>2. RunType'
    <3>1. main' \in MainPlaces
      BY DEF RunType, MainPlaces
    <3>2. work' \in WorkPlaces
      BY DEF RunType, WorkPlaces
    <3>3. err' \in BOOLEAN
      BY DEF RunType
    <3>4. workErr' \in BOOLEAN
      BY DEF RunType
    <3>5. /\ managed' \in BOOLEAN /\ early' \in BOOLEAN /\ log' \in BOOLEAN
          /\ service' \in BOOLEAN /\ observer' \in BOOLEAN /\ owned' \in BOOLEAN
      BY DEF RunType
    <3>6. /\ runtime' \in {"none", "up", "exited", "stopped"}
          /\ source' \in {"none", "open", "closed"} /\ closes' \in 0..1
      BY DEF RunType, Sources
    <3>7. /\ exists' \subseteq {"network", "bridge"}
          /\ disk' \subseteq {"root", "validation", "result"}
      BY DEF RunType
    <3> QED BY <3>1, <3>2, <3>3, <3>4, <3>5, <3>6, <3>7 DEF RunType
  <2>3. Awaited'
    BY DEF RunType, Awaited
  <2>4. Deferred'
    BY DEF RunType, Deferred
  <2>5. EarlyExit'
    BY DEF RunType, Deferred, EarlyExit, Leaving
  <2>6. OnDisk'
    BY DEF RunType, Awaited, OnDisk, Leaving
  <2>7. Sources'
    BY DEF RunType, Awaited, Sources
  <2>8. Parts'
    BY DEF RunType, Awaited, Parts
  <2>9. Executing'
    BY DEF RunType, Awaited, Executing
  <2> QED BY <2>1, <2>2, <2>3, <2>4, <2>5, <2>6, <2>7, <2>8, <2>9
<1>25. ASSUME CloseInfrastructure
      PROVE  IInv'
  <2> USE <1>25 DEF CloseInfrastructure, WorkGoto
  <2>1. PInv'
    BY ProfileNext
  <2>2. RunType'
    BY DEF RunType, MainPlaces, WorkPlaces
  <2>3. Awaited'
    BY DEF RunType, Awaited
  <2>4. Deferred'
    BY DEF RunType, Deferred
  <2>5. EarlyExit'
    BY DEF RunType, Deferred, EarlyExit, Leaving
  <2>6. OnDisk'
    BY DEF RunType, Awaited, OnDisk, Leaving
  <2>7. Sources'
    BY DEF RunType, Awaited, Sources
  <2>8. Parts'
    BY DEF RunType, Awaited, Parts
  <2>9. Executing'
    BY DEF RunType, Awaited, Executing
  <2> QED BY <2>1, <2>2, <2>3, <2>4, <2>5, <2>6, <2>7, <2>8, <2>9
<1>26. ASSUME RecordResult
      PROVE  IInv'
  <2> USE <1>26 DEF RecordResult, WorkGoto, Persist
  <2>1. PInv'
    BY ProfileNext
  <2>2. RunType'
    BY DEF RunType, MainPlaces, WorkPlaces
  <2>3. Awaited'
    BY DEF RunType, Awaited
  <2>4. Deferred'
    BY DEF RunType, Deferred
  <2>5. EarlyExit'
    BY DEF RunType, Deferred, EarlyExit, Leaving
  <2>6. OnDisk'
    BY DEF RunType, Awaited, OnDisk, Leaving
  <2>7. Sources'
    BY DEF RunType, Awaited, Sources
  <2>8. Parts'
    BY DEF RunType, Awaited, Parts
  <2>9. Executing'
    BY DEF RunType, Awaited, Executing
  <2> QED BY <2>1, <2>2, <2>3, <2>4, <2>5, <2>6, <2>7, <2>8, <2>9
<1>27. ASSUME Time
      PROVE  IInv'
  <2> USE <1>27 DEF Time
  <2>1. PInv'
    BY ProfileNext
  <2>2. RunType'
    BY DEF RunType, MainPlaces, WorkPlaces
  <2>3. Awaited'
    BY DEF RunType, Awaited
  <2>4. Deferred'
    BY DEF RunType, Deferred
  <2>5. EarlyExit'
    BY DEF RunType, Deferred, EarlyExit, Leaving
  <2>6. OnDisk'
    BY DEF RunType, Awaited, OnDisk, Leaving
  <2>7. Sources'
    BY DEF RunType, Awaited, Sources
  <2>8. Parts'
    BY DEF RunType, Awaited, Parts
  <2>9. Executing'
    BY DEF RunType, Awaited, Executing
  <2> QED BY <2>1, <2>2, <2>3, <2>4, <2>5, <2>6, <2>7, <2>8, <2>9
<1>28. ASSUME validateLiveModel
      PROVE  IInv'
  <2> USE <1>28 DEF validateLiveModel, deepSeekAttempt, sleepWithContext,
     validateOpenAICompatibleModel
  <2>1. PInv'
    BY ProfileNext
  <2>2. RunType'
    BY DEF RunType, MainPlaces, WorkPlaces
  <2>3. Awaited'
    BY DEF RunType, Awaited
  <2>4. Deferred'
    BY DEF RunType, Deferred
  <2>5. EarlyExit'
    BY DEF RunType, Deferred, EarlyExit, Leaving
  <2>6. OnDisk'
    BY DEF RunType, Awaited, OnDisk, Leaving
  <2>7. Sources'
    BY DEF RunType, Awaited, Sources
  <2>8. Parts'
    BY DEF RunType, Awaited, Parts
  <2>9. Executing'
    BY DEF RunType, Awaited, Executing
  <2> QED BY <2>1, <2>2, <2>3, <2>4, <2>5, <2>6, <2>7, <2>8, <2>9
<1>29. ASSUME Cancel
      PROVE  IInv'
  <2> USE <1>29 DEF Cancel, Profile!Cancel, Profile!dispatcher, Profile!occurrences
  <2>1. PInv'
    BY ProfileNext
  <2>2. RunType'
    BY DEF RunType, MainPlaces, WorkPlaces
  <2>3. Awaited'
    BY DEF RunType, Awaited
  <2>4. Deferred'
    BY DEF RunType, Deferred
  <2>5. EarlyExit'
    BY DEF RunType, Deferred, EarlyExit, Leaving
  <2>6. OnDisk'
    BY DEF RunType, Awaited, OnDisk, Leaving
  <2>7. Sources'
    BY DEF RunType, Awaited, Sources
  <2>8. Parts'
    BY DEF RunType, Awaited, Parts
  <2>9. Executing'
    BY DEF RunType, Awaited, Executing
  <2> QED BY <2>1, <2>2, <2>3, <2>4, <2>5, <2>6, <2>7, <2>8, <2>9
<1>30. ASSUME RuntimeExits
      PROVE  IInv'
  <2> USE <1>30 DEF RuntimeExits
  <2>1. PInv'
    BY ProfileNext
  <2>2. RunType'
    BY DEF RunType, MainPlaces, WorkPlaces
  <2>3. Awaited'
    BY DEF RunType, Awaited
  <2>4. Deferred'
    BY DEF RunType, Deferred
  <2>5. EarlyExit'
    BY DEF RunType, Deferred, EarlyExit, Leaving
  <2>6. OnDisk'
    BY DEF RunType, Awaited, OnDisk, Leaving
  <2>7. Sources'
    BY DEF RunType, Awaited, Sources
  <2>8. Parts'
    BY DEF RunType, Awaited, Parts
  <2>9. Executing'
    BY DEF RunType, Awaited, Executing
  <2> QED BY <2>1, <2>2, <2>3, <2>4, <2>5, <2>6, <2>7, <2>8, <2>9
<1>31. ASSUME UNCHANGED vars
      PROVE  IInv'
  <2> USE <1>31 DEF vars
  <2>1. PInv'
    BY ProfileNext
  <2>2. RunType'
    BY DEF RunType, MainPlaces, WorkPlaces
  <2>3. Awaited'
    BY DEF RunType, Awaited
  <2>4. Deferred'
    BY DEF RunType, Deferred
  <2>5. EarlyExit'
    BY DEF RunType, Deferred, EarlyExit, Leaving
  <2>6. OnDisk'
    BY DEF RunType, Awaited, OnDisk, Leaving
  <2>7. Sources'
    BY DEF RunType, Awaited, Sources
  <2>8. Parts'
    BY DEF RunType, Awaited, Parts
  <2>9. Executing'
    BY DEF RunType, Awaited, Executing
  <2> QED BY <2>1, <2>2, <2>3, <2>4, <2>5, <2>6, <2>7, <2>8, <2>9
<1> QED BY <1>1, <1>2, <1>3, <1>4, <1>5, <1>6, <1>7, <1>8, <1>9, <1>10, <1>11,
   <1>12, <1>13, <1>14, <1>15, <1>16, <1>17, <1>18, <1>19, <1>20, <1>21, <1>22,
   <1>23, <1>24, <1>25, <1>26, <1>27, <1>28, <1>29, <1>30, <1>31
  DEF Next, Main, Worker

(***************************************************************************)
(* When Run returns, neither goroutine is at work; the source was closed   *)
(* once at most and is open only if its recorder could not be stopped; no  *)
(* task leaves a client open but such a source of its own; and whatever is *)
(* left over was reported as an error.                                     *)
(***************************************************************************)
THEOREM Settling == Spec => []SettledOnReturn
<1>1. IInv => SettledOnReturn
  <2> SUFFICES ASSUME IInv PROVE SettledOnReturn
    OBVIOUS
  <2> USE DEF IInv, RunType
  <2>1. main \in {"detach", "release", "returned"} =>
          work \in {"none", "done"} /\ (preflight = "none" \/ PreflightEnded)
    BY DEF Awaited, PreflightEnded
  <2>2. closes <= 1 /\ left \subseteq {"resources"}
    BY DEF PInv, Leftover
  <2>3. ASSUME main = "returned"
        PROVE  /\ ~log /\ keys # "file" /\ (source = "open" => observer)
               /\ (exists # {} \/ source = "open" \/ left # {} \/ runtime = "up") => err
    <3>1. ~log /\ keys = "none" /\ (runtime = "up" => err)
      BY <2>3 DEF Deferred
    <3>a. left # {} => err
      <4>1. ~err => pc = "returned" /\ ~result.err
        BY <2>3 DEF OnDisk, Leaving, Executing
      <4> QED BY <4>1 DEF PInv, CompleteResult, AllRan, Leftover
    <3>2. CASE work = "none"
      BY <3>1, <3>a, <3>2 DEF Sources, Parts
    <3>3. CASE work = "done"
      <4>1. ~err => ~workErr
        BY <2>3 DEF OnDisk, Leaving
      <4>2. /\ ~workErr => source = "closed" /\ "network" \notin exists /\ "bridge" \notin exists
            /\ source = "open" => observer
        BY <3>3 DEF Sources, Parts
      <4> QED BY <3>1, <3>a, <4>1, <4>2
    <3> QED BY <2>1, <2>3, <3>2, <3>3
  <2> QED BY <2>1, <2>2, <2>3 DEF SettledOnReturn
<1> QED BY <1>1, IInvInit, IInvNext, PTL DEF Spec

(***************************************************************************)
(* A nil error means that validation and result are on disk, every task of *)
(* the profile ran without an error, the model server did not exit early   *)
(* and nothing of the infrastructure is left.                              *)
(***************************************************************************)
THEOREM Completeness == Spec => []NilMeansComplete
<1>1. IInv => NilMeansComplete
  BY DEF IInv, PInv, CompleteResult, AllRan, RunType, Deferred, EarlyExit, OnDisk, Leaving,
     Sources, Parts, Executing, NilMeansComplete
<1> QED BY <1>1, IInvInit, IInvNext, PTL DEF Spec

-----------------------------------------------------------------------------
(* The managed model server that Run starts and stops (SglangRuntime), for *)
(* any set of Stop calls.                                                  *)

(***************************************************************************)
(* Where the wait goroutine is tells what became of the leader: until an   *)
(* exit was observed it holds the number of the group.                     *)
(***************************************************************************)
SglangType ==
  /\ leader \in {"none", "running", "zombie", "reaped"}
  /\ wpc \in {"none", "observe", "reap", "finish"}
  /\ place \in [Caller -> {"idle", "joined", "woken", "term", "wait", "kill", "forced",
                        "confirm", "end"}]
  /\ outcome \in [Caller -> BOOLEAN]

Leader ==
  /\ ~started => leader = "none" /\ wpc = "none" /\ ~done /\ ~exitObserved /\ ~killIssued
  /\ started => leader # "none"
  /\ wpc = "observe" => leader # "reaped" /\ ~exitObserved /\ ~done
  /\ wpc = "reap" => leader # "reaped" /\ exitObserved /\ ~done
  /\ wpc = "finish" => leader = "reaped"
  /\ leader = "reaped" => exitObserved
  /\ done => leader = "reaped"

(***************************************************************************)
(* A group that was killed has no members, and can have no new ones; one   *)
(* whose exit was observed was killed, or the error that it was not is     *)
(* kept.                                                                   *)
(***************************************************************************)
Killed ==
  /\ killIssued => leader # "running" /\ ~members
  /\ exitObserved => killIssued \/ residualKillErr

(***************************************************************************)
(* An attempt is made only once there is a process, and one that ends      *)
(* without an error has found the group gone.                              *)
(***************************************************************************)
Absent == leader = "reaped" /\ ~members

Attempts ==
  /\ \A c \in Caller :
       /\ place[c] \notin {"idle", "joined", "woken"} => started
       /\ place[c] = "end" /\ ~outcome[c] => Absent
  /\ confirmed /\ started => Absent

SglangInv == SglangType /\ Leader /\ Killed /\ Attempts /\ ~foreign

LEMMA SglangInit == ServerInit => SglangInv
  BY DEF ServerInit, SglangInv, SglangType, Leader, Killed, Attempts, Absent

(***************************************************************************)
(* The operating system, Start, the wait goroutine and every Stop call     *)
(* keep them.                                                              *)
(***************************************************************************)
LEMMA SglangNext == SglangInv /\ [ServerNext]_serverVars => SglangInv'
<1> SUFFICES ASSUME SglangInv, [ServerNext]_serverVars PROVE SglangInv'
  OBVIOUS
<1> USE DEF SglangInv, flag, verdict, waiter, group,
   Goto, End
<1>1. ASSUME Start
      PROVE  SglangInv'
  <2> USE <1>1 DEF Start
  <2>1. SglangType'
    BY DEF SglangType
  <2>2. Leader'
    BY DEF SglangType, Leader, Attempts
  <2>3. Killed'
    BY DEF SglangType, Leader, Killed, Attempts
  <2>4. Attempts'
    BY DEF SglangType, Leader, Attempts, Absent
  <2>5. ~foreign'
    BY DEF Leader
  <2> QED BY <2>1, <2>2, <2>3, <2>4, <2>5
<1>2. ASSUME Observe
      PROVE  SglangInv'
  <2> USE <1>2 DEF Observe, ResidualKill, SIGKILL
  <2>1. SglangType'
    BY DEF SglangType
  <2>2. Leader'
    BY DEF SglangType, Leader, Attempts
  <2>3. Killed'
    BY DEF SglangType, Leader, Killed, Attempts
  <2>4. Attempts'
    BY DEF SglangType, Leader, Attempts, Absent
  <2>5. ~foreign'
    BY DEF Leader
  <2> QED BY <2>1, <2>2, <2>3, <2>4, <2>5
<1>3. ASSUME Reap
      PROVE  SglangInv'
  <2> USE <1>3 DEF Reap
  <2>1. SglangType'
    BY DEF SglangType
  <2>2. Leader'
    BY DEF SglangType, Leader, Attempts
  <2>3. Killed'
    BY DEF SglangType, Leader, Killed, Attempts
  <2>4. Attempts'
    BY DEF SglangType, Leader, Attempts, Absent
  <2>5. ~foreign'
    BY DEF Leader
  <2> QED BY <2>1, <2>2, <2>3, <2>4, <2>5
<1>4. ASSUME Finish
      PROVE  SglangInv'
  <2> USE <1>4 DEF Finish
  <2>1. SglangType'
    BY DEF SglangType
  <2>2. Leader'
    BY DEF SglangType, Leader, Attempts
  <2>3. Killed'
    BY DEF SglangType, Leader, Killed, Attempts
  <2>4. Attempts'
    BY DEF SglangType, Leader, Attempts, Absent
  <2>5. ~foreign'
    BY DEF Leader
  <2> QED BY <2>1, <2>2, <2>3, <2>4, <2>5
<1>5. ASSUME LeaderExits
      PROVE  SglangInv'
  <2> USE <1>5 DEF LeaderExits
  <2>1. SglangType'
    BY DEF SglangType
  <2>2. Leader'
    BY DEF SglangType, Leader, Attempts
  <2>3. Killed'
    BY DEF SglangType, Leader, Killed, Attempts
  <2>4. Attempts'
    BY DEF SglangType, Leader, Attempts, Absent
  <2>5. ~foreign'
    BY DEF Leader
  <2> QED BY <2>1, <2>2, <2>3, <2>4, <2>5
<1>6. ASSUME MembersChange
      PROVE  SglangInv'
  <2> USE <1>6 DEF MembersChange
  <2>1. SglangType'
    BY DEF SglangType
  <2>2. Leader'
    BY DEF SglangType, Leader, Attempts
  <2>3. Killed'
    BY DEF SglangType, Leader, Killed, Attempts
  <2>4. Attempts'
    BY DEF SglangType, Leader, Attempts, Absent
  <2>5. ~foreign'
    BY DEF Leader
  <2> QED BY <2>1, <2>2, <2>3, <2>4, <2>5
<1>7. ASSUME Reuse
      PROVE  SglangInv'
  <2> USE <1>7 DEF Reuse
  <2>1. SglangType'
    BY DEF SglangType
  <2>2. Leader'
    BY DEF SglangType, Leader, Attempts
  <2>3. Killed'
    BY DEF SglangType, Leader, Killed, Attempts
  <2>4. Attempts'
    BY DEF SglangType, Leader, Attempts, Absent
  <2>5. ~foreign'
    BY DEF Leader
  <2> QED BY <2>1, <2>2, <2>3, <2>4, <2>5
<1>8. ASSUME NEW c \in Caller, Stop(c)
      PROVE  SglangInv'
  <2> USE <1>8 DEF Stop, Join
  <2>1. SglangType'
    BY DEF SglangType
  <2>2. Leader'
    BY DEF SglangType, Leader, Attempts
  <2>3. Killed'
    BY DEF SglangType, Leader, Killed, Attempts
  <2>4. Attempts'
    BY DEF SglangType, Leader, Attempts, Absent
  <2>5. ~foreign'
    BY DEF Leader
  <2> QED BY <2>1, <2>2, <2>3, <2>4, <2>5
<1>9. ASSUME NEW c \in Caller, Term(c)
      PROVE  SglangInv'
  <2> USE <1>9 DEF Term, Owned, SIGTERM
  <2>1. SglangType'
    BY DEF SglangType
  <2>2. Leader'
    BY DEF SglangType, Leader, Attempts
  <2>3. Killed'
    BY DEF SglangType, Leader, Killed, Attempts
  <2>4. Attempts'
    BY DEF SglangType, Leader, Attempts, Absent
  <2>5. ~foreign'
    BY DEF Leader
  <2> QED BY <2>1, <2>2, <2>3, <2>4, <2>5
<1>10. ASSUME NEW c \in Caller, WaitDone(c)
      PROVE  SglangInv'
  <2> USE <1>10 DEF WaitDone
  <2>1. SglangType'
    BY DEF SglangType
  <2>2. Leader'
    BY DEF SglangType, Leader, Attempts
  <2>3. Killed'
    BY DEF SglangType, Leader, Killed, Attempts
  <2>4. Attempts'
    BY DEF SglangType, Leader, Attempts, Absent
  <2>5. ~foreign'
    BY DEF Leader
  <2> QED BY <2>1, <2>2, <2>3, <2>4, <2>5
<1>11. ASSUME NEW c \in Caller, Kill(c)
      PROVE  SglangInv'
  <2> USE <1>11 DEF Kill, Owned, SIGKILL
  <2>1. SglangType'
    BY DEF SglangType
  <2>2. Leader'
    BY DEF SglangType, Leader, Attempts
  <2>3. Killed'
    BY DEF SglangType, Leader, Killed, Attempts
  <2>4. Attempts'
    BY DEF SglangType, Leader, Attempts, Absent
  <2>5. ~foreign'
    BY DEF Leader
  <2> QED BY <2>1, <2>2, <2>3, <2>4, <2>5
<1>12. ASSUME NEW c \in Caller, WaitForced(c)
      PROVE  SglangInv'
  <2> USE <1>12 DEF WaitForced
  <2>1. SglangType'
    BY DEF SglangType
  <2>2. Leader'
    BY DEF SglangType, Leader, Attempts
  <2>3. Killed'
    BY DEF SglangType, Leader, Killed, Attempts
  <2>4. Attempts'
    BY DEF SglangType, Leader, Attempts, Absent
  <2>5. ~foreign'
    BY DEF Leader
  <2> QED BY <2>1, <2>2, <2>3, <2>4, <2>5
<1>13. ASSUME NEW c \in Caller, Confirm(c)
      PROVE  SglangInv'
  <2> USE <1>13 DEF Confirm, GroupAbsent
  <2>1. SglangType'
    BY DEF SglangType
  <2>2. Leader'
    BY DEF SglangType, Leader, Attempts
  <2>3. Killed'
    BY DEF SglangType, Leader, Killed, Attempts
  <2>4. Attempts'
    BY DEF SglangType, Leader, Attempts, Absent
  <2>5. ~foreign'
    BY DEF Leader
  <2> QED BY <2>1, <2>2, <2>3, <2>4, <2>5
<1>14. ASSUME NEW c \in Caller, StopEnd(c)
      PROVE  SglangInv'
  <2> USE <1>14 DEF StopEnd, Wakes, AttemptAfter
  <2>1. SglangType'
    BY DEF SglangType
  <2>2. Leader'
    BY DEF SglangType, Leader, Attempts
  <2>3. Killed'
    BY DEF SglangType, Leader, Killed, Attempts
  <2>4. Attempts'
    BY DEF SglangType, Leader, Attempts, Absent
  <2>5. ~foreign'
    BY DEF Leader
  <2> QED BY <2>1, <2>2, <2>3, <2>4, <2>5
<1>15. ASSUME NEW c \in Caller, StopJoined(c)
      PROVE  SglangInv'
  <2> USE <1>15 DEF StopJoined
  <2>1. SglangType'
    BY DEF SglangType
  <2>2. Leader'
    BY DEF SglangType, Leader, Attempts
  <2>3. Killed'
    BY DEF SglangType, Leader, Killed, Attempts
  <2>4. Attempts'
    BY DEF SglangType, Leader, Attempts, Absent
  <2>5. ~foreign'
    BY DEF Leader
  <2> QED BY <2>1, <2>2, <2>3, <2>4, <2>5
<1>16. ASSUME UNCHANGED serverVars
      PROVE  SglangInv'
  <2> USE <1>16 DEF serverVars
  <2>1. SglangType'
    BY DEF SglangType
  <2>2. Leader'
    BY DEF SglangType, Leader, Attempts
  <2>3. Killed'
    BY DEF SglangType, Leader, Killed, Attempts
  <2>4. Attempts'
    BY DEF SglangType, Leader, Attempts, Absent
  <2>5. ~foreign'
    BY DEF Leader
  <2> QED BY <2>1, <2>2, <2>3, <2>4, <2>5
<1> QED BY <1>1, <1>2, <1>3, <1>4, <1>5, <1>6, <1>7, <1>8, <1>9, <1>10, <1>11, <1>12,
   <1>13, <1>14, <1>15, <1>16 DEF ServerNext, Wait, Attempt

(***************************************************************************)
(* No signal of Stop or of the wait goroutine goes to a number that the    *)
(* runtime no longer holds, for any number of Stop calls.                  *)
(***************************************************************************)
THEOREM SignalsOwn == ServerSpec => []NoForeignSignal
<1>1. SglangInv => NoForeignSignal
  BY DEF SglangInv, NoForeignSignal
<1> QED BY <1>1, SglangInit, SglangNext, PTL DEF ServerSpec

(***************************************************************************)
(* A confirmed Stop found the leader reaped and its group empty, and once  *)
(* the wait goroutine is done a member is left only with the error that    *)
(* says so.                                                                *)
(***************************************************************************)
THEOREM ServerGone == ServerSpec => []ConfirmedGone
<1>1. SglangInv => ConfirmedGone
  BY DEF SglangInv, Leader, Killed, Attempts, Absent, ConfirmedGone
<1> QED BY <1>1, SglangInit, SglangNext, PTL DEF ServerSpec
=============================================================================
