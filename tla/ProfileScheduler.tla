-------------------------- MODULE ProfileScheduler --------------------------
(***************************************************************************)
(* How a profile's tasks are admitted, run and collected: runProfile       *)
(* (internal/app/execution.go).  One dispatcher takes slots of a bounded   *)
(* pool and starts a goroutine per occurrence, in one pass over the tasks, *)
(* in a loop until a deadline, or along a schedule of arrivals; the        *)
(* goroutines end in any order and the run may be cancelled at any moment. *)
(***************************************************************************)
EXTENDS Naturals, Sequences, FiniteSets

CONSTANTS
  NumTasks,     \* len(taskIDs)
  Concurrency,
  MaxIndex      \* stands for math.MaxUint64

Mode == {"once", "loop", "arrivals"}

VARIABLES
  mode,
  pc,         \* where the dispatcher is
  pos,        \* the position in taskIDs or in the schedule
  tokens,     \* len(capacity)
  index,      \* occurrences numbered so far
  slots,      \* the occurrences in order of admission
  left,       \* clients that ended occurrences have left open
  cancelled,  \* ctx is done
  expired, fired,  \* the deadline has passed; its timer has fired
  due,        \* the arrivals whose offset has passed
  result      \* what runProfile returned

dispatcher == <<mode, pc, pos, index>>
occurrences == <<slots, left>>
clock == <<cancelled, expired, fired, due>>
vars == <<dispatcher, tokens, occurrences, clock, result>>

\* goroutine: running, then its result is stored, then its slot is given back.
\* The slot of an overflow has no goroutine.
Slot == [task : 1..NumTasks, state : {"running", "stored", "done", "overflow"},
         reported : BOOLEAN, err : BOOLEAN]
\* The tasks of a result are named by their place in the order of admission.
NoResult == [tasks |-> {}, err |-> FALSE]

Init ==
  /\ mode \in Mode /\ pc = "next" /\ pos = 1 /\ index = 0
  /\ tokens = 0 /\ slots = <<>> /\ left = {} /\ result = NoResult
  /\ cancelled = FALSE /\ expired = FALSE /\ fired = FALSE /\ due = 0

Goto(p) == pc' = p

-----------------------------------------------------------------------------
(* The dispatcher *)

Position == IF mode = "loop" /\ pos > NumTasks THEN 1 ELSE pos

Arrived(p) == due >= p

\* The loops over the tasks and the wait for the next arrival.
NextTask ==
  /\ pc = "next"
  /\ pos' = Position
  /\ \/ mode # "loop" /\ pos > NumTasks /\ Goto("wait")
     \/ mode # "arrivals" /\ Position <= NumTasks /\ Goto("check")
     \/ /\ mode = "arrivals" /\ pos <= NumTasks
        /\ cancelled \/ Arrived(pos)
        /\ Goto(IF cancelled THEN "wait" ELSE "check")
  /\ UNCHANGED <<mode, index, tokens, occurrences, clock, result>>

Check ==
  /\ pc = "check"
  /\ Goto(IF expired THEN "wait" ELSE "select")
  /\ UNCHANGED <<mode, pos, index, tokens, occurrences, clock, result>>

\* select picks any of its ready cases.
Select ==
  /\ pc = "select"
  /\ \/ (cancelled \/ fired) /\ Goto("wait") /\ UNCHANGED tokens
     \/ tokens < Concurrency /\ tokens' = tokens + 1 /\ Goto("admit")
  /\ UNCHANGED <<mode, pos, index, occurrences, clock, result>>

\* The slot may have been picked although the run is over.
TooLate == cancelled \/ expired

TokenBack == tokens - 1

Overflows == index = MaxIndex

\* After its slot: give it back when it is too late or the index would wrap,
\* else number the occurrence and start its goroutine.
Admit ==
  /\ pc = "admit"
  /\ \/ /\ TooLate /\ Goto("wait") /\ tokens' = TokenBack
        /\ UNCHANGED <<pos, index, slots>>
     \/ /\ ~TooLate /\ Overflows /\ Goto("wait") /\ tokens' = TokenBack
        /\ slots' = Append(slots, [task |-> pos, state |-> "overflow",
                               reported |-> FALSE, err |-> TRUE])
        /\ UNCHANGED <<pos, index>>
     \/ /\ ~TooLate /\ ~Overflows /\ Goto("next")
        /\ index' = index + 1 /\ pos' = pos + 1
        /\ slots' = Append(slots, [task |-> pos, state |-> "running",
                               reported |-> FALSE, err |-> FALSE])
        /\ UNCHANGED tokens
  /\ UNCHANGED <<mode, left, clock, result>>

\* wg.Wait
AllDone == \A i \in DOMAIN slots : slots[i].state \in {"done", "overflow"}

\* Mutant: only the tasks' own errors are returned.
TaskErrors == \E i \in DOMAIN slots : slots[i].err

RunError == cancelled \/ \E i \in DOMAIN slots : slots[i].err

Reported(slot) == slot.reported

Collect ==
  /\ pc = "wait" /\ AllDone
  /\ result' = [tasks |-> {i \in DOMAIN slots : Reported(slots[i])}, err |-> RunError]
  /\ Goto("returned")
  /\ UNCHANGED <<mode, pos, index, tokens, occurrences, clock>>

-----------------------------------------------------------------------------
(* The goroutines, whose deferred calls run after the result is stored *)

\* What an occurrence opens: the transports of its harness and of its sandbox,
\* and the resource source that comes with the sandbox.
Clients == {"harness", "sandbox", "resources"}
closeOccurrenceClients == {"harness", "sandbox"}

Outcome == [reported : BOOLEAN, err : BOOLEAN, left : SUBSET Clients]

\* The constructors of an occurrence in their order: what is open when one of
\* them fails, and what its error path closes.
Constructors == <<"benchmark", "harness", "sandbox", "bridge", "runner", "monitor">>
OpenBefore(k) ==
  (IF k > 2 THEN {"harness"} ELSE {}) \cup (IF k > 3 THEN {"sandbox", "resources"} ELSE {})
ClosedAfter(k) ==
  CASE Constructors[k] \in {"benchmark", "harness"} -> {}
    [] Constructors[k] = "sandbox" -> {"harness"}
    [] OTHER -> {"resources"} \cup closeOccurrenceClients
buildTaskExperiment ==
  {[reported |-> FALSE, err |-> TRUE, left |-> OpenBefore(k) \ ClosedAfter(k)] :
     k \in DOMAIN Constructors}

\* The runner between the start and the stop of its recorder, whose failures are
\* errors and leave the task's result in place.  The recorder has the source: a
\* Start that fails has closed it, a Stop that fails may not have.
runObserved ==
  {o \in Outcome :
     /\ closeOccurrenceClients \subseteq o.left
     /\ ~o.reported \/ "resources" \in o.left => o.err}

\* experiment.Run: the clients are closed whatever happened, with their errors.
RunExperiment ==
  {[reported |-> o.reported, err |-> o.err \/ fails,
    left |-> o.left \ closeOccurrenceClients] : o \in runObserved, fails \in BOOLEAN}

OccurrenceEnds(i) ==
  /\ slots[i].state = "running"
  /\ \E o \in buildTaskExperiment \cup RunExperiment :
       /\ slots' = [slots EXCEPT ![i].state = "stored", ![i].reported = o.reported,
                                 ![i].err = o.err]
       /\ left' = left \cup o.left
  /\ UNCHANGED <<dispatcher, tokens, clock, result>>

\* Mutant: the goroutine ends without giving its slot back.
OccurrenceKeepsSlot(i) ==
  /\ slots[i].state = "stored"
  /\ slots' = [slots EXCEPT ![i].state = "done"]
  /\ UNCHANGED <<dispatcher, tokens, left, clock, result>>

OccurrenceReleases(i) ==
  /\ slots[i].state = "stored"
  /\ slots' = [slots EXCEPT ![i].state = "done"]
  /\ tokens' = tokens - 1
  /\ UNCHANGED <<dispatcher, left, clock, result>>

(* Context and clock *)

Cancel ==
  /\ cancelled' = TRUE
  /\ UNCHANGED <<dispatcher, tokens, occurrences, expired, fired, due, result>>

Deadline ==
  /\ mode = "loop"
  /\ \/ ~expired /\ expired' = TRUE /\ UNCHANGED fired
     \/ expired /\ ~fired /\ fired' = TRUE /\ UNCHANGED expired
  /\ UNCHANGED <<dispatcher, tokens, occurrences, cancelled, due, result>>

Arrive ==
  /\ mode = "arrivals" /\ due < NumTasks
  /\ due' = due + 1
  /\ UNCHANGED <<dispatcher, tokens, occurrences, cancelled, expired, fired, result>>

Dispatch == NextTask \/ Check \/ Select \/ Admit \/ Collect
Goroutine == \E i \in DOMAIN slots : OccurrenceEnds(i) \/ OccurrenceReleases(i)
Time == Deadline \/ Arrive

TypeOK ==
  /\ mode \in Mode /\ pos \in 1..(NumTasks + 1) /\ index \in 0..MaxIndex
  /\ pc \in {"next", "check", "select", "admit", "wait", "returned"}
  /\ tokens \in 0..Concurrency
  /\ slots \in Seq(Slot) /\ left \subseteq Clients
  /\ cancelled \in BOOLEAN /\ expired \in BOOLEAN /\ fired \in BOOLEAN
  /\ due \in 0..NumTasks
=============================================================================
