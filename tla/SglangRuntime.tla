--------------------------- MODULE SglangRuntime ---------------------------
(***************************************************************************)
(* The managed model server (internal/modelruntime/sglang/process.go): a   *)
(* process group owned by the run, a goroutine that waits for its leader,  *)
(* and Stop calls that share one attempt, signal the group and confirm     *)
(* that it is gone.                                                        *)
(*                                                                         *)
(* The operating system is external.  The leader may exit at any time and  *)
(* leave members of its group behind.  Once it is reaped and the group is  *)
(* empty, the number may be given to a foreign group, which a signal would *)
(* then hit.  The application starts the runtime once, before any Stop.    *)
(***************************************************************************)
CONSTANT Caller

VARIABLES
  \* Runtime
  started,   \* command # nil
  stopping, exitObserved, killIssued, residualKillErr, closeErr,
  unexpectedErr, confirmed, confirmedErr,
  done,      \* the done channel is closed
  attempt,   \* the Stop call whose attempt is current; none
  \* the wait goroutine
  wpc, observeErr, intentional,
  \* Stop calls
  place, outcome,   \* where each call is, and the error of its attempt
  \* the process group
  leader,    \* none, running, zombie, reaped
  members,   \* other processes of the group exist
  reused,    \* the number belongs to a foreign group
  foreign    \* history: a signal went to a number that was not ours

flag == <<stopping, exitObserved, killIssued, residualKillErr>>
verdict == <<closeErr, unexpectedErr, confirmed, confirmedErr, done>>
waiter == <<wpc, observeErr, intentional>>
group == <<leader, members, reused, foreign>>
serverVars == <<started, flag, verdict, attempt, waiter, place, outcome, group>>

Nobody == "none"
ASSUME CallerAssumption == Nobody \notin Caller

ServerInit ==
  /\ started = FALSE
  /\ stopping = FALSE /\ exitObserved = FALSE /\ killIssued = FALSE
  /\ residualKillErr = FALSE /\ closeErr = FALSE /\ unexpectedErr = FALSE
  /\ confirmed = FALSE /\ confirmedErr = FALSE /\ done = FALSE
  /\ attempt = Nobody
  /\ wpc = "none" /\ observeErr = FALSE /\ intentional = FALSE
  /\ place = [c \in Caller |-> "idle"] /\ outcome = [c \in Caller |-> FALSE]
  /\ leader = "none" /\ members = FALSE /\ reused = FALSE /\ foreign = FALSE

Goto(c, p) == place' = [place EXCEPT ![c] = p]

-----------------------------------------------------------------------------
(* The operating system *)

LeaderExits ==
  /\ leader = "running" /\ leader' = "zombie"
  /\ UNCHANGED <<started, flag, verdict, attempt, waiter, place, outcome, members,
                 reused, foreign>>

MembersChange ==
  /\ \/ leader = "running" /\ members' = TRUE
     \/ members /\ members' = FALSE
  /\ UNCHANGED <<started, flag, verdict, attempt, waiter, place, outcome, leader,
                 reused, foreign>>

Reuse ==
  /\ leader = "reaped" /\ ~members /\ reused' = TRUE
  /\ UNCHANGED <<started, flag, verdict, attempt, waiter, place, outcome, leader,
                 members, foreign>>

\* The outcomes of kill(-pid): delivered, no such group, or refused.
SIGKILL ==
  /\ leader' = IF leader = "running" THEN "zombie" ELSE leader
  /\ members' = FALSE
  /\ foreign' = (foreign \/ leader = "reaped")
  /\ UNCHANGED reused
SIGTERM ==
  /\ foreign' = (foreign \/ leader = "reaped")
  /\ UNCHANGED <<leader, members, reused>>

-----------------------------------------------------------------------------
\* Start fails before it owns a process, or starts it and the wait goroutine.
Start ==
  /\ ~started /\ ~confirmed /\ attempt = Nobody
  /\ started' = TRUE /\ leader' = "running" /\ wpc' = "observe"
  /\ UNCHANGED <<flag, verdict, attempt, observeErr, intentional, place, outcome,
                 members, reused, foreign>>

(* wait *)

\* The group is killed while the leader still holds the number.
ResidualKill ==
  IF killIssued
  THEN UNCHANGED <<killIssued, residualKillErr, group>>
  ELSE \/ SIGKILL /\ killIssued' = TRUE /\ UNCHANGED residualKillErr
       \/ /\ residualKillErr' = TRUE /\ UNCHANGED <<killIssued, group>>

Observe ==
  /\ wpc = "observe"
  /\ \/ leader = "zombie" /\ UNCHANGED observeErr
     \/ observeErr' = TRUE      \* waitid failed
  /\ intentional' = stopping
  /\ exitObserved' = TRUE
  /\ ResidualKill
  /\ wpc' = "reap"
  /\ UNCHANGED <<started, stopping, verdict, attempt, place, outcome>>

Reap ==
  /\ wpc = "reap" /\ leader = "zombie"
  /\ leader' = "reaped" /\ wpc' = "finish"
  /\ UNCHANGED <<started, flag, verdict, attempt, observeErr, intentional, place,
                 outcome, members, reused, foreign>>

Unexpected == ~intentional

Finish ==
  /\ wpc = "finish" /\ wpc' = "none"
  /\ closeErr' \in {observeErr, TRUE}
  /\ unexpectedErr' = Unexpected
  /\ done' = TRUE
  /\ UNCHANGED <<started, flag, confirmed, confirmedErr, attempt, observeErr,
                 intentional, place, outcome, group>>

-----------------------------------------------------------------------------
(* Stop *)

Join == attempt # Nobody

Stop(c) ==
  /\ place[c] = "idle"
  /\ \/ confirmed /\ UNCHANGED <<attempt, confirmed, place>>
     \/ ~confirmed /\ Join /\ Goto(c, "joined") /\ UNCHANGED <<attempt, confirmed>>
     \/ /\ ~confirmed /\ ~Join
        /\ IF started
           THEN Goto(c, "term") /\ attempt' = c /\ UNCHANGED confirmed
           ELSE confirmed' = TRUE /\ UNCHANGED <<attempt, place>>
  /\ UNCHANGED <<started, flag, closeErr, unexpectedErr, confirmedErr, done, waiter,
                 outcome, group>>

\* attempt.wait: the attempt has ended, or the context of the call is done.
StopJoined(c) ==
  /\ place[c] \in {"joined", "woken"} /\ Goto(c, "idle")
  /\ UNCHANGED <<started, flag, verdict, attempt, waiter, outcome, group>>

End(c, err) == /\ Goto(c, "end") /\ outcome' = [outcome EXCEPT ![c] = err]

\* Mutant: the exit that the wait goroutine has seen is not looked at.
OwnedAlways == TRUE

\* signalOwned: whether the number is still the runtime's to signal.
Owned == ~exitObserved /\ ~done

Term(c) ==
  /\ place[c] = "term"
  /\ \/ ~Owned /\ Goto(c, "wait") /\ UNCHANGED <<stopping, outcome, group>>
     \/ /\ Owned /\ stopping' = TRUE
        /\ \/ SIGTERM /\ Goto(c, "wait") /\ UNCHANGED outcome
           \/ End(c, TRUE) /\ UNCHANGED group
  /\ UNCHANGED <<started, exitObserved, killIssued, residualKillErr, verdict,
                 attempt, waiter>>

WaitDone(c) ==
  /\ place[c] = "wait"
  /\ (done /\ Goto(c, "confirm")) \/ Goto(c, "kill")
  /\ UNCHANGED <<started, flag, verdict, attempt, waiter, outcome, group>>

Kill(c) ==
  /\ place[c] = "kill"
  /\ \/ ~Owned /\ Goto(c, "forced") /\ UNCHANGED <<stopping, killIssued, outcome, group>>
     \/ /\ Owned /\ stopping' = TRUE
        /\ \/ SIGKILL /\ killIssued' = TRUE /\ Goto(c, "forced") /\ UNCHANGED outcome
           \/ End(c, TRUE) /\ UNCHANGED <<killIssued, group>>
  /\ UNCHANGED <<started, exitObserved, residualKillErr, verdict, attempt, waiter>>

WaitForced(c) ==
  /\ place[c] = "forced"
  /\ \/ done /\ Goto(c, "confirm") /\ UNCHANGED outcome
     \/ End(c, TRUE)
  /\ UNCHANGED <<started, flag, verdict, attempt, waiter, group>>

\* Mutant: an exited leader is taken for an empty group.
LeaderGone == leader = "reaped"

\* ESRCH from the probe
GroupAbsent == leader = "reaped" /\ ~members /\ ~reused

\* The group is absent, the probe failed, or it was seen until the deadline.
Confirm(c) ==
  /\ place[c] = "confirm"
  /\ (GroupAbsent /\ End(c, FALSE)) \/ End(c, TRUE)
  /\ UNCHANGED <<started, flag, verdict, attempt, waiter, group>>

\* Mutant: the calls that joined are not told.
WakesNone(c) == {}

Wakes(c) == {d \in Caller : place[d] = "joined"}

AttemptAfter(c) == Nobody

\* Only the protocol's own error keeps the outcome open for another attempt.
StopEnd(c) ==
  /\ place[c] = "end"
  /\ confirmed' = (confirmed \/ ~outcome[c])
  /\ confirmedErr' = IF outcome[c] THEN confirmedErr
                     ELSE residualKillErr \/ closeErr \/ unexpectedErr
  /\ attempt' = AttemptAfter(c)
  /\ place' = [d \in Caller |-> IF d = c THEN "idle"
                                ELSE IF d \in Wakes(c) THEN "woken" ELSE place[d]]
  /\ UNCHANGED <<started, flag, closeErr, unexpectedErr, done, waiter, outcome, group>>

Wait == Observe \/ Reap \/ Finish
Attempt(c) ==
  Term(c) \/ WaitDone(c) \/ Kill(c) \/ WaitForced(c) \/ Confirm(c) \/ StopEnd(c)
Woken(c) == place[c] = "woken" /\ StopJoined(c)

ServerNext ==
  \/ Start \/ Wait \/ LeaderExits \/ MembersChange \/ Reuse
  \/ \E c \in Caller : Stop(c) \/ Attempt(c) \/ StopJoined(c)

\* Goroutines are scheduled; each attempt's contexts have deadlines.
ServerSpec == /\ ServerInit /\ [][ServerNext]_serverVars /\ WF_serverVars(Wait)
        /\ \A c \in Caller : WF_serverVars(Attempt(c)) /\ WF_serverVars(Woken(c))

-----------------------------------------------------------------------------
ServerTypeOK ==
  /\ started \in BOOLEAN /\ stopping \in BOOLEAN /\ exitObserved \in BOOLEAN
  /\ killIssued \in BOOLEAN /\ residualKillErr \in BOOLEAN /\ closeErr \in BOOLEAN
  /\ unexpectedErr \in BOOLEAN /\ confirmed \in BOOLEAN /\ confirmedErr \in BOOLEAN
  /\ done \in BOOLEAN /\ observeErr \in BOOLEAN /\ intentional \in BOOLEAN
  /\ members \in BOOLEAN /\ reused \in BOOLEAN /\ foreign \in BOOLEAN
  /\ attempt \in Caller \cup {Nobody}
  /\ wpc \in {"none", "observe", "reap", "finish"}
  /\ place \in [Caller -> {"idle", "joined", "woken", "term", "wait", "kill", "forced",
                        "confirm", "end"}]
  /\ outcome \in [Caller -> BOOLEAN]
  /\ leader \in {"none", "running", "zombie", "reaped"}

(***************************************************************************)
(* No signal is ever sent to a number that the runtime no longer holds:    *)
(* neither Stop nor the wait goroutine can hit a foreign process group.    *)
(***************************************************************************)
NoForeignSignal == ~foreign

(***************************************************************************)
(* A confirmed Stop means that the leader was reaped and that no process   *)
(* of its group is left; and when the wait goroutine is done, whoever      *)
(* ended the leader, no member survives unless the error saying so is kept.*)
(***************************************************************************)
ConfirmedGone ==
  /\ confirmed /\ started => leader = "reaped" /\ ~members
  /\ done /\ members => residualKillErr

(***************************************************************************)
(* Every Stop call returns, whether it runs the attempt or joined it, also *)
(* when the server ignores SIGTERM or the group cannot be confirmed.       *)
(***************************************************************************)
StopReturns == \A c \in Caller : place[c] # "idle" ~> place[c] = "idle"
=============================================================================
