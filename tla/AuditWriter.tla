---------------------------- MODULE AuditWriter ----------------------------
(***************************************************************************)
(* The audit writer of a tool bridge (pkg/bridge/internal/bridgekit):      *)
(* handlers queue records, one goroutine appends them to tool-calls.jsonl  *)
(* and to the raw log, and SealAndWait asks it to drain and close.  The    *)
(* first error is latched and from then on every record is dropped.        *)
(*                                                                         *)
(* A record is the call it is about and whether that call entered the      *)
(* sandbox; every record is charged one unit of the byte limit.  Rendering *)
(* a record and every write, sync and close may fail.                      *)
(***************************************************************************)
EXTENDS Naturals, Sequences, FiniteSets, SequencesExt

CONSTANTS Call, MaxRecords

ASSUME CapacityAssumption == MaxRecords \in Nat \ {0}

VARIABLES
  retained,    \* the raw log is kept
  pending, sequence, sealed, auditErr,
  wake,        \* the wake channel holds its one token
  writer,      \* the run goroutine: sleeping, scanning, leaving, persisting, finished
  entry,       \* what it persists: a sequence of at most one record
  structured, raw   \* the two files

queue == <<pending, sequence, sealed>>
disk == <<structured, raw>>
auditVars == <<retained, pending, sequence, sealed, auditErr, wake, writer, entry,
               structured, raw>>

AuditInit ==
  /\ retained \in BOOLEAN
  /\ pending = <<>> /\ sequence = 0 /\ sealed = FALSE /\ auditErr = FALSE
  /\ wake = FALSE /\ writer = "sleeping" /\ entry = <<>>
  /\ structured = <<>> /\ raw = <<>>

Record == [seq : 1..MaxRecords, of : Call, ran : BOOLEAN]

\* Mutant: the channel has no buffer, the token goes only to a waiting receiver.
SignalUnbuffered == wake' = (wake \/ writer = "sleeping")
\* signal: a non-blocking send to a channel of capacity one.
Signal == wake' = TRUE
Room == sequence < MaxRecords

\* The call h, which entered the sandbox or not, is recorded.
Enqueue(h, inside) ==
  \/ /\ auditErr
     /\ UNCHANGED <<queue, wake, auditErr>>
  \/ /\ ~auditErr   \* sealed, no room, or the record cannot be rendered
     /\ auditErr' = TRUE
     /\ UNCHANGED <<queue, wake>>
  \/ /\ ~auditErr /\ ~sealed /\ Room
     /\ sequence' = sequence + 1
     /\ pending' = Append(pending, [seq |-> sequence + 1, of |-> h, ran |-> inside])
     /\ Signal
     /\ UNCHANGED <<sealed, auditErr>>

Latch == auditErr' = TRUE /\ UNCHANGED <<queue, wake>>

-----------------------------------------------------------------------------
(* The run goroutine *)

Wakes ==
  /\ writer = "sleeping" /\ wake
  /\ wake' = FALSE /\ writer' = "scanning"
  /\ UNCHANGED <<retained, queue, auditErr, entry, disk>>

Takes ==
  /\ writer = "scanning" /\ pending # <<>>
  /\ entry' = <<Head(pending)>> /\ pending' = Tail(pending)
  /\ writer' = "persisting"
  /\ UNCHANGED <<retained, sequence, sealed, auditErr, wake, disk>>

Sleeps ==
  /\ writer = "scanning" /\ pending = <<>> /\ ~sealed
  /\ writer' = "leaving"
  /\ UNCHANGED <<retained, queue, auditErr, wake, entry, disk>>

\* The lock is released before the goroutine waits for the token again.
Waits ==
  /\ writer = "leaving" /\ writer' = "sleeping"
  /\ UNCHANGED <<retained, queue, auditErr, wake, entry, disk>>
LatchedAll(s, r, synced) == auditErr \/ ~s \/ ~r \/ ~synced

\* Both lines are written and both files synced, whatever failed before.  A
\* write that fails leaves no line; a sync that fails, a line that may be lost.
Persists ==
  /\ writer = "persisting"
  /\ \E s \in BOOLEAN, r \in BOOLEAN, synced \in BOOLEAN :
       /\ retained \/ r
       /\ structured' = IF s THEN structured \o entry ELSE structured
       /\ raw' = IF r /\ retained THEN raw \o entry ELSE raw
       /\ auditErr' = LatchedAll(s, r, synced)
  /\ entry' = <<>> /\ writer' = "scanning"
  /\ UNCHANGED <<retained, queue, wake>>

\* The final syncs and the closes, each of which may fail.
Finishes ==
  /\ writer = "scanning" /\ pending = <<>> /\ sealed
  /\ writer' = "finished"
  /\ auditErr' \in {auditErr, TRUE}
  /\ UNCHANGED <<retained, queue, wake, entry, disk>>

AuditNext == Wakes \/ Takes \/ Sleeps \/ Waits \/ Persists \/ Finishes

-----------------------------------------------------------------------------
(* SealAndWait *)

Seal ==
  /\ sealed' = TRUE
  /\ Signal
  /\ UNCHANGED <<retained, pending, sequence, auditErr, writer, entry, disk>>

Finished == writer = "finished"

-----------------------------------------------------------------------------

AuditTypeOK ==
  /\ retained \in BOOLEAN /\ sealed \in BOOLEAN /\ auditErr \in BOOLEAN
  /\ wake \in BOOLEAN /\ sequence \in 0..MaxRecords
  /\ pending \in Seq(Record) /\ entry \in Seq(Record)
  /\ structured \in Seq(Record) /\ raw \in Seq(Record)
  /\ writer \in {"sleeping", "scanning", "leaving", "persisting", "finished"}

\* Every record that was taken, in the order of its sequence number.
Written == structured \o entry \o pending
=============================================================================
