------------------------- MODULE NativeBridge_proofs ------------------------
(***************************************************************************)
(* Proofs about a native tool bridge and its audit writer, for any number  *)
(* of handlers and Stop calls and any limit of the audit: no record of a   *)
(* call is lost in silence, and a confirmed Stop ends access on complete   *)
(* evidence.                                                               *)
(***************************************************************************)
EXTENDS NativeBridge, TLAPS

-----------------------------------------------------------------------------
(* What a log holds after the operations of the writer *)

LEMMA InConcat ==
  ASSUME NEW a \in Seq(Record), NEW b \in Seq(Record), NEW h
  PROVE  InLog(a \o b, h) <=> InLog(a, h) \/ InLog(b, h)
<1>1. ASSUME NEW i \in 1..Len(a), a[i].of = h, a[i].ran PROVE InLog(a \o b, h)
  <2>1. i \in 1..Len(a \o b) /\ (a \o b)[i] = a[i]
    OBVIOUS
  <2> QED BY <1>1, <2>1 DEF InLog
<1>2. ASSUME NEW i \in 1..Len(b), b[i].of = h, b[i].ran PROVE InLog(a \o b, h)
  <2>1. /\ Len(a) + i \in 1..Len(a \o b)
        /\ (a \o b)[Len(a) + i] = b[i]
    OBVIOUS
  <2> QED BY <1>2, <2>1 DEF InLog
<1>3. ASSUME NEW i \in 1..Len(a \o b), (a \o b)[i].of = h, (a \o b)[i].ran
      PROVE  InLog(a, h) \/ InLog(b, h)
  <2>1. CASE i <= Len(a)
    <3>1. i \in 1..Len(a) /\ (a \o b)[i] = a[i]
      BY <2>1
    <3> QED BY <1>3, <3>1 DEF InLog
  <2>2. CASE i > Len(a)
    <3>1. i - Len(a) \in 1..Len(b) /\ (a \o b)[i] = b[i - Len(a)]
      BY <2>2
    <3> QED BY <1>3, <3>1 DEF InLog
  <2> QED BY <2>1, <2>2
<1> QED BY <1>1, <1>2, <1>3 DEF InLog

LEMMA InEmpty == ASSUME NEW h PROVE ~InLog(<<>>, h)
  BY DEF InLog

LEMMA InAppend ==
  ASSUME NEW a \in Seq(Record), NEW e \in Record, NEW h
  PROVE  InLog(Append(a, e), h) <=> InLog(a, h) \/ (e.of = h /\ e.ran)
<1>1. /\ Len(Append(a, e)) = Len(a) + 1 /\ Append(a, e)[Len(a) + 1] = e
      /\ \A i \in 1..Len(a) : Append(a, e)[i] = a[i]
  OBVIOUS
<1>2. ASSUME NEW i \in 1..Len(a), a[i].of = h, a[i].ran PROVE InLog(Append(a, e), h)
  <2>1. i \in 1..Len(Append(a, e)) /\ Append(a, e)[i] = a[i]
    BY <1>1
  <2> QED BY <1>2, <2>1 DEF InLog
<1>3. ASSUME e.of = h, e.ran PROVE InLog(Append(a, e), h)
  <2>1. Len(a) + 1 \in 1..Len(Append(a, e))
    BY <1>1
  <2> QED BY <1>1, <1>3, <2>1 DEF InLog
<1>4. ASSUME NEW i \in 1..Len(Append(a, e)), Append(a, e)[i].of = h, Append(a, e)[i].ran
      PROVE  InLog(a, h) \/ (e.of = h /\ e.ran)
  <2>1. CASE i = Len(a) + 1
    BY <1>1, <1>4, <2>1
  <2>2. CASE i \in 1..Len(a)
    BY <1>1, <1>4, <2>2 DEF InLog
  <2> QED BY <1>1, <2>1, <2>2
<1> QED BY <1>2, <1>3, <1>4 DEF InLog

LEMMA InTaken ==
  ASSUME NEW a \in Seq(Record), a # <<>>, NEW h
  PROVE  InLog(a, h) <=> InLog(<<Head(a)>>, h) \/ InLog(Tail(a), h)
<1>1. /\ Len(a) >= 1 /\ Head(a) = a[1] /\ Len(Tail(a)) = Len(a) - 1
      /\ \A i \in 1..Len(Tail(a)) : Tail(a)[i] = a[i + 1]
  OBVIOUS
<1>2. InLog(<<Head(a)>>, h) <=> a[1].of = h /\ a[1].ran
  BY <1>1 DEF InLog
<1>3. ASSUME NEW i \in 1..Len(a), a[i].of = h, a[i].ran
      PROVE  InLog(<<Head(a)>>, h) \/ InLog(Tail(a), h)
  <2>1. CASE i = 1
    BY <1>2, <1>3, <2>1
  <2>2. CASE i > 1
    <3>1. i - 1 \in 1..Len(Tail(a)) /\ Tail(a)[i - 1] = a[i]
      BY <1>1, <2>2
    <3> QED BY <1>3, <3>1 DEF InLog
  <2> QED BY <2>1, <2>2
<1>4. ASSUME NEW i \in 1..Len(Tail(a)), Tail(a)[i].of = h, Tail(a)[i].ran
      PROVE  InLog(a, h)
  <2>1. i + 1 \in 1..Len(a) /\ Tail(a)[i] = a[i + 1]
    BY <1>1
  <2> QED BY <1>4, <2>1 DEF InLog
<1>5. a[1].of = h /\ a[1].ran => InLog(a, h)
  BY <1>1 DEF InLog
<1> QED BY <1>2, <1>3, <1>4, <1>5 DEF InLog
-----------------------------------------------------------------------------
(***************************************************************************)
(* The writer holds a record only while it persists it, and has finished   *)
(* only with a sealed and empty queue.                                     *)
(***************************************************************************)
WriterIdle ==
  /\ writer # "persisting" => entry = <<>>
  /\ writer = "finished" => sealed /\ pending = <<>>

Held(h) == InLog(entry, h) \/ InLog(pending, h)

(***************************************************************************)
(* A call that entered the sandbox is on its way, in the writer's hands or *)
(* in each of the logs, or an error is latched.                            *)
(***************************************************************************)
Entered == \A h \in ran : call[h] \in {"running", "recording", "finished"}

Kept ==
  \A h \in ran :
    \/ call[h] # "finished" \/ auditErr \/ Held(h)
    \/ InLog(structured, h) /\ (retained => InLog(raw, h))

(***************************************************************************)
(* A manager that never went live has no handler, and one that was         *)
(* confirmed has been used and is over.                                    *)
(***************************************************************************)
Idle == ~serving /\ ran = {} /\ \A h \in Call : call[h] = "none"

Used ==
  /\ session # "none" => used
  /\ stopping => session \in {"live", "partial"}
  /\ session \in {"none", "partial"} => Idle
  /\ confirmed => used /\ session \in {"none", "ended"}

(***************************************************************************)
(* One Stop call carries the attempt; what it has done by where it is, and *)
(* what a call that was woken can know.                                    *)
(***************************************************************************)
Carrying == {"revoke", "close", "wait", "seal", "drain", "remove"}
Over == ~serving /\ \A h \in Call : call[h] \in {"none", "finished"}

Stages ==
  \A c \in Caller :
    /\ stop[c] \in Carrying =>
         /\ stopping /\ session \in {"live", "partial"}
         /\ \A d \in Caller : stop[d] \in Carrying => c = d
    /\ stop[c] \in {"wait", "seal", "drain", "remove"} => ~serving
    /\ stop[c] \in {"seal", "drain", "remove"} => Over
    /\ stop[c] \in {"join", "joined"} => session # "none"
    /\ stop[c] = "joined" => stopErr \/ session = "ended"
    /\ stop[c] = "remove" => session = "partial"
    /\ stop[c] \in {"seal", "drain"} => session = "live"

Complete ==
  \A h \in ran : InLog(structured, h) /\ (retained => InLog(raw, h))

Settled == session = "ended" => Over /\ Complete

IInv == /\ TypeOK /\ WriterIdle /\ Entered /\ Kept /\ Used /\ Stages /\ Settled

LEMMA IInvInit == Init => IInv
<1> SUFFICES ASSUME Init PROVE IInv
  OBVIOUS
<1>1. AuditTypeOK
  <2>1. <<>> \in Seq(Record) /\ 0 \in 0..MaxRecords
    BY CapacityAssumption
  <2> QED BY <2>1 DEF Init, AuditInit, AuditTypeOK
<1>2. TypeOK
  BY <1>1 DEF Init, TypeOK
<1> QED BY <1>2
  DEF Init, AuditInit, IInv, WriterIdle, Entered, Kept, Used, Idle, Stages, Carrying,
      Over, Complete, Settled

(***************************************************************************)
(* Every step of the manager, the handlers, the writer and the Stop calls  *)
(* keeps them.                                                             *)
(***************************************************************************)
LEMMA IInvNext == IInv /\ [Next]_vars => IInv'
<1> SUFFICES ASSUME IInv, [Next]_vars PROVE IInv'
  OBVIOUS
<1> USE CapacityAssumption DEF IInv, auditVars, queue, disk, Others, manager, Served, Goto
<1>1. ASSUME StartTarget
      PROVE  IInv'
  <2> USE <1>1 DEF StartTarget, Startable
  <2>1. TypeOK'
    <3>1. AuditTypeOK'
      BY DEF TypeOK, AuditTypeOK
    <3> QED BY <3>1 DEF TypeOK
  <2>2. WriterIdle'
    BY DEF WriterIdle
  <2>3. Entered'
    BY DEF TypeOK, Entered
  <2>4. Kept'
    BY DEF TypeOK, Entered, Kept, Held
  <2>5. Used'
    BY DEF TypeOK, Used, Idle, Stages, Carrying
  <2>6. Stages'
    BY DEF TypeOK, Stages, Carrying, Over, Used
  <2>7. Settled'
    BY DEF TypeOK, Settled, Over, Complete, Entered
  <2> QED BY <2>1, <2>2, <2>3, <2>4, <2>5, <2>6, <2>7
<1>2. ASSUME StartFails
      PROVE  IInv'
  <2> USE <1>2 DEF StartFails, Startable
  <2>1. TypeOK'
    <3>1. AuditTypeOK'
      BY DEF TypeOK, AuditTypeOK
    <3> QED BY <3>1 DEF TypeOK
  <2>2. WriterIdle'
    BY DEF WriterIdle
  <2>3. Entered'
    BY DEF TypeOK, Entered
  <2>4. Kept'
    BY DEF TypeOK, Entered, Kept, Held
  <2>5. Used'
    BY DEF TypeOK, Used, Idle, Stages, Carrying
  <2>6. Stages'
    BY DEF TypeOK, Stages, Carrying, Over, Used
  <2>7. Settled'
    BY DEF TypeOK, Settled, Over, Complete, Entered
  <2> QED BY <2>1, <2>2, <2>3, <2>4, <2>5, <2>6, <2>7
<1>3. ASSUME Wakes, UNCHANGED <<Others, call, ran>>
      PROVE  IInv'
  <2> USE <1>3 DEF Wakes
  <2>1. TypeOK'
    <3>1. AuditTypeOK'
      BY DEF TypeOK, AuditTypeOK
    <3> QED BY <3>1 DEF TypeOK
  <2>2. WriterIdle'
    BY DEF WriterIdle
  <2>3. Entered'
    BY DEF TypeOK, Entered
  <2>4. Kept'
    BY DEF TypeOK, Entered, Kept, Held
  <2>5. Used'
    BY DEF TypeOK, Used, Idle, Stages, Carrying
  <2>6. Stages'
    BY DEF TypeOK, Stages, Carrying, Over, Used
  <2>7. Settled'
    BY DEF TypeOK, Settled, Over, Complete, Entered
  <2> QED BY <2>1, <2>2, <2>3, <2>4, <2>5, <2>6, <2>7
<1>4. ASSUME Takes, UNCHANGED <<Others, call, ran>>
      PROVE  IInv'
  <2>a. \A h : Held(h)' <=> Held(h)
    <3>1. pending \in Seq(Record) /\ entry = <<>> /\ pending # <<>>
      BY <1>4 DEF Takes, TypeOK, AuditTypeOK, WriterIdle
    <3> QED BY <1>4, <3>1, InTaken, InEmpty DEF Takes, Held
  <2> USE <1>4 DEF Takes
  <2>1. TypeOK'
    <3>1. AuditTypeOK'
      BY DEF TypeOK, AuditTypeOK
    <3> QED BY <3>1 DEF TypeOK
  <2>2. WriterIdle'
    BY DEF WriterIdle
  <2>3. Entered'
    BY DEF TypeOK, Entered
  <2>4. Kept'
    BY <2>a DEF Kept
  <2>5. Used'
    BY DEF TypeOK, Used, Idle, Stages, Carrying
  <2>6. Stages'
    BY DEF TypeOK, Stages, Carrying, Over, Used
  <2>7. Settled'
    BY DEF TypeOK, Settled, Over, Complete, Entered
  <2> QED BY <2>1, <2>2, <2>3, <2>4, <2>5, <2>6, <2>7
<1>5. ASSUME Sleeps, UNCHANGED <<Others, call, ran>>
      PROVE  IInv'
  <2> USE <1>5 DEF Sleeps
  <2>1. TypeOK'
    <3>1. AuditTypeOK'
      BY DEF TypeOK, AuditTypeOK
    <3> QED BY <3>1 DEF TypeOK
  <2>2. WriterIdle'
    BY DEF WriterIdle
  <2>3. Entered'
    BY DEF TypeOK, Entered
  <2>4. Kept'
    BY DEF TypeOK, Entered, Kept, Held
  <2>5. Used'
    BY DEF TypeOK, Used, Idle, Stages, Carrying
  <2>6. Stages'
    BY DEF TypeOK, Stages, Carrying, Over, Used
  <2>7. Settled'
    BY DEF TypeOK, Settled, Over, Complete, Entered
  <2> QED BY <2>1, <2>2, <2>3, <2>4, <2>5, <2>6, <2>7
<1>6. ASSUME Waits, UNCHANGED <<Others, call, ran>>
      PROVE  IInv'
  <2> USE <1>6 DEF Waits
  <2>1. TypeOK'
    <3>1. AuditTypeOK'
      BY DEF TypeOK, AuditTypeOK
    <3> QED BY <3>1 DEF TypeOK
  <2>2. WriterIdle'
    BY DEF WriterIdle
  <2>3. Entered'
    BY DEF TypeOK, Entered
  <2>4. Kept'
    BY DEF TypeOK, Entered, Kept, Held
  <2>5. Used'
    BY DEF TypeOK, Used, Idle, Stages, Carrying
  <2>6. Stages'
    BY DEF TypeOK, Stages, Carrying, Over, Used
  <2>7. Settled'
    BY DEF TypeOK, Settled, Over, Complete, Entered
  <2> QED BY <2>1, <2>2, <2>3, <2>4, <2>5, <2>6, <2>7
<1>7. ASSUME Persists, UNCHANGED <<Others, call, ran>>
      PROVE  IInv'
  <2>a. /\ structured' \in {structured, structured \o entry}
        /\ raw' \in {raw, raw \o entry}
        /\ auditErr' \in BOOLEAN /\ (auditErr => auditErr')
        /\ ~auditErr' => structured' = structured \o entry /\ (retained => raw' = raw \o entry)
    BY <1>7 DEF Persists, LatchedAll, TypeOK, AuditTypeOK
  <2>b. structured \in Seq(Record) /\ raw \in Seq(Record) /\ entry \in Seq(Record)
    BY DEF TypeOK, AuditTypeOK
  <2>c. \A h : /\ InLog(structured \o entry, h) <=> InLog(structured, h) \/ InLog(entry, h)
               /\ InLog(raw \o entry, h) <=> InLog(raw, h) \/ InLog(entry, h)
    BY <2>b, InConcat
  <2> USE <1>7 DEF Persists
  <2>1. TypeOK'
    <3>1. AuditTypeOK'
      <4>1. structured' \in Seq(Record) /\ raw' \in Seq(Record)
        BY <2>a, <2>b
      <4> QED BY <2>a, <4>1 DEF TypeOK, AuditTypeOK
    <3> QED BY <3>1 DEF TypeOK
  <2>2. WriterIdle'
    BY DEF WriterIdle
  <2>3. Entered'
    BY DEF TypeOK, Entered
  <2>4. Kept'
    <3>1. CASE auditErr'
      BY <3>1 DEF Kept
    <3>2. CASE ~auditErr'
      <4>1. structured' = structured \o entry /\ (retained => raw' = raw \o entry) /\ ~auditErr
        BY <2>a, <3>2
      <4> QED BY <2>c, <4>1, InEmpty DEF Kept, Held
    <3> QED BY <3>1, <3>2
  <2>5. Used'
    BY DEF TypeOK, Used, Idle, Stages, Carrying
  <2>6. Stages'
    BY DEF TypeOK, Stages, Carrying, Over, Used
  <2>7. Settled'
    <3>1. \A h : /\ InLog(structured, h) => InLog(structured', h)
                 /\ InLog(raw, h) => InLog(raw', h)
      BY <2>a, <2>c
    <3> QED BY <3>1 DEF Settled, Over, Complete
  <2> QED BY <2>1, <2>2, <2>3, <2>4, <2>5, <2>6, <2>7
<1>8. ASSUME Finishes, UNCHANGED <<Others, call, ran>>
      PROVE  IInv'
  <2>a. auditErr' \in BOOLEAN /\ (auditErr => auditErr')
    <3>1. CASE auditErr' = auditErr
      BY <3>1 DEF TypeOK, AuditTypeOK
    <3>2. CASE auditErr' = TRUE
      BY <3>2
    <3> QED BY <1>8, <3>1, <3>2 DEF Finishes
  <2> USE <1>8 DEF Finishes
  <2>1. TypeOK'
    <3>1. AuditTypeOK'
      BY <2>a DEF TypeOK, AuditTypeOK
    <3> QED BY <3>1 DEF TypeOK
  <2>2. WriterIdle'
    BY DEF WriterIdle
  <2>3. Entered'
    BY DEF TypeOK, Entered
  <2>4. Kept'
    BY <2>a DEF Kept, Held
  <2>5. Used'
    BY DEF TypeOK, Used, Idle, Stages, Carrying
  <2>6. Stages'
    BY DEF TypeOK, Stages, Carrying, Over, Used
  <2>7. Settled'
    BY DEF TypeOK, Settled, Over, Complete, Entered
  <2> QED BY <2>1, <2>2, <2>3, <2>4, <2>5, <2>6, <2>7
<1>9. ASSUME NEW h \in Call, Admit(h)
      PROVE  IInv'
  <2> USE <1>9 DEF Admit, Admits, Step
  <2>1. TypeOK'
    <3>1. AuditTypeOK'
      BY DEF TypeOK, AuditTypeOK
    <3> QED BY <3>1 DEF TypeOK
  <2>2. WriterIdle'
    BY DEF WriterIdle
  <2>3. Entered'
    BY DEF TypeOK, Entered
  <2>4. Kept'
    BY DEF TypeOK, Entered, Kept, Held
  <2>5. Used'
    BY DEF TypeOK, Used, Idle, Stages, Carrying
  <2>6. Stages'
    BY DEF TypeOK, Stages, Carrying, Over, Used
  <2>7. Settled'
    BY DEF TypeOK, Settled, Over, Complete, Entered
  <2> QED BY <2>1, <2>2, <2>3, <2>4, <2>5, <2>6, <2>7
<1>10. ASSUME NEW h \in Call, Unsupported(h)
      PROVE  IInv'
  <2> DEFINE e == [seq |-> sequence + 1, of |-> h, ran |-> FALSE]
  <2>a. \/ auditErr /\ UNCHANGED <<pending, sequence, sealed, wake, auditErr>>
        \/ auditErr' = TRUE /\ UNCHANGED <<pending, sequence, sealed, wake>>
        \/ /\ e \in Record /\ pending' = Append(pending, e)
           /\ sequence' \in 0..MaxRecords /\ wake' = TRUE
           /\ UNCHANGED <<sealed, auditErr>>
    BY <1>10 DEF Unsupported, Enqueue, Signal, Room, Record, TypeOK, AuditTypeOK
  <2>b. auditErr' \/ \A k \in ran : Held(k)' <=> Held(k)
    <3>1. CASE auditErr'
      BY <3>1
    <3>2. CASE e \in Record /\ pending' = Append(pending, e) /\ ~auditErr'
      <4>1. pending \in Seq(Record) /\ UNCHANGED entry
        BY <1>10 DEF Unsupported, TypeOK, AuditTypeOK
      <4>2. ASSUME NEW k \in ran PROVE InLog(pending', k) <=> InLog(pending, k)
        <5>1. e.of = h /\ ~e.ran
          OBVIOUS
        <5> QED BY <3>2, <4>1, <4>2, <5>1, InAppend
      <4> QED BY <4>1, <4>2 DEF Held
    <3> QED BY <2>a, <3>1, <3>2
  <2> HIDE DEF e
  <2> USE <1>10 DEF Unsupported, Enqueue, Signal, Room
  <2>1. TypeOK'
    <3>1. AuditTypeOK'
      <4>1. CASE auditErr /\ UNCHANGED <<pending, sequence, sealed, wake, auditErr>>
        BY <4>1 DEF TypeOK, AuditTypeOK
      <4>2. CASE auditErr' = TRUE /\ UNCHANGED <<pending, sequence, sealed, wake>>
        BY <4>2 DEF TypeOK, AuditTypeOK
      <4>3. CASE /\ e \in Record /\ pending' = Append(pending, e)
                 /\ sequence' \in 0..MaxRecords /\ wake' = TRUE
                 /\ UNCHANGED <<sealed, auditErr>>
        BY <4>3 DEF TypeOK, AuditTypeOK
      <4> QED BY <2>a, <4>1, <4>2, <4>3
    <3> QED BY <3>1 DEF TypeOK
  <2>2. WriterIdle'
    BY DEF WriterIdle
  <2>3. Entered'
    BY DEF TypeOK, Entered
  <2>4. Kept'
    BY <2>b DEF TypeOK, Entered, Kept
  <2>5. Used'
    BY DEF TypeOK, Used, Idle, Stages, Carrying
  <2>6. Stages'
    BY DEF TypeOK, Stages, Carrying, Over, Used
  <2>7. Settled'
    BY DEF TypeOK, Settled, Over, Complete, Entered
  <2> QED BY <2>1, <2>2, <2>3, <2>4, <2>5, <2>6, <2>7
<1>11. ASSUME NEW h \in Call, HangsUp(h) \/ Refuse(h) \/ RefuseLate(h)
      PROVE  IInv'
  <2> USE <1>11 DEF HangsUp, Refuse, RefuseLate, Step
  <2>1. TypeOK'
    <3>1. AuditTypeOK'
      BY DEF TypeOK, AuditTypeOK
    <3> QED BY <3>1 DEF TypeOK
  <2>2. WriterIdle'
    BY DEF WriterIdle
  <2>3. Entered'
    BY DEF TypeOK, Entered
  <2>4. Kept'
    BY DEF TypeOK, Entered, Kept, Held
  <2>5. Used'
    BY DEF TypeOK, Used, Idle, Stages, Carrying
  <2>6. Stages'
    BY DEF TypeOK, Stages, Carrying, Over, Used
  <2>7. Settled'
    BY DEF TypeOK, Settled, Over, Complete, Entered
  <2> QED BY <2>1, <2>2, <2>3, <2>4, <2>5, <2>6, <2>7
<1>12. ASSUME NEW h \in Call, Check(h) \/ CheckAudit(h)
      PROVE  IInv'
  <2> USE <1>12 DEF Check, CheckAudit, Step
  <2>1. TypeOK'
    <3>1. AuditTypeOK'
      BY DEF TypeOK, AuditTypeOK
    <3> QED BY <3>1 DEF TypeOK
  <2>2. WriterIdle'
    BY DEF WriterIdle
  <2>3. Entered'
    BY DEF TypeOK, Entered
  <2>4. Kept'
    BY DEF TypeOK, Entered, Kept, Held
  <2>5. Used'
    BY DEF TypeOK, Used, Idle, Stages, Carrying
  <2>6. Stages'
    BY DEF TypeOK, Stages, Carrying, Over, Used
  <2>7. Settled'
    BY DEF TypeOK, Settled, Over, Complete, Entered
  <2> QED BY <2>1, <2>2, <2>3, <2>4, <2>5, <2>6, <2>7
<1>13. ASSUME NEW h \in Call, Run(h)
      PROVE  IInv'
  <2> USE <1>13 DEF Run, Step
  <2>1. TypeOK'
    <3>1. AuditTypeOK'
      BY DEF TypeOK, AuditTypeOK
    <3> QED BY <3>1 DEF TypeOK
  <2>2. WriterIdle'
    BY DEF WriterIdle
  <2>3. Entered'
    BY DEF TypeOK, Entered
  <2>4. Kept'
    BY DEF TypeOK, Entered, Kept, Held
  <2>5. Used'
    BY DEF TypeOK, Used, Idle, Stages, Carrying
  <2>6. Stages'
    BY DEF TypeOK, Stages, Carrying, Over, Used
  <2>7. Settled'
    BY DEF TypeOK, Settled, Over, Complete, Entered
  <2> QED BY <2>1, <2>2, <2>3, <2>4, <2>5, <2>6, <2>7
<1>14. ASSUME NEW h \in Call, Drain(h) \/ RunReturns(h)
      PROVE  IInv'
  <2> USE <1>14 DEF Drain, RunReturns, Step
  <2>1. TypeOK'
    <3>1. AuditTypeOK'
      BY DEF TypeOK, AuditTypeOK
    <3> QED BY <3>1 DEF TypeOK
  <2>2. WriterIdle'
    BY DEF WriterIdle
  <2>3. Entered'
    BY DEF TypeOK, Entered
  <2>4. Kept'
    BY DEF TypeOK, Entered, Kept, Held
  <2>5. Used'
    BY DEF TypeOK, Used, Idle, Stages, Carrying
  <2>6. Stages'
    BY DEF TypeOK, Stages, Carrying, Over, Used
  <2>7. Settled'
    BY DEF TypeOK, Settled, Over, Complete, Entered
  <2> QED BY <2>1, <2>2, <2>3, <2>4, <2>5, <2>6, <2>7
<1>15. ASSUME NEW h \in Call, Overflow(h)
      PROVE  IInv'
  <2> USE <1>15 DEF Overflow, Latch, Step
  <2>1. TypeOK'
    <3>1. AuditTypeOK'
      BY DEF TypeOK, AuditTypeOK
    <3> QED BY <3>1 DEF TypeOK
  <2>2. WriterIdle'
    BY DEF WriterIdle
  <2>3. Entered'
    BY DEF TypeOK, Entered
  <2>4. Kept'
    BY DEF TypeOK, Entered, Kept, Held
  <2>5. Used'
    BY DEF TypeOK, Used, Idle, Stages, Carrying
  <2>6. Stages'
    BY DEF TypeOK, Stages, Carrying, Over, Used
  <2>7. Settled'
    BY DEF TypeOK, Settled, Over, Complete, Entered
  <2> QED BY <2>1, <2>2, <2>3, <2>4, <2>5, <2>6, <2>7
<1>16. ASSUME NEW h \in Call, Recorded(h)
      PROVE  IInv'
  <2> DEFINE e == [seq |-> sequence + 1, of |-> h, ran |-> h \in ran]
  <2>a. \/ auditErr /\ UNCHANGED <<pending, sequence, sealed, wake, auditErr>>
        \/ auditErr' = TRUE /\ UNCHANGED <<pending, sequence, sealed, wake>>
        \/ /\ e \in Record /\ pending' = Append(pending, e)
           /\ sequence' \in 0..MaxRecords /\ wake' = TRUE
           /\ UNCHANGED <<sealed, auditErr>>
    BY <1>16 DEF Recorded, Enqueue, Signal, Room, Record, TypeOK, AuditTypeOK
  <2>b. auditErr' \/ \A k \in ran : Held(k)' <=> Held(k) \/ k = h
    <3>1. CASE auditErr'
      BY <3>1
    <3>2. CASE e \in Record /\ pending' = Append(pending, e) /\ ~auditErr'
      <4>1. pending \in Seq(Record) /\ UNCHANGED entry
        BY <1>16 DEF Recorded, TypeOK, AuditTypeOK
      <4>2. ASSUME NEW k \in ran PROVE InLog(pending', k) <=> InLog(pending, k) \/ k = h
        <5>1. e.of = h /\ (e.ran <=> h \in ran)
          OBVIOUS
        <5> QED BY <3>2, <4>1, <4>2, <5>1, InAppend
      <4> QED BY <4>1, <4>2 DEF Held
    <3> QED BY <2>a, <3>1, <3>2
  <2> HIDE DEF e
  <2> USE <1>16 DEF Recorded, Enqueue, Signal, Room, Step
  <2>1. TypeOK'
    <3>1. AuditTypeOK'
      <4>1. CASE auditErr /\ UNCHANGED <<pending, sequence, sealed, wake, auditErr>>
        BY <4>1 DEF TypeOK, AuditTypeOK
      <4>2. CASE auditErr' = TRUE /\ UNCHANGED <<pending, sequence, sealed, wake>>
        BY <4>2 DEF TypeOK, AuditTypeOK
      <4>3. CASE /\ e \in Record /\ pending' = Append(pending, e)
                 /\ sequence' \in 0..MaxRecords /\ wake' = TRUE
                 /\ UNCHANGED <<sealed, auditErr>>
        BY <4>3 DEF TypeOK, AuditTypeOK
      <4> QED BY <2>a, <4>1, <4>2, <4>3
    <3> QED BY <3>1 DEF TypeOK
  <2>2. WriterIdle'
    BY DEF WriterIdle
  <2>3. Entered'
    BY DEF TypeOK, Entered
  <2>4. Kept'
    BY <2>b DEF TypeOK, Entered, Kept
  <2>5. Used'
    BY DEF TypeOK, Used, Idle, Stages, Carrying
  <2>6. Stages'
    BY DEF TypeOK, Stages, Carrying, Over, Used
  <2>7. Settled'
    BY DEF TypeOK, Settled, Over, Complete, Entered
  <2> QED BY <2>1, <2>2, <2>3, <2>4, <2>5, <2>6, <2>7
<1>17. ASSUME NEW c \in Caller, StopInactive(c)
      PROVE  IInv'
  <2> USE <1>17 DEF StopInactive, Return
  <2>1. TypeOK'
    <3>1. AuditTypeOK'
      BY DEF TypeOK, AuditTypeOK
    <3> QED BY <3>1 DEF TypeOK
  <2>2. WriterIdle'
    BY DEF WriterIdle
  <2>3. Entered'
    BY DEF TypeOK, Entered
  <2>4. Kept'
    BY DEF TypeOK, Entered, Kept, Held
  <2>5. Used'
    BY DEF TypeOK, Used, Idle, Stages, Carrying
  <2>6. Stages'
    BY DEF TypeOK, Stages, Carrying, Over, Used
  <2>7. Settled'
    BY DEF TypeOK, Settled, Over, Complete, Entered
  <2> QED BY <2>1, <2>2, <2>3, <2>4, <2>5, <2>6, <2>7
<1>18. ASSUME NEW c \in Caller, StopJoins(c)
      PROVE  IInv'
  <2> USE <1>18 DEF StopJoins, Join
  <2>1. TypeOK'
    <3>1. AuditTypeOK'
      BY DEF TypeOK, AuditTypeOK
    <3> QED BY <3>1 DEF TypeOK
  <2>2. WriterIdle'
    BY DEF WriterIdle
  <2>3. Entered'
    BY DEF TypeOK, Entered
  <2>4. Kept'
    BY DEF TypeOK, Entered, Kept, Held
  <2>5. Used'
    BY DEF TypeOK, Used, Idle, Stages, Carrying
  <2>6. Stages'
    BY DEF TypeOK, Stages, Carrying, Over, Used
  <2>7. Settled'
    BY DEF TypeOK, Settled, Over, Complete, Entered
  <2> QED BY <2>1, <2>2, <2>3, <2>4, <2>5, <2>6, <2>7
<1>19. ASSUME NEW c \in Caller, StopBegins(c)
      PROVE  IInv'
  <2> USE <1>19 DEF StopBegins, Join
  <2>1. TypeOK'
    <3>1. AuditTypeOK'
      BY DEF TypeOK, AuditTypeOK
    <3> QED BY <3>1 DEF TypeOK
  <2>2. WriterIdle'
    BY DEF WriterIdle
  <2>3. Entered'
    BY DEF TypeOK, Entered
  <2>4. Kept'
    BY DEF TypeOK, Entered, Kept, Held
  <2>5. Used'
    BY DEF TypeOK, Used, Idle, Stages, Carrying
  <2>6. Stages'
    BY DEF TypeOK, Stages, Carrying, Over, Used
  <2>7. Settled'
    BY DEF TypeOK, Settled, Over, Complete, Entered
  <2> QED BY <2>1, <2>2, <2>3, <2>4, <2>5, <2>6, <2>7
<1>20. ASSUME NEW c \in Caller, Revoke(c)
      PROVE  IInv'
  <2> USE <1>20 DEF Revoke
  <2>1. TypeOK'
    <3>1. AuditTypeOK'
      BY DEF TypeOK, AuditTypeOK
    <3> QED BY <3>1 DEF TypeOK
  <2>2. WriterIdle'
    BY DEF WriterIdle
  <2>3. Entered'
    BY DEF TypeOK, Entered
  <2>4. Kept'
    BY DEF TypeOK, Entered, Kept, Held
  <2>5. Used'
    BY DEF TypeOK, Used, Idle, Stages, Carrying
  <2>6. Stages'
    BY DEF TypeOK, Stages, Carrying, Over, Used
  <2>7. Settled'
    BY DEF TypeOK, Settled, Over, Complete, Entered
  <2> QED BY <2>1, <2>2, <2>3, <2>4, <2>5, <2>6, <2>7
<1>21. ASSUME NEW c \in Caller, CloseTransport(c)
      PROVE  IInv'
  <2> USE <1>21 DEF CloseTransport
  <2>1. TypeOK'
    <3>1. AuditTypeOK'
      BY DEF TypeOK, AuditTypeOK
    <3> QED BY <3>1 DEF TypeOK
  <2>2. WriterIdle'
    BY DEF WriterIdle
  <2>3. Entered'
    BY DEF TypeOK, Entered
  <2>4. Kept'
    BY DEF TypeOK, Entered, Kept, Held
  <2>5. Used'
    BY DEF TypeOK, Used, Idle, Stages, Carrying
  <2>6. Stages'
    BY DEF TypeOK, Stages, Carrying, Over, Used
  <2>7. Settled'
    BY DEF TypeOK, Settled, Over, Complete, Entered
  <2> QED BY <2>1, <2>2, <2>3, <2>4, <2>5, <2>6, <2>7
<1>22. ASSUME NEW c \in Caller, Waited(c)
      PROVE  IInv'
  <2> USE <1>22 DEF Waited, Joined, Alive
  <2>1. TypeOK'
    <3>1. AuditTypeOK'
      BY DEF TypeOK, AuditTypeOK
    <3> QED BY <3>1 DEF TypeOK
  <2>2. WriterIdle'
    BY DEF WriterIdle
  <2>3. Entered'
    BY DEF TypeOK, Entered
  <2>4. Kept'
    BY DEF TypeOK, Entered, Kept, Held
  <2>5. Used'
    BY DEF TypeOK, Used, Idle, Stages, Carrying
  <2>6. Stages'
    BY DEF TypeOK, Stages, Carrying, Over, Used
  <2>7. Settled'
    BY DEF TypeOK, Settled, Over, Complete, Entered
  <2> QED BY <2>1, <2>2, <2>3, <2>4, <2>5, <2>6, <2>7
<1>23. ASSUME NEW c \in Caller, Seals(c)
      PROVE  IInv'
  <2> USE <1>23 DEF Seals, Seal, Signal
  <2>1. TypeOK'
    <3>1. AuditTypeOK'
      BY DEF TypeOK, AuditTypeOK
    <3> QED BY <3>1 DEF TypeOK
  <2>2. WriterIdle'
    BY DEF WriterIdle
  <2>3. Entered'
    BY DEF TypeOK, Entered
  <2>4. Kept'
    BY DEF TypeOK, Entered, Kept, Held
  <2>5. Used'
    BY DEF TypeOK, Used, Idle, Stages, Carrying
  <2>6. Stages'
    BY DEF TypeOK, Stages, Carrying, Over, Used
  <2>7. Settled'
    BY DEF TypeOK, Settled, Over, Complete, Entered
  <2> QED BY <2>1, <2>2, <2>3, <2>4, <2>5, <2>6, <2>7
<1>24. ASSUME NEW c \in Caller, StopDrained(c)
      PROVE  IInv'
  <2> USE <1>24 DEF StopDrained, Ends, Drained, Finished, Wakened
  <2>1. TypeOK'
    <3>1. AuditTypeOK'
      BY DEF TypeOK, AuditTypeOK
    <3>2. stop' \in [Caller -> {"idle", "revoke", "close", "wait", "seal", "drain",
                                "remove", "join", "joined"}]
      BY DEF TypeOK
    <3>3. /\ session' \in {"none", "live", "partial", "ended"}
          /\ stopErr' \in BOOLEAN /\ confirmed' \in BOOLEAN
      BY DEF TypeOK, AuditTypeOK
    <3> QED BY <3>1, <3>2, <3>3 DEF TypeOK
  <2>2. WriterIdle'
    BY DEF WriterIdle
  <2>3. Entered'
    BY DEF TypeOK, Entered
  <2>4. Kept'
    BY DEF TypeOK, Entered, Kept, Held
  <2>5. Used'
    BY DEF TypeOK, Used, Idle, Stages, Carrying
  <2>6. Stages'
    BY DEF TypeOK, Stages, Carrying, Over, Used
  <2>7. Settled'
    <3>1. CASE auditErr
      BY <3>1 DEF Settled, Over, Complete
    <3>2. CASE ~auditErr
      <4>1. entry = <<>> /\ pending = <<>> /\ Over
        BY DEF WriterIdle, Stages
      <4>2. Complete
        BY <3>2, <4>1, InEmpty DEF Kept, Held, Over, Complete, Entered, TypeOK
      <4> QED BY <4>1, <4>2 DEF Settled, Over, Complete
    <3> QED BY <3>1, <3>2
  <2> QED BY <2>1, <2>2, <2>3, <2>4, <2>5, <2>6, <2>7
<1>25. ASSUME NEW c \in Caller, StopRemoves(c)
      PROVE  IInv'
  <2> USE <1>25 DEF StopRemoves, Ends, Wakened
  <2>1. TypeOK'
    <3>1. AuditTypeOK'
      BY DEF TypeOK, AuditTypeOK
    <3> QED BY <3>1 DEF TypeOK
  <2>2. WriterIdle'
    BY DEF WriterIdle
  <2>3. Entered'
    BY DEF TypeOK, Entered
  <2>4. Kept'
    BY DEF TypeOK, Entered, Kept, Held
  <2>5. Used'
    BY DEF TypeOK, Used, Idle, Stages, Carrying
  <2>6. Stages'
    BY DEF TypeOK, Stages, Carrying, Over, Used
  <2>7. Settled'
    BY DEF TypeOK, Settled, Over, Complete, Used, Idle, Stages, Carrying
  <2> QED BY <2>1, <2>2, <2>3, <2>4, <2>5, <2>6, <2>7
<1>26. ASSUME NEW c \in Caller, StopTimesOut(c)
      PROVE  IInv'
  <2> USE <1>26 DEF StopTimesOut, Ends, Wakened
  <2>1. TypeOK'
    <3>1. AuditTypeOK'
      BY DEF TypeOK, AuditTypeOK
    <3> QED BY <3>1 DEF TypeOK
  <2>2. WriterIdle'
    BY DEF WriterIdle
  <2>3. Entered'
    BY DEF TypeOK, Entered
  <2>4. Kept'
    BY DEF TypeOK, Entered, Kept, Held
  <2>5. Used'
    BY DEF TypeOK, Used, Idle, Stages, Carrying
  <2>6. Stages'
    BY DEF TypeOK, Stages, Carrying, Over, Used
  <2>7. Settled'
    BY DEF TypeOK, Settled, Over, Complete, Entered
  <2> QED BY <2>1, <2>2, <2>3, <2>4, <2>5, <2>6, <2>7
<1>27. ASSUME NEW c \in Caller, JoinReturns(c)
      PROVE  IInv'
  <2> USE <1>27 DEF JoinReturns, Return
  <2>1. TypeOK'
    <3>1. AuditTypeOK'
      BY DEF TypeOK, AuditTypeOK
    <3> QED BY <3>1 DEF TypeOK
  <2>2. WriterIdle'
    BY DEF WriterIdle
  <2>3. Entered'
    BY DEF TypeOK, Entered
  <2>4. Kept'
    BY DEF TypeOK, Entered, Kept, Held
  <2>5. Used'
    BY DEF TypeOK, Used, Idle, Stages, Carrying
  <2>6. Stages'
    BY DEF TypeOK, Stages, Carrying, Over, Used
  <2>7. Settled'
    BY DEF TypeOK, Settled, Over, Complete, Entered
  <2> QED BY <2>1, <2>2, <2>3, <2>4, <2>5, <2>6, <2>7
<1>28. ASSUME NEW c \in Caller, JoinGivesUp(c)
      PROVE  IInv'
  <2> USE <1>28 DEF JoinGivesUp, Return
  <2>1. TypeOK'
    <3>1. AuditTypeOK'
      BY DEF TypeOK, AuditTypeOK
    <3> QED BY <3>1 DEF TypeOK
  <2>2. WriterIdle'
    BY DEF WriterIdle
  <2>3. Entered'
    BY DEF TypeOK, Entered
  <2>4. Kept'
    BY DEF TypeOK, Entered, Kept, Held
  <2>5. Used'
    BY DEF TypeOK, Used, Idle, Stages, Carrying
  <2>6. Stages'
    BY DEF TypeOK, Stages, Carrying, Over, Used
  <2>7. Settled'
    BY DEF TypeOK, Settled, Over, Complete, Entered
  <2> QED BY <2>1, <2>2, <2>3, <2>4, <2>5, <2>6, <2>7
<1>29. ASSUME UNCHANGED vars
      PROVE  IInv'
  <2> USE <1>29 DEF vars
  <2>1. TypeOK'
    <3>1. AuditTypeOK'
      BY DEF TypeOK, AuditTypeOK
    <3> QED BY <3>1 DEF TypeOK
  <2>2. WriterIdle'
    BY DEF WriterIdle
  <2>3. Entered'
    BY DEF TypeOK, Entered
  <2>4. Kept'
    BY DEF TypeOK, Entered, Kept, Held
  <2>5. Used'
    BY DEF TypeOK, Used, Idle, Stages, Carrying
  <2>6. Stages'
    BY DEF TypeOK, Stages, Carrying, Over, Used
  <2>7. Settled'
    BY DEF TypeOK, Settled, Over, Complete, Entered
  <2> QED BY <2>1, <2>2, <2>3, <2>4, <2>5, <2>6, <2>7
<1> QED BY <1>1, <1>2, <1>3, <1>4, <1>5, <1>6, <1>7, <1>8, <1>9, <1>10, <1>11,
   <1>12, <1>13, <1>14, <1>15, <1>16, <1>17, <1>18, <1>19, <1>20, <1>21, <1>22,
   <1>23, <1>24, <1>25, <1>26, <1>27, <1>28, <1>29
  DEF Next, AuditNext, HandlerStep, StopStep

(***************************************************************************)
(* A call that has entered the sandbox is at work, in the queue, in the    *)
(* writer's hands or in the log, or the audit has latched an error.        *)
(***************************************************************************)
THEOREM Recording == Spec => []NoSilentLoss
<1>1. IInv => NoSilentLoss
  <2> SUFFICES ASSUME IInv, NEW h \in ran
               PROVE  h \in Alive \/ InLog(Written, h) \/ auditErr
    BY DEF NoSilentLoss
  <2>1. InLog(Written, h) <=> InLog(structured, h) \/ Held(h)
    <3>1. /\ structured \in Seq(Record) /\ entry \in Seq(Record) /\ pending \in Seq(Record)
          /\ structured \o entry \in Seq(Record)
      BY DEF IInv, TypeOK, AuditTypeOK
    <3> QED BY <3>1, InConcat DEF Written, Held
  <2> QED BY <2>1 DEF IInv, Entered, Kept, Alive, TypeOK
<1> QED BY <1>1, IInvInit, IInvNext, PTL DEF Spec

(***************************************************************************)
(* When Stop has returned nil, no handler is left, none can come, and each *)
(* call that entered the sandbox is in the log and, where it is kept, in   *)
(* the raw log.                                                            *)
(***************************************************************************)
THEOREM Auditing == Spec => []ConfirmedIsAudited
<1>1. IInv => ConfirmedIsAudited
  BY DEF IInv, Used, Idle, Settled, Over, Complete, Alive, ConfirmedIsAudited
<1> QED BY <1>1, IInvInit, IInvNext, PTL DEF Spec
=============================================================================
