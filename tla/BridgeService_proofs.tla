------------------------ MODULE BridgeService_proofs ------------------------
(***************************************************************************)
(* Proofs about the bridge, for any set of sandboxes.  Of the grant and    *)
(* revocation protocol: type correctness, that a confirmed Stop means that *)
(* the sandbox is and stays unreachable, and that it implements            *)
(* AgentAccess.  The same with the service around the protocol, of which   *)
(* every step is a step of the protocol or none; and that the service's    *)
(* evidence is intact and a nil Stop means that nothing is left.  At the   *)
(* end, the recorder: its indices are exact and its source is released.    *)
(***************************************************************************)
EXTENDS BridgeService, Recorder, TLAPS

-----------------------------------------------------------------------------
(* Sessions and the control server *)

PC == {"idle", "register", "poll", "get", "release", "collect"}

(***************************************************************************)
(* A snapshot of an entry, and the two other replies, are replies.         *)
(***************************************************************************)
LEMMA ReplyType ==
  /\ NoReply \in Snapshot /\ Refused \in Snapshot
  /\ TypeOK => \A s \in Sandbox : snapshot(s) \in Snapshot
  BY DEF NoReply, Refused, Snapshot, State, Manifest, snapshot, TypeOK

LEMMA TypeInit == Init => TypeOK
<1> SUFFICES ASSUME Init PROVE TypeOK
  OBVIOUS
<1>1. /\ flags \in [Sandbox -> SUBSET Flag] /\ call \in [Sandbox -> {"none", "sent", "handling"}]
      /\ reply \in [Sandbox -> Snapshot]
  BY ReplyType DEF Init
<1>2. /\ state \in [Sandbox -> State] /\ evidence \in [Sandbox -> Manifest]
      /\ manifest \in [Sandbox -> Manifest]
  BY DEF Init, State, Manifest
<1> QED BY <1>1, <1>2 DEF Init, TypeOK

(***************************************************************************)
(* The session's steps keep the types.                                     *)
(***************************************************************************)
LEMMA TypeSession ==
  ASSUME TypeOK, NEW s \in Sandbox,
         \/ Start(s) \/ Stop(s) \/ RegisterReply(s) \/ RegisterUncertain(s)
         \/ Poll(s) \/ ReleaseReply(s) \/ ReleaseError(s) \/ Collect(s)
  PROVE  TypeOK'
<1> USE ReplyType DEF Goto, Set, Send, EndCall
<1>0. UNCHANGED server => UNCHANGED <<up, closing, closeTodo, state, cleanupErr,
                                      manifest, op, ready, open>>
  BY DEF server, entry
<1>1. CASE Start(s)
  BY <1>0, <1>1 DEF Start, TypeOK, Flag
<1>2. CASE Stop(s)
  BY <1>0, <1>2 DEF Stop, Return, TypeOK, Flag
<1>3. CASE RegisterReply(s)
  <2>1. flags' \in [Sandbox -> SUBSET Flag]
    BY <1>3 DEF RegisterReply, TypeOK, Flag
  <2>2. pc' \in [Sandbox -> PC]
    BY <1>3 DEF RegisterReply, TypeOK, PC
  <2>3. /\ call' \in [Sandbox -> {"none", "sent", "handling"}]
        /\ reply' \in [Sandbox -> Snapshot]
    BY <1>3 DEF RegisterReply, TypeOK
  <2>4. stray' \subseteq Sandbox \X {"register", "release"}
    BY <1>3 DEF RegisterReply, TypeOK
  <2> QED BY <1>0, <1>3, <2>1, <2>2, <2>3, <2>4 DEF RegisterReply, TypeOK, PC
<1>4. CASE RegisterUncertain(s)
  BY <1>0, <1>4 DEF RegisterUncertain, TypeOK
<1>5. CASE Poll(s)
  BY <1>0, <1>5 DEF Poll, TypeOK
<1>6. CASE ReleaseReply(s)
  <2>1. reply[s].manifest \in Manifest
    BY DEF TypeOK, Snapshot
  <2>2. flags' \in [Sandbox -> SUBSET Flag] /\ evidence' \in [Sandbox -> Manifest]
    BY <1>6, <2>1 DEF ReleaseReply, TypeOK, Flag
  <2>3. pc' \in [Sandbox -> PC] /\ confirmed' \subseteq Sandbox
    BY <1>6 DEF ReleaseReply, Return, TypeOK, PC
  <2>4. /\ call' \in [Sandbox -> {"none", "sent", "handling"}]
        /\ reply' \in [Sandbox -> Snapshot]
        /\ stray' \subseteq Sandbox \X {"register", "release"}
    BY <1>6 DEF ReleaseReply, TypeOK
  <2> QED BY <1>0, <1>6, <2>2, <2>3, <2>4 DEF ReleaseReply, TypeOK, PC
<1>7. CASE ReleaseError(s)
  BY <1>0, <1>7 DEF ReleaseError, ExitOutcome, Return, TypeOK, Flag
<1>8. CASE Collect(s)
  BY <1>0, <1>8 DEF Collect, Return, TypeOK, Flag
<1> QED BY <1>1, <1>2, <1>3, <1>4, <1>5, <1>6, <1>7, <1>8

(***************************************************************************)
(* The bridge process's steps keep the types.                              *)
(***************************************************************************)
LEMMA TypeServer ==
  ASSUME TypeOK,
         \/ \E s \in Sandbox : ServerStep(s) \/ NativeOpens(s)
         \/ Close \/ Exit
  PROVE  TypeOK'
<1> USE ReplyType DEF Answer, Wait, Drop, frame, entry, session
<1>1. ASSUME NEW s \in Sandbox, RegisterSandbox(s) PROVE TypeOK'
  <2>1. state' \in [Sandbox -> State]
    BY <1>1 DEF RegisterSandbox, TypeOK, State
  <2>2. op' \in [Sandbox -> {"none", "register", "release"}]
    BY <1>1 DEF RegisterSandbox, TypeOK
  <2>3. /\ call' \in [Sandbox -> {"none", "sent", "handling"}]
        /\ reply' \in [Sandbox -> Snapshot]
        /\ stray' \subseteq Sandbox \X {"register", "release"}
    BY <1>1 DEF RegisterSandbox, TypeOK
  <2> QED BY <1>1, <2>1, <2>2, <2>3 DEF RegisterSandbox, TypeOK
<1>2. ASSUME NEW s \in Sandbox, GetSandbox(s) PROVE TypeOK'
  BY <1>2 DEF GetSandbox, TypeOK
<1>3. ASSUME NEW s \in Sandbox, ReleaseSandbox(s) PROVE TypeOK'
  <2>1. [snapshot(s) EXCEPT !.state = "RELEASED"] \in Snapshot
    BY DEF Snapshot, State
  <2> QED BY <1>3, <2>1 DEF ReleaseSandbox, releaseLocked, Tombstone, TypeOK, State
<1>4. ASSUME NEW s \in Sandbox, HandlerReply(s) PROVE TypeOK'
  BY <1>4 DEF HandlerReply, TypeOK
<1>5. ASSUME NEW s \in Sandbox, RegisterEnd(s) PROVE TypeOK'
  BY <1>5 DEF RegisterEnd, RegisteredState, NextOperation, TypeOK, State
<1>6. ASSUME NEW s \in Sandbox, ReleaseEnd(s) PROVE TypeOK'
  <2>1. state' \in [Sandbox -> State] /\ manifest' \in [Sandbox -> Manifest]
    BY <1>6 DEF ReleaseEnd, NativeReleases, TypeOK, State, Manifest
  <2>2. op' \in [Sandbox -> {"none", "register", "release"}]
    BY <1>6 DEF ReleaseEnd, NativeReleases, TypeOK
  <2>3. open' \in [Sandbox -> BOOLEAN] /\ cleanupErr' \in [Sandbox -> BOOLEAN]
    BY <1>6 DEF ReleaseEnd, NativeReleases, TypeOK
  <2> QED BY <1>6, <2>1, <2>2, <2>3 DEF ReleaseEnd, NativeReleases, TypeOK
<1>7. ASSUME NEW s \in Sandbox, CloseRelease(s) PROVE TypeOK'
  BY <1>7 DEF CloseRelease, releaseLocked, TypeOK, State
<1>8. ASSUME NEW s \in Sandbox, NativeOpens(s) PROVE TypeOK'
  BY <1>8 DEF NativeOpens, TypeOK
<1>9. CASE Close
  BY <1>9 DEF Close, TypeOK
<1>10. CASE Exit
  BY <1>10 DEF Exit, TypeOK
<1> QED BY <1>1, <1>2, <1>3, <1>4, <1>5, <1>6, <1>7, <1>8, <1>9, <1>10
        DEF ServerStep

LEMMA TypeNext == TypeOK /\ [Next]_vars => TypeOK'
<1> SUFFICES ASSUME TypeOK, [Next]_vars PROVE TypeOK'
  OBVIOUS
<1>1. CASE UNCHANGED vars
  BY <1>1 DEF vars, session, server, entry, TypeOK
<1>2. CASE Next
  BY <1>2, TypeSession, TypeServer DEF Next, SessionStep
<1> QED BY <1>1, <1>2

(***************************************************************************)
(* Type correctness of sessions and bridge process in every behaviour.     *)
(***************************************************************************)
THEOREM TypeCorrect == Spec => []TypeOK
  BY TypeInit, TypeNext, PTL DEF Spec
-----------------------------------------------------------------------------
(***************************************************************************)
(* Why a confirmation stays true.  ConfirmedClosed alone says nothing of   *)
(* what could still open the sandbox, so the invariant adds, per sandbox:  *)
(* an entry that is RELEASED or was never made is shut and idle; a reply   *)
(* or a session that says released has such an entry, or the process is    *)
(* gone and everything with it; a session that has not registered has made *)
(* no entry and has nothing on its way; and a confirmation was given only  *)
(* in one of these cases.                                                  *)
(***************************************************************************)
ShutWhenFinal(s) == state[s] \in {"none", "RELEASED"} => op[s] = "none" /\ ~open[s]

ShutWhenDown(s) == ~up => ~open[s]

ReplyIsTrue(s) == reply[s].state = "RELEASED" => state[s] = "RELEASED"

ReleasedIsTrue(s) ==
  /\ "released" \in flags[s] => ~up \/ state[s] = "RELEASED"
  /\ "released" \in flags[s] => "registered" \in flags[s]
  /\ "collected" \in flags[s] => "released" \in flags[s]
  /\ pc[s] = "collect" => "released" \in flags[s]

NothingBeforeRegistration(s) ==
  "registered" \notin flags[s] =>
    /\ state[s] = "none" /\ pc[s] = "idle"
    /\ \A p \in {"register", "release"} : <<s, p>> \notin stray

ClosingKnown(s) == s \in closeTodo => state[s] # "none"

ConfirmedFor(s) ==
  s \in confirmed =>
    \/ "released" \in flags[s]
    \/ "registered" \notin flags[s] /\ "stopped" \in flags[s]

SInv(s) ==
  /\ ShutWhenFinal(s) /\ ShutWhenDown(s) /\ ReplyIsTrue(s) /\ ReleasedIsTrue(s)
  /\ NothingBeforeRegistration(s) /\ ClosingKnown(s) /\ ConfirmedFor(s)

BInv == TypeOK /\ \A s \in Sandbox : SInv(s)

LEMMA BInvInit == Init => BInv
  BY TypeInit DEF Init, BInv, SInv, ShutWhenFinal, ShutWhenDown, ReplyIsTrue,
     ReleasedIsTrue, NothingBeforeRegistration, ClosingKnown, ConfirmedFor, NoReply

LEMMA BInvImpliesClosed == BInv => ConfirmedClosed
  BY DEF BInv, SInv, ShutWhenFinal, ShutWhenDown, ReleasedIsTrue, TypeOK,
     NothingBeforeRegistration, ConfirmedFor, ConfirmedClosed

(***************************************************************************)
(* The steps of session t keep the invariant of every sandbox s.           *)
(***************************************************************************)
LEMMA SInvSession ==
  ASSUME BInv, NEW t \in Sandbox, NEW s \in Sandbox,
         \/ Start(t) \/ Stop(t) \/ RegisterReply(t) \/ RegisterUncertain(t)
         \/ Poll(t) \/ ReleaseReply(t) \/ ReleaseError(t) \/ Collect(t)
  PROVE  SInv(s)'
<1>0. UNCHANGED <<up, closeTodo, state, op, open>>
  BY DEF Start, Stop, RegisterReply, RegisterUncertain, Poll, ReleaseReply,
     ReleaseError, Collect, server, entry
<1>a. SInv(s) /\ TypeOK
  BY DEF BInv
<1>b. ShutWhenFinal(s)' /\ ShutWhenDown(s)'
  BY <1>0, <1>a DEF SInv, ShutWhenFinal, ShutWhenDown
<1> USE <1>0, <1>a DEF SInv, ReplyIsTrue, ReleasedIsTrue,
        NothingBeforeRegistration, ClosingKnown, ConfirmedFor, TypeOK, Goto, Set, Send,
        EndCall, NoReply
<1>1. CASE Start(t)
  BY <1>1, <1>b DEF Start, Startable
<1>2. CASE Stop(t)
  BY <1>2, <1>b DEF Stop, Return
<1>3. CASE RegisterReply(t)
  BY <1>3, <1>b DEF RegisterReply
<1>4. CASE RegisterUncertain(t)
  BY <1>4, <1>b DEF RegisterUncertain
<1>5. CASE Poll(t)
  BY <1>5, <1>b DEF Poll
<1>6. CASE ReleaseReply(t)
  BY <1>6, <1>b DEF ReleaseReply, Released, Return
<1>7. CASE ReleaseError(t)
  BY <1>7, <1>b DEF ReleaseError, ExitOutcome, Return
<1>8. CASE Collect(t)
  BY <1>8, <1>b DEF Collect, Return
<1> QED BY <1>1, <1>2, <1>3, <1>4, <1>5, <1>6, <1>7, <1>8

(***************************************************************************)
(* The steps of the bridge process keep the invariant of every sandbox s.  *)
(***************************************************************************)
LEMMA SInvServer ==
  ASSUME BInv, NEW s \in Sandbox,
         \/ \E t \in Sandbox : ServerStep(t) \/ NativeOpens(t)
         \/ Close \/ Exit
  PROVE  SInv(s)'
<1>a. SInv(s) /\ TypeOK
  BY DEF BInv
<1> USE <1>a DEF SInv, ShutWhenFinal, ShutWhenDown, ReplyIsTrue, ReleasedIsTrue,
        NothingBeforeRegistration, ClosingKnown, ConfirmedFor, TypeOK
<1>1. ASSUME NEW t \in Sandbox, RegisterSandbox(t) PROVE SInv(s)'
  BY <1>1 DEF RegisterSandbox, FromCall, Answer, Wait, Drop, frame, entry,
              snapshot, Refused
<1>2. ASSUME NEW t \in Sandbox, GetSandbox(t) PROVE SInv(s)'
  BY <1>2 DEF GetSandbox, FromCall, Answer, frame, entry, snapshot
<1>3. ASSUME NEW t \in Sandbox, ReleaseSandbox(t) PROVE SInv(s)'
  BY <1>3 DEF ReleaseSandbox, Tombstone, releaseLocked, FromCall, Answer, Wait,
              Drop, frame, snapshot
<1>4. ASSUME NEW t \in Sandbox, HandlerReply(t) PROVE SInv(s)'
  BY <1>4 DEF HandlerReply, frame, entry, snapshot
<1>5. ASSUME NEW t \in Sandbox, RegisterEnd(t) PROVE SInv(s)'
  BY <1>5 DEF RegisterEnd, RegisteredState, NextOperation, session
<1>6. ASSUME NEW t \in Sandbox, ReleaseEnd(t) PROVE SInv(s)'
  <2>1. /\ UNCHANGED <<pc, flags, reply, stray, confirmed, up, closeTodo>>
        /\ up /\ op[t] = "release" /\ op' = [op EXCEPT ![t] = "none"]
    BY <1>6 DEF ReleaseEnd, NativeReleases, session
  <2>2. CASE UNCHANGED state /\ open' \in {open, [open EXCEPT ![t] = FALSE]}
    BY <2>1, <2>2
  <2>3. CASE /\ state' = [state EXCEPT ![t] = "RELEASED"]
             /\ open' = [open EXCEPT ![t] = FALSE]
    BY <2>1, <2>3
  <2> QED BY <1>6, <2>2, <2>3 DEF ReleaseEnd, NativeReleases
<1>7. ASSUME NEW t \in Sandbox, CloseRelease(t) PROVE SInv(s)'
  <2>1. /\ UNCHANGED <<pc, flags, reply, stray, confirmed, up, open>>
        /\ s \in closeTodo' => s \in closeTodo
        /\ state[t] # "none"
    BY <1>7 DEF CloseRelease, session, BInv
  <2>2. CASE UNCHANGED <<state, op>>
    BY <2>1, <2>2
  <2>3. CASE state[t] # "RELEASED" /\ releaseLocked(t)
    BY <2>1, <2>3 DEF releaseLocked
  <2> QED BY <1>7, <2>2, <2>3 DEF CloseRelease
<1>8. ASSUME NEW t \in Sandbox, NativeOpens(t) PROVE SInv(s)'
  BY <1>8 DEF NativeOpens, session
<1>9. CASE Close
  BY <1>9 DEF Close, session, entry
<1>10. CASE Exit
  BY <1>10 DEF Exit, session
<1> QED BY <1>1, <1>2, <1>3, <1>4, <1>5, <1>6, <1>7, <1>8, <1>9, <1>10
        DEF ServerStep

LEMMA BInvNext == BInv /\ [Next]_vars => BInv'
<1> SUFFICES ASSUME BInv, [Next]_vars PROVE BInv'
  OBVIOUS
<1>1. TypeOK'
  BY TypeNext DEF BInv
<1>2. ASSUME NEW s \in Sandbox PROVE SInv(s)'
  <2>1. CASE UNCHANGED vars
    BY <2>1 DEF vars, session, server, entry, BInv, SInv, ShutWhenFinal,
       ShutWhenDown, ReplyIsTrue, ReleasedIsTrue, NothingBeforeRegistration,
       ClosingKnown, ConfirmedFor
  <2>2. CASE Next
    BY <2>2, SInvSession, SInvServer DEF Next, SessionStep
  <2> QED BY <2>1, <2>2
<1> QED BY <1>1, <1>2 DEF BInv

(***************************************************************************)
(* A nil error from Session.Stop confirms for good that the sandbox cannot *)
(* be reached through the bridge, whatever is lost, late or dies.          *)
(***************************************************************************)
THEOREM Confirmation == Spec => []ConfirmedClosed
  BY BInvInit, BInvNext, BInvImpliesClosed, PTL DEF Spec

(***************************************************************************)
(* A step of the protocol grants, revokes or confirms access, or leaves it *)
(* as it is.                                                               *)
(***************************************************************************)
LEMMA AccessStep == BInv /\ [Next]_vars => [Access!Next]_(Access!vars)
<1> SUFFICES ASSUME BInv, [Next]_vars PROVE [Access!Next]_(Access!vars)
  OBVIOUS
<1>a. BInv'
  BY BInvNext
<1>0. ConfirmedClosed'
  BY <1>a DEF BInv, SInv, ShutWhenFinal, ShutWhenDown, ReleasedIsTrue, TypeOK,
     NothingBeforeRegistration, ConfirmedFor, ConfirmedClosed
<1>1. CASE UNCHANGED <<open, confirmed>>
  BY <1>1 DEF Access!vars
<1>2. ASSUME NEW s \in Sandbox, confirmed' = confirmed \cup {s}, UNCHANGED open
      PROVE  [Access!Next]_(Access!vars)
  <2>1. ~open[s]
    BY <1>0, <1>2 DEF ConfirmedClosed
  <2>2. Access!Evaluate(s)
    BY <1>2, <2>1 DEF Access!Evaluate
  <2> QED BY <2>2 DEF Access!Next
<1>3. ASSUME NEW s \in Sandbox, NativeOpens(s) PROVE [Access!Next]_(Access!vars)
  <2>1. UNCHANGED confirmed /\ open' = [open EXCEPT ![s] = TRUE]
    BY <1>3 DEF NativeOpens, session
  <2>2. s \notin confirmed
    BY <1>0, <2>1 DEF ConfirmedClosed, BInv, TypeOK
  <2>3. {t \in Sandbox : open'[t]} = {t \in Sandbox : open[t]} \cup {s}
    BY <2>1 DEF BInv, TypeOK
  <2>4. Access!Grant(s)
    BY <2>1, <2>2, <2>3 DEF Access!Grant
  <2> QED BY <2>4 DEF Access!Next
<1>4. ASSUME UNCHANGED confirmed, \A s \in Sandbox : open'[s] => open[s]
      PROVE  [Access!Next]_(Access!vars)
  <2> DEFINE T == {s \in Sandbox : open[s] /\ ~open'[s]}
  <2>1. {s \in Sandbox : open'[s]} = {s \in Sandbox : open[s]} \ T
    BY <1>4
  <2>2. Access!Revoke(T)
    BY <1>4, <2>1 DEF Access!Revoke
  <2>3. T \in SUBSET Sandbox
    OBVIOUS
  <2> HIDE DEF T
  <2>4. \E U \in SUBSET Sandbox : Access!Revoke(U)
    BY <2>2, <2>3 DEF Access!Revoke
  <2> QED BY <2>4 DEF Access!Next
<1>5. ASSUME NEW s \in Sandbox, Start(s) \/ Stop(s) \/ SessionStep(s)
      PROVE  [Access!Next]_(Access!vars)
  <2>1. UNCHANGED open
    BY <1>5 DEF Start, Stop, SessionStep, RegisterReply, RegisterUncertain, Poll,
       ReleaseReply, ReleaseError, Collect, server, entry
  <2>2. confirmed' \in {confirmed, confirmed \cup {s}}
    BY <1>5 DEF Start, Stop, SessionStep, RegisterReply, RegisterUncertain, Poll,
       ReleaseReply, ReleaseError, Collect, Return
  <2> QED BY <1>1, <1>2, <2>1, <2>2
<1>6. ASSUME NEW s \in Sandbox, ServerStep(s) PROVE [Access!Next]_(Access!vars)
  <2>1. UNCHANGED confirmed
    BY <1>6 DEF ServerStep, RegisterSandbox, GetSandbox, ReleaseSandbox,
       HandlerReply, RegisterEnd, ReleaseEnd, NativeReleases, CloseRelease, frame, session
  <2>2. open' \in {open, [open EXCEPT ![s] = FALSE]}
    BY <1>6 DEF ServerStep, RegisterSandbox, GetSandbox, ReleaseSandbox,
       HandlerReply, RegisterEnd, ReleaseEnd, NativeReleases, CloseRelease, entry
  <2>3. \A t \in Sandbox : open'[t] => open[t]
    BY <2>2 DEF BInv, TypeOK
  <2> QED BY <1>4, <2>1, <2>3
<1>7. CASE Close \/ Exit
  <2>1. UNCHANGED confirmed /\ \A s \in Sandbox : open'[s] => open[s]
    BY <1>7 DEF Close, Exit, session, entry
  <2> QED BY <1>4, <2>1
<1>8. CASE UNCHANGED vars
  BY <1>1, <1>8 DEF vars, session, server, entry
<1> QED BY <1>3, <1>5, <1>6, <1>7, <1>8 DEF Next

(***************************************************************************)
(* Sessions and bridge process implement AgentAccess: a native server only *)
(* opens for a session without a confirmed Stop, a confirmation finds the  *)
(* sandbox shut, and a release or the end of the process only takes access *)
(* away.                                                                   *)
(***************************************************************************)
THEOREM ImplementsAccess == Spec => AccessSpec
<1>1. Init => Access!Init
  BY DEF Init, Access!Init
<1> QED BY <1>1, AccessStep, BInvInit, BInvNext, PTL DEF Spec, AccessSpec, Access!Spec

-----------------------------------------------------------------------------
(* The service around them *)

(***************************************************************************)
(* The service only chooses which steps of the protocol are taken: it      *)
(* restricts when sessions start and stop, and adds the removal of the     *)
(* container as an end of the process.                                     *)
(***************************************************************************)
LEMMA ServiceStep == [ServiceNext]_serviceVars => [Next]_vars
<1> SUFFICES ASSUME [ServiceNext]_serviceVars PROVE [Next]_vars
  OBVIOUS
<1>1. CASE UNCHANGED serviceVars
  BY <1>1 DEF serviceVars
<1>2. CASE ServiceStart \/ CreateRuntime \/ LaunchRuntime \/ AwaitReady
  BY <1>2 DEF ServiceStart, CreateRuntime, LaunchRuntime, AwaitReady
<1>3. CASE ServiceStop \/ CloseService
  BY <1>3 DEF ServiceStop, CloseService
<1>4. CASE RemoveRuntime
  BY <1>4 DEF RemoveRuntime, Gone, Next
<1>5. ASSUME NEW s \in Sandbox,
             \/ NewSession(s) \/ SessionStart(s) \/ SessionStop(s)
             \/ SessionProgress(s) \/ StopSession(s)
      PROVE  [Next]_vars
  BY <1>5 DEF NewSession, SessionStart, SessionStop, SessionProgress, StopSession, Next
<1>6. CASE Process
  BY <1>6 DEF Process, Next
<1> QED BY <1>1, <1>2, <1>3, <1>4, <1>5, <1>6 DEF ServiceNext

LEMMA ServiceInvariant == ServiceSpec => []BInv
<1>1. ServiceInit => BInv
  BY BInvInit DEF ServiceInit
<1> QED BY <1>1, ServiceStep, BInvNext, PTL DEF ServiceSpec

(***************************************************************************)
(* Whatever Service.Start, Service.Stop and the container do, a nil error  *)
(* from Session.Stop confirms for good that its sandbox cannot be reached. *)
(***************************************************************************)
THEOREM ServiceConfirmation == ServiceSpec => []ConfirmedClosed
  BY ServiceInvariant, BInvImpliesClosed, PTL

(***************************************************************************)
(* The bridge service, its sessions and its process together implement     *)
(* AgentAccess.                                                            *)
(***************************************************************************)
THEOREM ServiceImplementsAccess == ServiceSpec => AccessSpec
<1>1. ServiceInit => Access!Init
  BY DEF ServiceInit, Init, Access!Init
<1> QED BY <1>1, AccessStep, ServiceStep, ServiceInvariant, PTL
        DEF ServiceSpec, AccessSpec, Access!Spec
-----------------------------------------------------------------------------
(***************************************************************************)
(* Evidence.  What a session's flags and its copy of the evidence say of   *)
(* each other: only a registering session can still be exposed, and it has *)
(* released nothing; what was exposed is collected only with a local copy; *)
(* a confirmation of an exposed session was given on collected evidence.   *)
(***************************************************************************)
Ordered(s) ==
  /\ "registered" \in flags[s] => "started" \in flags[s]
  /\ "exposed" \in flags[s] => "registered" \in flags[s]
  /\ pc[s] \in {"register", "poll", "get"} => "released" \notin flags[s]

Collected(s) ==
  "exposed" \in flags[s] =>
    /\ "collected" \in flags[s] => s \in local
    /\ s \in confirmed => "collected" \in flags[s]

CInv == \A s \in Sandbox : Ordered(s) /\ Collected(s)

(***************************************************************************)
(* Every step of sessions and bridge process keeps them.                   *)
(***************************************************************************)
LEMMA CInvNext == BInv /\ CInv /\ [Next]_vars => CInv'
<1> SUFFICES ASSUME BInv, CInv, [Next]_vars, NEW s \in Sandbox
             PROVE  (Ordered(s) /\ Collected(s))'
  BY DEF CInv
<1>a. /\ Ordered(s) /\ Collected(s) /\ ReleasedIsTrue(s)
      /\ NothingBeforeRegistration(s) /\ ConfirmedFor(s) /\ TypeOK
  BY DEF BInv, SInv, CInv
<1> USE <1>a DEF Ordered, Collected, ReleasedIsTrue, NothingBeforeRegistration,
        ConfirmedFor, TypeOK, Goto, Set, Send
<1>0. CASE UNCHANGED <<pc, flags, confirmed, local>>
  BY <1>0
<1>1. ASSUME NEW t \in Sandbox, Start(t) PROVE (Ordered(s) /\ Collected(s))'
  BY <1>1 DEF Start, Startable
<1>2. ASSUME NEW t \in Sandbox, Stop(t) PROVE (Ordered(s) /\ Collected(s))'
  BY <1>2 DEF Stop, Return
<1>3. ASSUME NEW t \in Sandbox, RegisterReply(t) PROVE (Ordered(s) /\ Collected(s))'
  BY <1>3 DEF RegisterReply
<1>4. ASSUME NEW t \in Sandbox, RegisterUncertain(t) PROVE (Ordered(s) /\ Collected(s))'
  BY <1>4 DEF RegisterUncertain
<1>5. ASSUME NEW t \in Sandbox, Poll(t) PROVE (Ordered(s) /\ Collected(s))'
  BY <1>5 DEF Poll
<1>6. ASSUME NEW t \in Sandbox, ReleaseReply(t) PROVE (Ordered(s) /\ Collected(s))'
  BY <1>6 DEF ReleaseReply, Return
<1>7. ASSUME NEW t \in Sandbox, ReleaseError(t) PROVE (Ordered(s) /\ Collected(s))'
  BY <1>7 DEF ReleaseError, ExitOutcome, Return
<1>8. ASSUME NEW t \in Sandbox, Collect(t) PROVE (Ordered(s) /\ Collected(s))'
  BY <1>8 DEF Collect, Return
<1>9. CASE \/ \E t \in Sandbox : ServerStep(t) \/ NativeOpens(t)
           \/ Close \/ Exit \/ UNCHANGED vars
  <2>1. UNCHANGED <<pc, flags, confirmed, local>>
    BY <1>9 DEF ServerStep, RegisterSandbox, GetSandbox, ReleaseSandbox, HandlerReply,
       RegisterEnd, ReleaseEnd, NativeReleases, CloseRelease, NativeOpens, Close, Exit, vars, session, frame
  <2> QED BY <1>0, <2>1
<1> QED BY <1>1, <1>2, <1>3, <1>4, <1>5, <1>6, <1>7, <1>8, <1>9
  DEF Next, SessionStep

(***************************************************************************)
(* What the service sees of a step inside it.  A session in Start or Stop  *)
(* raises flags, of its own only, and registers in Start alone; the        *)
(* process leaves the sessions' fields alone, and never comes back.        *)
(***************************************************************************)
LEMMA SessionEffect ==
  ASSUME TypeOK, NEW t \in Sandbox, Stop(t) \/ SessionStep(t)
  PROVE  /\ UNCHANGED <<up, open>>
         /\ \A s \in Sandbox :
              /\ flags[s] \subseteq flags'[s]
              /\ "registered" \in flags'[s] => "registered" \in flags[s]
         /\ local' \in {local, local \cup {t}}
         /\ Stop(t) => local' = local
<1>1. UNCHANGED <<up, open>>
  BY DEF Stop, SessionStep, RegisterReply, Poll, ReleaseReply, Collect,
     RegisterUncertain, ReleaseError, server, entry
<1>2. local' \in {local, local \cup {t}} /\ (Stop(t) => local' = local)
  BY DEF Stop, SessionStep, RegisterReply, Poll, ReleaseReply, Collect,
     RegisterUncertain, ReleaseError
<1>3. \E f \in SUBSET (Flag \ {"registered"}) :
        flags' = [flags EXCEPT ![t] = @ \cup f]
  <2>1. CASE UNCHANGED flags
    <3>1. flags' = [flags EXCEPT ![t] = @ \cup {}]
      BY <2>1 DEF TypeOK
    <3> QED BY <3>1
  <2>2. ASSUME NEW f \in SUBSET (Flag \ {"registered"}), Set(t, f)
        PROVE  \E g \in SUBSET (Flag \ {"registered"}) :
                 flags' = [flags EXCEPT ![t] = @ \cup g]
    BY <2>2 DEF Set
  <2>3. /\ Stop(t) => Set(t, {"stopped"})
        /\ RegisterReply(t) => UNCHANGED flags \/ Set(t, {"exposed"})
        /\ ReleaseReply(t) =>
             \/ UNCHANGED flags \/ Set(t, {"released", "collected"})
             \/ Set(t, {"released"})
        /\ ReleaseError(t) =>
             UNCHANGED flags \/ Set(t, {"released"} \cup ExitOutcome(t))
        /\ Collect(t) => UNCHANGED flags \/ Set(t, {"collected"})
        /\ Poll(t) \/ RegisterUncertain(t) => UNCHANGED flags
    BY DEF Stop, RegisterReply, ReleaseReply, ReleaseError, Collect, Poll,
       RegisterUncertain
  <2>4. {"released"} \cup ExitOutcome(t) \in SUBSET (Flag \ {"registered"})
    BY DEF ExitOutcome, Flag
  <2>5. /\ {"stopped"} \in SUBSET (Flag \ {"registered"})
        /\ {"exposed"} \in SUBSET (Flag \ {"registered"})
        /\ {"released", "collected"} \in SUBSET (Flag \ {"registered"})
        /\ {"released"} \in SUBSET (Flag \ {"registered"})
        /\ {"collected"} \in SUBSET (Flag \ {"registered"})
    BY DEF Flag
  <2> QED BY <2>1, <2>2, <2>3, <2>4, <2>5 DEF SessionStep
<1> QED BY <1>1, <1>2, <1>3 DEF TypeOK

LEMMA StartEffect ==
  ASSUME TypeOK, NEW t \in Sandbox, Start(t)
  PROVE  /\ UNCHANGED <<up, open, local>>
         /\ \A s \in Sandbox : /\ flags[s] \subseteq flags'[s]
                               /\ s # t => flags'[s] = flags[s]
  BY DEF Start, Set, server, entry, TypeOK

LEMMA ProcessEffect ==
  ASSUME TypeOK, Process
  PROVE  /\ container = "started" /\ UNCHANGED <<flags, local, service>>
         /\ up' => up
  BY DEF Process, ServerStep, RegisterSandbox, GetSandbox, ReleaseSandbox,
     HandlerReply, RegisterEnd, ReleaseEnd, NativeReleases, CloseRelease, NativeOpens, Close, Exit,
     session, frame

-----------------------------------------------------------------------------
(***************************************************************************)
(* Why a nil Service.Stop is the whole truth.  Phases: what Start and Stop *)
(* of the service have behind them.  Containers: without an identity or an *)
(* open question there is no container, a removed one is gone with its     *)
(* process, and only a removed or a never known one lets Stop go on.       *)
(* Tried: admission has ended, so each session that is not being stopped   *)
(* has given its evidence or an error is on record.                        *)
(***************************************************************************)
ServiceTypeOK ==
  /\ svc \in {"new", "starting", "running", "closing", "closed"}
  /\ at \in {"idle", "create", "launch", "ready", "sessions", "close"}
  /\ container \in {"none", "created", "started", "gone"}
  /\ identity \in BOOLEAN /\ removed \in BOOLEAN
  /\ allocationErr \in BOOLEAN /\ shutdownErr \in BOOLEAN /\ stopNil \in BOOLEAN
  /\ sessions \subseteq Sandbox
  /\ DOMAIN copied = Sandbox

Phases ==
  /\ at \in {"create", "launch", "ready"} => svc = "starting"
  /\ at \in {"launch", "ready"} => identity
  /\ at \in {"sessions", "close"} => svc = "closing"
  /\ removed => svc \in {"closing", "closed"}
  /\ svc = "closed" => at = "idle"
  /\ svc = "new" \/ at = "create" => container = "none" /\ ~identity /\ ~allocationErr
  /\ at # "sessions" => todo = {} /\ busy = {}

Containers ==
  /\ identity \/ allocationErr \/ container = "none"
  /\ removed => container = "gone"
  /\ at = "close" \/ svc = "closed" => ~identity \/ removed
  /\ container = "gone" => ~up
  /\ container \in {"none", "created"} => \A s \in Sandbox : ~open[s]

Registered == \A s \in Sandbox : "registered" \in flags[s] => s \in sessions

Tried ==
  at \in {"sessions", "close"} \/ svc = "closed" =>
    \/ shutdownErr
    \/ \A s \in sessions \ (todo \cup busy) :
         "registered" \in flags[s] => "collected" \in flags[s]

NilIsKept == stopNil => svc = "closed" /\ Nil

CopiedTrue == \A s \in local : copied[s] = Finalized

VInv ==
  /\ BInv /\ CInv
  /\ ServiceTypeOK /\ Phases /\ Containers /\ Registered /\ Tried /\ NilIsKept
  /\ CopiedTrue

LEMMA VInvInit == ServiceInit => VInv
<1> SUFFICES ASSUME ServiceInit PROVE VInv
  OBVIOUS
<1>1. BInv
  BY BInvInit DEF ServiceInit
<1>2. CInv
  BY DEF ServiceInit, Init, CInv, Ordered, Collected
<1>3. ServiceTypeOK /\ Phases /\ Containers /\ Registered /\ Tried /\ NilIsKept /\ CopiedTrue
  BY DEF ServiceInit, Init, ServiceTypeOK, Phases, Containers, Registered, Tried,
     NilIsKept, CopiedTrue
<1> QED BY <1>1, <1>2, <1>3 DEF VInv

(***************************************************************************)
(* A verified download is the finalized file.                              *)
(***************************************************************************)
LEMMA Verified ==
  ASSUME NEW d \in Download, collectArtifact(Finalized, d)
  PROVE  [size |-> d.size, sha |-> d.sha] = Finalized
  BY DEF collectArtifact, Finalized

(***************************************************************************)
(* Every step of the service, its sessions and its process keeps VInv.     *)
(***************************************************************************)
LEMMA VInvNext == VInv /\ [ServiceNext]_serviceVars => VInv'
<1> SUFFICES ASSUME VInv, [ServiceNext]_serviceVars PROVE VInv'
  OBVIOUS
<1>a. BInv' /\ CInv'
  BY ServiceStep, BInvNext, CInvNext DEF VInv
<1>b. /\ ServiceTypeOK /\ Phases /\ Containers /\ Registered /\ Tried /\ NilIsKept
      /\ CopiedTrue /\ TypeOK
  BY DEF VInv, BInv
<1>c. (\A s \in Sandbox : SInv(s) /\ SInv(s)')
  BY <1>a DEF VInv, BInv
<1>d. \A s \in Sandbox : /\ "registered" \notin flags[s] => pc[s] = "idle"
                         /\ ~up' => ~open'[s]
  BY <1>c DEF SInv, NothingBeforeRegistration, ShutWhenDown
<1> USE <1>b DEF launch, stopping
<1>1. ASSUME ServiceStart
      PROVE  VInv'
  <2> USE <1>1 DEF ServiceStart, vars, session, server, entry
  <2>1. ServiceTypeOK'
    BY DEF ServiceTypeOK
  <2>2. Phases'
    BY DEF Phases, ServiceTypeOK
  <2>3. Containers'
    BY DEF Containers, Phases, ServiceTypeOK
  <2>4. Registered'
    BY DEF Registered
  <2>5. Tried'
    BY DEF Tried, Phases, Registered, ServiceTypeOK
  <2>6. NilIsKept'
    BY DEF NilIsKept, Nil, Phases, ServiceTypeOK
  <2>7. CopiedTrue'
    BY DEF CopiedTrue
  <2> QED BY <1>a, <2>1, <2>2, <2>3, <2>4, <2>5, <2>6, <2>7 DEF VInv
<1>2. ASSUME LaunchRuntime
      PROVE  VInv'
  <2> USE <1>2 DEF LaunchRuntime, vars, session, server, entry
  <2>1. ServiceTypeOK'
    BY DEF ServiceTypeOK
  <2>2. Phases'
    BY DEF Phases, ServiceTypeOK
  <2>3. Containers'
    BY DEF Containers, Phases, ServiceTypeOK
  <2>4. Registered'
    BY DEF Registered
  <2>5. Tried'
    BY DEF Tried, Phases, Registered, ServiceTypeOK
  <2>6. NilIsKept'
    BY DEF NilIsKept, Nil, Phases, ServiceTypeOK
  <2>7. CopiedTrue'
    BY DEF CopiedTrue
  <2> QED BY <1>a, <2>1, <2>2, <2>3, <2>4, <2>5, <2>6, <2>7 DEF VInv
<1>3. ASSUME AwaitReady
      PROVE  VInv'
  <2> USE <1>3 DEF AwaitReady, vars, session, server, entry
  <2>1. ServiceTypeOK'
    BY DEF ServiceTypeOK
  <2>2. Phases'
    BY DEF Phases, ServiceTypeOK
  <2>3. Containers'
    BY DEF Containers, Phases, ServiceTypeOK
  <2>4. Registered'
    BY DEF Registered
  <2>5. Tried'
    BY DEF Tried, Phases, Registered, ServiceTypeOK
  <2>6. NilIsKept'
    BY DEF NilIsKept, Nil, Phases, ServiceTypeOK
  <2>7. CopiedTrue'
    BY DEF CopiedTrue
  <2> QED BY <1>a, <2>1, <2>2, <2>3, <2>4, <2>5, <2>6, <2>7 DEF VInv
<1>4. ASSUME ServiceStop
      PROVE  VInv'
  <2> USE <1>4 DEF ServiceStop, vars, session, server, entry
  <2>1. ServiceTypeOK'
    BY DEF ServiceTypeOK
  <2>2. Phases'
    BY DEF Phases, ServiceTypeOK
  <2>3. Containers'
    BY DEF Containers, Phases, ServiceTypeOK
  <2>4. Registered'
    BY DEF Registered
  <2>5. Tried'
    BY DEF Tried, Phases, Registered, ServiceTypeOK
  <2>6. NilIsKept'
    BY DEF NilIsKept, Nil, Phases, ServiceTypeOK
  <2>7. CopiedTrue'
    BY DEF CopiedTrue
  <2> QED BY <1>a, <2>1, <2>2, <2>3, <2>4, <2>5, <2>6, <2>7 DEF VInv
<1>5. ASSUME CloseService
      PROVE  VInv'
  <2> USE <1>5 DEF CloseService, vars, session, server, entry
  <2>1. ServiceTypeOK'
    BY DEF ServiceTypeOK
  <2>2. Phases'
    BY DEF Phases, ServiceTypeOK
  <2>3. Containers'
    BY DEF Containers, Phases, ServiceTypeOK
  <2>4. Registered'
    BY DEF Registered
  <2>5. Tried'
    BY DEF Tried, Phases, Registered, ServiceTypeOK
  <2>6. NilIsKept'
    BY DEF NilIsKept, Nil, Phases, ServiceTypeOK
  <2>7. CopiedTrue'
    BY DEF CopiedTrue
  <2> QED BY <1>a, <2>1, <2>2, <2>3, <2>4, <2>5, <2>6, <2>7 DEF VInv
<1>6. ASSUME CreateRuntime
      PROVE  VInv'
  <2>0. /\ at = "create" /\ at' \in {"launch", "idle"}
        /\ UNCHANGED <<svc, removed, stopping, sessions, copied, stopNil, flags, local, up, open>>
    BY <1>6 DEF CreateRuntime, vars, session, server, entry
  <2>a. /\ container' \in {"none", "created"}
        /\ identity' \in BOOLEAN /\ allocationErr' \in BOOLEAN
        /\ identity' \/ allocationErr' \/ container' = "none"
        /\ at' = "launch" => identity'
    <3>1. CASE container' = "created" /\ identity' = TRUE /\ UNCHANGED allocationErr
      BY <3>1 DEF ServiceTypeOK
    <3>2. CASE at' = "idle" /\ UNCHANGED <<container, identity, allocationErr>>
      BY <2>0, <3>2 DEF ServiceTypeOK, Phases
    <3>3. CASE /\ at' = "idle" /\ allocationErr' = TRUE /\ container' \in {"none", "created"}
               /\ UNCHANGED identity
      BY <3>3 DEF ServiceTypeOK
    <3> QED BY <1>6, <3>1, <3>2, <3>3 DEF CreateRuntime
  <2>1. ServiceTypeOK'
    BY <2>0, <2>a DEF ServiceTypeOK, service
  <2>2. Phases'
    BY <2>0, <2>a DEF Phases, ServiceTypeOK, service
  <2>3. Containers'
    BY <2>0, <2>a, <1>d DEF Containers, Phases, ServiceTypeOK, service
  <2>4. Registered'
    BY <2>0, <2>a, <1>d DEF Registered, service
  <2>5. Tried'
    BY <2>0, <2>a DEF Tried, Phases, Registered, ServiceTypeOK, service
  <2>6. NilIsKept'
    BY <2>0, <2>a DEF NilIsKept, Nil, Phases, ServiceTypeOK, service
  <2>7. CopiedTrue'
    BY <2>0, <2>a DEF CopiedTrue, service
  <2> QED BY <1>a, <2>1, <2>2, <2>3, <2>4, <2>5, <2>6, <2>7 DEF VInv
<1>7. ASSUME RemoveRuntime
      PROVE  VInv'
  <2>0. /\ UNCHANGED <<flags, local>> /\ \A s \in Sandbox : open'[s] => open[s]
        /\ up' => up
        /\ \/ UNCHANGED <<up, container>>
           \/ container' = "gone" /\ ~up'
    <3>1. CASE UNCHANGED <<vars, container>>
      BY <3>1 DEF vars, session, server, entry
    <3>2. CASE container' = "gone" /\ up /\ Exit
      BY <3>2 DEF Exit, session
    <3>3. CASE container' = "gone" /\ ~up /\ UNCHANGED vars
      BY <3>3 DEF vars, session, server, entry
    <3> QED BY <1>7, <3>1, <3>2, <3>3 DEF RemoveRuntime, Gone
  <2>b. /\ at = "sessions" /\ todo = {} /\ busy = {} /\ at' \in {"close", "idle"}
        /\ at' = "close" => ~identity \/ removed'
        /\ removed' => removed \/ container' = "gone"
        /\ removed' \in BOOLEAN
        /\ UNCHANGED <<svc, identity, allocationErr, stopping, sessions, copied, stopNil>>
    <3>1. CASE (~identity \/ removed) /\ at' = "close" /\ UNCHANGED removed
      BY <1>7, <3>1 DEF RemoveRuntime, ServiceTypeOK
    <3>2. CASE Gone /\ removed' = TRUE /\ at' = "close"
      BY <1>7, <3>2 DEF RemoveRuntime, Gone
    <3>3. CASE at' = "idle" /\ UNCHANGED removed
      BY <1>7, <3>3 DEF RemoveRuntime, ServiceTypeOK
    <3> QED BY <1>7, <3>1, <3>2, <3>3 DEF RemoveRuntime
  <2>1. ServiceTypeOK'
    BY <2>0, <2>b, <1>d DEF ServiceTypeOK, service
  <2>2. Phases'
    BY <2>0, <2>b, <1>d DEF Phases, ServiceTypeOK, service
  <2>3. Containers'
    <3>1. removed' => container' = "gone"
      <4>1. CASE UNCHANGED <<up, container>>
        BY <2>b, <4>1 DEF Containers
      <4>2. CASE container' = "gone" /\ ~up'
        BY <4>2
      <4> QED BY <2>0, <4>1, <4>2
    <3>2. container' = "gone" => ~up'
      BY <2>0 DEF Containers
    <3>3. container' \in {"none", "created"} => \A s \in Sandbox : ~open'[s]
      BY <2>0 DEF Containers
    <3>4. identity' \/ allocationErr' \/ container' = "none"
      BY <1>7 DEF RemoveRuntime, Containers
    <3>5. at' = "close" \/ svc' = "closed" => ~identity' \/ removed'
      BY <2>b DEF Phases
    <3> QED BY <3>1, <3>2, <3>3, <3>4, <3>5 DEF Containers
  <2>4. Registered'
    BY <2>0, <2>b, <1>d DEF Registered, service
  <2>5. Tried'
    BY <2>0, <2>b, <1>d DEF Tried, Phases, Registered, ServiceTypeOK, service
  <2>6. NilIsKept'
    BY <2>0, <2>b, <1>d DEF NilIsKept, Nil, Phases, ServiceTypeOK, service
  <2>7. CopiedTrue'
    BY <2>0, <2>b, <1>d DEF CopiedTrue, service
  <2> QED BY <1>a, <2>1, <2>2, <2>3, <2>4, <2>5, <2>6, <2>7 DEF VInv
<1>8. ASSUME NEW t \in Sandbox, NewSession(t)
      PROVE  VInv'
  <2> USE <1>8 DEF NewSession, Accepting, vars, session, server, entry
  <2>1. ServiceTypeOK'
    BY DEF ServiceTypeOK
  <2>2. Phases'
    BY DEF Phases, ServiceTypeOK
  <2>3. Containers'
    BY DEF Containers, Phases, ServiceTypeOK
  <2>4. Registered'
    BY DEF Registered
  <2>5. Tried'
    BY DEF Tried, Phases, Registered, ServiceTypeOK
  <2>6. NilIsKept'
    BY DEF NilIsKept, Nil, Phases, ServiceTypeOK
  <2>7. CopiedTrue'
    BY DEF CopiedTrue
  <2> QED BY <1>a, <2>1, <2>2, <2>3, <2>4, <2>5, <2>6, <2>7 DEF VInv
<1>9. ASSUME NEW t \in Sandbox, SessionStart(t)
      PROVE  VInv'
  <2>0. /\ t \in sessions /\ UNCHANGED service
        /\ svc # "running" => "registered" \notin flags'[t]
        /\ Start(t)
    BY <1>9 DEF SessionStart, Accepting
  <2>1. ServiceTypeOK'
    BY <2>0, StartEffect DEF ServiceTypeOK, service
  <2>2. Phases'
    BY <2>0, StartEffect DEF Phases, ServiceTypeOK, service
  <2>3. Containers'
    BY <2>0, StartEffect, <1>d DEF Containers, Phases, ServiceTypeOK, service
  <2>4. Registered'
    BY <2>0, StartEffect, <1>d DEF Registered, service
  <2>5. Tried'
    BY <2>0, StartEffect DEF Tried, Phases, Registered, ServiceTypeOK, service
  <2>6. NilIsKept'
    BY <2>0, StartEffect DEF NilIsKept, Nil, Phases, ServiceTypeOK, service
  <2>7. CopiedTrue'
    BY <2>0, StartEffect DEF CopiedTrue, service
  <2> QED BY <1>a, <2>1, <2>2, <2>3, <2>4, <2>5, <2>6, <2>7 DEF VInv
<1>10. ASSUME NEW t \in Sandbox, SessionStop(t)
      PROVE  VInv'
  <2>0. t \in sessions /\ UNCHANGED service /\ Stop(t)
    BY <1>10 DEF SessionStop
  <2>1. ServiceTypeOK'
    BY <2>0, SessionEffect DEF ServiceTypeOK, service
  <2>2. Phases'
    BY <2>0, SessionEffect DEF Phases, ServiceTypeOK, service
  <2>3. Containers'
    BY <2>0, SessionEffect, <1>d DEF Containers, Phases, ServiceTypeOK, service
  <2>4. Registered'
    BY <2>0, SessionEffect, <1>d DEF Registered, service
  <2>5. Tried'
    BY <2>0, SessionEffect DEF Tried, Phases, Registered, ServiceTypeOK, service
  <2>6. NilIsKept'
    BY <2>0, SessionEffect DEF NilIsKept, Nil, Phases, ServiceTypeOK, service
  <2>7. CopiedTrue'
    BY <2>0, SessionEffect DEF CopiedTrue, service
  <2> QED BY <1>a, <2>1, <2>2, <2>3, <2>4, <2>5, <2>6, <2>7 DEF VInv
<1>11. ASSUME NEW t \in Sandbox, SessionProgress(t)
      PROVE  VInv'
  <2>0. SessionStep(t) /\ UNCHANGED <<svc, at, launch, todo, sessions, stopNil>>
    BY <1>11 DEF SessionProgress
  <2>a. \/ UNCHANGED <<busy, shutdownErr>>
        \/ /\ t \in busy /\ busy' = busy \ {t} /\ shutdownErr' \in BOOLEAN
           /\ shutdownErr => shutdownErr'
           /\ ~shutdownErr' => ("registered" \in flags'[t] => "collected" \in flags'[t])
    BY <1>11 DEF SessionProgress, Stopped, Succeeded, ServiceTypeOK
  <2>b. /\ t \in local' \ local => copied' = [copied EXCEPT ![t] = Finalized]
        /\ t \notin local' \ local => copied' = copied
    BY <1>11, Verified DEF SessionProgress
  <2>1. ServiceTypeOK'
    BY <2>0, <2>a, <2>b, SessionEffect DEF ServiceTypeOK, service
  <2>2. Phases'
    BY <2>0, <2>a, <2>b, SessionEffect DEF Phases, ServiceTypeOK, service
  <2>3. Containers'
    BY <2>0, <2>a, <2>b, SessionEffect, <1>d DEF Containers, Phases, ServiceTypeOK,
       service
  <2>4. Registered'
    BY <2>0, <2>a, <2>b, SessionEffect, <1>d DEF Registered, service
  <2>5. Tried'
    BY <2>0, <2>a, <2>b, SessionEffect DEF Tried, Phases, Registered, ServiceTypeOK,
       service
  <2>6. NilIsKept'
    BY <2>0, <2>a, <2>b, SessionEffect DEF NilIsKept, Nil, Phases, ServiceTypeOK,
       service
  <2>7. CopiedTrue'
    <3>1. CASE t \in local' \ local
      <4>1. local' = local \cup {t} /\ copied' = [copied EXCEPT ![t] = Finalized]
        BY <2>0, <2>b, <3>1, SessionEffect
      <4> QED BY <4>1 DEF CopiedTrue, ServiceTypeOK, TypeOK
    <3>2. CASE t \notin local' \ local
      BY <2>0, <2>b, <3>2, SessionEffect DEF CopiedTrue
    <3> QED BY <3>1, <3>2
  <2> QED BY <1>a, <2>1, <2>2, <2>3, <2>4, <2>5, <2>6, <2>7 DEF VInv
<1>12. ASSUME NEW t \in Sandbox, StopSession(t)
      PROVE  VInv'
  <2>0. /\ Stop(t) /\ t \in todo /\ todo' = todo \ {t}
        /\ UNCHANGED <<svc, at, launch, sessions, copied, stopNil>>
    BY <1>12 DEF StopSession
  <2>a. \/ UNCHANGED shutdownErr /\ busy' = busy \cup {t}
        \/ /\ UNCHANGED busy /\ shutdownErr' \in BOOLEAN
           /\ shutdownErr => shutdownErr'
           /\ ~shutdownErr' => ("registered" \in flags'[t] => "collected" \in flags'[t])
    BY <1>12 DEF StopSession, Stopped, Succeeded, ServiceTypeOK
  <2>1. ServiceTypeOK'
    BY <2>0, <2>a, SessionEffect DEF ServiceTypeOK, service
  <2>2. Phases'
    BY <2>0, <2>a, SessionEffect DEF Phases, ServiceTypeOK, service
  <2>3. Containers'
    BY <2>0, <2>a, SessionEffect, <1>d DEF Containers, Phases, ServiceTypeOK,
       service
  <2>4. Registered'
    BY <2>0, <2>a, SessionEffect, <1>d DEF Registered, service
  <2>5. Tried'
    BY <2>0, <2>a, SessionEffect DEF Tried, Phases, Registered, ServiceTypeOK,
       service
  <2>6. NilIsKept'
    BY <2>0, <2>a, SessionEffect DEF NilIsKept, Nil, Phases, ServiceTypeOK, service
  <2>7. CopiedTrue'
    BY <2>0, <2>a, SessionEffect DEF CopiedTrue, service
  <2> QED BY <1>a, <2>1, <2>2, <2>3, <2>4, <2>5, <2>6, <2>7 DEF VInv
<1>13. ASSUME Process
      PROVE  VInv'
  <2>1. ServiceTypeOK'
    BY <1>13, ProcessEffect DEF ServiceTypeOK, service
  <2>2. Phases'
    BY <1>13, ProcessEffect DEF Phases, ServiceTypeOK, service
  <2>3. Containers'
    BY <1>13, ProcessEffect, <1>d DEF Containers, Phases, ServiceTypeOK, service
  <2>4. Registered'
    BY <1>13, ProcessEffect, <1>d DEF Registered, service
  <2>5. Tried'
    BY <1>13, ProcessEffect DEF Tried, Phases, Registered, ServiceTypeOK, service
  <2>6. NilIsKept'
    BY <1>13, ProcessEffect DEF NilIsKept, Nil, Phases, ServiceTypeOK, service
  <2>7. CopiedTrue'
    BY <1>13, ProcessEffect DEF CopiedTrue, service
  <2> QED BY <1>a, <2>1, <2>2, <2>3, <2>4, <2>5, <2>6, <2>7 DEF VInv
<1>14. ASSUME UNCHANGED serviceVars
      PROVE  VInv'
  <2> USE <1>14 DEF serviceVars, service, vars, session, server, entry
  <2>1. ServiceTypeOK'
    BY DEF ServiceTypeOK
  <2>2. Phases'
    BY DEF Phases, ServiceTypeOK
  <2>3. Containers'
    BY DEF Containers, Phases, ServiceTypeOK
  <2>4. Registered'
    BY DEF Registered
  <2>5. Tried'
    BY DEF Tried, Phases, Registered, ServiceTypeOK
  <2>6. NilIsKept'
    BY DEF NilIsKept, Nil, Phases, ServiceTypeOK
  <2>7. CopiedTrue'
    BY DEF CopiedTrue
  <2> QED BY <1>a, <2>1, <2>2, <2>3, <2>4, <2>5, <2>6, <2>7 DEF VInv
<1> QED BY <1>1, <1>2, <1>3, <1>4, <1>5, <1>6, <1>7, <1>8, <1>9, <1>10, <1>11,
   <1>12, <1>13, <1>14
  DEF ServiceNext

(***************************************************************************)
(* Evidence is part of a session's confirmation: once an endpoint was      *)
(* handed out, a nil Session.Stop means that the run's directory holds the *)
(* file the bridge finalized.                                              *)
(***************************************************************************)
THEOREM Evidence == ServiceSpec => []EvidenceIntact
<1>1. VInv => EvidenceIntact
  BY DEF VInv, CInv, Collected, CopiedTrue, EvidenceIntact, BInv, TypeOK
<1> QED BY <1>1, VInvInit, VInvNext, PTL DEF ServiceSpec

(***************************************************************************)
(* A nil Service.Stop means that no container, no access and no session    *)
(* without its evidence is left behind, however the launch, the sessions   *)
(* and earlier Stops went.                                                 *)
(***************************************************************************)
THEOREM CleanStop == ServiceSpec => []ServiceNilMeansClean
<1>1. VInv => ServiceNilMeansClean
  <2> SUFFICES ASSUME VInv, stopNil PROVE ServiceNilMeansClean
    BY DEF ServiceNilMeansClean
  <2>0. /\ svc = "closed" /\ ~allocationErr /\ ~shutdownErr /\ at = "idle"
        /\ todo = {} /\ busy = {}
    BY DEF VInv, NilIsKept, Nil, Phases
  <2>1. container \in {"none", "gone"} /\ \A s \in Sandbox : ~open[s]
    BY <2>0 DEF VInv, Containers, BInv, SInv, ShutWhenDown, ServiceTypeOK
  <2>2. ASSUME NEW s \in Sandbox, "exposed" \in flags[s] PROVE copied[s] = Finalized
    <3>1. "registered" \in flags[s] /\ s \in sessions
      BY <2>2 DEF VInv, CInv, Ordered, Registered
    <3>2. "collected" \in flags[s]
      BY <2>0, <3>1 DEF VInv, Tried
    <3> QED BY <2>2, <3>2 DEF VInv, CInv, Collected, CopiedTrue
  <2> QED BY <2>1, <2>2 DEF ServiceNilMeansClean
<1> QED BY <1>1, VInvInit, VInvNext, PTL DEF ServiceSpec

-----------------------------------------------------------------------------
(* The resource recorder that the run observes its containers with         *)
(* (Recorder), for any set of calls of Start and Stop, any number of tasks *)
(* and any bound on the samples.                                           *)

(***************************************************************************)
(* One Start is at work at a time, and nothing of the sampler, of a stop   *)
(* or of an index is there before it has succeeded.                        *)
(***************************************************************************)
RecorderType ==
  /\ where \in [Caller -> {"idle", "prepare", "sample", "closeSource", "closeUnstarted",
                        "wait"}]
  /\ result = [c \in Caller |-> result[c]]
  /\ file \in [Task -> {None, "open", "closed"}]
  /\ torn \in [Task -> BOOLEAN] /\ lines = [t \in Task |-> lines[t]]
  /\ index = [t \in Task |-> index[t]]

Starter ==
  /\ \A c \in Caller : where[c] \in {"prepare", "sample"} =>
       /\ starting
       /\ \A d \in Caller : where[d] \in {"prepare", "sample"} => c = d
  /\ starting => ~started
  /\ ~started =>
       /\ sampler = None /\ attempt = None /\ ~completed /\ ~filesClosed
       /\ \A t \in Task : index[t] = NoIndex

(***************************************************************************)
(* The files are closed and indices written only after the sampler has     *)
(* ended; what it left behind is its error.                                *)
(***************************************************************************)
Joined ==
  /\ attempt \in {"close", "index"} => sampler = "done"
  /\ \A t \in Task : index[t] # NoIndex => sampler = "done"
  /\ filesClosed \/ attempt = "index" => \A t \in Task : file[t] = "closed"
  /\ \A t \in Task : torn[t] => backgroundErr

Written ==
  \A t \in Task :
    index[t] \notin {NoIndex, Partial} => index[t] = Wanted(t)

(***************************************************************************)
(* A completed stop is the last one, and every call that returned its      *)
(* reports returned what is on disk.                                       *)
(***************************************************************************)
Completed ==
  /\ completed =>
       /\ attempt = "finished" /\ sampler = "done"
       /\ \A t \in Task :
            file[t] = "closed" /\ reports[t] = index[t] /\ index[t] = Wanted(t)
  /\ \A c \in Caller : result[c].outcome = "stopped" =>
       completed /\ result[c].reports = reports

RecorderInv ==
  RecorderType /\ Starter /\ Joined /\ Written /\ Completed /\ SourceReleased

LEMMA WantedIsWritten == \A t : Wanted(t) \notin {NoIndex, Partial}
  BY DEF Wanted, Status, NoIndex, Partial

LEMMA NoTornSample == \A R : Append(R, 0) => torn' = torn
  BY DEF Append, Task

(***************************************************************************)
(* What a stop attempt that failed does: it closes the source, completes   *)
(* nothing and returns the failure to the calls that wait.                 *)
(***************************************************************************)
LEMMA FailedAttempt ==
  ASSUME Complete(FALSE, NoReports)
  PROVE  /\ attempt' = "finished" /\ source' # "open"
         /\ completed' = completed /\ reports' = reports
         /\ where' = [c \in Caller |-> IF where[c] = "wait" THEN "idle" ELSE where[c]]
         /\ result' = [c \in Caller |->
              IF where[c] = "wait"
              THEN [outcome |-> "stop failed", reports |-> NoReports]
              ELSE result[c]]
<1>1. ~Succeeds(FALSE)
  BY DEF Succeeds
<1>2. attempt' = "finished" /\ source' # "open"
  BY DEF Complete, CloseSource
<1>3. UNCHANGED <<completed, reports>> /\ Wake("stop failed", NoReports)
  BY <1>1 DEF Complete
<1> HIDE DEF NoReports
<1>4. /\ where' = [c \in Caller |-> IF where[c] = "wait" THEN "idle" ELSE where[c]]
      /\ result' = [c \in Caller |->
           IF where[c] = "wait"
           THEN [outcome |-> "stop failed", reports |-> NoReports]
           ELSE result[c]]
  BY <1>3 DEF Wake, Woken
<1> QED BY <1>2, <1>3, <1>4

LEMMA RecorderBegins == RecorderInit => RecorderInv
<1> SUFFICES ASSUME RecorderInit PROVE RecorderInv
  OBVIOUS
<1> USE DEF RecorderInit, NoReports, None
<1>1. RecorderType
  BY DEF RecorderType
<1>2. Starter /\ Joined /\ Written
  BY DEF Starter, Joined, Written
<1>3. Completed /\ SourceReleased
  BY DEF Completed, SourceReleased
<1> QED BY <1>1, <1>2, <1>3 DEF RecorderInv

(***************************************************************************)
(* Start, the sampler, Stop and finishStop keep them, whichever of their   *)
(* file operations and requests fail.                                      *)
(***************************************************************************)
LEMMA RecorderMoves == RecorderInv /\ [RecorderNext]_recorderVars => RecorderInv'
<1> SUFFICES ASSUME RecorderInv, [RecorderNext]_recorderVars PROVE RecorderInv'
  OBVIOUS
<1> USE DEF RecorderInv, artifact, lifecycle, loop, stopping,
   MoveTo, ReturnReports, Returns, CloseSource, None
<1>1. ASSUME Tick
      PROVE  RecorderInv'
  <2> USE <1>1 DEF Tick
  <2>1. RecorderType'
    BY DEF RecorderType
  <2>2. Starter'
    BY DEF RecorderType, Starter
  <2>3. Joined'
    BY DEF RecorderType, Starter, Joined
  <2>4. Written'
    BY DEF RecorderType, Starter, Joined, Written, Wanted, Status
  <2>5. Completed'
    BY DEF RecorderType, Starter, Joined, Completed, Wanted, Status
  <2>6. SourceReleased'
    BY DEF RecorderType, SourceReleased
  <2> QED BY <2>1, <2>2, <2>3, <2>4, <2>5, <2>6
<1>2. ASSUME SampleTaken
      PROVE  RecorderInv'
  <2> USE <1>2 DEF SampleTaken, Appendable, Appended, Append,
     Writable
  <2>1. RecorderType'
    BY NoTornSample DEF RecorderType
  <2>2. Starter'
    BY NoTornSample DEF RecorderType, Starter
  <2>3. Joined'
    BY NoTornSample DEF RecorderType, Starter, Joined
  <2>4. Written'
    BY NoTornSample DEF RecorderType, Starter, Joined, Written, Wanted, Status
  <2>5. Completed'
    BY NoTornSample DEF RecorderType, Starter, Joined, Completed, Wanted,
       Status
  <2>6. SourceReleased'
    BY NoTornSample DEF RecorderType, SourceReleased
  <2> QED BY <2>1, <2>2, <2>3, <2>4, <2>5, <2>6
<1>3. ASSUME SampleFails
      PROVE  RecorderInv'
  <2> USE <1>3 DEF SampleFails, Appendable, Appended, Append,
     Writable
  <2>1. RecorderType'
    BY DEF RecorderType
  <2>2. Starter'
    BY DEF RecorderType, Starter
  <2>3. Joined'
    BY DEF RecorderType, Starter, Joined
  <2>4. Written'
    BY DEF RecorderType, Starter, Joined, Written, Wanted, Status
  <2>5. Completed'
    <3>1. ~completed
      BY DEF Completed
    <3> QED BY <3>1 DEF Completed
  <2>6. SourceReleased'
    BY DEF RecorderType, SourceReleased
  <2> QED BY <2>1, <2>2, <2>3, <2>4, <2>5, <2>6
<1>4. ASSUME SamplerCanceled
      PROVE  RecorderInv'
  <2> USE <1>4 DEF SamplerCanceled
  <2>1. RecorderType'
    BY DEF RecorderType
  <2>2. Starter'
    BY DEF RecorderType, Starter
  <2>3. Joined'
    BY DEF RecorderType, Starter, Joined
  <2>4. Written'
    BY DEF RecorderType, Starter, Joined, Written, Wanted, Status
  <2>5. Completed'
    BY DEF RecorderType, Starter, Joined, Completed, Wanted, Status
  <2>6. SourceReleased'
    BY DEF RecorderType, SourceReleased
  <2> QED BY <2>1, <2>2, <2>3, <2>4, <2>5, <2>6
<1>5. ASSUME FinishCancel
      PROVE  RecorderInv'
  <2> USE <1>5 DEF FinishCancel
  <2>1. RecorderType'
    BY DEF RecorderType
  <2>2. Starter'
    BY DEF RecorderType, Starter
  <2>3. Joined'
    BY DEF RecorderType, Starter, Joined
  <2>4. Written'
    BY DEF RecorderType, Starter, Joined, Written, Wanted, Status
  <2>5. Completed'
    BY DEF RecorderType, Starter, Joined, Completed, Wanted, Status
  <2>6. SourceReleased'
    BY DEF RecorderType, SourceReleased
  <2> QED BY <2>1, <2>2, <2>3, <2>4, <2>5, <2>6
<1>6. ASSUME FinishJoined
      PROVE  RecorderInv'
  <2> USE <1>6 DEF FinishJoined
  <2>1. RecorderType'
    BY DEF RecorderType
  <2>2. Starter'
    BY DEF RecorderType, Starter
  <2>3. Joined'
    BY DEF RecorderType, Starter, Joined
  <2>4. Written'
    BY DEF RecorderType, Starter, Joined, Written, Wanted, Status
  <2>5. Completed'
    BY DEF RecorderType, Starter, Joined, Completed, Wanted, Status
  <2>6. SourceReleased'
    BY DEF RecorderType, SourceReleased
  <2> QED BY <2>1, <2>2, <2>3, <2>4, <2>5, <2>6
<1>7. ASSUME FinishTimesOut
      PROVE  RecorderInv'
  <2>0. /\ attempt' = "finished" /\ source' # "open"
        /\ completed' = completed /\ reports' = reports
        /\ where' = [d \in Caller |-> IF where[d] = "wait" THEN "idle" ELSE where[d]]
        /\ result' = [d \in Caller |->
             IF where[d] = "wait"
             THEN [outcome |-> "stop failed", reports |-> NoReports]
             ELSE result[d]]
    BY FailedAttempt, <1>7 DEF FinishTimesOut
  <2> USE <1>7 DEF FinishTimesOut
  <2>1. RecorderType'
    BY <2>0 DEF RecorderType
  <2>2. Starter'
    BY <2>0 DEF RecorderType, Starter
  <2>3. Joined'
    BY <2>0 DEF RecorderType, Starter, Joined
  <2>4. Written'
    BY <2>0 DEF RecorderType, Starter, Joined, Written, Wanted, Status
  <2>5. Completed'
    <3>1. ~completed
      BY DEF Completed
    <3> QED BY <2>0, <3>1 DEF Completed
  <2>6. SourceReleased'
    BY <2>0 DEF RecorderType, SourceReleased
  <2> QED BY <2>1, <2>2, <2>3, <2>4, <2>5, <2>6
<1>8. ASSUME FinishClose
      PROVE  RecorderInv'
  <2> USE <1>8 DEF FinishClose
  <2>1. RecorderType'
    BY DEF RecorderType
  <2>2. Starter'
    BY DEF RecorderType, Starter
  <2>3. Joined'
    BY DEF RecorderType, Starter, Joined
  <2>4. Written'
    BY DEF RecorderType, Starter, Joined, Written, Wanted, Status
  <2>5. Completed'
    BY DEF RecorderType, Starter, Joined, Completed, Wanted, Status
  <2>6. SourceReleased'
    BY DEF RecorderType, SourceReleased
  <2> QED BY <2>1, <2>2, <2>3, <2>4, <2>5, <2>6
<1>9. ASSUME FinishCloseFails
      PROVE  RecorderInv'
  <2>0. /\ attempt' = "finished" /\ source' # "open"
        /\ completed' = completed /\ reports' = reports
        /\ where' = [d \in Caller |-> IF where[d] = "wait" THEN "idle" ELSE where[d]]
        /\ result' = [d \in Caller |->
             IF where[d] = "wait"
             THEN [outcome |-> "stop failed", reports |-> NoReports]
             ELSE result[d]]
    BY FailedAttempt, <1>9 DEF FinishCloseFails
  <2> USE <1>9 DEF FinishCloseFails
  <2>1. RecorderType'
    BY <2>0 DEF RecorderType
  <2>2. Starter'
    BY <2>0 DEF RecorderType, Starter
  <2>3. Joined'
    BY <2>0 DEF RecorderType, Starter, Joined
  <2>4. Written'
    BY <2>0 DEF RecorderType, Starter, Joined, Written, Wanted, Status
  <2>5. Completed'
    <3>1. ~completed
      BY DEF Completed
    <3> QED BY <2>0, <3>1 DEF Completed
  <2>6. SourceReleased'
    BY <2>0 DEF RecorderType, SourceReleased
  <2> QED BY <2>1, <2>2, <2>3, <2>4, <2>5, <2>6
<1>10. ASSUME FinishClosedBefore
      PROVE  RecorderInv'
  <2> USE <1>10 DEF FinishClosedBefore
  <2>1. RecorderType'
    BY DEF RecorderType
  <2>2. Starter'
    BY DEF RecorderType, Starter
  <2>3. Joined'
    BY DEF RecorderType, Starter, Joined
  <2>4. Written'
    BY DEF RecorderType, Starter, Joined, Written, Wanted, Status
  <2>5. Completed'
    BY DEF RecorderType, Starter, Joined, Completed, Wanted, Status
  <2>6. SourceReleased'
    BY DEF RecorderType, SourceReleased
  <2> QED BY <2>1, <2>2, <2>3, <2>4, <2>5, <2>6
<1>11. ASSUME FinishIndex
      PROVE  RecorderInv'
  <2> DEFINE r == [t \in Task |-> Wanted(t)]
             good == [outcome |-> "stopped", reports |-> r]
             bad == [outcome |-> "stop failed", reports |-> r]
  <2> HIDE DEF r
  <2>a. good.outcome = "stopped" /\ good.reports = r /\ bad.outcome = "stop failed"
    OBVIOUS
  <2>0. /\ attempt' = "finished" /\ source' # "open"
        /\ where' = [d \in Caller |-> IF where[d] = "wait" THEN "idle" ELSE where[d]]
        /\ result' = [d \in Caller |-> result'[d]]
        /\ \/ /\ completed' = TRUE /\ reports' = r
              /\ \A d \in Caller : result'[d] = result[d]
                                   \/ result'[d] = good
           \/ /\ completed' = completed /\ reports' = reports
              /\ \A d \in Caller : result'[d] = result[d]
                                   \/ result'[d] = bad
    <3>1. attempt' = "finished" /\ source' # "open"
      BY <1>11 DEF FinishIndex, Complete
    <3>2. \/ completed' = TRUE /\ reports' = r /\ Wake("stopped", r)
          \/ completed' = completed /\ reports' = reports /\ Wake("stop failed", r)
      BY <1>11 DEF FinishIndex, Complete, r
    <3> QED BY <3>1, <3>2 DEF Wake, Woken
  <2>b. /\ index' = r /\ r = [t \in Task |-> r[t]]
        /\ \A t \in Task : r[t] = Wanted(t)
    BY <1>11 DEF FinishIndex, r
  <2>c. \A t \in Task : Wanted(t)' = Wanted(t)
    BY <1>11 DEF FinishIndex, Wanted, Status
  <2>d. /\ attempt = "index"
        /\ UNCHANGED <<starting, started, sampler, backgroundErr, unsupported,
                       filesClosed, file, lines, torn>>
    BY <1>11 DEF FinishIndex
  <2> HIDE DEF good, bad
  <2>1. RecorderType'
    BY <2>0, <2>b, <2>c, <2>d DEF RecorderType
  <2>2. Starter'
    BY <2>0, <2>b, <2>c, <2>d DEF RecorderType, Starter
  <2>3. Joined'
    BY <2>0, <2>b, <2>c, <2>d DEF RecorderType, Starter, Joined
  <2>4. Written'
    BY <2>0, <2>b, <2>c, <2>d DEF RecorderType, Starter, Joined, Written, Wanted,
       Status
  <2>5. Completed'
    <3>1. ~completed /\ sampler = "done"
      BY <2>d DEF Completed, Joined
    <3>2. \A t \in Task : file[t] = "closed"
      BY <2>d DEF Joined
    <3>3. \A d \in Caller : result[d].outcome # "stopped"
      BY <3>1 DEF Completed
    <3>4. \A t \in Task :
            file'[t] = "closed" /\ index'[t] = r[t] /\ index'[t] = Wanted(t)'
      BY <2>b, <2>c, <2>d, <3>2
    <3>5. sampler' = "done"
      BY <2>d, <3>1
    <3>6. CASE /\ completed' = TRUE /\ reports' = r
               /\ \A d \in Caller : result'[d] = result[d]
                                    \/ result'[d] = good
      <4>1. ASSUME NEW d \in Caller, result'[d].outcome = "stopped"
            PROVE  result'[d].reports = r
        <5>1. result'[d] # result[d]
          BY <3>3, <4>1
        <5> QED BY <2>a, <3>6, <5>1
      <4> QED BY <2>0, <3>4, <3>5, <3>6, <4>1 DEF Completed
    <3>7. CASE /\ completed' = completed /\ reports' = reports
               /\ \A d \in Caller : result'[d] = result[d]
                                    \/ result'[d] = bad
      <4>1. ASSUME NEW d \in Caller
            PROVE  result'[d].outcome # "stopped"
        <5>1. CASE result'[d] = result[d]
          BY <3>3, <5>1
        <5>2. CASE result'[d] = bad
          BY <2>a, <5>2
        <5> QED BY <3>7, <5>1, <5>2
      <4> QED BY <3>1, <3>7, <4>1 DEF Completed
    <3> QED BY <2>0, <3>6, <3>7
  <2>6. SourceReleased'
    BY <2>0, <2>b, <2>c, <2>d, <2>a DEF RecorderType, SourceReleased
  <2> QED BY <2>1, <2>2, <2>3, <2>4, <2>5, <2>6
<1>12. ASSUME FinishIndexFails
      PROVE  RecorderInv'
  <2>0. /\ attempt' = "finished" /\ source' # "open"
        /\ completed' = completed /\ reports' = reports
        /\ where' = [d \in Caller |-> IF where[d] = "wait" THEN "idle" ELSE where[d]]
        /\ result' = [d \in Caller |->
             IF where[d] = "wait"
             THEN [outcome |-> "stop failed", reports |-> NoReports]
             ELSE result[d]]
    BY FailedAttempt, <1>12 DEF FinishIndexFails
  <2> USE <1>12 DEF FinishIndexFails, Accepts
  <2>1. RecorderType'
    BY <2>0 DEF RecorderType
  <2>2. Starter'
    BY <2>0 DEF RecorderType, Starter
  <2>3. Joined'
    BY <2>0 DEF RecorderType, Starter, Joined
  <2>4. Written'
    <3>1. \A u \in Task :
            index'[u] \in {index[u], Wanted(u), NoIndex, Partial}
      BY DEF RecorderType
    <3>2. \A u \in Task : Wanted(u)' = Wanted(u)
      BY DEF Wanted, Status
    <3> QED BY <3>1, <3>2, WantedIsWritten DEF Written
  <2>5. Completed'
    <3>1. ~completed
      BY DEF Completed
    <3> QED BY <2>0, <3>1 DEF Completed
  <2>6. SourceReleased'
    BY <2>0 DEF RecorderType, SourceReleased
  <2> QED BY <2>1, <2>2, <2>3, <2>4, <2>5, <2>6
<1>13. ASSUME NEW c \in Caller, StartCanceled(c)
      PROVE  RecorderInv'
  <2> USE <1>13 DEF StartCanceled
  <2>1. RecorderType'
    BY DEF RecorderType
  <2>2. Starter'
    BY DEF RecorderType, Starter
  <2>3. Joined'
    BY DEF RecorderType, Starter, Joined
  <2>4. Written'
    BY DEF RecorderType, Starter, Joined, Written, Wanted, Status
  <2>5. Completed'
    BY DEF RecorderType, Starter, Joined, Completed, Wanted, Status
  <2>6. SourceReleased'
    BY DEF RecorderType, SourceReleased
  <2> QED BY <2>1, <2>2, <2>3, <2>4, <2>5, <2>6
<1>14. ASSUME NEW c \in Caller, StartRefused(c)
      PROVE  RecorderInv'
  <2> USE <1>14 DEF StartRefused
  <2>1. RecorderType'
    BY DEF RecorderType
  <2>2. Starter'
    BY DEF RecorderType, Starter
  <2>3. Joined'
    BY DEF RecorderType, Starter, Joined
  <2>4. Written'
    BY DEF RecorderType, Starter, Joined, Written, Wanted, Status
  <2>5. Completed'
    BY DEF RecorderType, Starter, Joined, Completed, Wanted, Status
  <2>6. SourceReleased'
    BY DEF RecorderType, SourceReleased
  <2> QED BY <2>1, <2>2, <2>3, <2>4, <2>5, <2>6
<1>15. ASSUME NEW c \in Caller, StartBegins(c)
      PROVE  RecorderInv'
  <2> USE <1>15 DEF StartBegins
  <2>1. RecorderType'
    BY DEF RecorderType
  <2>2. Starter'
    BY DEF RecorderType, Starter
  <2>3. Joined'
    BY DEF RecorderType, Starter, Joined
  <2>4. Written'
    BY DEF RecorderType, Starter, Joined, Written, Wanted, Status
  <2>5. Completed'
    BY DEF RecorderType, Starter, Joined, Completed, Wanted, Status
  <2>6. SourceReleased'
    BY DEF RecorderType, SourceReleased
  <2> QED BY <2>1, <2>2, <2>3, <2>4, <2>5, <2>6
<1>16. ASSUME NEW c \in Caller, PrepareFails(c)
      PROVE  RecorderInv'
  <2> USE <1>16 DEF PrepareFails
  <2>1. RecorderType'
    BY DEF RecorderType
  <2>2. Starter'
    BY DEF RecorderType, Starter
  <2>3. Joined'
    BY DEF RecorderType, Starter, Joined
  <2>4. Written'
    BY DEF RecorderType, Starter, Joined, Written, Wanted, Status
  <2>5. Completed'
    BY DEF RecorderType, Starter, Joined, Completed, Wanted, Status
  <2>6. SourceReleased'
    BY DEF RecorderType, SourceReleased
  <2> QED BY <2>1, <2>2, <2>3, <2>4, <2>5, <2>6
<1>17. ASSUME NEW c \in Caller, Prepare(c)
      PROVE  RecorderInv'
  <2> USE <1>17 DEF Prepare
  <2>1. RecorderType'
    BY DEF RecorderType
  <2>2. Starter'
    BY DEF RecorderType, Starter
  <2>3. Joined'
    BY DEF RecorderType, Starter, Joined
  <2>4. Written'
    BY DEF RecorderType, Starter, Joined, Written, Wanted, Status
  <2>5. Completed'
    BY DEF RecorderType, Starter, Joined, Completed, Wanted, Status
  <2>6. SourceReleased'
    BY DEF RecorderType, SourceReleased
  <2> QED BY <2>1, <2>2, <2>3, <2>4, <2>5, <2>6
<1>18. ASSUME NEW c \in Caller, FirstSampleFails(c)
      PROVE  RecorderInv'
  <2> USE <1>18 DEF FirstSampleFails
  <2>1. RecorderType'
    BY DEF RecorderType
  <2>2. Starter'
    BY DEF RecorderType, Starter
  <2>3. Joined'
    BY DEF RecorderType, Starter, Joined
  <2>4. Written'
    BY DEF RecorderType, Starter, Joined, Written, Wanted, Status
  <2>5. Completed'
    BY DEF RecorderType, Starter, Joined, Completed, Wanted, Status
  <2>6. SourceReleased'
    BY DEF RecorderType, SourceReleased
  <2> QED BY <2>1, <2>2, <2>3, <2>4, <2>5, <2>6
<1>19. ASSUME NEW c \in Caller, StartFails(c)
      PROVE  RecorderInv'
  <2> USE <1>19 DEF StartFails
  <2>1. RecorderType'
    BY DEF RecorderType
  <2>2. Starter'
    BY DEF RecorderType, Starter
  <2>3. Joined'
    BY DEF RecorderType, Starter, Joined
  <2>4. Written'
    BY DEF RecorderType, Starter, Joined, Written, Wanted, Status
  <2>5. Completed'
    BY DEF RecorderType, Starter, Joined, Completed, Wanted, Status
  <2>6. SourceReleased'
    BY DEF RecorderType, SourceReleased
  <2> QED BY <2>1, <2>2, <2>3, <2>4, <2>5, <2>6
<1>20. ASSUME NEW c \in Caller, StartSucceeds(c)
      PROVE  RecorderInv'
  <2> USE <1>20 DEF StartSucceeds, Appendable, Appended, Append,
     Writable
  <2>1. RecorderType'
    BY DEF RecorderType
  <2>2. Starter'
    BY DEF RecorderType, Starter
  <2>3. Joined'
    <3>1. torn' = torn
      BY NoTornSample
    <3> QED BY <3>1 DEF RecorderType, Starter, Joined
  <2>4. Written'
    BY DEF RecorderType, Starter, Joined, Written, Wanted, Status
  <2>5. Completed'
    BY DEF RecorderType, Starter, Joined, Completed, Wanted, Status
  <2>6. SourceReleased'
    BY DEF RecorderType, SourceReleased
  <2> QED BY <2>1, <2>2, <2>3, <2>4, <2>5, <2>6
<1>21. ASSUME NEW c \in Caller, StopNotStarted(c)
      PROVE  RecorderInv'
  <2> USE <1>21 DEF StopNotStarted
  <2>1. RecorderType'
    BY DEF RecorderType
  <2>2. Starter'
    BY DEF RecorderType, Starter
  <2>3. Joined'
    BY DEF RecorderType, Starter, Joined
  <2>4. Written'
    BY DEF RecorderType, Starter, Joined, Written, Wanted, Status
  <2>5. Completed'
    <3>1. \A d \in Caller :
            result'[d] = result[d] \/ result'[d].outcome = "not started"
      <4>1. CASE starting
        <5>1. result' = [result EXCEPT ![c] =
                           [outcome |-> "not started", reports |-> NoReports]]
          BY <4>1
        <5> QED BY <5>1 DEF RecorderType
      <4>2. CASE ~starting
        BY <4>2 DEF RecorderType
      <4> QED BY <4>1, <4>2
    <3> QED BY <3>1 DEF Completed, Wanted, Status
  <2>6. SourceReleased'
    <3>1. \A d \in Caller :
            result'[d] = result[d] \/ result'[d].outcome = "not started"
      <4>1. CASE starting
        <5>1. result' = [result EXCEPT ![c] =
                           [outcome |-> "not started", reports |-> NoReports]]
          BY <4>1
        <5> QED BY <5>1 DEF RecorderType
      <4>2. CASE ~starting
        BY <4>2 DEF RecorderType
      <4> QED BY <4>1, <4>2
    <3> QED BY <3>1 DEF SourceReleased
  <2> QED BY <2>1, <2>2, <2>3, <2>4, <2>5, <2>6
<1>22. ASSUME NEW c \in Caller, StopUnstartedCloses(c)
      PROVE  RecorderInv'
  <2> USE <1>22 DEF StopUnstartedCloses
  <2>1. RecorderType'
    BY DEF RecorderType
  <2>2. Starter'
    BY DEF RecorderType, Starter
  <2>3. Joined'
    BY DEF RecorderType, Starter, Joined
  <2>4. Written'
    BY DEF RecorderType, Starter, Joined, Written, Wanted, Status
  <2>5. Completed'
    BY DEF RecorderType, Starter, Joined, Completed, Wanted, Status
  <2>6. SourceReleased'
    BY DEF RecorderType, SourceReleased
  <2> QED BY <2>1, <2>2, <2>3, <2>4, <2>5, <2>6
<1>23. ASSUME NEW c \in Caller, StopCompleted(c)
      PROVE  RecorderInv'
  <2> USE <1>23 DEF StopCompleted
  <2>1. RecorderType'
    BY DEF RecorderType
  <2>2. Starter'
    BY DEF RecorderType, Starter
  <2>3. Joined'
    BY DEF RecorderType, Starter, Joined
  <2>4. Written'
    BY DEF RecorderType, Starter, Joined, Written, Wanted, Status
  <2>5. Completed'
    BY DEF RecorderType, Starter, Joined, Completed, Wanted, Status
  <2>6. SourceReleased'
    BY DEF RecorderType, SourceReleased
  <2> QED BY <2>1, <2>2, <2>3, <2>4, <2>5, <2>6
<1>24. ASSUME NEW c \in Caller, StopWaits(c)
      PROVE  RecorderInv'
  <2> USE <1>24 DEF StopWaits, NewAttempt
  <2>1. RecorderType'
    BY DEF RecorderType
  <2>2. Starter'
    BY DEF RecorderType, Starter
  <2>3. Joined'
    BY DEF RecorderType, Starter, Joined
  <2>4. Written'
    BY DEF RecorderType, Starter, Joined, Written, Wanted, Status
  <2>5. Completed'
    BY DEF RecorderType, Starter, Joined, Completed, Wanted, Status
  <2>6. SourceReleased'
    BY DEF RecorderType, SourceReleased
  <2> QED BY <2>1, <2>2, <2>3, <2>4, <2>5, <2>6
<1>25. ASSUME NEW c \in Caller, StopGivesUp(c)
      PROVE  RecorderInv'
  <2> USE <1>25 DEF StopGivesUp
  <2>1. RecorderType'
    BY DEF RecorderType
  <2>2. Starter'
    BY DEF RecorderType, Starter
  <2>3. Joined'
    BY DEF RecorderType, Starter, Joined
  <2>4. Written'
    BY DEF RecorderType, Starter, Joined, Written, Wanted, Status
  <2>5. Completed'
    BY DEF RecorderType, Starter, Joined, Completed, Wanted, Status
  <2>6. SourceReleased'
    BY DEF RecorderType, SourceReleased
  <2> QED BY <2>1, <2>2, <2>3, <2>4, <2>5, <2>6
<1>26. ASSUME UNCHANGED recorderVars
      PROVE  RecorderInv'
  <2> USE <1>26 DEF recorderVars
  <2>1. RecorderType'
    BY DEF RecorderType
  <2>2. Starter'
    BY DEF RecorderType, Starter
  <2>3. Joined'
    BY DEF RecorderType, Starter, Joined
  <2>4. Written'
    BY DEF RecorderType, Starter, Joined, Written, Wanted, Status
  <2>5. Completed'
    BY DEF RecorderType, Starter, Joined, Completed, Wanted, Status
  <2>6. SourceReleased'
    BY DEF RecorderType, SourceReleased
  <2> QED BY <2>1, <2>2, <2>3, <2>4, <2>5, <2>6
<1> QED BY <1>1, <1>2, <1>3, <1>4, <1>5, <1>6, <1>7, <1>8, <1>9, <1>10, <1>11, <1>12,
   <1>13, <1>14, <1>15, <1>16, <1>17, <1>18, <1>19, <1>20, <1>21, <1>22, <1>23, <1>24,
   <1>25, <1>26 DEF RecorderNext

(***************************************************************************)
(* An index on disk describes its sample file for ever, never calls a      *)
(* broken sampling a success, and is what every Stop call has returned.    *)
(***************************************************************************)
THEOREM IndicesExact == RecorderSpec => []IndexExact
<1>1. ASSUME RecorderInv PROVE IndexExact
  <2> USE <1>1 DEF RecorderInv
  <2>1. ASSUME NEW t \in Task, index[t] \notin {NoIndex, Partial}
        PROVE  index[t] = Wanted(t) /\ (torn[t] => index[t].status = "failed")
    <3>1. index[t] = Wanted(t)
      BY <2>1 DEF Written
    <3>2. torn[t] => Status = "failed"
      BY DEF Joined, Status
    <3>3. Wanted(t).status = Status
      BY DEF Wanted
    <3> QED BY <3>1, <3>2, <3>3
  <2>2. ASSUME NEW c \in Caller, result[c].outcome = "stopped", NEW t \in Task
        PROVE  file[t] = "closed" /\ index[t] = result[c].reports[t]
    BY <2>2 DEF Completed
  <2> QED BY <2>1, <2>2 DEF IndexExact
<1> QED BY <1>1, RecorderBegins, RecorderMoves, PTL DEF RecorderSpec

(***************************************************************************)
(* Neither a start that failed nor a stop attempt that ended leaves the    *)
(* source open.                                                            *)
(***************************************************************************)
THEOREM SourcesReleased == RecorderSpec => []SourceReleased
<1>1. RecorderInv => SourceReleased
  BY DEF RecorderInv
<1> QED BY <1>1, RecorderBegins, RecorderMoves, PTL DEF RecorderSpec
=============================================================================
