------------------------ MODULE OpenClawRun_proofs --------------------------
(***************************************************************************)
(* Proofs about a run of the OpenClaw manager, for any number of           *)
(* goroutines, connections, agent runs, events and repeated responses and  *)
(* for any capacity of the event queue and of the wire:                    *)
(*   InSequence              processEvents handles the events of its       *)
(*                           session in order, each once, without a gap;   *)
(*   VerdictMatchesGateway   what a run reports is so at the Gateway.      *)
(*                                                                         *)
(* SequenceInv, the first inductive invariant, says that the queue and the *)
(* wire of the current connection continue what was handled.  VerdictInv   *)
(* adds what the frames on their way say of the agent runs, which request  *)
(* an answer belongs to, and that the runner knows of every agent run as   *)
(* long as nothing has failed.                                             *)
(***************************************************************************)
EXTENDS OpenClawRun, SequenceTheorems, FiniteSetTheorems, TLAPS

-----------------------------------------------------------------------------
(***************************************************************************)
(* A sequence of frames, whatever the frames are.                          *)
(***************************************************************************)
SeqLike(q) == \E S : q \in Seq(S)

LEMMA EmptyLike == SeqLike(<<>>) /\ Len(<<>>) = 0
  BY DEF SeqLike

LEMMA DomainLike ==
  ASSUME NEW q, SeqLike(q)
  PROVE  DOMAIN q = 1..Len(q)
  BY DEF SeqLike

LEMMA AppendLike ==
  ASSUME NEW q, NEW e, SeqLike(q)
  PROVE  /\ SeqLike(Append(q, e)) /\ Len(q) \in Nat /\ Len(Append(q, e)) = Len(q) + 1
         /\ \A i \in 1..Len(q) : Append(q, e)[i] = q[i]
         /\ Append(q, e)[Len(q) + 1] = e
<1>1. PICK S : q \in Seq(S)
  BY DEF SeqLike
<1>2. q \in Seq(S \cup {e}) /\ e \in S \cup {e}
  BY <1>1
<1>3. Append(q, e) \in Seq(S \cup {e})
  BY <1>2
<1> QED BY <1>1, <1>2, <1>3 DEF SeqLike

LEMMA TailLike ==
  ASSUME NEW q, SeqLike(q), q # <<>>
  PROVE  /\ SeqLike(Tail(q)) /\ Len(q) \in Nat \ {0} /\ Len(Tail(q)) = Len(q) - 1
         /\ Head(q) = q[1]
         /\ \A i \in 1..(Len(q) - 1) : Tail(q)[i] = q[i + 1]
<1>1. PICK S : q \in Seq(S)
  BY DEF SeqLike
<1>2. Tail(q) \in Seq(S)
  BY <1>1
<1> QED BY <1>1, <1>2 DEF SeqLike

LEMMA FirstLike ==
  ASSUME NEW q, SeqLike(q), NEW k \in {0, 1}, k <= Len(q)
  PROVE  /\ SeqLike(SubSeq(q, 1, k)) /\ Len(SubSeq(q, 1, k)) = k
         /\ \A i \in 1..k : SubSeq(q, 1, k)[i] = q[i]
<1>1. PICK S : q \in Seq(S)
  BY DEF SeqLike
<1>2. \A i \in 1..k : q[i] \in S
  BY <1>1
<1>3. /\ SubSeq(q, 1, k) \in Seq(S)
      /\ Len(SubSeq(q, 1, k)) = IF 1 <= k THEN k - 1 + 1 ELSE 0
      /\ \A i \in 1..(k - 1 + 1) : SubSeq(q, 1, k)[i] = q[1 + i - 1]
  BY <1>2, SubSeqProperties
<1> HIDE DEF SeqLike
<1>4. Len(SubSeq(q, 1, k)) = k /\ \A i \in 1..k : SubSeq(q, 1, k)[i] = q[i]
  BY <1>3
<1>5. SeqLike(SubSeq(q, 1, k))
  BY <1>3 DEF SeqLike
<1> QED BY <1>4, <1>5

(***************************************************************************)
(* Events carry their connection and their number there.  What is queued,  *)
(* and behind it what is on the wire, has no gap above the lo events       *)
(* handled: before each event are all those that come before it.           *)
(***************************************************************************)
IsEvent(f) == f.kind \in {"talk", "tool", "chat"}
Num(f) == f.id[2]

Flight(q, w) ==
  [i \in 1..(Len(q) + Len(w)) |-> IF i <= Len(q) THEN q[i] ELSE w[i - Len(q)]]

Gapless(c, s, lo) ==
  \A i \in DOMAIN s : IsEvent(s[i]) =>
    /\ s[i].id = <<c, Num(s[i])>> /\ Num(s[i]) \in Nat /\ Num(s[i]) > lo
    /\ \A j \in DOMAIN s : j < i /\ IsEvent(s[j]) => Num(s[j]) < Num(s[i])
    /\ \A m \in (lo + 1)..(Num(s[i]) - 1) :
         \E j \in DOMAIN s : j < i /\ IsEvent(s[j]) /\ Num(s[j]) = m

Whole(s, lo, sent) ==
  /\ lo <= sent
  /\ \A i \in DOMAIN s : IsEvent(s[i]) => Num(s[i]) <= sent
  /\ \A m \in (lo + 1)..sent : \E j \in DOMAIN s : IsEvent(s[j]) /\ Num(s[j]) = m

LEMMA FlightMoves ==
  ASSUME NEW q, NEW w, SeqLike(q), SeqLike(w), w # <<>>
  PROVE  Flight(Append(q, Head(w)), Tail(w)) = Flight(q, w)
<1> DEFINE a == Append(q, Head(w))
           t == Tail(w)
<1>1. /\ Len(q) \in Nat /\ Len(a) = Len(q) + 1
      /\ \A i \in 1..Len(q) : a[i] = q[i]
      /\ a[Len(q) + 1] = Head(w)
  BY AppendLike
<1>2. /\ Len(w) \in Nat \ {0} /\ Len(t) = Len(w) - 1 /\ Head(w) = w[1]
      /\ \A i \in 1..(Len(w) - 1) : t[i] = w[i + 1]
  BY TailLike
<1> HIDE DEF a, t
<1>3. Len(a) + Len(t) = Len(q) + Len(w)
  BY <1>1, <1>2
<1>4. ASSUME NEW i \in 1..(Len(q) + Len(w))
      PROVE  (IF i <= Len(a) THEN a[i] ELSE t[i - Len(a)])
             = (IF i <= Len(q) THEN q[i] ELSE w[i - Len(q)])
  <2>1. CASE i <= Len(q)
    BY <1>1, <2>1
  <2>2. CASE i = Len(q) + 1
    BY <1>1, <1>2, <2>2
  <2>3. CASE i > Len(q) + 1
    <3>1. i - Len(a) \in 1..(Len(w) - 1)
      BY <1>1, <1>2, <2>3
    <3>2. t[i - Len(a)] = w[i - Len(a) + 1]
      BY <1>2, <3>1
    <3>3. i - Len(a) + 1 = i - Len(q)
      BY <1>1
    <3> QED BY <1>1, <2>3, <3>2, <3>3
  <2> QED BY <1>1, <2>1, <2>2, <2>3
<1> QED BY <1>3, <1>4 DEF Flight, a, t

LEMMA FlightGrows ==
  ASSUME NEW q, NEW w, NEW e, SeqLike(q), SeqLike(w)
  PROVE  /\ Len(q) + Len(w) \in Nat
         /\ DOMAIN Flight(q, w) = 1..(Len(q) + Len(w))
         /\ DOMAIN Flight(q, Append(w, e)) = 1..(Len(q) + Len(w) + 1)
         /\ \A i \in 1..(Len(q) + Len(w)) : Flight(q, Append(w, e))[i] = Flight(q, w)[i]
         /\ Flight(q, Append(w, e))[Len(q) + Len(w) + 1] = e
<1> DEFINE a == Append(w, e)
<1>1. /\ Len(w) \in Nat /\ Len(a) = Len(w) + 1
      /\ \A i \in 1..Len(w) : a[i] = w[i]
      /\ a[Len(w) + 1] = e
  BY AppendLike
<1>2. Len(q) \in Nat
  BY AppendLike
<1> HIDE DEF a
<1>3. DOMAIN Flight(q, w) = 1..(Len(q) + Len(w)) /\ DOMAIN Flight(q, a) = 1..(Len(q) + Len(w) + 1)
  BY <1>1, <1>2 DEF Flight
<1>4. ASSUME NEW i \in 1..(Len(q) + Len(w))
      PROVE  Flight(q, a)[i] = Flight(q, w)[i]
  <2>1. CASE i <= Len(q)
    BY <1>1, <1>2, <2>1 DEF Flight
  <2>2. CASE ~(i <= Len(q))
    <3>1. i - Len(q) \in 1..Len(w)
      BY <1>1, <1>2, <2>2
    <3> QED BY <1>1, <1>2, <2>2, <3>1 DEF Flight
  <2> QED BY <2>1, <2>2
<1>5. Flight(q, a)[Len(q) + Len(w) + 1] = e
  BY <1>1, <1>2 DEF Flight
<1> QED BY <1>1, <1>2, <1>3, <1>4, <1>5 DEF a

(***************************************************************************)
(* The k-th frame is taken out of s.                                       *)
(***************************************************************************)
Without(s, t, n, k) ==
  /\ n \in Nat /\ k \in 1..n /\ DOMAIN s = 1..n /\ DOMAIN t = 1..(n - 1)
  /\ \A i \in 1..(n - 1) : t[i] = IF i < k THEN s[i] ELSE s[i + 1]

LEMMA FlightTakes ==
  ASSUME NEW q, NEW w, SeqLike(q), SeqLike(w), q # <<>>
  PROVE  /\ Without(Flight(q, w), Flight(Tail(q), w), Len(q) + Len(w), 1)
         /\ Flight(q, w)[1] = Head(q)
<1> DEFINE t == Tail(q)
<1>1. /\ Len(q) \in Nat \ {0} /\ Len(t) = Len(q) - 1 /\ Head(q) = q[1]
      /\ \A i \in 1..(Len(q) - 1) : t[i] = q[i + 1]
  BY TailLike
<1>2. Len(w) \in Nat
  BY AppendLike
<1> HIDE DEF t
<1>3. DOMAIN Flight(q, w) = 1..(Len(q) + Len(w)) /\ DOMAIN Flight(t, w) = 1..(Len(q) + Len(w) - 1)
  BY <1>1, <1>2 DEF Flight
<1>4. ASSUME NEW i \in 1..(Len(q) + Len(w) - 1)
      PROVE  Flight(t, w)[i] = Flight(q, w)[i + 1]
  <2>1. CASE i <= Len(q) - 1
    BY <1>1, <1>2, <2>1 DEF Flight
  <2>2. CASE ~(i <= Len(q) - 1)
    <3>1. i - Len(t) = i + 1 - Len(q)
      BY <1>1
    <3> QED BY <1>1, <1>2, <2>2, <3>1 DEF Flight
  <2> QED BY <2>1, <2>2
<1>5. Flight(q, w)[1] = Head(q)
  BY <1>1, <1>2 DEF Flight
<1> QED BY <1>1, <1>2, <1>3, <1>4, <1>5 DEF Without, t

LEMMA FlightLoses ==
  ASSUME NEW q, NEW w, SeqLike(q), SeqLike(w), w # <<>>
  PROVE  /\ Without(Flight(q, w), Flight(q, Tail(w)), Len(q) + Len(w), Len(q) + 1)
         /\ Flight(q, w)[Len(q) + 1] = Head(w)
<1> DEFINE t == Tail(w)
<1>1. /\ Len(w) \in Nat \ {0} /\ Len(t) = Len(w) - 1 /\ Head(w) = w[1]
      /\ \A i \in 1..(Len(w) - 1) : t[i] = w[i + 1]
  BY TailLike
<1>2. Len(q) \in Nat
  BY AppendLike
<1> HIDE DEF t
<1>3. DOMAIN Flight(q, w) = 1..(Len(q) + Len(w)) /\ DOMAIN Flight(q, t) = 1..(Len(q) + Len(w) - 1)
  BY <1>1, <1>2 DEF Flight
<1>4. ASSUME NEW i \in 1..(Len(q) + Len(w) - 1)
      PROVE  Flight(q, t)[i] = IF i < Len(q) + 1 THEN Flight(q, w)[i] ELSE Flight(q, w)[i + 1]
  <2>1. CASE i <= Len(q)
    BY <1>1, <1>2, <2>1 DEF Flight
  <2>2. CASE ~(i <= Len(q))
    <3>1. i - Len(q) \in 1..(Len(w) - 1) /\ (i - Len(q)) + 1 = i + 1 - Len(q)
      BY <1>1, <1>2, <2>2
    <3>2. t[i - Len(q)] = w[i + 1 - Len(q)]
      BY <1>1, <3>1
    <3> QED BY <1>1, <1>2, <2>2, <3>1, <3>2 DEF Flight
  <2> QED BY <2>1, <2>2
<1>5. Flight(q, w)[Len(q) + 1] = Head(w)
  BY <1>1, <1>2 DEF Flight
<1> QED BY <1>1, <1>2, <1>3, <1>4, <1>5 DEF Without, t

(***************************************************************************)
(* t is a beginning of s.                                                  *)
(***************************************************************************)
Begins(s, t) ==
  \E n \in Nat, k \in Nat : /\ k <= n /\ DOMAIN s = 1..n /\ DOMAIN t = 1..k
                            /\ \A i \in 1..k : t[i] = s[i]

LEMMA FlightCut ==
  ASSUME NEW q, NEW w, SeqLike(q), SeqLike(w)
  PROVE  /\ Begins(Flight(q, w), Flight(q, w)) /\ Begins(Flight(q, w), Flight(q, <<>>))
         /\ Begins(Flight(q, w), Flight(q, SubSeq(w, 1, IF w = <<>> THEN 0 ELSE 1)))
<1>1. Len(q) \in Nat /\ Len(w) \in Nat
  BY AppendLike
<1>2. ASSUME NEW v, Len(v) \in Nat, Len(v) <= Len(w), \A i \in 1..Len(v) : v[i] = w[i]
      PROVE  Begins(Flight(q, w), Flight(q, v))
  <2>1. DOMAIN Flight(q, w) = 1..(Len(q) + Len(w)) /\ DOMAIN Flight(q, v) = 1..(Len(q) + Len(v))
    BY DEF Flight
  <2>2. ASSUME NEW i \in 1..(Len(q) + Len(v))
        PROVE  Flight(q, v)[i] = Flight(q, w)[i]
    <3>1. CASE i <= Len(q)
      BY <1>1, <1>2, <3>1 DEF Flight
    <3>2. CASE ~(i <= Len(q))
      <4>1. i - Len(q) \in 1..Len(v)
        BY <1>1, <1>2, <3>2
      <4> QED BY <1>1, <1>2, <3>2, <4>1 DEF Flight
    <3> QED BY <3>1, <3>2
  <2>3. Len(q) + Len(w) \in Nat /\ Len(q) + Len(v) \in Nat /\ Len(q) + Len(v) <= Len(q) + Len(w)
    BY <1>1, <1>2
  <2> QED BY <2>1, <2>2, <2>3 DEF Begins
<1>3. Begins(Flight(q, w), Flight(q, w))
  BY <1>1, <1>2
<1>4. Begins(Flight(q, w), Flight(q, <<>>))
  BY <1>1, <1>2, EmptyLike
<1>5. Begins(Flight(q, w), Flight(q, SubSeq(w, 1, IF w = <<>> THEN 0 ELSE 1)))
  <2> DEFINE k == IF w = <<>> THEN 0 ELSE 1
             v == SubSeq(w, 1, k)
  <2>1. k \in {0, 1} /\ k <= Len(w)
    BY <1>1, TailLike
  <2> HIDE DEF k
  <2>2. Len(v) = k /\ \A i \in 1..k : v[i] = w[i]
    BY <2>1, FirstLike
  <2> HIDE DEF v
  <2>3. Begins(Flight(q, w), Flight(q, v))
    BY <1>2, <2>1, <2>2
  <2> QED BY <2>3 DEF v, k
<1> QED BY <1>3, <1>4, <1>5

-----------------------------------------------------------------------------
(* What keeps the frames without a gap *)

LEMMA GaplessBegins ==
  ASSUME NEW c, NEW s, NEW t, NEW lo, Gapless(c, s, lo), Begins(s, t)
  PROVE  Gapless(c, t, lo)
<1>1. PICK n \in Nat, k \in Nat :
        /\ k <= n /\ DOMAIN s = 1..n /\ DOMAIN t = 1..k
        /\ \A i \in 1..k : t[i] = s[i]
  BY DEF Begins
<1>2. ASSUME NEW i \in DOMAIN t, IsEvent(t[i])
      PROVE  /\ t[i].id = <<c, Num(t[i])>> /\ Num(t[i]) \in Nat /\ Num(t[i]) > lo
             /\ \A j \in DOMAIN t : j < i /\ IsEvent(t[j]) => Num(t[j]) < Num(t[i])
             /\ \A m \in (lo + 1)..(Num(t[i]) - 1) :
                  \E j \in DOMAIN t : j < i /\ IsEvent(t[j]) /\ Num(t[j]) = m
  <2>1. /\ i \in DOMAIN s /\ t[i] = s[i]
        /\ \A j \in DOMAIN s : j < i => j \in DOMAIN t /\ t[j] = s[j]
        /\ \A j \in DOMAIN t : j \in DOMAIN s /\ t[j] = s[j]
    BY <1>1
  <2> QED BY <1>2, <2>1 DEF Gapless
<1> QED BY <1>2 DEF Gapless

LEMMA GaplessWithout ==
  ASSUME NEW c, NEW s, NEW t, NEW n, NEW k, NEW lo, Gapless(c, s, lo), Without(s, t, n, k),
         ~IsEvent(s[k])
  PROVE  /\ Gapless(c, t, lo)
         /\ \A sent : Whole(s, lo, sent) => Whole(t, lo, sent)
<1>1. ASSUME NEW i \in DOMAIN t
      PROVE  LET x == IF i < k THEN i ELSE i + 1 IN x \in DOMAIN s /\ t[i] = s[x]
  BY DEF Without
<1>2. ASSUME NEW x \in DOMAIN s, IsEvent(s[x])
      PROVE  LET i == IF x < k THEN x ELSE x - 1 IN i \in DOMAIN t /\ t[i] = s[x]
  <2>1. CASE x < k
    BY <2>1 DEF Without
  <2>2. CASE x > k
    <3>1. x - 1 \in 1..(n - 1) /\ ~(x - 1 < k) /\ (x - 1) + 1 = x /\ ~(x < k)
      BY <2>2 DEF Without
    <3> QED BY <3>1 DEF Without
  <2>3. x # k
    BY <1>2
  <2> QED BY <2>1, <2>2, <2>3 DEF Without
<1>3. n \in Nat /\ k \in 1..n /\ DOMAIN s = 1..n /\ DOMAIN t = 1..(n - 1)
  BY DEF Without
<1>4. ASSUME NEW i \in DOMAIN t, IsEvent(t[i])
      PROVE  /\ t[i].id = <<c, Num(t[i])>> /\ Num(t[i]) \in Nat /\ Num(t[i]) > lo
             /\ \A j \in DOMAIN t : j < i /\ IsEvent(t[j]) => Num(t[j]) < Num(t[i])
             /\ \A m \in (lo + 1)..(Num(t[i]) - 1) :
                  \E j \in DOMAIN t : j < i /\ IsEvent(t[j]) /\ Num(t[j]) = m
  <2> DEFINE x == IF i < k THEN i ELSE i + 1
  <2>1. x \in DOMAIN s /\ t[i] = s[x]
    BY <1>1
  <2>2. t[i].id = <<c, Num(t[i])>> /\ Num(t[i]) \in Nat /\ Num(t[i]) > lo
    BY <1>4, <2>1 DEF Gapless
  <2>3. ASSUME NEW j \in DOMAIN t, j < i, IsEvent(t[j])
        PROVE  Num(t[j]) < Num(t[i])
    <3> DEFINE y == IF j < k THEN j ELSE j + 1
    <3>1. y \in DOMAIN s /\ t[j] = s[y]
      BY <1>1
    <3>2. y < x
      BY <1>3, <2>3
    <3> HIDE DEF x, y
    <3> QED BY <1>4, <2>1, <2>3, <3>1, <3>2 DEF Gapless
  <2>4. ASSUME NEW m \in (lo + 1)..(Num(t[i]) - 1)
        PROVE  \E j \in DOMAIN t : j < i /\ IsEvent(t[j]) /\ Num(t[j]) = m
    <3> HIDE DEF x
    <3>1. PICK y \in DOMAIN s : y < x /\ IsEvent(s[y]) /\ Num(s[y]) = m
      BY <1>4, <2>1 DEF Gapless
    <3> DEFINE j == IF y < k THEN y ELSE y - 1
    <3>2. j \in DOMAIN t /\ t[j] = s[y]
      BY <1>2, <3>1
    <3>3. j < i
      <4>1. y # k
        BY <3>1
      <4> QED BY <1>3, <3>1, <4>1 DEF x
    <3> HIDE DEF j
    <3> QED BY <3>1, <3>2, <3>3
  <2> QED BY <2>2, <2>3, <2>4
<1>5. Gapless(c, t, lo)
  BY <1>4 DEF Gapless
<1>6. ASSUME NEW sent, Whole(s, lo, sent)
      PROVE  Whole(t, lo, sent)
  <2>1. ASSUME NEW i \in DOMAIN t, IsEvent(t[i])
        PROVE  Num(t[i]) <= sent
    <3> DEFINE x == IF i < k THEN i ELSE i + 1
    <3>1. x \in DOMAIN s /\ t[i] = s[x]
      BY <1>1
    <3> HIDE DEF x
    <3> QED BY <1>6, <2>1, <3>1 DEF Whole
  <2>2. ASSUME NEW m \in (lo + 1)..sent
        PROVE  \E j \in DOMAIN t : IsEvent(t[j]) /\ Num(t[j]) = m
    <3>1. PICK y \in DOMAIN s : IsEvent(s[y]) /\ Num(s[y]) = m
      BY <1>6 DEF Whole
    <3> DEFINE j == IF y < k THEN y ELSE y - 1
    <3>2. j \in DOMAIN t /\ t[j] = s[y]
      BY <1>2, <3>1
    <3> HIDE DEF j
    <3> QED BY <3>1, <3>2
  <2> QED BY <1>6, <2>1, <2>2 DEF Whole
<1> QED BY <1>5, <1>6

(***************************************************************************)
(* The first of them is the next one to handle.                            *)
(***************************************************************************)
LEMMA GaplessHead ==
  ASSUME NEW c, NEW s, NEW t, NEW n, NEW lo \in Nat, Gapless(c, s, lo), Without(s, t, n, 1),
         IsEvent(s[1])
  PROVE  /\ s[1].id = <<c, lo + 1>>
         /\ Gapless(c, t, lo + 1)
         /\ \A sent \in Nat : Whole(s, lo, sent) => Whole(t, lo + 1, sent)
<1>1. /\ n \in Nat \ {0} /\ DOMAIN s = 1..n /\ DOMAIN t = 1..(n - 1)
      /\ \A i \in 1..(n - 1) : t[i] = s[i + 1]
  BY DEF Without
<1>2. s[1].id = <<c, Num(s[1])>> /\ Num(s[1]) = lo + 1
  <2>1. /\ s[1].id = <<c, Num(s[1])>> /\ Num(s[1]) \in Nat /\ Num(s[1]) > lo
        /\ \A m \in (lo + 1)..(Num(s[1]) - 1) :
             \E j \in DOMAIN s : j < 1 /\ IsEvent(s[j]) /\ Num(s[j]) = m
    BY <1>1 DEF Gapless
  <2>2. lo + 1 \notin (lo + 1)..(Num(s[1]) - 1)
    BY <1>1, <2>1
  <2> QED BY <2>1, <2>2
<1>3. ASSUME NEW i \in DOMAIN t, IsEvent(t[i])
      PROVE  /\ t[i].id = <<c, Num(t[i])>> /\ Num(t[i]) \in Nat /\ Num(t[i]) > lo + 1
             /\ \A j \in DOMAIN t : j < i /\ IsEvent(t[j]) => Num(t[j]) < Num(t[i])
             /\ \A m \in (lo + 2)..(Num(t[i]) - 1) :
                  \E j \in DOMAIN t : j < i /\ IsEvent(t[j]) /\ Num(t[j]) = m
  <2>1. i + 1 \in DOMAIN s /\ t[i] = s[i + 1] /\ 1 \in DOMAIN s /\ 1 < i + 1
    BY <1>1
  <2>2. /\ t[i].id = <<c, Num(t[i])>> /\ Num(t[i]) \in Nat
        /\ Num(s[1]) < Num(t[i])
    BY <1>3, <2>1 DEF Gapless
  <2>3. ASSUME NEW j \in DOMAIN t, j < i, IsEvent(t[j])
        PROVE  Num(t[j]) < Num(t[i])
    <3>1. j + 1 \in DOMAIN s /\ t[j] = s[j + 1] /\ j + 1 < i + 1
      BY <1>1, <2>3
    <3> QED BY <1>3, <2>1, <2>3, <3>1 DEF Gapless
  <2>4. ASSUME NEW m \in (lo + 2)..(Num(t[i]) - 1)
        PROVE  \E j \in DOMAIN t : j < i /\ IsEvent(t[j]) /\ Num(t[j]) = m
    <3>1. m \in (lo + 1)..(Num(s[i + 1]) - 1)
      BY <2>1, <2>2
    <3>2. PICK y \in DOMAIN s : y < i + 1 /\ IsEvent(s[y]) /\ Num(s[y]) = m
      BY <1>3, <2>1, <3>1 DEF Gapless
    <3>3. y # 1
      BY <1>2, <3>2
    <3>4. y - 1 \in DOMAIN t /\ t[y - 1] = s[y] /\ y - 1 < i
      <4>1. y - 1 \in 1..(n - 1) /\ (y - 1) + 1 = y
        BY <1>1, <3>3
      <4> QED BY <1>1, <3>2, <4>1
    <3> QED BY <3>2, <3>4
  <2> QED BY <1>2, <2>2, <2>3, <2>4
<1>4. Gapless(c, t, lo + 1)
  <2>1. (lo + 1) + 1 = lo + 2
    OBVIOUS
  <2> QED BY <1>3, <2>1 DEF Gapless
<1>5. ASSUME NEW sent \in Nat, Whole(s, lo, sent)
      PROVE  Whole(t, lo + 1, sent)
  <2>1. lo + 1 <= sent
    BY <1>1, <1>2, <1>5 DEF Whole
  <2>2. ASSUME NEW i \in DOMAIN t, IsEvent(t[i])
        PROVE  Num(t[i]) <= sent
    <3>1. i + 1 \in DOMAIN s /\ t[i] = s[i + 1]
      BY <1>1
    <3> QED BY <1>5, <2>2, <3>1 DEF Whole
  <2>3. ASSUME NEW m \in (lo + 2)..sent
        PROVE  \E j \in DOMAIN t : IsEvent(t[j]) /\ Num(t[j]) = m
    <3>1. PICK y \in DOMAIN s : IsEvent(s[y]) /\ Num(s[y]) = m
      BY <1>5 DEF Whole
    <3>2. y # 1
      BY <1>2, <3>1
    <3>3. y - 1 \in DOMAIN t /\ t[y - 1] = s[y]
      <4>1. y - 1 \in 1..(n - 1) /\ (y - 1) + 1 = y
        BY <1>1, <3>2
      <4> QED BY <1>1, <4>1
    <3> QED BY <3>1, <3>3
  <2>4. (lo + 1) + 1 = lo + 2
    OBVIOUS
  <2> QED BY <2>1, <2>2, <2>3, <2>4 DEF Whole
<1> QED BY <1>2, <1>4, <1>5

(***************************************************************************)
(* A frame is sent: the next event, or none.                               *)
(***************************************************************************)
LEMMA GaplessGrows ==
  ASSUME NEW c, NEW s, NEW t, NEW n \in Nat, NEW lo \in Nat, NEW sent \in Nat,
         Gapless(c, s, lo), Whole(s, lo, sent),
         DOMAIN s = 1..n, DOMAIN t = 1..(n + 1), \A i \in 1..n : t[i] = s[i]
  PROVE  /\ t[n + 1].id = <<c, sent + 1>> /\ IsEvent(t[n + 1])
              => Gapless(c, t, lo) /\ Whole(t, lo, sent + 1)
         /\ ~IsEvent(t[n + 1]) => Gapless(c, t, lo) /\ Whole(t, lo, sent)
<1>1. ASSUME t[n + 1].id = <<c, sent + 1>>, IsEvent(t[n + 1])
      PROVE  Gapless(c, t, lo) /\ Whole(t, lo, sent + 1)
  <2>1. Num(t[n + 1]) = sent + 1
    BY <1>1 DEF Num
  <2> HIDE DEF Num
  <2>2. ASSUME NEW i \in DOMAIN t, IsEvent(t[i])
        PROVE  /\ t[i].id = <<c, Num(t[i])>> /\ Num(t[i]) \in Nat /\ Num(t[i]) > lo
               /\ \A j \in DOMAIN t : j < i /\ IsEvent(t[j]) => Num(t[j]) < Num(t[i])
               /\ \A m \in (lo + 1)..(Num(t[i]) - 1) :
                    \E j \in DOMAIN t : j < i /\ IsEvent(t[j]) /\ Num(t[j]) = m
    <3>1. CASE i \in 1..n
      <4>1. /\ i \in DOMAIN s /\ t[i] = s[i]
            /\ \A j \in DOMAIN s : j \in DOMAIN t /\ t[j] = s[j]
            /\ \A j \in DOMAIN t : j < i => j \in DOMAIN s /\ t[j] = s[j]
        BY <3>1
      <4> QED BY <2>2, <4>1 DEF Gapless
    <3>2. CASE i = n + 1
      <4>1. Num(t[i]) > lo
        BY <2>1, <3>2 DEF Whole
      <4>2. \A j \in DOMAIN t : j < i /\ IsEvent(t[j]) => Num(t[j]) < Num(t[i])
        <5> SUFFICES ASSUME NEW j \in DOMAIN t, j < i, IsEvent(t[j])
                     PROVE  Num(t[j]) < Num(t[i])
          OBVIOUS
        <5>1. j \in 1..n /\ Num(t[j]) \in Nat /\ Num(t[j]) <= sent
          BY <3>2 DEF Gapless, Whole
        <5> QED BY <2>1, <3>2, <5>1
      <4>3. \A m \in (lo + 1)..(Num(t[i]) - 1) :
              \E j \in DOMAIN t : j < i /\ IsEvent(t[j]) /\ Num(t[j]) = m
        <5>1. (lo + 1)..(Num(t[i]) - 1) = (lo + 1)..sent
          BY <2>1, <3>2
        <5> SUFFICES ASSUME NEW m \in (lo + 1)..sent
                     PROVE  \E j \in DOMAIN t : j < i /\ IsEvent(t[j]) /\ Num(t[j]) = m
          BY <5>1
        <5>2. PICK j \in DOMAIN s : IsEvent(s[j]) /\ Num(s[j]) = m
          BY DEF Whole
        <5>3. j \in DOMAIN t /\ j < i /\ t[j] = s[j]
          BY <3>2
        <5> QED BY <5>2, <5>3
      <4> QED BY <1>1, <2>1, <3>2, <4>1, <4>2, <4>3
    <3> QED BY <3>1, <3>2
  <2>3. Gapless(c, t, lo)
    BY <2>2 DEF Gapless
  <2>4. \A i \in DOMAIN t : IsEvent(t[i]) => Num(t[i]) <= sent + 1
    <3> SUFFICES ASSUME NEW i \in DOMAIN t, IsEvent(t[i]) PROVE Num(t[i]) <= sent + 1
      OBVIOUS
    <3>1. CASE i \in 1..n
      BY <3>1 DEF Whole, Gapless
    <3>2. CASE i = n + 1
      BY <2>1, <3>2
    <3> QED BY <3>1, <3>2
  <2>5. ASSUME NEW m \in (lo + 1)..(sent + 1)
        PROVE  \E j \in DOMAIN t : IsEvent(t[j]) /\ Num(t[j]) = m
    <3>1. CASE m = sent + 1
      BY <1>1, <2>1, <3>1
    <3>2. CASE m # sent + 1
      <4>1. m \in (lo + 1)..sent
        BY <3>2
      <4>2. PICK j \in DOMAIN s : IsEvent(s[j]) /\ Num(s[j]) = m
        BY <4>1 DEF Whole
      <4>3. j \in DOMAIN t /\ t[j] = s[j]
        OBVIOUS
      <4> QED BY <4>2, <4>3
    <3> QED BY <3>1, <3>2
  <2>6. lo <= sent + 1
    BY DEF Whole
  <2> QED BY <2>3, <2>4, <2>5, <2>6 DEF Whole
<1>2. ASSUME ~IsEvent(t[n + 1])
      PROVE  Gapless(c, t, lo) /\ Whole(t, lo, sent)
  <2>1. Gapless(c, t, lo)
    <3> HIDE DEF IsEvent, Num
    <3> QED BY <1>2 DEF Gapless
  <2>2. \A i \in DOMAIN t : IsEvent(t[i]) => i \in DOMAIN s /\ t[i] = s[i]
    BY <1>2
  <2>3. \A i \in DOMAIN s : i \in DOMAIN t /\ t[i] = s[i]
    OBVIOUS
  <2>4. Whole(t, lo, sent)
    <3> HIDE DEF IsEvent, Num
    <3> QED BY <2>2, <2>3 DEF Whole
  <2> QED BY <2>1, <2>4
<1> QED BY <1>1, <1>2

-----------------------------------------------------------------------------
(* The inductive invariant of a run *)

ClientShape ==
  /\ client = [conn |-> client.conn, gen |-> client.gen, err |-> client.err,
               fatal |-> client.fatal, await |-> client.await, queue |-> client.queue,
               pending |-> client.pending, connected |-> client.connected,
               delivers |-> client.delivers]
  /\ client.gen \in Nat /\ (client.gen # 0 => client.gen \in Conn)
  /\ client.conn \in {0, client.gen} /\ (client.fatal => client.err # "nil")
  /\ SeqLike(client.queue)

Kinds == {"res", "challenge", "bad", "talk", "tool", "chat"}
OneLink(l) ==
  /\ l = [socket |-> l.socket, peer |-> l.peer, wire |-> l.wire, inbox |-> l.inbox,
          session |-> l.session, sent |-> l.sent, reader |-> l.reader]
  /\ SeqLike(l.wire) /\ l.sent \in Nat
  /\ \A i \in 1..Len(l.wire) : l.wire[i].kind \in Kinds
LinkShape ==
  /\ link = [c \in Conn |-> link[c]]
  /\ \A c \in Conn : OneLink(link[c])

LoopShape ==
  /\ main = [at |-> main.at, err |-> main.err, chunk |-> main.chunk, phase |-> main.phase]
  /\ ev = [at |-> ev.at, err |-> ev.err, audioDone |-> ev.audioDone,
           listening |-> ev.listening, run |-> ev.run, active |-> ev.active,
           completed |-> ev.completed, failed |-> ev.failed, todo |-> ev.todo]
  /\ SeqLike(handled)

(***************************************************************************)
(* processEvents runs only while its session is streamed to or joined, on  *)
(* a client that delivers events; nothing was handled before.              *)
(***************************************************************************)
Control ==
  /\ main.phase = "talk" /\ main.at # "returned" => client.delivers
  /\ main.at \in {"create", "append", "join", "close"} => main.phase = "talk"
  /\ ev.at \notin {"off", "done"} => main.at \in {"append", "join"}
  /\ main.at \in {"connect", "challenge", "auth", "create"} /\ client.delivers =>
       handled = <<>>

(***************************************************************************)
(* One challenge is let into the queue of a connection, and it has left it *)
(* before the client authenticates.                                        *)
(***************************************************************************)
Challenges ==
  LET q == client.queue
      Challenge(i) == q[i].kind = "challenge"
  IN
  /\ \A i \in 1..Len(q) : Challenge(i) \/ IsEvent(q[i])
  /\ client.await => \A i \in 1..Len(q) : ~Challenge(i)
  /\ \A i, j \in 1..Len(q) : Challenge(i) /\ Challenge(j) => i = j
  /\ main.at \in {"auth", "create", "append", "join", "close"} =>
       ~client.await /\ \A i \in 1..Len(q) : ~Challenge(i)

(***************************************************************************)
(* What a client that delivers events has queued, and what is on the wire  *)
(* of its connection, continues what was handled.  While the socket is     *)
(* open, nothing that was sent is missing.                                 *)
(***************************************************************************)
Wire == IF client.conn = 0 THEN <<>> ELSE link[client.conn].wire
Ahead == Flight(client.queue, Wire)
Stream ==
  client.delivers /\ ~client.fatal =>
    /\ Gapless(client.gen, Ahead, Len(handled))
    /\ client.conn # 0 /\ link[client.conn].socket = "open" =>
         Whole(Ahead, Len(handled), link[client.conn].sent)

SequenceInv ==
  ClientShape /\ LinkShape /\ LoopShape /\ Control /\ Challenges /\ Stream /\ InSequence

LEMMA WireLike == ClientShape /\ LinkShape => SeqLike(Wire) /\ SeqLike(client.queue)
  BY EmptyLike DEF ClientShape, LinkShape, OneLink, Wire

(***************************************************************************)
(* The steps that leave the stream of events as it is, cut its end off,    *)
(* add a frame to it, take a frame off the wire, move one to the queue, or *)
(* take one from the queue.                                                *)
(***************************************************************************)
LEMMA StreamKept ==
  ASSUME Stream,
         client'.conn = client.conn, client'.gen = client.gen,
         client'.queue = client.queue, client'.delivers = client.delivers,
         client'.fatal = client.fatal, Len(handled') = Len(handled),
         client.conn # 0 => /\ link'[client.conn].wire = link[client.conn].wire
                            /\ link'[client.conn].sent = link[client.conn].sent
                            /\ link'[client.conn].socket = link[client.conn].socket
  PROVE  Stream'
<1>1. Ahead' = Ahead
  BY DEF Ahead, Wire
<1> HIDE DEF Ahead, Gapless, Whole
<1> QED BY <1>1 DEF Stream

LEMMA StreamCut ==
  ASSUME Stream, ClientShape, LinkShape,
         client'.gen = client.gen, client'.queue = client.queue,
         client'.delivers = client.delivers, ~client'.fatal => ~client.fatal,
         Len(handled') = Len(handled),
         Wire' \in {Wire, <<>>, SubSeq(Wire, 1, IF Wire = <<>> THEN 0 ELSE 1)},
         client'.conn # 0 => link'[client'.conn].socket # "open"
  PROVE  Stream'
<1>1. Begins(Ahead, Ahead')
  <2>1. SeqLike(Wire) /\ SeqLike(client.queue)
    BY WireLike
  <2> HIDE DEF Wire, Begins, SeqLike, Flight
  <2> QED BY <2>1, FlightCut DEF Ahead
<1> SUFFICES ASSUME client'.delivers, ~client'.fatal
             PROVE  Gapless(client'.gen, Ahead', Len(handled'))
  BY DEF Stream
<1>2. Gapless(client.gen, Ahead, Len(handled))
  BY DEF Stream
<1>3. Gapless(client.gen, Ahead', Len(handled))
  BY <1>1, <1>2, GaplessBegins
<1> QED BY <1>3

LEMMA StreamGrows ==
  ASSUME Stream, ClientShape, LinkShape, LoopShape, NEW e, client.conn # 0,
         client'.conn = client.conn, client'.gen = client.gen,
         client'.queue = client.queue, client'.delivers = client.delivers,
         client'.fatal = client.fatal, Len(handled') = Len(handled),
         link[client.conn].socket = "open",
         link'[client.conn].wire = Append(link[client.conn].wire, e),
         \/ /\ IsEvent(e) /\ e.id = <<client.conn, link[client.conn].sent + 1>>
            /\ link'[client.conn].sent = link[client.conn].sent + 1
         \/ ~IsEvent(e) /\ link'[client.conn].sent = link[client.conn].sent
  PROVE  Stream'
<1> DEFINE n == Len(client.queue) + Len(Wire)
           lo == Len(handled)
           sent == link[client.conn].sent
<1>1. SeqLike(Wire) /\ SeqLike(client.queue)
  BY WireLike
<1>2. Wire = link[client.conn].wire /\ Wire' = Append(Wire, e)
  BY DEF Wire
<1>3. /\ n \in Nat /\ DOMAIN Ahead = 1..n /\ DOMAIN Ahead' = 1..(n + 1)
      /\ \A i \in 1..n : Ahead'[i] = Ahead[i]
      /\ Ahead'[n + 1] = e
  <2> HIDE DEF Wire, SeqLike, Flight
  <2>1. Ahead' = Flight(client.queue, Append(Wire, e))
    BY <1>2 DEF Ahead
  <2> DEFINE q == client.queue
             w == Wire
  <2>2. SeqLike(q) /\ SeqLike(w)
    BY <1>1
  <2> HIDE DEF q, w
  <2>3. /\ Len(q) + Len(w) \in Nat
        /\ DOMAIN Flight(q, w) = 1..(Len(q) + Len(w))
        /\ DOMAIN Flight(q, Append(w, e)) = 1..(Len(q) + Len(w) + 1)
        /\ \A i \in 1..(Len(q) + Len(w)) : Flight(q, Append(w, e))[i] = Flight(q, w)[i]
        /\ Flight(q, Append(w, e))[Len(q) + Len(w) + 1] = e
    BY <2>2, FlightGrows
  <2> QED BY <2>1, <2>3 DEF Ahead, q, w
<1>4. lo \in Nat /\ sent \in Nat /\ client.conn = client.gen
  <2>1. lo \in Nat
    BY AppendLike DEF LoopShape
  <2> QED BY <2>1 DEF ClientShape, LinkShape, OneLink
<1> SUFFICES ASSUME client'.delivers, ~client'.fatal
             PROVE  /\ Gapless(client'.gen, Ahead', Len(handled'))
                    /\ Whole(Ahead', Len(handled'), link'[client'.conn].sent)
  BY DEF Stream
<1>5. Gapless(client.gen, Ahead, lo) /\ Whole(Ahead, lo, sent)
  BY DEF Stream
<1> HIDE DEF n, lo, sent, Ahead, Gapless, Whole, IsEvent
<1>6. CASE IsEvent(e) /\ e.id = <<client.conn, sent + 1>> /\ link'[client.conn].sent = sent + 1
  <2>1. Ahead'[n + 1].id = <<client.gen, sent + 1>> /\ IsEvent(Ahead'[n + 1])
    BY <1>3, <1>4, <1>6
  <2>2. Gapless(client.gen, Ahead', lo) /\ Whole(Ahead', lo, sent + 1)
    BY <1>3, <1>4, <1>5, <2>1, GaplessGrows
  <2> QED BY <1>6, <2>2 DEF lo
<1>7. CASE ~IsEvent(e) /\ link'[client.conn].sent = sent
  <2>1. Gapless(client.gen, Ahead', lo) /\ Whole(Ahead', lo, sent)
    BY <1>3, <1>4, <1>5, <1>7, GaplessGrows
  <2> QED BY <1>7, <2>1 DEF lo
<1> QED BY <1>6, <1>7 DEF sent

LEMMA StreamLoses ==
  ASSUME Stream, ClientShape, LinkShape, client.conn # 0,
         client'.conn = client.conn, client'.gen = client.gen,
         client'.queue = client.queue, client'.delivers = client.delivers,
         client'.fatal = client.fatal, Len(handled') = Len(handled),
         link[client.conn].wire # <<>>,
         client.delivers => ~IsEvent(Head(link[client.conn].wire)),
         link'[client.conn].wire = Tail(link[client.conn].wire),
         link'[client.conn].sent = link[client.conn].sent,
         link'[client.conn].socket = link[client.conn].socket
  PROVE  Stream'
<1> DEFINE n == Len(client.queue) + Len(Wire)
           k == Len(client.queue) + 1
           lo == Len(handled)
           sent == link[client.conn].sent
<1>1. SeqLike(Wire) /\ SeqLike(client.queue)
  BY WireLike
<1>2. Wire = link[client.conn].wire /\ Wire' = Tail(Wire) /\ Wire # <<>>
  BY DEF Wire
<1>3. Without(Ahead, Ahead', n, k) /\ Ahead[k] = Head(Wire)
  <2> HIDE DEF Wire, SeqLike, Flight
  <2> QED BY <1>1, <1>2, FlightLoses DEF Ahead
<1> SUFFICES ASSUME client'.delivers, ~client'.fatal
             PROVE  /\ Gapless(client'.gen, Ahead', Len(handled'))
                    /\ link'[client'.conn].socket = "open" =>
                         Whole(Ahead', Len(handled'), link'[client'.conn].sent)
  BY DEF Stream
<1>4. /\ Gapless(client.gen, Ahead, lo)
      /\ link[client.conn].socket = "open" => Whole(Ahead, lo, sent)
  BY DEF Stream
<1>5. ~IsEvent(Ahead[k])
  BY <1>2, <1>3
<1> HIDE DEF n, k, lo, sent, Ahead, Gapless, Whole, IsEvent, Without
<1>6. Gapless(client.gen, Ahead', lo) /\ (Whole(Ahead, lo, sent) => Whole(Ahead', lo, sent))
  BY <1>3, <1>4, <1>5, GaplessWithout
<1> QED BY <1>4, <1>6 DEF lo, sent

LEMMA StreamMoves ==
  ASSUME Stream, ClientShape, LinkShape, client.conn # 0,
         client'.conn = client.conn, client'.gen = client.gen,
         client'.delivers = client.delivers,
         client'.fatal = client.fatal, Len(handled') = Len(handled),
         link[client.conn].wire # <<>>,
         client'.queue = Append(client.queue, Head(link[client.conn].wire)),
         link'[client.conn].wire = Tail(link[client.conn].wire),
         link'[client.conn].sent = link[client.conn].sent,
         link'[client.conn].socket = link[client.conn].socket
  PROVE  Stream'
<1>1. SeqLike(Wire) /\ SeqLike(client.queue)
  BY WireLike
<1>2. /\ Wire = link[client.conn].wire /\ Wire' = Tail(Wire) /\ Wire # <<>>
      /\ client'.queue = Append(client.queue, Head(Wire))
  BY DEF Wire
<1>3. Ahead' = Ahead
  <2> HIDE DEF Wire, SeqLike, Flight
  <2> QED BY <1>1, <1>2, FlightMoves DEF Ahead
<1> HIDE DEF Ahead, Gapless, Whole
<1> QED BY <1>3 DEF Stream

LEMMA StreamTakes ==
  ASSUME Stream, ClientShape, LinkShape, LoopShape, client.queue # <<>>,
         client'.conn = client.conn, client'.gen = client.gen,
         client'.delivers = client.delivers, client'.fatal = client.fatal,
         client'.queue = Tail(client.queue), link' = link,
         \/ ~IsEvent(Head(client.queue)) /\ Len(handled') = Len(handled)
         \/ IsEvent(Head(client.queue)) /\ Len(handled') = Len(handled) + 1
  PROVE  /\ Stream'
         /\ client.delivers /\ ~client.fatal /\ IsEvent(Head(client.queue)) =>
              Head(client.queue).id = <<client.gen, Len(handled) + 1>>
<1> DEFINE n == Len(client.queue) + Len(Wire)
           lo == Len(handled)
           sent == link[client.conn].sent
<1>1. SeqLike(Wire) /\ SeqLike(client.queue)
  BY WireLike
<1>2. Wire' = Wire
  BY DEF Wire
<1>3. Without(Ahead, Ahead', n, 1) /\ Ahead[1] = Head(client.queue)
  <2> HIDE DEF Wire, SeqLike, Flight
  <2> QED BY <1>1, <1>2, FlightTakes DEF Ahead
<1>4. lo \in Nat /\ (client.conn # 0 => sent \in Nat)
  <2>1. lo \in Nat
    BY AppendLike DEF LoopShape
  <2> QED BY <2>1 DEF ClientShape, LinkShape, OneLink
<1>5. ASSUME client.delivers, ~client.fatal
      PROVE  /\ Gapless(client.gen, Ahead, lo)
             /\ client.conn # 0 /\ link[client.conn].socket = "open" => Whole(Ahead, lo, sent)
  BY <1>5 DEF Stream
<1> HIDE DEF n, lo, sent, Ahead, Gapless, Whole, IsEvent, Without
<1>6. CASE ~IsEvent(Head(client.queue)) /\ Len(handled') = lo
  <2> SUFFICES ASSUME client.delivers, ~client.fatal
               PROVE  /\ Gapless(client.gen, Ahead', lo)
                      /\ Whole(Ahead, lo, sent) => Whole(Ahead', lo, sent)
    BY <1>5, <1>6 DEF Stream, sent
  <2> QED BY <1>3, <1>5, <1>6, GaplessWithout
<1>7. CASE IsEvent(Head(client.queue)) /\ Len(handled') = lo + 1
  <2> SUFFICES ASSUME client.delivers, ~client.fatal
               PROVE  /\ Head(client.queue).id = <<client.gen, lo + 1>>
                      /\ Gapless(client.gen, Ahead', lo + 1)
                      /\ sent \in Nat /\ Whole(Ahead, lo, sent) => Whole(Ahead', lo + 1, sent)
    BY <1>4, <1>5, <1>7 DEF Stream, sent, lo
  <2> QED BY <1>3, <1>4, <1>5, <1>7, GaplessHead
<1> QED BY <1>6, <1>7 DEF lo

(***************************************************************************)
(* What most steps do to the client and its connections: nothing that the  *)
(* receiver of the events would notice, but that no more may come.         *)
(***************************************************************************)
Calm ==
  /\ ClientShape' /\ LinkShape' /\ Stream'
  /\ client'.queue = client.queue /\ client'.await = client.await
  /\ client'.delivers = client.delivers

LEMMA Untouched ==
  ASSUME ClientShape, LinkShape, Stream, client' = client, link' = link,
         Len(handled') = Len(handled)
  PROVE  Calm
<1>1. ClientShape' /\ LinkShape'
  BY DEF ClientShape, LinkShape
<1>2. Stream'
  BY StreamKept
<1> QED BY <1>1, <1>2 DEF Calm

LEMMA Booked ==
  ASSUME ClientShape, LinkShape, Stream, NEW x, link' = link, Len(handled') = Len(handled),
         \/ client' = [client EXCEPT !.pending = x]
         \/ client' = [client EXCEPT !.connected = x]
  PROVE  Calm
<1>1. /\ ClientShape' /\ client'.conn = client.conn /\ client'.gen = client.gen
      /\ client'.queue = client.queue /\ client'.delivers = client.delivers
      /\ client'.fatal = client.fatal /\ client'.await = client.await
  BY DEF ClientShape
<1>2. LinkShape'
  BY DEF LinkShape
<1>3. Stream'
  BY <1>1, StreamKept
<1> QED BY <1>1, <1>2, <1>3 DEF Calm

\* Another connection than the client's changes.
LEMMA Elsewhere ==
  ASSUME ClientShape, LinkShape, Stream, client' = client, Len(handled') = Len(handled),
         NEW c \in Conn, c # client.conn,
         link' = [d \in Conn |-> link'[d]], OneLink(link'[c]),
         \A d \in Conn : d # c => link'[d] = link[d]
  PROVE  Calm
<1>1. ClientShape'
  BY DEF ClientShape
<1>2. LinkShape'
  <2>1. \A d \in Conn : OneLink(link'[d])
    BY DEF LinkShape
  <2> QED BY <2>1 DEF LinkShape, OneLink
<1>3. client.conn # 0 => link'[client.conn] = link[client.conn]
  BY DEF ClientShape
<1>4. Stream'
  BY <1>3, StreamKept
<1> QED BY <1>1, <1>2, <1>4 DEF Calm

\* SocketClosed, on the connection of the client
LEMMA ClosedLinks ==
  ASSUME ClientShape, LinkShape
  PROVE  LET closed == SocketClosed(client.conn) IN
         /\ closed = [d \in Conn |-> closed[d]] /\ \A d \in Conn : OneLink(closed[d])
         /\ \A d \in Conn : d # client.conn => closed[d] = link[d]
         /\ client.conn # 0 =>
              /\ closed[client.conn].socket = "closed" /\ closed[client.conn].inbox = {}
              /\ closed[client.conn].wire =
                   SubSeq(link[client.conn].wire, 1,
                          IF link[client.conn].wire = <<>> THEN 0 ELSE 1)
<1> DEFINE closed == SocketClosed(client.conn)
<1>1. CASE client.conn = 0
  BY <1>1 DEF SocketClosed, LinkShape
<1>2. CASE client.conn # 0
  <2> DEFINE c == client.conn
             w == link[c].wire
             v == SubSeq(w, 1, IF w = <<>> THEN 0 ELSE 1)
  <2>1. c \in Conn /\ OneLink(link[c])
    BY <1>2 DEF ClientShape, LinkShape
  <2>2. SeqLike(v) /\ \A i \in 1..Len(v) : v[i].kind \in Kinds
    <3> DEFINE k == IF w = <<>> THEN 0 ELSE 1
    <3>1. SeqLike(w) /\ \A i \in 1..Len(w) : w[i].kind \in Kinds
      BY <2>1 DEF OneLink
    <3>2. k \in {0, 1} /\ k <= Len(w) /\ Len(w) \in Nat
      BY <3>1, TailLike, AppendLike, EmptyLike
    <3> HIDE DEF k, w
    <3>3. SeqLike(SubSeq(w, 1, k)) /\ Len(SubSeq(w, 1, k)) = k
          /\ \A i \in 1..k : SubSeq(w, 1, k)[i] = w[i]
      BY <3>1, <3>2, FirstLike
    <3>4. \A i \in 1..k : SubSeq(w, 1, k)[i].kind \in Kinds
      BY <3>1, <3>2, <3>3
    <3>5. SubSeq(w, 1, k) = v
      BY DEF k
    <3> HIDE DEF v
    <3> QED BY <3>3, <3>4, <3>5
  <2>3. closed = [link EXCEPT ![c].socket = "closed", ![c].peer = FALSE, ![c].inbox = {},
                             ![c].session = FALSE, ![c].sent = 0, ![c].wire = v]
    BY <1>2 DEF SocketClosed
  <2> HIDE DEF c, v, closed
  <2>4. /\ closed[c] = [socket |-> "closed", peer |-> FALSE, wire |-> v, inbox |-> {},
                       session |-> FALSE, sent |-> 0, reader |-> link[c].reader]
        /\ closed = [d \in Conn |-> closed[d]]
        /\ \A d \in Conn : d # c => closed[d] = link[d]
    <3>1. link = [d \in Conn |-> link[d]]
      BY DEF LinkShape
    <3>2. \A d \in Conn : d # c => closed[d] = link[d]
      BY <2>3, <3>1
    <3>3. closed = [d \in Conn |-> closed[d]]
      BY <2>3, <3>1
    <3>4. closed[c] = [link[c] EXCEPT !.socket = "closed", !.peer = FALSE, !.inbox = {},
                                     !.session = FALSE, !.sent = 0, !.wire = v]
      BY <2>1, <2>3, <3>1
    <3>5. link[c] = [socket |-> link[c].socket, peer |-> link[c].peer, wire |-> link[c].wire,
                     inbox |-> link[c].inbox, session |-> link[c].session,
                     sent |-> link[c].sent, reader |-> link[c].reader]
      BY <2>1 DEF OneLink
    <3>6. closed[c] = [socket |-> "closed", peer |-> FALSE, wire |-> v, inbox |-> {},
                      session |-> FALSE, sent |-> 0, reader |-> link[c].reader]
      BY <3>4, <3>5
    <3> QED BY <3>2, <3>3, <3>6
  <2>5. /\ OneLink(closed[c]) /\ closed[c].socket = "closed" /\ closed[c].wire = v
        /\ closed[c].inbox = {}
    BY <2>2, <2>4 DEF OneLink
  <2>6. \A d \in Conn : OneLink(closed[d])
    BY <2>4, <2>5 DEF LinkShape
  <2> QED BY <2>4, <2>5, <2>6 DEF c, v, w, closed
<1> QED BY <1>1, <1>2

LEMMA SocketCloses ==
  ASSUME ClientShape, LinkShape, link' = SocketClosed(client.conn)
  PROVE  /\ LinkShape'
         /\ client.conn # 0 =>
              /\ link'[client.conn].socket = "closed"
              /\ link'[client.conn].wire =
                   SubSeq(link[client.conn].wire, 1,
                          IF link[client.conn].wire = <<>> THEN 0 ELSE 1)
  BY ClosedLinks DEF LinkShape, OneLink

\* Terminated: the client forgets its connection.
LEMMA Terminates ==
  ASSUME ClientShape, NEW err, NEW fatal \in BOOLEAN, err # "nil",
         client' = Terminated(err, fatal)
  PROVE  /\ ClientShape' /\ client'.conn = 0 /\ client'.gen = client.gen
         /\ client'.queue = client.queue /\ client'.await = client.await
         /\ client'.delivers = client.delivers /\ (~client'.fatal => ~client.fatal)
<1>1. client' = [client EXCEPT
                  !.err = IF client.err = "nil" THEN err ELSE client.err,
                  !.fatal = IF client.err = "nil" THEN fatal ELSE client.fatal,
                  !.conn = 0, !.connected = FALSE, !.pending = {}]
  BY DEF Terminated
<1>2. client' = [conn |-> 0, gen |-> client.gen,
                 err |-> IF client.err = "nil" THEN err ELSE client.err,
                 fatal |-> IF client.err = "nil" THEN fatal ELSE client.fatal,
                 await |-> client.await, queue |-> client.queue, pending |-> {},
                 connected |-> FALSE, delivers |-> client.delivers]
  BY <1>1 DEF ClientShape
<1>3. /\ client'.conn = 0 /\ client'.gen = client.gen
      /\ client'.queue = client.queue /\ client'.await = client.await
      /\ client'.delivers = client.delivers
      /\ client'.err = IF client.err = "nil" THEN err ELSE client.err
      /\ client'.fatal = IF client.err = "nil" THEN fatal ELSE client.fatal
  BY <1>2
<1>4. client' = [conn |-> client'.conn, gen |-> client'.gen, err |-> client'.err,
                 fatal |-> client'.fatal, await |-> client'.await,
                 queue |-> client'.queue, pending |-> client'.pending,
                 connected |-> client'.connected, delivers |-> client'.delivers]
  BY <1>2
<1>5. client'.fatal => client'.err # "nil"
  BY <1>3 DEF ClientShape
<1>6. ClientShape'
  BY <1>3, <1>4, <1>5 DEF ClientShape
<1> QED BY <1>3, <1>6 DEF ClientShape

LEMMA Closes ==
  ASSUME ClientShape, LinkShape, Stream, Close, Len(handled') = Len(handled)
  PROVE  Calm
<1>1. /\ ClientShape' /\ client'.conn = 0 /\ client'.gen = client.gen
      /\ client'.queue = client.queue /\ client'.await = client.await
      /\ client'.delivers = client.delivers /\ (~client'.fatal => ~client.fatal)
  BY Terminates DEF Close
<1>2. LinkShape'
  BY SocketCloses DEF Close
<1>3. Wire' = <<>>
  BY <1>1 DEF Wire
<1>4. Stream'
  BY <1>1, <1>3, StreamCut
<1> QED BY <1>1, <1>2, <1>4 DEF Calm

LEMMA Begun ==
  ASSUME ClientShape, LinkShape, Stream, NEW p, NEW method, NEW arg, Begin(p, method, arg),
         Len(handled') = Len(handled)
  PROVE  Calm
<1> DEFINE id == NextId
           q == Request(id, method, arg)
<1>1. \/ client' = client /\ link' = link
      \/ client.conn # 0 /\ client' = client /\ link' = SocketClosed(client.conn)
      \/ /\ client.conn # 0 /\ client' = [client EXCEPT !.pending = @ \cup {id}]
         /\ link' = Arrives(link, client.conn, q)
  BY DEF Begin, SendFails
<1>2. CASE client' = client /\ link' = link
  BY <1>2, Untouched
<1>3. CASE client.conn # 0 /\ client' = client /\ link' = SocketClosed(client.conn)
  <2>1. /\ LinkShape' /\ link'[client.conn].socket = "closed"
        /\ link'[client.conn].wire = SubSeq(link[client.conn].wire, 1,
             IF link[client.conn].wire = <<>> THEN 0 ELSE 1)
    BY <1>3, SocketCloses
  <2>2. Wire' = SubSeq(Wire, 1, IF Wire = <<>> THEN 0 ELSE 1)
    BY <1>3, <2>1 DEF Wire
  <2>3. ClientShape'
    BY <1>3 DEF ClientShape
  <2>4. Stream'
    BY <1>3, <2>1, <2>2, StreamCut
  <2> QED BY <1>3, <2>1, <2>3, <2>4 DEF Calm
<1>4. CASE /\ client.conn # 0 /\ client' = [client EXCEPT !.pending = @ \cup {id}]
           /\ link' = Arrives(link, client.conn, q)
  <2> DEFINE c == client.conn
  <2> HIDE DEF q, id
  <2>1. c \in Conn /\ OneLink(link[c]) /\ link = [d \in Conn |-> link[d]]
    BY <1>4 DEF ClientShape, LinkShape
  <2>2. /\ link' = [d \in Conn |-> link'[d]]
        /\ \A d \in Conn : d # c => link'[d] = link[d]
        /\ link'[c] = [link[c] EXCEPT !.inbox = @ \cup {q}]
    BY <1>4, <2>1 DEF Arrives
  <2>3. /\ OneLink(link'[c]) /\ link'[c].wire = link[c].wire
        /\ link'[c].sent = link[c].sent /\ link'[c].socket = link[c].socket
    BY <2>1, <2>2 DEF OneLink
  <2>4. \A d \in Conn : OneLink(link'[d])
    BY <2>2, <2>3 DEF LinkShape
  <2>5. LinkShape'
    BY <2>2, <2>4 DEF LinkShape, OneLink
  <2>6. /\ ClientShape' /\ client'.conn = client.conn /\ client'.gen = client.gen
        /\ client'.queue = client.queue /\ client'.delivers = client.delivers
        /\ client'.fatal = client.fatal /\ client'.await = client.await
    BY <1>4 DEF ClientShape
  <2>7. Stream'
    BY <2>3, <2>6, StreamKept
  <2> QED BY <2>5, <2>6, <2>7 DEF Calm
<1> QED BY <1>1, <1>2, <1>3, <1>4

\* The reader of c ends; when c is current, so does the connection.
LEMMA GoneLink == OneLink(Gone)
<1> DEFINE w == <<>>
           u == [socket |-> "unused", peer |-> FALSE, wire |-> w, inbox |-> {},
                 session |-> FALSE, sent |-> 0, reader |-> "off"]
<1>1. Gone = [u EXCEPT !.socket = "closed"] /\ SeqLike(w) /\ Len(w) = 0
  BY EmptyLike DEF Gone, Unused
<1> HIDE DEF w
<1>2. Gone = [socket |-> "closed", peer |-> FALSE, wire |-> w, inbox |-> {},
              session |-> FALSE, sent |-> 0, reader |-> "off"]
  BY <1>1
<1>3. /\ Gone.wire = w /\ Gone.sent = 0
      /\ Gone = [socket |-> Gone.socket, peer |-> Gone.peer, wire |-> Gone.wire,
                 inbox |-> Gone.inbox, session |-> Gone.session, sent |-> Gone.sent,
                 reader |-> Gone.reader]
  BY <1>2
<1> QED BY <1>1, <1>3 DEF OneLink

LEMMA Fails ==
  ASSUME ClientShape, LinkShape, Stream, Len(handled') = Len(handled),
         NEW c \in Conn, NEW err, NEW fatal \in BOOLEAN, err # "nil",
         FailTransport(c, err, fatal) \/ (c # client.conn /\ ReaderEnds(c))
  PROVE  Calm
<1>1. link' = [link EXCEPT ![c] = Gone]
  BY DEF FailTransport, ReaderEnds
<1>2. /\ link' = [d \in Conn |-> link'[d]] /\ link'[c] = Gone
      /\ \A d \in Conn : d # c => link'[d] = link[d]
  BY <1>1 DEF LinkShape
<1>3. CASE c # client.conn
  <2>1. client' = client
    BY <1>3 DEF FailTransport, ReaderEnds, Current
  <2>2. OneLink(link'[c])
    BY <1>2, GoneLink
  <2> QED BY <1>2, <1>3, <2>1, <2>2, Elsewhere
<1>4. CASE c = client.conn
  <2>1. client' = Terminated(err, fatal)
    BY <1>4 DEF FailTransport, Current
  <2>2. /\ ClientShape' /\ client'.conn = 0 /\ client'.gen = client.gen
        /\ client'.queue = client.queue /\ client'.await = client.await
        /\ client'.delivers = client.delivers /\ (~client'.fatal => ~client.fatal)
    BY <2>1, Terminates
  <2>3. Wire' = <<>>
    BY <2>2 DEF Wire
  <2>4. Stream'
    BY <2>2, <2>3, StreamCut
  <2>5. \A d \in Conn : OneLink(link'[d])
    BY <1>2, GoneLink DEF LinkShape
  <2>6. LinkShape'
    BY <1>2, <2>5 DEF LinkShape, OneLink
  <2> QED BY <2>2, <2>4, <2>6 DEF Calm
<1> QED BY <1>3, <1>4

\* The Gateway puts a frame on the wire of c.
LEMMA SentOn ==
  ASSUME ClientShape, LinkShape, LoopShape, Stream, client' = client,
         Len(handled') = Len(handled), NEW c \in Conn, NEW e, e.kind \in Kinds,
         link[c].socket = "open",
         link' = [d \in Conn |-> link'[d]], \A d \in Conn : d # c => link'[d] = link[d],
         link'[c] = [socket |-> "open", peer |-> link'[c].peer,
                     wire |-> Append(link[c].wire, e), inbox |-> link'[c].inbox,
                     session |-> link'[c].session, sent |-> link'[c].sent,
                     reader |-> link'[c].reader],
         \/ /\ IsEvent(e) /\ e.id = <<c, link[c].sent + 1>>
            /\ link'[c].sent = link[c].sent + 1
         \/ ~IsEvent(e) /\ link'[c].sent = link[c].sent
  PROVE  Calm
<1>1. OneLink(link[c])
  BY DEF LinkShape
<1>2. link'[c].wire = Append(link[c].wire, e) /\ link'[c].socket = "open"
  OBVIOUS
<1>3. OneLink(link'[c])
  <2> DEFINE w == link[c].wire
  <2>1. SeqLike(w) /\ link[c].sent \in Nat /\ \A i \in 1..Len(w) : w[i].kind \in Kinds
    BY <1>1 DEF OneLink
  <2>2. link'[c].sent \in Nat
    BY <2>1
  <2> HIDE DEF w
  <2>3. /\ SeqLike(Append(w, e)) /\ Len(w) \in Nat /\ Len(Append(w, e)) = Len(w) + 1
        /\ \A i \in 1..Len(w) : Append(w, e)[i] = w[i]
        /\ Append(w, e)[Len(w) + 1] = e
    BY <2>1, AppendLike
  <2>4. \A i \in 1..Len(Append(w, e)) : Append(w, e)[i].kind \in Kinds
    <3> SUFFICES ASSUME NEW i \in 1..Len(Append(w, e)) PROVE Append(w, e)[i].kind \in Kinds
      OBVIOUS
    <3>1. CASE i \in 1..Len(w)
      BY <2>1, <2>3, <3>1
    <3>2. CASE i = Len(w) + 1
      BY <2>3, <3>2
    <3> QED BY <2>3, <3>1, <3>2
  <2>5. link'[c].wire = Append(w, e)
    BY <1>2 DEF w
  <2> QED BY <2>2, <2>3, <2>4, <2>5 DEF OneLink
<1>4. CASE c # client.conn
  BY <1>3, <1>4, Elsewhere
<1>5. CASE c = client.conn
  <2>1. c # 0
    BY DEF Conn
  <2>2. Stream'
    BY <1>2, <1>5, <2>1, StreamGrows
  <2>3. \A d \in Conn : OneLink(link'[d])
    BY <1>3 DEF LinkShape
  <2>4. LinkShape'
    BY <2>3 DEF LinkShape, OneLink
  <2>5. ClientShape'
    BY DEF ClientShape
  <2> QED BY <2>2, <2>4, <2>5 DEF Calm
<1> QED BY <1>4, <1>5

LEMMA ReadOn ==
  ASSUME NEW l, OneLink(l), l.wire # <<>>, NEW m, m = [l EXCEPT !.wire = Tail(@)]
  PROVE  OneLink(m) /\ m.wire = Tail(l.wire) /\ m.sent = l.sent /\ m.socket = l.socket
<1> DEFINE w == l.wire
           t == Tail(w)
<1>1. SeqLike(t) /\ \A i \in 1..Len(t) : t[i].kind \in Kinds
  <2>1. SeqLike(w) /\ w # <<>> /\ \A i \in 1..Len(w) : w[i].kind \in Kinds
    BY DEF OneLink
  <2> HIDE DEF w
  <2>2. /\ SeqLike(Tail(w)) /\ Len(w) \in Nat \ {0} /\ Len(Tail(w)) = Len(w) - 1
        /\ \A i \in 1..(Len(w) - 1) : Tail(w)[i] = w[i + 1]
    BY <2>1, TailLike
  <2> HIDE DEF t
  <2>3. SeqLike(t) /\ Len(t) = Len(w) - 1 /\ \A i \in 1..(Len(w) - 1) : t[i] = w[i + 1]
    BY <2>2 DEF t
  <2> QED BY <2>1, <2>2, <2>3
<1>2. m = [l EXCEPT !.wire = t]
  OBVIOUS
<1> HIDE DEF t
<1>3. /\ m = [socket |-> l.socket, peer |-> l.peer, wire |-> t, inbox |-> l.inbox,
              session |-> l.session, sent |-> l.sent, reader |-> l.reader]
  BY <1>2 DEF OneLink
<1>4. m.wire = t /\ m.sent = l.sent /\ m.socket = l.socket
  BY <1>3
<1>5. m = [socket |-> m.socket, peer |-> m.peer, wire |-> m.wire, inbox |-> m.inbox,
           session |-> m.session, sent |-> m.sent, reader |-> m.reader]
  BY <1>3
<1>6. l.sent \in Nat
  BY DEF OneLink
<1>7. OneLink(m)
  BY <1>1, <1>4, <1>5, <1>6 DEF OneLink
<1> QED BY <1>4, <1>7 DEF t

\* The reader passes over a frame that is no event to the client.
LEMMA PassesOver ==
  ASSUME ClientShape, LinkShape, Stream, Len(handled') = Len(handled), client' = client,
         NEW c \in Conn, c = client.conn, link[c].wire # <<>>, ReadsOn(c),
         client.delivers => ~IsEvent(Head(link[c].wire))
  PROVE  Calm
<1>1. OneLink(link[c]) /\ link = [d \in Conn |-> link[d]] /\ c # 0
  BY DEF LinkShape, Conn
<1>2. /\ link' = [d \in Conn |-> link'[d]]
      /\ \A d \in Conn : d # c => link'[d] = link[d]
      /\ link'[c] = [link[c] EXCEPT !.wire = Tail(@)]
  BY <1>1 DEF ReadsOn
<1>3. OneLink(link'[c]) /\ link'[c].wire = Tail(link[c].wire)
      /\ link'[c].sent = link[c].sent /\ link'[c].socket = link[c].socket
  BY <1>1, <1>2, ReadOn
<1>4. \A d \in Conn : OneLink(link'[d])
  BY <1>2, <1>3 DEF LinkShape
<1>5. LinkShape' /\ ClientShape'
  BY <1>2, <1>4 DEF LinkShape, OneLink, ClientShape
<1>6. Stream'
  BY <1>1, <1>3, StreamLoses
<1> QED BY <1>5, <1>6 DEF Calm

\* The reader queues the frame at the head of the wire.
LEMMA Queues ==
  ASSUME ClientShape, LinkShape, Stream, Len(handled') = Len(handled),
         NEW c \in Conn, NEW await, c = client.conn, link[c].wire # <<>>, ReadsOn(c),
         client' = [client EXCEPT !.queue = Append(@, Head(link[c].wire)), !.await = await]
  PROVE  /\ ClientShape' /\ LinkShape' /\ Stream'
         /\ client'.queue = Append(client.queue, Head(link[c].wire))
         /\ client'.await = await /\ client'.delivers = client.delivers
<1>1. OneLink(link[c]) /\ link = [d \in Conn |-> link[d]] /\ c # 0
  BY DEF LinkShape, Conn
<1>2. /\ link' = [d \in Conn |-> link'[d]]
      /\ \A d \in Conn : d # c => link'[d] = link[d]
      /\ link'[c] = [link[c] EXCEPT !.wire = Tail(@)]
  BY <1>1 DEF ReadsOn
<1>3. OneLink(link'[c]) /\ link'[c].wire = Tail(link[c].wire)
      /\ link'[c].sent = link[c].sent /\ link'[c].socket = link[c].socket
  BY <1>1, <1>2, ReadOn
<1>4. \A d \in Conn : OneLink(link'[d])
  BY <1>2, <1>3 DEF LinkShape
<1>5. LinkShape'
  BY <1>2, <1>4 DEF LinkShape, OneLink
<1> DEFINE q == Append(client.queue, Head(link[c].wire))
<1>6. SeqLike(q)
  BY AppendLike DEF ClientShape
<1> HIDE DEF q
<1>7. client' = [client EXCEPT !.queue = q, !.await = await]
  BY DEF q
<1>8. /\ ClientShape' /\ client'.conn = client.conn /\ client'.gen = client.gen
      /\ client'.queue = q /\ client'.delivers = client.delivers
      /\ client'.fatal = client.fatal /\ client'.await = await
  BY <1>6, <1>7 DEF ClientShape
<1>9. client'.queue = Append(client.queue, Head(link[client.conn].wire))
  BY <1>8 DEF q
<1>10. Stream'
  BY <1>1, <1>3, <1>8, <1>9, StreamMoves
<1> QED BY <1>5, <1>8, <1>9, <1>10

Session == {"auth", "create", "append", "join", "close"}

(***************************************************************************)
(* A step that is calm leaves the challenges and what was handled alone.   *)
(***************************************************************************)
LEMMA CalmStep ==
  ASSUME SequenceInv, Calm, LoopShape', Control', handled' = handled,
         main'.at \in Session => main.at \in Session
  PROVE  SequenceInv'
<1>1. Challenges'
  BY DEF SequenceInv, Calm, Challenges, Session
<1>2. InSequence'
  BY DEF SequenceInv, InSequence
<1> QED BY <1>1, <1>2 DEF SequenceInv, Calm

\* The main goroutine moves to a, and may fail; or it stays where it is.
Moves(a) == Goto(a) \/ Fail(a)
LEMMA Moved ==
  ASSUME LoopShape, NEW a, Moves(a), UNCHANGED <<ev, handled>>
  PROVE  LoopShape' /\ main'.at = a /\ main'.phase = main.phase
  BY DEF LoopShape, Moves, Goto, Fail

LEMMA Leaves ==
  ASSUME SequenceInv, Calm, NEW a, Moves(a), UNCHANGED <<ev, handled>>,
         a \in {"leave", "returned", "connect"},
         a = "connect" => main.at \in {"connect", "challenge"},
         main.at \notin {"append", "join", "returned"}
  PROVE  SequenceInv'
<1>1. LoopShape' /\ main'.at = a /\ main'.phase = main.phase
  BY Moved DEF SequenceInv
<1>2. Control'
  BY <1>1 DEF SequenceInv, Control, Calm
<1> QED BY <1>1, <1>2, CalmStep DEF Session

LEMMA Stays ==
  ASSUME SequenceInv, Calm, main' = main, handled' = handled,
         LoopShape', ev'.at \in {"off", "done"} \/ ev.at \notin {"off", "done"}
  PROVE  SequenceInv'
<1>1. Control'
  BY DEF SequenceInv, Control, Calm
<1> QED BY <1>1, CalmStep

LEMMA Rests ==
  ASSUME SequenceInv, Calm, UNCHANGED <<main, ev, handled>>
  PROVE  SequenceInv'
<1>1. LoopShape'
  BY DEF SequenceInv, LoopShape
<1>2. ev'.at \in {"off", "done"} \/ ev.at \notin {"off", "done"}
  OBVIOUS
<1> QED BY <1>1, <1>2, Stays

-----------------------------------------------------------------------------
(* The main goroutine *)

LEMMA DialKeeps == SequenceInv /\ main.at = "connect" /\ Dial /\ Goto("challenge")
                   /\ UNCHANGED <<ev, handled>> => SequenceInv'
<1> SUFFICES ASSUME SequenceInv, main.at = "connect", Dial, Goto("challenge"),
                    UNCHANGED <<ev, handled>>
             PROVE  SequenceInv'
  OBVIOUS
<1> DEFINE c == client.gen + 1
           none == <<>>
           l == [Unused EXCEPT !.socket = "open", !.peer = TRUE, !.reader = "reading"]
<1>0. SeqLike(none) /\ Len(none) = 0 /\ none = <<>>
  BY EmptyLike
<1> HIDE DEF none
<1>1. /\ client.gen \in Nat /\ c \in Conn /\ c # 0
      /\ client' = [client EXCEPT !.conn = c, !.gen = c, !.err = "nil", !.fatal = FALSE,
                      !.await = TRUE, !.queue = none, !.pending = {}, !.connected = FALSE]
      /\ link' = [SocketClosed(client.conn) EXCEPT ![c] = l]
  BY <1>0 DEF Dial, SequenceInv, ClientShape, Conn
<1> HIDE DEF c
<1>2. client' = [conn |-> c, gen |-> c, err |-> "nil", fatal |-> FALSE, await |-> TRUE,
                 queue |-> none, pending |-> {}, connected |-> FALSE,
                 delivers |-> client.delivers]
  BY <1>1 DEF SequenceInv, ClientShape
<1>3. /\ client'.conn = c /\ client'.gen = c /\ client'.fatal = FALSE /\ client'.await = TRUE
      /\ client'.queue = none /\ client'.delivers = client.delivers
      /\ client' = [conn |-> client'.conn, gen |-> client'.gen, err |-> client'.err,
                    fatal |-> client'.fatal, await |-> client'.await,
                    queue |-> client'.queue, pending |-> client'.pending,
                    connected |-> client'.connected, delivers |-> client'.delivers]
  BY <1>2
<1>4. ClientShape'
  <2>1. c \in Nat
    BY <1>1 DEF c
  <2> QED BY <1>0, <1>1, <1>3, <2>1 DEF ClientShape
<1>5. /\ l.socket = "open" /\ l.wire = none /\ l.sent = 0
      /\ l = [socket |-> l.socket, peer |-> l.peer, wire |-> l.wire, inbox |-> l.inbox,
              session |-> l.session, sent |-> l.sent, reader |-> l.reader]
  <2> DEFINE u == [socket |-> "unused", peer |-> FALSE, wire |-> none, inbox |-> {},
                   session |-> FALSE, sent |-> 0, reader |-> "off"]
  <2>1. l = [u EXCEPT !.socket = "open", !.peer = TRUE, !.reader = "reading"]
    BY <1>0 DEF Unused
  <2> HIDE DEF l
  <2>2. l = [socket |-> "open", peer |-> TRUE, wire |-> none, inbox |-> {},
             session |-> FALSE, sent |-> 0, reader |-> "reading"]
    BY <2>1
  <2> QED BY <2>2
<1> HIDE DEF l
<1>6. OneLink(l)
  BY <1>0, <1>5 DEF OneLink
<1>7. SocketClosed(client.conn) = [d \in Conn |-> SocketClosed(client.conn)[d]]
      /\ \A d \in Conn : OneLink(SocketClosed(client.conn)[d])
  BY ClosedLinks DEF SequenceInv
<1>8. /\ link' = [d \in Conn |-> link'[d]] /\ link'[c] = l
      /\ \A d \in Conn : d # c => link'[d] = SocketClosed(client.conn)[d]
  BY <1>1, <1>7
<1>9. \A d \in Conn : OneLink(link'[d])
  BY <1>6, <1>7, <1>8
<1>10. LinkShape'
  BY <1>8, <1>9 DEF LinkShape, OneLink
<1>11. LoopShape' /\ main'.at = "challenge" /\ main'.phase = main.phase
  BY Moved DEF SequenceInv, Moves
<1>12. Control'
  BY <1>3, <1>11 DEF SequenceInv, Control
<1>13. Challenges'
  BY <1>0, <1>3, <1>11 DEF Challenges
<1>14. Stream'
  <2> SUFFICES ASSUME client'.delivers
               PROVE  /\ Gapless(client'.gen, Ahead', Len(handled'))
                      /\ Whole(Ahead', Len(handled'), link'[client'.conn].sent)
    BY DEF Stream
  <2>1. Len(handled') = 0
    BY <1>0, <1>3 DEF SequenceInv, Control
  <2>2. Wire' = none /\ link'[client'.conn].sent = 0
    BY <1>1, <1>3, <1>5, <1>8 DEF Wire
  <2>3. DOMAIN Ahead' = {}
    BY <1>0, <1>3, <2>2 DEF Ahead, Flight
  <2>4. Gapless(client'.gen, Ahead', Len(handled'))
    BY <2>3 DEF Gapless
  <2>5. Whole(Ahead', 0, 0)
    BY <2>3 DEF Whole
  <2> QED BY <2>1, <2>2, <2>4, <2>5
<1>15. InSequence'
  BY DEF SequenceInv, InSequence
<1> QED BY <1>4, <1>10, <1>11, <1>12, <1>13, <1>14, <1>15 DEF SequenceInv

LEMMA ConnectKeeps == SequenceInv /\ ConnectOnce => SequenceInv'
<1> SUFFICES ASSUME SequenceInv, ConnectOnce PROVE SequenceInv'
  OBVIOUS
<1>1. CASE DialFails /\ Retry
  <2>1. Calm
    BY <1>1, Closes DEF SequenceInv, ConnectOnce, DialFails, MainOnly
  <2>2. Moves("leave") \/ Moves("connect")
    BY <1>1 DEF Retry, Moves
  <2> QED BY <2>1, <2>2, Leaves DEF ConnectOnce, MainOnly
<1>2. CASE Dial /\ Goto("challenge")
  BY <1>2, DialKeeps DEF ConnectOnce, MainOnly
<1> QED BY <1>1, <1>2 DEF ConnectOnce

\* A frame is taken from the queue.
LEMMA ReleasedClient ==
  ASSUME ClientShape, client' = Released, client.queue # <<>>
  PROVE  /\ ClientShape' /\ client'.conn = client.conn /\ client'.gen = client.gen
         /\ client'.queue = Tail(client.queue) /\ client'.await = client.await
         /\ client'.delivers = client.delivers /\ client'.fatal = client.fatal
<1> DEFINE t == Tail(client.queue)
<1>1. SeqLike(t)
  BY TailLike DEF ClientShape
<1>2. client' = [client EXCEPT !.queue = t]
  BY DEF Released
<1> HIDE DEF t
<1>3. /\ ClientShape' /\ client'.conn = client.conn /\ client'.gen = client.gen
      /\ client'.queue = t /\ client'.await = client.await
      /\ client'.delivers = client.delivers /\ client'.fatal = client.fatal
  BY <1>1, <1>2 DEF ClientShape
<1> QED BY <1>3 DEF t

\* Before it the queue held at most one challenge, which was its head or is
\* still there.
LEMMA ChallengesAfter ==
  ASSUME ClientShape, Challenges, client.queue # <<>>,
         client'.queue = Tail(client.queue), client'.await = client.await,
         \/ main'.at \in Session => main.at \in Session
         \/ Head(client.queue).kind = "challenge"
  PROVE  Challenges'
<1> DEFINE q == client.queue
           t == Tail(q)
<1>1. /\ Len(q) \in Nat \ {0} /\ Len(t) = Len(q) - 1 /\ Head(q) = q[1]
      /\ \A i \in 1..(Len(q) - 1) : t[i] = q[i + 1]
  BY TailLike DEF ClientShape
<1>2. \A i \in 1..Len(t) : i + 1 \in 1..Len(q) /\ t[i] = q[i + 1]
  BY <1>1
<1> HIDE DEF t, IsEvent
<1>3. \A i \in 1..Len(t) : t[i].kind = "challenge" \/ IsEvent(t[i])
  BY <1>2 DEF Challenges
<1>4. client.await => \A i \in 1..Len(t) : t[i].kind # "challenge"
  BY <1>2 DEF Challenges
<1>5. \A i, j \in 1..Len(t) : t[i].kind = "challenge" /\ t[j].kind = "challenge" => i = j
  <2> SUFFICES ASSUME NEW i \in 1..Len(t), NEW j \in 1..Len(t), t[i].kind = "challenge",
                      t[j].kind = "challenge"
               PROVE  i = j
    OBVIOUS
  <2>1. i + 1 = j + 1
    BY <1>2 DEF Challenges
  <2> QED BY <1>1, <2>1
<1>6. Head(q).kind = "challenge" =>
        ~client.await /\ \A i \in 1..Len(t) : t[i].kind # "challenge"
  <2> SUFFICES ASSUME q[1].kind = "challenge"
               PROVE  ~client.await /\ \A i \in 1..Len(t) : t[i].kind # "challenge"
    BY <1>1
  <2>1. 1 \in 1..Len(q)
    BY <1>1
  <2>2. ~client.await
    BY <2>1 DEF Challenges
  <2>3. ASSUME NEW i \in 1..Len(t) PROVE t[i].kind # "challenge"
    <3>1. i + 1 \in 1..Len(q) /\ t[i] = q[i + 1] /\ i + 1 # 1
      BY <1>1, <1>2
    <3> QED BY <2>1, <3>1 DEF Challenges
  <2> QED BY <2>2, <2>3
<1>7. main'.at \in Session =>
        ~client.await /\ \A i \in 1..Len(t) : t[i].kind # "challenge"
  <2>1. CASE main.at \in Session
    BY <1>2, <2>1 DEF Challenges, Session
  <2> QED BY <1>6, <2>1
<1>8. client'.queue = t
  BY DEF t
<1> QED BY <1>3, <1>4, <1>5, <1>7, <1>8 DEF Challenges, Session

LEMMA ChallengeKeeps == SequenceInv /\ AwaitChallenge => SequenceInv'
<1> SUFFICES ASSUME SequenceInv, AwaitChallenge PROVE SequenceInv'
  OBVIOUS
<1>1. CASE /\ RecvReady /\ Received.kind = "challenge" /\ client' = Released
           /\ UNCHANGED <<link, call, ended>> /\ (Goto("auth") \/ Fail("leave"))
  <2>1. client.queue # <<>> /\ Head(client.queue).kind = "challenge" /\ link' = link
    BY <1>1 DEF RecvReady, Received
  <2>2. /\ ClientShape' /\ client'.conn = client.conn /\ client'.gen = client.gen
        /\ client'.queue = Tail(client.queue) /\ client'.await = client.await
        /\ client'.delivers = client.delivers /\ client'.fatal = client.fatal
    BY <1>1, <2>1, ReleasedClient DEF SequenceInv
  <2>3. LinkShape'
    BY <2>1 DEF SequenceInv, LinkShape
  <2>4. \E a \in {"auth", "leave"} : Moves(a)
    BY <1>1 DEF Moves
  <2>5. PICK a \in {"auth", "leave"} : Moves(a)
    BY <2>4
  <2>6. LoopShape' /\ main'.at = a /\ main'.phase = main.phase
    BY <2>5, Moved DEF SequenceInv, AwaitChallenge, MainOnly
  <2>7. Control'
    BY <2>2, <2>6 DEF SequenceInv, Control, AwaitChallenge, MainOnly
  <2>8. Challenges'
    BY <2>1, <2>2, ChallengesAfter DEF SequenceInv
  <2>9. Stream'
    <3>1. ~IsEvent(Head(client.queue)) /\ Len(handled') = Len(handled)
      BY <2>1 DEF IsEvent, AwaitChallenge, MainOnly
    <3> QED BY <2>1, <2>2, <3>1, StreamTakes DEF SequenceInv
  <2>10. InSequence'
    BY DEF SequenceInv, InSequence, AwaitChallenge, MainOnly
  <2> QED BY <2>2, <2>3, <2>6, <2>7, <2>8, <2>9, <2>10 DEF SequenceInv
<1>2. CASE Close /\ Retry
  <2>1. Calm
    BY <1>2, Closes DEF SequenceInv, AwaitChallenge, MainOnly
  <2>2. Moves("leave") \/ Moves("connect")
    BY <1>2 DEF Retry, Moves
  <2> QED BY <2>1, <2>2, Leaves DEF AwaitChallenge, MainOnly
<1> QED BY <1>1, <1>2 DEF AwaitChallenge

LEMMA AuthenticateKeeps == SequenceInv /\ Authenticate => SequenceInv'
<1> SUFFICES ASSUME SequenceInv, Authenticate PROVE SequenceInv'
  OBVIOUS
<1>0. UNCHANGED <<ev, handled>> /\ main.at = "auth"
  BY DEF Authenticate, MainOnly
<1>1. CASE Begin("main", "connect", 0) /\ UNCHANGED main
  BY <1>0, <1>1, Begun, Rests DEF SequenceInv
<1>2. CASE /\ UNCHANGED <<link, ended>>
           /\ client' = [client EXCEPT !.connected = TRUE] \/ UNCHANGED client
           /\ Goto(IF main.phase = "talk" THEN "create" ELSE "agent") \/ Fail("leave")
  <2>1. Calm
    <3>1. CASE client' = [client EXCEPT !.connected = TRUE]
      BY <1>0, <1>2, <3>1, Booked DEF SequenceInv
    <3>2. CASE client' = client
      BY <1>0, <1>2, <3>2, Untouched DEF SequenceInv
    <3> QED BY <1>2, <3>1, <3>2
  <2>2. CASE Fail("leave")
    BY <1>0, <2>1, <2>2, Leaves DEF Moves
  <2>3. CASE Goto(IF main.phase = "talk" THEN "create" ELSE "agent")
    <3> DEFINE a == IF main.phase = "talk" THEN "create" ELSE "agent"
    <3>1. LoopShape' /\ main'.at = a /\ main'.phase = main.phase
      BY <1>0, <2>3, Moved DEF SequenceInv, Moves
    <3>2. Control'
      BY <1>0, <2>1, <3>1 DEF SequenceInv, Control, Calm
    <3> QED BY <1>0, <2>1, <3>1, <3>2, CalmStep DEF Session
  <2> QED BY <1>2, <2>2, <2>3
<1> QED BY <1>1, <1>2 DEF Authenticate

LEMMA CreateKeeps == SequenceInv /\ CreateSession => SequenceInv'
<1> SUFFICES ASSUME SequenceInv, CreateSession PROVE SequenceInv'
  OBVIOUS
<1>0. UNCHANGED handled /\ main.at = "create"
  BY DEF CreateSession
<1>1. CASE Begin("main", "create", 0) /\ UNCHANGED <<main, ev>>
  BY <1>0, <1>1, Begun, Rests DEF SequenceInv
<1>2. CASE /\ UNCHANGED <<client, link, ended>>
           /\ LoadAudio \/ (Fail("leave") /\ UNCHANGED ev)
  <2>1. Calm
    BY <1>0, <1>2, Untouched DEF SequenceInv
  <2>2. CASE Fail("leave") /\ UNCHANGED ev
    BY <1>0, <2>1, <2>2, Leaves DEF Moves
  <2>3. CASE Fail(WayOut) /\ UNCHANGED ev
    <3> DEFINE a == WayOut
    <3>1. a \in {"close", "leave"}
      BY DEF WayOut
    <3>2. Moves(a)
      BY <2>3 DEF Moves
    <3> HIDE DEF a
    <3>3. LoopShape' /\ main'.at = a /\ main'.phase = main.phase
      BY <1>0, <2>3, <3>2, Moved DEF SequenceInv
    <3>4. Control'
      BY <1>0, <2>1, <2>3, <3>1, <3>3 DEF SequenceInv, Control, Calm
    <3> QED BY <1>0, <2>1, <3>3, <3>4, CalmStep DEF Session
  <2>4. CASE Goto("append") /\ ev' = [NotListening EXCEPT !.at = "recv"]
    <3>1. main'.at = "append" /\ main'.phase = main.phase /\ LoopShape'
      BY <1>0, <2>4 DEF Goto, SequenceInv, LoopShape, NotListening
    <3>2. Control'
      BY <1>0, <2>1, <3>1 DEF SequenceInv, Control, Calm
    <3> QED BY <1>0, <2>1, <3>1, <3>2, CalmStep DEF Session
  <2> QED BY <1>2, <2>2, <2>3, <2>4 DEF LoadAudio
<1> QED BY <1>1, <1>2 DEF CreateSession

LEMMA AppendKeeps == SequenceInv /\ AppendAudio => SequenceInv'
<1> SUFFICES ASSUME SequenceInv, AppendAudio PROVE SequenceInv'
  OBVIOUS
<1>0. UNCHANGED handled /\ main.at = "append"
  BY DEF AppendAudio
<1>1. CASE Begin("main", "append", 0) /\ UNCHANGED <<main, ev>>
  BY <1>0, <1>1, Begun, Rests DEF SequenceInv
<1>2. CASE /\ UNCHANGED <<client, link>>
           /\ \E last :
                \/ /\ main' = [main EXCEPT !.chunk = @ + 1,
                                           !.at = IF last THEN "join" ELSE "append"]
                   /\ ev' = [ev EXCEPT !.audioDone = last]
                \/ Fail("join") /\ ev' = [ev EXCEPT !.audioDone = TRUE]
  <2>1. Calm
    BY <1>0, <1>2, Untouched DEF SequenceInv
  <2>2. /\ LoopShape' /\ main'.at \in {"join", "append"} /\ main'.phase = main.phase
        /\ ev'.at = ev.at
    BY <1>0, <1>2 DEF Fail, SequenceInv, LoopShape
  <2>3. Control'
    BY <1>0, <2>1, <2>2 DEF SequenceInv, Control, Calm
  <2> QED BY <1>0, <2>1, <2>2, <2>3, CalmStep DEF Session
<1> QED BY <1>1, <1>2 DEF AppendAudio

LEMMA JoinKeeps == SequenceInv /\ Join => SequenceInv'
<1> SUFFICES ASSUME SequenceInv, Join PROVE SequenceInv'
  OBVIOUS
<1>1. Calm
  BY Untouched DEF SequenceInv, Join, gateway
<1>2. /\ LoopShape' /\ main'.at \in {"close", "leave"} /\ main'.phase = main.phase
      /\ ev' = ev /\ ev.at = "done" /\ main.at = "join" /\ handled' = handled
  BY DEF Join, WayOut, SequenceInv, LoopShape
<1>3. Control'
  BY <1>1, <1>2 DEF SequenceInv, Control, Calm
<1> QED BY <1>1, <1>2, <1>3, CalmStep DEF Session

LEMMA CloseSessionKeeps == SequenceInv /\ CloseSession => SequenceInv'
<1> SUFFICES ASSUME SequenceInv, CloseSession PROVE SequenceInv'
  OBVIOUS
<1>0. UNCHANGED <<ev, handled>> /\ main.at = "close"
  BY DEF CloseSession, MainOnly
<1>1. CASE Begin("main", "close", 0) /\ UNCHANGED main
  BY <1>0, <1>1, Begun, Rests DEF SequenceInv
<1>2. CASE UNCHANGED <<client, link, ended>> /\ (Goto("leave") \/ Fail("leave"))
  <2>1. Calm
    BY <1>0, <1>2, Untouched DEF SequenceInv
  <2> QED BY <1>0, <1>2, <2>1, Leaves DEF Moves
<1> QED BY <1>1, <1>2 DEF CloseSession

-----------------------------------------------------------------------------
(* Client.Agent and Manager.Run *)

LEMMA AgentReturned ==
  ASSUME SequenceInv, NEW v, AgentReturns(v), UNCHANGED <<link, ev, handled>>,
         main.at = "agent"
  PROVE  SequenceInv'
<1>1. Calm
  BY Booked DEF SequenceInv, AgentReturns, Forgotten
<1> QED BY <1>1, Leaves DEF AgentReturns, Moves

LEMMA AgentKeeps ==
  SequenceInv /\ (AgentSubmits \/ AgentReply \/ AgentGivesUp) => SequenceInv'
<1> SUFFICES ASSUME SequenceInv, AgentSubmits \/ AgentReply \/ AgentGivesUp
             PROVE  SequenceInv'
  OBVIOUS
<1>0. UNCHANGED <<ev, handled>> /\ main.at = "agent"
  BY DEF AgentSubmits, AgentReply, AgentGivesUp, MainOnly
<1>1. CASE AgentSubmits
  <2>1. CASE Begin("main", "agent", 0) /\ UNCHANGED main
    BY <1>0, <2>1, Begun, Rests DEF SequenceInv
  <2>2. CASE UNCHANGED link /\ \E v : AgentReturns(v)
    BY <1>0, <2>2, AgentReturned
  <2> QED BY <1>1, <2>1, <2>2 DEF AgentSubmits
<1>2. CASE AgentReply
  <2>1. UNCHANGED link
    BY <1>2 DEF AgentReply
  <2>2. CASE \E v : AgentReturns(v)
    BY <1>0, <2>1, <2>2, AgentReturned
  <2>3. CASE UNCHANGED <<client, main>>
    BY <1>0, <2>1, <2>3, Untouched, Rests DEF SequenceInv
  <2> QED BY <1>2, <2>2, <2>3 DEF AgentReply
<1>3. CASE AgentGivesUp
  BY <1>0, <1>3, AgentReturned DEF AgentGivesUp
<1> QED BY <1>1, <1>2, <1>3

LEMMA LeaveKeeps == SequenceInv /\ (NothingToSay \/ Leave) => SequenceInv'
<1> SUFFICES ASSUME SequenceInv, NothingToSay \/ Leave PROVE SequenceInv'
  OBVIOUS
<1>1. Calm
  BY Untouched, Closes DEF SequenceInv, NothingToSay, Leave, MainOnly, gateway
<1>2. Moves("returned") /\ UNCHANGED <<ev, handled>> /\ main.at \in {"connect", "leave"}
  BY DEF NothingToSay, Leave, MainOnly, Moves
<1> QED BY <1>1, <1>2, Leaves

LEMMA HandOverKeeps == SequenceInv /\ HandOver => SequenceInv'
<1> SUFFICES ASSUME SequenceInv, HandOver PROVE SequenceInv'
  OBVIOUS
<1>0. UNCHANGED <<ev, handled>> /\ main.at = "leave"
  BY DEF HandOver, MainOnly
<1> DEFINE none == <<>>
<1>1. SeqLike(none) /\ Len(none) = 0 /\ none = <<>>
  BY EmptyLike
<1> HIDE DEF none
<1>2. client' = [conn |-> 0, gen |-> client.gen, err |-> "nil", fatal |-> FALSE,
                 await |-> FALSE, queue |-> none, pending |-> {}, connected |-> FALSE,
                 delivers |-> FALSE]
  BY <1>1 DEF HandOver, NewClient
<1>3. /\ client'.conn = 0 /\ client'.gen = client.gen /\ client'.fatal = FALSE
      /\ client'.await = FALSE /\ client'.queue = none /\ client'.delivers = FALSE
      /\ client' = [conn |-> client'.conn, gen |-> client'.gen, err |-> client'.err,
                    fatal |-> client'.fatal, await |-> client'.await,
                    queue |-> client'.queue, pending |-> client'.pending,
                    connected |-> client'.connected, delivers |-> client'.delivers]
  BY <1>2
<1>4. ClientShape'
  BY <1>1, <1>3 DEF SequenceInv, ClientShape
<1>5. LinkShape'
  BY SocketCloses DEF SequenceInv, HandOver
<1>6. /\ LoopShape'
      /\ main'.at = "returned" \/ (main'.at = "connect" /\ main'.phase = "agent")
  BY <1>0 DEF HandOver, RunAgentWithTranscript, Goto, SequenceInv, LoopShape
<1>7. Control'
  BY <1>0, <1>3, <1>6 DEF SequenceInv, Control
<1>8. Challenges'
  BY <1>1, <1>3 DEF Challenges
<1>9. Stream'
  BY <1>3 DEF Stream
<1>10. InSequence'
  BY <1>0 DEF SequenceInv, InSequence
<1> QED BY <1>4, <1>5, <1>6, <1>7, <1>8, <1>9, <1>10 DEF SequenceInv

-----------------------------------------------------------------------------
(* processEvents *)

LEMMA RecvKeeps == SequenceInv /\ RecvEvent => SequenceInv'
<1> SUFFICES ASSUME SequenceInv, RecvEvent PROVE SequenceInv'
  OBVIOUS
<1>0. UNCHANGED <<client, link, main, handled>> /\ ev.at = "recv"
  BY DEF RecvEvent, EventOnly, gateway
<1>1. Calm
  BY <1>0, Untouched DEF SequenceInv
<1>2. LoopShape'
  <2>1. \/ ev' = [ev EXCEPT !.listening = TRUE]
        \/ \E err : ev' = [ev EXCEPT !.at = "done", !.err = err]
        \/ ev' = [ev EXCEPT !.at = "wait", !.todo = ev.active]
    BY DEF RecvEvent, WindowCloses, Stops
  <2> QED BY <1>0, <2>1 DEF SequenceInv, LoopShape
<1> QED BY <1>0, <1>1, <1>2, Stays

LEMMA FrameKeeps == SequenceInv /\ ProcessFrame => SequenceInv'
<1> SUFFICES ASSUME SequenceInv, ProcessFrame PROVE SequenceInv'
  OBVIOUS
<1> DEFINE h == Head(client.queue)
           e == [on |-> client.gen, id |-> h.id]
<1>1. /\ ev.at = "recv" /\ ~client.fatal /\ client.queue # <<>> /\ client' = Released
      /\ link' = link /\ main' = main /\ handled' = Append(handled, e)
  BY DEF ProcessFrame, RecvReady, Received, EventOnly
<1>2. main.at \in {"append", "join"} /\ client.delivers
  BY <1>1 DEF SequenceInv, Control
<1>3. IsEvent(h)
  <2>1. Len(client.queue) \in Nat \ {0} /\ h = client.queue[1]
    BY <1>1, TailLike DEF SequenceInv, ClientShape
  <2>2. 1 \in 1..Len(client.queue)
    BY <2>1
  <2>3. client.queue[1].kind # "challenge"
    BY <1>2, <2>2 DEF SequenceInv, Challenges
  <2> QED BY <2>1, <2>2, <2>3 DEF SequenceInv, Challenges
<1>4. /\ ClientShape' /\ client'.conn = client.conn /\ client'.gen = client.gen
      /\ client'.queue = Tail(client.queue) /\ client'.await = client.await
      /\ client'.delivers = client.delivers /\ client'.fatal = client.fatal
  BY <1>1, ReleasedClient DEF SequenceInv
<1> HIDE DEF e
<1>5. /\ SeqLike(handled') /\ Len(handled) \in Nat /\ Len(handled') = Len(handled) + 1
      /\ \A i \in 1..Len(handled) : handled'[i] = handled[i]
      /\ handled'[Len(handled) + 1] = e
  BY <1>1, AppendLike DEF SequenceInv, LoopShape
<1>6. Stream' /\ h.id = <<client.gen, Len(handled) + 1>>
  BY <1>1, <1>2, <1>3, <1>4, <1>5, StreamTakes DEF SequenceInv
<1>7. e.on = client.gen /\ e.id = h.id
  BY DEF e
<1>8. InSequence'
  <2>1. DOMAIN handled = 1..Len(handled) /\ DOMAIN handled' = 1..Len(handled')
    BY <1>5, DomainLike DEF SequenceInv, LoopShape
  <2> SUFFICES ASSUME NEW i \in 1..Len(handled')
               PROVE  handled'[i].id = <<handled'[i].on, i>>
    BY <2>1 DEF InSequence
  <2>2. CASE i \in 1..Len(handled)
    BY <1>5, <2>1, <2>2 DEF SequenceInv, InSequence
  <2>3. CASE i = Len(handled) + 1
    BY <1>5, <1>6, <1>7, <2>3
  <2> QED BY <1>5, <2>2, <2>3
<1>9. LoopShape' /\ (ev'.at \in {"recv", "consult", "submit"})
  <2> DEFINE kind == Received.kind
             what == Received.what
             run == Received.run
  <2>1. CASE kind = "chat"
    <3>1. ProcessChatEvent(what, run)
      BY <2>1 DEF ProcessFrame
    <3> HIDE DEF what, run
    <3>2. \/ ev' = ev
          \/ ev' = [ev EXCEPT !.active = @ \ {run}, !.completed = @ \cup {run},
                              !.failed = @ \ {run}]
          \/ ev' = [ev EXCEPT !.active = @ \ {run}, !.failed = @ \cup {run}]
      BY <3>1 DEF ProcessChatEvent
    <3> QED BY <1>1, <1>5, <3>2 DEF SequenceInv, LoopShape
  <2>2. CASE kind = "tool"
    <3>1. ProcessToolCall(what)
      BY <2>2 DEF ProcessFrame
    <3> HIDE DEF what
    <3>2. \/ ev' = [ev EXCEPT !.at = "consult"]
          \/ ev' = [ev EXCEPT !.at = "submit"]
      BY <3>1 DEF ProcessToolCall
    <3> QED BY <1>1, <1>5, <3>2 DEF SequenceInv, LoopShape
  <2>3. CASE kind \notin {"chat", "tool"}
    <3>1. ev' = ev
      BY <2>3 DEF ProcessFrame, ProcessTalkEvent
    <3> QED BY <1>1, <1>5, <3>1 DEF SequenceInv, LoopShape
  <2> QED BY <2>1, <2>2, <2>3
<1>10. Control'
  BY <1>1, <1>2, <1>4 DEF SequenceInv, Control
<1>11. Challenges'
  BY <1>1, <1>4, ChallengesAfter DEF SequenceInv
<1>12. LinkShape'
  BY <1>1 DEF SequenceInv, LinkShape
<1> QED BY <1>4, <1>6, <1>8, <1>9, <1>10, <1>11, <1>12 DEF SequenceInv

LEMMA ToolKeeps ==
  SequenceInv /\ (ConsultAgent \/ SubmitToolResult \/ FinishActiveAgentRuns) => SequenceInv'
<1> SUFFICES ASSUME SequenceInv, ConsultAgent \/ SubmitToolResult \/ FinishActiveAgentRuns
             PROVE  SequenceInv'
  OBVIOUS
<1>0. UNCHANGED <<main, handled>> /\ ev.at \in {"consult", "submit", "wait"}
  BY DEF ConsultAgent, SubmitToolResult, FinishActiveAgentRuns, EventOnly
<1>1. CASE (\E method, arg : Begin("events", method, arg)) /\ UNCHANGED ev
  BY <1>0, <1>1, Begun, Rests DEF SequenceInv
<1>2. CASE /\ UNCHANGED <<client, link>>
           /\ \/ \E run : ev' = [ev EXCEPT !.at = "submit", !.run = run]
              \/ ev' = [ev EXCEPT !.at = "submit"]
              \/ \E run, x : ev' = [ev EXCEPT !.at = "recv", !.run = run, !.active = x]
              \/ \E err : ev' = [ev EXCEPT !.at = "done", !.err = err]
              \/ \E x : ev' = [ev EXCEPT !.todo = x]
  <2>1. Calm
    BY <1>0, <1>2, Untouched DEF SequenceInv
  <2>2. LoopShape'
    BY <1>0, <1>2 DEF SequenceInv, LoopShape
  <2> QED BY <1>0, <2>1, <2>2, Stays
<1>3. CASE ConsultAgent
  BY <1>1, <1>2, <1>3 DEF ConsultAgent
<1>4. CASE SubmitToolResult
  BY <1>1, <1>2, <1>4 DEF SubmitToolResult, Stops
<1>5. CASE FinishActiveAgentRuns
  BY <1>1, <1>2, <1>5 DEF FinishActiveAgentRuns, Stops, gateway
<1> QED BY <1>3, <1>4, <1>5

-----------------------------------------------------------------------------
(* The readers of the connections, and the Gateway *)

\* A frame joins the queue: a challenge only while it is awaited, and then there
\* was none.
LEMMA ChallengesWith ==
  ASSUME ClientShape, Challenges, NEW f, f.kind = "challenge" \/ IsEvent(f),
         f.kind = "challenge" => client.await, main' = main,
         client'.queue = Append(client.queue, f),
         client'.await = (client.await /\ f.kind # "challenge")
  PROVE  Challenges'
<1> DEFINE q == client.queue
           t == Append(q, f)
           n == Len(q)
<1>1. /\ n \in Nat /\ Len(t) = n + 1 /\ t[n + 1] = f
      /\ \A i \in 1..n : t[i] = q[i]
  BY AppendLike DEF ClientShape
<1>2. client'.queue = t
  OBVIOUS
<1> HIDE DEF t, n, IsEvent
<1>3. \A i \in 1..n : t[i] = q[i] /\ (q[i].kind = "challenge" \/ IsEvent(q[i]))
  BY <1>1 DEF Challenges, n
<1>4. client.await => \A i \in 1..n : t[i].kind # "challenge"
  BY <1>1 DEF Challenges, n
<1>5. \A i, j \in 1..n : t[i].kind = "challenge" /\ t[j].kind = "challenge" => i = j
  BY <1>1 DEF Challenges, n
<1>6. \A i \in 1..(n + 1) : i \in 1..n \/ i = n + 1
  BY <1>1
<1>7. \A i \in 1..(n + 1) : t[i].kind = "challenge" \/ IsEvent(t[i])
  BY <1>1, <1>3, <1>6
<1>8. client'.await => \A i \in 1..(n + 1) : t[i].kind # "challenge"
  BY <1>1, <1>4, <1>6
<1>9. \A i, j \in 1..(n + 1) : t[i].kind = "challenge" /\ t[j].kind = "challenge" => i = j
  <2> SUFFICES ASSUME NEW i \in 1..(n + 1), NEW j \in 1..(n + 1),
                      t[i].kind = "challenge", t[j].kind = "challenge"
               PROVE  i = j
    OBVIOUS
  <2>1. CASE f.kind = "challenge"
    BY <1>4, <1>6, <2>1
  <2>2. CASE f.kind # "challenge"
    BY <1>1, <1>5, <1>6, <2>2
  <2> QED BY <2>1, <2>2
<1>10. main'.at \in Session =>
         ~client'.await /\ \A i \in 1..(n + 1) : t[i].kind # "challenge"
  <2> SUFFICES ASSUME main.at \in Session
               PROVE  ~client'.await /\ \A i \in 1..(n + 1) : t[i].kind # "challenge"
    OBVIOUS
  <2>1. ~client.await /\ \A i \in 1..n : q[i].kind # "challenge"
    BY DEF Challenges, Session, n
  <2> QED BY <1>1, <1>6, <2>1
<1> QED BY <1>1, <1>2, <1>7, <1>8, <1>9, <1>10 DEF Challenges, Session

LEMMA ReadsKeep ==
  ASSUME SequenceInv, NEW c \in Conn, Reads(c)
  PROVE  SequenceInv'
<1>0. UNCHANGED <<main, ev, handled>> /\ ReadConnection(c)
  BY DEF Reads, runner
<1> DEFINE f == Head(link[c].wire)
<1>1. ASSUME NEW err, NEW fatal \in BOOLEAN, err # "nil",
             FailTransport(c, err, fatal) \/ (c # client.conn /\ ReaderEnds(c))
      PROVE  SequenceInv'
  <2>1. Calm
    BY <1>0, <1>1, Fails DEF SequenceInv
  <2> QED BY <1>0, <2>1, Rests
<1>2. ASSUME c = client.conn, link[c].wire # <<>>, ReadsOn(c), client' = client,
             client.delivers => ~IsEvent(f)
      PROVE  SequenceInv'
  <2>1. Calm
    BY <1>0, <1>2, PassesOver DEF SequenceInv
  <2> QED BY <1>0, <2>1, Rests
<1>3. CASE ReadEnd(c)
  <2>1. FailTransport(c, "eof", FALSE)
    BY <1>3 DEF ReadEnd
  <2> QED BY <1>1, <2>1
<1>4. CASE ReadMessage(c)
  <2>0. link[c].wire # <<>>
    BY <1>4 DEF ReadMessage
  <2>1. CASE f.kind = "bad"
    <3>1. FailTransport(c, "protocol", TRUE)
      BY <1>4, <2>1 DEF ReadMessage
    <3> QED BY <1>1, <3>1
  <2>2. CASE f.kind = "res"
    <3>0. DispatchResponse(c, f)
      BY <1>4, <2>2 DEF ReadMessage
    <3>1. CASE ReaderEnds(c) /\ c # client.conn
      <4>1. TRUE \in BOOLEAN /\ "eof" # "nil"
        OBVIOUS
      <4> QED BY <1>1, <3>1, <4>1
    <3>2. CASE FailTransport(c, "overflow", TRUE)
      BY <1>1, <3>2
    <3>3. CASE c = client.conn /\ ReadsOn(c) /\ client' = client
      BY <1>2, <2>0, <2>2, <3>3 DEF IsEvent
    <3> HIDE DEF f
    <3> QED BY <3>0, <3>1, <3>2, <3>3 DEF DispatchResponse, Current
  <2>3. CASE f.kind \notin {"bad", "res"}
    <3>0. DispatchEvent(c, f)
      BY <1>4, <2>3 DEF ReadMessage
    <3>1. f.kind = "challenge" \/ IsEvent(f)
      <4> DEFINE w == link[c].wire
      <4>1. SeqLike(w) /\ w # <<>> /\ \A i \in 1..Len(w) : w[i].kind \in Kinds
        BY <2>0 DEF SequenceInv, LinkShape, OneLink
      <4> HIDE DEF w
      <4>2. Len(w) \in Nat \ {0} /\ Head(w) = w[1]
        BY <4>1, TailLike
      <4>3. Head(w).kind \in Kinds
        BY <4>1, <4>2
      <4> QED BY <2>3, <4>3 DEF w, Kinds, IsEvent
    <3>2. CASE c # client.conn
      <4>1. ReaderEnds(c)
        BY <3>0, <3>2 DEF DispatchEvent, Current
      <4>2. TRUE \in BOOLEAN /\ "eof" # "nil"
        OBVIOUS
      <4> QED BY <1>1, <3>2, <4>1, <4>2
    <3>3. CASE /\ c = client.conn
               /\ IF f.kind = "challenge" THEN ~client.await
                  ELSE ~client.delivers /\ ~client.await
      <4>1. ReadsOn(c) /\ client' = client
        BY <3>0, <3>3 DEF DispatchEvent, Current
      <4>2. client.delivers => ~IsEvent(f)
        BY <3>3 DEF IsEvent
      <4> QED BY <1>2, <2>0, <3>3, <4>1, <4>2
    <3>4. CASE /\ c = client.conn
               /\ f.kind = "challenge" => client.await
               /\ Enqueue(c, f, client.await /\ f.kind # "challenge")
      <4> DEFINE await == client.await /\ f.kind # "challenge"
      <4>1. CASE FailTransport(c, "overflow", TRUE)
        BY <1>1, <4>1
      <4>2. CASE /\ client' = [client EXCEPT !.queue = Append(@, f), !.await = await]
                 /\ ReadsOn(c)
        <5> HIDE DEF await
        <5>1. /\ ClientShape' /\ LinkShape' /\ Stream'
              /\ client'.queue = Append(client.queue, f)
              /\ client'.await = await /\ client'.delivers = client.delivers
          BY <1>0, <2>0, <3>4, <4>2, Queues DEF SequenceInv
        <5> HIDE DEF f
        <5>2. Challenges'
          BY <1>0, <3>1, <3>4, <5>1, ChallengesWith DEF SequenceInv, await
        <5>3. LoopShape' /\ Control'
          BY <1>0, <5>1 DEF SequenceInv, LoopShape, Control
        <5>4. InSequence'
          BY <1>0 DEF SequenceInv, InSequence
        <5> QED BY <5>1, <5>2, <5>3, <5>4 DEF SequenceInv
      <4> HIDE DEF f
      <4> QED BY <3>4, <4>1, <4>2 DEF Enqueue
    <3> HIDE DEF f
    <3> QED BY <3>0, <3>2, <3>3, <3>4 DEF DispatchEvent, Current
  <2> QED BY <2>1, <2>2, <2>3
<1> QED BY <1>0, <1>3, <1>4 DEF ReadConnection

LEMMA CallsKeep ==
  ASSUME SequenceInv, NEW p \in Proc, Calls(p)
  PROVE  SequenceInv'
<1>0. UNCHANGED <<main, ev, handled>>
  BY DEF Calls, runner
<1>1. Calm
  BY <1>0, Booked DEF SequenceInv, Calls, Await, Forgotten
<1> QED BY <1>0, <1>1, Rests

LEMMA ExpireKeeps == SequenceInv /\ Expire => SequenceInv'
<1> SUFFICES ASSUME SequenceInv, Expire PROVE SequenceInv'
  OBVIOUS
<1>0. UNCHANGED <<main, ev, handled, client, link>>
  BY DEF Expire, runner
<1>1. Calm
  BY <1>0, Untouched DEF SequenceInv
<1> QED BY <1>0, <1>1, Rests

(***************************************************************************)
(* The Gateway puts a frame on the wire of c: an event it numbers, or a    *)
(* frame that is none.                                                     *)
(***************************************************************************)
LEMMA FrameSent ==
  ASSUME SequenceInv, UNCHANGED <<client, main, ev, handled>>,
         NEW c \in Conn, NEW e, NEW peer, NEW inbox, NEW session, NEW sent,
         link[c].socket = "open", e.kind \in Kinds,
         link' = [d \in Conn |-> link'[d]], \A d \in Conn : d # c => link'[d] = link[d],
         link'[c] = [socket |-> link[c].socket, peer |-> peer,
                     wire |-> Append(link[c].wire, e), inbox |-> inbox,
                     session |-> session, sent |-> sent, reader |-> link[c].reader],
         \/ IsEvent(e) /\ e.id = <<c, link[c].sent + 1>> /\ sent = link[c].sent + 1
         \/ ~IsEvent(e) /\ sent = link[c].sent
  PROVE  SequenceInv'
<1> DEFINE w == Append(link[c].wire, e)
<1>1. link'[c] = [socket |-> "open", peer |-> peer, wire |-> w, inbox |-> inbox,
                  session |-> session, sent |-> sent, reader |-> link[c].reader]
  OBVIOUS
<1> HIDE DEF w
<1>2. link'[c] = [socket |-> "open", peer |-> link'[c].peer, wire |-> w,
                  inbox |-> link'[c].inbox, session |-> link'[c].session,
                  sent |-> link'[c].sent, reader |-> link'[c].reader]
      /\ link'[c].sent = sent
  BY <1>1
<1>3. link'[c] = [socket |-> "open", peer |-> link'[c].peer,
                  wire |-> Append(link[c].wire, e),
                  inbox |-> link'[c].inbox, session |-> link'[c].session,
                  sent |-> link'[c].sent, reader |-> link'[c].reader]
  BY <1>2 DEF w
<1>4. \/ /\ IsEvent(e) /\ e.id = <<c, link[c].sent + 1>>
         /\ link'[c].sent = link[c].sent + 1
      \/ ~IsEvent(e) /\ link'[c].sent = link[c].sent
  BY <1>2
<1>5. /\ ClientShape /\ LinkShape /\ LoopShape /\ Stream
      /\ client' = client /\ Len(handled') = Len(handled)
  BY DEF SequenceInv
<1>6. Calm
  BY <1>3, <1>4, <1>5, SentOn
<1> QED BY <1>6, Rests

LEMMA Answered ==
  ASSUME SequenceInv, UNCHANGED <<client, main, ev, handled>>, NEW c \in Conn, Alive(c),
         NEW q, NEW what, NEW run, Answers(c, q, what, run)
  PROVE  SequenceInv'
<1> DEFINE e == Response(q, what, run)
           w == Append(link[c].wire, e)
           session == link[c].session \/ (q.method = "create" /\ what = "ok")
<1>1. e.kind = "res" /\ e.kind \in Kinds /\ ~IsEvent(e) /\ link[c].socket = "open"
  BY DEF Response, Frame, Kinds, IsEvent, Alive
<1>2. link = [d \in Conn |-> link[d]] /\ OneLink(link[c])
  BY DEF SequenceInv, LinkShape
<1>3. PICK inbox : link' = [[link EXCEPT ![c].wire = w, ![c].session = session]
                             EXCEPT ![c].inbox = inbox]
  <2> HIDE DEF e
  <2>1. CASE link' = [[link EXCEPT ![c].wire = w, ![c].session = session]
                        EXCEPT ![c].inbox = @ \ {q}]
    BY <2>1
  <2>2. CASE link' = [link EXCEPT ![c].wire = w, ![c].session = session]
    <3> HIDE DEF w, session
    <3>1. link' = [[link EXCEPT ![c].wire = w, ![c].session = session]
                    EXCEPT ![c].inbox = link[c].inbox]
      BY <1>2, <2>2 DEF OneLink
    <3> QED BY <3>1
  <2> QED BY <2>1, <2>2 DEF Answers, e
<1> DEFINE sent == link[c].sent
           peer == link[c].peer
<1>4. /\ link' = [d \in Conn |-> link'[d]]
      /\ \A d \in Conn : d # c => link'[d] = link[d]
      /\ link'[c] = [socket |-> link[c].socket, peer |-> peer, wire |-> w,
                     inbox |-> inbox, session |-> session, sent |-> sent,
                     reader |-> link[c].reader]
  <2> HIDE DEF w, session
  <2> QED BY <1>2, <1>3 DEF OneLink
<1> HIDE DEF session, peer, e
<1> QED BY <1>1, <1>4, FrameSent

LEMMA AnswersKeep ==
  ASSUME SequenceInv, NEW c \in Conn, GatewayAnswers(c)
  PROVE  SequenceInv'
<1>0. UNCHANGED <<client, main, ev, handled>> /\ Alive(c)
  BY DEF GatewayAnswers, runner
<1>1. \E q, what, run : Answers(c, q, what, run)
  BY DEF GatewayAnswers
<1> QED BY <1>0, <1>1, Answered

LEMMA AgentRunKeeps ==
  ASSUME SequenceInv, NEW c \in Conn, GatewayRunsAgent(c)
  PROVE  SequenceInv'
<1>0. UNCHANGED <<client, main, ev, handled>> /\ link[c].socket = "open"
  BY DEF GatewayRunsAgent, runner, Alive
<1>1. PICK q, what, run, inbox :
        link' = [link EXCEPT ![c].wire = Append(@, Response(q, what, run)),
                             ![c].inbox = inbox]
  <2>1. PICK q \in link[c].inbox :
          \/ \E run : link' = [link EXCEPT
               ![c].wire = Append(@, Response(q, "accepted", run)),
               ![c].inbox = (@ \ {q}) \cup {[q EXCEPT !.arg = run]}]
          \/ \E what : link' = [link EXCEPT
               ![c].wire = Append(@, Response(q, what, q.arg)), ![c].inbox = @ \ {q}]
    BY DEF GatewayRunsAgent
  <2>2. CASE \E run : link' = [link EXCEPT
               ![c].wire = Append(@, Response(q, "accepted", run)),
               ![c].inbox = (@ \ {q}) \cup {[q EXCEPT !.arg = run]}]
    <3>1. PICK run : link' = [link EXCEPT
                       ![c].wire = Append(@, Response(q, "accepted", run)),
                       ![c].inbox = (@ \ {q}) \cup {[q EXCEPT !.arg = run]}]
      BY <2>2
    <3> DEFINE inbox == (link[c].inbox \ {q}) \cup {[q EXCEPT !.arg = run]}
    <3>2. link' = [link EXCEPT ![c].wire = Append(@, Response(q, "accepted", run)),
                               ![c].inbox = inbox]
      BY <3>1 DEF SequenceInv, LinkShape, OneLink
    <3> HIDE DEF inbox
    <3> QED BY <3>2
  <2>3. CASE \E what : link' = [link EXCEPT
               ![c].wire = Append(@, Response(q, what, q.arg)), ![c].inbox = @ \ {q}]
    <3>1. PICK what : link' = [link EXCEPT
                       ![c].wire = Append(@, Response(q, what, q.arg)),
                       ![c].inbox = @ \ {q}]
      BY <2>3
    <3> DEFINE inbox == link[c].inbox \ {q}
               run == q.arg
    <3>2. link' = [link EXCEPT ![c].wire = Append(@, Response(q, what, run)),
                               ![c].inbox = inbox]
      BY <3>1 DEF SequenceInv, LinkShape, OneLink
    <3> HIDE DEF inbox, run
    <3> QED BY <3>2
  <2> QED BY <2>1, <2>2, <2>3
<1> DEFINE e == Response(q, what, run)
           w == Append(link[c].wire, e)
           sent == link[c].sent
           peer == link[c].peer
           session == link[c].session
<1>2. e.kind \in Kinds /\ ~IsEvent(e)
  BY DEF Response, Frame, Kinds, IsEvent
<1>3. /\ link' = [d \in Conn |-> link'[d]]
      /\ \A d \in Conn : d # c => link'[d] = link[d]
      /\ link'[c] = [socket |-> link[c].socket, peer |-> peer, wire |-> w,
                     inbox |-> inbox, session |-> session, sent |-> sent,
                     reader |-> link[c].reader]
  <2>1. link' = [link EXCEPT ![c].wire = w, ![c].inbox = inbox]
    BY <1>1
  <2> HIDE DEF w
  <2>2. /\ link = [d \in Conn |-> link[d]]
        /\ link[c] = [socket |-> link[c].socket, peer |-> link[c].peer,
                      wire |-> link[c].wire, inbox |-> link[c].inbox,
                      session |-> link[c].session, sent |-> link[c].sent,
                      reader |-> link[c].reader]
    BY DEF SequenceInv, LinkShape, OneLink
  <2>3. /\ link' = [d \in Conn |-> link'[d]]
        /\ \A d \in Conn : d # c => link'[d] = link[d]
    BY <2>1, <2>2
  <2>4. link'[c] = [link[c] EXCEPT !.wire = w, !.inbox = inbox]
    BY <2>1, <2>2
  <2> QED BY <2>2, <2>3, <2>4
<1> HIDE DEF session, peer, e
<1> QED BY <1>0, <1>2, <1>3, FrameSent

LEMMA ChallengeSent ==
  ASSUME SequenceInv, NEW c \in Conn, GatewayChallenges(c)
  PROVE  SequenceInv'
<1>0. UNCHANGED <<client, main, ev, handled>> /\ link[c].socket = "open"
  BY DEF GatewayChallenges, runner, Alive
<1> DEFINE e == Frame("challenge", 0, "none", 0)
           w == Append(link[c].wire, e)
           sent == link[c].sent
           peer == link[c].peer
           session == link[c].session
           inbox == link[c].inbox
<1>1. e.kind \in Kinds /\ ~IsEvent(e)
  BY DEF Frame, Kinds, IsEvent
<1>2. /\ link' = [d \in Conn |-> link'[d]]
      /\ \A d \in Conn : d # c => link'[d] = link[d]
      /\ link'[c] = [socket |-> link[c].socket, peer |-> peer, wire |-> w,
                     inbox |-> inbox, session |-> session, sent |-> sent,
                     reader |-> link[c].reader]
  <2>1. link' = [link EXCEPT ![c].wire = w]
    BY DEF GatewayChallenges
  <2> HIDE DEF w
  <2> QED BY <2>1 DEF SequenceInv, LinkShape, OneLink
<1> HIDE DEF session, peer, inbox, e
<1> QED BY <1>0, <1>1, <1>2, FrameSent

LEMMA EventSent ==
  ASSUME SequenceInv, NEW c \in Conn, GatewayEvent(c) \/ GatewayChat(c)
  PROVE  SequenceInv'
<1>0. UNCHANGED <<client, main, ev, handled>> /\ link[c].socket = "open"
  BY DEF GatewayEvent, GatewayChat, runner, Alive
<1>1. PICK kind \in {"talk", "tool", "chat"} : \E what, run : Sent(c, kind, what, run)
  BY DEF GatewayEvent, GatewayChat
<1>2. PICK what, run : Sent(c, kind, what, run)
  BY <1>1
<1> DEFINE id == <<c, link[c].sent + 1>>
           e == Frame(kind, id, what, run)
           w == Append(link[c].wire, e)
           sent == link[c].sent + 1
           peer == link[c].peer
           session == link[c].session
           inbox == link[c].inbox
<1>3. e.kind \in Kinds /\ IsEvent(e) /\ e.id = id
  BY <1>1 DEF Frame, Kinds, IsEvent
<1>4. /\ link' = [d \in Conn |-> link'[d]]
      /\ \A d \in Conn : d # c => link'[d] = link[d]
      /\ link'[c] = [socket |-> link[c].socket, peer |-> peer, wire |-> w,
                     inbox |-> inbox, session |-> session, sent |-> sent,
                     reader |-> link[c].reader]
  <2>1. link' = [link EXCEPT ![c].wire = w, ![c].sent = @ + 1]
    BY <1>2 DEF Sent
  <2> HIDE DEF w
  <2>2. /\ link = [d \in Conn |-> link[d]]
        /\ link[c] = [socket |-> link[c].socket, peer |-> link[c].peer,
                      wire |-> link[c].wire, inbox |-> link[c].inbox,
                      session |-> link[c].session, sent |-> link[c].sent,
                      reader |-> link[c].reader]
    BY DEF SequenceInv, LinkShape, OneLink
  <2>3. /\ link' = [d \in Conn |-> link'[d]]
        /\ \A d \in Conn : d # c => link'[d] = link[d]
    BY <2>1, <2>2
  <2>4. link'[c] = [link[c] EXCEPT !.wire = w, !.sent = @ + 1]
    BY <2>1, <2>2
  <2> QED BY <2>2, <2>3, <2>4
<1> HIDE DEF session, peer, inbox, e
<1> QED BY <1>0, <1>3, <1>4, FrameSent

LEMMA BreakKeeps ==
  ASSUME SequenceInv, NEW c \in Conn, GatewayBreaks(c)
  PROVE  SequenceInv'
<1>0. UNCHANGED <<client, main, ev, handled>> /\ link[c].socket = "open"
  BY DEF GatewayBreaks, runner, Alive
<1> DEFINE e == Frame("bad", 0, "none", 0)
           w == Append(link[c].wire, e)
           sent == link[c].sent
           session == link[c].session
<1>1. CASE link' = [link EXCEPT ![c].wire = w, ![c].peer = FALSE, ![c].inbox = {}]
  <2>1. e.kind \in Kinds /\ ~IsEvent(e)
    BY DEF Frame, Kinds, IsEvent
  <2>2. /\ link' = [d \in Conn |-> link'[d]]
        /\ \A d \in Conn : d # c => link'[d] = link[d]
        /\ link'[c] = [socket |-> link[c].socket, peer |-> FALSE, wire |-> w,
                       inbox |-> {}, session |-> session, sent |-> sent,
                       reader |-> link[c].reader]
    <3> HIDE DEF w
    <3>1. /\ link = [d \in Conn |-> link[d]]
          /\ link[c] = [socket |-> link[c].socket, peer |-> link[c].peer,
                        wire |-> link[c].wire, inbox |-> link[c].inbox,
                        session |-> link[c].session, sent |-> link[c].sent,
                        reader |-> link[c].reader]
      BY DEF SequenceInv, LinkShape, OneLink
    <3>2. /\ link' = [d \in Conn |-> link'[d]]
          /\ \A d \in Conn : d # c => link'[d] = link[d]
      BY <1>1, <3>1
    <3>3. link'[c] = [link[c] EXCEPT !.wire = w, !.peer = FALSE, !.inbox = {}]
      BY <1>1, <3>1
    <3> QED BY <3>1, <3>2, <3>3
  <2> HIDE DEF session, e
  <2> QED BY <1>0, <2>1, <2>2, FrameSent
<1>2. CASE link' = [link EXCEPT ![c].wire = link[c].wire, ![c].peer = FALSE, ![c].inbox = {}]
  <2>1. /\ link' = [d \in Conn |-> link'[d]]
        /\ \A d \in Conn : d # c => link'[d] = link[d]
        /\ link'[c] = [link[c] EXCEPT !.peer = FALSE, !.inbox = {}]
    BY <1>2 DEF SequenceInv, LinkShape, OneLink
  <2>2. /\ OneLink(link'[c]) /\ link'[c].wire = link[c].wire
        /\ link'[c].sent = link[c].sent /\ link'[c].socket = link[c].socket
    BY <2>1 DEF SequenceInv, LinkShape, OneLink
  <2>3. \A d \in Conn : OneLink(link'[d])
    BY <2>1, <2>2 DEF SequenceInv, LinkShape
  <2>4. LinkShape' /\ ClientShape'
    BY <1>0, <2>1, <2>3 DEF SequenceInv, LinkShape, OneLink, ClientShape
  <2>5. Stream'
    <3>1. client.conn # 0 => client.conn \in Conn
      BY DEF SequenceInv, ClientShape
    <3> QED BY <1>0, <2>1, <2>2, <3>1, StreamKept DEF SequenceInv
  <2>6. Calm
    BY <1>0, <2>4, <2>5 DEF Calm
  <2> QED BY <1>0, <2>6, Rests
<1> QED BY <1>1, <1>2 DEF GatewayBreaks

-----------------------------------------------------------------------------
(* The theorem *)

LEMMA SequenceInit == Init => SequenceInv
<1> SUFFICES ASSUME Init PROVE SequenceInv
  OBVIOUS
<1> DEFINE none == <<>>
<1>1. SeqLike(none) /\ Len(none) = 0 /\ none = <<>> /\ DOMAIN none = {}
  BY EmptyLike
<1> HIDE DEF none
<1>2. PICK delivers \in BOOLEAN :
        client = [conn |-> 0, gen |-> 0, err |-> "nil", fatal |-> FALSE,
                  await |-> FALSE, queue |-> none, pending |-> {}, connected |-> FALSE,
                  delivers |-> delivers]
  BY <1>1 DEF Init, GatewayInit, NewClient
<1>3. ClientShape /\ client.queue = none /\ client.conn = 0 /\ ~client.await
  BY <1>1, <1>2 DEF ClientShape
<1>4. LinkShape
  <2> DEFINE u == [socket |-> "unused", peer |-> FALSE, wire |-> none, inbox |-> {},
                   session |-> FALSE, sent |-> 0, reader |-> "off"]
  <2>1. link = [c \in Conn |-> u]
    BY <1>1 DEF Init, GatewayInit, Unused
  <2>2. OneLink(u)
    BY <1>1 DEF OneLink
  <2> HIDE DEF u
  <2> QED BY <2>1, <2>2 DEF LinkShape
<1>5. handled = none /\ LoopShape
  BY <1>1 DEF Init, RunnerInit, LoopShape, NotListening
<1>6. Control
  BY <1>1, <1>2, <1>5 DEF Init, RunnerInit, Control, NotListening
<1>7. Challenges
  BY <1>1, <1>3 DEF Init, RunnerInit, Challenges
<1>8. Stream
  <2>1. Wire = none
    BY <1>1, <1>3 DEF Wire
  <2>2. DOMAIN Ahead = {}
    BY <1>1, <1>3, <2>1 DEF Ahead, Flight
  <2>3. Gapless(client.gen, Ahead, Len(handled))
    BY <2>2 DEF Gapless
  <2> QED BY <1>3, <2>3 DEF Stream
<1>9. InSequence
  BY <1>1, <1>5 DEF InSequence
<1> QED BY <1>3, <1>4, <1>5, <1>6, <1>7, <1>8, <1>9 DEF SequenceInv

LEMMA SequenceNext == SequenceInv /\ [Next]_vars => SequenceInv'
<1> SUFFICES ASSUME SequenceInv, [Next]_vars PROVE SequenceInv'
  OBVIOUS
<1>1. CASE MainSteps
  BY <1>1, ConnectKeeps, ChallengeKeeps, AuthenticateKeeps, CreateKeeps, AppendKeeps,
     JoinKeeps, CloseSessionKeeps, AgentKeeps, LeaveKeeps, HandOverKeeps
     DEF MainSteps, MainStep
<1>2. CASE EventsSteps
  BY <1>2, RecvKeeps, FrameKeeps, ToolKeeps DEF EventsSteps, EventsStep
<1>3. CASE NothingToSay
  BY <1>3, LeaveKeeps
<1>4. CASE Expire
  BY <1>4, ExpireKeeps
<1>5. CASE Gateway
  BY <1>5, AnswersKeep, AgentRunKeeps, ChallengeSent, EventSent, BreakKeeps DEF Gateway
<1>6. CASE \E p \in Proc : Calls(p)
  BY <1>6, CallsKeep
<1>7. CASE \E c \in Conn : Reads(c)
  BY <1>7, ReadsKeep
<1>8. CASE UNCHANGED vars
  <2>1. UNCHANGED <<client, link, main, ev, handled>>
    BY <1>8 DEF vars, gateway, runner
  <2>2. Calm
    BY <2>1, Untouched DEF SequenceInv
  <2> QED BY <2>1, <2>2, Rests
<1> QED BY <1>1, <1>2, <1>3, <1>4, <1>5, <1>6, <1>7, <1>8 DEF Next

(***************************************************************************)
(* processEvents handles the events of its session's connection in order,  *)
(* each once and without a gap, for every queue and wire capacity and      *)
(* every number of connections, runs, events and repeats.                  *)
(***************************************************************************)
THEOREM EventsInOrder == Spec => []InSequence
<1>1. SequenceInv => InSequence
  BY DEF SequenceInv
<1> QED BY <1>1, SequenceInit, SequenceNext, PTL DEF Spec

-----------------------------------------------------------------------------
(***************************************************************************)
(* What Run reports.  The frames on their way to the client, those it has  *)
(* queued or handed to a call, and the requests at the Gateway, with the   *)
(* connection of each.                                                     *)
(***************************************************************************)
OnWires == UNION {ToSet(link[c].wire) : c \in Conn}
Queued == ToSet(client.queue)
Replies(p) == ToSet(call[p].replies)
At(c, q) == <<c, q>>
Asked == UNION {{At(c, q) : q \in link[c].inbox} : c \in Conn}
Asks(x, method) == x[2].method = method
Started == {r \in Run : runs[r] # "none"}
Final(r) == r \in Run => runs[r] = "final"

\* The calls of the two goroutines, and the answers to that of processEvents.
MainCall == call["main"]
EventsCall == call["events"]
Answering(f) == f.kind = "res" /\ f.id = EventsCall.id
Mine == {f \in OnWires : Answering(f)} \cup (Replies("events") \ {Failure})

CallShape ==
  /\ call = [p \in Proc |-> call[p]]
  /\ \A p \in Proc :
       /\ call[p] = [at |-> call[p].at, id |-> call[p].id, conn |-> call[p].conn,
                     method |-> call[p].method, arg |-> call[p].arg,
                     replies |-> call[p].replies, result |-> call[p].result]
       /\ SeqLike(call[p].replies)
OutcomeShape ==
  /\ result = [errors |-> result.errors, runs |-> result.runs, done |-> result.done,
               pending |-> result.pending]
  /\ runs = [r \in Run |-> runs[r]]
  /\ mode \in {"agent", "realtime", "voice"} /\ arrived \in {0, 1}
  /\ IsFiniteSet(IdsInUse)

(***************************************************************************)
(* Nothing is submitted before the agent's turn, and once then.            *)
(***************************************************************************)
Submission ==
  /\ main.phase \in {"talk", "agent"}
  /\ mode = "realtime" => main.phase = "talk"
  /\ mode = "agent" => main.phase = "agent"
  /\ main.phase = "talk" \/ main.at \in {"connect", "challenge", "auth"} =>
       arrived = 0 /\ accepted = 0 /\ verdict = "none"
  /\ main.at = "agent" =>
       /\ verdict = "none" /\ main.phase = "agent"
       /\ MainCall.at = "idle" => arrived = 0 /\ accepted = 0
       /\ MainCall.at = "done" /\ MainCall.result.what = "unsent" => arrived = 0
       /\ MainCall.at = "await" => MainCall.method = "agent"
  /\ verdict = "unsent" => arrived = 0
  /\ verdict \in {"unknown", "ok"} => accepted # 0
  /\ accepted # 0 => accepted \in Started
  /\ verdict = "ok" => runs[accepted] = "final"

(***************************************************************************)
(* Where processEvents is, the call it makes there, and what its end and   *)
(* the run's stand for.                                                    *)
(***************************************************************************)
Turns ==
  /\ main.at \in {"connect", "challenge", "auth", "create"} /\ main.phase = "talk" =>
       ev.at = "off"
  /\ ev.at = "off" => ev.active = {} /\ ev.completed = {} /\ ev.failed = {}
  /\ ev.at \notin {"consult", "submit", "wait"} => EventsCall.at = "idle"
  /\ ev.at = "consult" => mode = "realtime"
  /\ ev.at = "consult" /\ EventsCall.at # "idle" => EventsCall.method = "toolCall"
  /\ ev.at = "wait" /\ EventsCall.at # "idle" => EventsCall.method = "wait"
  /\ ev.err => ev.at = "done"
  /\ main.at = "close" => mode = "voice"
  /\ main.at = "leave" /\ mode # "realtime" /\ main.phase = "agent" =>
       main.err \/ verdict = "ok"
  /\ main.at = "leave" /\ mode = "realtime" => main.err \/ (ev.at = "done" /\ ~ev.err)
  /\ outcome = "succeeded" =>
       /\ main.at = "returned" /\ ~result.errors
       /\ IF mode = "realtime" THEN ev.at = "done" /\ ~ev.err ELSE verdict = "ok"

(***************************************************************************)
(* What a frame says of an agent run is so, and stays so.                  *)
(***************************************************************************)
FrameTrue(f) ==
  /\ f = Frame(f.kind, f.id, f.what, f.run)
  /\ f.what = "accepted" => f.run \in Started
  /\ f.what = "ok" /\ f.run # 0 /\ mode # "realtime" => Final(f.run)
  /\ f.kind = "chat" /\ f.what = "final" => Final(f.run)
  /\ f.kind = "tool" => mode = "realtime"
Frames ==
  \A f \in OnWires \cup Queued \cup Replies("main") \cup Replies("events") : FrameTrue(f)

\* There is one agent request, and one run of it.
IsRequest(q) == q = Request(q.id, q.method, q.arg)
Requests ==
  /\ \A x \in Asked :
       /\ Asks(x, "agent") =>
            /\ mode # "realtime" /\ arrived # 0 /\ IsRequest(x[2])
            /\ IF x[2].arg = 0 THEN Started = {} ELSE x[2].arg \in Run
       /\ Asks(x, "toolCall") => mode = "realtime"
  /\ \A x, y \in Asked : Asks(x, "agent") /\ Asks(y, "agent") => x = y
  /\ mode # "realtime" =>
       /\ \A r, s \in Started : r = s
       /\ Started # {} => arrived # 0

(***************************************************************************)
(* The answers to a call of processEvents are answers to its request: an   *)
(* agent it waited for has finished when it is told so.                    *)
(***************************************************************************)
Correlated ==
  /\ EventsCall.at = "await" =>
       /\ \A x \in Asked : x[2].id = EventsCall.id =>
            /\ x[2].method = EventsCall.method
            /\ EventsCall.method = "wait" => x[2].arg = EventsCall.arg
       /\ EventsCall.method = "wait" =>
            \A f \in Mine : f.what = "ok" => Final(EventsCall.arg)
  /\ EventsCall.at = "done" /\ EventsCall.method = "wait" /\ EventsCall.result.what = "ok" =>
       Final(EventsCall.arg)

(***************************************************************************)
(* As long as nothing failed, the runner knows of every agent run a tool   *)
(* call has started, but for the one it is being told of.                  *)
(***************************************************************************)
Clean == ~result.errors /\ ~ev.err
Consulting == ev.at = "consult" /\ EventsCall.at # "idle"
NoToolCall == \A x \in Asked : ~Asks(x, "toolCall")
Consults ==
  mode = "realtime" /\ Clean =>
    /\ ~Consulting => Started \subseteq result.runs /\ NoToolCall
    /\ Consulting /\ EventsCall.at = "await" =>
         /\ \A x \in Asked : Asks(x, "toolCall") =>
              x[2].id = EventsCall.id /\ Started \subseteq result.runs /\ Mine = {}
         /\ \A x, y \in Asked : Asks(x, "toolCall") /\ Asks(y, "toolCall") => x = y
         /\ \A f \in Mine : f.what = "ok" => Started \subseteq result.runs \cup {f.run}
    /\ Consulting /\ EventsCall.at = "done" /\ EventsCall.result.what = "ok" =>
         Started \subseteq result.runs \cup {EventsCall.result.run} /\ NoToolCall

\* Every run it knows of is active, or its fate is known.
Accounted ==
  /\ \A r \in ev.completed : Final(r)
  /\ Clean =>
       /\ ev.at # "submit" => ev.run = 0
       /\ result.runs \ {0} \subseteq ev.active \cup ev.completed \cup ev.failed \cup {ev.run}
       /\ ev.at = "wait" => \A r \in ev.active \ ev.todo : Final(r)
       /\ ev.at = "done" => ev.failed = {} /\ \A r \in ev.active : Final(r)

Reports ==
  /\ CallShape /\ OutcomeShape /\ Submission /\ Turns
  /\ Frames /\ Requests /\ Correlated /\ Consults /\ Accounted
VerdictInv == SequenceInv /\ Reports

-----------------------------------------------------------------------------
(* What a sequence of frames holds *)

LEMMA HeldBy ==
  ASSUME NEW q, SeqLike(q)
  PROVE  \A f : f \in ToSet(q) <=> \E i \in 1..Len(q) : f = q[i]
<1>1. DOMAIN q = 1..Len(q)
  BY DomainLike
<1> QED BY <1>1 DEF ToSet

LEMMA HeldEmpty == ToSet(<<>>) = {}
  BY DEF ToSet

LEMMA HeldAppend ==
  ASSUME NEW q, NEW e, SeqLike(q)
  PROVE  ToSet(Append(q, e)) = ToSet(q) \cup {e}
<1> DEFINE t == Append(q, e)
<1>1. /\ SeqLike(t) /\ Len(q) \in Nat /\ Len(t) = Len(q) + 1
      /\ \A i \in 1..Len(q) : t[i] = q[i]
      /\ t[Len(q) + 1] = e
  BY AppendLike
<1>2. \A f : f \in ToSet(q) <=> \E i \in 1..Len(q) : f = q[i]
  BY HeldBy
<1> HIDE DEF t
<1>3. \A f : f \in ToSet(t) <=> \E i \in 1..Len(t) : f = t[i]
  BY <1>1, HeldBy
<1>4. ASSUME NEW f PROVE f \in ToSet(t) <=> f \in ToSet(q) \/ f = e
  <2>1. ASSUME f \in ToSet(t) PROVE f \in ToSet(q) \/ f = e
    <3>1. PICK i \in 1..Len(t) : f = t[i]
      BY <1>3, <2>1
    <3>2. CASE i \in 1..Len(q)
      BY <1>1, <1>2, <3>1, <3>2
    <3>3. CASE i = Len(q) + 1
      BY <1>1, <3>1, <3>3
    <3> QED BY <1>1, <3>2, <3>3
  <2>2. ASSUME f \in ToSet(q) PROVE f \in ToSet(t)
    <3>1. PICK i \in 1..Len(q) : f = q[i]
      BY <1>2, <2>2
    <3>2. i \in 1..Len(t) /\ t[i] = f
      BY <1>1, <3>1
    <3> QED BY <1>3, <3>2
  <2>3. e \in ToSet(t)
    <3>1. Len(q) + 1 \in 1..Len(t)
      BY <1>1
    <3> QED BY <1>1, <1>3, <3>1
  <2> QED BY <2>1, <2>2, <2>3
<1> QED BY <1>4 DEF t

LEMMA HeldTail ==
  ASSUME NEW q, SeqLike(q), q # <<>>
  PROVE  ToSet(Tail(q)) \subseteq ToSet(q) /\ Head(q) \in ToSet(q)
<1> DEFINE t == Tail(q)
<1>1. /\ SeqLike(t) /\ Len(q) \in Nat \ {0} /\ Len(t) = Len(q) - 1 /\ Head(q) = q[1]
      /\ \A i \in 1..(Len(q) - 1) : t[i] = q[i + 1]
  BY TailLike
<1>2. \A f : f \in ToSet(q) <=> \E i \in 1..Len(q) : f = q[i]
  BY HeldBy
<1> HIDE DEF t
<1>3. \A f : f \in ToSet(t) <=> \E i \in 1..Len(t) : f = t[i]
  BY <1>1, HeldBy
<1>4. ASSUME NEW f \in ToSet(t) PROVE f \in ToSet(q)
  <2>1. PICK i \in 1..Len(t) : f = t[i]
    BY <1>3
  <2>2. i + 1 \in 1..Len(q) /\ f = q[i + 1]
    BY <1>1, <2>1
  <2> QED BY <1>2, <2>2
<1>5. Head(q) \in ToSet(q)
  <2>1. 1 \in 1..Len(q)
    BY <1>1
  <2> QED BY <1>1, <1>2, <2>1
<1> QED BY <1>4, <1>5 DEF t

LEMMA HeldFirst ==
  ASSUME NEW q, SeqLike(q), NEW k \in {0, 1}, k <= Len(q)
  PROVE  ToSet(SubSeq(q, 1, k)) \subseteq ToSet(q)
<1> DEFINE t == SubSeq(q, 1, k)
<1>1. SeqLike(t) /\ Len(t) = k /\ \A i \in 1..k : t[i] = q[i]
  BY FirstLike
<1>2. Len(q) \in Nat /\ \A f : f \in ToSet(q) <=> \E i \in 1..Len(q) : f = q[i]
  BY HeldBy, AppendLike
<1> HIDE DEF t
<1>3. \A f : f \in ToSet(t) <=> \E i \in 1..Len(t) : f = t[i]
  BY <1>1, HeldBy
<1>4. ASSUME NEW f \in ToSet(t) PROVE f \in ToSet(q)
  <2>1. PICK i \in 1..Len(t) : f = t[i]
    BY <1>3
  <2>2. i \in 1..Len(q) /\ f = q[i]
    BY <1>1, <1>2, <2>1
  <2> QED BY <1>2, <2>2
<1> QED BY <1>4 DEF t

-----------------------------------------------------------------------------
(* The ids in use are finitely many, so a new one is new *)

LEMMA AskedAt ==
  \A x : x \in Asked <=> \E c \in Conn : \E q \in link[c].inbox : x = At(c, q)
  BY DEF Asked

LEMMA InUse ==
  \A i : i \in IdsInUse <=> \/ i \in client.pending
                            \/ \E p \in Proc : i = call[p].id
                            \/ \E x \in Asked : i = x[2].id
                            \/ \E f \in OnWires : f.kind = "res" /\ i = f.id
<1> SUFFICES ASSUME NEW i
             PROVE  i \in IdsInUse <=> \/ i \in client.pending
                                       \/ \E p \in Proc : i = call[p].id
                                       \/ \E x \in Asked : i = x[2].id
                                       \/ \E f \in OnWires : f.kind = "res" /\ i = f.id
  OBVIOUS
<1>1. (\E x \in Asked : i = x[2].id) <=> \E c \in Conn : \E q \in link[c].inbox : i = q.id
  <2>1. ASSUME NEW x \in Asked, i = x[2].id
        PROVE  \E c \in Conn : \E q \in link[c].inbox : i = q.id
    <3>1. PICK c \in Conn : \E q \in link[c].inbox : x = At(c, q)
      BY AskedAt
    <3>2. PICK q \in link[c].inbox : x = At(c, q)
      BY <3>1
    <3>3. At(c, q)[2] = q
      BY DEF At
    <3> QED BY <2>1, <3>2, <3>3
  <2>2. ASSUME NEW c \in Conn, NEW q \in link[c].inbox, i = q.id
        PROVE  \E x \in Asked : i = x[2].id
    <3>1. At(c, q) \in Asked
      BY AskedAt
    <3>2. At(c, q)[2] = q
      BY DEF At
    <3> QED BY <2>2, <3>1, <3>2
  <2> QED BY <2>1, <2>2
<1>2. (\E f \in OnWires : f.kind = "res" /\ i = f.id) <=>
        \E c \in Conn : \E f \in ToSet(link[c].wire) : f.kind = "res" /\ i = f.id
  BY DEF OnWires
<1>3. i \in IdsInUse <=>
        \/ i \in client.pending
        \/ \E p \in Proc : i = call[p].id
        \/ \E c \in Conn : \/ \E q \in link[c].inbox : i = q.id
                           \/ \E f \in ToSet(link[c].wire) : f.kind = "res" /\ i = f.id
  BY DEF IdsInUse
<1> QED BY <1>1, <1>2, <1>3

LEMMA Fresh1 ==
  ASSUME IsFiniteSet(IdsInUse)
  PROVE  NextId \notin IdsInUse /\ NextId # 0
<1> DEFINE n == Cardinality(IdsInUse)
<1>1. n \in Nat
  BY FS_CardinalityType
<1>2. \E id \in 1..(n + 1) : id \notin IdsInUse
  <2> SUFFICES ASSUME 1..(n + 1) \subseteq IdsInUse PROVE FALSE
    OBVIOUS
  <2>1. Cardinality(1..(n + 1)) = n + 1
    BY <1>1, FS_Interval
  <2>2. Cardinality(1..(n + 1)) <= n
    BY FS_Subset
  <2> QED BY <1>1, <2>1, <2>2
<1>3. NextId \in 1..(n + 1) /\ NextId \notin IdsInUse
  BY <1>2 DEF NextId
<1> QED BY <1>1, <1>3

LEMMA StillFinite ==
  ASSUME IsFiniteSet(IdsInUse), NEW i, NEW j, IdsInUse' \subseteq IdsInUse \cup {i, j}
  PROVE  IsFiniteSet(IdsInUse')
<1> DEFINE S == IdsInUse
           T == (S \cup {i}) \cup {j}
<1>1. IsFiniteSet(S \cup {i})
  BY FS_AddElement
<1>2. IsFiniteSet(T)
  BY <1>1, FS_AddElement
<1>3. IdsInUse' \in SUBSET T
  OBVIOUS
<1> HIDE DEF T
<1> QED BY <1>2, <1>3, FS_Subset

-----------------------------------------------------------------------------
(***************************************************************************)
(* Where frames and requests go.  A call keeps its place while frames that *)
(* answer it, or the end of its connection, join its replies.              *)
(***************************************************************************)
Kept(p) ==
  /\ call'[p].at = call[p].at /\ call'[p].id = call[p].id
  /\ call'[p].method = call[p].method /\ call'[p].arg = call[p].arg
  /\ call'[p].result = call[p].result
  /\ Replies(p)' \subseteq
       Replies(p) \cup {Failure} \cup {f \in OnWires : f.kind = "res" /\ f.id = call[p].id}
Shrinks ==
  /\ OnWires' \subseteq OnWires /\ Asked' \subseteq Asked
  /\ Queued' \subseteq Queued \cup OnWires /\ client'.pending \subseteq client.pending
Steady == CallShape' /\ (\A p \in Proc : Kept(p)) /\ Shrinks

LEMMA WiresFlow ==
  ASSUME NEW c \in Conn, \A d \in Conn : d # c => link'[d] = link[d], NEW E,
         ToSet(link'[c].wire) \subseteq ToSet(link[c].wire) \cup E
  PROVE  OnWires' \subseteq OnWires \cup E
<1> SUFFICES ASSUME NEW f \in OnWires' PROVE f \in OnWires \cup E
  OBVIOUS
<1>1. PICK d \in Conn : f \in ToSet(link'[d].wire)
  BY DEF OnWires
<1>2. CASE d = c
  BY <1>1, <1>2 DEF OnWires
<1>3. CASE d # c
  BY <1>1, <1>3 DEF OnWires
<1> QED BY <1>2, <1>3

LEMMA AsksFlow ==
  ASSUME NEW c \in Conn, \A d \in Conn : d # c => link'[d] = link[d], NEW J,
         link'[c].inbox \subseteq link[c].inbox \cup J
  PROVE  \A x \in Asked' : x \in Asked \/ \E q \in J : x = At(c, q)
<1> SUFFICES ASSUME NEW x \in Asked' PROVE x \in Asked \/ \E q \in J : x = At(c, q)
  OBVIOUS
<1>1. PICK d \in Conn : \E q \in link'[d].inbox : x = At(d, q)
  BY DEF Asked, At
<1>2. PICK q \in link'[d].inbox : x = At(d, q)
  BY <1>1
<1>3. CASE d = c /\ q \in J
  BY <1>2, <1>3
<1>4. CASE q \in link[d].inbox
  BY <1>2, <1>4, AskedAt
<1> QED BY <1>2, <1>3, <1>4

LEMMA LessFlow ==
  ASSUME \A d \in Conn : /\ ToSet(link'[d].wire) \subseteq ToSet(link[d].wire)
                         /\ link'[d].inbox \subseteq link[d].inbox
  PROVE  OnWires' \subseteq OnWires /\ Asked' \subseteq Asked
<1>1. OnWires' \subseteq OnWires
  BY DEF OnWires
<1>2. ASSUME NEW x \in Asked' PROVE x \in Asked
  <2>1. PICK d \in Conn : \E q \in link'[d].inbox : x = At(d, q)
    BY DEF Asked, At
  <2> QED BY <2>1, AskedAt
<1> QED BY <1>1, <1>2

LEMMA SameLinks ==
  ASSUME link' = link
  PROVE  OnWires' = OnWires /\ Asked' = Asked
  BY DEF OnWires, Asked

LEMMA ClosedLess ==
  ASSUME ClientShape, LinkShape, NEW d \in Conn
  PROVE  /\ ToSet(SocketClosed(client.conn)[d].wire) \subseteq ToSet(link[d].wire)
         /\ SocketClosed(client.conn)[d].inbox \subseteq link[d].inbox
<1>1. CASE client.conn = 0
  BY <1>1 DEF SocketClosed
<1>2. CASE client.conn # 0 /\ d # client.conn
  BY <1>2, ClosedLinks
<1>3. CASE client.conn # 0 /\ d = client.conn
  <2> DEFINE w == link[d].wire
             k == IF w = <<>> THEN 0 ELSE 1
  <2>1. SocketClosed(client.conn)[d].wire = SubSeq(w, 1, k)
        /\ SocketClosed(client.conn)[d].inbox = {}
    BY <1>3, ClosedLinks
  <2>2. SeqLike(w)
    BY DEF LinkShape, OneLink
  <2>3. k \in {0, 1} /\ k <= Len(w)
    BY <2>2, TailLike, EmptyLike
  <2>4. ToSet(SubSeq(w, 1, k)) \subseteq ToSet(w)
    BY <2>2, <2>3, HeldFirst
  <2> HIDE DEF k, w
  <2> QED BY <2>1, <2>4 DEF w
<1> QED BY <1>1, <1>2, <1>3

LEMMA ClosedFlow ==
  ASSUME ClientShape, LinkShape, link' = SocketClosed(client.conn)
  PROVE  OnWires' \subseteq OnWires /\ Asked' \subseteq Asked
  BY ClosedLess, LessFlow

LEMMA GoneFlow ==
  ASSUME LinkShape, NEW c \in Conn, link' = [link EXCEPT ![c] = Gone]
  PROVE  OnWires' \subseteq OnWires /\ Asked' \subseteq Asked
<1>1. link'[c] = Gone /\ \A d \in Conn : d # c => link'[d] = link[d]
  BY DEF LinkShape
<1>2. Gone.wire = <<>> /\ Gone.inbox = {}
  BY DEF Gone, Unused
<1>3. \A d \in Conn : /\ ToSet(link'[d].wire) \subseteq ToSet(link[d].wire)
                     /\ link'[d].inbox \subseteq link[d].inbox
  BY <1>1, <1>2, HeldEmpty
<1> QED BY <1>3, LessFlow

LEMMA ReadFlow ==
  ASSUME LinkShape, NEW c \in Conn, link[c].wire # <<>>, ReadsOn(c)
  PROVE  OnWires' \subseteq OnWires /\ Asked' \subseteq Asked /\ Head(link[c].wire) \in OnWires
<1> DEFINE w == link[c].wire
           t == Tail(w)
<1>0. OneLink(link[c]) /\ SeqLike(w) /\ w # <<>>
  BY DEF LinkShape, OneLink
<1>1. link'[c] = [link[c] EXCEPT !.wire = t] /\ \A d \in Conn : d # c => link'[d] = link[d]
  BY DEF LinkShape, ReadsOn
<1>2. ToSet(t) \subseteq ToSet(w) /\ Head(w) \in ToSet(w)
  BY <1>0, HeldTail
<1> HIDE DEF t
<1>3. link'[c].wire = t /\ link'[c].inbox = link[c].inbox
  BY <1>0, <1>1 DEF OneLink
<1>4. \A d \in Conn : /\ ToSet(link'[d].wire) \subseteq ToSet(link[d].wire)
                     /\ link'[d].inbox \subseteq link[d].inbox
  <2>1. \A d \in Conn : d # c => link'[d] = link[d]
    BY <1>1
  <2> QED BY <1>2, <1>3, <2>1
<1>5. OnWires' \subseteq OnWires /\ Asked' \subseteq Asked
  BY <1>4, LessFlow
<1>6. Head(w) \in OnWires
  BY <1>2 DEF OnWires
<1> QED BY <1>5, <1>6

\* Calls
LEMMA SameCalls ==
  ASSUME CallShape, call' = call
  PROVE  CallShape' /\ \A p \in Proc : Kept(p)
  BY DEF CallShape, Kept, Replies

LEMMA OneReply ==
  ASSUME CallShape, NEW p \in Proc, NEW f,
         call'[p] = [call[p] EXCEPT !.replies = Append(@, f)]
  PROVE  /\ call'[p] = [at |-> call'[p].at, id |-> call'[p].id, conn |-> call'[p].conn,
                        method |-> call'[p].method, arg |-> call'[p].arg,
                        replies |-> call'[p].replies, result |-> call'[p].result]
         /\ SeqLike(call'[p].replies)
         /\ ToSet(call'[p].replies) = ToSet(call[p].replies) \cup {f}
         /\ call'[p].at = call[p].at /\ call'[p].id = call[p].id
         /\ call'[p].method = call[p].method /\ call'[p].arg = call[p].arg
         /\ call'[p].result = call[p].result
<1> DEFINE r == Append(call[p].replies, f)
<1>0. /\ call[p] = [at |-> call[p].at, id |-> call[p].id, conn |-> call[p].conn,
                    method |-> call[p].method, arg |-> call[p].arg,
                    replies |-> call[p].replies, result |-> call[p].result]
      /\ SeqLike(call[p].replies)
  BY DEF CallShape
<1>1. SeqLike(r) /\ ToSet(r) = ToSet(call[p].replies) \cup {f}
  BY <1>0, AppendLike, HeldAppend
<1>2. call'[p] = [call[p] EXCEPT !.replies = r]
  OBVIOUS
<1> HIDE DEF r
<1>3. call'[p] = [at |-> call[p].at, id |-> call[p].id, conn |-> call[p].conn,
                  method |-> call[p].method, arg |-> call[p].arg, replies |-> r,
                  result |-> call[p].result]
  BY <1>0, <1>2
<1>4. call'[p] = [at |-> call'[p].at, id |-> call'[p].id, conn |-> call'[p].conn,
                  method |-> call'[p].method, arg |-> call'[p].arg,
                  replies |-> call'[p].replies, result |-> call'[p].result]
  BY <1>3
<1>5. /\ call'[p].replies = r /\ call'[p].at = call[p].at /\ call'[p].id = call[p].id
      /\ call'[p].method = call[p].method /\ call'[p].arg = call[p].arg
      /\ call'[p].result = call[p].result
  BY <1>3
<1> QED BY <1>1, <1>4, <1>5

LEMMA WokenCalls ==
  ASSUME CallShape, call' = Woken(client.pending)
  PROVE  CallShape' /\ \A p \in Proc : Kept(p)
<1>1. /\ call' = [p \in Proc |-> call'[p]]
      /\ \A p \in Proc : \/ call'[p] = call[p]
                         \/ call'[p] = [call[p] EXCEPT !.replies = Append(@, Failure)]
  BY DEF Woken
<1>2. ASSUME NEW p \in Proc
      PROVE  /\ Kept(p) /\ SeqLike(call'[p].replies)
             /\ call'[p] = [at |-> call'[p].at, id |-> call'[p].id, conn |-> call'[p].conn,
                            method |-> call'[p].method, arg |-> call'[p].arg,
                            replies |-> call'[p].replies, result |-> call'[p].result]
  <2>0. /\ call[p] = [at |-> call[p].at, id |-> call[p].id, conn |-> call[p].conn,
                      method |-> call[p].method, arg |-> call[p].arg,
                      replies |-> call[p].replies, result |-> call[p].result]
        /\ SeqLike(call[p].replies)
    BY DEF CallShape
  <2>1. CASE call'[p] = call[p]
    BY <2>0, <2>1 DEF Kept, Replies
  <2>2. CASE call'[p] = [call[p] EXCEPT !.replies = Append(@, Failure)]
    <3>1. /\ call'[p] = [at |-> call'[p].at, id |-> call'[p].id, conn |-> call'[p].conn,
                         method |-> call'[p].method, arg |-> call'[p].arg,
                         replies |-> call'[p].replies, result |-> call'[p].result]
          /\ SeqLike(call'[p].replies)
          /\ ToSet(call'[p].replies) = ToSet(call[p].replies) \cup {Failure}
          /\ call'[p].at = call[p].at /\ call'[p].id = call[p].id
          /\ call'[p].method = call[p].method /\ call'[p].arg = call[p].arg
          /\ call'[p].result = call[p].result
      BY <2>2, OneReply
    <3> QED BY <3>1 DEF Kept, Replies
  <2> QED BY <1>1, <2>1, <2>2
<1> QED BY <1>1, <1>2 DEF CallShape

LEMMA ClosesSteady ==
  ASSUME ClientShape, LinkShape, CallShape, Close
  PROVE  Steady
<1>1. CallShape' /\ \A p \in Proc : Kept(p)
  BY WokenCalls DEF Close
<1>2. OnWires' \subseteq OnWires /\ Asked' \subseteq Asked
  BY ClosedFlow DEF Close
<1>3. client'.queue = client.queue /\ client'.pending = {}
  BY DEF Close, Terminated, ClientShape
<1> QED BY <1>1, <1>2, <1>3 DEF Steady, Shrinks, Queued

LEMMA FailsSteady ==
  ASSUME ClientShape, LinkShape, CallShape, NEW c \in Conn, NEW err, NEW fatal,
         FailTransport(c, err, fatal) \/ ReaderEnds(c)
  PROVE  Steady
<1>1. CallShape' /\ \A p \in Proc : Kept(p)
  BY WokenCalls, SameCalls DEF FailTransport, ReaderEnds
<1>2. OnWires' \subseteq OnWires /\ Asked' \subseteq Asked
  BY GoneFlow DEF FailTransport, ReaderEnds
<1>3. client' = client \/ client' = Terminated(err, fatal)
  BY DEF FailTransport, ReaderEnds
<1>4. client'.queue = client.queue /\ client'.pending \in {{}, client.pending}
  BY <1>3 DEF Terminated, ClientShape
<1> QED BY <1>1, <1>2, <1>4 DEF Steady, Shrinks, Queued

LEMMA StillSteady ==
  ASSUME CallShape, UNCHANGED <<client, link, call>>
  PROVE  Steady
<1>1. CallShape' /\ \A p \in Proc : Kept(p)
  BY SameCalls
<1> QED BY <1>1, SameLinks DEF Steady, Shrinks, Queued

LEMMA OtherCalls ==
  ASSUME CallShape, NEW p \in Proc, NEW X, call' = [call EXCEPT ![p] = X]
  PROVE  /\ call' = [r \in Proc |-> call'[r]] /\ call'[p] = X
         /\ \A r \in Proc : r # p => call'[r] = call[r]
  BY DEF CallShape

LEMMA ShapeOne ==
  ASSUME CallShape, NEW p \in Proc,
         call' = [r \in Proc |-> call'[r]],
         \A r \in Proc : r # p => call'[r] = call[r],
         call'[p] = [at |-> call'[p].at, id |-> call'[p].id, conn |-> call'[p].conn,
                     method |-> call'[p].method, arg |-> call'[p].arg,
                     replies |-> call'[p].replies, result |-> call'[p].result],
         SeqLike(call'[p].replies)
  PROVE  CallShape' /\ \A r \in Proc : r # p => Kept(r)
<1>1. \A r \in Proc :
        /\ call'[r] = [at |-> call'[r].at, id |-> call'[r].id, conn |-> call'[r].conn,
                       method |-> call'[r].method, arg |-> call'[r].arg,
                       replies |-> call'[r].replies, result |-> call'[r].result]
        /\ SeqLike(call'[r].replies)
  BY DEF CallShape
<1>2. CallShape'
  BY <1>1 DEF CallShape
<1>3. \A r \in Proc : r # p => Kept(r)
  BY DEF Kept, Replies
<1> QED BY <1>2, <1>3

LEMMA ResponseSteady ==
  ASSUME ClientShape, LinkShape, CallShape, NEW c \in Conn, link[c].wire # <<>>,
         Head(link[c].wire).kind = "res", DispatchResponse(c, Head(link[c].wire))
  PROVE  Steady
<1> DEFINE frame == Head(link[c].wire)
           callers == {p \in Caller(frame.id) : frame.id \in client.pending}
           p == CHOOSE q \in callers : TRUE
<1>1. CASE ~Current(c)
  BY <1>1, FailsSteady DEF DispatchResponse
<1>2. CASE Current(c) /\ callers = {}
  <2>1. ReadsOn(c) /\ UNCHANGED <<client, call>>
    BY <1>2 DEF DispatchResponse
  <2>2. OnWires' \subseteq OnWires /\ Asked' \subseteq Asked
    BY <2>1, ReadFlow
  <2>3. CallShape' /\ \A r \in Proc : Kept(r)
    BY <2>1, SameCalls
  <2> QED BY <2>1, <2>2, <2>3 DEF Steady, Shrinks, Queued
<1>3. CASE Current(c) /\ callers # {} /\ ~Room(p)
  <2>1. FailTransport(c, "overflow", TRUE)
    BY <1>3 DEF DispatchResponse
  <2> QED BY <2>1, FailsSteady
<1>4. CASE Current(c) /\ callers # {} /\ Room(p)
  <2>1. ReadsOn(c) /\ client' = client
    BY <1>4 DEF DispatchResponse
  <2>2. PICK r \in Proc : /\ call[r].id = frame.id
                          /\ call' = [call EXCEPT ![r].replies = Append(@, frame)]
    <3>1. p \in Proc /\ call[p].id = frame.id
      <4>1. p \in callers
        BY <1>4
      <4> HIDE DEF p
      <4> QED BY <4>1 DEF Caller
    <3>2. call' = [call EXCEPT ![p].replies = Append(@, frame)]
      BY <1>4 DEF DispatchResponse
    <3> QED BY <3>1, <3>2
  <2>3. OnWires' \subseteq OnWires /\ Asked' \subseteq Asked /\ frame \in OnWires
    BY <2>1, ReadFlow
  <2>4. frame.kind = "res"
    OBVIOUS
  <2> HIDE DEF frame, callers, p
  <2>5. call' = [call EXCEPT ![r] = [call[r] EXCEPT !.replies = Append(@, frame)]]
    BY <2>2 DEF CallShape
  <2>6. /\ call' = [s \in Proc |-> call'[s]]
        /\ call'[r] = [call[r] EXCEPT !.replies = Append(@, frame)]
        /\ \A s \in Proc : s # r => call'[s] = call[s]
    BY <2>2, <2>5, OtherCalls
  <2>7. /\ call'[r] = [at |-> call'[r].at, id |-> call'[r].id, conn |-> call'[r].conn,
                       method |-> call'[r].method, arg |-> call'[r].arg,
                       replies |-> call'[r].replies, result |-> call'[r].result]
        /\ SeqLike(call'[r].replies)
        /\ ToSet(call'[r].replies) = ToSet(call[r].replies) \cup {frame}
        /\ call'[r].at = call[r].at /\ call'[r].id = call[r].id
        /\ call'[r].method = call[r].method /\ call'[r].arg = call[r].arg
        /\ call'[r].result = call[r].result
    BY <2>2, <2>6, OneReply
  <2>8. CallShape' /\ \A s \in Proc : s # r => Kept(s)
    BY <2>2, <2>6, <2>7, ShapeOne
  <2>9. Kept(r)
    BY <2>2, <2>3, <2>4, <2>7 DEF Kept, Replies
  <2>10. \A s \in Proc : Kept(s)
    BY <2>8, <2>9
  <2> QED BY <2>1, <2>3, <2>8, <2>10 DEF Steady, Shrinks, Queued
<1> QED BY <1>1, <1>2, <1>3, <1>4

LEMMA EventSteady ==
  ASSUME ClientShape, LinkShape, CallShape, NEW c \in Conn, link[c].wire # <<>>,
         DispatchEvent(c, Head(link[c].wire))
  PROVE  Steady
<1> DEFINE frame == Head(link[c].wire)
           await == client.await /\ frame.kind # "challenge"
<1>1. \/ FailTransport(c, "overflow", TRUE) \/ ReaderEnds(c)
      \/ ReadsOn(c) /\ UNCHANGED <<client, call>>
      \/ /\ ReadsOn(c) /\ call' = call
         /\ client' = [client EXCEPT !.queue = Append(@, frame), !.await = await]
  BY DEF DispatchEvent, Enqueue
<1>2. CASE FailTransport(c, "overflow", TRUE) \/ ReaderEnds(c)
  BY <1>2, FailsSteady
<1>3. CASE ReadsOn(c) /\ UNCHANGED <<client, call>>
  <2>1. OnWires' \subseteq OnWires /\ Asked' \subseteq Asked
    BY <1>3, ReadFlow
  <2>2. CallShape' /\ \A r \in Proc : Kept(r)
    BY <1>3, SameCalls
  <2> QED BY <1>3, <2>1, <2>2 DEF Steady, Shrinks, Queued
<1>4. CASE /\ ReadsOn(c) /\ call' = call
           /\ client' = [client EXCEPT !.queue = Append(@, frame), !.await = await]
  <2>1. OnWires' \subseteq OnWires /\ Asked' \subseteq Asked /\ frame \in OnWires
    BY <1>4, ReadFlow
  <2>2. CallShape' /\ \A r \in Proc : Kept(r)
    BY <1>4, SameCalls
  <2> DEFINE q == Append(client.queue, frame)
  <2>3. client' = [client EXCEPT !.queue = q, !.await = await]
    BY <1>4
  <2>4. ToSet(q) = ToSet(client.queue) \cup {frame}
    BY HeldAppend DEF ClientShape
  <2> HIDE DEF q, frame, await
  <2>5. client'.queue = q /\ client'.pending = client.pending
    BY <2>3 DEF ClientShape
  <2> QED BY <2>1, <2>2, <2>4, <2>5 DEF Steady, Shrinks, Queued
<1> QED BY <1>1, <1>2, <1>3, <1>4

LEMMA ReadSteady ==
  ASSUME ClientShape, LinkShape, CallShape, NEW c \in Conn, ReadConnection(c)
  PROVE  Steady
<1>1. CASE ReadEnd(c)
  BY <1>1, FailsSteady DEF ReadEnd
<1>2. CASE ReadMessage(c)
  <2> DEFINE frame == Head(link[c].wire)
  <2>1. /\ link[c].wire # <<>>
        /\ \/ FailTransport(c, "protocol", TRUE)
           \/ frame.kind = "res" /\ DispatchResponse(c, frame)
           \/ DispatchEvent(c, frame)
    <3>1. CASE frame.kind = "bad"
      BY <1>2, <3>1 DEF ReadMessage
    <3>2. CASE frame.kind = "res"
      BY <1>2, <3>2 DEF ReadMessage
    <3>3. CASE frame.kind \notin {"bad", "res"}
      BY <1>2, <3>3 DEF ReadMessage
    <3> QED BY <3>1, <3>2, <3>3
  <2> QED BY <2>1, FailsSteady, ResponseSteady, EventSteady
<1> QED BY <1>1, <1>2 DEF ReadConnection

\* The steps of main that are steady: a dial, a release, and handing over.
LEMMA ReleaseSteady ==
  ASSUME ClientShape, LinkShape, CallShape, RecvReady, client' = Released,
         link' = link, call' = call
  PROVE  Steady /\ Received \in Queued
<1> DEFINE q == client.queue
           t == Tail(q)
<1>1. SeqLike(q) /\ q # <<>>
  BY DEF ClientShape, RecvReady
<1>2. ToSet(t) \subseteq ToSet(q) /\ Head(q) \in ToSet(q)
  BY <1>1, HeldTail
<1>3. client' = [client EXCEPT !.queue = t]
  BY DEF Released
<1>4. CallShape' /\ \A r \in Proc : Kept(r)
  BY SameCalls
<1> HIDE DEF t
<1>5. client'.queue = t /\ client'.pending = client.pending
  BY <1>3 DEF ClientShape
<1>6. Queued' \subseteq Queued /\ Received \in Queued
  BY <1>2, <1>5 DEF Queued, Received
<1>7. OnWires' \subseteq OnWires /\ Asked' \subseteq Asked
  BY SameLinks
<1> QED BY <1>4, <1>5, <1>6, <1>7 DEF Steady, Shrinks

LEMMA DialSteady ==
  ASSUME ClientShape, LinkShape, CallShape, Dial
  PROVE  Steady
<1> DEFINE c == client.gen + 1
           none == <<>>
           l == [Unused EXCEPT !.socket = "open", !.peer = TRUE, !.reader = "reading"]
<1>1. /\ c \in Conn /\ call' = Woken(client.pending)
      /\ client' = [client EXCEPT !.conn = c, !.gen = c, !.err = "nil", !.fatal = FALSE,
                      !.await = TRUE, !.queue = none, !.pending = {}, !.connected = FALSE]
      /\ link' = [SocketClosed(client.conn) EXCEPT ![c] = l]
  BY DEF Dial
<1>2. l.wire = none /\ l.inbox = {} /\ ToSet(none) = {}
  BY HeldEmpty DEF Unused
<1> HIDE DEF c, none, l
<1>3. SocketClosed(client.conn) = [d \in Conn |-> SocketClosed(client.conn)[d]]
  BY ClosedLinks
<1>4. link'[c] = l /\ \A d \in Conn : d # c => link'[d] = SocketClosed(client.conn)[d]
  BY <1>1, <1>3
<1>5. \A d \in Conn : /\ ToSet(link'[d].wire) \subseteq ToSet(link[d].wire)
                     /\ link'[d].inbox \subseteq link[d].inbox
  BY <1>2, <1>4, ClosedLess
<1>6. OnWires' \subseteq OnWires /\ Asked' \subseteq Asked
  BY <1>5, LessFlow
<1>7. CallShape' /\ \A r \in Proc : Kept(r)
  BY <1>1, WokenCalls
<1>8. client'.queue = none /\ client'.pending = {}
  BY <1>1 DEF ClientShape
<1> QED BY <1>2, <1>6, <1>7, <1>8 DEF Steady, Shrinks, Queued

LEMMA HandOverSteady ==
  ASSUME ClientShape, LinkShape, CallShape, HandOver
  PROVE  Steady
<1> DEFINE none == <<>>
<1>1. /\ call' = call /\ link' = SocketClosed(client.conn)
      /\ client' = [conn |-> 0, gen |-> client.gen, err |-> "nil", fatal |-> FALSE,
                    await |-> FALSE, queue |-> none, pending |-> {}, connected |-> FALSE,
                    delivers |-> FALSE]
  BY DEF HandOver, NewClient
<1>2. ToSet(none) = {}
  BY HeldEmpty
<1> HIDE DEF none
<1>3. client'.queue = none /\ client'.pending = {}
  BY <1>1
<1>4. OnWires' \subseteq OnWires /\ Asked' \subseteq Asked
  BY <1>1, ClosedFlow
<1>5. CallShape' /\ \A r \in Proc : Kept(r)
  BY <1>1, SameCalls
<1> QED BY <1>2, <1>3, <1>4, <1>5 DEF Steady, Shrinks, Queued

(***************************************************************************)
(* A call begins, ends or is taken back: the others stay as they are.      *)
(***************************************************************************)
Alone(p) == CallShape' /\ (\A r \in Proc : r # p => call'[r] = call[r]) /\ Replies(p)' = {}

LEMMA AloneAt ==
  ASSUME CallShape, NEW p \in Proc, NEW X, call' = [call EXCEPT ![p] = X],
         X = [at |-> X.at, id |-> X.id, conn |-> X.conn, method |-> X.method, arg |-> X.arg,
              replies |-> X.replies, result |-> X.result],
         X.replies = <<>>
  PROVE  Alone(p) /\ call'[p] = X
<1> DEFINE none == <<>>
<1>1. SeqLike(none) /\ ToSet(none) = {} /\ X.replies = none
  BY EmptyLike, HeldEmpty
<1> HIDE DEF none
<1>2. /\ call' = [r \in Proc |-> call'[r]] /\ call'[p] = X
      /\ \A r \in Proc : r # p => call'[r] = call[r]
  BY OtherCalls
<1>3. CallShape'
  BY <1>1, <1>2, ShapeOne
<1> QED BY <1>1, <1>2, <1>3 DEF Alone, Replies

LEMMA Resumes ==
  ASSUME CallShape, NEW p \in Proc, Resume(p)
  PROVE  Alone(p) /\ call'[p].at = "idle" /\ call'[p].id = 0
<1>1. /\ Idle = [at |-> Idle.at, id |-> Idle.id, conn |-> Idle.conn, method |-> Idle.method,
                 arg |-> Idle.arg, replies |-> Idle.replies, result |-> Idle.result]
      /\ Idle.replies = <<>> /\ Idle.at = "idle" /\ Idle.id = 0
  <2> DEFINE none == <<>>
  <2>1. Idle = [at |-> "idle", id |-> 0, conn |-> 0, method |-> "none",
                arg |-> 0, replies |-> none, result |-> None]
    BY DEF Idle
  <2> HIDE DEF none
  <2>2. Idle.replies = none
    BY <2>1
  <2> QED BY <2>1, <2>2 DEF none
<1>2. Alone(p) /\ call'[p] = Idle
  BY <1>1, AloneAt DEF Resume
<1> QED BY <1>1, <1>2

LEMMA Finishes ==
  ASSUME CallShape, NEW p \in Proc, NEW frame, call' = Finished(p, frame)
  PROVE  /\ Alone(p) /\ call'[p].at = "done" /\ call'[p].id = 0
         /\ call'[p].method = call[p].method /\ call'[p].arg = call[p].arg
         /\ call'[p].result = [frame EXCEPT !.id = 0]
<1> DEFINE res == [frame EXCEPT !.id = 0]
           none == <<>>
           X == [call[p] EXCEPT !.at = "done", !.result = res, !.id = 0,
                                !.conn = 0, !.replies = none]
<1>1. call' = [call EXCEPT ![p] = X]
  BY DEF Finished, CallShape
<1>2. call[p] = [at |-> call[p].at, id |-> call[p].id, conn |-> call[p].conn,
                 method |-> call[p].method, arg |-> call[p].arg,
                 replies |-> call[p].replies, result |-> call[p].result]
  BY DEF CallShape
<1>3. X = [call[p] EXCEPT !.at = "done", !.result = res, !.id = 0,
                          !.conn = 0, !.replies = none]
  OBVIOUS
<1> HIDE DEF res, none, X
<1>4. X = [at |-> "done", id |-> 0, conn |-> 0, method |-> call[p].method,
           arg |-> call[p].arg, replies |-> none, result |-> res]
  BY <1>2, <1>3
<1>5. /\ X = [at |-> X.at, id |-> X.id, conn |-> X.conn, method |-> X.method, arg |-> X.arg,
              replies |-> X.replies, result |-> X.result]
      /\ X.replies = none /\ X.at = "done" /\ X.id = 0 /\ X.method = call[p].method
      /\ X.arg = call[p].arg /\ X.result = res
  BY <1>4
<1>6. Alone(p) /\ call'[p] = X
  <2>1. X.replies = <<>>
    BY <1>5 DEF none
  <2> QED BY <1>1, <1>5, <2>1, AloneAt
<1> QED BY <1>5, <1>6 DEF res

\* What a new call sends, if anything.
LEMMA ArrivesFlow ==
  ASSUME ClientShape, LinkShape, NEW q, client.conn # 0, link' = Arrives(link, client.conn, q)
  PROVE  /\ OnWires' \subseteq OnWires
         /\ \A x \in Asked' : x \in Asked \/ x = At(client.conn, q)
<1>1. PICK c \in Conn : c = client.conn
  BY DEF ClientShape
<1>2. OneLink(link[c]) /\ link = [d \in Conn |-> link[d]]
  BY DEF LinkShape
<1>3. /\ \A d \in Conn : d # c => link'[d] = link[d]
      /\ link'[c] = [link[c] EXCEPT !.inbox = @ \cup {q}]
  BY <1>1, <1>2 DEF Arrives
<1>4. link'[c].wire = link[c].wire /\ link'[c].inbox = link[c].inbox \cup {q}
  BY <1>2, <1>3 DEF OneLink
<1>5. OnWires' \subseteq OnWires
  <2>1. \A d \in Conn : link'[d].wire = link[d].wire
    BY <1>3, <1>4
  <2> QED BY <2>1 DEF OnWires
<1>6. PICK J : J = {q}
  OBVIOUS
<1>7. link'[c].inbox \subseteq link[c].inbox \cup J
  BY <1>4, <1>6
<1>8. \A x \in Asked' : x \in Asked \/ \E r \in J : x = At(c, r)
  BY <1>3, <1>7, AsksFlow
<1> QED BY <1>1, <1>5, <1>6, <1>8

LEMMA BeginsCall ==
  ASSUME ClientShape, LinkShape, CallShape, IsFiniteSet(IdsInUse),
         NEW p \in Proc, NEW method, NEW arg, Begin(p, method, arg)
  PROVE  /\ Alone(p) /\ OnWires' \subseteq OnWires /\ Queued' = Queued
         /\ call'[p].method = method /\ call'[p].arg = arg
         /\ \/ /\ call'[p].at = "done" /\ call'[p].id = 0 /\ Asked' \subseteq Asked
               /\ call'[p].result.what \in {"unsent", "sending"}
               /\ client'.pending = client.pending
            \/ \E id, c : /\ id \notin IdsInUse /\ id # 0
                          /\ call'[p].at = "await" /\ call'[p].id = id
                          /\ call'[p].result.what = "none"
                          /\ client'.pending = client.pending \cup {id}
                          /\ \A x \in Asked' : x \in Asked \/ x = At(c, Request(id, method, arg))
<1>0. PICK id : id = NextId
  OBVIOUS
<1>1. id \notin IdsInUse /\ id # 0
  BY <1>0, Fresh1
<1> DEFINE X(at, what) ==
             [Idle EXCEPT !.at = at, !.method = method, !.arg = arg,
                          !.id = IF at = "await" THEN id ELSE 0,
                          !.conn = IF at = "await" THEN client.conn ELSE 0,
                          !.result = [Failure EXCEPT !.what = what]]
           Calls1(at, what) == call' = [call EXCEPT ![p] = X(at, what)]
<1>2. \/ Calls1("done", "unsent") /\ UNCHANGED <<client, link>>
      \/ Calls1("done", "sending") /\ client' = client /\ link' = link
      \/ Calls1("done", "sending") /\ client' = client /\ link' = SocketClosed(client.conn)
      \/ /\ Calls1("await", "none") /\ client.conn # 0
         /\ link' = Arrives(link, client.conn, Request(id, method, arg))
         /\ client' = [client EXCEPT !.pending = @ \cup {id}]
  <2> HIDE DEF X
  <2>1. /\ X("done", "unsent") = [Idle EXCEPT !.at = "done", !.method = method, !.arg = arg,
                          !.id = IF "done" = "await" THEN id ELSE 0,
                          !.conn = IF "done" = "await" THEN client.conn ELSE 0,
                          !.result = [Failure EXCEPT !.what = "unsent"]]
        /\ X("done", "sending") = [Idle EXCEPT !.at = "done", !.method = method, !.arg = arg,
                          !.id = IF "done" = "await" THEN id ELSE 0,
                          !.conn = IF "done" = "await" THEN client.conn ELSE 0,
                          !.result = [Failure EXCEPT !.what = "sending"]]
        /\ X("await", "none") = [Idle EXCEPT !.at = "await", !.method = method, !.arg = arg,
                          !.id = IF "await" = "await" THEN id ELSE 0,
                          !.conn = IF "await" = "await" THEN client.conn ELSE 0,
                          !.result = [Failure EXCEPT !.what = "none"]]
    BY DEF X
  <2> QED BY <1>0, <2>1, Zenon DEF Begin, SendFails
<1>3. ASSUME NEW at, NEW what, Calls1(at, what)
      PROVE  /\ Alone(p) /\ call'[p].at = at /\ call'[p].method = method /\ call'[p].arg = arg
             /\ call'[p].result.what = what
             /\ call'[p].id = IF at = "await" THEN id ELSE 0
  <2> DEFINE i == IF at = "await" THEN id ELSE 0
             conn == IF at = "await" THEN client.conn ELSE 0
             res == [Failure EXCEPT !.what = what]
             none == <<>>
             Y == X(at, what)
  <2>1. res.what = what
    BY DEF Failure, Frame
  <2>2. Idle = [at |-> "idle", id |-> 0, conn |-> 0, method |-> "none",
                arg |-> 0, replies |-> none, result |-> None]
    BY DEF Idle
  <2>3. Y = [Idle EXCEPT !.at = at, !.method = method, !.arg = arg, !.id = i,
                         !.conn = conn, !.result = res]
    OBVIOUS
  <2>4. call' = [call EXCEPT ![p] = Y]
    BY <1>3
  <2> HIDE DEF i, conn, res, none, Y
  <2>5. Y = [at |-> at, id |-> i, conn |-> conn, method |-> method, arg |-> arg,
             replies |-> none, result |-> res]
    BY <2>2, <2>3
  <2>6. /\ Y = [at |-> Y.at, id |-> Y.id, conn |-> Y.conn, method |-> Y.method, arg |-> Y.arg,
                replies |-> Y.replies, result |-> Y.result]
        /\ Y.replies = none /\ Y.at = at /\ Y.id = i /\ Y.method = method
        /\ Y.arg = arg /\ Y.result = res
    BY <2>5
  <2>7. Alone(p) /\ call'[p] = Y
    <3>1. Y.replies = <<>>
      BY <2>6 DEF none
    <3> QED BY <2>4, <2>6, <3>1, AloneAt
  <2> QED BY <2>1, <2>6, <2>7 DEF i
<1> HIDE DEF Calls1
<1>4. ASSUME NEW what \in {"unsent", "sending"}, Calls1("done", what)
      PROVE  /\ Alone(p) /\ call'[p].at = "done" /\ call'[p].id = 0 /\ call'[p].method = method
             /\ call'[p].arg = arg /\ call'[p].result.what = what
  BY <1>3, <1>4
<1>5. CASE Calls1("done", "unsent") /\ UNCHANGED <<client, link>>
  BY <1>4, <1>5, SameLinks DEF Queued
<1>6. CASE Calls1("done", "sending") /\ client' = client /\ link' = link
  BY <1>4, <1>6, SameLinks DEF Queued
<1>7. CASE Calls1("done", "sending") /\ client' = client /\ link' = SocketClosed(client.conn)
  BY <1>4, <1>7, ClosedFlow DEF Queued
<1>8. CASE /\ Calls1("await", "none") /\ client.conn # 0
           /\ link' = Arrives(link, client.conn, Request(id, method, arg))
           /\ client' = [client EXCEPT !.pending = @ \cup {id}]
  <2>1. /\ Alone(p) /\ call'[p].at = "await" /\ call'[p].id = id /\ call'[p].method = method
        /\ call'[p].arg = arg /\ call'[p].result.what = "none"
    BY <1>3, <1>8
  <2>2. /\ OnWires' \subseteq OnWires
        /\ \A x \in Asked' : x \in Asked \/ x = At(client.conn, Request(id, method, arg))
    BY <1>8, ArrivesFlow
  <2>3. client'.queue = client.queue /\ client'.pending = client.pending \cup {id}
    BY <1>8 DEF ClientShape
  <2> QED BY <1>1, <2>1, <2>2, <2>3 DEF Queued
<1> QED BY <1>2, <1>5, <1>6, <1>7, <1>8

-----------------------------------------------------------------------------
(***************************************************************************)
(* What the parts of the invariant need of a step.  Agent runs start, and  *)
(* stay finished once they are.                                            *)
(***************************************************************************)
RunsGrow == Started \subseteq Started' /\ \A r : Final(r) => Final(r)'

\* A step that sends no frame and no request for an agent run, and leaves the
\* call of processEvents where it is.
Carries ==
  /\ CallShape' /\ Kept("events") /\ IsFiniteSet(IdsInUse')
  /\ OnWires' \subseteq OnWires /\ Queued' \subseteq Queued \cup OnWires
  /\ Replies("main")' \subseteq Replies("main") \cup {Failure} \cup OnWires
  /\ \A x \in Asked' : \/ x \in Asked
                       \/ x[2].id \notin IdsInUse /\ ~Asks(x, "agent") /\ ~Asks(x, "toolCall")

LEMMA Callers == "main" \in Proc /\ "events" \in Proc
  BY ProcAssumption

IdsAre ==
  \A i : i \in IdsInUse <=> \/ i \in client.pending
                            \/ \E p \in Proc : i = call[p].id
                            \/ \E x \in Asked : i = x[2].id
                            \/ \E f \in OnWires : f.kind = "res" /\ i = f.id
LEMMA InUseNext == IdsAre'
<1>1. IdsAre
  BY InUse DEF IdsAre
<1> QED BY <1>1, PTL

LEMMA IdsFlow ==
  ASSUME IsFiniteSet(IdsInUse), NEW i, NEW j,
         client'.pending \subseteq IdsInUse \cup {i, j},
         \A p \in Proc : call'[p].id \in IdsInUse \cup {i, j},
         \A x \in Asked' : x[2].id \in IdsInUse \cup {i, j},
         \A f \in OnWires' : f.kind = "res" => f.id \in IdsInUse \cup {i, j}
  PROVE  IsFiniteSet(IdsInUse')
<1>1. \A k : k \in IdsInUse' <=> \/ k \in client'.pending
                                 \/ \E p \in Proc : k = call'[p].id
                                 \/ \E x \in Asked' : k = x[2].id
                                 \/ \E f \in OnWires' : f.kind = "res" /\ k = f.id
  BY InUseNext DEF IdsAre
<1>2. IdsInUse' \subseteq IdsInUse \cup {i, j}
  <2> SUFFICES ASSUME NEW k \in IdsInUse' PROVE k \in IdsInUse \cup {i, j}
    OBVIOUS
  <2> HIDE DEF IdsInUse, Asked, OnWires
  <2> QED BY <1>1
<1> QED BY <1>2, StillFinite

LEMMA SteadyIds ==
  ASSUME IsFiniteSet(IdsInUse), Steady
  PROVE  IsFiniteSet(IdsInUse')
<1>1. client'.pending \subseteq IdsInUse \cup {0, 0}
  BY InUse DEF Steady, Shrinks
<1>2. \A p \in Proc : call'[p].id \in IdsInUse \cup {0, 0}
  BY InUse DEF Steady, Kept
<1>3. \A x \in Asked' : x[2].id \in IdsInUse \cup {0, 0}
  BY InUse DEF Steady, Shrinks
<1>4. \A f \in OnWires' : f.kind = "res" => f.id \in IdsInUse \cup {0, 0}
  BY InUse DEF Steady, Shrinks
<1> QED BY <1>1, <1>2, <1>3, <1>4, IdsFlow

LEMMA SteadyCarries ==
  ASSUME IsFiniteSet(IdsInUse), Steady
  PROVE  Carries
<1>1. IsFiniteSet(IdsInUse')
  BY SteadyIds
<1>2. Kept("events") /\ Kept("main")
  BY Callers DEF Steady
<1> QED BY <1>1, <1>2 DEF Steady, Shrinks, Carries, Kept

LEMMA TruthKept ==
  ASSUME RunsGrow, mode' = mode, NEW f, FrameTrue(f)
  PROVE  FrameTrue(f)'
  BY DEF RunsGrow, FrameTrue

LEMMA FailureTrue == FrameTrue(Failure)' /\ FrameTrue(Failure)
  BY DEF FrameTrue, Failure, Frame

LEMMA FramesKept ==
  ASSUME Frames, RunsGrow, mode' = mode, NEW E, \A f \in E : FrameTrue(f)',
         OnWires' \subseteq OnWires \cup E, Queued' \subseteq Queued \cup OnWires,
         Replies("main")' \subseteq Replies("main") \cup {Failure} \cup OnWires,
         Replies("events")' \subseteq Replies("events") \cup {Failure} \cup OnWires
  PROVE  Frames'
<1> SUFFICES ASSUME NEW f \in (OnWires \cup Queued \cup Replies("main") \cup Replies("events"))'
             PROVE  FrameTrue(f)'
  BY DEF Frames
<1>1. CASE f \in E
  BY <1>1
<1>2. CASE f = Failure
  BY <1>2, FailureTrue
<1>3. CASE f \in OnWires \cup Queued \cup Replies("main") \cup Replies("events")
  BY <1>3, TruthKept DEF Frames
<1> QED BY <1>1, <1>2, <1>3

LEMMA RequestsKept ==
  ASSUME Requests, UNCHANGED <<mode, runs, arrived>>,
         \A x \in Asked' : Asks(x, "agent") \/ Asks(x, "toolCall") => x \in Asked
  PROVE  Requests'
<1>1. Started' = Started
  BY DEF Started
<1> HIDE DEF Started, Asked
<1> QED BY <1>1 DEF Requests, Asks

LEMMA MineLess ==
  ASSUME Kept("events"), OnWires' \subseteq OnWires
  PROVE  Mine' \subseteq Mine
  BY DEF Kept, Mine, Answering, EventsCall

LEMMA CorrelatedKept ==
  ASSUME Correlated, Carries, RunsGrow
  PROVE  Correlated'
<1>1. Mine' \subseteq Mine
  BY MineLess DEF Carries
<1>2. /\ EventsCall'.at = EventsCall.at /\ EventsCall'.id = EventsCall.id
      /\ EventsCall'.method = EventsCall.method /\ EventsCall'.arg = EventsCall.arg
      /\ EventsCall'.result = EventsCall.result
  BY DEF Carries, Kept, EventsCall
<1>3. EventsCall.id \in IdsInUse
  BY InUse, Callers DEF EventsCall
<1>4. \A x \in Asked' : x[2].id = EventsCall.id => x \in Asked
  BY <1>3 DEF Carries
<1> HIDE DEF EventsCall, Asked, Mine
<1>5. CASE EventsCall.at = "await"
  BY <1>1, <1>2, <1>4, <1>5 DEF Correlated, RunsGrow
<1>6. CASE EventsCall.at # "await"
  BY <1>2, <1>6 DEF Correlated, RunsGrow
<1> QED BY <1>5, <1>6

LEMMA ConsultsKept ==
  ASSUME Consults, Carries, UNCHANGED <<mode, runs>>, result'.runs = result.runs,
         Clean' => Clean, Consulting' <=> Consulting
  PROVE  Consults'
<1>1. Mine' \subseteq Mine
  BY MineLess DEF Carries
<1>2. /\ EventsCall'.at = EventsCall.at /\ EventsCall'.id = EventsCall.id
      /\ EventsCall'.result = EventsCall.result
  BY DEF Carries, Kept, EventsCall
<1>3. Started' = Started
  BY DEF Started
<1>4. \A x \in Asked' : Asks(x, "toolCall") => x \in Asked
  BY DEF Carries
<1>5. NoToolCall => NoToolCall'
  BY <1>4 DEF NoToolCall, Asks
<1> SUFFICES ASSUME mode = "realtime", Clean, Clean'
             PROVE /\ ~Consulting' => Started' \subseteq result'.runs /\ NoToolCall'
                   /\ Consulting' /\ EventsCall'.at = "await" =>
                        /\ \A x \in Asked' : Asks(x, "toolCall") =>
                             /\ x[2].id = EventsCall'.id
                             /\ Started' \subseteq result'.runs /\ Mine' = {}
                        /\ \A x, y \in Asked' : Asks(x, "toolCall") /\ Asks(y, "toolCall") => x = y
                        /\ \A f \in Mine' :
                             f.what = "ok" => Started' \subseteq result'.runs \cup {f.run}
                   /\ Consulting' /\ EventsCall'.at = "done" /\ EventsCall'.result.what = "ok" =>
                        Started' \subseteq result'.runs \cup {EventsCall'.result.run} /\ NoToolCall'
  BY DEF Consults, Asks
<1> HIDE DEF EventsCall, Asked, Mine, Started, NoToolCall, Consulting, Clean
<1>6. CASE ~Consulting
  BY <1>3, <1>5, <1>6 DEF Consults
<1>7. CASE Consulting /\ EventsCall.at = "await"
  BY <1>1, <1>2, <1>3, <1>4, <1>7 DEF Consults
<1>8. CASE Consulting /\ EventsCall.at # "await"
  BY <1>2, <1>3, <1>5, <1>8 DEF Consults
<1> QED BY <1>6, <1>7, <1>8

\* processEvents is where it was, with the agent runs it had.
EvStays ==
  /\ ev'.at = ev.at /\ ev'.err = ev.err /\ ev'.run = ev.run /\ ev'.active = ev.active
  /\ ev'.completed = ev.completed /\ ev'.failed = ev.failed /\ ev'.todo = ev.todo

LEMMA AccountedKept ==
  ASSUME Accounted, RunsGrow, EvStays, result' = result
  PROVE  Accounted'
  BY DEF Accounted, RunsGrow, Clean, EvStays

LEMMA SameRuns ==
  ASSUME runs' = runs
  PROVE  RunsGrow
  BY DEF RunsGrow, Started, Final

LEMMA CarriesMost ==
  ASSUME VerdictInv, Carries, UNCHANGED <<mode, runs, arrived>>,
         result' = [errors |-> result'.errors, runs |-> result'.runs, done |-> result'.done,
                    pending |-> result'.pending]
  PROVE  CallShape' /\ OutcomeShape' /\ Frames' /\ Requests' /\ Correlated'
<1>1. RunsGrow
  BY SameRuns
<1>2. OutcomeShape'
  BY DEF VerdictInv, Reports, OutcomeShape, Carries
<1>3. Frames'
  <2>1. Replies("events")' \subseteq Replies("events") \cup {Failure} \cup OnWires
    BY DEF Carries, Kept
  <2>2. PICK E : E = {}
    OBVIOUS
  <2>3. OnWires' \subseteq OnWires \cup E /\ \A f \in E : FrameTrue(f)'
    BY <2>2 DEF Carries
  <2> QED BY <1>1, <2>1, <2>3, FramesKept DEF Carries, VerdictInv, Reports
<1>4. Requests'
  BY RequestsKept DEF VerdictInv, Reports, Carries
<1>5. Correlated'
  BY <1>1, CorrelatedKept DEF VerdictInv, Reports
<1> QED BY <1>2, <1>3, <1>4, <1>5 DEF Carries

\* A step of another goroutine than processEvents.
LEMMA CarriesKeeps ==
  ASSUME VerdictInv, Carries, UNCHANGED <<mode, result, runs, arrived>>, EvStays
  PROVE  /\ CallShape' /\ OutcomeShape' /\ Frames' /\ Requests' /\ Correlated'
         /\ Consults' /\ Accounted'
<1>1. CallShape' /\ OutcomeShape' /\ Frames' /\ Requests' /\ Correlated'
  <2>1. result' = [errors |-> result'.errors, runs |-> result'.runs, done |-> result'.done,
                   pending |-> result'.pending]
    BY DEF VerdictInv, Reports, OutcomeShape
  <2> QED BY <2>1, CarriesMost
<1>2. Consults'
  <2>1. Consulting' <=> Consulting
    BY DEF Consulting, EventsCall, Carries, Kept, EvStays
  <2>2. Clean' => Clean
    BY DEF Clean, EvStays
  <2> QED BY <2>1, <2>2, ConsultsKept DEF VerdictInv, Reports
<1>3. Accounted'
  BY SameRuns, AccountedKept DEF VerdictInv, Reports
<1> QED BY <1>1, <1>2, <1>3

-----------------------------------------------------------------------------
(* The steps of a goroutine's own call *)

LEMMA OthersKept ==
  ASSUME NEW p \in Proc, Alone(p), NEW r \in Proc, r # p
  PROVE  Kept(r)
  BY DEF Alone, Kept, Replies

LEMMA Resumed ==
  ASSUME VerdictInv, NEW p \in Proc, Resume(p), link' = link, client'.queue = client.queue,
         client'.pending \subseteq client.pending
  PROVE  /\ Alone(p) /\ call'[p].at = "idle" /\ IsFiniteSet(IdsInUse')
         /\ OnWires' = OnWires /\ Asked' = Asked /\ Queued' = Queued
<1>1. CallShape /\ IsFiniteSet(IdsInUse)
  BY DEF VerdictInv, Reports, OutcomeShape
<1>2. Alone(p) /\ call'[p].at = "idle" /\ call'[p].id = 0
  BY <1>1, Resumes
<1>3. OnWires' = OnWires /\ Asked' = Asked /\ Queued' = Queued
  BY SameLinks DEF Queued
<1>4. client'.pending \subseteq IdsInUse \cup {0, 0}
  BY InUse
<1>5. \A r \in Proc : call'[r].id \in IdsInUse \cup {0, 0}
  BY <1>2, InUse DEF Alone
<1>6. \A x \in Asked' : x[2].id \in IdsInUse \cup {0, 0}
  BY <1>3, InUse
<1>7. \A f \in OnWires' : f.kind = "res" => f.id \in IdsInUse \cup {0, 0}
  BY <1>3, InUse
<1>8. IsFiniteSet(IdsInUse')
  BY <1>1, <1>4, <1>5, <1>6, <1>7, IdsFlow
<1> QED BY <1>2, <1>3, <1>8

LEMMA BegunCall ==
  ASSUME VerdictInv, NEW p \in Proc, NEW method, NEW arg, Begin(p, method, arg)
  PROVE  /\ Alone(p) /\ OnWires' \subseteq OnWires /\ Queued' = Queued
         /\ call'[p].method = method /\ call'[p].arg = arg /\ IsFiniteSet(IdsInUse')
         /\ \/ /\ call'[p].at = "done" /\ Asked' \subseteq Asked
               /\ call'[p].result.what \in {"unsent", "sending"}
            \/ /\ call'[p].at = "await" /\ call'[p].result.what = "none"
               /\ call'[p].id \notin IdsInUse
               /\ \E c : \A x \in Asked' :
                    x \in Asked \/ x = At(c, Request(call'[p].id, method, arg))
<1>1. CallShape /\ ClientShape /\ LinkShape /\ IsFiniteSet(IdsInUse)
  BY DEF VerdictInv, Reports, OutcomeShape, SequenceInv
<1>2. /\ Alone(p) /\ OnWires' \subseteq OnWires /\ Queued' = Queued
      /\ call'[p].method = method /\ call'[p].arg = arg
      /\ \/ /\ call'[p].at = "done" /\ call'[p].id = 0 /\ Asked' \subseteq Asked
            /\ call'[p].result.what \in {"unsent", "sending"}
            /\ client'.pending = client.pending
         \/ \E id, c : /\ id \notin IdsInUse /\ id # 0
                       /\ call'[p].at = "await" /\ call'[p].id = id
                       /\ call'[p].result.what = "none"
                       /\ client'.pending = client.pending \cup {id}
                       /\ \A x \in Asked' : x \in Asked \/ x = At(c, Request(id, method, arg))
  BY <1>1, BeginsCall
<1>3. \A f \in OnWires' : f.kind = "res" => f.id \in IdsInUse
  BY <1>2, InUse
<1>4. CASE /\ call'[p].at = "done" /\ call'[p].id = 0 /\ Asked' \subseteq Asked
           /\ call'[p].result.what \in {"unsent", "sending"}
           /\ client'.pending = client.pending
  <2>1. \A r \in Proc : call'[r].id \in IdsInUse \cup {0, 0}
    BY <1>2, <1>4, InUse DEF Alone
  <2>2. \A x \in Asked' : x[2].id \in IdsInUse \cup {0, 0}
    BY <1>4, InUse
  <2>3. client'.pending \subseteq IdsInUse \cup {0, 0}
    BY <1>4, InUse
  <2>4. \A f \in OnWires' : f.kind = "res" => f.id \in IdsInUse \cup {0, 0}
    BY <1>3
  <2>5. IsFiniteSet(IdsInUse')
    BY <1>1, <2>1, <2>2, <2>3, <2>4, IdsFlow
  <2> QED BY <1>2, <1>4, <2>5
<1>5. ASSUME NEW id, NEW c, id \notin IdsInUse, id # 0, call'[p].at = "await",
             call'[p].id = id, call'[p].result.what = "none",
             client'.pending = client.pending \cup {id},
             \A x \in Asked' : x \in Asked \/ x = At(c, Request(id, method, arg))
      PROVE  /\ IsFiniteSet(IdsInUse') /\ call'[p].at = "await" /\ call'[p].id \notin IdsInUse
             /\ call'[p].result.what = "none"
             /\ \E d : \A x \in Asked' :
                  x \in Asked \/ x = At(d, Request(call'[p].id, method, arg))
  <2>1. \A r \in Proc : call'[r].id \in IdsInUse \cup {id, id}
    BY <1>2, <1>5, InUse DEF Alone
  <2>2. At(c, Request(id, method, arg))[2].id = id
    BY DEF At, Request
  <2>3. \A x \in Asked' : x[2].id \in IdsInUse \cup {id, id}
    BY <1>5, <2>2, InUse
  <2>4. client'.pending \subseteq IdsInUse \cup {id, id}
    BY <1>5, InUse
  <2>5. \A f \in OnWires' : f.kind = "res" => f.id \in IdsInUse \cup {id, id}
    BY <1>3
  <2>6. IsFiniteSet(IdsInUse')
    BY <1>1, <2>1, <2>3, <2>4, <2>5, IdsFlow
  <2> QED BY <1>5, <2>6
<1> QED BY <1>2, <1>4, <1>5

LEMMA MainBegins ==
  ASSUME VerdictInv, NEW method, Begin("main", method, 0), method \notin {"agent", "toolCall"}
  PROVE  Carries /\ call'["main"].at # "idle" /\ call'["main"].method = method
<1>1. /\ Alone("main") /\ OnWires' \subseteq OnWires /\ Queued' = Queued
      /\ call'["main"].method = method /\ IsFiniteSet(IdsInUse')
      /\ \/ call'["main"].at = "done" /\ Asked' \subseteq Asked
         \/ /\ call'["main"].at = "await" /\ call'["main"].id \notin IdsInUse
            /\ \E c : \A x \in Asked' :
                 x \in Asked \/ x = At(c, Request(call'["main"].id, method, 0))
  BY BegunCall, Callers
<1>2. Kept("events")
  BY <1>1, OthersKept, Callers
<1>3. \A x \in Asked' : \/ x \in Asked
                        \/ x[2].id \notin IdsInUse /\ ~Asks(x, "agent") /\ ~Asks(x, "toolCall")
  <2>1. \A c, id : /\ At(c, Request(id, method, 0))[2].id = id
                   /\ At(c, Request(id, method, 0))[2].method = method
    BY DEF At, Request
  <2> QED BY <1>1, <2>1 DEF Asks
<1> QED BY <1>1, <1>2, <1>3 DEF Carries, Alone

LEMMA MainResumes ==
  ASSUME VerdictInv, Resume("main"), link' = link, client'.queue = client.queue,
         client'.pending \subseteq client.pending
  PROVE  Carries /\ call'["main"].at = "idle"
<1>1. /\ Alone("main") /\ call'["main"].at = "idle" /\ IsFiniteSet(IdsInUse')
      /\ OnWires' = OnWires /\ Asked' = Asked /\ Queued' = Queued
  BY Resumed, Callers
<1>2. Kept("events")
  BY <1>1, OthersKept, Callers
<1> QED BY <1>1, <1>2 DEF Carries, Alone

-----------------------------------------------------------------------------
(* The main goroutine before the agent's turn *)

Connecting == {"connect", "challenge", "auth"}
Early == Connecting \cup {"create", "append", "join", "close"}

LEMMA EarlySubmission ==
  ASSUME VerdictInv, main.at \in Early, UNCHANGED <<mode, accepted, verdict, arrived>>,
         main'.phase = main.phase,
         main'.at = "agent" => main.phase = "agent" /\ call'["main"].at = "idle"
  PROVE  Submission'
<1>1. arrived = 0 /\ accepted = 0 /\ verdict = "none"
  BY DEF VerdictInv, Reports, Submission, SequenceInv, Control, Early, Connecting
<1>2. /\ main'.phase \in {"talk", "agent"}
      /\ mode' = "realtime" => main'.phase = "talk"
      /\ mode' = "agent" => main'.phase = "agent"
  BY DEF VerdictInv, Reports, Submission
<1> QED BY <1>1, <1>2 DEF Submission, MainCall

LEMMA EventsStand ==
  ASSUME Carries
  PROVE  /\ EventsCall'.at = EventsCall.at /\ EventsCall'.id = EventsCall.id
         /\ EventsCall'.method = EventsCall.method /\ EventsCall'.arg = EventsCall.arg
         /\ EventsCall'.result = EventsCall.result
  BY DEF Carries, Kept, EventsCall

LEMMA EarlyTurns ==
  ASSUME VerdictInv, Carries, main.at \in Early, EvStays,
         UNCHANGED <<mode, result, outcome, verdict>>,
         main'.phase = main.phase,
         main'.at \in Connecting \cup {"create"} => main.at \in Connecting \cup {"create"},
         main'.at = "leave" => \/ main'.err \/ (mode = "voice" /\ main.phase = "talk")
                               \/ (mode = "realtime" /\ ev.at = "done" /\ ~ev.err),
         main'.at = "close" => mode = "voice"
  PROVE  Turns'
<1>1. /\ EventsCall'.at = EventsCall.at /\ EventsCall'.method = EventsCall.method
      /\ outcome # "succeeded"
  BY EventsStand DEF VerdictInv, Reports, Turns, Early, Connecting
<1> HIDE DEF EventsCall
<1>2. Turns
  BY DEF VerdictInv, Reports
<1> QED BY <1>1, <1>2 DEF Turns, Connecting, EvStays

LEMMA EarlyKeeps ==
  ASSUME VerdictInv, Carries, main.at \in Early,
         EvStays,
         UNCHANGED <<mode, result, manager, gatewayState>>, main'.phase = main.phase,
         main'.at = "agent" => main.phase = "agent" /\ call'["main"].at = "idle",
         main'.at \in Connecting \cup {"create"} => main.at \in Connecting \cup {"create"},
         main'.at = "leave" => \/ main'.err \/ (mode = "voice" /\ main.phase = "talk")
                               \/ (mode = "realtime" /\ ev.at = "done" /\ ~ev.err),
         main'.at = "close" => mode = "voice"
  PROVE  Reports'
<1>1. Submission'
  BY EarlySubmission DEF manager, gatewayState
<1>2. Turns'
  BY EarlyTurns DEF manager
<1> QED BY <1>1, <1>2, CarriesKeeps DEF Reports, gatewayState

LEMMA Parts ==
  ASSUME VerdictInv
  PROVE  /\ ClientShape /\ LinkShape /\ LoopShape /\ CallShape /\ IsFiniteSet(IdsInUse)
         /\ main = [at |-> main.at, err |-> main.err, chunk |-> main.chunk, phase |-> main.phase]
  BY DEF VerdictInv, SequenceInv, Reports, OutcomeShape, LoopShape

\* Where a move leads
LEMMA Fares ==
  ASSUME VerdictInv, NEW a
  PROVE  /\ Goto(a) => main'.at = a /\ main'.phase = main.phase /\ main'.err = main.err
         /\ Fail(a) => main'.at = a /\ main'.phase = main.phase /\ main'.err = TRUE
  BY Parts DEF Goto, Fail

LEMMA ConnectReports ==
  ASSUME VerdictInv, ConnectOnce, UNCHANGED <<manager, gatewayState>>
  PROVE  Reports'
<1>0. main.at = "connect" /\ EvStays /\ UNCHANGED <<mode, result>>
  BY DEF EvStays, ConnectOnce, MainOnly
<1>1. Steady
  BY Parts, DialSteady, ClosesSteady DEF ConnectOnce, DialFails
<1>2. Carries
  BY <1>1, Parts, SteadyCarries
<1>3. Fail("leave") \/ Goto("connect") \/ Goto("challenge")
  BY DEF ConnectOnce, Retry
<1>4. /\ main'.phase = main.phase
      /\ main'.at \in {"connect", "challenge"} \/ (main'.at = "leave" /\ main'.err)
  BY <1>3, Fares
<1> QED BY <1>0, <1>2, <1>4, EarlyKeeps DEF Early, Connecting

LEMMA ChallengeReports ==
  ASSUME VerdictInv, AwaitChallenge, UNCHANGED <<manager, gatewayState>>
  PROVE  Reports'
<1>0. main.at = "challenge" /\ EvStays /\ UNCHANGED <<mode, result>>
  BY DEF EvStays, AwaitChallenge, MainOnly
<1>1. Steady
  BY Parts, ReleaseSteady, ClosesSteady DEF AwaitChallenge
<1>2. Carries
  BY <1>1, Parts, SteadyCarries
<1>3. Fail("leave") \/ Goto("connect") \/ Goto("auth")
  BY DEF AwaitChallenge, Retry
<1>4. /\ main'.phase = main.phase
      /\ main'.at \in {"connect", "auth"} \/ (main'.at = "leave" /\ main'.err)
  BY <1>3, Fares
<1> QED BY <1>0, <1>2, <1>4, EarlyKeeps DEF Early, Connecting

LEMMA AuthenticateReports ==
  ASSUME VerdictInv, Authenticate, UNCHANGED <<manager, gatewayState>>
  PROVE  Reports'
<1>0. main.at = "auth" /\ EvStays /\ UNCHANGED <<mode, result>>
  BY DEF EvStays, Authenticate, MainOnly
<1>1. CASE Begin("main", "connect", 0) /\ UNCHANGED main
  <2>1. Carries
    BY <1>1, MainBegins
  <2> QED BY <1>0, <1>1, <2>1, EarlyKeeps DEF Early, Connecting
<1>2. CASE /\ Resume("main") /\ UNCHANGED <<link, ended>>
           /\ client' = [client EXCEPT !.connected = TRUE] \/ UNCHANGED client
           /\ Goto(IF main.phase = "talk" THEN "create" ELSE "agent") \/ Fail("leave")
  <2>1. client'.queue = client.queue /\ client'.pending = client.pending
    BY <1>2, Parts DEF ClientShape
  <2>2. Carries /\ call'["main"].at = "idle"
    BY <1>2, <2>1, MainResumes
  <2>3. main.phase \in {"talk", "agent"}
    BY DEF VerdictInv, Reports, Submission
  <2>4. /\ main'.phase = main.phase
        /\ \/ main'.at = "create" \/ (main'.at = "agent" /\ main.phase = "agent")
           \/ (main'.at = "leave" /\ main'.err)
    <3> DEFINE a == IF main.phase = "talk" THEN "create" ELSE "agent"
    <3>1. Goto(a) \/ Fail("leave")
      BY <1>2
    <3>2. a = "create" \/ (a = "agent" /\ main.phase = "agent")
      BY <2>3
    <3> HIDE DEF a
    <3> QED BY <3>1, <3>2, Fares
  <2> QED BY <1>0, <2>2, <2>4, EarlyKeeps DEF Early, Connecting
<1> QED BY <1>1, <1>2 DEF Authenticate

LEMMA JoinReports ==
  ASSUME VerdictInv, Join, UNCHANGED <<manager, gatewayState>>
  PROVE  Reports'
<1>0. main.at = "join" /\ ev.at = "done" /\ EvStays /\ UNCHANGED <<mode, result>>
  BY DEF EvStays, Join
<1>1. Carries
  BY Parts, StillSteady, SteadyCarries DEF Join, gateway
<1>2. /\ main'.phase = main.phase /\ main'.at = WayOut /\ main'.err = (main.err \/ ev.err)
  BY Parts DEF Join
<1>3. main.phase = "talk" /\ mode \in {"realtime", "voice"}
  BY <1>0 DEF VerdictInv, Reports, SequenceInv, Control, Submission, OutcomeShape
<1>4. CASE mode = "voice"
  <2>1. main'.at = "close"
    BY <1>2, <1>4 DEF WayOut
  <2> QED BY <1>0, <1>1, <1>2, <1>4, <2>1, EarlyKeeps DEF Early, Connecting
<1>5. CASE mode = "realtime"
  <2>1. main'.at = "leave" /\ (main'.err \/ ~ev.err)
    BY <1>2, <1>5 DEF WayOut
  <2> QED BY <1>0, <1>1, <1>2, <1>5, <2>1, EarlyKeeps DEF Early, Connecting
<1> QED BY <1>3, <1>4, <1>5

LEMMA CloseSessionReports ==
  ASSUME VerdictInv, CloseSession, UNCHANGED <<manager, gatewayState>>
  PROVE  Reports'
<1>0. main.at = "close" /\ EvStays /\ UNCHANGED <<mode, result>>
  BY DEF EvStays, CloseSession, MainOnly
<1>1. mode = "voice" /\ main.phase = "talk"
  BY <1>0 DEF VerdictInv, Reports, Turns, SequenceInv, Control
<1>2. CASE Begin("main", "close", 0) /\ UNCHANGED main
  <2>1. Carries
    BY <1>2, MainBegins
  <2> QED BY <1>0, <1>1, <1>2, <2>1, EarlyKeeps DEF Early, Connecting
<1>3. CASE /\ Resume("main") /\ UNCHANGED <<client, link, ended>>
           /\ Goto("leave") \/ Fail("leave")
  <2>1. Carries
    BY <1>3, MainResumes
  <2>2. main'.phase = main.phase /\ main'.at = "leave"
    BY <1>3, Fares
  <2> QED BY <1>0, <1>1, <2>1, <2>2, EarlyKeeps DEF Early, Connecting
<1> QED BY <1>2, <1>3 DEF CloseSession

\* The session is there: processEvents starts with nothing, or it failed.
LEMMA Listens ==
  ASSUME VerdictInv, main.at = "create", Carries, Goto("append"), call'["main"].at = "idle",
         ev' = [NotListening EXCEPT !.at = "recv"],
         UNCHANGED <<mode, result, manager, gatewayState>>
  PROVE  Reports'
<1>1. /\ ev'.at = "recv" /\ ev'.err = FALSE /\ ev'.run = 0 /\ ev'.active = {}
      /\ ev'.completed = {} /\ ev'.failed = {}
  BY DEF NotListening
<1>2. main'.at = "append" /\ main'.phase = main.phase
  BY Fares
<1>3. /\ ev.at = "off" /\ ev.active = {} /\ ev.completed = {} /\ ev.failed = {}
      /\ EventsCall.at = "idle" /\ ~ev.err /\ outcome # "succeeded"
  BY DEF VerdictInv, Reports, Turns, SequenceInv, Control
<1>4. EventsCall'.at = "idle"
  BY <1>3, EventsStand
<1>5. Submission'
  BY <1>2, EarlySubmission DEF Early, manager, gatewayState
<1>6. Turns'
  <2> HIDE DEF EventsCall
  <2> QED BY <1>1, <1>2, <1>3, <1>4 DEF Turns, manager
<1>7. CallShape' /\ OutcomeShape' /\ Frames' /\ Requests' /\ Correlated'
  BY CarriesMost DEF gatewayState, VerdictInv, Reports, OutcomeShape
<1>8. Consults'
  <2>1. ~Consulting /\ ~Consulting' /\ (Clean' => Clean)
    BY <1>1, <1>3 DEF Consulting, Clean
  <2> QED BY <2>1, ConsultsKept DEF VerdictInv, Reports, gatewayState
<1>9. Accounted'
  <2>1. Clean => result.runs \ {0} = {}
    BY <1>3 DEF VerdictInv, Reports, Accounted
  <2> QED BY <1>1, <1>3, <2>1 DEF Accounted, Clean
<1> QED BY <1>5, <1>6, <1>7, <1>8, <1>9 DEF Reports

LEMMA CreateReports ==
  ASSUME VerdictInv, CreateSession, UNCHANGED <<manager, gatewayState>>
  PROVE  Reports'
<1>0. main.at = "create" /\ UNCHANGED <<mode, result>>
  BY DEF CreateSession
<1>1. CASE Begin("main", "create", 0) /\ UNCHANGED <<main, ev>>
  <2>1. Carries /\ EvStays
    BY <1>1, MainBegins DEF EvStays
  <2> QED BY <1>0, <1>1, <2>1, EarlyKeeps DEF Early, Connecting
<1>2. CASE /\ Resume("main") /\ UNCHANGED <<client, link, ended>>
           /\ LoadAudio \/ (Fail("leave") /\ UNCHANGED ev)
  <2>1. Carries /\ call'["main"].at = "idle"
    BY <1>2, MainResumes
  <2>2. CASE (Fail(WayOut) \/ Fail("leave")) /\ UNCHANGED ev
    <3>1. /\ main'.phase = main.phase /\ main'.err
          /\ main'.at = "leave" \/ (main'.at = "close" /\ mode = "voice")
      BY <2>2, Fares DEF WayOut
    <3>2. EvStays
      BY <2>2 DEF EvStays
    <3> QED BY <1>0, <2>1, <3>1, <3>2, EarlyKeeps DEF Early, Connecting
  <2>3. CASE Goto("append") /\ ev' = [NotListening EXCEPT !.at = "recv"]
    BY <1>0, <2>1, <2>3, Listens
  <2> QED BY <1>2, <2>2, <2>3 DEF LoadAudio
<1> QED BY <1>1, <1>2 DEF CreateSession

LEMMA AppendReports ==
  ASSUME VerdictInv, AppendAudio, UNCHANGED <<manager, gatewayState>>
  PROVE  Reports'
<1>0. main.at = "append" /\ UNCHANGED <<mode, result>>
  BY DEF AppendAudio
<1>1. CASE Begin("main", "append", 0) /\ UNCHANGED <<main, ev>>
  <2>1. Carries /\ EvStays
    BY <1>1, MainBegins DEF EvStays
  <2> QED BY <1>0, <1>1, <2>1, EarlyKeeps DEF Early, Connecting
<1>2. CASE /\ Resume("main") /\ UNCHANGED <<client, link>>
           /\ \E last :
                \/ /\ main' = [main EXCEPT !.chunk = @ + 1,
                                           !.at = IF last THEN "join" ELSE "append"]
                   /\ ev' = [ev EXCEPT !.audioDone = last]
                \/ Fail("join") /\ ev' = [ev EXCEPT !.audioDone = TRUE]
  <2>1. Carries
    BY <1>2, MainResumes
  <2>2. main'.at \in {"join", "append"} /\ main'.phase = main.phase
    BY <1>2, Parts DEF Fail
  <2>3. EvStays
    BY <1>2, Parts DEF LoopShape, EvStays
  <2> QED BY <1>0, <2>1, <2>2, <2>3, EarlyKeeps DEF Early, Connecting
<1> QED BY <1>1, <1>2 DEF AppendAudio

-----------------------------------------------------------------------------
(* Client.Agent and Manager.Run *)

LEMMA AgentTurn ==
  ASSUME VerdictInv, main.at = "agent"
  PROVE  /\ verdict = "none" /\ main.phase = "agent" /\ mode \in {"agent", "voice"}
         /\ outcome # "succeeded"
  BY DEF VerdictInv, Reports, Submission, Turns, OutcomeShape

LEMMA AgentEnds ==
  ASSUME VerdictInv, main.at = "agent", NEW v, AgentReturns(v), link' = link,
         UNCHANGED <<mode, ev, result, outcome, gatewayState>>,
         v = "unsent" => arrived = 0, v \in {"unknown", "ok"} => accepted # 0,
         v = "ok" => runs[accepted] = "final"
  PROVE  Reports'
<1>0. /\ verdict = "none" /\ main.phase = "agent" /\ mode \in {"agent", "voice"}
      /\ outcome # "succeeded"
  BY AgentTurn
<1>1. client'.queue = client.queue /\ client'.pending \subseteq client.pending
  BY Parts DEF AgentReturns, Forgotten, ClientShape
<1>2. Carries /\ call'["main"].at = "idle"
  BY <1>1, MainResumes DEF AgentReturns
<1>3. /\ main'.at = "leave" /\ main'.phase = main.phase /\ (main'.err \/ verdict' = "ok")
      /\ verdict' = v /\ accepted' = accepted
  BY Fares DEF AgentReturns
<1>4. Submission'
  BY <1>0, <1>3 DEF Submission, VerdictInv, Reports, gatewayState, Started
<1>5. EventsCall'.at = EventsCall.at /\ EventsCall'.method = EventsCall.method
  BY <1>2, EventsStand
<1>6. Turns'
  <2> HIDE DEF EventsCall
  <2>1. Turns
    BY DEF VerdictInv, Reports
  <2> QED BY <1>0, <1>3, <1>5, <2>1 DEF Turns
<1>7. EvStays
  BY DEF EvStays
<1> QED BY <1>2, <1>4, <1>6, <1>7, CarriesKeeps DEF Reports, gatewayState

\* The request of Client.Agent is the first, and nothing has run before it.
LEMMA AgentBegins ==
  ASSUME VerdictInv, main.at = "agent", Begin("main", "agent", 0),
         UNCHANGED <<mode, main, ev, result, manager, runs>>,
         \/ call'["main"].result.what # "unsent" /\ arrived' = arrived + 1
         \/ call'["main"].at = "done" /\ arrived' = arrived
  PROVE  Reports'
<1>0. /\ verdict = "none" /\ main.phase = "agent" /\ mode \in {"agent", "voice"}
      /\ outcome # "succeeded"
  BY AgentTurn
<1>1. call["main"].at = "idle" /\ arrived = 0 /\ accepted = 0
  BY DEF Begin, VerdictInv, Reports, Submission, MainCall
<1>2. Started = {} /\ \A x \in Asked : ~Asks(x, "agent") /\ ~Asks(x, "toolCall")
  BY <1>0, <1>1 DEF VerdictInv, Reports, Requests
<1>3. /\ Alone("main") /\ OnWires' \subseteq OnWires /\ Queued' = Queued
      /\ call'["main"].method = "agent" /\ IsFiniteSet(IdsInUse')
      /\ \/ /\ call'["main"].at = "done" /\ Asked' \subseteq Asked
            /\ call'["main"].result.what \in {"unsent", "sending"}
         \/ /\ call'["main"].at = "await" /\ call'["main"].result.what = "none"
            /\ call'["main"].id \notin IdsInUse
            /\ \E c : \A x \in Asked' :
                 x \in Asked \/ x = At(c, Request(call'["main"].id, "agent", 0))
  BY BegunCall, Callers
<1>4. Kept("events") /\ RunsGrow
  BY <1>3, OthersKept, Callers, SameRuns
<1>5. /\ arrived' \in {0, 1}
      /\ call'["main"].at = "await" => arrived' = 1
      /\ call'["main"].at = "done" /\ call'["main"].result.what = "unsent" => arrived' = 0
  BY <1>1, <1>3
<1>6. Submission'
  BY <1>0, <1>1, <1>3, <1>5 DEF Submission, VerdictInv, Reports, manager, MainCall
<1>7. /\ EventsCall'.at = EventsCall.at /\ EventsCall'.id = EventsCall.id
      /\ EventsCall'.method = EventsCall.method /\ EventsCall'.arg = EventsCall.arg
      /\ EventsCall'.result = EventsCall.result
  BY <1>4 DEF Kept, EventsCall
<1>8. Turns'
  <2> HIDE DEF EventsCall
  <2>1. Turns
    BY DEF VerdictInv, Reports
  <2> QED BY <1>0, <1>7, <2>1 DEF Turns, manager
<1>9. OutcomeShape'
  BY <1>3, <1>5 DEF VerdictInv, Reports, OutcomeShape
<1>10. Frames'
  <2>1. PICK E : E = {}
    OBVIOUS
  <2>2. OnWires' \subseteq OnWires \cup E /\ \A f \in E : FrameTrue(f)'
    BY <1>3, <2>1
  <2>3. /\ Replies("main")' \subseteq Replies("main") \cup {Failure} \cup OnWires
        /\ Replies("events")' \subseteq Replies("events") \cup {Failure} \cup OnWires
    BY <1>3, <1>4 DEF Alone, Kept
  <2> QED BY <1>3, <1>4, <2>2, <2>3, FramesKept DEF VerdictInv, Reports
<1>11. Started' = Started
  BY DEF Started
<1>12. Requests'
  <2>1. CASE Asked' \subseteq Asked
    BY <1>0, <1>2, <1>11, <2>1 DEF Requests, Asks
  <2>2. ASSUME NEW c, call'["main"].at = "await",
               \A x \in Asked' :
                 x \in Asked \/ x = At(c, Request(call'["main"].id, "agent", 0))
        PROVE  Requests'
    <3>1. PICK y : y = At(c, Request(call'["main"].id, "agent", 0))
      OBVIOUS
    <3>2. y[2].method = "agent" /\ y[2].arg = 0 /\ IsRequest(y[2])
      BY <3>1 DEF At, Request, IsRequest
    <3>3. \A x \in Asked' : Asks(x, "agent") \/ Asks(x, "toolCall") => x = y
      BY <1>2, <2>2, <3>1
    <3>4. arrived' # 0
      BY <1>5, <2>2
    <3> QED BY <1>0, <1>2, <1>11, <3>2, <3>3, <3>4 DEF Requests, Asks
  <2> QED BY <1>3, <2>1, <2>2
<1>13. Correlated'
  <2>1. \A x \in Asked' : x[2].id = EventsCall.id => x \in Asked
    <3>1. EventsCall.id \in IdsInUse
      BY InUse, Callers DEF EventsCall
    <3>2. \A c : At(c, Request(call'["main"].id, "agent", 0))[2].id = call'["main"].id
      BY DEF At, Request
    <3> QED BY <1>3, <3>1, <3>2
  <2>2. Mine' \subseteq Mine
    BY <1>3, <1>4, MineLess
  <2> HIDE DEF EventsCall, Asked, Mine
  <2>3. Correlated
    BY DEF VerdictInv, Reports
  <2>4. CASE EventsCall.at = "await"
    BY <1>4, <1>7, <2>1, <2>2, <2>3, <2>4 DEF Correlated, RunsGrow
  <2>5. CASE EventsCall.at # "await"
    BY <1>4, <1>7, <2>3, <2>5 DEF Correlated, RunsGrow
  <2> QED BY <2>4, <2>5
<1>14. Consults'
  BY <1>0 DEF Consults
<1>15. Accounted'
  <2>1. EvStays
    BY DEF EvStays
  <2> QED BY <1>4, <2>1, AccountedKept DEF VerdictInv, Reports
<1> QED BY <1>3, <1>6, <1>8, <1>9, <1>10, <1>12, <1>13, <1>14, <1>15 DEF Reports, Alone

LEMMA SubmitReports ==
  ASSUME VerdictInv, AgentSubmits
  PROVE  Reports'
<1>0. main.at = "agent" /\ UNCHANGED <<mode, ev, result, outcome, runs, spent>>
  BY DEF AgentSubmits, MainOnly
<1>1. CASE /\ Begin("main", "agent", 0) /\ UNCHANGED <<accepted, verdict, main>>
           /\ \/ call'["main"].result.what # "unsent" /\ arrived' = arrived + 1
              \/ call'["main"].at = "done" /\ UNCHANGED arrived
  BY <1>0, <1>1, AgentBegins DEF manager
<1>2. CASE /\ Returned("main") /\ UNCHANGED <<link, ended, arrived>>
           /\ AgentReturns(IF Answer("main").what = "unsent" THEN "unsent" ELSE "ambiguous")
  <2>1. call["main"].at = "done" /\ (call["main"].result.what = "unsent" => arrived = 0)
    BY <1>0, <1>2 DEF Returned, VerdictInv, Reports, Submission, MainCall
  <2>2. CASE call["main"].result.what = "unsent"
    <3>1. AgentReturns("unsent") /\ arrived = 0
      BY <1>2, <2>1, <2>2 DEF Answer
    <3> QED BY <1>0, <1>2, <3>1, AgentEnds DEF gatewayState
  <2>3. CASE call["main"].result.what # "unsent"
    <3>1. AgentReturns("ambiguous")
      BY <1>2, <2>3 DEF Answer
    <3> QED BY <1>0, <1>2, <3>1, AgentEnds DEF gatewayState
  <2> QED BY <2>2, <2>3
<1> QED BY <1>1, <1>2 DEF AgentSubmits

LEMMA GiveUpReports ==
  ASSUME VerdictInv, AgentGivesUp
  PROVE  Reports'
<1>1. /\ main.at = "agent" /\ UNCHANGED <<mode, ev, result, outcome, gatewayState, link>>
      /\ AgentReturns(Unanswered)
  BY DEF AgentGivesUp, MainOnly
<1>2. CASE accepted = 0
  <2>1. AgentReturns("ambiguous")
    BY <1>1, <1>2 DEF Unanswered
  <2> QED BY <1>1, <2>1, AgentEnds
<1>3. CASE accepted # 0
  <2>1. AgentReturns("unknown")
    BY <1>1, <1>3 DEF Unanswered
  <2> QED BY <1>1, <1>3, <2>1, AgentEnds
<1> QED BY <1>2, <1>3

\* A reply is taken from the channel of a call.
LEMMA RepliesTaken ==
  ASSUME ClientShape, LinkShape, CallShape, NEW p \in Proc, call[p].replies # <<>>,
         call' = [call EXCEPT ![p].replies = Tail(@)], client' = client, link' = link
  PROVE  Steady
<1> DEFINE t == Tail(call[p].replies)
           X == [call[p] EXCEPT !.replies = t]
<1>0. /\ call[p] = [at |-> call[p].at, id |-> call[p].id, conn |-> call[p].conn,
                    method |-> call[p].method, arg |-> call[p].arg,
                    replies |-> call[p].replies, result |-> call[p].result]
      /\ SeqLike(call[p].replies)
  BY DEF CallShape
<1>1. SeqLike(t) /\ ToSet(t) \subseteq ToSet(call[p].replies)
  BY <1>0, TailLike, HeldTail
<1>2. call' = [call EXCEPT ![p] = X]
  BY DEF CallShape
<1>3. X = [call[p] EXCEPT !.replies = t]
  OBVIOUS
<1> HIDE DEF t, X
<1>4. /\ call' = [r \in Proc |-> call'[r]] /\ call'[p] = X
      /\ \A r \in Proc : r # p => call'[r] = call[r]
  BY <1>2, OtherCalls
<1>5. call'[p] = [at |-> call[p].at, id |-> call[p].id, conn |-> call[p].conn,
                  method |-> call[p].method, arg |-> call[p].arg, replies |-> t,
                  result |-> call[p].result]
  <2>1. call'[p] = [call[p] EXCEPT !.replies = t]
    BY <1>3, <1>4
  <2> QED BY <1>0, <2>1
<1>6. /\ call'[p] = [at |-> call'[p].at, id |-> call'[p].id, conn |-> call'[p].conn,
                     method |-> call'[p].method, arg |-> call'[p].arg,
                     replies |-> call'[p].replies, result |-> call'[p].result]
      /\ call'[p].replies = t /\ call'[p].at = call[p].at /\ call'[p].id = call[p].id
      /\ call'[p].method = call[p].method /\ call'[p].arg = call[p].arg
      /\ call'[p].result = call[p].result
  BY <1>5
<1>7. CallShape' /\ \A r \in Proc : r # p => Kept(r)
  BY <1>1, <1>4, <1>6, ShapeOne
<1>8. Kept(p)
  BY <1>1, <1>6 DEF Kept, Replies
<1>9. \A r \in Proc : Kept(r)
  BY <1>7, <1>8
<1> QED BY <1>7, <1>9, SameLinks DEF Steady, Shrinks, Queued

LEMMA ReplyTrue ==
  ASSUME VerdictInv, NEW p \in {"main", "events"}, call[p].replies # <<>>
  PROVE  FrameTrue(Reply(p)) /\ (Reply(p) = Failure \/ Reply(p) \in Replies(p))
<1>1. p \in Proc /\ SeqLike(call[p].replies)
  BY Callers, Parts DEF CallShape
<1>2. Head(call[p].replies) \in Replies(p)
  BY <1>1, HeldTail DEF Replies
<1>3. Reply(p) = Failure \/ Reply(p) \in Replies(p)
  BY <1>2 DEF Reply
<1>4. \A f \in Replies(p) : FrameTrue(f)
  BY DEF VerdictInv, Reports, Frames
<1> HIDE DEF Reply, Failure, FrameTrue
<1> QED BY <1>3, <1>4, FailureTrue

LEMMA AcceptedReports ==
  ASSUME VerdictInv, main.at = "agent", call["main"].replies # <<>>,
         call' = [call EXCEPT !["main"].replies = Tail(@)], accepted' \in Started,
         call["main"].at = "await",
         UNCHANGED <<client, link, mode, main, ev, result, verdict, outcome, gatewayState>>
  PROVE  Reports'
<1>1. Steady
  BY Parts, Callers, RepliesTaken
<1>2. Carries /\ Kept("main") /\ EvStays
  BY <1>1, Parts, SteadyCarries, Callers DEF Steady, EvStays
<1>3. Submission'
  BY <1>2, AgentTurn DEF Kept, Submission, MainCall, VerdictInv, Reports, gatewayState, Started
<1>4. EventsCall'.at = EventsCall.at /\ EventsCall'.method = EventsCall.method
  BY <1>2, EventsStand
<1>5. Turns'
  <2> HIDE DEF EventsCall
  <2>1. Turns
    BY DEF VerdictInv, Reports
  <2> QED BY <1>4, <2>1 DEF Turns
<1> QED BY <1>2, <1>3, <1>5, CarriesKeeps DEF Reports, gatewayState

LEMMA ReplyReports ==
  ASSUME VerdictInv, AgentReply
  PROVE  Reports'
<1> DEFINE reply == Reply("main")
<1>1. /\ main.at = "agent" /\ call["main"].at = "await" /\ call["main"].replies # <<>>
      /\ UNCHANGED <<link, mode, ev, result, outcome, gatewayState>>
  BY DEF AgentReply, MainOnly
<1>2. FrameTrue(reply)
  BY <1>1, ReplyTrue
<1>3. verdict = "none" /\ mode \in {"agent", "voice"}
  BY <1>1, AgentTurn
<1>4. CASE reply = Failure
  <2>1. AgentReturns(Unanswered)
    <3>1. reply.what = "error"
      BY <1>4 DEF Failure, Frame
    <3> HIDE DEF reply
    <3> QED BY <1>4, <3>1 DEF AgentReply, Terminal, reply
  <2>2. CASE accepted = 0
    <3>1. AgentReturns("ambiguous")
      BY <2>1, <2>2 DEF Unanswered
    <3> QED BY <1>1, <3>1, AgentEnds
  <2>3. CASE accepted # 0
    <3>1. AgentReturns("unknown")
      BY <2>1, <2>3 DEF Unanswered
    <3> QED BY <1>1, <2>3, <3>1, AgentEnds
  <2> QED BY <2>2, <2>3
<1> DEFINE Told == reply # Failure /\ reply.what # "no"
           A == accepted = 0 /\ reply.what = "accepted"
           B == accepted # 0 /\ reply.run = accepted /\ Terminal(reply)
<1>5. CASE reply # Failure /\ reply.what = "no"
  <2>1. AgentReturns("rejected")
    BY <1>5 DEF AgentReply, Terminal
  <2> QED BY <1>1, <2>1, AgentEnds
<1>6. CASE Told /\ A
  <2>1. /\ accepted' = reply.run /\ UNCHANGED <<client, main, verdict>>
        /\ call' = [call EXCEPT !["main"].replies = Tail(@)]
    BY <1>6 DEF AgentReply, Terminal
  <2>2. accepted' \in Started
    BY <1>2, <1>6, <2>1 DEF FrameTrue
  <2> QED BY <1>1, <2>1, <2>2, AcceptedReports
<1>7. CASE Told /\ B
  <2>1. AgentReturns("ok")
    BY <1>7 DEF AgentReply
  <2>2. Final(accepted)
    BY <1>2, <1>3, <1>7 DEF FrameTrue, Terminal
  <2>3. accepted \in Run
    BY <1>7 DEF VerdictInv, Reports, Submission, Started
  <2>4. runs[accepted] = "final" /\ accepted # 0
    BY <1>7, <2>2, <2>3 DEF Final
  <2> QED BY <1>1, <2>1, <2>4, AgentEnds
<1>8. CASE Told /\ ~A /\ ~B
  <2>1. AgentReturns("protocol")
    BY <1>8 DEF AgentReply
  <2> QED BY <1>1, <2>1, AgentEnds
<1> QED BY <1>4, <1>5, <1>6, <1>7, <1>8

LEMMA NothingReports ==
  ASSUME VerdictInv, NothingToSay
  PROVE  Reports'
<1>1. /\ main.at = "connect" /\ outcome' = "failed" /\ Goto("returned")
      /\ UNCHANGED <<client, link, call, accepted, verdict, gatewayState, mode, ev, result>>
  BY DEF NothingToSay, MainOnly, gateway
<1>2. Carries /\ EvStays
  BY <1>1, Parts, StillSteady, SteadyCarries DEF EvStays
<1>3. main'.at = "returned" /\ main'.phase = main.phase
  BY <1>1, Fares
<1>4. Submission'
  BY <1>1, <1>3, EarlySubmission DEF Early, Connecting, gatewayState
<1>5. EventsCall'.at = EventsCall.at /\ EventsCall'.method = EventsCall.method
  BY <1>2, EventsStand
<1>6. Turns'
  <2> HIDE DEF EventsCall
  <2>1. Turns
    BY DEF VerdictInv, Reports
  <2> QED BY <1>1, <1>3, <1>5, <2>1 DEF Turns
<1> QED BY <1>1, <1>2, <1>4, <1>6, CarriesKeeps DEF Reports, gatewayState

LEMMA LeaveReports ==
  ASSUME VerdictInv, Leave
  PROVE  Reports'
<1>1. /\ main.at = "leave" /\ Close /\ Goto("returned") /\ (outcome' = "succeeded" => ~Failed)
      /\ mode # "voice" \/ main.phase = "agent" \/ Failed
      /\ UNCHANGED <<accepted, verdict, gatewayState, mode, ev, result>>
  BY DEF Leave, Settles, MainOnly
<1>2. Steady
  BY <1>1, Parts, ClosesSteady
<1>3. Carries /\ EvStays
  BY <1>1, <1>2, Parts, SteadyCarries DEF EvStays
<1>4. main'.at = "returned" /\ main'.phase = main.phase
  BY <1>1, Fares
<1>5. Submission'
  BY <1>1, <1>4 DEF Submission, VerdictInv, Reports, gatewayState, Started
<1>6. EventsCall'.at = EventsCall.at /\ EventsCall'.method = EventsCall.method
  BY <1>3, EventsStand
<1>7. Turns'
  <2> HIDE DEF EventsCall
  <2>1. Turns /\ mode \in {"agent", "realtime", "voice"} /\ (mode = "agent" => main.phase = "agent")
    BY DEF VerdictInv, Reports, OutcomeShape, Submission
  <2>2. outcome' = "succeeded" =>
          /\ ~result.errors
          /\ IF mode = "realtime" THEN ev.at = "done" /\ ~ev.err ELSE verdict = "ok"
    BY <1>1, <2>1 DEF Turns, Failed
  <2> QED BY <1>1, <1>4, <1>6, <2>1, <2>2 DEF Turns
<1> QED BY <1>1, <1>3, <1>5, <1>7, CarriesKeeps DEF Reports, gatewayState

LEMMA HandOverReports ==
  ASSUME VerdictInv, HandOver
  PROVE  Reports'
<1>1. /\ main.at = "leave" /\ mode = "voice" /\ main.phase = "talk" /\ RunAgentWithTranscript
      /\ UNCHANGED <<accepted, verdict, gatewayState, mode, ev, result>>
  BY DEF HandOver, MainOnly
<1>2. Steady
  BY Parts, HandOverSteady
<1>3. Carries /\ EvStays
  BY <1>1, <1>2, Parts, SteadyCarries DEF EvStays
<1>4. /\ outcome # "succeeded" /\ arrived = 0 /\ accepted = 0 /\ verdict = "none"
  BY <1>1 DEF VerdictInv, Reports, Submission, Turns
<1>5. /\ \/ main'.at = "connect" /\ main'.phase = "agent"
         \/ main'.at = "returned" /\ main'.phase = "talk"
      /\ outcome' # "succeeded"
  BY <1>1, <1>4, Parts DEF RunAgentWithTranscript, Goto
<1>6. Submission'
  BY <1>1, <1>4, <1>5 DEF Submission, gatewayState
<1>7. EventsCall'.at = EventsCall.at /\ EventsCall'.method = EventsCall.method
  BY <1>3, EventsStand
<1>8. Turns'
  <2> HIDE DEF EventsCall
  <2>1. Turns
    BY DEF VerdictInv, Reports
  <2> QED BY <1>1, <1>5, <1>7, <2>1 DEF Turns
<1> QED BY <1>1, <1>3, <1>6, <1>8, CarriesKeeps DEF Reports, gatewayState

-----------------------------------------------------------------------------
(* Steps that leave both goroutines where they are *)

LEMMA SubmissionKept ==
  ASSUME VerdictInv, RunsGrow, UNCHANGED <<mode, main, accepted, verdict, arrived>>,
         main.at = "agent" => /\ call'["main"].at = call["main"].at
                              /\ call'["main"].method = call["main"].method
                              /\ call'["main"].result = call["main"].result
  PROVE  Submission'
<1>1. Submission
  BY DEF VerdictInv, Reports
<1>2. accepted # 0 => accepted \in Started'
  BY <1>1 DEF Submission, RunsGrow
<1>3. verdict = "ok" => runs'[accepted] = "final"
  <2> SUFFICES ASSUME verdict = "ok" PROVE runs'[accepted] = "final"
    OBVIOUS
  <2>1. accepted \in Run /\ runs[accepted] = "final"
    BY <1>1 DEF Submission, Started
  <2>2. Final(accepted)
    BY <2>1 DEF Final
  <2>3. Final(accepted)'
    BY <2>2 DEF RunsGrow, Final
  <2> QED BY <2>1, <2>3 DEF Final
<1> HIDE DEF Started
<1> QED BY <1>1, <1>2, <1>3 DEF Submission, MainCall

LEMMA TurnsKept ==
  ASSUME VerdictInv, EvStays, UNCHANGED <<mode, main, result, verdict, outcome>>,
         EventsCall'.at = EventsCall.at, EventsCall'.method = EventsCall.method
  PROVE  Turns'
<1>1. Turns
  BY DEF VerdictInv, Reports
<1> HIDE DEF EventsCall
<1> QED BY <1>1 DEF Turns, EvStays

LEMMA StandReports ==
  ASSUME VerdictInv, Steady, UNCHANGED <<runner, manager, gatewayState>>
  PROVE  Reports'
<1>1. Carries /\ EvStays /\ Kept("main") /\ RunsGrow
  BY Parts, SteadyCarries, Callers, SameRuns DEF Steady, runner, EvStays, gatewayState
<1>2. Submission'
  BY <1>1, SubmissionKept DEF runner, manager, gatewayState, Kept
<1>3. Turns'
  BY <1>1, TurnsKept, EventsStand DEF runner, manager
<1> QED BY <1>1, <1>2, <1>3, CarriesKeeps DEF Reports, runner, gatewayState

LEMMA ReadsReports ==
  ASSUME VerdictInv, NEW c \in Conn, Reads(c)
  PROVE  Reports'
<1>1. Steady
  BY Parts, ReadSteady DEF Reads
<1> QED BY <1>1, StandReports DEF Reads

LEMMA ExpireReports ==
  ASSUME VerdictInv, Expire
  PROVE  Reports'
<1>1. Steady
  BY Parts, StillSteady DEF Expire
<1> QED BY <1>1, StandReports DEF Expire

-----------------------------------------------------------------------------
(* A call ends *)

LEMMA Awaited ==
  ASSUME VerdictInv, NEW p \in Proc, Await(p)
  PROVE  /\ Alone(p) /\ call'[p].at = "done" /\ IsFiniteSet(IdsInUse')
         /\ call'[p].method = call[p].method /\ call'[p].arg = call[p].arg
         /\ OnWires' = OnWires /\ Asked' = Asked /\ Queued' = Queued
         /\ \/ call'[p].result = [Failure EXCEPT !.id = 0]
            \/ call[p].replies # <<>> /\ call'[p].result = [Reply(p) EXCEPT !.id = 0]
<1>1. CallShape /\ IsFiniteSet(IdsInUse) /\ link' = link
  BY Parts DEF Await
<1>2. \/ call' = Finished(p, Failure)
      \/ call[p].replies # <<>> /\ call' = Finished(p, Reply(p))
  BY DEF Await
<1>3. /\ Alone(p) /\ call'[p].at = "done" /\ call'[p].id = 0
      /\ call'[p].method = call[p].method /\ call'[p].arg = call[p].arg
      /\ \/ call'[p].result = [Failure EXCEPT !.id = 0]
         \/ call[p].replies # <<>> /\ call'[p].result = [Reply(p) EXCEPT !.id = 0]
  BY <1>1, <1>2, Finishes
<1>4. client'.queue = client.queue /\ client'.pending \subseteq client.pending
  BY Parts DEF Await, Forgotten, ClientShape
<1>5. OnWires' = OnWires /\ Asked' = Asked /\ Queued' = Queued
  BY <1>1, <1>4, SameLinks DEF Queued
<1>6. client'.pending \subseteq IdsInUse \cup {0, 0}
  BY <1>4, InUse
<1>7. \A r \in Proc : call'[r].id \in IdsInUse \cup {0, 0}
  BY <1>3, InUse DEF Alone
<1>8. \A x \in Asked' : x[2].id \in IdsInUse \cup {0, 0}
  BY <1>5, InUse
<1>9. \A f \in OnWires' : f.kind = "res" => f.id \in IdsInUse \cup {0, 0}
  BY <1>5, InUse
<1>10. IsFiniteSet(IdsInUse')
  BY <1>1, <1>6, <1>7, <1>8, <1>9, IdsFlow
<1> QED BY <1>3, <1>5, <1>10

LEMMA CallsReports ==
  ASSUME VerdictInv, NEW p \in Proc, p # "events", Calls(p)
  PROVE  Reports'
<1>0. Await(p) /\ UNCHANGED <<runner, manager, gatewayState>>
  BY DEF Calls
<1>1. /\ Alone(p) /\ call'[p].at = "done" /\ IsFiniteSet(IdsInUse')
      /\ OnWires' = OnWires /\ Asked' = Asked /\ Queued' = Queued
  BY <1>0, Awaited
<1>2. Kept("events") /\ (p # "main" => Kept("main"))
  BY <1>1, OthersKept, Callers
<1>3. Replies("main")' \subseteq Replies("main") \cup {Failure} \cup OnWires
  BY <1>1, <1>2 DEF Alone, Kept
<1>4. Carries /\ EvStays
  BY <1>0, <1>1, <1>2, <1>3 DEF Carries, Alone, EvStays, runner
<1>5. Submission'
  <2>1. main.at = "agent" => p # "main"
    BY <1>0 DEF Await, VerdictInv, Reports, Submission, MainCall
  <2> QED BY <1>0, <1>2, <2>1, SubmissionKept, SameRuns DEF runner, manager, gatewayState, Kept
<1>6. Turns'
  BY <1>0, <1>4, TurnsKept, EventsStand DEF runner, manager
<1> QED BY <1>0, <1>4, <1>5, <1>6, CarriesKeeps DEF Reports, runner, gatewayState

LEMMA ConsultReturns ==
  ASSUME VerdictInv, Calls("events")
  PROVE  Reports'
<1>0. Await("events") /\ UNCHANGED <<runner, manager, gatewayState>>
  BY DEF Calls
<1>1. /\ Alone("events") /\ EventsCall'.at = "done" /\ IsFiniteSet(IdsInUse')
      /\ EventsCall'.method = EventsCall.method /\ EventsCall'.arg = EventsCall.arg
      /\ OnWires' = OnWires /\ Asked' = Asked /\ Queued' = Queued
      /\ \/ EventsCall'.result = [Failure EXCEPT !.id = 0]
         \/ /\ call["events"].replies # <<>>
            /\ EventsCall'.result = [Reply("events") EXCEPT !.id = 0]
  BY <1>0, Awaited, Callers DEF EventsCall
<1>2. EventsCall.at = "await"
  BY <1>0 DEF Await, EventsCall
<1>3. Kept("main") /\ RunsGrow /\ EvStays
  BY <1>0, <1>1, OthersKept, Callers, SameRuns DEF runner, gatewayState, EvStays
<1>4. Submission'
  BY <1>0, <1>3, SubmissionKept DEF runner, manager, gatewayState, Kept
<1>5. Turns'
  <2> HIDE DEF EventsCall
  <2>1. Turns
    BY DEF VerdictInv, Reports
  <2> QED BY <1>0, <1>1, <1>2, <1>3, <2>1 DEF Turns, EvStays, runner, manager
<1>6. OutcomeShape'
  BY <1>0, <1>1 DEF VerdictInv, Reports, OutcomeShape, runner, gatewayState
<1>7. Frames'
  <2>1. PICK E : E = {}
    OBVIOUS
  <2>2. OnWires' \subseteq OnWires \cup E /\ \A f \in E : FrameTrue(f)'
    BY <1>1, <2>1
  <2>3. /\ Replies("main")' \subseteq Replies("main") \cup {Failure} \cup OnWires
        /\ Replies("events")' \subseteq Replies("events") \cup {Failure} \cup OnWires
    BY <1>1, <1>3 DEF Alone, Kept
  <2> QED BY <1>0, <1>1, <1>3, <2>2, <2>3, FramesKept DEF VerdictInv, Reports, runner
<1>8. Requests'
  BY <1>0, <1>1, RequestsKept DEF VerdictInv, Reports, runner, gatewayState
\* An answer of ok is one of the frames on their way.
<1>9. EventsCall'.result.what = "ok" =>
        \E f \in Mine : f.what = "ok" /\ EventsCall'.result.run = f.run
  <2>1. [Failure EXCEPT !.id = 0].what = "error"
    BY DEF Failure, Frame
  <2>2. CASE EventsCall'.result = [Failure EXCEPT !.id = 0]
    BY <2>1, <2>2
  <2>3. CASE /\ call["events"].replies # <<>>
             /\ EventsCall'.result = [Reply("events") EXCEPT !.id = 0]
    <3>1. PICK f : f = Reply("events")
      OBVIOUS
    <3>2. FrameTrue(f) /\ (f = Failure \/ f \in Replies("events"))
      BY <2>3, <3>1, ReplyTrue
    <3>3. CASE f = Failure
      BY <2>1, <2>3, <3>1, <3>3
    <3>4. CASE f # Failure
      <4>1. f \in Mine
        BY <3>2, <3>4 DEF Mine
      <4>2. f = [kind |-> f.kind, id |-> f.id, what |-> f.what, run |-> f.run]
        BY <3>2 DEF FrameTrue, Frame
      <4>3. [f EXCEPT !.id = 0].what = f.what /\ [f EXCEPT !.id = 0].run = f.run
        BY <4>2
      <4> QED BY <2>3, <3>1, <4>1, <4>3
    <3> QED BY <3>3, <3>4
  <2> QED BY <1>1, <2>2, <2>3
<1>10. Correlated'
  <2> HIDE DEF EventsCall, Mine, Final
  <2>1. Correlated
    BY DEF VerdictInv, Reports
  <2> QED BY <1>1, <1>2, <1>3, <1>9, <2>1 DEF Correlated, RunsGrow
<1>11. Consults'
  <2>1. Consulting' <=> Consulting
    BY <1>1, <1>2, <1>3 DEF Consulting, EvStays
  <2>2. UNCHANGED <<mode, result>> /\ (Clean' <=> Clean) /\ Started' = Started
    BY <1>0, <1>3 DEF runner, gatewayState, Clean, EvStays, Started
  <2>3. NoToolCall' <=> NoToolCall
    BY <1>1 DEF NoToolCall, Asks
  <2>4. Consults
    BY DEF VerdictInv, Reports
  <2> HIDE DEF EventsCall, Mine, Consulting, Clean, Started, NoToolCall
  <2>5. ASSUME mode = "realtime", Clean, Consulting, EventsCall'.result.what = "ok"
        PROVE  Started \subseteq result.runs \cup {EventsCall'.result.run} /\ NoToolCall
    <3>1. PICK f \in Mine : f.what = "ok" /\ EventsCall'.result.run = f.run
      BY <1>9, <2>5
    <3>2. Started \subseteq result.runs \cup {f.run}
      BY <1>2, <2>4, <2>5, <3>1 DEF Consults
    <3>3. NoToolCall
      BY <1>2, <2>4, <2>5, <3>1 DEF Consults, NoToolCall
    <3> QED BY <3>1, <3>2, <3>3
  <2> QED BY <1>1, <2>1, <2>2, <2>3, <2>4, <2>5 DEF Consults
<1>12. Accounted'
  BY <1>0, <1>3, AccountedKept DEF VerdictInv, Reports, runner
<1> QED BY <1>1, <1>4, <1>5, <1>6, <1>7, <1>8, <1>10, <1>11, <1>12 DEF Reports, Alone

-----------------------------------------------------------------------------
(* processEvents *)

\* A step of the loop that makes no call.
LEMMA LoopReports ==
  ASSUME VerdictInv, Steady, UNCHANGED <<mode, main, manager, gatewayState>>,
         result' = [errors |-> result'.errors, runs |-> result'.runs, done |-> result'.done,
                    pending |-> result'.pending],
         result'.runs = result.runs, Clean' => Clean, Consulting' <=> Consulting,
         Turns', Accounted'
  PROVE  Reports'
<1>1. Carries /\ Kept("main") /\ RunsGrow
  BY Parts, SteadyCarries, Callers, SameRuns DEF Steady, gatewayState
<1>2. Submission'
  BY <1>1, SubmissionKept DEF manager, gatewayState, Kept
<1>3. CallShape' /\ OutcomeShape' /\ Frames' /\ Requests' /\ Correlated'
  BY <1>1, CarriesMost DEF gatewayState
<1>4. Consults'
  BY <1>1, ConsultsKept DEF VerdictInv, Reports, gatewayState
<1> QED BY <1>2, <1>3, <1>4 DEF Reports

LEMMA InLoop ==
  ASSUME VerdictInv, ev.at \notin {"off", "done"}
  PROVE  /\ main.at \in {"append", "join"} /\ ~ev.err /\ outcome # "succeeded"
         /\ result = [errors |-> result.errors, runs |-> result.runs, done |-> result.done,
                      pending |-> result.pending]
         /\ ev = [at |-> ev.at, err |-> ev.err, audioDone |-> ev.audioDone,
                  listening |-> ev.listening, run |-> ev.run, active |-> ev.active,
                  completed |-> ev.completed, failed |-> ev.failed, todo |-> ev.todo]
<1>1. main.at \in {"append", "join"}
  BY DEF VerdictInv, SequenceInv, Control
<1>2. ~ev.err /\ outcome # "succeeded"
  BY <1>1 DEF VerdictInv, Reports, Turns
<1> QED BY <1>1, <1>2 DEF VerdictInv, Reports, OutcomeShape, SequenceInv, LoopShape

\* What the turns ask of processEvents while it is in its loop.
LEMMA LoopTurns ==
  ASSUME VerdictInv, ev.at \notin {"off", "done"}, UNCHANGED <<mode, main, manager>>,
         ev'.at # "off", ev'.err => ev'.at = "done",
         ev'.at \notin {"consult", "submit", "wait"} => call'["events"].at = "idle",
         ev'.at = "consult" => mode = "realtime",
         ev'.at = "consult" /\ call'["events"].at # "idle" => call'["events"].method = "toolCall",
         ev'.at = "wait" /\ call'["events"].at # "idle" => call'["events"].method = "wait"
  PROVE  Turns'
<1>1. main.at \in {"append", "join"} /\ outcome # "succeeded"
  BY InLoop
<1> QED BY <1>1 DEF Turns, EventsCall, manager

LEMMA RecvReports ==
  ASSUME VerdictInv, RecvEvent, UNCHANGED <<manager, gatewayState>>
  PROVE  Reports'
<1>0. ev.at = "recv" /\ UNCHANGED <<client, link, call, ended, mode, main, handled>>
  BY DEF RecvEvent, EventOnly, gateway
<1>1. Steady
  BY <1>0, Parts, StillSteady
<1>2. /\ ~ev.err /\ EventsCall.at = "idle"
      /\ result = [errors |-> result.errors, runs |-> result.runs, done |-> result.done,
                   pending |-> result.pending]
      /\ ev = [at |-> ev.at, err |-> ev.err, audioDone |-> ev.audioDone,
               listening |-> ev.listening, run |-> ev.run, active |-> ev.active,
               completed |-> ev.completed, failed |-> ev.failed, todo |-> ev.todo]
  BY <1>0, InLoop DEF VerdictInv, Reports, Turns
<1>3. Accounted
  BY DEF VerdictInv, Reports
<1> DEFINE Kind(a, err, res) ==
             /\ ev'.at = a /\ ev'.err = err /\ ev'.run = ev.run /\ ev'.active = ev.active
             /\ ev'.completed = ev.completed /\ ev'.failed = ev.failed
             /\ result' = res
<1>4. \/ Kind("recv", ev.err, result) \/ Kind("done", TRUE, result)
      \/ Kind("wait", ev.err, result) /\ ev'.todo = ev.active
      \/ Kind("done", FALSE, AppendUnrecoveredFailures) /\ ev.active = {}
  <2>1. CASE ev' = [ev EXCEPT !.listening = TRUE] /\ UNCHANGED result
    BY <1>0, <1>2, <2>1
  <2>2. CASE Stops(TRUE) /\ UNCHANGED result
    BY <1>2, <2>2 DEF Stops
  <2>3. CASE WindowCloses
    <3>1. CASE ev' = [ev EXCEPT !.at = "wait", !.todo = ev.active] /\ UNCHANGED result
      BY <1>2, <3>1
    <3>2. CASE Stops(FALSE) /\ result' = AppendUnrecoveredFailures /\ ev.active = {}
      BY <1>2, <3>2 DEF Stops
    <3> QED BY <2>2, <2>3, <3>1, <3>2 DEF WindowCloses
  <2> QED BY <2>1, <2>2, <2>3 DEF RecvEvent
<1>5. /\ result' = [errors |-> result'.errors, runs |-> result'.runs, done |-> result'.done,
                    pending |-> result'.pending]
      /\ result'.runs = result.runs /\ (~result'.errors => ~result.errors)
      /\ ev'.at \in {"recv", "done", "wait"} /\ (ev'.err => ev'.at = "done")
      /\ ev'.completed = ev.completed
  <2>1. CASE result' = result
    BY <1>0, <1>2, <1>4, <2>1
  <2>2. CASE Kind("done", FALSE, AppendUnrecoveredFailures)
    BY <1>2, <2>2 DEF AppendUnrecoveredFailures, AppendError
  <2> QED BY <1>4, <2>1, <2>2
<1>6. Turns'
  BY <1>0, <1>2, <1>5, LoopTurns DEF EventsCall
<1>7. ~Consulting /\ ~Consulting' /\ (Clean' => Clean)
  BY <1>0, <1>2, <1>5 DEF Consulting, Clean
<1>8. Accounted'
  <2>1. \A r \in ev'.completed : Final(r)'
    BY <1>0, <1>3, <1>5 DEF Accounted, gatewayState, Final
  <2>2. CASE Kind("recv", ev.err, result)
    BY <1>0, <1>3, <2>1, <2>2 DEF Accounted, Clean
  <2>3. CASE Kind("done", TRUE, result)
    BY <2>1, <2>3 DEF Accounted, Clean
  <2>4. CASE Kind("wait", ev.err, result) /\ ev'.todo = ev.active
    BY <1>0, <1>3, <2>1, <2>4 DEF Accounted, Clean
  <2>5. CASE Kind("done", FALSE, AppendUnrecoveredFailures) /\ ev.active = {}
    <3>1. result'.errors = (result.errors \/ ev.failed # {}) /\ result'.runs = result.runs
      BY <1>2, <2>5 DEF AppendUnrecoveredFailures, AppendError
    <3> QED BY <1>0, <1>2, <1>3, <2>1, <2>5, <3>1 DEF Accounted, Clean
  <2> QED BY <1>4, <2>2, <2>3, <2>4, <2>5
<1> QED BY <1>0, <1>1, <1>5, <1>6, <1>7, <1>8, LoopReports

LEMMA FrameReports ==
  ASSUME VerdictInv, ProcessFrame, UNCHANGED <<manager, gatewayState>>
  PROVE  Reports'
<1>0. /\ ev.at = "recv" /\ RecvReady /\ client' = Released
      /\ UNCHANGED <<link, call, mode, main>>
  BY DEF ProcessFrame, EventOnly
<1>1. Steady /\ Received \in Queued
  BY <1>0, Parts, ReleaseSteady
<1>2. /\ ~ev.err /\ EventsCall.at = "idle"
      /\ result = [errors |-> result.errors, runs |-> result.runs, done |-> result.done,
                   pending |-> result.pending]
      /\ ev = [at |-> ev.at, err |-> ev.err, audioDone |-> ev.audioDone,
               listening |-> ev.listening, run |-> ev.run, active |-> ev.active,
               completed |-> ev.completed, failed |-> ev.failed, todo |-> ev.todo]
  BY <1>0, InLoop DEF VerdictInv, Reports, Turns
<1>3. Accounted /\ FrameTrue(Received)
  BY <1>1 DEF VerdictInv, Reports, Frames
<1>4. PICK f : f = Received
  OBVIOUS
<1>5. CASE f.kind = "chat" /\ ProcessChatEvent(f.what, f.run)
  <2>1. /\ result' = result /\ ev'.at = "recv" /\ ev'.err = ev.err /\ ev'.run = ev.run
        /\ \/ /\ ev'.active = ev.active /\ ev'.completed = ev.completed
              /\ ev'.failed = ev.failed
           \/ /\ f.what = "final" /\ ev'.active = ev.active \ {f.run}
              /\ ev'.completed = ev.completed \cup {f.run} /\ ev'.failed = ev.failed \ {f.run}
           \/ /\ ev'.active = ev.active \ {f.run} /\ ev'.completed = ev.completed
              /\ ev'.failed = ev.failed \cup {f.run}
    <3>1. result' = result
      BY <1>5 DEF ProcessChatEvent
    <3>2. CASE ev' = ev
      BY <1>0, <3>1, <3>2
    <3>3. CASE /\ f.what = "final"
               /\ ev' = [ev EXCEPT !.active = @ \ {f.run}, !.completed = @ \cup {f.run},
                                   !.failed = @ \ {f.run}]
      BY <1>0, <1>2, <3>1, <3>3
    <3>4. CASE ev' = [ev EXCEPT !.active = @ \ {f.run}, !.failed = @ \cup {f.run}]
      BY <1>0, <1>2, <3>1, <3>4
    <3> QED BY <1>5, <3>2, <3>3, <3>4 DEF ProcessChatEvent
  <2>2. Turns'
    BY <1>0, <1>2, <2>1, LoopTurns DEF EventsCall
  <2>3. ~Consulting /\ ~Consulting' /\ (Clean' => Clean)
    BY <1>0, <2>1 DEF Consulting, Clean
  <2>4. f.what = "final" => Final(f.run)
    BY <1>3, <1>4, <1>5 DEF FrameTrue
  <2>5. Accounted'
    <3>1. \A r : Final(r)' <=> Final(r)
      BY DEF gatewayState, Final
    <3> HIDE DEF Final
    <3> QED BY <1>0, <1>3, <2>1, <2>3, <2>4, <3>1 DEF Accounted
  <2> QED BY <1>0, <1>1, <1>2, <2>1, <2>2, <2>3, <2>5, LoopReports
<1>6. CASE f.kind = "tool" /\ ProcessToolCall(f.what)
  <2>1. /\ ev'.at \in {"consult", "submit"} /\ ev'.err = ev.err /\ ev'.run = ev.run
        /\ ev'.active = ev.active /\ ev'.completed = ev.completed /\ ev'.failed = ev.failed
    BY <1>2, <1>6 DEF ProcessToolCall
  <2>2. /\ result' = [errors |-> result'.errors, runs |-> result'.runs, done |-> result'.done,
                      pending |-> result'.pending]
        /\ result'.runs = result.runs /\ (~result'.errors => ~result.errors)
    BY <1>2, <1>6 DEF ProcessToolCall, AppendError
  <2>3. mode = "realtime"
    BY <1>3, <1>4, <1>6 DEF FrameTrue
  <2>4. Turns'
    BY <1>0, <1>2, <2>1, <2>3, LoopTurns DEF EventsCall
  <2>5. ~Consulting /\ ~Consulting' /\ (Clean' => Clean)
    BY <1>0, <1>2, <2>1, <2>2 DEF Consulting, Clean, EventsCall
  <2>6. Accounted'
    <3>1. \A r : Final(r)' <=> Final(r)
      BY DEF gatewayState, Final
    <3> HIDE DEF Final
    <3> QED BY <1>0, <1>3, <2>1, <2>2, <2>5, <3>1 DEF Accounted
  <2> QED BY <1>0, <1>1, <2>2, <2>4, <2>5, <2>6, LoopReports
<1>7. CASE ProcessTalkEvent(f.what)
  <2>1. ev' = ev
    BY <1>7 DEF ProcessTalkEvent
  <2>2. /\ result' = [errors |-> result'.errors, runs |-> result'.runs, done |-> result'.done,
                      pending |-> result'.pending]
        /\ result'.runs = result.runs /\ (~result'.errors => ~result.errors)
    <3>1. CASE result' = [result EXCEPT !.done = TRUE, !.pending = FALSE]
      BY <1>2, <3>1
    <3>2. CASE result' = [result EXCEPT !.pending = TRUE]
      BY <1>2, <3>2
    <3>3. CASE result' = AppendError(TRUE)
      BY <1>2, <3>3 DEF AppendError
    <3>4. CASE result' = result
      BY <1>2, <3>4
    <3> QED BY <1>7, <3>1, <3>2, <3>3, <3>4 DEF ProcessTalkEvent
  <2>3. Turns'
    BY <1>0, <1>2, <2>1, LoopTurns DEF EventsCall
  <2>4. ~Consulting /\ ~Consulting' /\ (Clean' => Clean)
    BY <1>0, <2>1, <2>2 DEF Consulting, Clean
  <2>5. Accounted'
    <3>1. \A r : Final(r)' <=> Final(r)
      BY DEF gatewayState, Final
    <3> HIDE DEF Final
    <3> QED BY <1>0, <1>3, <2>1, <2>2, <2>4, <3>1 DEF Accounted
  <2> QED BY <1>0, <1>1, <2>2, <2>3, <2>4, <2>5, LoopReports
<1> QED BY <1>4, <1>5, <1>6, <1>7 DEF ProcessFrame

\* processEvents begins a call.  Its id is new: no answer to it is on its way.
LEMMA ToolBegins ==
  ASSUME VerdictInv, NEW method, NEW arg, Begin("events", method, arg),
         <<ev.at, method>> \in
           {<<"consult", "toolCall">>, <<"submit", "submit">>, <<"wait", "wait">>},
         UNCHANGED <<mode, main, ev, result, manager, gatewayState>>
  PROVE  Reports'
<1>0. /\ EventsCall.at = "idle" /\ ev.at \in {"consult", "submit", "wait"} /\ method # "agent"
      /\ method = "toolCall" <=> ev.at = "consult"
      /\ method = "wait" <=> ev.at = "wait"
  BY DEF Begin, EventsCall
<1>1. /\ Alone("events") /\ OnWires' \subseteq OnWires /\ Queued' = Queued
      /\ EventsCall'.method = method /\ EventsCall'.arg = arg /\ IsFiniteSet(IdsInUse')
      /\ \/ /\ EventsCall'.at = "done" /\ Asked' \subseteq Asked
            /\ EventsCall'.result.what \in {"unsent", "sending"}
         \/ /\ EventsCall'.at = "await" /\ EventsCall'.result.what = "none"
            /\ EventsCall'.id \notin IdsInUse
            /\ \E c : \A x \in Asked' :
                 x \in Asked \/ x = At(c, Request(EventsCall'.id, method, arg))
  BY BegunCall, Callers DEF EventsCall
<1>2. Kept("main") /\ RunsGrow /\ EvStays
  BY <1>1, OthersKept, Callers, SameRuns DEF gatewayState, EvStays
<1>3. Submission'
  BY <1>2, SubmissionKept DEF manager, gatewayState, Kept
<1>4. mode = "realtime" \/ method # "toolCall"
  BY <1>0 DEF VerdictInv, Reports, Turns
<1>5. Turns'
  BY <1>0, <1>1, <1>4, InLoop, LoopTurns DEF EventsCall
<1>6. OutcomeShape'
  BY <1>1 DEF VerdictInv, Reports, OutcomeShape, gatewayState
<1>7. Frames'
  <2>1. PICK E : E = {}
    OBVIOUS
  <2>2. OnWires' \subseteq OnWires \cup E /\ \A f \in E : FrameTrue(f)'
    BY <1>1, <2>1
  <2>3. /\ Replies("main")' \subseteq Replies("main") \cup {Failure} \cup OnWires
        /\ Replies("events")' \subseteq Replies("events") \cup {Failure} \cup OnWires
    BY <1>1, <1>2 DEF Alone, Kept
  <2> QED BY <1>1, <1>2, <2>2, <2>3, FramesKept DEF VerdictInv, Reports
<1>8. Accounted'
  BY <1>2, AccountedKept DEF VerdictInv, Reports
<1>9. Started' = Started /\ (Clean' <=> Clean) /\ ~Consulting
      /\ (Consulting' <=> ev.at = "consult")
  BY <1>0, <1>1 DEF Started, gatewayState, Clean, Consulting
<1>10. CASE /\ EventsCall'.at = "done" /\ Asked' \subseteq Asked
            /\ EventsCall'.result.what \in {"unsent", "sending"}
  <2>1. Requests'
    BY <1>10, RequestsKept DEF VerdictInv, Reports, gatewayState
  <2>2. Correlated'
    <3> HIDE DEF EventsCall
    <3> QED BY <1>10 DEF Correlated
  <2>3. NoToolCall => NoToolCall'
    BY <1>10 DEF NoToolCall, Asks
  <2>4. Consults'
    <3> HIDE DEF EventsCall, Consulting, Clean, Started, NoToolCall, Mine
    <3>1. Consults
      BY DEF VerdictInv, Reports
    <3> QED BY <1>9, <1>10, <2>3, <3>1 DEF Consults
  <2> QED BY <1>1, <1>3, <1>5, <1>6, <1>7, <1>8, <2>1, <2>2, <2>4 DEF Reports, Alone
<1>11. ASSUME EventsCall'.at = "await", EventsCall'.id \notin IdsInUse, NEW c,
              \A x \in Asked' : x \in Asked \/ x = At(c, Request(EventsCall'.id, method, arg))
       PROVE  Reports'
  <2>1. PICK y : y = At(c, Request(EventsCall'.id, method, arg))
    OBVIOUS
  <2>2. y[2].id = EventsCall'.id /\ y[2].method = method /\ y[2].arg = arg
    BY <2>1 DEF At, Request
  <2>3. \A x \in Asked' : x[2].id = EventsCall'.id => x = y
    BY <1>11, <2>1, InUse
  <2>4. Mine' = {}
    <3>1. Replies("events")' = {}
      BY <1>1 DEF Alone
    <3>2. \A f \in OnWires' : ~(f.kind = "res" /\ f.id = EventsCall'.id)
      BY <1>1, <1>11, InUse
    <3> QED BY <3>1, <3>2 DEF Mine, Answering
  <2>5. Requests'
    <3>1. \A x \in Asked' : x \in Asked \/ x = y
      BY <1>11, <2>1
    <3>2. Requests
      BY DEF VerdictInv, Reports
    <3> HIDE DEF Started
    <3> QED BY <1>0, <1>4, <1>9, <2>2, <3>1, <3>2 DEF Requests, Asks, gatewayState
  <2>6. Correlated'
    <3> HIDE DEF EventsCall, Mine
    <3> QED BY <1>1, <1>11, <2>2, <2>3, <2>4 DEF Correlated
  <2>7. Consults'
    <3>1. Consults
      BY DEF VerdictInv, Reports
    <3>2. \A x \in Asked' : x \in Asked \/ x = y
      BY <1>11, <2>1
    <3> SUFFICES ASSUME mode = "realtime", Clean PROVE Consults'
      BY <1>9 DEF Consults
    <3>3. Started \subseteq result.runs /\ \A x \in Asked : ~Asks(x, "toolCall")
      BY <1>9, <3>1 DEF Consults, NoToolCall
    <3>4. CASE ev.at = "consult"
      <4>1. \A x \in Asked' : Asks(x, "toolCall") => x = y
        BY <3>2, <3>3
      <4> HIDE DEF EventsCall, Consulting, Clean, Started, Mine
      <4> QED BY <1>9, <1>11, <2>2, <2>4, <3>3, <3>4, <4>1 DEF Consults, Asks
    <3>5. CASE ev.at # "consult"
      <4>1. \A x \in Asked' : ~Asks(x, "toolCall")
        BY <1>0, <2>2, <3>2, <3>3, <3>5 DEF Asks
      <4> HIDE DEF EventsCall, Consulting, Clean, Started, Mine
      <4> QED BY <1>9, <3>3, <3>5, <4>1 DEF Consults, Asks, NoToolCall
    <3> QED BY <3>4, <3>5
  <2> QED BY <1>1, <1>3, <1>5, <1>6, <1>7, <1>8, <2>5, <2>6, <2>7 DEF Reports, Alone
<1> QED BY <1>1, <1>10, <1>11

\* processEvents takes the result of its call.
LEMMA ToolReturns ==
  ASSUME VerdictInv, ev.at \in {"consult", "submit", "wait"}, Resume("events"),
         UNCHANGED <<client, link, mode, main, manager, gatewayState>>,
         result' = [errors |-> result'.errors, runs |-> result'.runs, done |-> result'.done,
                    pending |-> result'.pending],
         ev'.at \in {"recv", "submit", "wait", "done"}, ev'.err => ev'.at = "done",
         mode = "realtime" /\ Clean' => Started \subseteq result'.runs /\ NoToolCall,
         Accounted'
  PROVE  Reports'
<1>1. /\ Alone("events") /\ EventsCall'.at = "idle" /\ IsFiniteSet(IdsInUse')
      /\ OnWires' = OnWires /\ Asked' = Asked /\ Queued' = Queued
  BY Resumed, Callers DEF EventsCall
<1>2. Kept("main") /\ RunsGrow
  BY <1>1, OthersKept, Callers, SameRuns DEF gatewayState
<1>3. Submission'
  BY <1>2, SubmissionKept DEF manager, gatewayState, Kept
<1>4. Turns'
  BY <1>1, LoopTurns DEF EventsCall
<1>5. OutcomeShape'
  BY <1>1 DEF VerdictInv, Reports, OutcomeShape, gatewayState
<1>6. Frames'
  <2>1. PICK E : E = {}
    OBVIOUS
  <2>2. OnWires' \subseteq OnWires \cup E /\ \A f \in E : FrameTrue(f)'
    BY <1>1, <2>1
  <2>3. /\ Replies("main")' \subseteq Replies("main") \cup {Failure} \cup OnWires
        /\ Replies("events")' \subseteq Replies("events") \cup {Failure} \cup OnWires
    BY <1>1, <1>2 DEF Alone, Kept
  <2> QED BY <1>1, <1>2, <2>2, <2>3, FramesKept DEF VerdictInv, Reports
<1>7. Requests'
  BY <1>1, RequestsKept DEF VerdictInv, Reports, gatewayState
<1>8. Correlated'
  <2> HIDE DEF EventsCall
  <2> QED BY <1>1 DEF Correlated
<1>9. Consults'
  <2>1. ~Consulting' /\ Started' = Started /\ (NoToolCall => NoToolCall')
    BY <1>1 DEF Consulting, Started, gatewayState, NoToolCall, Asks
  <2> HIDE DEF Consulting, Started, NoToolCall, Clean
  <2> QED BY <2>1 DEF Consults
<1> QED BY <1>1, <1>3, <1>4, <1>5, <1>6, <1>7, <1>8, <1>9 DEF Reports, Alone

\* When processEvents is not told of a run, it knows them all.
LEMMA Knows ==
  ASSUME VerdictInv, mode = "realtime", Clean, ev.at # "consult"
  PROVE  Started \subseteq result.runs /\ NoToolCall
  BY DEF VerdictInv, Reports, Consults, Consulting

LEMMA ConsultReports ==
  ASSUME VerdictInv, ConsultAgent, UNCHANGED <<manager, gatewayState>>
  PROVE  Reports'
<1>0. ev.at = "consult" /\ UNCHANGED <<mode, main>>
  BY DEF ConsultAgent, EventOnly
<1>1. CASE Begin("events", "toolCall", 0) /\ UNCHANGED <<ev, result>>
  BY <1>0, <1>1, ToolBegins
<1>2. CASE /\ Returned("events") /\ Resume("events") /\ UNCHANGED <<client, link, ended>>
           /\ LET answer == Answer("events") IN
              IF answer.what = "ok"
              THEN /\ ev' = [ev EXCEPT !.at = "submit", !.run = answer.run]
                   /\ result' = [result EXCEPT !.runs = @ \cup {answer.run}]
              ELSE /\ ev' = [ev EXCEPT !.at = "submit"]
                   /\ result' = AppendError(TRUE)
  <2>1. /\ ~ev.err
        /\ result = [errors |-> result.errors, runs |-> result.runs, done |-> result.done,
                     pending |-> result.pending]
        /\ ev = [at |-> ev.at, err |-> ev.err, audioDone |-> ev.audioDone,
                 listening |-> ev.listening, run |-> ev.run, active |-> ev.active,
                 completed |-> ev.completed, failed |-> ev.failed, todo |-> ev.todo]
    BY <1>0, InLoop
  <2>2. Accounted /\ Consults
    BY DEF VerdictInv, Reports
  <2>3. EventsCall.at = "done" /\ Consulting
    BY <1>0, <1>2 DEF Returned, EventsCall, Consulting
  <2>4. PICK answer : answer = EventsCall.result
    OBVIOUS
  <2>5. \A r : Final(r)' <=> Final(r)
    BY DEF gatewayState, Final
  <2>6. CASE answer.what = "ok"
    <3>1. /\ ev' = [ev EXCEPT !.at = "submit", !.run = answer.run]
          /\ result' = [result EXCEPT !.runs = @ \cup {answer.run}]
      BY <1>2, <2>4, <2>6 DEF Answer, EventsCall
    <3>2. /\ ev'.at = "submit" /\ ev'.err = ev.err /\ ev'.run = answer.run
          /\ ev'.active = ev.active /\ ev'.completed = ev.completed /\ ev'.failed = ev.failed
      BY <2>1, <3>1
    <3>3. /\ result' = [errors |-> result'.errors, runs |-> result'.runs, done |-> result'.done,
                        pending |-> result'.pending]
          /\ result'.runs = result.runs \cup {answer.run} /\ result'.errors = result.errors
      BY <2>1, <3>1
    <3>4. Clean' <=> Clean
      BY <3>2, <3>3 DEF Clean
    <3>5. mode = "realtime" /\ Clean' => Started \subseteq result'.runs /\ NoToolCall
      <4> HIDE DEF EventsCall, Consulting, Clean, Started, NoToolCall
      <4> QED BY <2>2, <2>3, <2>4, <2>6, <3>3, <3>4 DEF Consults
    <3>6. Accounted'
      <4> HIDE DEF Final, Clean
      <4> QED BY <1>0, <2>2, <2>5, <3>2, <3>3, <3>4 DEF Accounted
    <3> QED BY <1>0, <1>2, <2>1, <3>2, <3>3, <3>5, <3>6, ToolReturns
  <2>7. CASE answer.what # "ok"
    <3>1. /\ ev' = [ev EXCEPT !.at = "submit"] /\ result' = AppendError(TRUE)
      BY <1>2, <2>4, <2>7 DEF Answer, EventsCall
    <3>2. ev'.at = "submit" /\ ev'.err = ev.err /\ ev'.completed = ev.completed
      BY <2>1, <3>1
    <3>3. /\ result' = [errors |-> result'.errors, runs |-> result'.runs, done |-> result'.done,
                        pending |-> result'.pending]
          /\ result'.errors = TRUE
      BY <2>1, <3>1 DEF AppendError
    <3>4. ~Clean'
      BY <3>3 DEF Clean
    <3>5. Accounted'
      <4> HIDE DEF Final, Clean
      <4> QED BY <2>2, <2>5, <3>2, <3>4 DEF Accounted
    <3> QED BY <1>0, <1>2, <2>1, <3>2, <3>3, <3>4, <3>5, ToolReturns
  <2> QED BY <2>6, <2>7
<1> QED BY <1>1, <1>2 DEF ConsultAgent

LEMMA SubmitToolReports ==
  ASSUME VerdictInv, SubmitToolResult, UNCHANGED <<manager, gatewayState>>
  PROVE  Reports'
<1>0. ev.at = "submit" /\ UNCHANGED <<mode, main, result>>
  BY DEF SubmitToolResult, EventOnly
<1>1. CASE Begin("events", "submit", 0) /\ UNCHANGED ev
  BY <1>0, <1>1, ToolBegins
<1>2. CASE /\ Resume("events") /\ UNCHANGED <<client, link, ended>>
           /\ \/ ev' = [ev EXCEPT !.at = "recv", !.run = 0,
                                  !.active = @ \cup ({ev.run} \ {0})]
              \/ Stops(TRUE)
  <2>1. /\ ~ev.err
        /\ result = [errors |-> result.errors, runs |-> result.runs, done |-> result.done,
                     pending |-> result.pending]
        /\ ev = [at |-> ev.at, err |-> ev.err, audioDone |-> ev.audioDone,
                 listening |-> ev.listening, run |-> ev.run, active |-> ev.active,
                 completed |-> ev.completed, failed |-> ev.failed, todo |-> ev.todo]
    BY <1>0, InLoop
  <2>2. Accounted
    BY DEF VerdictInv, Reports
  <2>3. \A r : Final(r)' <=> Final(r)
    BY DEF gatewayState, Final
  <2>4. \/ /\ ev'.at = "recv" /\ ev'.err = ev.err /\ ev'.run = 0
           /\ ev'.active = ev.active \cup ({ev.run} \ {0})
           /\ ev'.completed = ev.completed /\ ev'.failed = ev.failed
        \/ ev'.at = "done" /\ ev'.err = TRUE /\ ev'.completed = ev.completed
    <3>1. CASE ev' = [ev EXCEPT !.at = "recv", !.run = 0,
                                !.active = @ \cup ({ev.run} \ {0})]
      BY <2>1, <3>1
    <3>2. CASE Stops(TRUE)
      BY <2>1, <3>2 DEF Stops
    <3> QED BY <1>2, <3>1, <3>2
  <2>5. Clean' => Clean
    BY <1>0, <2>1, <2>4 DEF Clean
  <2>6. mode = "realtime" /\ Clean' => Started \subseteq result'.runs /\ NoToolCall
    BY <1>0, <2>5, Knows
  <2>7. Accounted'
    <3>1. Clean' => ev'.at = "recv"
      BY <2>4 DEF Clean
    <3> HIDE DEF Final, Clean
    <3> QED BY <1>0, <2>2, <2>3, <2>4, <2>5, <3>1 DEF Accounted
  <2> QED BY <1>0, <1>2, <2>1, <2>4, <2>6, <2>7, ToolReturns
<1> QED BY <1>1, <1>2 DEF SubmitToolResult

LEMMA FinishReports ==
  ASSUME VerdictInv, FinishActiveAgentRuns, UNCHANGED <<manager, gatewayState>>
  PROVE  Reports'
<1>0. ev.at = "wait" /\ UNCHANGED <<mode, main>>
  BY DEF FinishActiveAgentRuns, EventOnly
<1>1. /\ ~ev.err
      /\ result = [errors |-> result.errors, runs |-> result.runs, done |-> result.done,
                   pending |-> result.pending]
      /\ ev = [at |-> ev.at, err |-> ev.err, audioDone |-> ev.audioDone,
               listening |-> ev.listening, run |-> ev.run, active |-> ev.active,
               completed |-> ev.completed, failed |-> ev.failed, todo |-> ev.todo]
  BY <1>0, InLoop
<1>2. Accounted /\ Correlated /\ Turns
  BY DEF VerdictInv, Reports
<1>3. \A r : Final(r)' <=> Final(r)
  BY DEF gatewayState, Final
<1>4. CASE (\E run \in ev.todo : Begin("events", "wait", run)) /\ UNCHANGED <<ev, result>>
  BY <1>0, <1>4, ToolBegins
<1>5. CASE /\ Returned("events") /\ Resume("events") /\ UNCHANGED <<client, link, ended>>
           /\ ev' = [ev EXCEPT !.todo = @ \ {call["events"].arg}]
           /\ result' = AppendError(Answer("events").what # "ok")
  <2>1. /\ ev'.at = "wait" /\ ev'.err = ev.err /\ ev'.run = ev.run /\ ev'.active = ev.active
        /\ ev'.completed = ev.completed /\ ev'.failed = ev.failed
        /\ ev'.todo = ev.todo \ {EventsCall.arg}
    BY <1>0, <1>1, <1>5 DEF EventsCall
  <2>2. /\ result' = [errors |-> result'.errors, runs |-> result'.runs, done |-> result'.done,
                      pending |-> result'.pending]
        /\ result'.runs = result.runs
        /\ result'.errors = (result.errors \/ EventsCall.result.what # "ok")
    BY <1>1, <1>5 DEF AppendError, Answer, EventsCall
  <2>3. EventsCall.at = "done" /\ EventsCall.method = "wait"
    BY <1>0, <1>2, <1>5 DEF Returned, EventsCall, Turns
  <2>4. Clean' => Clean /\ Final(EventsCall.arg)
    <3> HIDE DEF EventsCall, Final
    <3> QED BY <1>2, <2>1, <2>2, <2>3 DEF Clean, Correlated
  <2>5. mode = "realtime" /\ Clean' => Started \subseteq result'.runs /\ NoToolCall
    BY <1>0, <2>2, <2>4, Knows
  <2>6. Accounted'
    <3> HIDE DEF EventsCall, Final, Clean
    <3> QED BY <1>0, <1>2, <1>3, <2>1, <2>2, <2>4 DEF Accounted
  <2> QED BY <1>0, <1>1, <1>5, <2>1, <2>2, <2>5, <2>6, ToolReturns
<1>6. CASE /\ call["events"].at = "idle" /\ ev.todo = {} /\ Stops(FALSE)
           /\ result' = AppendUnrecoveredFailures /\ UNCHANGED gateway
  <2>1. /\ ev'.at = "done" /\ ev'.err = FALSE /\ ev'.run = ev.run /\ ev'.active = ev.active
        /\ ev'.completed = ev.completed /\ ev'.failed = ev.failed
    BY <1>1, <1>6 DEF Stops
  <2>2. /\ result' = [errors |-> result'.errors, runs |-> result'.runs, done |-> result'.done,
                      pending |-> result'.pending]
        /\ result'.runs = result.runs
        /\ result'.errors = (result.errors \/ ev.failed # {})
    BY <1>1, <1>6 DEF AppendUnrecoveredFailures, AppendError
  <2>3. Steady /\ call' = call
    BY <1>6, Parts, StillSteady DEF gateway
  <2>4. Turns'
    BY <1>0, <1>6, <2>1, <2>3, LoopTurns
  <2>5. ~Consulting /\ ~Consulting' /\ (Clean' => Clean /\ ev.failed = {})
    BY <1>0, <1>1, <2>1, <2>2 DEF Consulting, Clean
  <2>6. Accounted'
    <3> HIDE DEF Final, Clean
    <3> QED BY <1>0, <1>2, <1>3, <1>6, <2>1, <2>2, <2>5 DEF Accounted
  <2> QED BY <1>0, <2>2, <2>3, <2>4, <2>5, <2>6, LoopReports
<1> QED BY <1>4, <1>5, <1>6 DEF FinishActiveAgentRuns

-----------------------------------------------------------------------------
(* The Gateway sends a frame *)

LEMMA SentFlow ==
  ASSUME LinkShape, NEW c \in Conn, \A d \in Conn : d # c => link'[d] = link[d],
         NEW e, link'[c].wire = Append(link[c].wire, e)
  PROVE  OnWires' \subseteq OnWires \cup {e}
<1> DEFINE w == link[c].wire
           t == Append(w, e)
<1>1. SeqLike(w)
  BY DEF LinkShape, OneLink
<1>2. ToSet(t) = ToSet(w) \cup {e}
  BY <1>1, HeldAppend
<1>3. PICK E : E = {e}
  OBVIOUS
<1> HIDE DEF t
<1>4. ToSet(link'[c].wire) \subseteq ToSet(link[c].wire) \cup E
  BY <1>2, <1>3 DEF t
<1>5. OnWires' \subseteq OnWires \cup E
  BY <1>4, WiresFlow
<1> QED BY <1>3, <1>5

\* What the Gateway sends, e, touches nothing the goroutines have done.
Speaks(e) ==
  /\ UNCHANGED <<client, call, runner, manager, arrived>>
  /\ runs' = [r \in Run |-> runs'[r]] /\ RunsGrow
  /\ OnWires' \subseteq OnWires \cup {e} /\ FrameTrue(e)'
  /\ e.kind = "res" => e.id \in IdsInUse
  /\ \A x \in Asked' : x[2].id \in IdsInUse

LEMMA SpeaksKeeps ==
  ASSUME VerdictInv, NEW e, Speaks(e)
  PROVE  /\ CallShape' /\ OutcomeShape' /\ Submission' /\ Turns' /\ Frames' /\ Accounted'
         /\ EventsCall' = EventsCall /\ (Consulting' <=> Consulting) /\ (Clean' <=> Clean)
         /\ Mine' \subseteq Mine \cup {f \in {e} : Answering(f)}
<1>0. /\ UNCHANGED <<client, call, mode, main, ev, result, accepted, verdict, outcome, arrived>>
      /\ RunsGrow
  BY DEF Speaks, runner, manager
<1>1. CallShape' /\ \A p \in Proc : Kept(p)
  BY <1>0, Parts, SameCalls
<1>2. IsFiniteSet(IdsInUse')
  <2>1. client'.pending \subseteq IdsInUse \cup {0, 0}
    BY <1>0, InUse
  <2>2. \A p \in Proc : call'[p].id \in IdsInUse \cup {0, 0}
    BY <1>0, InUse
  <2>3. \A x \in Asked' : x[2].id \in IdsInUse \cup {0, 0}
    BY DEF Speaks
  <2>4. \A f \in OnWires' : f.kind = "res" => f.id \in IdsInUse \cup {0, 0}
    BY InUse DEF Speaks
  <2> QED BY <2>1, <2>2, <2>3, <2>4, Parts, IdsFlow
<1>3. OutcomeShape'
  BY <1>0, <1>2 DEF OutcomeShape, Speaks, VerdictInv, Reports
<1>4. EventsCall' = EventsCall /\ EvStays
  BY <1>0 DEF EventsCall, EvStays
<1>5. Submission'
  BY <1>0, SubmissionKept
<1>6. Turns'
  BY <1>0, <1>4, TurnsKept
<1>7. Accounted'
  BY <1>0, <1>4, AccountedKept DEF VerdictInv, Reports
<1>8. UNCHANGED <<Queued, Replies("main"), Replies("events")>>
  BY <1>0 DEF Queued, Replies
<1>9. Frames'
  <2>1. PICK E : E = {e}
    OBVIOUS
  <2>2. OnWires' \subseteq OnWires \cup E /\ \A f \in E : FrameTrue(f)'
    BY <2>1 DEF Speaks
  <2> QED BY <1>0, <1>8, <2>2, FramesKept DEF VerdictInv, Reports
<1>10. (Consulting' <=> Consulting) /\ (Clean' <=> Clean)
  BY <1>0, <1>4 DEF Consulting, Clean
<1>11. Mine' \subseteq Mine \cup {f \in {e} : Answering(f)}
  BY <1>4, <1>8 DEF Mine, Answering, Speaks
<1> QED BY <1>1, <1>3, <1>4, <1>5, <1>6, <1>7, <1>9, <1>10, <1>11

\* A frame that answers no request, and runs that were started before.
LEMMA TellsReports ==
  ASSUME VerdictInv, NEW e, Speaks(e), e.kind # "res", Asked' \subseteq Asked,
         Started' = Started
  PROVE  Reports'
<1>0. UNCHANGED <<mode, result, arrived>> /\ RunsGrow
  BY DEF Speaks, runner
<1>1. /\ CallShape' /\ OutcomeShape' /\ Submission' /\ Turns' /\ Frames' /\ Accounted'
      /\ EventsCall' = EventsCall /\ (Consulting' <=> Consulting) /\ (Clean' <=> Clean)
      /\ Mine' \subseteq Mine \cup {f \in {e} : Answering(f)}
  BY SpeaksKeeps
<1>2. Mine' \subseteq Mine
  BY <1>1 DEF Answering
<1>3. Requests'
  <2> HIDE DEF Started, Asked
  <2> QED BY <1>0 DEF Requests, Asks, VerdictInv, Reports
<1> HIDE DEF Started, Asked, Mine, EventsCall, Consulting, Clean
<1>4. Correlated'
  BY <1>0, <1>1, <1>2 DEF Correlated, RunsGrow, VerdictInv, Reports
<1>5. NoToolCall => NoToolCall'
  BY DEF NoToolCall, Asks
<1>6. Consults'
  <2> HIDE DEF NoToolCall
  <2> QED BY <1>0, <1>1, <1>2, <1>5 DEF Consults, Asks, VerdictInv, Reports
<1> QED BY <1>1, <1>3, <1>4, <1>6 DEF Reports

LEMMA SameAsks ==
  ASSUME NEW c \in Conn, \A d \in Conn : d # c => link'[d] = link[d],
         link'[c].inbox \subseteq link[c].inbox
  PROVE  Asked' \subseteq Asked /\ \A x \in Asked' : x[2].id \in IdsInUse
<1>1. PICK J : J = {}
  OBVIOUS
<1>2. \A x \in Asked' : x \in Asked \/ \E q \in J : x = At(c, q)
  BY <1>1, AsksFlow
<1>3. Asked' \subseteq Asked
  BY <1>1, <1>2
<1> QED BY <1>3, InUse

LEMMA ChallengeReported ==
  ASSUME VerdictInv, NEW c \in Conn, GatewayChallenges(c)
  PROVE  Reports'
<1> DEFINE w == link[c].wire
           e == Frame("challenge", 0, "none", 0)
           t == Append(w, e)
<1>0. OneLink(link[c]) /\ link = [d \in Conn |-> link[d]] /\ LinkShape
  BY Parts DEF LinkShape
<1>1. link' = [link EXCEPT ![c].wire = t]
  BY DEF GatewayChallenges
<1> HIDE DEF t
<1>2. link'[c].wire = t /\ link'[c].inbox = link[c].inbox
  BY <1>0, <1>1 DEF OneLink
<1>3. \A d \in Conn : d # c => link'[d] = link[d]
  BY <1>0, <1>1
<1>4. OnWires' \subseteq OnWires \cup {e}
  BY <1>0, <1>2, <1>3, SentFlow DEF t
<1>5. Asked' \subseteq Asked /\ \A x \in Asked' : x[2].id \in IdsInUse
  BY <1>2, <1>3, SameAsks
<1>6. e.kind = "challenge" /\ FrameTrue(e)'
  BY DEF Frame, FrameTrue
<1>7. UNCHANGED <<client, call, runner, manager, runs, arrived>> /\ RunsGrow /\ Started' = Started
  BY SameRuns DEF GatewayChallenges, gatewayState, Started
<1>8. Speaks(e)
  BY <1>4, <1>5, <1>6, <1>7 DEF Speaks, VerdictInv, Reports, OutcomeShape
<1> HIDE DEF e
<1> QED BY <1>5, <1>6, <1>7, <1>8, TellsReports

LEMMA SentLink ==
  ASSUME LinkShape, NEW c \in Conn, NEW kind, NEW what, NEW run, Sent(c, kind, what, run)
  PROVE  \E e : /\ e = Frame(kind, <<c, link[c].sent + 1>>, what, run)
                /\ OnWires' \subseteq OnWires \cup {e}
                /\ Asked' \subseteq Asked /\ \A x \in Asked' : x[2].id \in IdsInUse
<1> DEFINE w == link[c].wire
           e == Frame(kind, <<c, link[c].sent + 1>>, what, run)
           t == Append(w, e)
<1>0. OneLink(link[c]) /\ link = [d \in Conn |-> link[d]]
  BY DEF LinkShape
<1>1. link' = [link EXCEPT ![c].wire = t, ![c].sent = @ + 1]
  BY DEF Sent
<1> HIDE DEF t
<1>2. link'[c] = [link[c] EXCEPT !.wire = t, !.sent = @ + 1]
  BY <1>0, <1>1
<1>3. link'[c].wire = t /\ link'[c].inbox = link[c].inbox
  BY <1>0, <1>2 DEF OneLink
<1>4. \A d \in Conn : d # c => link'[d] = link[d]
  BY <1>0, <1>1
<1>5. OnWires' \subseteq OnWires \cup {e}
  <2> HIDE DEF e
  <2> QED BY <1>0, <1>3, <1>4, SentFlow DEF t
<1>6. Asked' \subseteq Asked /\ \A x \in Asked' : x[2].id \in IdsInUse
  BY <1>3, <1>4, SameAsks
<1> QED BY <1>5, <1>6

LEMMA EventReported ==
  ASSUME VerdictInv, NEW c \in Conn, GatewayEvent(c)
  PROVE  Reports'
<1>1. PICK kind, what :
        /\ kind \in {"talk", "tool"}
        /\ Sent(c, kind, what, 0) /\ (kind = "tool" => mode = "realtime")
        /\ what \notin {"accepted", "ok"}
  BY DEF GatewayEvent, TalkEvent
<1>2. PICK e : /\ e = Frame(kind, <<c, link[c].sent + 1>>, what, 0)
               /\ OnWires' \subseteq OnWires \cup {e}
               /\ Asked' \subseteq Asked /\ \A x \in Asked' : x[2].id \in IdsInUse
  BY <1>1, Parts, SentLink
<1>3. UNCHANGED <<client, call, runner, manager, runs, arrived>> /\ RunsGrow /\ Started' = Started
  BY SameRuns DEF GatewayEvent, Started
<1>4. e.kind = kind /\ FrameTrue(e)'
  BY <1>1, <1>2, <1>3 DEF Frame, FrameTrue, runner
<1>5. Speaks(e)
  BY <1>1, <1>2, <1>3, <1>4 DEF Speaks, VerdictInv, Reports, OutcomeShape
<1> QED BY <1>1, <1>2, <1>3, <1>4, <1>5, TellsReports

LEMMA RunEnds ==
  ASSUME VerdictInv, NEW r \in Run, runs[r] \notin {"none", "final"}, NEW v, v # "none",
         runs' = [runs EXCEPT ![r] = v]
  PROVE  /\ runs' = [s \in Run |-> runs'[s]] /\ RunsGrow /\ Started' = Started
         /\ (v = "final" => Final(r)')
<1>1. runs = [s \in Run |-> runs[s]]
  BY DEF VerdictInv, Reports, OutcomeShape
<1>2. runs' = [s \in Run |-> runs'[s]] /\ runs'[r] = v /\ \A s \in Run : s # r => runs'[s] = runs[s]
  BY <1>1
<1> QED BY <1>2 DEF RunsGrow, Started, Final

LEMMA ChatReported ==
  ASSUME VerdictInv, NEW c \in Conn, GatewayChat(c)
  PROVE  Reports'
<1>0. mode = "realtime" /\ UNCHANGED <<client, call, runner, manager, arrived>>
  BY DEF GatewayChat
<1>1. PICK r, what :
        /\ r \in Run
        /\ runs[r] # "none" /\ Sent(c, "chat", what, r) /\ what \in EventOf(r)
        /\ IF runs[r] = "final" THEN runs' = runs
           ELSE runs' = [runs EXCEPT ![r] = IF what = "final" THEN "final" ELSE "failed"]
  BY DEF GatewayChat
<1>2. PICK e : /\ e = Frame("chat", <<c, link[c].sent + 1>>, what, r)
               /\ OnWires' \subseteq OnWires \cup {e}
               /\ Asked' \subseteq Asked /\ \A x \in Asked' : x[2].id \in IdsInUse
  BY <1>1, Parts, SentLink
<1>3. /\ runs' = [s \in Run |-> runs'[s]] /\ RunsGrow /\ Started' = Started
      /\ (what = "final" => Final(r)')
  <2>1. CASE runs[r] = "final"
    <3>1. runs' = runs /\ Final(r)'
      BY <1>1, <2>1 DEF Final
    <3> QED BY <3>1, SameRuns DEF Started, VerdictInv, Reports, OutcomeShape
  <2>2. CASE runs[r] # "final"
    <3>1. PICK v : v = IF what = "final" THEN "final" ELSE "failed"
      OBVIOUS
    <3>2. v # "none" /\ runs' = [runs EXCEPT ![r] = v] /\ (what = "final" => v = "final")
      BY <1>1, <2>2, <3>1
    <3> QED BY <1>1, <2>2, <3>2, RunEnds
  <2> QED BY <2>1, <2>2
<1>4. what \in {"error", "final"}
  BY <1>1 DEF EventOf
<1>5. e.kind = "chat" /\ FrameTrue(e)'
  <2> HIDE DEF Final
  <2> QED BY <1>0, <1>2, <1>3, <1>4 DEF Frame, FrameTrue, runner
<1>6. Speaks(e)
  BY <1>0, <1>2, <1>3, <1>5 DEF Speaks
<1> QED BY <1>2, <1>3, <1>5, <1>6, TellsReports

LEMMA BreakReported ==
  ASSUME VerdictInv, NEW c \in Conn, GatewayBreaks(c)
  PROVE  Reports'
<1> DEFINE w == link[c].wire
           bad == Frame("bad", 0, "none", 0)
<1>0. OneLink(link[c]) /\ link = [d \in Conn |-> link[d]] /\ LinkShape
  BY Parts DEF LinkShape
<1>1. PICK t \in {w, Append(w, bad)} :
        link' = [link EXCEPT ![c].wire = t, ![c].peer = FALSE, ![c].inbox = {}]
  BY DEF GatewayBreaks
<1>2. link'[c] = [link[c] EXCEPT !.wire = t, !.peer = FALSE, !.inbox = {}]
  BY <1>0, <1>1
<1>3. link'[c].wire = t /\ link'[c].inbox = {}
  BY <1>0, <1>2 DEF OneLink
<1>4. \A d \in Conn : d # c => link'[d] = link[d]
  BY <1>0, <1>1
<1>5. OnWires' \subseteq OnWires \cup {bad}
  <2>1. CASE t = w
    <3>1. PICK E : E = {}
      OBVIOUS
    <3>2. OnWires' \subseteq OnWires \cup E
      BY <1>3, <1>4, <2>1, WiresFlow
    <3> QED BY <3>1, <3>2
  <2>2. CASE t = Append(w, bad)
    <3> HIDE DEF bad
    <3> QED BY <1>0, <1>3, <1>4, <2>2, SentFlow
  <2> QED BY <2>1, <2>2
<1>6. Asked' \subseteq Asked /\ \A x \in Asked' : x[2].id \in IdsInUse
  BY <1>3, <1>4, SameAsks
<1>7. bad.kind = "bad" /\ FrameTrue(bad)'
  BY DEF Frame, FrameTrue
<1>8. UNCHANGED <<client, call, runner, manager, runs, arrived>> /\ RunsGrow /\ Started' = Started
  BY SameRuns DEF GatewayBreaks, gatewayState, Started
<1>9. Speaks(bad)
  BY <1>5, <1>6, <1>7, <1>8 DEF Speaks, VerdictInv, Reports, OutcomeShape
<1> HIDE DEF bad
<1> QED BY <1>6, <1>7, <1>8, <1>9, TellsReports

-----------------------------------------------------------------------------
(* The Gateway answers a request *)

LEMMA AnswerFlow ==
  ASSUME LinkShape, NEW c \in Conn, NEW q \in link[c].inbox, NEW what, NEW run,
         Answers(c, q, what, run)
  PROVE  /\ OnWires' \subseteq OnWires \cup {Response(q, what, run)}
         /\ Asked' \subseteq Asked /\ (\A x \in Asked' : x[2].id \in IdsInUse)
         /\ At(c, q) \in Asked /\ At(c, q)[2] = q
         /\ q.method = "toolCall" => At(c, q) \notin Asked'
<1> DEFINE e == Response(q, what, run)
           w == Append(link[c].wire, e)
           session == link[c].session \/ (q.method = "create" /\ what = "ok")
<1>0. OneLink(link[c]) /\ link = [d \in Conn |-> link[d]]
  BY DEF LinkShape
<1>1. \/ link' = [[link EXCEPT ![c].wire = w, ![c].session = session]
                    EXCEPT ![c].inbox = @ \ {q}]
      \/ /\ q.method # "toolCall"
         /\ link' = [link EXCEPT ![c].wire = w, ![c].session = session]
  BY DEF Answers
<1> HIDE DEF w, session
<1>2. \A d \in Conn : d # c => link'[d] = link[d]
  BY <1>0, <1>1
<1>3. /\ link'[c].wire = w /\ link'[c].inbox \subseteq link[c].inbox
      /\ q.method = "toolCall" => q \notin link'[c].inbox
  <2>1. CASE link' = [[link EXCEPT ![c].wire = w, ![c].session = session]
                        EXCEPT ![c].inbox = @ \ {q}]
    BY <1>0, <2>1 DEF OneLink
  <2>2. CASE q.method # "toolCall" /\ link' = [link EXCEPT ![c].wire = w, ![c].session = session]
    BY <1>0, <2>2 DEF OneLink
  <2> QED BY <1>1, <2>1, <2>2
<1>4. OnWires' \subseteq OnWires \cup {e}
  <2> HIDE DEF e
  <2> QED BY <1>2, <1>3, SentFlow DEF w
<1>5. Asked' \subseteq Asked /\ \A x \in Asked' : x[2].id \in IdsInUse
  BY <1>2, <1>3, SameAsks
<1>6. At(c, q) \in Asked /\ At(c, q)[2] = q
  BY AskedAt DEF At
<1>7. q.method = "toolCall" => At(c, q) \notin Asked'
  BY <1>3 DEF Asked, At
<1> QED BY <1>4, <1>5, <1>6, <1>7

(***************************************************************************)
(* The answer e to the request y.  Only the answer to a tool call tells of *)
(* a run it starts, and only a wait for a finished run ends well.          *)
(***************************************************************************)
LEMMA AnswerReports ==
  ASSUME VerdictInv, NEW e, Speaks(e), NEW y \in Asked, e.id = y[2].id, Asked' \subseteq Asked,
         Asks(y, "toolCall") => y \notin Asked',
         \/ Started' = Started
         \/ Asks(y, "toolCall") /\ Started' \subseteq Started \cup {e.run},
         Asks(y, "wait") /\ e.what = "ok" => Final(y[2].arg)
  PROVE  Reports'
<1>0. UNCHANGED <<mode, result, arrived>> /\ RunsGrow
  BY DEF Speaks, runner
<1>1. /\ CallShape' /\ OutcomeShape' /\ Submission' /\ Turns' /\ Frames' /\ Accounted'
      /\ EventsCall' = EventsCall /\ (Consulting' <=> Consulting) /\ (Clean' <=> Clean)
      /\ Mine' \subseteq Mine \cup {f \in {e} : Answering(f)}
  BY SpeaksKeeps
<1>2. Requests /\ Correlated /\ Consults /\ Turns
  BY DEF VerdictInv, Reports
<1>3. Requests'
  <2> HIDE DEF Started, Asked
  <2>1. CASE Started' = Started
    BY <1>0, <1>2, <2>1 DEF Requests, Asks
  <2>2. CASE Asks(y, "toolCall")
    <3>1. mode = "realtime" /\ \A x \in Asked : ~Asks(x, "agent")
      BY <1>2, <2>2 DEF Requests
    <3> QED BY <1>0, <3>1 DEF Requests, Asks
  <2> QED BY <2>1, <2>2
<1>4. \A f \in Mine' : f \in Mine \/ (f = e /\ y[2].id = EventsCall.id)
  BY <1>1 DEF Answering
<1> HIDE DEF Started, Asked, Mine, EventsCall, Clean
<1>5. Correlated'
  <2>1. EventsCall.at = "await" /\ EventsCall.method = "wait" =>
          \A f \in Mine' : f.what = "ok" => Final(EventsCall.arg)
    BY <1>2, <1>4 DEF Correlated, Asks
  <2> QED BY <1>0, <1>1, <1>2, <2>1 DEF Correlated, RunsGrow
<1>6. Consults'
  <2> SUFFICES ASSUME mode = "realtime", Clean PROVE Consults'
    BY <1>0, <1>1 DEF Consults
  <2>1. CASE ~Asks(y, "toolCall")
    <3>1. Started' = Started /\ (NoToolCall => NoToolCall')
      BY <2>1 DEF NoToolCall, Asks
    <3>2. Consulting /\ EventsCall.at = "await" => Mine' \subseteq Mine
      BY <1>2, <1>4, <2>1 DEF Consulting, Correlated, Turns, Asks
    <3> HIDE DEF NoToolCall, Consulting
    <3> QED BY <1>0, <1>1, <1>2, <3>1, <3>2 DEF Consults, Asks
  <2>2. CASE Asks(y, "toolCall")
    <3>1. /\ Consulting /\ (EventsCall.at = "done" => EventsCall.result.what # "ok")
      BY <1>2, <2>2 DEF Consults, NoToolCall
    <3>2. CASE EventsCall.at = "await"
      <4>1. /\ Started \subseteq result.runs /\ Mine = {}
            /\ \A x \in Asked : Asks(x, "toolCall") => x = y
        BY <1>2, <2>2, <3>1, <3>2 DEF Consults
      <4>2. \A x \in Asked' : ~Asks(x, "toolCall")
        BY <2>2, <4>1
      <4>3. \A f \in Mine' : f = e
        BY <1>4, <4>1
      <4>4. Started' \subseteq result.runs \cup {e.run}
        BY <4>1
      <4> HIDE DEF NoToolCall, Consulting
      <4> QED BY <1>0, <1>1, <3>1, <3>2, <4>2, <4>3, <4>4 DEF Consults, Asks
    <3>3. CASE EventsCall.at # "await"
      <4> HIDE DEF NoToolCall, Consulting
      <4> QED BY <1>0, <1>1, <3>1, <3>3 DEF Consults, Asks
    <3> QED BY <3>2, <3>3
  <2> QED BY <2>1, <2>2
<1> QED BY <1>1, <1>3, <1>5, <1>6 DEF Reports

LEMMA RunBegins ==
  ASSUME VerdictInv, NEW r \in Fresh, runs' = [runs EXCEPT ![r] = "running"]
  PROVE  /\ runs' = [s \in Run |-> runs'[s]] /\ RunsGrow /\ r \in Run
         /\ Started' = Started \cup {r}
<1>1. runs = [s \in Run |-> runs[s]]
  BY DEF VerdictInv, Reports, OutcomeShape
<1>2. r \in Run /\ runs[r] = "none"
  BY DEF Fresh
<1>3. runs' = [s \in Run |-> runs'[s]] /\ runs'[r] = "running"
      /\ \A s \in Run : s # r => runs'[s] = runs[s]
  BY <1>1, <1>2
<1> QED BY <1>2, <1>3 DEF RunsGrow, Started, Final

LEMMA AnswersReport ==
  ASSUME VerdictInv, NEW c \in Conn, GatewayAnswers(c)
  PROVE  Reports'
<1>0. UNCHANGED <<client, call, runner, manager, arrived>>
  BY DEF GatewayAnswers
<1>1. PICK q \in link[c].inbox : \E what, run :
        /\ Answers(c, q, what, run) /\ what \in {"ok", "no"}
        /\ \/ runs' = runs /\ run = 0
           \/ /\ q.method = "toolCall" /\ run \in Fresh
              /\ runs' = [runs EXCEPT ![run] = "running"]
        /\ q.method = "wait" /\ what = "ok" => runs[q.arg] = "final"
  BY DEF GatewayAnswers
<1>2. PICK what, run :
        /\ Answers(c, q, what, run) /\ what \in {"ok", "no"}
        /\ \/ runs' = runs /\ run = 0
           \/ /\ q.method = "toolCall" /\ run \in Fresh
              /\ runs' = [runs EXCEPT ![run] = "running"]
        /\ q.method = "wait" /\ what = "ok" => runs[q.arg] = "final"
  BY <1>1
<1>3. PICK e : e = Response(q, what, run)
  OBVIOUS
<1>4. PICK y : y = At(c, q)
  OBVIOUS
<1>5. /\ OnWires' \subseteq OnWires \cup {e}
      /\ Asked' \subseteq Asked /\ (\A x \in Asked' : x[2].id \in IdsInUse)
      /\ y \in Asked /\ y[2] = q /\ (q.method = "toolCall" => y \notin Asked')
  BY <1>2, <1>3, <1>4, Parts, AnswerFlow
<1>6. /\ e = Frame("res", q.id, what, run) /\ e.kind = "res" /\ e.id = q.id /\ e.what = what
      /\ e.run = run
  BY <1>3 DEF Response, Frame
<1>7. /\ runs' = [s \in Run |-> runs'[s]] /\ RunsGrow
      /\ Started' = Started \/ (q.method = "toolCall" /\ Started' \subseteq Started \cup {run})
  <2>1. CASE runs' = runs
    BY <2>1, SameRuns DEF Started, VerdictInv, Reports, OutcomeShape
  <2>2. CASE q.method = "toolCall" /\ run \in Fresh /\ runs' = [runs EXCEPT ![run] = "running"]
    BY <2>2, RunBegins
  <2> QED BY <1>2, <2>1, <2>2
<1>8. q.method = "toolCall" => mode = "realtime"
  BY <1>5 DEF VerdictInv, Reports, Requests, Asks
<1>9. FrameTrue(e)'
  BY <1>0, <1>2, <1>6, <1>8 DEF FrameTrue, runner
<1>10. e.id \in IdsInUse
  BY <1>5, <1>6, InUse
<1>11. Speaks(e)
  BY <1>0, <1>5, <1>7, <1>9, <1>10 DEF Speaks
<1>12. q.method = "wait" /\ e.what = "ok" => Final(q.arg)
  BY <1>2, <1>6 DEF Final
<1> QED BY <1>5, <1>6, <1>7, <1>11, <1>12, AnswerReports DEF Asks

-----------------------------------------------------------------------------
(* The Gateway runs the agent *)

LEMMA TakenOut ==
  ASSUME NEW c \in Conn, NEW q, q \notin link'[c].inbox
  PROVE  At(c, q) \notin Asked'
<1> SUFFICES ASSUME At(c, q) \in Asked' PROVE FALSE
  OBVIOUS
<1>1. PICK d \in Conn : \E p \in link'[d].inbox : At(c, q) = At(d, p)
  BY DEF Asked, At
<1> QED BY <1>1 DEF At

(***************************************************************************)
(* The request y is acknowledged or answered by e, for its one run; z      *)
(* stands for it as long as the run goes on.                               *)
(***************************************************************************)
LEMMA AgentRunReports ==
  ASSUME VerdictInv, NEW e, Speaks(e), NEW y \in Asked, Asks(y, "agent"), e.id = y[2].id,
         NEW z, z[2].id = y[2].id, Asks(z, "agent"), IsRequest(z[2]), z[2].arg \in Run,
         \A x \in Asked' : (x \in Asked /\ x # y) \/ x = z,
         Started' = Started \/ (Started = {} /\ \E r : Started' = {r})
  PROVE  Reports'
<1>0. UNCHANGED <<mode, result, arrived>> /\ RunsGrow
  BY DEF Speaks, runner
<1>1. /\ CallShape' /\ OutcomeShape' /\ Submission' /\ Turns' /\ Frames' /\ Accounted'
      /\ EventsCall' = EventsCall /\ (Consulting' <=> Consulting) /\ (Clean' <=> Clean)
      /\ Mine' \subseteq Mine \cup {f \in {e} : Answering(f)}
  BY SpeaksKeeps
<1>2. Requests /\ Correlated
  BY DEF VerdictInv, Reports
<1>3. mode # "realtime" /\ arrived # 0 /\ \A x \in Asked : Asks(x, "agent") => x = y
  BY <1>2 DEF Requests
<1>4. \A x \in Asked' : /\ Asks(x, "agent") => x = z
                        /\ ~Asks(x, "toolCall")
  <2>1. \A x \in Asked : ~Asks(x, "toolCall")
    BY <1>2, <1>3 DEF Requests
  <2>2. ~Asks(z, "toolCall")
    BY DEF Asks
  <2> QED BY <1>3, <2>1, <2>2
<1>5. Requests'
  <2>1. \A r, s \in Started' : r = s
    BY <1>2, <1>3 DEF Requests
  <2>2. z[2].arg # 0
    BY DEF Run
  <2> HIDE DEF Started, Asked
  <2>3. /\ \A x \in Asked' : Asks(x, "agent") =>
             IsRequest(x[2]) /\ x[2].arg # 0 /\ x[2].arg \in Run
        /\ \A x, u \in Asked' : Asks(x, "agent") /\ Asks(u, "agent") => x = u
    BY <1>4, <2>2
  <2>4. UNCHANGED <<mode, arrived>> /\ mode # "realtime" /\ arrived # 0
    BY <1>0, <1>3
  <2>5. \A x \in Asked' : ~Asks(x, "toolCall")
    BY <1>4 DEF Asks
  <2> QED BY <2>1, <2>3, <2>4, <2>5 DEF Requests, Asks
<1>6. \A f \in Mine' : f \in Mine \/ (f = e /\ y[2].id = EventsCall.id)
  BY <1>1 DEF Answering
<1> HIDE DEF Started, Asked, Mine, EventsCall
<1>7. Correlated'
  <2>1. EventsCall.at = "await" /\ EventsCall.method = "wait" => y[2].id # EventsCall.id
    BY <1>2 DEF Correlated, Asks
  <2>2. EventsCall.at = "await" /\ EventsCall.method = "wait" =>
          \A f \in Mine' : f.what = "ok" => Final(EventsCall.arg)
    BY <1>2, <1>6, <2>1 DEF Correlated
  <2>3. EventsCall.at = "await" =>
          \A x \in Asked' : x[2].id = EventsCall.id =>
            /\ x[2].method = EventsCall.method
            /\ EventsCall.method = "wait" => x[2].arg = EventsCall.arg
    BY <1>2, <2>1 DEF Correlated, Asks
  <2> QED BY <1>0, <1>1, <1>2, <2>2, <2>3 DEF Correlated, RunsGrow
<1>8. Consults'
  BY <1>0, <1>3 DEF Consults
<1> QED BY <1>1, <1>5, <1>7, <1>8 DEF Reports

LEMMA RunsAgentReports ==
  ASSUME VerdictInv, NEW c \in Conn, GatewayRunsAgent(c)
  PROVE  Reports'
<1>0. UNCHANGED <<client, call, runner, manager, arrived>>
  BY DEF GatewayRunsAgent
<1>1. PICK q \in link[c].inbox :
        /\ q.method = "agent"
        /\ \/ /\ q.arg = 0
              /\ \E run \in Fresh :
                   /\ runs' = [runs EXCEPT ![run] = "running"]
                   /\ link' = [link EXCEPT
                        ![c].wire = Append(@, Response(q, "accepted", run)),
                        ![c].inbox = (@ \ {q}) \cup {[q EXCEPT !.arg = run]}]
           \/ /\ q.arg # 0 /\ runs[q.arg] = "running"
              /\ \E what \in {"ok", "failed", "no"} :
                   /\ runs' = [runs EXCEPT ![q.arg] = IF what = "ok" THEN "final" ELSE "failed"]
                   /\ link' = [link EXCEPT ![c].wire = Append(@, Response(q, what, q.arg)),
                                           ![c].inbox = @ \ {q}]
  BY DEF GatewayRunsAgent
<1>2. PICK y : y = At(c, q)
  OBVIOUS
<1>3. y \in Asked /\ y[2] = q /\ Asks(y, "agent")
  BY <1>1, <1>2, AskedAt DEF At, Asks
<1>4. /\ IsRequest(q) /\ q.id \in IdsInUse
      /\ IF q.arg = 0 THEN Started = {} ELSE q.arg \in Run
  BY <1>3, InUse DEF VerdictInv, Reports, Requests
<1>5. CASE q.arg = 0
  <2>1. PICK run \in Fresh :
          /\ runs' = [runs EXCEPT ![run] = "running"]
          /\ link' = [link EXCEPT
               ![c].wire = Append(@, Response(q, "accepted", run)),
               ![c].inbox = (@ \ {q}) \cup {[q EXCEPT !.arg = run]}]
    BY <1>1, <1>5
  <2>2. /\ runs' = [s \in Run |-> runs'[s]] /\ RunsGrow /\ run \in Run
        /\ Started' = {run}
    BY <1>4, <1>5, <2>1, RunBegins
  <2>3. PICK n : n = [q EXCEPT !.arg = run]
    OBVIOUS
  <2>4. n.id = q.id /\ n.method = q.method /\ n.arg = run /\ IsRequest(n) /\ n # q
    <3>1. q = [id |-> q.id, method |-> q.method, arg |-> q.arg]
      BY <1>4 DEF IsRequest, Request
    <3>2. n = [id |-> q.id, method |-> q.method, arg |-> run]
      BY <2>3, <3>1
    <3>3. run # 0
      BY <2>2 DEF Run
    <3> QED BY <1>5, <3>2, <3>3 DEF IsRequest, Request
  <2>5. PICK J : J = {n}
    OBVIOUS
  <2>6. PICK e : e = Response(q, "accepted", run)
    OBVIOUS
  <2>7. /\ OnWires' \subseteq OnWires \cup {e}
        /\ \A x \in Asked' : x \in Asked \/ \E p \in J : x = At(c, p)
        /\ y \notin Asked'
    <3>1. PICK w, inbox : w = Append(link[c].wire, e) /\ inbox = (link[c].inbox \ {q}) \cup J
      OBVIOUS
    <3>2. link' = [link EXCEPT ![c].wire = w, ![c].inbox = inbox]
      BY <2>1, <2>3, <2>5, <2>6, <3>1, Parts DEF LinkShape, OneLink
    <3>3. /\ link'[c].wire = w /\ link'[c].inbox = inbox
          /\ \A d \in Conn : d # c => link'[d] = link[d]
      BY <3>2, Parts DEF LinkShape, OneLink
    <3>4. OnWires' \subseteq OnWires \cup {e}
      BY <3>1, <3>3, Parts, SentFlow
    <3>5. inbox \subseteq link[c].inbox \cup J /\ q \notin inbox
      BY <2>4, <2>5, <3>1
    <3>6. \A x \in Asked' : x \in Asked \/ \E p \in J : x = At(c, p)
      BY <3>3, <3>5, AsksFlow
    <3>7. y \notin Asked'
      BY <1>2, <3>3, <3>5, TakenOut
    <3> QED BY <3>4, <3>6, <3>7
  <2>8. PICK z : z = At(c, n)
    OBVIOUS
  <2>9. /\ z[2].id = q.id /\ Asks(z, "agent") /\ IsRequest(z[2]) /\ z[2].arg \in Run
        /\ \A x \in Asked' : (x \in Asked /\ x # y) \/ x = z
    BY <1>1, <2>2, <2>4, <2>5, <2>7, <2>8 DEF At, Asks
  <2>10. /\ e.kind = "res" /\ e.id = q.id /\ FrameTrue(e)'
    BY <1>0, <2>2, <2>6 DEF Response, Frame, FrameTrue, runner
  <2>11. Speaks(e)
    <3>1. \A x \in Asked' : x[2].id \in IdsInUse
      BY <1>4, <2>9, InUse
    <3> QED BY <1>0, <1>4, <2>2, <2>7, <2>10, <3>1 DEF Speaks
  <2> QED BY <1>3, <1>4, <1>5, <2>2, <2>9, <2>10, <2>11, AgentRunReports
<1>6. CASE q.arg # 0
  <2>1. PICK what \in {"ok", "failed", "no"} :
          /\ runs[q.arg] = "running"
          /\ runs' = [runs EXCEPT ![q.arg] = IF what = "ok" THEN "final" ELSE "failed"]
          /\ link' = [link EXCEPT ![c].wire = Append(@, Response(q, what, q.arg)),
                                  ![c].inbox = @ \ {q}]
    BY <1>1, <1>6
  <2>2. PICK v : v = IF what = "ok" THEN "final" ELSE "failed"
    OBVIOUS
  <2>3. PICK r \in Run : r = q.arg
    BY <1>4, <1>6
  <2>4. /\ runs' = [s \in Run |-> runs'[s]] /\ RunsGrow /\ Started' = Started
        /\ (what = "ok" => Final(r)')
    <3>1. runs' = [runs EXCEPT ![r] = v] /\ runs[r] = "running" /\ v # "none"
          /\ (what = "ok" => v = "final")
      BY <2>1, <2>2, <2>3
    <3> QED BY <3>1, RunEnds
  <2>5. PICK e : e = Response(q, what, r)
    OBVIOUS
  <2>6. OnWires' \subseteq OnWires \cup {e} /\ Asked' \subseteq Asked /\ y \notin Asked'
    <3>1. PICK w, inbox : w = Append(link[c].wire, e) /\ inbox = link[c].inbox \ {q}
      OBVIOUS
    <3>2. link' = [link EXCEPT ![c].wire = w, ![c].inbox = inbox]
      BY <2>1, <2>3, <2>5, <3>1, Parts DEF LinkShape, OneLink
    <3>3. /\ link'[c].wire = w /\ link'[c].inbox = inbox
          /\ \A d \in Conn : d # c => link'[d] = link[d]
      BY <3>2, Parts DEF LinkShape, OneLink
    <3>4. OnWires' \subseteq OnWires \cup {e}
      BY <3>1, <3>3, Parts, SentFlow
    <3>5. Asked' \subseteq Asked
      BY <3>1, <3>3, SameAsks
    <3>6. y \notin Asked'
      BY <1>2, <3>1, <3>3, TakenOut
    <3> QED BY <3>4, <3>5, <3>6
  <2>7. /\ e.kind = "res" /\ e.id = q.id /\ FrameTrue(e)'
    <3> HIDE DEF Final
    <3> QED BY <1>0, <2>1, <2>4, <2>5 DEF Response, Frame, FrameTrue, runner
  <2>8. Speaks(e)
    <3>1. \A x \in Asked' : x[2].id \in IdsInUse
      BY <2>6, InUse
    <3> QED BY <1>0, <1>4, <2>4, <2>6, <2>7, <3>1 DEF Speaks
  <2> QED BY <1>3, <1>4, <2>3, <2>4, <2>6, <2>7, <2>8, AgentRunReports
<1> QED BY <1>5, <1>6

-----------------------------------------------------------------------------
(* The theorem *)

LEMMA VerdictInit == Init => VerdictInv
<1> SUFFICES ASSUME Init PROVE VerdictInv
  OBVIOUS
<1> DEFINE none == <<>>
<1>1. SeqLike(none) /\ ToSet(none) = {} /\ none = <<>>
  BY EmptyLike, HeldEmpty
<1> HIDE DEF none
<1>2. /\ call = [p \in Proc |-> Idle] /\ link = [c \in Conn |-> Unused]
      /\ client.queue = none /\ client.pending = {}
  BY <1>1 DEF Init, GatewayInit, NewClient
<1>3. /\ Idle = [at |-> "idle", id |-> 0, conn |-> 0, method |-> "none", arg |-> 0,
                 replies |-> none, result |-> None]
      /\ Unused.wire = none /\ Unused.inbox = {}
  BY <1>1 DEF Idle, Unused
<1>4. CallShape /\ \A p \in Proc : call[p] = Idle
  BY <1>1, <1>2, <1>3 DEF CallShape
<1>5. MainCall = Idle /\ EventsCall = Idle
  BY <1>4, Callers DEF MainCall, EventsCall
<1>6. OnWires = {} /\ Queued = {} /\ Replies("main") = {} /\ Replies("events") = {}
  <2>1. OnWires = {}
    BY <1>1, <1>2, <1>3 DEF OnWires
  <2>2. Queued = {}
    BY <1>1, <1>2 DEF Queued
  <2>3. Replies("main") = {} /\ Replies("events") = {}
    BY <1>1, <1>3, <1>4, Callers DEF Replies
  <2> QED BY <2>1, <2>2, <2>3
<1>7. Asked = {}
  BY <1>2, <1>3, AskedAt
<1>8. Started = {} /\ runs = [r \in Run |-> runs[r]]
  BY DEF Init, Started
<1>9. IsFiniteSet(IdsInUse)
  <2>1. IdsInUse \subseteq {0}
    BY <1>2, <1>3, <1>4, <1>6, <1>7, InUse
  <2>2. IsFiniteSet({0})
    BY FS_Singleton
  <2> QED BY <2>1, <2>2, FS_Subset
<1>10. /\ mode \in {"agent", "realtime", "voice"} /\ main.at = "connect" /\ ~main.err
       /\ main.phase = IF mode = "agent" THEN "agent" ELSE "talk"
       /\ arrived = 0 /\ accepted = 0 /\ verdict = "none" /\ outcome = "none"
       /\ ev = NotListening /\ result = NewResult
  BY DEF Init, RunnerInit
<1>11. OutcomeShape
  BY <1>8, <1>9, <1>10 DEF OutcomeShape, NewResult
<1>12. Submission
  BY <1>10 DEF Submission
<1>13. Turns
  BY <1>3, <1>5, <1>10 DEF Turns, NotListening
<1>14. Frames
  BY <1>6 DEF Frames
<1>15. Requests
  BY <1>7, <1>8 DEF Requests
<1>16. Correlated
  BY <1>3, <1>5 DEF Correlated
<1>17. Consults
  BY <1>3, <1>5, <1>7, <1>8 DEF Consults, Consulting, NoToolCall
<1>18. Accounted
  BY <1>10 DEF Accounted, NotListening, NewResult
<1> QED BY <1>4, <1>11, <1>12, <1>13, <1>14, <1>15, <1>16, <1>17, <1>18, SequenceInit
        DEF VerdictInv, Reports

LEMMA VerdictNext == VerdictInv /\ [Next]_vars => VerdictInv'
<1> SUFFICES ASSUME VerdictInv, [Next]_vars PROVE VerdictInv'
  OBVIOUS
<1>1. SequenceInv'
  BY SequenceNext DEF VerdictInv
<1>2. CASE MainSteps
  BY <1>1, <1>2, ConnectReports, ChallengeReports, AuthenticateReports, CreateReports,
     AppendReports, JoinReports, CloseSessionReports, SubmitReports, ReplyReports,
     GiveUpReports, LeaveReports, HandOverReports
     DEF MainSteps, MainStep, VerdictInv
<1>3. CASE EventsSteps
  BY <1>1, <1>3, RecvReports, FrameReports, ConsultReports, SubmitToolReports, FinishReports
     DEF EventsSteps, EventsStep, VerdictInv
<1>4. CASE NothingToSay
  BY <1>1, <1>4, NothingReports DEF VerdictInv
<1>5. CASE Expire
  BY <1>1, <1>5, ExpireReports DEF VerdictInv
<1>6. CASE Gateway
  BY <1>1, <1>6, AnswersReport, RunsAgentReports, ChallengeReported, EventReported,
     ChatReported, BreakReported DEF Gateway, VerdictInv
<1>7. CASE \E p \in Proc : Calls(p)
  BY <1>1, <1>7, CallsReports, ConsultReturns DEF VerdictInv
<1>8. CASE \E c \in Conn : Reads(c)
  BY <1>1, <1>8, ReadsReports DEF VerdictInv
<1>9. CASE UNCHANGED vars
  <2>1. Steady /\ UNCHANGED <<runner, manager, gatewayState>>
    BY <1>9, Parts, StillSteady DEF vars, gateway
  <2> QED BY <1>1, <2>1, StandReports DEF VerdictInv
<1> QED BY <1>2, <1>3, <1>4, <1>5, <1>6, <1>7, <1>8, <1>9 DEF Next

\* A run that succeeded has failed nowhere, so it knows of every agent run.
LEMMA VerdictHolds == VerdictInv => VerdictMatchesGateway
<1> SUFFICES ASSUME VerdictInv PROVE VerdictMatchesGateway
  OBVIOUS
<1>1. OutcomeShape /\ Submission /\ Turns /\ Requests /\ Consults /\ Accounted
  BY DEF VerdictInv, Reports
<1>2. arrived <= 1
  BY <1>1 DEF OutcomeShape
<1>3. /\ verdict = "unsent" => arrived = 0
      /\ verdict \in {"unknown", "ok"} => accepted # 0 /\ runs[accepted] # "none"
  BY <1>1 DEF Submission, Started
<1>4. ASSUME outcome = "succeeded", NEW r \in Started PROVE runs[r] = "final"
  <2>1. CASE mode = "realtime"
    <3>1. ev.at = "done" /\ Clean
      BY <1>1, <1>4, <2>1 DEF Turns, Clean
    <3>2. r \in result.runs
      BY <1>1, <2>1, <3>1 DEF Consults, Consulting
    <3>3. r \in ev.active \cup ev.completed /\ r # 0
      BY <1>1, <3>1, <3>2 DEF Accounted, Started, Run
    <3>4. Final(r)
      BY <1>1, <3>1, <3>3 DEF Accounted
    <3> QED BY <3>4 DEF Final, Started
  <2>2. CASE mode # "realtime"
    <3>1. verdict = "ok"
      BY <1>1, <1>4, <2>2 DEF Turns
    <3>2. accepted \in Started /\ runs[accepted] = "final"
      BY <1>1, <3>1 DEF Submission
    <3>3. r = accepted
      BY <1>1, <2>2, <3>2 DEF Requests
    <3> QED BY <3>2, <3>3
  <2> QED BY <2>1, <2>2
<1> QED BY <1>2, <1>3, <1>4 DEF VerdictMatchesGateway, Started

(***************************************************************************)
(* What Run and Client.Agent report is so at the Gateway, whatever is      *)
(* lost, late, repeated or timed out, for every queue and wire capacity    *)
(* and every number of connections, agent runs, events and repeats.        *)
(***************************************************************************)
THEOREM VerdictsTrue == Spec => []VerdictMatchesGateway
  BY VerdictInit, VerdictNext, VerdictHolds, PTL DEF Spec
=============================================================================
