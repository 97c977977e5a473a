--------------------------- MODULE GatewayClient ----------------------------
(***************************************************************************)
(* The client of the OpenClaw Gateway (client.go, frame.go and websocket.go *)
(* of pkg/harness/openclaw/gateway): calls correlated with their responses *)
(* over one websocket, events queued for a receiver, and a reader per      *)
(* dialled connection that outlives the connection it reads.               *)
(*                                                                         *)
(* Connections are numbered as they are dialled, so a connection stands    *)
(* for the transport and the generation that connectOnce sets together.    *)
(* Frames are records [kind, id, what, run]: a response carries the id of  *)
(* its request, an event its connection and its number among those sent    *)
(* there.                                                                  *)
(* The client's lock makes each critical section one step.  A message a    *)
(* reader holds before its critical section is still the head of the wire. *)
(***************************************************************************)
EXTENDS Naturals, Sequences, FiniteSets, SequencesExt

CONSTANTS
  Proc,       \* goroutines that call: main and events
  MaxDials,   \* connections dialled in a behaviour
  QueueSize,  \* capacity of the event queue (count and bytes alike)
  WireSize    \* messages on their way to the client
Conn == 1..MaxDials

\* A run has its main goroutine and the one of processEvents.
ASSUME ProcAssumption == {"main", "events"} \subseteq Proc

VARIABLES
  client,     \* Client
  link,       \* the websockets, with their readers and what is on the wire
  call,       \* the call each goroutine makes
  ended       \* the contexts that are done: run, events
gateway == <<client, link, call, ended>>

Frame(kind, id, what, run) ==
  [kind |-> kind, id |-> id, what |-> what, run |-> run]
None == Frame("none", 0, "none", 0)
Failure == Frame("error", 0, "error", 0)

\* New: disposition TRUE delivers events, FALSE keeps responses only.
NewClient(gen, delivers) ==
  [conn |-> 0, gen |-> gen, err |-> "nil", fatal |-> FALSE, await |-> FALSE,
   queue |-> <<>>, pending |-> {},
   connected |-> FALSE, delivers |-> delivers]
Idle == [at |-> "idle", id |-> 0, conn |-> 0, method |-> "none", arg |-> 0,
         replies |-> <<>>, result |-> None]
Unused == [socket |-> "unused", peer |-> FALSE, wire |-> <<>>, inbox |-> {},
           session |-> FALSE, sent |-> 0, reader |-> "off"]
Gone == [Unused EXCEPT !.socket = "closed"]

GatewayInit ==
  /\ \E delivers \in BOOLEAN : client = NewClient(0, delivers)
  /\ link = [c \in Conn |-> Unused]
  /\ call = [p \in Proc |-> Idle]
  /\ ended = {}

-----------------------------------------------------------------------------
(* Ending a connection *)

\* terminateConnectionLocked, under the lock.  The first error stays.
Terminated(err, fatal) ==
  [client EXCEPT
    !.err = IF @ = "nil" THEN err ELSE @,
    !.fatal = IF client.err = "nil" THEN fatal ELSE @,
    !.conn = 0, !.connected = FALSE, !.pending = {}]

\* Room in the reply channel of a call: 1, or 4 for Agent.
Room(p) == Len(call[p].replies) < IF call[p].method = "agent" THEN 4 ELSE 1
Caller(id) == {p \in Proc : call[p].id = id /\ call[p].at = "await"}

\* finishConnectionTermination: wake the pending calls, close the transport.
Woken(ids) ==
  [p \in Proc |->
     IF (\E id \in ids : p \in Caller(id)) /\ Room(p)
     THEN [call[p] EXCEPT !.replies = Append(@, Failure)] ELSE call[p]]
\* What had not been read by then is lost, but for what the reader holds.
SocketClosed(c) ==
  IF c = 0 THEN link
  ELSE [link EXCEPT ![c].socket = "closed",
                    ![c].peer = FALSE, ![c].inbox = {}, ![c].session = FALSE, ![c].sent = 0,
                    ![c].wire = SubSeq(@, 1, IF @ = <<>> THEN 0 ELSE 1)]

\* Mutant: the transport is forgotten before it is closed.
CloseForgets ==
  /\ client' = Terminated("closed", TRUE)
  /\ UNCHANGED link /\ call' = Woken(client.pending)

\* Close.  Nothing but a reader runs beside it, so it is one step.
Close ==
  /\ client' = Terminated("closed", TRUE)
  /\ link' = SocketClosed(client.conn) /\ call' = Woken(client.pending)

-----------------------------------------------------------------------------
(* connectOnce up to its RecvEvent.  Close comes first. *)

DialFails ==
  /\ Close /\ UNCHANGED ended
Dial ==
  /\ client.gen + 1 \in Conn
  /\ LET c == client.gen + 1 IN
     /\ client' = [client EXCEPT
          !.conn = c, !.gen = c, !.err = "nil", !.fatal = FALSE,
          !.await = TRUE, !.queue = <<>>, !.pending = {},
          !.connected = FALSE]
     /\ link' = [SocketClosed(client.conn) EXCEPT ![c] =
          [Unused EXCEPT !.socket = "open", !.peer = TRUE, !.reader = "reading"]]
     /\ call' = Woken(client.pending) /\ UNCHANGED ended

-----------------------------------------------------------------------------
(* Call, in the goroutine p.  A method has a deadline of its own or only the *)
(* context of the run.                                                       *)

Bounded == {"append", "toolCall", "submit", "wait", "close"}
ContextDone(p, method) ==
  \/ method \in Bounded
  \/ "run" \in ended \/ (p = "events" /\ "events" \in ended)

Forgotten(p) == [client EXCEPT !.pending = @ \ {call[p].id}]
Finished(p, frame) ==
  [call EXCEPT ![p] = [@ EXCEPT !.at = "done", !.result = [frame EXCEPT !.id = 0],
                                !.id = 0, !.conn = 0, !.replies = <<>>]]

\* Call up to the send: nothing is registered on a connection that is gone.
\* Agent also wants a connected client.
\* nextID: an id nobody knows of.
IdsInUse ==
  client.pending \cup {call[p].id : p \in Proc}
  \cup UNION {{q.id : q \in link[c].inbox}
              \cup {f.id : f \in {x \in ToSet(link[c].wire) : x.kind = "res"}} :
              c \in Conn}
NextId == CHOOSE id \in 1..(Cardinality(IdsInUse) + 1) : id \notin IdsInUse

Request(id, method, arg) == [id |-> id, method |-> method, arg |-> arg]
Arrives(l, c, q) == [l EXCEPT ![c].inbox = @ \cup {q}]

\* webSocketTransport.Send, on the open connection.  A context that is done
\* before the write sends nothing; one that ends during the write closes the
\* transport under everyone; the request may have arrived.
SendFails(p, method) ==
  LET c == client.conn IN
  \/ (link[c].socket = "closed" \/ ~link[c].peer) /\ UNCHANGED link
  \/ ContextDone(p, method) /\ (UNCHANGED link \/ link' = SocketClosed(c))

\* Call up to the wait: nothing is registered on a connection that is gone.  An
\* end of the connection between the registration and the send fails either.
Begin(p, method, arg) ==
  /\ call[p].at = "idle"
  /\ LET id == NextId
         q == Request(id, method, arg)
         Call(at, what) == call' = [call EXCEPT ![p] =
           [Idle EXCEPT !.at = at, !.method = method, !.arg = arg,
                        !.id = IF at = "await" THEN id ELSE 0,
                        !.conn = IF at = "await" THEN client.conn ELSE 0,
                        !.result = [Failure EXCEPT !.what = what]]]
     IN IF client.fatal \/ client.conn = 0 \/ (method = "agent" /\ ~client.connected)
        THEN Call("done", "unsent") /\ UNCHANGED <<client, link>>
        ELSE \/ SendFails(p, method) /\ Call("done", "sending") /\ UNCHANGED client
             \/ /\ link[client.conn].socket = "open" /\ Call("await", "none")
                /\ link' = Arrives(link, client.conn, q)
                /\ client' = [client EXCEPT !.pending = @ \cup {id}]
  /\ UNCHANGED ended

\* connectionFatal
ConnectionFatal(p) == client.gen # call[p].conn \/ client.fatal

\* The reply a call takes, unless its connection has failed for good meanwhile.
Reply(p) == IF ConnectionFatal(p) THEN Failure ELSE Head(call[p].replies)

Await(p) ==
  /\ call[p].at = "await" /\ call[p].method # "agent"
  /\ \/ call[p].replies # <<>> /\ call' = Finished(p, Reply(p))
     \/ ContextDone(p, call[p].method) /\ call' = Finished(p, Failure)
  /\ client' = Forgotten(p) /\ UNCHANGED <<link, ended>>

\* The caller takes the result.
Returned(p) == call[p].at = "done"
Answer(p) == call[p].result
Resume(p) == call' = [call EXCEPT ![p] = Idle]

-----------------------------------------------------------------------------
(* RecvEvent.  It returns an error at once when the connection has failed    *)
(* for good, after the queue is drained when it ended.                       *)

RecvReady == ~client.fatal /\ client.queue # <<>>
RecvFails == client.fatal \/ (client.err # "nil" /\ client.queue = <<>>)
\* finishEventDelivery releases the event's charge on the queue.
Received == Head(client.queue)
Released == [client EXCEPT !.queue = Tail(@)]

-----------------------------------------------------------------------------
(* readConnection *)

ReaderEnds(c) ==
  /\ link' = [link EXCEPT ![c] = Gone]
  /\ UNCHANGED <<client, call>>
ReadsOn(c) == link' = [link EXCEPT ![c].wire = Tail(@)]
Current(c) == client.conn = c

\* failTransport, failTransportFatal: an old reader ends nothing but itself.
\* The pending calls are woken before anyone can tell.
FailTransport(c, err, fatal) ==
  IF Current(c)
  THEN /\ client' = Terminated(err, fatal)
       /\ link' = [link EXCEPT ![c] = Gone]
       /\ call' = Woken(client.pending)
  ELSE ReaderEnds(c)

DispatchResponse(c, frame) ==
  IF ~Current(c) THEN ReaderEnds(c)
  ELSE LET callers == {p \in Caller(frame.id) : frame.id \in client.pending} IN
       IF callers = {} THEN ReadsOn(c) /\ UNCHANGED <<client, call>>
       ELSE LET p == CHOOSE q \in callers : TRUE IN
            IF Room(p)
            THEN /\ call' = [call EXCEPT ![p].replies = Append(@, frame)]
                 /\ ReadsOn(c) /\ UNCHANGED client
            ELSE FailTransport(c, "overflow", TRUE)

\* Mutant: an event that finds the queue full is dropped.
EnqueueDrops(c, frame, await) ==
  /\ client' = [client EXCEPT !.await = await,
       !.queue = IF Len(@) >= QueueSize THEN @ ELSE Append(@, frame)]
  /\ ReadsOn(c) /\ UNCHANGED call

Enqueue(c, frame, await) ==
  IF Len(client.queue) >= QueueSize THEN FailTransport(c, "overflow", TRUE)
  ELSE /\ client' = [client EXCEPT !.queue = Append(@, frame), !.await = await]
       /\ ReadsOn(c) /\ UNCHANGED call

DispatchEvent(c, frame) ==
  IF ~Current(c) THEN ReaderEnds(c)
  ELSE IF IF frame.kind = "challenge" THEN ~client.await
          ELSE ~client.delivers /\ ~client.await
       THEN ReadsOn(c) /\ UNCHANGED <<client, call>>
       ELSE Enqueue(c, frame, client.await /\ frame.kind # "challenge")

\* webSocketTransport.Receive.  A message cut short, or that is none, is fatal.
ReadMessage(c) ==
  /\ link[c].wire # <<>>
  /\ LET frame == Head(link[c].wire) IN
     CASE frame.kind = "bad" -> FailTransport(c, "protocol", TRUE)
       [] frame.kind = "res" -> DispatchResponse(c, frame)
       [] OTHER -> DispatchEvent(c, frame)
\* A closed transport, or a peer that left, is an EOF.
ReadEnd(c) ==
  /\ link[c].socket = "closed" \/ (link[c].wire = <<>> /\ ~link[c].peer)
  /\ FailTransport(c, "eof", FALSE)

ReadConnection(c) ==
  /\ link[c].reader = "reading" /\ (ReadMessage(c) \/ ReadEnd(c))
  /\ UNCHANGED ended
=============================================================================
