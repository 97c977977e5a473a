---------------------------- MODULE OpenClawRun -----------------------------
(***************************************************************************)
(* Run of the OpenClaw manager (harness.go) in its three modes, over the   *)
(* Gateway client, Client.Agent (agent.go) and the realtime runner, with   *)
(* the Gateway itself as the environment:                                  *)
(*   agent     connect, submit the instruction to the agent;               *)
(*   realtime  stream the spoken instruction to a talk session whose model *)
(*             consults the agent;                                         *)
(*   voice     transcribe it in a talk session, then submit the transcript *)
(*             to the agent over a second client.                          *)
(* The artifacts of a run are the subject of module HarnessRuntime.        *)
(***************************************************************************)
EXTENDS RealtimeRunner

CONSTANTS
  MaxRuns,        \* agent runs the Gateway starts
  MaxEvents,      \* events it sends, by the mode of the run
  MaxDuplicates   \* responses it repeats, by the mode
Run == 1..MaxRuns

VARIABLES
  runs,      \* the Gateway's agent runs
  spent,     \* events sent, responses repeated
  arrived,   \* history: agent requests that reached the Gateway
  accepted,  \* Client.Agent: the run it was told of
  verdict,   \* what Client.Agent returned
  outcome    \* what Run returned
manager == <<accepted, verdict, outcome>>
gatewayState == <<runs, spent, arrived>>
vars == <<gateway, runner, manager, gatewayState>>

Init ==
  /\ GatewayInit /\ RunnerInit
  /\ runs = [r \in Run |-> "none"] /\ arrived = 0
  /\ spent = [events |-> 0, repeats |-> 0]
  /\ accepted = 0 /\ verdict = "none" /\ outcome = "none"

-----------------------------------------------------------------------------
(* Client.Agent *)

AgentReturns(v) ==
  /\ verdict' = v /\ accepted' = accepted
  /\ client' = Forgotten("main") /\ Resume("main")
  /\ IF v = "ok" THEN Goto("leave") ELSE Fail("leave")

\* Submitted once; refused before it is sent, or ambiguous when the send fails.
AgentSubmits ==
  /\ main.at = "agent"
  /\ \/ /\ Begin("main", "agent", 0) /\ UNCHANGED <<accepted, verdict, main>>
        /\ \/ call'["main"].result.what # "unsent" /\ arrived' = arrived + 1
           \/ call'["main"].at = "done" /\ UNCHANGED arrived
     \/ /\ Returned("main") /\ UNCHANGED <<link, ended, arrived>>
        /\ AgentReturns(IF Answer("main").what = "unsent" THEN "unsent" ELSE "ambiguous")
  /\ MainOnly /\ UNCHANGED <<outcome, runs, spent>>

\* The outcome is ambiguous before the acknowledgement, unknown after it.
Unanswered == IF accepted = 0 THEN "ambiguous" ELSE "unknown"
\* parseAgentTerminal: a status other than ok, or a result without text, is none.
Terminal(reply) == reply.what = "ok"
AgentReply ==
  /\ main.at = "agent" /\ call["main"].at = "await" /\ call["main"].replies # <<>>
  /\ UNCHANGED <<link, ended>>
  /\ LET reply == Reply("main") IN
     CASE reply = Failure -> AgentReturns(Unanswered)
       [] reply.what = "no" -> AgentReturns("rejected")
       [] accepted = 0 /\ reply.what = "accepted" ->
            /\ accepted' = reply.run
            /\ call' = [call EXCEPT !["main"].replies = Tail(@)]
            /\ UNCHANGED <<client, main, verdict>>
       [] accepted # 0 /\ reply.run = accepted /\ Terminal(reply) -> AgentReturns("ok")
       [] OTHER -> AgentReturns("protocol")
  /\ MainOnly /\ UNCHANGED <<outcome, gatewayState>>

AgentGivesUp ==
  /\ main.at = "agent" /\ call["main"].at = "await"
  /\ ContextDone("main", "agent")
  /\ AgentReturns(Unanswered)
  /\ MainOnly /\ UNCHANGED <<link, ended, outcome, gatewayState>>

-----------------------------------------------------------------------------
(* Manager.Run and runRealtime *)

\* synthesizeVoiceInstruction, or the making of the client, fails.
NothingToSay ==
  /\ main.at = "connect" /\ client.gen = 0 /\ client.err = "nil"
  /\ outcome' = "failed" /\ Goto("returned")
  /\ UNCHANGED <<gateway, accepted, verdict, gatewayState>> /\ MainOnly

\* The errors the result carries fail a run that returned none.
Failed == main.err \/ result.errors
\* Writing the result or collecting the artifacts may fail as well.
Settles == outcome' \in {"failed"} \cup (IF Failed THEN {} ELSE {"succeeded"})

\* The client is closed on every way out of Run.
Leave ==
  /\ main.at = "leave" /\ (mode # "voice" \/ main.phase = "agent" \/ Failed)
  /\ Close /\ Goto("returned") /\ Settles
  /\ UNCHANGED <<ended, accepted, verdict, gatewayState>> /\ MainOnly

\* The transcript may be blank.
RunAgentWithTranscript ==
  \/ main' = [main EXCEPT !.at = "connect", !.phase = "agent"] /\ UNCHANGED outcome
  \/ Goto("returned") /\ outcome' = "failed"

\* A transcription that succeeded hands over to an agent, with a client and a
\* context of its own.
HandOver ==
  /\ main.at = "leave" /\ mode = "voice" /\ main.phase = "talk" /\ ~Failed
  /\ link' = SocketClosed(client.conn) /\ UNCHANGED call
  /\ client' = NewClient(client.gen, FALSE)
  /\ ended' = {} /\ RunAgentWithTranscript
  /\ UNCHANGED <<accepted, verdict, gatewayState>> /\ MainOnly

\* The agent's timeout, the transcription's, or the end of the task.
Expire ==
  /\ main.at # "returned" /\ "run" \notin ended
  /\ ended' = ended \cup {"run"}
  /\ UNCHANGED <<client, link, call, runner, manager, gatewayState>>

-----------------------------------------------------------------------------
(* The Gateway *)

Alive(c) == link[c].socket = "open" /\ link[c].peer /\ Len(link[c].wire) < WireSize
Fresh == {r \in Run : runs[r] = "none" /\ \A q \in 1..(r - 1) : runs[q] # "none"}
Response(q, what, run) == Frame("res", q.id, what, run)

\* An answer, after which the request is forgotten or may be answered again.
Answers(c, q, what, run) ==
  LET sent == [link EXCEPT ![c].wire = Append(@, Response(q, what, run)),
                           ![c].session = @ \/ (q.method = "create" /\ what = "ok")]
  IN
  \/ link' = [sent EXCEPT ![c].inbox = @ \ {q}] /\ UNCHANGED spent
  \/ /\ spent.repeats < MaxDuplicates[mode] /\ q.method # "toolCall"
     /\ spent' = [spent EXCEPT !.repeats = @ + 1] /\ link' = sent

\* A refused or malformed consult may have started its run all the same.
GatewayAnswers(c) ==
  /\ Alive(c) /\ UNCHANGED <<client, call, ended, runner, manager, arrived>>
  /\ \E q \in link[c].inbox :
     \/ /\ q.method \notin {"toolCall", "agent", "wait"}
        /\ \E what \in {"ok", "no"} : Answers(c, q, what, 0)
        /\ UNCHANGED runs
     \/ /\ q.method \in {"toolCall", "agent"} /\ q.arg = 0
        /\ Answers(c, q, "no", 0) /\ UNCHANGED runs
     \/ /\ q.method = "toolCall"
        /\ \E run \in Fresh : runs' = [runs EXCEPT ![run] = "running"]
             /\ \E what \in {"ok", "no"} : Answers(c, q, what, run)
     \/ /\ q.method = "wait" /\ UNCHANGED runs
        /\ \/ Answers(c, q, "no", 0)
           \/ runs[q.arg] = "final" /\ Answers(c, q, "ok", 0)

\* The agent's request is acknowledged, then answered when its run ends.
GatewayRunsAgent(c) ==
  /\ Alive(c) /\ UNCHANGED <<client, call, ended, runner, manager, spent, arrived>>
  /\ \E q \in {x \in link[c].inbox : x.method = "agent"} :
     \/ /\ q.arg = 0
        /\ \E run \in Fresh :
             /\ runs' = [runs EXCEPT ![run] = "running"]
             /\ link' = [link EXCEPT
                  ![c].wire = Append(@, Response(q, "accepted", run)),
                  ![c].inbox = (@ \ {q}) \cup {[q EXCEPT !.arg = run]}]
     \/ /\ q.arg # 0 /\ runs[q.arg] = "running"
        /\ \E what \in {"ok", "failed", "no"} :
             /\ runs' = [runs EXCEPT ![q.arg] = IF what = "ok" THEN "final" ELSE "failed"]
             /\ link' = [link EXCEPT ![c].wire = Append(@, Response(q, what, q.arg)),
                                     ![c].inbox = @ \ {q}]

\* The challenge that opens a connection.
GatewayChallenges(c) ==
  /\ Alive(c) /\ client.await /\ client.conn = c
  /\ \A f \in ToSet(link[c].wire) : f.kind # "challenge"
  /\ link' = [link EXCEPT ![c].wire = Append(@, Frame("challenge", 0, "none", 0))]
  /\ UNCHANGED <<client, call, ended, runner, manager, gatewayState>>

\* Events of a talk come from its session; others mean nothing to the runner,
\* and are sent where there is none.
TalkEvent(c) ==
  IF ~link[c].session THEN {"other"}
  ELSE IF mode = "voice" THEN {"transcript", "partial"} ELSE {"fault"}
\* An agent may recover from an error, and report one after it finished.
EventOf(r) ==
  IF runs[r] = "running" THEN {"error", "final"}
  ELSE IF runs[r] = "failed" THEN {"final"} ELSE {"error"}

Sent(c, kind, what, run) ==
  link' = [link EXCEPT ![c].wire = Append(@, Frame(kind, <<c, link[c].sent + 1>>, what, run)),
                       ![c].sent = @ + 1]
GatewayEvent(c) ==
  /\ Alive(c) /\ spent.events < MaxEvents[mode]
  /\ spent' = [spent EXCEPT !.events = @ + 1]
  /\ \/ \E what \in TalkEvent(c) : Sent(c, "talk", what, 0)
     \/ /\ mode = "realtime" /\ link[c].session
        /\ \E what \in {"consult", "status", "unknown"} : Sent(c, "tool", what, 0)
  /\ UNCHANGED <<client, call, ended, runner, manager, runs, arrived>>

GatewayChat(c) ==
  /\ Alive(c) /\ mode = "realtime"
  /\ \E r \in {x \in Run : runs[x] # "none"} : \E what \in EventOf(r) :
       /\ Sent(c, "chat", what, r)
       /\ IF runs[r] = "final"
          THEN /\ spent.events < MaxEvents[mode] /\ UNCHANGED runs
               /\ spent' = [spent EXCEPT !.events = @ + 1]
          ELSE /\ UNCHANGED spent
               /\ runs' = [runs EXCEPT ![r] = IF what = "final" THEN "final" ELSE "failed"]
  /\ UNCHANGED <<client, call, ended, runner, manager, arrived>>

\* It disconnects, or sends what no client can read.
GatewayBreaks(c) ==
  /\ Alive(c)
  /\ \E wire \in {link[c].wire, Append(link[c].wire, Frame("bad", 0, "none", 0))} :
       link' = [link EXCEPT ![c].wire = wire, ![c].peer = FALSE, ![c].inbox = {}]
  /\ UNCHANGED <<client, call, ended, runner, manager, gatewayState>>

-----------------------------------------------------------------------------
Calls(p) == Await(p) /\ UNCHANGED <<runner, manager, gatewayState>>
MainSteps ==
  \/ MainStep /\ UNCHANGED <<manager, gatewayState>>
  \/ AgentSubmits \/ AgentReply \/ AgentGivesUp \/ Leave \/ HandOver
EventsSteps == EventsStep /\ UNCHANGED <<manager, gatewayState>>
Reads(c) == ReadConnection(c) /\ UNCHANGED <<runner, manager, gatewayState>>
Gateway ==
  \E c \in Conn : GatewayAnswers(c) \/ GatewayRunsAgent(c) \/ GatewayChallenges(c)
                  \/ GatewayEvent(c) \/ GatewayChat(c) \/ GatewayBreaks(c)

Next ==
  \/ MainSteps \/ EventsSteps \/ NothingToSay \/ Expire \/ Gateway
  \/ \E p \in Proc : Calls(p)
  \/ \E c \in Conn : Reads(c)

\* Goroutines that can go on do, and a context with a deadline ends.  Nothing
\* is expected of the Gateway.
Spec ==
  /\ Init /\ [][Next]_vars
  /\ WF_vars(MainSteps) /\ WF_vars(EventsSteps) /\ WF_vars(Expire)
  /\ \A p \in Proc : WF_vars(Calls(p))
  /\ \A c \in Conn : WF_vars(Reads(c))

-----------------------------------------------------------------------------
(* Properties *)

\* What Run and Client.Agent report is so at the Gateway, whatever was lost,
\* late, repeated or timed out: a run that succeeded left no agent run that has
\* not finished; an agent request is never sent twice; "not submitted" means it
\* never arrived, and "accepted" that its run was started.
VerdictMatchesGateway ==
  /\ outcome = "succeeded" => \A r \in Run : runs[r] \in {"none", "final"}
  /\ arrived <= 1
  /\ verdict = "unsent" => arrived = 0
  /\ verdict \in {"unknown", "ok"} => accepted # 0 /\ runs[accepted] # "none"

\* processEvents sees the events of the connection its session lives on, each
\* once, in order and without a gap: a queue that overflows ends the connection,
\* and a reader of an earlier connection delivers nothing.
InSequence ==
  \A i \in DOMAIN handled : handled[i].id = <<handled[i].on, i>>

\* Run returns, and then its connections are closed and their readers gone.
WindsDown ==
  <>[](main.at = "returned" /\ \A c \in Conn :
         link[c].reader = "off" /\ link[c].socket # "open")
=============================================================================
