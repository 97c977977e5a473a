--------------------------- MODULE RealtimeRunner ---------------------------
(***************************************************************************)
(* One talk session over the Gateway (runner.go, events.go and result.go   *)
(* of pkg/harness/openclaw/realtime): the main goroutine connects, creates *)
(* the session, streams the audio and closes the session of a transcription; *)
(* a second goroutine handles the Gateway's events meanwhile and goes on   *)
(* listening after the audio.                                              *)
(*                                                                         *)
(* Times are left out: the listening window (its deadline, extended by a   *)
(* working agent, or the quiet deadline) may close at any moment.  Texts   *)
(* are left out but for whether a transcript is final.                     *)
(***************************************************************************)
EXTENDS GatewayClient

CONSTANTS
  Chunks,   \* pieces the audio is streamed in
  Dials     \* connections a run dials, by its mode

VARIABLES
  mode,     \* agent, realtime or voice (voice-transcribe)
  main,     \* the main goroutine: where it is, its error, chunks streamed
  ev,       \* processEvents: where it is and its realtimeEventState
  result,   \* Result: errors, the agent runs, and the transcript
  handled   \* history: the connection and number of each event handled
runner == <<mode, main, ev, result, handled>>

\* AppendError; IncrementEvent and the texts are left out.
AppendError(bad) == [result EXCEPT !.errors = @ \/ bad]
NewResult == [errors |-> FALSE, runs |-> {}, done |-> FALSE, pending |-> FALSE]
NotListening ==
  [at |-> "off", err |-> FALSE, audioDone |-> FALSE, listening |-> FALSE,
   run |-> 0, active |-> {}, completed |-> {}, failed |-> {},
   todo |-> {}]

\* Connect is called by the talk session and by the agent alone.
RunnerInit ==
  /\ mode \in {"agent", "realtime", "voice"}
  /\ client.delivers = (mode # "agent")
  /\ main = [at |-> "connect", err |-> FALSE, chunk |-> 0,
             phase |-> IF mode = "agent" THEN "agent" ELSE "talk"]
  /\ ev = NotListening /\ result = NewResult /\ handled = <<>>

Goto(a) == main' = [main EXCEPT !.at = a]
Fail(a) == main' = [main EXCEPT !.at = a, !.err = TRUE]
MainOnly == UNCHANGED <<mode, ev, result, handled>>

-----------------------------------------------------------------------------
(* Connect: dial and wait for the challenge until one comes or the time is   *)
(* up; then authenticate, once.                                              *)

\* After an attempt that failed.  The deadline may or may not allow another.
Retry == Fail("leave") \/ ("run" \notin ended /\ Goto("connect"))

ConnectOnce ==
  /\ main.at = "connect"
  /\ \/ DialFails /\ Retry
     \/ /\ "run" \notin ended /\ client.gen < Dials[mode]
        /\ Dial /\ Goto("challenge")
  /\ MainOnly

AwaitChallenge ==
  /\ main.at = "challenge"
  /\ \/ /\ RecvReady /\ Received.kind = "challenge"
        /\ client' = Released /\ UNCHANGED <<link, call, ended>>
        /\ Goto("auth") \/ Fail("leave")     \* the nonce may be missing
     \/ Close /\ UNCHANGED ended /\ Retry  \* an error, another event, the timeout
  /\ MainOnly

\* finishConnect.  The scopes granted may not be those wanted.
Authenticate ==
  /\ main.at = "auth"
  /\ \/ Begin("main", "connect", 0) /\ UNCHANGED main
     \/ /\ Returned("main") /\ Resume("main") /\ UNCHANGED <<link, ended>>
        /\ \/ /\ Answer("main").what = "ok"
              /\ client' = [client EXCEPT !.connected = TRUE]
              /\ \/ Goto(IF main.phase = "talk" THEN "create" ELSE "agent")
                 \/ Fail("leave")
           \/ /\ Answer("main").what # "ok" /\ Fail("leave") /\ UNCHANGED client
  /\ MainOnly

-----------------------------------------------------------------------------
(* Runner.Run from the session on *)

\* Once there is a session, a transcription closes it on every way out.
WayOut == IF mode = "voice" THEN "close" ELSE "leave"

\* loadAudioForSession, which may fail; then processEvents is started.
LoadAudio ==
  \/ Fail(WayOut) /\ UNCHANGED ev
  \/ Goto("append") /\ ev' = [NotListening EXCEPT !.at = "recv"]

CreateSession ==
  /\ main.at = "create"
  /\ \/ Begin("main", "create", 0) /\ UNCHANGED <<main, ev>>
     \/ /\ Returned("main") /\ Resume("main") /\ UNCHANGED <<client, link, ended>>
        /\ IF Answer("main").what = "ok" THEN LoadAudio ELSE Fail("leave") /\ UNCHANGED ev
  /\ UNCHANGED <<mode, result, handled>>

\* appendAudio and the close of audioDone; between two chunks it sleeps.
AppendAudio ==
  /\ main.at = "append"
  /\ \/ Begin("main", "append", 0) /\ UNCHANGED <<main, ev>>
     \/ /\ Returned("main") /\ Resume("main") /\ UNCHANGED <<client, link>>
        /\ LET last == main.chunk + 1 = Chunks IN
           \/ /\ Answer("main").what = "ok" /\ UNCHANGED ended
              /\ main' = [main EXCEPT !.chunk = @ + 1,
                                      !.at = IF last THEN "join" ELSE "append"]
              /\ ev' = [ev EXCEPT !.audioDone = last]
           \/ /\ \/ Answer("main").what # "ok"
                 \/ ~last /\ "run" \in ended
              /\ ended' = ended \cup {"events"} /\ Fail("join")
              /\ ev' = [ev EXCEPT !.audioDone = TRUE]
  /\ UNCHANGED <<mode, result, handled>>

\* Run waits for processEvents before it touches the result.
Join ==
  /\ main.at = "join" /\ ev.at = "done"
  /\ main' = [main EXCEPT !.at = WayOut, !.err = @ \/ ev.err]
  /\ UNCHANGED <<gateway, mode, ev, result, handled>>

\* closeSession, on a context the run's end does not cancel.
CloseSession ==
  /\ main.at = "close"
  /\ \/ Begin("main", "close", 0) /\ UNCHANGED main
     \/ /\ Returned("main") /\ Resume("main") /\ UNCHANGED <<client, link, ended>>
        /\ IF Answer("main").what = "ok" THEN Goto("leave") ELSE Fail("leave")
  /\ MainOnly

-----------------------------------------------------------------------------
(* processEvents *)

EventOnly == UNCHANGED <<mode, main>>
Stops(err) == ev' = [ev EXCEPT !.at = "done", !.err = err]

AppendUnrecoveredFailures == AppendError(ev.failed # {})

\* The window closes.  A fatal failure of the connection dominates; then the
\* transcript is judged, and the agents still at work are asked for.
WindowCloses ==
  IF \/ client.fatal
     \/ mode = "voice" /\ (~result.done \/ result.pending)
  THEN Stops(TRUE) /\ UNCHANGED result
  ELSE IF ev.active # {}
       THEN ev' = [ev EXCEPT !.at = "wait", !.todo = ev.active] /\ UNCHANGED result
       ELSE /\ Stops(FALSE)
            /\ result' = AppendUnrecoveredFailures

\* The head of the loop and RecvEvent, whose deadline is the window's end, the
\* quiet deadline or, while the audio streams, a tenth of a second.
RecvEvent ==
  /\ ev.at = "recv"
  /\ \/ /\ ~ev.listening /\ ev.audioDone
        /\ ev' = [ev EXCEPT !.listening = TRUE] /\ UNCHANGED result
     \/ (RecvFails \/ ended # {}) /\ Stops(TRUE) /\ UNCHANGED result
     \/ ev.listening /\ WindowCloses
  /\ EventOnly /\ UNCHANGED <<gateway, handled>>

\* processChatEvent, for a run that a tool call has started.
ProcessChatEvent(what, run) ==
  /\ UNCHANGED result
  /\ ev' = CASE run \notin ev.active \cup result.runs -> ev
             [] what = "final" ->
                  [ev EXCEPT !.active = @ \ {run}, !.completed = @ \cup {run},
                             !.failed = @ \ {run}]
             [] what = "error" /\ run \notin ev.completed ->
                  [ev EXCEPT !.active = @ \ {run}, !.failed = @ \cup {run}]
             [] OTHER -> ev

\* processToolCall: a consult starts an agent run, a status question and a tool
\* the runner does not know are answered at once, the latter with an error.
ProcessToolCall(what) ==
  /\ ev' = [ev EXCEPT !.at = IF what = "consult" THEN "consult" ELSE "submit"]
  /\ result' = AppendError(what = "unknown")

ProcessTalkEvent(what) ==
  /\ result' = CASE what = "transcript" -> [result EXCEPT !.done = TRUE, !.pending = FALSE]
                 [] what = "partial" -> [result EXCEPT !.pending = TRUE]
                 [] what = "fault" -> AppendError(TRUE)
                 [] OTHER -> result
  /\ UNCHANGED ev

ProcessFrame ==
  /\ ev.at = "recv" /\ RecvReady
  /\ client' = Released /\ UNCHANGED <<link, call, ended>>
  /\ handled' = Append(handled, [on |-> client.gen, id |-> Received.id])
  /\ CASE Received.kind = "chat" -> ProcessChatEvent(Received.what, Received.run)
       [] Received.kind = "tool" -> ProcessToolCall(Received.what)
       [] OTHER -> ProcessTalkEvent(Received.what)
  /\ EventOnly

\* Mutant: a consult that failed is only told to the model.
ConsultAgentQuiet ==
  /\ ev.at = "consult"
  /\ \/ Begin("events", "toolCall", 0) /\ UNCHANGED <<ev, result>>
     \/ /\ Returned("events") /\ Resume("events") /\ UNCHANGED <<client, link, ended>>
        /\ LET answer == Answer("events") IN
           IF answer.what = "ok"
           THEN /\ ev' = [ev EXCEPT !.at = "submit", !.run = answer.run]
                /\ result' = [result EXCEPT !.runs = @ \cup {answer.run}]
           ELSE ev' = [ev EXCEPT !.at = "submit"] /\ UNCHANGED result
  /\ EventOnly /\ UNCHANGED handled

\* consultAgent: a failed consult is an error of the run and the tool's result.
ConsultAgent ==
  /\ ev.at = "consult"
  /\ \/ Begin("events", "toolCall", 0) /\ UNCHANGED <<ev, result>>
     \/ /\ Returned("events") /\ Resume("events") /\ UNCHANGED <<client, link, ended>>
        /\ LET answer == Answer("events") IN
           IF answer.what = "ok"
           THEN /\ ev' = [ev EXCEPT !.at = "submit", !.run = answer.run]
                /\ result' = [result EXCEPT !.runs = @ \cup {answer.run}]
           ELSE /\ ev' = [ev EXCEPT !.at = "submit"]
                /\ result' = AppendError(TRUE)
  /\ EventOnly /\ UNCHANGED handled

\* submitToolResult; a run is active once its result is submitted.
SubmitToolResult ==
  /\ ev.at = "submit"
  /\ \/ Begin("events", "submit", 0) /\ UNCHANGED ev
     \/ /\ Returned("events") /\ Resume("events") /\ UNCHANGED <<client, link, ended>>
        /\ IF Answer("events").what = "ok"
           THEN ev' = [ev EXCEPT !.at = "recv", !.run = 0,
                                !.active = @ \cup ({ev.run} \ {0})]
           ELSE Stops(TRUE)
  /\ EventOnly /\ UNCHANGED <<result, handled>>

\* finishActiveAgentRuns, then appendUnrecoveredFailures
FinishActiveAgentRuns ==
  /\ ev.at = "wait"
  /\ \/ /\ \E run \in ev.todo : Begin("events", "wait", run)
        /\ UNCHANGED <<ev, result>>
     \/ /\ Returned("events") /\ Resume("events") /\ UNCHANGED <<client, link, ended>>
        /\ ev' = [ev EXCEPT !.todo = @ \ {call["events"].arg}]
        /\ result' = AppendError(Answer("events").what # "ok")
     \/ /\ call["events"].at = "idle" /\ ev.todo = {} /\ Stops(FALSE)
        /\ result' = AppendUnrecoveredFailures
        /\ UNCHANGED gateway
  /\ EventOnly /\ UNCHANGED handled

MainStep ==
  ConnectOnce \/ AwaitChallenge \/ Authenticate \/ CreateSession \/ AppendAudio
  \/ Join \/ CloseSession
EventsStep ==
  RecvEvent \/ ProcessFrame \/ ConsultAgent \/ SubmitToolResult \/ FinishActiveAgentRuns
=============================================================================
