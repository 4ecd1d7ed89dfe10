----------------------------- MODULE LiveService -----------------------------
(* The live conversation: the daemon with its session (Lived), which sees   *)
(* whole messages, and the wire that makes them from bytes.  A setup        *)
(* explores one of the two.                                                 *)
EXTENDS Lived, Naturals, Sequences, FiniteSets

(* The WebSocket client under the live conversation (ws_client.c and the    *)
(* connection half of live_transport_realtime.c), and the tools a delegated *)
(* request runs (live_tools.c).  The stream is cut anywhere: a poll ends at *)
(* its deadline in the middle of a frame and a later one resumes it.  Bytes *)
(* are units: two of header, some of extended length, some of payload.      *)
CONSTANTS PayloadMax,   \* units of payload a frame may have
          Parts         \* context events of WS_CONTEXT_CHUNK_MAX an answer takes
ASSUME WireAssumption == {PayloadMax, Parts} \subseteq Nat \ {0}
VARIABLES
  wire,    \* struct ws_state and struct le_ws
  stream,  \* what the server wrote and how much of it arrived (external)
  tool     \* the delegated request being run
wireVars == <<wire, stream, tool>>

Header == 2
Starting == {"load", "dial", "secure", "ask", "answer", "update"}
(* h, p: read_header_used and read_payload_used.                            *)
Off == [stage |-> "off", url |-> "none", bearer |-> FALSE, verified |-> FALSE, reading |-> FALSE,
        h |-> 0, p |-> 0]
NoStream == [sent |-> <<>>, avail |-> 0, pos |-> 0, over |-> FALSE, written |-> 0, texts |-> 0, heard |-> 0, sees |-> FALSE]
NoTool == [req |-> "none", todo |-> <<>>, acked |-> {}, done |-> {}, ends |-> FALSE, said |-> "none", parts |-> 0]
WireInit == wire = Off /\ stream = NoStream /\ tool = NoTool

Need(m) == Header + m.ext + m.size
Teardown == wire' = Off /\ stream' = NoStream /\ tool' = NoTool

----------------------------------------------------------------------------
(* ws_start: credentials, address, connection, certificate, handshake and   *)
(* the session request; any of them may fail or run out of time.            *)
Begins(url) == /\ wire.stage = "off" /\ wire' = [Off EXCEPT !.stage = "load", !.url = url]
               /\ UNCHANGED <<stream, tool>>
ParseUrl(url) == url \in {"wss", "loopback"}
Loads == /\ wire.stage = "load"
         /\ IF ParseUrl(wire.url) THEN wire' = [wire EXCEPT !.stage = "dial", !.bearer = TRUE] /\ UNCHANGED <<stream, tool>>
            ELSE Teardown
Dials == /\ wire.stage = "dial" /\ wire' = [wire EXCEPT !.stage = IF wire.url = "wss" THEN "secure" ELSE "ask"]
         /\ UNCHANGED <<stream, tool>>
Verifies == /\ wire.stage = "secure" /\ wire' = [wire EXCEPT !.stage = "ask", !.verified = TRUE]
            /\ UNCHANGED <<stream, tool>>
Asks == /\ wire.stage = "ask" /\ wire' = [wire EXCEPT !.stage = "answer"]
        /\ stream' = [stream EXCEPT !.sees = TRUE] /\ UNCHANGED tool
StartFails == wire.stage \in Starting /\ Teardown
(* The answer is taken if it switches protocols for this very request.      *)
Accepted(m) == m.op = "http" /\ m.flaw = "none"
(* The headers are read byte by byte up to the blank line: what follows is  *)
(* the first frame.                                                         *)
Shaken ==
  /\ wire.stage = "answer" /\ stream.sent # <<>> /\ stream.avail >= Need(Head(stream.sent))
  /\ LET m == Head(stream.sent)
     IN IF ~Accepted(m) THEN Teardown
        ELSE /\ wire' = [wire EXCEPT !.stage = "update"] /\ UNCHANGED tool
             /\ stream' = [stream EXCEPT !.sent = Tail(@), !.avail = @ - Need(m)]
Updates == /\ wire.stage = "update" /\ wire' = [wire EXCEPT !.stage = "on"]
           /\ UNCHANGED <<stream, tool>>

----------------------------------------------------------------------------
(* read_frame and le_ws_read_text.  A frame is refused as soon as its bytes *)
(* show it: reserved bits or a mask with the header, a length that does not *)
(* fit with the extended length, a fragment once it is complete.            *)
Known == stream.pos + stream.avail
Refused(m) == \/ m.flaw = "header" /\ Known >= Header
              \/ m.flaw = "length" /\ Known >= Header + m.ext
              \/ m.flaw = "fragment" /\ Known >= Need(m)
Complete(m) == m.flaw = "none" /\ Known >= Need(m)
Fresh(x) == [x EXCEPT !.h = 0, !.p = 0]
Consumed(s) == [s EXCEPT !.sent = Tail(@), !.avail = Known - Need(Head(s.sent)), !.pos = 0]
Polls == /\ wire.stage = "on" /\ ~wire.reading /\ tool.req = "none"
         /\ wire' = [wire EXCEPT !.reading = TRUE] /\ UNCHANGED <<stream, tool>>
(* Mutant of TimedOut: the next poll starts the frame over.                 *)
BugTimedOut(x, m, n) == Fresh([x EXCEPT !.reading = FALSE])
(* The deadline passes: what was read of the frame is kept for the next poll.*)
TimedOut(x, m, n) ==
  LET h == IF n < Header + m.ext THEN n ELSE Header + m.ext
  IN [x EXCEPT !.reading = FALSE, !.h = h, !.p = n - h]
ReadTimesOut ==
  /\ wire.reading /\ UNCHANGED tool
  /\ \/ /\ stream.sent # <<>> /\ ~Refused(Head(stream.sent)) /\ ~Complete(Head(stream.sent))
        /\ ~(stream.over /\ Len(stream.sent) = 1)
        /\ wire' = TimedOut(wire, Head(stream.sent), Known)
        /\ stream' = [stream EXCEPT !.pos = Known, !.avail = 0]
     \/ /\ stream.sent = <<>> /\ ~stream.over /\ wire' = [wire EXCEPT !.reading = FALSE] /\ UNCHANGED stream
(* ws_stop, whatever was on its way: also after a frame sent in part.       *)
Stops == wire.stage = "on" /\ Teardown
ReadEnds == /\ wire.reading
            /\ IF stream.sent = <<>> THEN stream.over
               ELSE \/ Refused(Head(stream.sent))
                    \/ Complete(Head(stream.sent)) /\ Head(stream.sent).op \in {"close", "binary", "http"}
                    \/ stream.over /\ Len(stream.sent) = 1 /\ ~Complete(Head(stream.sent))
            /\ Stops
(* A ping is answered and a pong passed over within the same call.          *)
ReadsControl(ok) ==
  /\ wire.reading /\ stream.sent # <<>> /\ Complete(Head(stream.sent))
  /\ \/ Head(stream.sent).op = "ping" /\ (IF ok THEN UNCHANGED tool /\ wire' = Fresh(wire) /\ stream' = Consumed(stream)
                                          ELSE Stops)
     \/ ok /\ Head(stream.sent).op = "pong" /\ wire' = Fresh(wire) /\ stream' = Consumed(stream) /\ UNCHANGED tool
(* A message is handed to translate; a delegation runs its tool next.       *)
ReadsText ==
  /\ wire.reading /\ stream.sent # <<>> /\ Complete(Head(stream.sent)) /\ Head(stream.sent).op = "text"
  /\ wire' = Fresh([wire EXCEPT !.reading = FALSE])
  /\ stream' = [Consumed(stream) EXCEPT !.heard = Head(stream.sent).id]
  /\ tool' = [NoTool EXCEPT !.req = Head(stream.sent).req]
SendsAudio(ok) ==
  /\ wire.stage = "on" /\ ~wire.reading /\ tool.req = "none"
  /\ IF ok THEN UNCHANGED wireVars ELSE Stops

----------------------------------------------------------------------------
(* tool_voice_request: "stop" silences all three sources and ends the       *)
(* session, a timer request is one call, a question needs none.             *)
Requests == {"stop", "timer", "time", "weather"}
Calls(req) == CASE req = "stop" -> <<"radio", "speech", "noise">>
                [] req = "timer" -> <<"timer">>
                [] OTHER -> <<>>
Dispatches == /\ tool.req \in Requests /\ tool.said = "none" /\ tool.todo = <<>> /\ tool.parts = 0
              /\ tool' = [tool EXCEPT !.todo = Calls(tool.req), !.parts = Parts] /\ UNCHANGED <<wire, stream>>
(* An adapter call is done and answered, done with its answer lost, or not  *)
(* done at all.                                                             *)
CallEnds(does, answered) ==
  /\ tool.todo # <<>> /\ (answered => does)
  /\ tool' = [tool EXCEPT !.todo = Tail(@), !.done = IF does THEN @ \cup {Head(tool.todo)} ELSE @,
                          !.acked = IF answered THEN @ \cup {Head(tool.todo)} ELSE @]
  /\ UNCHANGED <<wire, stream>>
Verdict(t) == IF t.acked # {} \/ t.req = "time" THEN "ok" ELSE "error"
(* ws_complete_delegation: the answer in parts; a part that fails closes.   *)
Answers(ok) ==
  /\ tool.req \in Requests /\ tool.todo = <<>> /\ tool.parts > 0
  /\ IF ~ok THEN Stops
     ELSE /\ tool' = [tool EXCEPT !.parts = @ - 1, !.said = Verdict(tool),
                                  !.ends = tool.req = "stop" /\ Verdict(tool) = "ok"]
          /\ UNCHANGED <<wire, stream>>
(* The request is over; a stop that was carried out ends the session.       *)
Concludes == /\ tool.said # "none" /\ tool.parts = 0
             /\ IF tool.ends THEN Stops ELSE tool' = NoTool /\ UNCHANGED <<wire, stream>>

----------------------------------------------------------------------------
(* The server (external) writes frames, the network brings them in pieces.  *)
Frame(op, ext, size, flaw, id, req) == [op |-> op, ext |-> ext, size |-> size, flaw |-> flaw, id |-> id, req |-> req]
Writes(m) == /\ wire.stage \in Starting \cup {"on"} /\ ~stream.over
             /\ (m.op = "http") <=> (stream.sees /\ wire.stage = "answer" /\ stream.sent = <<>>)
             /\ stream.sees /\ (wire.stage = "answer" /\ m.op # "http" => Head(stream.sent).op = "http")
             /\ stream' = [stream EXCEPT !.sent = Append(@, m), !.written = @ + 1,
                                      !.texts = IF m.op = "text" THEN @ + 1 ELSE @]
             /\ UNCHANGED <<wire, tool>>
Total == IF stream.sent = <<>> THEN 0
         ELSE LET sum[i \in 0..Len(stream.sent)] == IF i = 0 THEN 0 ELSE sum[i - 1] + Need(stream.sent[i])
              IN sum[Len(stream.sent)] - stream.pos
Arrives == /\ stream.avail < Total /\ stream' = [stream EXCEPT !.avail = @ + 1] /\ UNCHANGED <<wire, tool>>
HangsUp == /\ stream.sees /\ ~stream.over /\ stream' = [stream EXCEPT !.over = TRUE] /\ UNCHANGED <<wire, tool>>

----------------------------------------------------------------------------
(* The reader knows where it is in the frame whatever the deadlines did, so *)
(* messages are heard whole, in order and once; the account's token is held *)
(* only by an open transport and shown only to a verified server or to this *)
(* device; and a success is told to the model only if a daemon confirmed    *)
(* the action.                                                              *)
WireHonest ==
  /\ wire.h + wire.p = stream.pos
  /\ stream.heard + Cardinality({i \in DOMAIN stream.sent : stream.sent[i].op = "text"}) = stream.texts
  /\ wire.bearer => wire.stage # "off"
  /\ stream.sees => wire.verified \/ wire.url = "loopback"
  /\ tool.said = "ok" => tool.acked # {} \/ tool.req = "time"

-----------------------------------------------------------------------------
serviceVars == <<vars, wireVars>>
ServiceInit == Init /\ WireInit /\ (setup.wire > 0 => enabled)

Frames ==
  {Frame("http", 0, 1, flaw, 0, "none") : flaw \in {"none", "header"}} \cup
  {Frame("text", 0, 1, "none", stream.texts + 1, req) : req \in Requests} \cup
  {Frame("text", 1, PayloadMax, "none", stream.texts + 1, "none")} \cup
  {Frame(op, 0, 1, "none", 0, "none") : op \in {"ping", "pong", "close", "binary"}} \cup
  {Frame("pong", 1, 1, flaw, 0, "none") : flaw \in {"header", "length", "fragment"}}
WireRuns ==
  \/ Loads \/ Dials \/ Verifies \/ Asks \/ Shaken \/ Updates
  \/ Polls \/ ReadTimesOut \/ ReadEnds \/ ReadsControl(TRUE) \/ ReadsText
  \/ Dispatches \/ CallEnds(TRUE, TRUE) \/ Answers(TRUE) \/ Concludes
WireFails ==
  \/ StartFails \/ ReadsControl(FALSE) \/ (\E ok \in BOOLEAN : SendsAudio(ok)) \/ Answers(FALSE)
  \/ CallEnds(TRUE, FALSE) \/ CallEnds(FALSE, FALSE)
  \/ ~wire.reading /\ tool.req = "none" /\ Stops
WireNext ==
  \/ WireRuns \/ WireFails \/ HangsUp
  \/ \E url \in {"wss", "loopback", "plain"} : Begins(url)
  \/ stream.written < setup.wire /\ \E m \in Frames : Writes(m)
  \/ Arrives
OnWire(A) == setup.wire > 0 /\ A /\ UNCHANGED vars
InSession(A) == setup.wire = 0 /\ A /\ Kept /\ UNCHANGED wireVars

ServiceNext == InSession(Step) \/ OnWire(WireNext)
(* The loop of the daemon keeps running (every call it makes is bounded)    *)
(* and time does not stop; the transport runs and the network brings what   *)
(* was written.                                                             *)
ServiceSpec ==
  /\ ServiceInit /\ [][ServiceNext]_serviceVars
  /\ WF_serviceVars(InSession(LivedStep)) /\ SF_serviceVars(InSession(Tick))
  /\ WF_serviceVars(OnWire(WireRuns)) /\ WF_serviceVars(OnWire(Arrives))

----------------------------------------------------------------------------
(* Every conversation ends and the device is armed again; a connection is   *)
(* made or given up, and what the server wrote is read or the connection    *)
(* closed.                                                                  *)
ConversationsEnd ==
  /\ SessionEnds
  /\ wire.stage = "answer" /\ stream.sent # <<>> ~> wire.stage # "answer"
  /\ wire.stage \in Starting \ {"answer"} ~> wire.stage \notin Starting \ {"answer"}
  /\ stream.sent # <<>> /\ wire.stage = "on" ~> wire.stage # "on" \/ stream.sent = <<>>
=============================================================================
