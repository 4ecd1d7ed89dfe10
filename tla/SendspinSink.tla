----------------------------- MODULE SendspinSink -----------------------------
(* The Sendspin companion's bridge to the audio engine: the player listener *)
(* over the session over the datagram client.  The SDK's two threads meet   *)
(* at the listener's lock, held for a whole callback, so one operation is   *)
(* in progress at a time; it waits for answers up to a deadline, and a late *)
(* answer is met by whichever operation reads next.  Frames go one by one.  *)
EXTENDS Naturals, Sequences, FiniteSets

CONSTANTS Frames,     \* frames the source has to offer
          Datagrams,  \* the 8 datagrams an operation reads at most
          Redos       \* the 8 generations start_stream tries beyond its own
ASSUME SinkAssumption == {Frames, Datagrams, Redos} \subseteq Nat \ {0}
VARIABLES
  c,      \* EngineSink, EngineSinkSession and SdkPlayerListener
  op,     \* the operation that holds the lock
  toEng, toCli,
  eng,    \* the engine (external)
  src     \* the SDK: a stream is on, which one, the next frame to offer
sinkVars == <<c, op, toEng, toCli, eng, src>>

None == [s |-> 0, n |-> 0, muted |-> FALSE]
NoTotal == Frames + 1
Idle == [k |-> "idle", by |-> "none", try |-> 0, redo |-> 0, again |-> FALSE, n |-> 0]
CloseSocket(x) == [x EXCEPT !.on = FALSE, !.armed = FALSE, !.pend = None, !.ready = FALSE,
                            !.cache = NoTotal, !.iopen = 0, !.ifin = NoTotal]
FenceLocked(x) == [x EXCEPT !.armed = FALSE, !.pend = None, !.ready = FALSE, !.cache = NoTotal,
                            !.iopen = 0, !.ifin = NoTotal]
Connected(x) == [CloseSocket(x) EXCEPT !.on = TRUE, !.epoch = 0, !.gen = 0, !.next = 0, !.err = "none",
                                       !.state = "connected"]
Disconnect(x) == [CloseSocket(x) EXCEPT !.epoch = 0, !.gen = 0, !.next = 0, !.err = "none",
                                        !.state = "disconnected"]
Companion == [on |-> FALSE, armed |-> FALSE, epoch |-> 0, gen |-> 0, next |-> 0, pend |-> None, ready |-> FALSE,
              cache |-> NoTotal, iopen |-> 0, ifin |-> NoTotal, err |-> "none",
              state |-> "disconnected", nextgen |-> 1,
              pstart |-> FALSE, pfinish |-> FALSE, reported |-> 0, muted |-> FALSE]
Engine(epoch, last) == [up |-> TRUE, conn |-> FALSE, epoch |-> epoch, gen |-> last, live |-> FALSE,
                        fin |-> FALSE, acc |-> 0, played |-> 0, heard |-> <<>>]
Answer(t, g, total) == [t |-> t, epoch |-> eng.epoch, gen |-> g, total |-> total, code |-> "none"]
Request(x, t, g, total) == [t |-> t, epoch |-> x.epoch, gen |-> g, total |-> total, frame |-> x.pend]
SinkInit(epoch, last) ==
  /\ c = Connected(Companion) /\ op = Idle /\ toEng = <<>> /\ toCli = <<>>
  /\ eng = [Engine(epoch, last) EXCEPT !.conn = TRUE] /\ src = [on |-> FALSE, id |-> 0, at |-> 0]

(* A step of an operation: the client, the operation, what is sent, whether *)
(* the engine gained the connection, how far the source got.                *)
Out(x, o, sent, conn, s) == [c |-> x, op |-> o, sent |-> sent, conn |-> conn, src |-> s]
Rest(x) == Out(x, Idle, <<>>, eng.conn, src)
Take(u, unread) ==
  /\ c' = u.c /\ op' = u.op /\ src' = u.src
  /\ eng' = [eng EXCEPT !.conn = u.conn /\ u.c.on]
  /\ toEng' = IF eng'.conn THEN toEng \o u.sent ELSE <<>>
  /\ toCli' = IF eng'.conn THEN unread ELSE <<>>
Waits(x, k, by, sent) == Out(x, [Idle EXCEPT !.k = k, !.by = by], sent, eng.conn, src)

----------------------------------------------------------------------------
(* start_stream: connect if need be, OPEN the next generation; an OPEN left *)
(* in flight by a timeout is resumed, not resent; a lost connection is made *)
(* anew once; a generation the engine has seen makes it try the next.       *)
OpenAt(x, o, conn) ==
  LET resume == x.iopen = o.try
  IN Out([x EXCEPT !.iopen = o.try], o,
         IF resume THEN <<>> ELSE <<Request(x, "open", o.try, 0)>>, conn, src)
StartStream(x, by) ==
  LET o == [Idle EXCEPT !.k = "open", !.by = by, !.try = x.nextgen]
  IN IF x.on THEN OpenAt([x EXCEPT !.state = IF @ = "disconnected" THEN "connected" ELSE @], o, eng.conn)
     ELSE IF eng.up THEN OpenAt(Connected(x), o, TRUE)
     ELSE Rest([CloseSocket(x) EXCEPT !.state = "disconnected", !.pstart = FALSE])
(* finish: the DATA still unanswered is resolved first, then FINISH states  *)
(* the exact total; one in flight with that total is resumed.               *)
FinishAt(x, by) ==
  IF x.ifin = x.next THEN Waits(x, "finish", by, <<>>)
  ELSE IF x.pend # None THEN Waits([x EXCEPT !.ifin = NoTotal], "tail", by, <<>>)
  ELSE Waits([x EXCEPT !.ifin = x.next], "finish", by, <<Request(x, "finish", x.gen, x.next)>>)
(* The played frames told to the SDK, never past those it knows accepted.   *)
Told(x, played) == LET known == IF played < x.next THEN played ELSE x.next
                   IN [x EXCEPT !.reported = IF known > @ THEN known ELSE @]
Poll(x) == IF ~x.on \/ x.gen = 0 THEN Rest(x)
           ELSE IF x.cache # NoTotal THEN Rest(Told([x EXCEPT !.cache = NoTotal], x.cache))
           ELSE Waits(x, "poll", "pump", <<Request(x, "progress_req", x.gen, 0)>>)
(* pump_feedback: a pending start, then a pending finish, then progress.    *)
StopStream(x, by) ==
  IF ~x.armed THEN (IF by = "end" THEN Rest([x EXCEPT !.pfinish = TRUE]) ELSE Poll([x EXCEPT !.pfinish = FALSE]))
  ELSE IF ~x.on THEN Rest([x EXCEPT !.state = "disconnected", !.pfinish = TRUE])
  ELSE FinishAt([x EXCEPT !.state = "fenced"], by)
Pumped(x) == IF x.pfinish THEN StopStream(x, "pump") ELSE Poll(x)
CancelStream(x, by) == Waits(x, "cancel", by, <<Request(x, "cancel", x.gen, 0)>>)

----------------------------------------------------------------------------
(* What each operation's end means to its caller.                           *)
Streaming(x) == [x EXCEPT !.state = "streaming", !.nextgen = op.try + 1]
OpenDone(x, res) ==
  IF res = "closed" /\ ~op.again
  THEN IF eng.up THEN OpenAt(Connected(Disconnect(x)), [op EXCEPT !.again = TRUE, !.n = 0], TRUE)
       ELSE Rest([Disconnect(x) EXCEPT !.state = "connected", !.pstart = FALSE])
  ELSE IF res # "ok" /\ x.err = "stale" /\ op.redo < Redos
  THEN OpenAt(x, [op EXCEPT !.try = @ + 1, !.redo = @ + 1, !.n = 0], eng.conn)
  ELSE LET y == [x EXCEPT !.state = "connected", !.pstart = res = "timeout"]
       IN IF res = "ok" THEN (IF op.by = "pump" THEN Pumped([Streaming(x) EXCEPT !.pstart = FALSE])
                              ELSE Rest([Streaming(x) EXCEPT !.pstart = FALSE]))
          ELSE IF op.by = "boundary" /\ res # "timeout" THEN Rest(Disconnect(y)) ELSE Rest(y)
FinishDone(x, res) ==
  LET y == IF res = "closed" THEN [x EXCEPT !.state = "disconnected"] ELSE x
  IN IF res = "ok" /\ op.by = "pump" THEN Poll([y EXCEPT !.pfinish = FALSE])
     ELSE Rest([y EXCEPT !.pfinish = res # "ok"])
CancelDone(x, res) ==
  LET y == IF res = "ok" THEN [x EXCEPT !.state = "fenced"]
           ELSE IF res = "closed" THEN [x EXCEPT !.state = "disconnected"] ELSE x
  IN IF op.by # "boundary" THEN Rest(y)
     ELSE IF res # "ok" THEN Rest(Disconnect(y))
     ELSE StartStream([y EXCEPT !.reported = 0], "boundary")
Committed(x) == [x EXCEPT !.next = @ + 1, !.pend = None, !.ready = FALSE]
DataDone(x, res) == IF res # "ok" THEN Rest(x)
                    ELSE Out(Committed(x), Idle, <<>>, eng.conn, [src EXCEPT !.at = @ + 1])
TailDone(x, res) ==
  IF res = "ok" THEN FinishAt(Committed(x), op.by) ELSE FinishDone(x, res)
Done(x, res) == CASE op.k = "open" -> OpenDone(x, res)
                  [] op.k = "finish" -> FinishDone(x, res)
                  [] op.k = "tail" -> TailDone(x, res)
                  [] op.k = "cancel" -> CancelDone(x, res)
                  [] op.k = "data" -> DataDone(x, res)
                  [] op.k = "poll" -> Rest(x)
Skip(x) == IF op.n + 1 >= Datagrams THEN Done(x, "malformed")
           ELSE Out(x, [op EXCEPT !.n = @ + 1], <<>>, eng.conn, src)

----------------------------------------------------------------------------
(* What each operation makes of one datagram.                               *)
Mine(m) == m.epoch = c.epoch /\ m.gen = c.gen
CreditFits(m) == c.pend # None /\ ~c.ready /\ Mine(m) /\ m.total = c.next + 1
OpenReads(m) ==
  IF m.t = "error" THEN Done([c EXCEPT !.iopen = 0, !.err = m.code], "rejected")
  ELSE IF m.t # "open_ack" \/ m.gen < op.try THEN Skip(c)
  ELSE IF m.gen # op.try THEN Done([c EXCEPT !.iopen = 0], "malformed")
  ELSE Done([c EXCEPT !.iopen = 0, !.epoch = m.epoch, !.gen = m.gen, !.next = 0, !.pend = None, !.ready = FALSE,
                      !.cache = NoTotal, !.armed = TRUE, !.err = "none"], "ok")
PendingReads(m) ==
  CASE m.t = "error" -> Done([c EXCEPT !.pend = None, !.err = m.code], "rejected")
    [] m.t = "credit" -> IF CreditFits(m) THEN Done([c EXCEPT !.ready = TRUE], "ok") ELSE Done(c, "rejected")
    [] m.t = "progress" -> IF Mine(m) THEN Skip([c EXCEPT !.cache = m.total]) ELSE Done(c, "stale")
    [] OTHER -> Skip(c)
FinishReads(m) ==
  IF m.t = "error" THEN Done([c EXCEPT !.ifin = NoTotal, !.err = m.code], "rejected")
  ELSE IF m.t # "finish_ack" THEN Skip(c)
  ELSE IF ~Mine(m) \/ m.total # c.ifin THEN Done([c EXCEPT !.ifin = NoTotal], "stale")
  ELSE Done([c EXCEPT !.ifin = NoTotal, !.armed = FALSE], "ok")
CancelReads(m) ==
  IF m.t = "error" THEN Done([c EXCEPT !.err = m.code], "rejected")
  ELSE IF m.t # "reset_ack" THEN Skip(c)
  ELSE IF ~Mine(m) THEN Done(c, "stale")
  ELSE Done([FenceLocked(c) EXCEPT !.next = 0], "ok")
PollReads(m) ==
  IF m.t = "error" THEN Done([c EXCEPT !.err = m.code], "rejected")
  ELSE IF m.t = "credit" /\ c.pend # None
  THEN (IF CreditFits(m) THEN Skip([c EXCEPT !.ready = TRUE]) ELSE Done(c, "rejected"))
  ELSE IF m.t # "progress" THEN Skip(c)
  ELSE IF Mine(m) THEN Done(Told(c, m.total), "ok") ELSE Done(c, "stale")
Reads == /\ op.k # "idle" /\ toCli # <<>>
         /\ LET m == Head(toCli)
            IN Take(CASE op.k = "open" -> OpenReads(m)
                      [] op.k \in {"data", "tail"} -> PendingReads(m)
                      [] op.k = "finish" -> FinishReads(m)
                      [] op.k = "cancel" -> CancelReads(m)
                      [] op.k = "poll" -> PollReads(m), Tail(toCli))
TimesOut == op.k # "idle" /\ toCli = <<>> /\ eng.conn /\ Take(Done(c, "timeout"), <<>>)
FindsClosed ==
  /\ op.k # "idle" /\ toCli = <<>> /\ ~eng.conn
  /\ Take(Done([c EXCEPT !.on = FALSE, !.iopen = 0, !.ifin = NoTotal], "closed"), <<>>)

----------------------------------------------------------------------------
(* The SDK's callbacks.                                                     *)
StreamStarts ==
  /\ op = Idle /\ ~src.on
  /\ \E u \in {StartStream([c EXCEPT !.pfinish = FALSE, !.reported = 0], "start")} :
       Take([u EXCEPT !.src = [on |-> TRUE, id |-> src.id + 1, at |-> 0]], toCli)
StreamEnds(natural) ==
  /\ op = Idle /\ (src.on \/ (c.pfinish /\ ~natural))
  /\ \E u \in {IF natural THEN StopStream([c EXCEPT !.pstart = FALSE], "end")
               ELSE IF ~c.on THEN Rest([c EXCEPT !.pstart = FALSE, !.pfinish = FALSE, !.state = "disconnected"])
               ELSE IF c.gen = 0 THEN Rest([c EXCEPT !.pstart = FALSE, !.pfinish = FALSE])
               ELSE CancelStream([c EXCEPT !.pstart = FALSE, !.pfinish = FALSE], "end")} :
       Take([u EXCEPT !.src = [src EXCEPT !.on = FALSE]], toCli)
StreamBoundary ==
  /\ op = Idle /\ src.on
  /\ \E u \in {IF c.state # "streaming" THEN Rest(c)
               ELSE IF c.next < c.reported \/ ~c.on THEN Rest(Disconnect(c)) ELSE CancelStream(c, "boundary")} :
       Take([u EXCEPT !.src = [src EXCEPT !.id = @ + 1, !.at = 0]], toCli)
Pumps == /\ op = Idle /\ Take(IF c.pstart THEN StartStream(c, "pump") ELSE Pumped(c), toCli)
MuteTurns == /\ op = Idle /\ c' = [c EXCEPT !.muted = ~@] /\ UNCHANGED <<op, toEng, toCli, eng, src>>
(* on_audio_write: the same frame again while it is unanswered, else closed.*)
Writes ==
  /\ op = Idle /\ src.on /\ src.at < Frames /\ c.state = "streaming" /\ c.on /\ c.armed
  /\ LET frame == [s |-> src.id, n |-> src.at, muted |-> c.muted]
     IN Take(IF c.pend = None THEN LET x == [c EXCEPT !.pend = frame, !.ready = FALSE]
                                   IN Waits(x, "data", "write", <<Request(x, "data", x.gen, x.next)>>)
             ELSE IF c.pend # frame THEN Rest(CloseSocket(c))
             ELSE IF c.ready THEN Out(Committed(c), Idle, <<>>, eng.conn, [src EXCEPT !.at = @ + 1])
             ELSE Waits(c, "data", "write", <<>>), toCli)
(* The companion exits when it cannot reach the engine, and is started again.*)
CompanionRestarts == /\ eng.up /\ c' = Connected(Companion) /\ op' = Idle /\ toEng' = <<>> /\ toCli' = <<>>
                     /\ eng' = [eng EXCEPT !.conn = TRUE] /\ src' = [src EXCEPT !.on = FALSE]

----------------------------------------------------------------------------
(* The engine, from the protocol header.                                    *)
Error(m, code) == [Answer("error", m.gen, 0) EXCEPT !.code = code]
Current(m) == m.epoch = eng.epoch /\ m.gen = eng.gen /\ eng.live
Admits(m) == Current(m) /\ ~eng.fin /\ m.total = eng.acc
Handled(m, full) ==
  CASE m.t = "open" /\ m.gen > eng.gen ->
         [e |-> [Engine(eng.epoch, m.gen) EXCEPT !.conn = TRUE, !.live = TRUE], a |-> Answer("open_ack", m.gen, 0)]
    [] m.t = "data" /\ Admits(m) /\ ~full ->
         [e |-> [eng EXCEPT !.acc = @ + 1, !.heard = Append(@, m.frame)], a |-> Answer("credit", m.gen, eng.acc + 1)]
    [] m.t = "data" /\ Admits(m) /\ full -> [e |-> eng, a |-> Error(m, "capacity")]
    [] m.t = "progress_req" /\ m.epoch = eng.epoch /\ m.gen = eng.gen ->
         [e |-> eng, a |-> Answer("progress", m.gen, eng.played)]
    [] m.t = "finish" /\ Current(m) /\ m.total = eng.acc ->
         [e |-> [eng EXCEPT !.fin = TRUE], a |-> Answer("finish_ack", m.gen, m.total)]
    [] m.t = "cancel" /\ Current(m) -> [e |-> [eng EXCEPT !.live = FALSE], a |-> Answer("reset_ack", m.gen, 0)]
    [] OTHER -> [e |-> eng, a |-> Error(m, IF Current(m) THEN "sequence" ELSE "stale")]
EngineServes(full) ==
  /\ eng.up /\ eng.conn /\ toEng # <<>> /\ (full => Head(toEng).t = "data") /\ toEng' = Tail(toEng)
  /\ \E h \in {Handled(Head(toEng), full)} : eng' = h.e /\ toCli' = Append(toCli, h.a)
  /\ UNCHANGED <<c, op, src>>
EnginePlays == eng.played < eng.acc /\ eng' = [eng EXCEPT !.played = @ + 1] /\ UNCHANGED <<c, op, toEng, toCli, src>>
EngineDies == /\ eng.up /\ eng' = [Engine(eng.epoch + 1, 0) EXCEPT !.up = FALSE] /\ toEng' = <<>> /\ toCli' = <<>>
              /\ UNCHANGED <<c, op, src>>
EngineStarts == ~eng.up /\ eng' = [eng EXCEPT !.up = TRUE] /\ UNCHANGED <<c, op, toEng, toCli, src>>

----------------------------------------------------------------------------
(* What the engine holds of the live generation is what the SDK was told is *)
(* accepted, and the frame still unanswered at most: nothing is lost or     *)
(* heard twice over timeouts and late answers, and a generation holds the   *)
(* frames of one source in order.  Played frames are told once played.      *)
Shared == c.armed /\ c.on /\ eng.conn /\ c.epoch = eng.epoch /\ c.gen = eng.gen
SinkHonest ==
  /\ Shared => /\ eng.acc \in {c.next, c.next + 1}
               /\ eng.acc = c.next + 1 => c.pend # None
               /\ c.reported <= eng.played
  /\ \A i \in 1..Len(eng.heard) : eng.heard[i].n = i - 1 /\ eng.heard[i].s = eng.heard[1].s
  /\ c.nextgen > c.gen
Started == src.on => src.at = Frames
=============================================================================
