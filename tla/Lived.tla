-------------------------------- MODULE Lived --------------------------------
(***************************************************************************)
(* lived.c: the daemon of the live conversation.  One pass of run_lived    *)
(* reconnects to waked when due, drains the wake events, then the audio    *)
(* frames, serves one control request and pumps the session once.  waked   *)
(* (which numbers and publishes the audio) and the remote model run beside *)
(* it.  `phase' is where in the pass the daemon is: time passes while it   *)
(* polls, connects to the model, or waits for the playback bus.            *)
(*                                                                         *)
(* One unit of time captures one frame.                                    *)
(*                                                                         *)
(* The first part is the session itself: live_session.c, with the          *)
(* WebSocket transport and the playback sink it drives, one spoken         *)
(* conversation from wake word to close.  A session is a record; each      *)
(* operator is what one function of the code does to it.  Times are ages.  *)
(* The code compares with a clock it reads when the pump begins; `late' is *)
(* how long the pump has been blocked since.  The state "closing" lasts no *)
(* longer than one call and is left out.                                   *)
(***************************************************************************)
EXTENDS Integers, Sequences, FiniteSets

CONSTANTS
    RingMax,              \* LE_LIVE_RING_CAPACITY, in frames
    Preroll,              \* wake_preroll_ms, in frames
    ConnectTimeout,       \* connect_timeout_ms
    ConversationTimeout,  \* conversation_timeout_ms
    MaxSession,           \* max_session_ms
    BargeFrames,          \* barge_in_frames
    CacheMax,             \* LE_LIVE_DELEGATION_CACHE
    Ids,                  \* delegation ids
    WriteMax              \* LE_LIVE_AUDIO_OUT_STALL_BUDGET_MS

ASSUME SessionAssumption ==
    /\ RingMax \in Nat \ {0} /\ Preroll \in Nat /\ WriteMax \in Nat
    /\ ConnectTimeout \in Nat \ {0} /\ ConversationTimeout \in Nat \ {0}
    /\ MaxSession \in Nat \ {0} /\ BargeFrames \in Nat \ {0}
    /\ CacheMax \in Nat \ {0}
    /\ IsFiniteSet(Ids)

\* live_ring.c: the last RingMax frames of microphone audio, numbered by the
\* capture.  A frame stands for a block of samples.
Ring == [first : Nat, count : 0 .. RingMax]

\* primed is set exactly while frames are held.
EmptyRing == [first |-> 0, count |-> 0]

RingEnd(r) == IF r.count = 0 THEN 0 ELSE r.first + r.count

\* A frame that does not continue the numbering starts the ring over; a full
\* ring gives up its oldest frame.
Fed(r, i) ==
    IF r.count = 0 \/ i # RingEnd(r) THEN [first |-> i, count |-> 1]
    ELSE IF r.count = RingMax THEN [r EXCEPT !.first = @ + 1]
    ELSE [r EXCEPT !.count = @ + 1]

\* Where a conversation woken at frame d begins: `pre' frames earlier, as far
\* as they are still held.
StartForWake(r, d, pre) ==
    LET wanted == IF d > pre THEN d - pre ELSE 0
        start == IF wanted < r.first THEN r.first ELSE wanted
    IN  IF r.count = 0 \/ start >= RingEnd(r) THEN 0 ELSE start

\* A read that begins before the window returns nothing.
Readable(r, i) == r.count > 0 /\ r.first <= i /\ i < RingEnd(r)

----------------------------------------------------------------------------
States == {"idle", "connecting", "listening", "speaking", "waiting_for_tool"}
Ends == {"none", "timeout", "max_duration", "transport_closed",
         "transport_error", "connect_failed", "audio_failed", "stopped"}

OldestAge == (IF MaxSession > ConnectTimeout THEN MaxSession
                                             ELSE ConnectTimeout) + WriteMax
OldestQuiet == ConversationTimeout + WriteMax

\* delegation_cache: the ids answered last, oldest first.
Caches == UNION {[1 .. n -> Ids] : n \in 0 .. CacheMax}

\* next: next_send_sample.  opened, quiet: time since the wake, and since the
\* later of last_model_speech_ms and last_user_speech_ms.  run: barge_in_run.
\* The rest is the transport (live_transport_realtime.c): in_use,
\* session_ready, the decoded chunks of one audio delta still to hand out and
\* the turn they belong to, output_done_pending, suppress_audio; and whether
\* the playback sink has a turn open (live_audio_out.c).
Session ==
    [state : States, next : Nat, opened : 0 .. OldestAge,
     quiet : 0 .. OldestQuiet, run : 0 .. BargeFrames, end : Ends,
     cache : Caches,
     inUse : BOOLEAN, ready : BOOLEAN, pending : Nat, turn : Nat,
     done : BOOLEAN, suppress : BOOLEAN, playing : BOOLEAN]

IdleSession ==
    [state |-> "idle", next |-> 0, opened |-> 0, quiet |-> 0, run |-> 0,
     end |-> "none", cache |-> <<>>, inUse |-> FALSE, ready |-> FALSE,
     pending |-> 0, turn |-> 0, done |-> FALSE, suppress |-> FALSE,
     playing |-> FALSE]

Active(s) == s.state # "idle"
Open(s) == s.state \notin {"idle", "connecting"}

Older(n, max) == IF n < max THEN n + 1 ELSE n
Aged(s) ==
    IF ~Active(s) THEN s
    ELSE [s EXCEPT !.opened = Older(@, OldestAge),
                   !.quiet = Older(@, OldestQuiet)]

----------------------------------------------------------------------------
\* teardown, and memset in ws_start.
Torn(s) ==
    [s EXCEPT !.inUse = FALSE, !.ready = FALSE, !.pending = 0, !.turn = 0,
              !.done = FALSE, !.suppress = FALSE]

\* le_live_session_close: the sink is silenced before the transport goes.
Closed(s, why) ==
    IF ~Active(s) THEN s
    ELSE [Torn(s) EXCEPT !.state = "idle", !.end = why, !.next = 0, !.run = 0,
                         !.opened = 0, !.quiet = 0, !.playing = FALSE]

\* le_live_session_wake refuses a wake whose audio it has not got.
WakeRefused(r, d) == r.count = 0 \/ d > RingEnd(r)

\* A new conversation, before the transport is started.
Woken(s, r, d) ==
    [s EXCEPT !.state = "connecting", !.next = StartForWake(r, d, Preroll),
              !.opened = 0, !.quiet = 0, !.run = 0, !.end = "none",
              !.cache = <<>>]

\* ws_start: a second conversation is refused, otherwise the state is new.
Started(s) == [Torn(s) EXCEPT !.inUse = TRUE]
StartFailed(s) == [s EXCEPT !.state = "idle", !.end = "connect_failed",
                            !.opened = 0, !.quiet = 0]

----------------------------------------------------------------------------
\* Mutant of Interrupted: decoded audio of the interrupted turn stays queued.
BugInterruptKeepsQueue(s) ==
    [s EXCEPT !.done = FALSE, !.suppress = TRUE]

\* ws_interrupt: drop what was decoded and refuse the rest of the turn.
Interrupted(s) ==
    [s EXCEPT !.pending = 0, !.done = FALSE, !.suppress = TRUE]

\* check_barge_in, given a frame above the threshold or not.
BargeFires(s, loud) ==
    s.state = "speaking" /\ loud /\ s.run + 1 >= BargeFrames
BargeChecked(s, loud) ==
    IF BargeFires(s, loud)
    THEN [Interrupted(s) EXCEPT !.run = 0, !.quiet = 0, !.playing = FALSE,
                                !.state = "listening"]
    ELSE [s EXCEPT !.run = IF s.state = "speaking" /\ loud THEN @ + 1 ELSE 0]

\* Mutant of Flushed: an upload that lags resumes at the newest frame.
BugFlushSkips(s, r) ==
    IF Open(s) /\ s.next < RingEnd(r) THEN [s EXCEPT !.next = RingEnd(r) - 1]
    ELSE s

\* flush_pending: everything owed, if the ring still has its beginning.
Sends(s, r) == Open(s) /\ Readable(r, s.next)
Flushed(s, r) == IF Sends(s, r) THEN [s EXCEPT !.next = RingEnd(r)] ELSE s

\* The results of flush_pending in feed and pump; a failed send closes.
Uploads(s, r, mayFail) ==
    {Flushed(s, r)} \cup
    (IF mayFail /\ Sends(s, r) THEN {Closed(s, "transport_error")} ELSE {})

\* le_live_session_feed of an active session.
FeedResults(s, r, loud, mayFail) ==
    IF ~Active(s) THEN {s} ELSE Uploads(BargeChecked(s, loud), r, mayFail)

----------------------------------------------------------------------------

\* delegation_lookup and delegation_store (a ring of CacheMax records).
DelegationKnown(s, id) == \E i \in DOMAIN s.cache : s.cache[i] = id
Stored(cache, id) ==
    IF Len(cache) < CacheMax THEN Append(cache, id)
                             ELSE Append(Tail(cache), id)

\* handle_delegation: a replay is answered and leaves the session waiting; a
\* new request runs, and may end the session; an answer that cannot be
\* delivered closes it.
Delegated(s, id, delivered, ends) ==
    IF DelegationKnown(s, id)
    THEN IF delivered THEN [s EXCEPT !.state = "waiting_for_tool"]
         ELSE Closed(s, "transport_error")
    ELSE LET s1 == [s EXCEPT !.cache = Stored(@, id)]
         IN  IF ~delivered THEN Closed(s1, "transport_error")
             ELSE IF ends THEN Closed(s1, "stopped")
             ELSE [s1 EXCEPT !.state = "speaking"]

\* What poll has to hand out without reading the connection.
HasChunk(s) == s.pending > 0
HasDone(s) == ~HasChunk(s) /\ s.done

\* translate and handle_event for the messages that need no further input.
Heard(s, kind, late) ==
    CASE kind = "ready" ->
           [s EXCEPT !.ready = TRUE, !.state = "listening"]
      [] kind = "userDone" -> [s EXCEPT !.suppress = FALSE, !.quiet = late]
      [] kind = "modelDone" ->
           [s EXCEPT !.done = @ \/ ~s.suppress, !.quiet = late]
      [] kind = "closed" -> Closed(s, "transport_closed")
      [] kind = "error" -> Closed(s, "transport_error")
      [] OTHER -> s

\* LE_LIVE_EVENT_OUTPUT_DONE.
OutputDone(s) ==
    [s EXCEPT !.done = FALSE, !.quiet = 0, !.state = "listening"]

\* A delta of n chunks of turn t: the first one is handed out at once.
Delta(s, t, n) == [s EXCEPT !.pending = n - 1, !.turn = t]
NextChunk(s) == [s EXCEPT !.pending = @ - 1]

\* LE_LIVE_EVENT_AUDIO once the sink took the chunk.
Spoken(s) == [s EXCEPT !.state = "speaking", !.playing = TRUE]

\* Mutant of PumpResults: a connection may take for ever.
BugNoConnectTimeout(s, r, late, mayFail) ==
    IF ~Open(s) THEN {s}
    ELSE IF s.opened - late >= MaxSession THEN {Closed(s, "max_duration")}
    ELSE IF s.quiet - late >= ConversationTimeout THEN {Closed(s, "timeout")}
    ELSE Uploads(s, r, mayFail)

\* The end of le_live_session_pump: the time limits, then the upload.
PumpResults(s, r, late, mayFail) ==
    IF ~Active(s) THEN {s}
    ELSE IF s.state = "connecting"
    THEN {IF s.opened - late >= ConnectTimeout
          THEN Closed(s, "connect_failed") ELSE s}
    ELSE IF s.opened - late >= MaxSession THEN {Closed(s, "max_duration")}
    ELSE IF s.quiet - late >= ConversationTimeout THEN {Closed(s, "timeout")}
    ELSE Uploads(s, r, mayFail)

----------------------------------------------------------------------------
CONSTANTS
    RetryAfter,   \* the delay before a lost subscription is tried again
    NetMax,       \* bound: messages of the model on their way
    Setups        \* the surroundings explored, see Setup

\* start: the model cannot be reached.  send: a message to it fails.  link:
\* it closes or loses the connection.  output: the playback bus stalls or has
\* no reader.  waked: waked restarts or refuses a subscription.
FaultKinds == {"start", "send", "link", "output", "waked"}

\* One setup: the control requests, what may go wrong, the longest ws_start
\* takes, whether the model is ready as soon as it is connected, whether the
\* user may talk over it, its delegation ids, the frames the audio socket
\* holds before waked gives it up, (bounds) frames captured and turns taken,
\* and the frames of the model on a wire explored by itself (LiveService).
Setup == [requests : SUBSET {"enable", "disable", "stop", "wake"},
          faults : SUBSET FaultKinds, connect : Nat, prompt : BOOLEAN,
          barge : BOOLEAN, ids : SUBSET Ids, socket : Nat \ {0},
          frames : Nat, turns : Nat, wire : Nat]

ASSUME LivedAssumption ==
    /\ RetryAfter \in Nat /\ NetMax \in Nat \ {0}
    /\ Setups \subseteq Setup

VARIABLES
    phase,    \* where in run_lived the daemon is
    polled,   \* poll found the audio socket readable or closed
    block,    \* the blocking call: time in it, phase after it, turn written
    enabled,  \* state->enabled
    subs,     \* the subscriptions: "on", "off", or closed by waked
    retry,    \* time to next_subscription_retry_ms
    sess,     \* the session (below)
    ring,     \* the ring of live_ring.c
    audioQ,   \* frames in the audio socket: first and len
    wakeQ,    \* detection samples in the wake socket
    cap,      \* waked's processed_frames
    net,      \* messages of the model on their way
    srv,      \* the model: connected, readies sent, turn, answering
    said,     \* history: user turns completed in this session
    cut,      \* history: the user turn whose answer was interrupted
    ran,      \* history: delegations run in this session, by id
    setup     \* the setup of this behaviour

vars == <<phase, polled, block, enabled, subs, retry, sess, ring, audioQ, wakeQ, cap,
          net, srv, said, cut, ran, setup>>
hist == <<said, cut, ran>>
wakedVars == <<audioQ, wakeQ, cap>>
modelVars == <<net, srv>>

May(f) == f \in setup.faults
Outcomes(f) == IF May(f) THEN BOOLEAN ELSE {TRUE}

NoBlock == [time |-> 0, back |-> "wake", turn |-> 0]
NoServer == [up |-> FALSE, readies |-> 0, turn |-> 0, answering |-> FALSE]
Msg(kind, turn, n, id) == [kind |-> kind, turn |-> turn, n |-> n, id |-> id]
NoId == "none"
Note(kind) == Msg(kind, 0, 0, NoId)

Kinds == {"ready", "userDone", "modelDone", "delta", "delegation", "closed",
          "error"}

TypeOK ==
    /\ phase \in {"top", "wake", "starting", "audio", "control", "pump",
                  "writing", "wait"}
    /\ polled \in BOOLEAN
    /\ block \in [time : Nat, back : {"wake", "pump"}, turn : Nat]
    /\ enabled \in BOOLEAN
    /\ subs \in {"on", "off", "audio_closed", "closed"}
    /\ retry \in 0 .. RetryAfter
    /\ sess \in Session
    /\ ring \in Ring
    /\ audioQ \in [first : Nat, len : 0 .. setup.socket]
    /\ wakeQ \in Seq(Nat) /\ Len(wakeQ) <= 1
    /\ cap \in 0 .. setup.frames
    /\ \A i \in DOMAIN net :
          net[i] \in [kind : Kinds, turn : Nat, n : Nat, id : Ids \cup {NoId}]
    /\ Len(net) <= NetMax
    /\ srv \in [up : BOOLEAN, readies : 0 .. 2, turn : 0 .. setup.turns,
                answering : BOOLEAN]
    /\ said \in Nat /\ cut \in Nat /\ ran \in [Ids -> 0 .. 2]
    /\ setup \in Setups

\* main(): disabled until the control centre selects this mode, or started
\* with --enable.
Init ==
    /\ setup \in Setups
    /\ phase = "top" /\ polled = FALSE /\ block = NoBlock
    /\ enabled \in BOOLEAN
    /\ subs = "off" /\ retry = 0
    /\ sess = IdleSession /\ ring = EmptyRing
    /\ audioQ = [first |-> 0, len |-> 0] /\ wakeQ = <<>> /\ cap = 0
    /\ net = <<>> /\ srv = NoServer
    /\ said = 0 /\ cut = 0 /\ ran = [i \in Ids |-> 0]

----------------------------------------------------------------------------
\* The connection goes with the transport: whatever was on its way is gone.
Disconnected == net' = <<>> /\ srv' = NoServer
ModelFollows(s) == IF s.inUse THEN UNCHANGED modelVars ELSE Disconnected

\* close_session and drop_subscriptions, when waked has closed a socket.
SubscriptionLost ==
    /\ sess' = Closed(sess, "transport_error")
    /\ ModelFollows(sess')
    /\ subs' = "off" /\ retry' = RetryAfter
    /\ audioQ' = [audioQ EXCEPT !.len = 0] /\ wakeQ' = <<>>

\* reconnect_subscriptions at the top of a pass.
Reconnects ==
    IF subs # "off" \/ retry > 0 THEN UNCHANGED <<subs, retry>>
    ELSE \E ok \in Outcomes("waked") :
            /\ subs' = IF ok THEN "on" ELSE "off"
            /\ retry' = IF ok THEN 0 ELSE RetryAfter

BeginPass ==
    /\ phase \in {"top", "wait"}
    /\ phase' = "wake"
    /\ Reconnects
    /\ polled' = (audioQ.len > 0 \/ subs \in {"audio_closed", "closed"})
    /\ UNCHANGED <<block, enabled, sess, ring, wakedVars, modelVars, hist>>

\* start_session: ignored when disabled or busy, refused without its audio
\* (and by ws_start while a transport is in use).
StartSession(d, back) ==
    IF ~enabled \/ Active(sess) \/ WakeRefused(ring, d) \/ sess.inUse
    THEN phase' = back /\ UNCHANGED <<sess, block, modelVars, hist>>
    ELSE /\ sess' = Started(Woken(sess, ring, d))
         /\ phase' = "starting"
         /\ block' = [NoBlock EXCEPT !.back = back]
         /\ Disconnected
         /\ said' = 0 /\ cut' = 0 /\ ran' = [i \in Ids |-> 0]

\* drain_wake_events: every queued event, then the end of the stream.
DrainWake ==
    /\ phase = "wake"
    /\ \/ /\ wakeQ # <<>>
          /\ wakeQ' = Tail(wakeQ)
          /\ StartSession(Head(wakeQ), "wake")
          /\ UNCHANGED <<subs, retry, audioQ>>
       \/ /\ wakeQ = <<>>
          /\ phase' = "audio"
          /\ IF subs = "closed" THEN SubscriptionLost
             ELSE UNCHANGED <<sess, subs, retry, audioQ, wakeQ, modelVars>>
          /\ UNCHANGED <<block, hist>>
    /\ UNCHANGED <<polled, enabled, ring, cap>>

\* ws_start returns, connected or not.
StartReturns ==
    /\ phase = "starting"
    /\ phase' = block.back /\ block' = NoBlock
    /\ \E ok \in Outcomes("start") :
          /\ sess' = IF ok THEN sess ELSE StartFailed(Torn(sess))
          /\ srv' = IF ok THEN [NoServer EXCEPT !.up = TRUE,
                                   !.readies = IF setup.prompt THEN 1 ELSE 0]
                          ELSE NoServer
          /\ net' = IF ok /\ setup.prompt THEN <<Note("ready")>> ELSE <<>>
    /\ UNCHANGED <<polled, enabled, subs, retry, ring, wakedVars, hist>>

\* handle_audio_frame: nothing is kept unless the mode is selected.
AudioFrame(loud) ==
    /\ audioQ' = [first |-> audioQ.first + 1, len |-> audioQ.len - 1]
    /\ IF ~enabled THEN UNCHANGED <<ring, sess, cut, modelVars>>
       ELSE /\ ring' = Fed(ring, audioQ.first)
            /\ sess' \in FeedResults(sess, ring', loud, May("send"))
            /\ cut' = IF BargeFires(sess, loud) THEN said ELSE cut
            /\ ModelFollows(sess')

\* drain_audio: every queued frame, then the end of the stream; skipped when
\* poll had nothing to report.
DrainAudio ==
    /\ phase = "audio"
    /\ \/ /\ polled /\ audioQ.len > 0
          /\ \E loud \in (IF setup.barge THEN BOOLEAN ELSE {FALSE}) :
                AudioFrame(loud)
          /\ UNCHANGED <<phase, polled, subs, retry, wakeQ>>
       \/ /\ polled => audioQ.len = 0
          /\ phase' = "control" /\ polled' = FALSE
          /\ IF polled /\ subs = "audio_closed" THEN SubscriptionLost
             ELSE UNCHANGED <<sess, subs, retry, audioQ, wakeQ, modelVars>>
          /\ UNCHANGED <<ring, cut>>
    /\ UNCHANGED <<block, enabled, cap, said, ran>>

\* handle_control: at most one client per pass.
NoRequest ==
    /\ phase' = "pump"
    /\ UNCHANGED <<enabled, sess, block, ring, modelVars, hist>>

SetEnabled(on) ==
    /\ enabled' = on
    /\ sess' = IF on THEN sess ELSE Closed(sess, "stopped")
    /\ ring' = IF on THEN ring ELSE EmptyRing
    /\ ModelFollows(sess')
    /\ phase' = "pump"
    /\ UNCHANGED <<block, hist>>

StopSession ==
    /\ sess' = Closed(sess, "stopped")
    /\ ModelFollows(sess')
    /\ phase' = "pump"
    /\ UNCHANGED <<enabled, block, ring, hist>>

Control ==
    /\ phase = "control"
    /\ \/ NoRequest
       \/ "enable" \in setup.requests /\ SetEnabled(TRUE)
       \/ "disable" \in setup.requests /\ SetEnabled(FALSE)
       \/ "stop" \in setup.requests /\ StopSession
       \/ /\ "wake" \in setup.requests
          /\ StartSession(RingEnd(ring), "pump")
          /\ UNCHANGED <<enabled, ring>>
    /\ UNCHANGED <<polled, subs, retry, wakedVars>>

----------------------------------------------------------------------------
\* le_live_session_pump ends: limits and upload, then poll again.
Pumped(s, late) ==
    /\ sess' \in PumpResults(s, ring, late, May("send"))
    /\ phase' = "wait"

\* The session does not read the connection.
Unread == IF sess'.inUse THEN UNCHANGED modelVars ELSE Disconnected
\* The session has read one message.
ReadOne == IF sess'.inUse THEN net' = Tail(net) /\ UNCHANGED srv
                          ELSE Disconnected

\* Nothing to handle.
PumpQuiet ==
    /\ ~HasChunk(sess) /\ ~sess.done /\ net = <<>>
    /\ Pumped(sess, 0) /\ Unread
    /\ UNCHANGED <<block, hist>>

PumpOutputDone ==
    /\ HasDone(sess)
    /\ Pumped(OutputDone(sess), 0) /\ Unread
    /\ UNCHANGED <<block, hist>>

\* A chunk goes to the playback bus, which may make the daemon wait.
BeginWrite(s, turn) ==
    /\ sess' = s
    /\ phase' = "writing"
    /\ block' = [NoBlock EXCEPT !.turn = turn]
    /\ UNCHANGED hist

PumpChunk ==
    /\ HasChunk(sess)
    /\ BeginWrite(NextChunk(sess), sess.turn)
    /\ UNCHANGED modelVars

PumpMessage ==
    LET m == Head(net)
    IN  /\ ~HasChunk(sess) /\ ~sess.done /\ net # <<>>
        /\ \/ /\ m.kind = "delta" /\ ~sess.suppress
              /\ BeginWrite(Delta(sess, m.turn, m.n), m.turn)
              /\ net' = Tail(net) /\ UNCHANGED srv
           \/ /\ m.kind = "delegation"
              /\ \E delivered \in Outcomes("send"), ends \in BOOLEAN :
                    Pumped(Delegated(sess, m.id, delivered, ends), 0)
              /\ ran' = [ran EXCEPT ![m.id] =
                            IF DelegationKnown(sess, m.id) THEN @
                            ELSE IF @ < 2 THEN @ + 1 ELSE @]
              /\ ReadOne
              /\ UNCHANGED <<block, said, cut>>
           \/ /\ m.kind = "delta" => sess.suppress
              /\ m.kind # "delegation"
              /\ Pumped(Heard(sess, m.kind, 0), 0)
              /\ said' = IF m.kind = "userDone" THEN said + 1 ELSE said
              /\ ReadOne
              /\ UNCHANGED <<block, cut, ran>>

Pump ==
    /\ phase = "pump"
    /\ IF Active(sess) THEN PumpQuiet \/ PumpOutputDone \/ PumpChunk \/ PumpMessage
       ELSE phase' = "wait" /\ UNCHANGED <<sess, block, modelVars, hist>>
    /\ UNCHANGED <<polled, enabled, subs, retry, ring, wakedVars>>

\* le_live_audio_out_write returns; the pump goes on with the clock it read
\* before.
WriteReturns ==
    /\ phase = "writing"
    /\ \E ok \in Outcomes("output") :
          Pumped(IF ok THEN Spoken(sess) ELSE Closed(sess, "audio_failed"),
                 block.time)
    /\ block' = NoBlock
    /\ Unread
    /\ UNCHANGED <<polled, enabled, subs, retry, ring, wakedVars, hist>>

LivedStep ==
    \/ BeginPass \/ DrainWake \/ StartReturns \/ DrainAudio \/ Control
    \/ Pump \/ WriteReturns

----------------------------------------------------------------------------
\* waked publishes a frame; a socket that is full is closed.
Captured ==
    IF cap = setup.frames THEN UNCHANGED <<cap, audioQ, subs>>
    ELSE /\ cap' = cap + 1
         /\ audioQ' = IF subs # "on" \/ audioQ.len = setup.socket THEN audioQ
                      ELSE IF audioQ.len = 0 THEN [first |-> cap, len |-> 1]
                      ELSE [audioQ EXCEPT !.len = @ + 1]
         /\ subs' = IF subs = "on" /\ audioQ.len = setup.socket
                    THEN "audio_closed" ELSE subs

\* Time passes where the daemon waits: once per pass in poll, up to a limit
\* in ws_start and in a write.
Tick ==
    /\ \/ phase = "wait" /\ phase' = "top" /\ UNCHANGED block
       \/ /\ \/ phase = "starting" /\ block.time < setup.connect
             \/ phase = "writing" /\ block.time < WriteMax
          /\ block' = [block EXCEPT !.time = @ + 1] /\ UNCHANGED phase
    /\ sess' = Aged(sess)
    /\ retry' = IF retry > 0 THEN retry - 1 ELSE 0
    /\ Captured
    /\ UNCHANGED <<polled, enabled, ring, wakeQ, modelVars, hist>>

Waiting == phase \in {"wait", "starting", "writing"}

\* waked reports a wake word at or shortly before the newest frame.
WakeDetected ==
    /\ Waiting /\ subs \in {"on", "audio_closed"} /\ wakeQ = <<>>
    /\ \E d \in {cap, cap - 1} : d > 0 /\ wakeQ' = <<d>>
    /\ UNCHANGED <<phase, polled, block, enabled, subs, retry, sess, ring,
                   audioQ, cap, modelVars, hist>>

\* waked restarts: both sockets close and the numbering starts over.
WakedRestarts ==
    /\ May("waked") /\ Waiting /\ subs # "off"
    /\ subs' = "closed" /\ cap' = 0
    /\ UNCHANGED <<phase, polled, block, enabled, retry, sess, ring, audioQ,
                   wakeQ, modelVars, hist>>

\* The model (external): it is ready, hears a user turn out, answers with
\* audio and delegations in that order, ends its turn, and may hang up.
ModelSends(m) == Len(net) < NetMax /\ net' = Append(net, m)

Model ==
    /\ Waiting /\ srv.up
    /\ \/ /\ srv.readies < 2 /\ ModelSends(Note("ready"))
          /\ srv' = [srv EXCEPT !.readies = @ + 1]
       \/ /\ srv.readies > 0 /\ srv.turn < setup.turns
          /\ ModelSends(Note("userDone"))
          /\ srv' = [srv EXCEPT !.turn = @ + 1, !.answering = TRUE]
       \/ /\ srv.answering /\ UNCHANGED srv
          /\ \/ \E n \in 1 .. 2 : ModelSends(Msg("delta", srv.turn, n, NoId))
             \/ \E id \in setup.ids : ModelSends(Msg("delegation", 0, 0, id))
       \/ /\ srv.answering /\ ModelSends(Note("modelDone"))
          /\ srv' = [srv EXCEPT !.answering = FALSE]
       \/ /\ May("link") /\ srv' = NoServer
          /\ \E kind \in {"closed", "error"} : ModelSends(Note(kind))
    /\ UNCHANGED <<phase, polled, block, enabled, subs, retry, sess, ring,
                   wakedVars, hist>>

Step == LivedStep \/ Tick \/ WakeDetected \/ WakedRestarts \/ Model

\* The setup never changes.
Kept == UNCHANGED setup

----------------------------------------------------------------------------
\* An idle session holds nothing: the transport is free for the next wake
\* (ws_start refuses a second conversation), no decoded audio is queued and
\* the playback sink is closed.  An active one has its transport.
ClosedMeansReleased ==
    /\ Active(sess) <=> sess.inUse
    /\ ~Active(sess) => sess.pending = 0 /\ ~sess.done /\ ~sess.playing

\* Nothing of an answer the user has interrupted is played or left to play,
\* and while audio is queued the session listens for an interruption
\* (check_barge_in, ws_interrupt, translate).
InterruptedSilent ==
    /\ phase = "writing" => block.turn > cut
    /\ HasChunk(sess) => sess.turn > cut
    /\ HasChunk(sess) /\ phase # "writing" => sess.state = "speaking"

\* A delegated action runs once in a conversation, however often the model
\* asks (handle_delegation), as long as the cache can hold the ids used.
DelegationOnce ==
    Cardinality(setup.ids) <= CacheMax => \A id \in Ids : ran[id] <= 1

\* Nothing is buffered and no conversation is open while the mode is off.
DisabledHoldsNothing == ~enabled => ring = EmptyRing /\ ~Active(sess)

\* What the session holds follows its state: the four together, over states
\* of the right form.
SessionHonest ==
    /\ TypeOK
    /\ ClosedMeansReleased /\ InterruptedSilent
    /\ DelegationOnce /\ DisabledHoldsNothing

\* The stream is never interrupted, the model is there, some audio before the
\* wake word is kept, and what waked publishes while the daemon is blocked (in
\* one call as a pass ends and in ws_start of the next) fits the ring and the
\* socket.
Steady ==
    /\ {"waked", "start"} \cap setup.faults = {} /\ setup.prompt
    /\ Preroll > 0
    /\ \A delay \in {setup.connect, WriteMax} :
          /\ delay + setup.connect + Preroll + 1 < RingMax
          /\ delay + setup.connect < setup.socket

\* Whenever the daemon goes back to sleep, an open conversation has been sent
\* every frame since its wake (flush_pending).
UploadCurrent ==
    Steady /\ phase = "wait" /\ Open(sess) => sess.next = RingEnd(ring)

\* Every conversation ends and the device is armed again.
SessionEnds == Active(sess) ~> ~Active(sess)

\* live_session.c, flush_pending: it "drains the ring until it catches up with
\* what has been fed".
UploadCatchesUp == phase = "wait" /\ Open(sess) => sess.next = RingEnd(ring)

\* live_session.h, conversation_timeout_ms: "Silence after the model stops
\* speaking before the session closes".  A session that is in the middle of an
\* answer and has just played more of it is not closed for silence.
SpeechNotCut ==
    [][phase = "writing" /\ sess.state = "speaking" /\ ~Active(sess') =>
          sess'.end # "timeout"]_vars
=============================================================================
