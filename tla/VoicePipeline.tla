--------------------------- MODULE VoicePipeline ---------------------------
(***************************************************************************)
(* From the wake word to a transcript, and from a reply to the speaker: the *)
(* capture thread of voice_pipeline.c, the recogniser it borrows (sttd,     *)
(* which serves one connection at a time), the private history every        *)
(* outcome goes to (voice_history.c), the saved turn log, the playback      *)
(* queue and ttsd.  A turn is numbered when its wake word is heard, or when *)
(* an automatic follow-up starts listening.                                 *)
(***************************************************************************)
EXTENDS Naturals, Sequences

CONSTANTS
  Setups,
  HistoryCapacity,
  MaxTurns          \* bound: turns numbered in any of the setups

VARIABLES
  setup,
  p,        \* the pipeline: subs, pc, turn (on stt_fd, 0 when closed), foll, chan (what
            \* sttd has sent on it), pending, kind, dispatch, follow (follow_up_pending),
            \* asked (who asked for the follow-up), turns, wakes
  stt,      \* the turn sttd is recognising, 0 when it waits for a connection
  h,        \* the history: gen, ring, tgen, tid, ttsFailed (agentd's turn_* fields)
  born,     \* the generation that was current when a turn began
  outcome,  \* what has been reported about a turn
  faults    \* failures of other services still allowed

pipelineVars == <<p, stt>>
historyVars == <<h, born, outcome>>

Turns == 1..setup.turns
Kinds == { "timer", "stop", "ask", "tell" }

(* ---- voice_history.c --------------------------------------------------- *)
NoHistory == [gen |-> 1, ring |-> <<>>, tgen |-> 0, tid |-> 0, ttsFailed |-> FALSE]

Newest(s) == IF Len(s) > HistoryCapacity THEN Tail(s) ELSE s
Add(hh, gen, t, s) ==
  IF gen # hh.gen THEN hh ELSE [hh EXCEPT !.ring = Newest(Append(@, [turn |-> t, status |-> s]))]

Cleared(hh) == [hh EXCEPT !.gen = @ + 1, !.ring = <<>>, !.tid = 0]

TurnBegins(t) ==
  /\ h' = [h EXCEPT !.tgen = h.gen, !.tid = 0]
  /\ born' = [born EXCEPT ![t] = h.gen]

(* An outcome before there is a transcript. *)
BugOutcome(t, s) ==
  h' = Add(h, h.gen, t, s) /\ outcome' = [outcome EXCEPT ![t] = s]
Outcome(t, s) ==
  /\ h' = Add(h, h.tgen, t, s)
  /\ outcome' = [outcome EXCEPT ![t] = s]

RecordTurn(t, gen, s) ==
  /\ h' = [Add(h, gen, t, s) EXCEPT !.tgen = gen, !.tid = IF gen = h.gen THEN t ELSE 0]
  /\ outcome' = [outcome EXCEPT ![t] = s]

(* set_status: only a completed record of this generation is upgraded.     *)
Upgradable == h.tid # 0 /\ h.tgen = h.gen
              /\ \E i \in DOMAIN h.ring : h.ring[i] = [turn |-> h.tid, status |-> "completed"]
Upgraded ==
  [i \in DOMAIN h.ring |->
     IF h.ring[i].turn = h.tid THEN [h.ring[i] EXCEPT !.status = "tts_failed"] ELSE h.ring[i]]
NoteTtsFailure ==
  /\ h' = [h EXCEPT !.ttsFailed = TRUE, !.ring = IF Upgradable THEN Upgraded ELSE @]
  /\ outcome' = IF Upgradable THEN [outcome EXCEPT ![h.tid] = "tts_failed"] ELSE outcome

(* ---- the capture thread ------------------------------------------------ *)
NoTurn == [subs |-> TRUE, pc |-> "loop", turn |-> 0, foll |-> FALSE, chan |-> "none",
           pending |-> 0, kind |-> "tell", dispatch |-> 0, follow |-> FALSE, asked |-> 0,
           turns |-> 0, wakes |-> 0]

Polling == p.pc = "loop" /\ p.subs
Fails == faults > 0 /\ faults' = faults - 1
Fresh == p.turns + 1

Subscribes ==
  /\ p.pc = "loop" /\ ~p.subs /\ p' = [p EXCEPT !.subs = TRUE]
  /\ UNCHANGED <<stt, historyVars, faults>>
WakedRestarts ==
  /\ Polling /\ Fails /\ p' = [p EXCEPT !.subs = FALSE] /\ UNCHANGED <<stt, historyVars>>

(* start_recognition notifies the agent, then connects to sttd. *)
Starts(t, foll) ==
  /\ p' = [p EXCEPT !.pc = "begin", !.turn = t, !.foll = foll, !.chan = "none", !.turns = t,
                    !.follow = @ /\ ~foll, !.wakes = IF foll THEN @ ELSE @ + 1]
  /\ TurnBegins(t) /\ UNCHANGED outcome

InFlight == p.dispatch # 0 \/ p.pending # 0 \/ p.turn # 0
WakeHeard ==
  /\ Polling /\ p.wakes < setup.wakes /\ Fresh \in Turns
  /\ IF InFlight
       THEN /\ p' = [p EXCEPT !.turns = Fresh, !.wakes = @ + 1]
            /\ Outcome(Fresh, "cancelled") /\ born' = [born EXCEPT ![Fresh] = h.gen]
       ELSE Starts(Fresh, FALSE)
  /\ UNCHANGED <<stt, faults>>
FollowsUp ==
  /\ Polling /\ p.turn = 0 /\ p.follow /\ p.dispatch = 0 /\ p.pending = 0 /\ Fresh \in Turns
  /\ Starts(Fresh, TRUE) /\ UNCHANGED <<stt, faults>>

(* subscribe has no timeout: it waits until sttd comes back to accept.     *)
SttAccepts ==
  /\ p.pc = "begin" /\ stt = 0
  /\ stt' = p.turn /\ p' = [p EXCEPT !.pc = "loop"]
  /\ UNCHANGED <<historyVars, faults>>
Closed == [p EXCEPT !.turn = 0, !.chan = "none", !.pc = "loop"]
SttRefuses ==
  /\ p.pc = "begin" /\ Fails /\ p' = Closed /\ Outcome(p.turn, "stt_failed")
  /\ UNCHANGED <<stt, born>>

(* sttd's answer: a transcript, an empty one, or a closed connection; what  *)
(* it sends to a connection the pipeline has left goes nowhere.             *)
SttEnds ==
  /\ stt # 0
  /\ \E out \in setup.kinds \cup {"empty", "eof"} :
       p' = [p EXCEPT !.chan = IF stt = p.turn /\ p.pc = "loop" THEN out ELSE @]
  /\ stt' = 0 /\ UNCHANGED <<historyVars, faults>>

QueueTranscript ==
  IF p.pending = 0 /\ p.dispatch = 0
    THEN p' = [Closed EXCEPT !.pending = p.turn, !.kind = p.chan] /\ UNCHANGED <<h, outcome>>
    ELSE p' = Closed /\ Outcome(p.turn, "cancelled")
ReadsLine ==
  /\ Polling /\ p.turn # 0 /\ p.chan # "none"
  /\ IF p.chan \in Kinds THEN QueueTranscript ELSE p' = Closed /\ Outcome(p.turn, "stt_failed")
  /\ UNCHANGED <<stt, born, faults>>
BugTimesOut ==
  /\ Polling /\ p.turn # 0 /\ p' = Closed /\ UNCHANGED <<h, outcome>>
  /\ UNCHANGED <<stt, born, faults>>
TimesOut ==
  /\ Polling /\ p.turn # 0
  /\ p' = Closed /\ Outcome(p.turn, "timed_out")
  /\ UNCHANGED <<stt, born, faults>>

RequestFollowUp(t) ==
  IF p.follow THEN p' = p ELSE p' = [p EXCEPT !.follow = TRUE, !.asked = t]

Capture == Subscribes \/ SttAccepts \/ ReadsLine \/ FollowsUp

-----------------------------------------------------------------------------
(***************************************************************************)
(* agentd's latency log and its file: write_history_file writes a temporary *)
(* file, moves the old log to .bak and the new one into place, then syncs   *)
(* the directory; a crash or a power cut may come between any two.          *)
(***************************************************************************)
VARIABLES
  log,     \* the turns in memory and the next turn's number
  disk,    \* what the directory shows: main and bak
  trail,   \* what it may show after a power cut: its states since the last sync
  save,    \* the save in progress
  gone     \* the turns an acknowledged clear promised to forget

logVars == <<log, disk, trail, save, gone>>
Absent == {0}
NoSave == [pc |-> "none", recs |-> {}, clear |-> FALSE]
LogTurns == 1..3

LogInit ==
  /\ log = [recs |-> {}, next |-> 1]
  /\ disk = [main |-> Absent, bak |-> Absent] /\ trail = {disk}
  /\ save = NoSave /\ gone = {}

Saves(recs, clear) ==
  /\ save = NoSave /\ save' = [pc |-> "written", recs |-> recs, clear |-> clear]
  /\ UNCHANGED <<disk, trail, gone>>
(* A turn is appended in memory first and stays there if the save fails.   *)
LogsTurn ==
  /\ log.next \in LogTurns
  /\ log' = [recs |-> log.recs \cup {log.next}, next |-> log.next + 1]
  /\ Saves(log'.recs, FALSE)
AsksClear == Saves({}, TRUE) /\ UNCHANGED log

Shows(d) == disk' = d /\ trail' = trail \cup {d}
MovesAside ==
  /\ save.pc = "written"
  /\ Shows(IF disk.main = Absent THEN disk ELSE [main |-> Absent, bak |-> disk.main])
  /\ save' = [save EXCEPT !.pc = "aside"] /\ UNCHANGED <<log, gone>>
MovesIn ==
  /\ save.pc = "aside" /\ Shows([disk EXCEPT !.main = save.recs])
  /\ save' = [save EXCEPT !.pc = "moved"] /\ UNCHANGED <<log, gone>>
(* The new file did not move in: the old one is moved back. *)
MovesBack ==
  /\ save.pc = "aside" /\ Shows(IF disk.bak = Absent THEN disk ELSE [main |-> disk.bak, bak |-> Absent])
  /\ save' = NoSave /\ UNCHANGED <<log, gone>>
(* Only now does memory follow a clear, and the clear is acknowledged.      *)
Synced ==
  /\ save.pc = "moved" /\ trail' = {disk} /\ save' = NoSave
  /\ IF save.clear THEN log' = [log EXCEPT !.recs = {}] /\ gone' = 1..(log.next - 1)
                   ELSE UNCHANGED <<log, gone>>
  /\ UNCHANGED disk
SaveFails == save.pc \in {"written", "moved"} /\ save' = NoSave /\ UNCHANGED <<log, disk, trail, gone>>

Loaded(d) == IF d.main # Absent THEN d.main ELSE IF d.bak # Absent THEN d.bak ELSE {}
Restarts ==
  /\ \E d \in trail : disk' = d /\ log' = [log EXCEPT !.recs = Loaded(d)]
  /\ trail' = {disk'} /\ save' = NoSave /\ UNCHANGED gone

LogNext == LogsTurn \/ AsksClear \/ MovesAside \/ MovesIn \/ MovesBack \/ Synced
           \/ SaveFails \/ Restarts

LogStaysCleared == log.recs \cap gone = {}

-----------------------------------------------------------------------------
(***************************************************************************)
(* From a reply to the speaker: the playback queue and its worker           *)
(* (voice_playback.c), play_sentence_internal in agentd.c, and ttsd, which  *)
(* speaks one sentence at a time in a child that the next speak or a        *)
(* stop_speech kills.                                                       *)
(***************************************************************************)
CONSTANT QueueLimit

VARIABLES
  pb,    \* queue, cancelled, failed, w (the worker's place), item
  tts    \* what ttsd's child is speaking: whose, and whether it came from the queue

Silent == [turn |-> 0, queued |-> FALSE]
ApiTurn == MaxTurns + 1      \* speech that belongs to no turn
Quiet == [queue |-> <<>>, cancelled |-> FALSE, failed |-> FALSE, w |-> "idle", item |-> 0]

Pending == pb.w # "idle" \/ pb.queue # <<>>

Enqueued(t) == [pb EXCEPT !.queue = Append(@, t)]
MayEnqueue == ~pb.cancelled /\ Len(pb.queue) < QueueLimit
BeginTurn == [pb EXCEPT !.failed = FALSE, !.cancelled = FALSE]
Cancelled == [pb EXCEPT !.cancelled = TRUE, !.queue = <<>>]

SpeechVars == <<pb, tts>>
Done(failed) ==
  pb' = [pb EXCEPT !.w = "idle", !.item = 0, !.failed = @ \/ (failed /\ ~pb.cancelled)]

Dequeues ==
  /\ pb.w = "idle" /\ pb.queue # <<>>
  /\ pb' = [pb EXCEPT !.w = "check", !.item = Head(pb.queue), !.queue = Tail(@)]
  /\ UNCHANGED <<tts, h, outcome, faults>>
ChecksCancelled ==
  /\ pb.w = "check"
  /\ IF pb.cancelled THEN Done(FALSE) ELSE pb' = [pb EXCEPT !.w = "speak"]
  /\ UNCHANGED <<tts, h, outcome, faults>>
Speaks ==
  /\ pb.w = "speak"
  /\ tts' = [turn |-> pb.item, queued |-> TRUE] /\ pb' = [pb EXCEPT !.w = "poll"]
  /\ UNCHANGED <<h, outcome, faults>>
SpeakFails ==
  /\ pb.w = "speak" /\ Fails /\ NoteTtsFailure /\ Done(TRUE) /\ UNCHANGED tts
(* A reply cancelled while its sentence was being accepted is stopped.     *)
BugStopsCancelled ==
  pb.w = "poll" /\ pb.cancelled /\ Done(FALSE) /\ UNCHANGED <<tts, h, outcome, faults>>
StopsCancelled ==
  /\ pb.w = "poll" /\ pb.cancelled /\ tts' = Silent /\ Done(FALSE)
  /\ UNCHANGED <<h, outcome, faults>>
SeesIdle ==
  /\ pb.w = "poll" /\ ~pb.cancelled /\ tts = Silent /\ Done(FALSE)
  /\ UNCHANGED <<tts, h, outcome, faults>>
(* ttsd still speaks, or does not answer, after 600 looks.                 *)
GivesUp ==
  /\ pb.w = "poll" /\ ~pb.cancelled /\ tts # Silent /\ NoteTtsFailure /\ Done(TRUE)
  /\ UNCHANGED <<tts, faults>>
Worker == Dequeues \/ ChecksCancelled \/ Speaks \/ SpeakFails \/ StopsCancelled
          \/ SeesIdle \/ GivesUp

SpeechEnds ==
  tts # Silent /\ tts' = Silent /\ UNCHANGED <<pb, h, outcome, faults>>

-----------------------------------------------------------------------------
(***************************************************************************)
(* ttsd speaking while it synthesises (synthesize_and_stream): the phrases  *)
(* go through a queue to a writer thread, which fills a pause between two   *)
(* of them with silence, up to a limit, and may lose the bus at any write.  *)
(***************************************************************************)
CONSTANTS Phrases, GapLimit

VARIABLE s   \* made (phrases synthesised), queued, written, closed, failed, gaps, pc of the
             \* producer, whether the writer is done, and the result

streamVars == s
StreamInit ==
  s = [made |-> 0, queued |-> 0, written |-> 0, closed |-> FALSE, failed |-> FALSE, gaps |-> 0,
       pc |-> "make", done |-> FALSE, result |-> 1]

Makes ==
  /\ s.pc = "make" /\ s.made < Phrases
  /\ \/ s.failed /\ s' = [s EXCEPT !.pc = "close"]
     \/ ~s.failed /\ s' = [s EXCEPT !.made = @ + 1, !.pc = "push"]
     \/ ~s.failed /\ s' = [s EXCEPT !.pc = "close"]       \* synthesis failed
Pushes ==
  /\ s.pc = "push"
  /\ s' = IF s.failed THEN [s EXCEPT !.pc = "close"]
          ELSE [s EXCEPT !.queued = @ + 1, !.pc = "make"]
Closes ==
  /\ s.pc = "close" \/ (s.pc = "make" /\ s.made = Phrases)
  /\ s' = [s EXCEPT !.closed = TRUE, !.pc = "join",
                    !.result = IF s.pc = "make" /\ ~s.failed THEN 0 ELSE 1]
Joins ==
  /\ s.pc = "join" /\ s.done
  /\ s' = [s EXCEPT !.pc = "end", !.result = IF s.failed THEN 1 ELSE @]

Writes ==
  /\ ~s.done /\ s.queued > 0
  /\ \/ s' = [s EXCEPT !.queued = @ - 1, !.written = @ + 1, !.gaps = 0]
     \/ s' = [s EXCEPT !.queued = @ - 1, !.failed = TRUE, !.done = TRUE]  \* the bus is gone
Pauses ==
  /\ ~s.done /\ s.queued = 0 /\ s.written > 0 /\ ~s.closed /\ ~s.failed
  /\ s' = IF s.gaps >= GapLimit THEN [s EXCEPT !.failed = TRUE, !.done = TRUE]
          ELSE [s EXCEPT !.gaps = @ + 1]
WriterEnds ==
  /\ ~s.done /\ s.queued = 0 /\ (s.closed \/ s.failed) /\ s' = [s EXCEPT !.done = TRUE]

StreamNext == Makes \/ Pushes \/ Closes \/ Joins \/ Writes \/ Pauses \/ WriterEnds

(* Speech reported as spoken was written to the bus to its last phrase.     *)
StreamTruthful == (s.pc = "end" /\ s.result = 0) => s.written = Phrases
=============================================================================
