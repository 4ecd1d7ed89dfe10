----------------------------- MODULE WakeService -----------------------------
(* waked over the microphone: its main loop with the subscribers and the    *)
(* wake light, the inference thread, micd, and the init scripts and         *)
(* supervisor that bring the two daemons back, micd first.                  *)
EXTENDS Microphone, Integers, Sequences, FiniteSets

(* The inference thread of waked (wake_worker.c) and the calls waked's main *)
(* thread makes into it: blocks queued for scoring, the model replaced on   *)
(* request while the old one keeps serving, the three-score decoder.        *)
CONSTANTS
  QueueBlocks,   \* WAKE_QUEUE_BLOCKS
  Lockout        \* WAKE_LOCKOUT_SAMPLES, in blocks
VARIABLE k
(* pc      the thread: wait, load, retire, feed, done                       *)
(* engine  the model in use, spare the one being retired, alive the created *)
(* asker   the main thread: free, reload (in its timed wait), join          *)
(* answer  the last answer to set_word and the engine when it was asked     *)

Scores == 0..3     \* under the support line, over it, over a low and a high threshold
SupportLine == 1
None == 0
Silence == [at |-> 0, vad |-> FALSE, play |-> FALSE, score |-> 0]
EmptyDecoder == [window |-> <<Silence, Silence, Silence>>, count |-> 0, until |-> 0]
Started == [pc |-> "wait", engine |-> 1, made |-> 1, spare |-> None, alive |-> {1},
            queue |-> <<>>, block |-> Silence, dropped |-> 0, accept |-> 2,
            stopping |-> FALSE, failed |-> FALSE, requested |-> FALSE, cancelled |-> FALSE,
            result |-> FALSE, decoder |-> EmptyDecoder, pipe |-> <<>>, asker |-> "free",
            answer |-> [said |-> "none", before |-> 0]]

(* decode_score: the window is judged by its peak; one event per lockout.   *)
(* score_count bounds the frames looked at; the others are still silence.   *)
Support(win) == Cardinality({i \in 1..3 : win[i].score >= SupportLine})
Peak(win) == CHOOSE i \in 1..3 : /\ \A j \in 1..3 : win[j].score <= win[i].score
                                 /\ \A j \in 1..(i - 1) : win[j].score < win[i].score
Locked(decoder, peak) == peak.at < decoder.until
Accepted(decoder, win, peak) ==
  /\ ~Locked(decoder, peak) /\ peak.vad /\ peak.score >= k.accept
  /\ Support(win) >= (IF peak.play THEN 1 ELSE 2)
Decoded(block, score) ==
  LET old == k.decoder
      win == <<old.window[2], old.window[3], [block EXCEPT !.score = score]>>
      peak == win[Peak(win)]
      event == Accepted(old, win, peak)
  IN [decoder |-> [window |-> win, count |-> IF old.count < 3 THEN old.count + 1 ELSE 3,
                   until |-> IF event THEN peak.at + Lockout ELSE old.until],
      events |-> IF event THEN <<peak>> ELSE <<>>]

----------------------------------------------------------------------------
(* The thread.                                                              *)
NothingToFeed == k.queue = <<>> \/ k.failed
Woken == /\ k.pc = "wait" /\ (~NothingToFeed \/ k.stopping \/ k.requested)
         /\ k' = CASE k.requested -> [k EXCEPT !.pc = "load"]
                   [] ~k.requested /\ NothingToFeed -> [k EXCEPT !.pc = "done"]
                   [] OTHER -> [k EXCEPT !.pc = "feed", !.block = Head(k.queue),
                                         !.queue = Tail(k.queue)]
(* A load cannot be interrupted; it is published only if nobody gave up on  *)
(* it meanwhile, else the new engine is the one to retire.                  *)
BugPublished(ok) == ok /\ ~k.stopping
Published(ok) == ok /\ ~k.cancelled /\ ~k.stopping
Loads(ok) ==
  /\ k.pc = "load"
  /\ LET new == k.made + 1
         built == IF ok THEN [k EXCEPT !.made = new, !.alive = @ \union {new}] ELSE k
     IN k' = IF Published(ok)
             THEN [built EXCEPT !.pc = "retire", !.spare = k.engine, !.engine = new, !.queue = <<>>,
                                !.decoder = EmptyDecoder, !.failed = FALSE, !.result = TRUE]
             ELSE [built EXCEPT !.pc = "retire", !.spare = IF ok THEN new ELSE None,
                                !.result = FALSE]
Retires == /\ k.pc = "retire"
           /\ k' = [k EXCEPT !.alive = @ \ {k.spare}, !.spare = None, !.requested = FALSE,
                             !.pc = "wait"]
FeedFails == k.pc = "feed" /\ k' = [k EXCEPT !.failed = TRUE, !.pc = "wait"]
Feeds(score) == /\ k.pc = "feed"
                /\ LET d == Decoded(k.block, score)
                   IN k' = [k EXCEPT !.decoder = d.decoder, !.pipe = @ \o d.events, !.pc = "wait"]

----------------------------------------------------------------------------
(* The main thread: it submits every block, silence included, and blocks in *)
(* a reload for at most five seconds.                                       *)
Submitted(block) == IF Len(k.queue) = QueueBlocks THEN [k EXCEPT !.dropped = 1]
                    ELSE [k EXCEPT !.queue = Append(@, block)]
SetThreshold(t) == [k EXCEPT !.accept = t]
Answered(s, said) == [s EXCEPT !.asker = "free", !.answer.said = said]
Asks == IF k.stopping \/ k.requested
        THEN [k EXCEPT !.answer = [said |-> "no", before |-> k.engine]]
        ELSE [k EXCEPT !.requested = TRUE, !.cancelled = FALSE, !.result = FALSE, !.asker = "reload",
                       !.answer = [said |-> "none", before |-> k.engine]]
ReloadEnds == /\ k.asker = "reload" /\ ~k.requested
              /\ k' = Answered(k, IF k.result THEN "yes" ELSE "no")
(* Publication is irrevocable: a slow retirement is still a success.        *)
ReloadTimesOut == /\ k.asker = "reload" /\ k.requested
                  /\ k' = IF k.result THEN Answered(k, "yes")
                          ELSE Answered([k EXCEPT !.cancelled = TRUE], "no")
Stops == [k EXCEPT !.stopping = TRUE, !.asker = "join"]
Joined == /\ k.asker = "join" /\ k.pc = "done"
          /\ k' = [k EXCEPT !.asker = "gone", !.alive = @ \ {k.engine}]
Thread == Woken \/ Retires \/ \E ok \in BOOLEAN : Loads(ok)

-----------------------------------------------------------------------------
CONSTANTS Setups, Slots           \* Slots: MAX_WAKE_SUBSCRIBERS, MAX_AUDIO_SUBSCRIBERS
(* Worker numbers are never the number of no worker; what a setup lets the  *)
(* microphone deliver are frames, what it lets the model say, scores, and   *)
(* what it bounds are numbers of steps.                                     *)
ASSUME WakeAssumption ==
  /\ NoWorker \notin Workers /\ Lockout \in Nat
  /\ \A s \in Setups : /\ s.frames \subseteq [vad : BOOLEAN, play : BOOLEAN]
                       /\ s.scores \subseteq Scores
                       /\ s.left \in [DOMAIN s.left -> Nat] /\ "hops" \in DOMAIN s.left
VARIABLES
  setup,
  w,        \* waked: state, when to stop its light, samples seen, events published
  slots,    \* per kind of subscription, who holds each slot
  ring,     \* the wake pulse is on the ring
  sup,      \* the restart of the pair: where the script is
  left
wakeVars == <<w, slots, ring>>
vars == <<setup, k, micVars, wakeVars, sup, left>>
Kept == UNCHANGED setup
Spend(b) == left[b] > 0 /\ left' = [left EXCEPT ![b] = @ - 1]
Steady == UNCHANGED left

Vacant == "vacant"
Gone == "gone"                    \* a client that hung up and still has a slot
Kinds == DOMAIN Slots
NoSlots == [kind \in Kinds |-> [n \in 1..Slots[kind] |-> Vacant]]
BugReaped(s) == s
Reaped(s) == [kind \in Kinds |-> [n \in 1..Slots[kind] |-> IF s[kind][n] = Gone THEN Vacant ELSE s[kind][n]]]
Subscribed(client, kind) == \E n \in 1..Slots[kind] : slots[kind][n] = client
MainFree == w.state = "up" /\ k.asker = "free"
Listening == w.state = "up" /\ \E i \in Streams("waked") : work[i].capture = "runs"

----------------------------------------------------------------------------
(* The wake light: an own pulse is removed before the next; when a call to  *)
(* ledd fails nothing remembers to stop the pulse.                          *)
Expires(ok) == /\ MainFree /\ w.pulse /\ w' = [w EXCEPT !.pulse = FALSE]
               /\ ring' = IF ok THEN FALSE ELSE ring
               /\ UNCHANGED <<k, micVars, slots, sup>>
ShutDown == ring' = IF w.pulse THEN FALSE ELSE ring

(* One event: counted, shown, sent to every subscriber; a send to one that  *)
(* hung up frees its slot.                                                  *)
PublishEvent(ok) ==
  /\ MainFree /\ k.pipe # <<>>
  /\ k' = [k EXCEPT !.pipe = Tail(@)]
  /\ w' = [w EXCEPT !.pulse = ok, !.heard = Append(@, Head(k.pipe).at)]
  /\ ring' = IF ok THEN TRUE ELSE ring
  /\ slots' = [slots EXCEPT !.wake = Reaped(slots).wake]
  /\ UNCHANGED <<micVars, sup>>
TestWake(ok) ==
  /\ MainFree /\ w' = [w EXCEPT !.pulse = ok] /\ ring' = IF ok THEN TRUE ELSE ring
  /\ slots' = Reaped(slots)
  /\ UNCHANGED <<k, micVars, sup>>

(* A frame from the microphone: cleaned, judged, streamed, submitted.       *)
Hears(vad, play) ==
  /\ MainFree /\ Listening
  /\ w' = [w EXCEPT !.at = @ + 1]
  /\ k' = Submitted([at |-> w.at + 1, vad |-> vad, play |-> play, score |-> 0])
  /\ slots' = [slots EXCEPT !.audio = Reaped(slots).audio]
  /\ UNCHANGED <<ring, micVars, sup>>

(* Control requests, served after the slots of clients that hung up are     *)
(* freed.                                                                   *)
Settable(t) == t \in 2..3
SetSensitivity(t) == /\ MainFree /\ k' = IF Settable(t) THEN SetThreshold(t) ELSE k
                     /\ UNCHANGED <<micVars, wakeVars, sup>>
SetWord == MainFree /\ k' = Asks /\ UNCHANGED <<micVars, wakeVars, sup>>
Subscribe(client, kind) ==
  /\ MainFree
  /\ LET now == Reaped(slots)
         vacant == {n \in 1..Slots[kind] : now[kind][n] = Vacant}
     IN slots' = IF vacant = {} THEN now
                 ELSE [now EXCEPT ![kind][CHOOSE n \in vacant : \A o \in vacant : n <= o] = client]
  /\ UNCHANGED <<k, micVars, w, ring, sup>>
HangsUp(client) ==
  /\ \E kind \in Kinds : Subscribed(client, kind)
  /\ slots' = [kind \in Kinds |-> [n \in 1..Slots[kind] |->
                 IF slots[kind][n] = client THEN Gone ELSE slots[kind][n]]]
  /\ UNCHANGED <<k, micVars, w, ring, sup>>

----------------------------------------------------------------------------
(* Start, end.  waked asks for the stream once, and any refusal, or the end *)
(* of the stream, ends it.                                                  *)
Connects(refused, i) ==
  /\ w.state = "connects"
  /\ IF mic.state = "down" THEN w' = [w EXCEPT !.state = "down"] /\ UNCHANGED micVars
     ELSE /\ Serves("waked", "mono", refused, i)
          /\ w' = [w EXCEPT !.state = IF InUse \/ ~Configured(refused) THEN "down" ELSE "up"]
  /\ UNCHANGED <<k, slots, ring, sup>>
Fresh == [state |-> "connects", pulse |-> FALSE, at |-> 0, heard |-> <<>>]
Ended == [w EXCEPT !.state = "down", !.pulse = FALSE]
MicLost == /\ MainFree /\ Streams("waked") = {} /\ w' = Ended /\ ShutDown /\ slots' = NoSlots
           /\ UNCHANGED <<k, micVars, sup>>
WakedDies == /\ w.state = "up" /\ w' = Ended /\ work' = Leaves("waked") /\ slots' = NoSlots
             /\ UNCHANGED <<k, ring, mic, view, sup>>
(* SIGTERM: the light is put out, then the thread joined, then the rest.    *)
Quits == /\ MainFree /\ k' = Stops /\ ShutDown /\ w' = [w EXCEPT !.pulse = FALSE]
         /\ UNCHANGED <<micVars, slots, sup>>
Closes == /\ w.state = "up" /\ Joined /\ w' = Ended /\ work' = Leaves("waked") /\ slots' = NoSlots
          /\ UNCHANGED <<ring, mic, view, sup>>

----------------------------------------------------------------------------
(* The pair is restarted when either daemon is missing, or on request.      *)
To(pc) == sup' = pc
Notices == /\ sup = "watch" /\ (w.state = "down" \/ mic.state = "down") /\ To("term")
           /\ UNCHANGED <<k, micVars, wakeVars>>
Restart == sup = "watch" /\ To("term") /\ UNCHANGED <<k, micVars, wakeVars>>
Terminates == /\ sup = "term" /\ To("kill") /\ UNCHANGED <<k, wakeVars>>
              /\ IF mic.state = "up" THEN Term ELSE UNCHANGED micVars
(* The script waits 5 s before each kill: what has ended by itself is gone. *)
Hangs(i) == work[i].state = "relays" /\ ~RelayOver(i)
Patience == /\ sup = "kill" /\ mic.state = "stopping" /\ InUse /\ Hangs(mic.worker) /\ MainKilled
            /\ UNCHANGED <<k, wakeVars, sup>>
Sweeps(i) == /\ sup = "kill" /\ mic.state = "down" /\ Hangs(i) /\ KillWorker(i)
             /\ UNCHANGED <<k, wakeVars, sup>>
Starts(refused) == /\ sup = "kill" /\ mic.state = "down" /\ \A i \in Workers : work[i].state # "relays"
                 /\ MicStarts(refused) /\ To("wake") /\ UNCHANGED <<k, wakeVars>>
WakedStarts ==
  /\ sup = "wake" /\ To("watch") /\ w' = Fresh /\ k' = Started /\ ShutDown
  /\ work' = Leaves("waked") /\ slots' = NoSlots /\ UNCHANGED <<mic, view>>

Init == /\ setup \in Setups /\ left = setup.left /\ MicInit /\ k = Started
        /\ w = Fresh
        /\ slots = NoSlots /\ ring = FALSE /\ sup = "watch"

Alone(A) == A /\ UNCHANGED <<k, wakeVars, sup>>
Engine(A) == setup.engine /\ w.state # "down" /\ A /\ UNCHANGED <<micVars, wakeVars, sup>>
Led(ok) == IF ok THEN Steady ELSE Spend("led")
Mixer(refused) == IF refused = "none" THEN Steady ELSE Spend("mixer")
Next ==
  /\ \/ Engine(Steady /\ (Thread \/ ReloadEnds \/ \E s \in setup.scores : Feeds(s)))
     \/ Engine(Spend("faults") /\ (FeedFails \/ ReloadTimesOut))
     \/ \E f \in setup.frames : Spend("blocks") /\ Hears(f.vad, f.play)
     \/ \E ok \in BOOLEAN : Led(ok) /\ (Expires(ok) \/ PublishEvent(ok))
     \/ Spend("tests") /\ TestWake(TRUE)
     \/ \E t \in 1..3 : Spend("sets") /\ SetSensitivity(t)
     \/ Spend("words") /\ SetWord
     \/ \E kind \in Kinds : Steady /\ ~Subscribed("agent", kind) /\ setup.agent /\ Subscribe("agent", kind)
     \/ \E kind \in Kinds : Spend("others") /\ Subscribe("other", kind)
     \/ \E c \in {"agent", "other"} : Steady /\ HangsUp(c) /\ (c = "agent" => setup.restless)
     \/ \E r \in Refusals, i \in Workers : Mixer(r) /\ Connects(r, i)
     \/ Steady /\ MicLost
     \/ Spend("deaths") /\ WakedDies
     \/ Spend("quits") /\ Quits
     \/ Steady /\ Closes
     \/ Steady /\ setup.supervised /\ (Notices \/ Terminates \/ Patience \/ WakedStarts)
     \/ Spend("restarts") /\ Restart
     \/ \E i \in Workers : Steady /\ Sweeps(i)
     \/ \E r \in Refusals : Mixer(r) /\ Starts(r)
     \/ \E i \in Workers : Alone(Spend("raws") /\ Serves("raw", "raw", "none", i))
     \/ Alone(Spend("leaves") /\ work' = Leaves("raw") /\ UNCHANGED <<mic, view>>)
     \/ Alone(Steady /\ (Reaps \/ MainExits \/ \E i \in Workers : WorkerEnds(i)))
     \/ \E i \in Workers : Alone(Spend("breaks") /\ CaptureDies(i))
     \/ Alone(Spend("micdies") /\ MainKilled)
     \/ \E i \in Workers : Alone(Spend("kills") /\ mic.worker = i /\ KillWorker(i))
     \/ \E i \in Workers : Alone((IF view.step = 0 THEN Spend("hops") ELSE Steady) /\ Publishes(i, left.hops))
     \/ Alone(setup.beams /\ Steady /\ (Reads \/ GivesUp))
  /\ Kept

(* The threads and daemons run; the supervisor comes round every few        *)
(* seconds; a client that hangs on in a slot leaves in the end, and the     *)
(* agent asks again whenever it is not subscribed.                          *)
Fairness ==
  /\ WF_vars(setup.settles /\ Steady /\ MicLost /\ Kept)
  /\ \A i \in Workers : WF_vars(setup.settles /\ Alone(Steady /\ WorkerEnds(i)) /\ Kept)
  /\ WF_vars(setup.settles /\ Alone(Steady /\ (Reaps \/ MainExits)) /\ Kept)
  /\ WF_vars(setup.settles /\ Steady /\ Connects("none", CHOOSE i \in Workers : Free(i) \/ \A j \in Workers : ~Free(j)) /\ Kept)
  /\ WF_vars(setup.settles /\ Steady /\ (Notices \/ Terminates \/ Patience \/ WakedStarts) /\ Kept)
  /\ WF_vars(setup.settles /\ Steady /\ (Starts("none") \/ \E i \in Workers : Sweeps(i)) /\ Kept)
  /\ WF_vars(setup.settles /\ Steady /\ Expires(TRUE) /\ Kept)
  /\ WF_vars(setup.settles /\ Steady /\ HangsUp("other") /\ Kept)
  /\ SF_vars(setup.settles /\ Steady /\ ~Subscribed("agent", "wake") /\ Subscribe("agent", "wake") /\ Kept)
Spec == Init /\ [][Next]_vars /\ Fairness

----------------------------------------------------------------------------
(* An accepted set_word means a model loaded since it was asked for is in   *)
(* use; a refused one that the model in use then stays, even if the load    *)
(* ends later.  Every model but the one in use and the one being retired is *)
(* destroyed, a failed one is fed nothing, and one word is one event.       *)
WorkerTruthful ==
  /\ k.answer.said = "yes" => k.engine > k.answer.before
  /\ k.answer.said = "no" => k.engine = k.answer.before
  /\ k.asker # "gone" => k.alive = {k.engine} \union ({k.spare} \ {None})
  /\ k.pc = "feed" => ~k.failed
  /\ k.made = 1 => \A i, j \in 1..Len(w.heard) : i < j => w.heard[j] - w.heard[i] >= Lockout

(* At most one program has the codec, micd calls it in use exactly while it *)
(* has a worker to wait for, and the beams it reports come from one hop of  *)
(* a stream that was running when they were read.                           *)
CaptureTruthful ==
  /\ Cardinality({i \in Workers : work[i].capture # "none"}) <= 1
  /\ \A i \in Workers : work[i].state = "zombie" => mic.worker = i
  /\ InUse => work[mic.worker].state \in {"relays", "zombie"}
  /\ view.told.running => view.told.lo = view.told.hi
  /\ mic.state = "up" /\ ~InUse => view.step = 0 /\ view.seq % 2 = 0 /\ ~view.running

(* The wake word comes back: after waked or its capture died, or another    *)
(* stream kept the microphone, waked listens again, the agent is subscribed *)
(* again however many clients hung up unnoticed, and the pulse ends.        *)
WakeReturns ==
  setup.settles => /\ []<>Listening
                   /\ []<>Subscribed("agent", "wake")
                   /\ []<>~ring
=============================================================================
