------------------------------ MODULE RingLight ------------------------------
(* ledd: the layers of the ring, the cues and who owns them, the persistent *)
(* mute underlay, the sleep light and its owed save, and the paced writes   *)
(* to the hardware.  A frame is named by what it shows; due is the set of   *)
(* deadlines that have passed, ok whether the state file can be written.    *)
EXTENDS Naturals, FiniteSets

CONSTANT Names                \* colours, modes, kinds of cue and owners that requests carry
None == "none"
NoCue == [kind |-> None, owner |-> None]
Mute == "mute"
Anyone == ""                  \* a cue or a stop without an owner

VARIABLES
  r,        \* the daemon context
  disk,     \* led-state.json
  hw,       \* the frame on the hardware
  wanted,   \* history: owners who started a cue and have not ended it
  chosen,   \* history: the colour last asked for
  blurred   \* history: a colour was asked for while the test pattern ran
ringVars == <<r, disk, hw, wanted, chosen, blurred>>

(* The renderers: a frame is the layer that drew it and what it shows.      *)
Picture(layer, of) == [layer |-> layer, of |-> of]
StartupFrame == Picture("startup", None)
TestFrame == Picture("test", None)
MeterFrame == Picture("meter", None)
MusicFrame == Picture("music", None)
SleepFrame == Picture("sleep", None)
Breathing(c) == Picture("breathing", c)
CueFrame(o) == Picture("cue", o)

Draw(x, f) == [x EXCEPT !.frame = f, !.pending = TRUE]

----------------------------------------------------------------------------
(* The resting ring, and the layers of which it is the lowest. *)
Base(x) == IF x.lit THEN SleepFrame
           ELSE IF x.asleep THEN Picture("rest", "off")
           ELSE Picture("rest", IF x.idle = "always" THEN x.cur ELSE x.idle)
Pulses(x) == x.lit /\ x.sleep = "pulse"
BaseVisible(x) ==
  ~x.vis /\ ~x.anim /\ x.cue = NoCue /\ ~x.test /\ ~x.meter /\ ~x.startup
Layer(x) == IF x.vis THEN MusicFrame ELSE IF x.anim THEN Breathing(x.cur) ELSE Base(x)
ExpireVisualizer(x, due) == [x EXCEPT !.vis = @ /\ "music" \notin due]

Saved(x) == [cur |-> x.cur, idle |-> x.idle, sleep |-> x.sleep, timed |-> x.timed]

(* A step of the context together with the state file. *)
With(x, d) == [x |-> x, disk |-> d]
Persist(x, d, ok) == With(x, IF ok THEN Saved(x) ELSE d)

(* sleep_tick: first the save an earlier expiry still owes, then the expiry *)
(* of a timed light, which turns it off for good and redraws.               *)
Owes(x, d, due, ok) ==
  IF x.owed /\ "owed" \in due THEN Persist([x EXCEPT !.owed = ~ok], d, ok) ELSE With(x, d)
SleepTick(x, d, due, ok) ==
  LET p == Owes(x, d, due, ok)
      off == ExpireVisualizer([p.x EXCEPT !.lit = FALSE, !.sleep = "off", !.owed = ~ok], due)
  IN IF p.x.lit /\ p.x.timed /\ "sleep" \in due
     THEN Persist(Draw(off, Layer(off)), p.disk, ok) ELSE p
IdleNoteActivity(x) ==
  LET w == [x EXCEPT !.asleep = FALSE]
  IN IF x.asleep /\ BaseVisible(x) THEN Draw(w, Base(w)) ELSE w
IdleAutoOffTick(x) ==
  LET s == [x EXCEPT !.asleep = TRUE]
  IN IF x.asleep \/ x.lit \/ x.idle = "off" THEN x
     ELSE IF BaseVisible(x) THEN Draw(s, Base(s)) ELSE s

----------------------------------------------------------------------------
(* Cues.  One slot remembers the cue that was interrupted; mute is an       *)
(* underlay of its own.                                                     *)
Restored(x) == [x EXCEPT !.cue = x.prev, !.prev = NoCue]
BugStopPattern(x, o) ==
  LET m == [x EXCEPT !.mute = @ /\ o \notin {Anyone, Mute}]
      done == [m EXCEPT !.cue = NoCue, !.prev = NoCue, !.cur = x.scol, !.anim = x.sanim]
  IN IF x.cue = NoCue THEN m
     ELSE IF o # Anyone /\ x.cue.owner # o THEN m
     ELSE IF o # Anyone /\ m.prev # NoCue THEN Restored(m)
     ELSE IF o # Anyone /\ m.mute THEN [m EXCEPT !.cue = [kind |-> "solid", owner |-> Mute]]
     ELSE Draw(done, Layer(done))
StopPattern(x, o) ==
  LET m == [x EXCEPT !.mute = @ /\ o \notin {Anyone, Mute}]
      done == [m EXCEPT !.cue = NoCue, !.prev = NoCue, !.cur = x.scol, !.anim = x.sanim]
  IN IF x.cue = NoCue THEN m
     ELSE IF o # Anyone /\ x.cue.owner # o
     THEN [m EXCEPT !.prev = IF @.owner = o THEN NoCue ELSE @]
     ELSE IF o # Anyone /\ m.prev # NoCue THEN Restored(m)
     ELSE IF o # Anyone /\ m.mute THEN [m EXCEPT !.cue = [kind |-> "solid", owner |-> Mute]]
     ELSE Draw(done, Layer(done))

StartPattern(x, k, o) ==
  LET m == [x EXCEPT !.mute = @ \/ o = Mute]
      new == [m EXCEPT !.cue = [kind |-> k, owner |-> o], !.anim = FALSE]
  IN IF o = Mute /\ x.cue # NoCue /\ x.cue.owner # Mute THEN m
     ELSE IF x.cue = NoCue
     THEN [new EXCEPT !.prev = NoCue, !.scol = x.cur, !.sanim = x.anim]
     ELSE IF o = Anyone \/ x.cue.owner # o THEN [new EXCEPT !.prev = x.cue] ELSE new

(* update_pattern: a flash that has blinked its count gives way.            *)
Finished(x, due) == x.cue.kind = "flash" /\ "flash" \in due
UpdatePattern(x, due) ==
  IF ~Finished(x, due) THEN Draw(x, CueFrame(x.cue.owner))
  ELSE IF x.prev # NoCue THEN Draw(Restored(x), CueFrame(x.prev.owner))
  ELSE StopPattern(x, x.cue.owner)

(* update_animation: one frame, from the highest layer that is active.      *)
TestEnds(x) == [x EXCEPT !.test = FALSE, !.cur = x.tcol, !.anim = x.tanim]
StartupTurn(x, due) == LET s == [x EXCEPT !.startup = FALSE]
                       IN IF "ready" \in due THEN Draw(s, Base(s)) ELSE Draw(x, StartupFrame)
MeterExpires(x, due) == [x EXCEPT !.meter = @ /\ "meter" \notin due]
UpdateAnimation(x, was, due) ==
  IF was.meter /\ ~x.meter /\ ~x.test /\ x.cue = NoCue THEN Draw(x, Layer(x))
  ELSE IF x.test
  THEN LET e == TestEnds(x) IN IF "test" \in due THEN Draw(e, Layer(e)) ELSE Draw(x, TestFrame)
  ELSE IF x.cue # NoCue THEN UpdatePattern(x, due)
  ELSE IF x.meter THEN Draw(x, MeterFrame)
  ELSE IF x.vis \/ x.anim THEN Draw(x, Layer(x))
  ELSE IF was.vis \/ Pulses(x) THEN Draw(x, Base(x))
  ELSE x

----------------------------------------------------------------------------
(* output_flush: a frame already there is not written again; a write waits  *)
(* for its turn; one that fails is not repeated until something is drawn.   *)
Shown(x) == x.valid /\ hw = x.frame
Flush(x, write) ==
  \E writes \in {x.pending /\ ~Shown(x) /\ write # "paced"} :
  /\ write = "failed" => writes
  /\ r' = [x EXCEPT !.pending = @ /\ ~Shown(x) /\ ~writes,
                    !.valid = IF writes THEN write = "written" ELSE @]
  /\ hw' = IF writes /\ write = "written" THEN x.frame ELSE hw

(* poll's timeout: what makes the loop wake without a request.              *)
BugWakes(x) == ~BaseVisible(x) \/ Pulses(x) \/ (x.lit /\ x.timed) \/ x.pending
Wakes(x) == ~BaseVisible(x) \/ Pulses(x) \/ (x.lit /\ x.timed) \/ x.owed \/ x.pending

Loaded(d, restore, startup) ==
  [startup |-> startup, test |-> FALSE, tcol |-> d.cur, tanim |-> FALSE,
   cue |-> NoCue, prev |-> NoCue, scol |-> d.cur, sanim |-> FALSE, mute |-> FALSE,
   meter |-> FALSE, vis |-> FALSE, visible |-> TRUE, anim |-> FALSE, cur |-> d.cur, idle |-> d.idle,
   asleep |-> FALSE, sleep |-> d.sleep, timed |-> d.timed,
   lit |-> restore /\ d.sleep # "off", owed |-> FALSE, frame |-> Picture("rest", "off"), pending |-> TRUE, valid |-> FALSE]
Starts(d, restore, startup) ==
  LET x == Loaded(d, restore, startup)
  IN Draw(x, IF startup THEN StartupFrame ELSE Base(x))

(* Who still wants a cue when one has finished: an ownerless one without a  *)
(* predecessor takes everything with it.                                    *)
Outlives == IF r.prev.owner = r.cue.owner THEN wanted
            ELSE IF r.prev = NoCue /\ r.cue.owner = Anyone THEN {}
            ELSE wanted \ {r.cue.owner}
(* One turn of the main loop after a poll that timed out. *)
Animates(x) == ~BaseVisible(x) \/ Pulses(x)
Pass(due, ok, write) ==
  \E i \in {IF "idle" \in due THEN IdleAutoOffTick(r) ELSE r} :
  \E t \in {SleepTick(IF i.startup THEN StartupTurn(i, due) ELSE ExpireVisualizer(i, due),
                       disk, due, ok)} :
  \E m \in {MeterExpires(t.x, due)} :
     /\ Wakes(r) \/ "idle" \in due
     /\ Flush(IF i.startup \/ ~Animates(i) THEN t.x ELSE UpdateAnimation(m, i, due), write)
     /\ disk' = t.disk
     /\ wanted' = IF ~r.startup /\ ~r.test /\ Finished(r, due) THEN Outlives ELSE wanted
     /\ UNCHANGED <<chosen, blurred>>

----------------------------------------------------------------------------
(* handle_request, and the frame that follows in the same turn.             *)
Coloured(x, c, breathing) ==
  LET s == [StopPattern(x, Anyone) EXCEPT !.cur = c, !.anim = breathing]
  IN Draw(s, Layer(s))
Tested(x) ==
  LET s == StopPattern(x, Anyone)
  IN [s EXCEPT !.tcol = IF x.test THEN @ ELSE s.cur, !.tanim = IF x.test THEN @ ELSE s.anim,
               !.test = TRUE, !.anim = FALSE]
Metered(x) == LET m == [x EXCEPT !.meter = TRUE]
              IN IF x.test \/ x.cue # NoCue THEN m ELSE Draw(m, MeterFrame)
MeterStops(x) == LET m == [x EXCEPT !.meter = FALSE]
                 IN IF x.test \/ x.cue # NoCue THEN m ELSE Draw(m, Layer(m))
Played(x) == LET v == [x EXCEPT !.vis = TRUE]
             IN IF ~x.visible THEN x
                ELSE IF x.test \/ x.cue # NoCue THEN v ELSE Draw(v, MusicFrame)
StopVisualizer(x) == LET v == [x EXCEPT !.vis = FALSE]
                     IN IF ~x.vis \/ x.test \/ x.cue # NoCue THEN v ELSE Draw(v, Layer(v))
SleepLight(x, mode, timed) ==
  [x EXCEPT !.sleep = mode, !.timed = timed, !.lit = mode # "off"]
Redrawn(x) == IF BaseVisible(x) THEN Draw(x, Layer(x)) ELSE x

Commands == {"colour", "animate", "test", "night", "idle", "sleep", "meter", "unmeter",
             "frame", "unframe", "visualizer", "pattern", "stop"}
Answer(ask, ok) ==
  LET x == IF ask.cmd \in {"pattern", "stop", "meter", "unmeter"} THEN r ELSE IdleNoteActivity(r)
      a == ask.arg
      plain(y) == With(y, disk)
      kept(y) == IF ok THEN With(Redrawn(y), Saved(y)) ELSE plain(x)
  IN CASE ask.cmd = "colour" -> LET y == Coloured(x, a, FALSE) IN Persist(y, disk, ok)
       [] ask.cmd = "animate" -> LET y == Coloured(x, a, TRUE) IN Persist(y, disk, ok)
       [] ask.cmd = "test" -> plain(IF x.startup THEN Tested(x) ELSE Draw(Tested(x), TestFrame))
       [] ask.cmd = "meter" -> plain(Metered(IdleNoteActivity(x)))
       [] ask.cmd = "unmeter" -> plain(IF x.meter THEN MeterStops(IdleNoteActivity(x)) ELSE x)
       [] ask.cmd = "frame" -> plain(Played(x))
       [] ask.cmd = "unframe" -> plain(StopVisualizer(x))
       [] ask.cmd = "visualizer" -> LET y == [x EXCEPT !.visible = ~@]
                                     IN plain(IF y.visible THEN y ELSE StopVisualizer(y))
       [] ask.cmd = "idle" -> kept([x EXCEPT !.idle = a])
       [] ask.cmd = "sleep" -> kept(SleepLight(x, a, ask.kind = "timed"))
       [] ask.cmd = "night" -> Persist(Draw(x, Layer(x)), disk, ok)
       [] ask.cmd = "pattern" -> plain(UpdatePattern(StartPattern(IdleNoteActivity(x), ask.kind, a), {}))
       [] ask.cmd = "stop" -> LET y == StopPattern(x, a)
                               IN plain(IF y.cue.owner # x.cue.owner THEN IdleNoteActivity(y) ELSE y)

Serve(ask, ok, write) ==
  \E u \in {Answer(ask, ok)} :
  /\ Flush(u.x, write)
  /\ disk' = u.disk
  /\ wanted' = CASE ask.cmd = "pattern" -> wanted \union {ask.arg}
                 [] ask.cmd = "stop" /\ ask.arg # Anyone -> wanted \ {ask.arg}
                 [] ask.cmd \in {"colour", "animate", "test"}
                    \/ (ask.cmd = "stop" /\ ask.arg = Anyone) -> {}
                 [] OTHER -> wanted
  /\ chosen' = IF ask.cmd \in {"colour", "animate"} THEN ask.arg ELSE chosen
  /\ blurred' = (blurred \/ (ask.cmd \in {"colour", "animate"} /\ (r.test \/ ~ok)))

Reborn(restore, startup, write) ==
  /\ Flush(Starts(disk, restore, startup), write)
  /\ wanted' = {}
  /\ UNCHANGED <<disk, chosen, blurred>>

RingInit(d, startup) ==
  /\ disk = d /\ r = Starts(d, FALSE, startup)
  /\ hw = Picture("boot chase", None) /\ wanted = {} /\ chosen = d.cur /\ blurred = FALSE
=============================================================================
