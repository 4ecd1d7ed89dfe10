--------------------------- MODULE LightAndButtons ---------------------------
(* The ring and the buttons together: buttond tells ledd what audiod and    *)
(* the kernel's privacy latch say, other clients ask ledd for the ring at   *)
(* the same time, ledd and audiod come and go.                              *)
EXTENDS RingLight, Integers

(* buttond: the keys, the kernel's privacy latch, the software mute kept by *)
(* audiod, the mute lamp, and what is sent to the ring.  One step per call  *)
(* to another daemon that the program waits for.                            *)
CONSTANT Volumes              \* 0 .. the highest step
Top == CHOOSE v \in Volumes : \A w \in Volumes : w <= v

VARIABLES
  b,      \* the context: muted and volume are cached, -1 unknown
  latch,  \* the kernel's privacy latch and its lamp control
  audio   \* audiod, as far as its socket tells
buttonVars == <<b, latch, audio>>

(* What the program does next: poll, or the rest of a heartbeat or press.   *)
Idle == b.pc = "poll" /\ b.send = "none"
At(p) == b.pc = p /\ b.send = "none"

RefreshAudio(x) ==
  [x EXCEPT !.muted = IF audio.up THEN audio.muted ELSE -1,
            !.volume = IF audio.up THEN audio.volume ELSE -1]

(* write_mute_lamp: only a refusal on purpose ends the probing; a missing   *)
(* control is tried again when the retry window has passed.                 *)
WriteMuteLamp(x) ==
  IF x.lamp = 0 /\ x.settled THEN x
  ELSE IF latch.control = "absent" THEN [x EXCEPT !.lamp = 0]
  ELSE IF latch.control = "works" THEN [x EXCEPT !.lamp = 1]
  ELSE IF latch.control = "busy" THEN x
  ELSE [x EXCEPT !.lamp = 0, !.settled = TRUE]
(* The lamp follows a write the kernel accepts. *)
Lamp(tried, m) == IF tried.lamp = 1 /\ latch.control = "works" THEN m ELSE latch.lit

(* mute_indicator: the lamp first, then the ring. *)
Indicate(x, m) ==
  LET t == WriteMuteLamp(x) IN
  /\ b' = [t EXCEPT !.send = IF m = 1 THEN "mute" ELSE "unmute"]
  /\ latch' = [latch EXCEPT !.lit = Lamp(t, m)]

(* set_software_mute, with the state to remember if audiod could be told.   *)
SetSoftwareMute(x, m, told) ==
  LET known == IF x.muted = -1 THEN RefreshAudio(x) ELSE x IN
  IF known.muted = -1 THEN b' = known /\ UNCHANGED <<latch, audio>>
  ELSE IF known.muted = m
  THEN b' = [known EXCEPT !.anchor = told] /\ UNCHANGED <<latch, audio>>
  ELSE IF ~audio.up THEN b' = known /\ UNCHANGED <<latch, audio>>
  ELSE /\ Indicate([known EXCEPT !.muted = m, !.anchor = told], m)
       /\ audio' = [audio EXCEPT !.muted = m]

(* sync_privacy_state: the first zero says nothing; afterwards a change in  *)
(* either direction counts, and an asserted latch is enforced while steady. *)
BugSync(x) ==
  LET seen == [x EXCEPT !.observed = latch.state] IN
  IF ~latch.readable
  THEN b' = [x EXCEPT !.observed = -1] /\ UNCHANGED <<latch, audio>>
  ELSE IF x.anchor = latch.state
  THEN b' = seen /\ UNCHANGED <<latch, audio>>
  ELSE SetSoftwareMute(seen, latch.state, latch.state)
SyncPrivacyState(x) ==
  LET seen == [x EXCEPT !.observed = latch.state] IN
  IF ~latch.readable
  THEN b' = [x EXCEPT !.observed = -1] /\ UNCHANGED <<latch, audio>>
  ELSE IF x.anchor = -1 \/ x.anchor = latch.state
  THEN IF latch.state = 1 /\ x.muted # 1
       THEN SetSoftwareMute([seen EXCEPT !.anchor = latch.state], 1, latch.state)
       ELSE b' = [seen EXCEPT !.anchor = latch.state] /\ UNCHANGED <<latch, audio>>
  ELSE SetSoftwareMute(seen, latch.state, latch.state)

----------------------------------------------------------------------------
(* The main loop: every poll looks at the latch, every heartbeat asks       *)
(* audiod, looks again and says to the ring what it knows.                  *)
Poll == Idle /\ SyncPrivacyState(b)
Beat == Idle /\ b' = [RefreshAudio(b) EXCEPT !.pc = "sync"] /\ UNCHANGED <<latch, audio>>
BeatSync == At("sync") /\ SyncPrivacyState([b EXCEPT !.pc = "show"])
BeatShow ==
  /\ At("show") /\ UNCHANGED audio
  /\ IF b.muted = -1 THEN b' = [b EXCEPT !.pc = "poll"] /\ UNCHANGED latch
     ELSE Indicate([b EXCEPT !.pc = "poll"], b.muted)

(* handle_key.  Each press first asks audiod. *)
Press(k) == /\ Idle
            /\ b' = [RefreshAudio(b) EXCEPT !.pc = k] /\ UNCHANGED <<latch, audio>>
ToggleMute(x) ==
  LET m == IF x.muted = 1 THEN 0 ELSE 1 IN
  IF x.muted = -1 THEN b' = x /\ UNCHANGED <<latch, audio>>
  ELSE IF ~audio.up THEN b' = [x EXCEPT !.muted = -1] /\ UNCHANGED <<latch, audio>>
  ELSE Indicate([x EXCEPT !.muted = m], m) /\ audio' = [audio EXCEPT !.muted = m]
MuteKey ==
  /\ At("mute")
  /\ LET x == [b EXCEPT !.pc = "poll"]
     IN IF latch.readable THEN SyncPrivacyState(x) ELSE ToggleMute(x)
AdjustVolume(x, way) ==
  LET known == IF x.volume = -1 THEN RefreshAudio(x) ELSE x
      v == known.volume + way
      to == IF v < 0 THEN 0 ELSE IF v > Top THEN Top ELSE v
  IN IF known.volume = -1 THEN b' = known /\ UNCHANGED audio
     ELSE IF ~audio.up THEN b' = [known EXCEPT !.volume = -1] /\ UNCHANGED audio
     ELSE /\ b' = [known EXCEPT !.volume = to, !.send = "meter"]
          /\ audio' = [audio EXCEPT !.volume = to]
Way(k) == IF k = "up" THEN 1 ELSE -1
VolumeKey(k) == /\ At(k) /\ UNCHANGED latch
                /\ AdjustVolume([b EXCEPT !.pc = "poll", !.held = k], Way(k))
Repeats == Idle /\ b.held # "none" /\ UNCHANGED latch /\ AdjustVolume(b, Way(b.held))
Releases == /\ b.held # "none" /\ Idle          \* or its input device goes away
            /\ b' = [b EXCEPT !.held = "none"] /\ UNCHANGED <<latch, audio>>
ActionKey == /\ At("action") /\ UNCHANGED latch
             /\ b' = [b EXCEPT !.pc = "poll", !.send = "action"]
             /\ audio' = IF audio.up THEN [audio EXCEPT !.noise = ~@] ELSE audio

ButtonsFresh ==
  [muted |-> -1, volume |-> -1, anchor |-> -1, observed |-> -1, lamp |-> -1,
   settled |-> FALSE, held |-> "none", pc |-> "poll", send |-> "none"]
ButtonsInit(readable, control) ==
  /\ b = ButtonsFresh
  /\ latch = [state |-> 0, readable |-> readable, control |-> control, lit |-> 0]
  /\ audio = [up |-> TRUE, muted |-> 0, volume |-> Top, noise |-> FALSE]

-----------------------------------------------------------------------------
CONSTANT Envs
VARIABLES
  env,
  ledUp,    \* ledd answers
  left      \* what may still happen: requests, faults, changes
(* A cue has a name (handle_request refuses one that has not).              *)
ASSUME LightAssumption ==
  \A s \in Envs :
    /\ {s.startup, s.restore} \subseteq BOOLEAN
    /\ s.disk \in [cur : Names, idle : Names, sleep : Names, timed : BOOLEAN]
    /\ \A ask \in s.asks :
         /\ ask.cmd \in Commands /\ {ask.kind, ask.arg} \subseteq Names
         /\ ask.cmd = "pattern" => ask.kind # None

lightVars == <<env, ledUp, left, ringVars, buttonVars>>
SameEnv == UNCHANGED env
Spend(k) == left[k] > 0 /\ left' = [left EXCEPT ![k] = @ - 1]
Free == UNCHANGED left

Deadlines == {"ready", "test", "flash", "meter", "music", "sleep", "owed", "idle"}

(* A turn of ledd's loop; the disk and the ring's bus fail a few times.     *)
Outcome(ok, write) == IF ~ok \/ write = "failed" THEN Spend("faults") ELSE Free
Turns(due, ok, write) ==
  /\ ledUp /\ Pass(due, ok, write) /\ Outcome(ok, write)
  /\ UNCHANGED <<ledUp, buttonVars>>

(* Another client: the page, the wake word, an announcement.                *)
Client(ask, ok, write) ==
  /\ ledUp /\ Serve(ask, ok, write)
  /\ IF ok /\ write # "failed" THEN Spend("asks")
     ELSE left.asks > 0 /\ left.faults > 0
          /\ left' = [left EXCEPT !.asks = @ - 1, !.faults = @ - 1]
  /\ UNCHANGED <<ledUp, buttonVars>>

(* What buttond sends reaches ledd if it is there; buttond waits for it.    *)
Sent == CASE b.send = "mute" -> [cmd |-> "pattern", kind |-> "solid", arg |-> Mute]
          [] b.send = "unmute" -> [cmd |-> "stop", kind |-> None, arg |-> Mute]
          [] b.send = "action" -> [cmd |-> "pattern", kind |-> "flash", arg |-> "action"]
          [] OTHER -> [cmd |-> "meter", kind |-> None, arg |-> None]
Delivers(write) ==
  /\ b.send # "none" /\ b' = [b EXCEPT !.send = "none"]
  /\ IF ledUp THEN Serve(Sent, TRUE, write) /\ Outcome(TRUE, write)
     ELSE write = "written" /\ UNCHANGED ringVars /\ Free
  /\ UNCHANGED <<ledUp, latch, audio>>

Buttoned(A) == env.buttons /\ A /\ UNCHANGED <<ledUp, ringVars>>

(* The world: the latch, the lamp control binding late, the page's mute,    *)
(* and the two daemons.                                                     *)
LatchFlips == Spend("flips") /\ latch' = [latch EXCEPT !.state = 1 - @] /\ UNCHANGED <<b, audio>>
ControlBinds == /\ latch.control \in {"absent", "busy"} /\ Free
                /\ latch' = [latch EXCEPT !.control = "works"] /\ UNCHANGED <<b, audio>>
ApiMutes == /\ audio.up /\ Spend("mutes")
            /\ audio' = [audio EXCEPT !.muted = 1 - @] /\ UNCHANGED <<b, latch>>
AudioGoes == Spend("outages") /\ audio.up /\ audio' = [audio EXCEPT !.up = FALSE]
             /\ UNCHANGED <<b, latch>>
AudioComes == ~audio.up /\ audio' = [audio EXCEPT !.up = TRUE] /\ Free /\ UNCHANGED <<b, latch>>
LedDies == /\ ledUp /\ Spend("crashes") /\ ledUp' = FALSE /\ UNCHANGED <<ringVars, buttonVars>>
LedStarts == /\ ~ledUp /\ ledUp' = TRUE /\ Free /\ UNCHANGED buttonVars
             /\ Reborn(env.restore, FALSE, "written")
Presses == Spend("presses") /\ \E k \in env.keys : Press(k)

LightInit ==
  /\ env \in Envs /\ left = env.left /\ ledUp = TRUE
  /\ RingInit(env.disk, env.startup)
  /\ ButtonsInit(env.readable, env.control)
Next ==
  /\ \/ \E due \in SUBSET env.deadlines, ok \in BOOLEAN, w \in {"written", "failed", "paced"} :
          Turns(due, ok, w)
     \/ \E ask \in env.asks, ok \in BOOLEAN, w \in {"written", "failed", "paced"} :
          Client(ask, ok, w)
     \/ \E w \in {"written", "failed", "paced"} : Delivers(w)
     \/ Buttoned(Presses)
     \/ Buttoned(Free /\ (Poll \/ Beat \/ BeatSync \/ BeatShow))
     \/ Buttoned(Free /\ (MuteKey \/ ActionKey \/ Releases \/ \E k \in {"up", "down"} : VolumeKey(k)))
     \/ Buttoned(Spend("repeats") /\ Repeats)
     \/ Buttoned(LatchFlips \/ ControlBinds \/ ApiMutes \/ AudioGoes \/ AudioComes)
     \/ LedDies \/ LedStarts
  /\ SameEnv

(* ledd's loop wakes by itself while a deadline is pending, and deadlines   *)
(* pass; buttond polls every 100 ms, beats every 5 s and finishes a key;    *)
(* ledd and audiod are restarted; the lamp's driver binds.                  *)
Fairness ==
  /\ WF_lightVars(env.settles /\ Turns(env.deadlines, TRUE, "written") /\ SameEnv)
  /\ WF_lightVars(Delivers("written") /\ SameEnv)
  /\ SF_lightVars(Buttoned(Free /\ Beat) /\ SameEnv)
  /\ WF_lightVars(Buttoned(Free /\ Poll) /\ SameEnv)
  /\ WF_lightVars(Buttoned(Free /\ (BeatSync \/ BeatShow)) /\ SameEnv)
  /\ WF_lightVars(Buttoned(Free /\ (MuteKey \/ ActionKey \/ \E k \in {"up", "down"} : VolumeKey(k))) /\ SameEnv)
  /\ WF_lightVars(Buttoned(Free /\ Releases) /\ SameEnv)
  /\ WF_lightVars(Buttoned(AudioComes \/ ControlBinds) /\ SameEnv)
  /\ WF_lightVars(LedStarts /\ SameEnv)
Spec == LightInit /\ [][Next]_lightVars /\ Fairness

----------------------------------------------------------------------------
(* A cue on the ring, or remembered under another, belongs to someone who   *)
(* started it and has not ended it; and when the test pattern is over the   *)
(* ring rests in the colour last asked for, which is also the saved one.    *)
(* Excused is a colour asked for during the test pattern, or not saved.     *)
RingTruthful ==
  /\ \A c \in {r.cue, r.prev} : c # NoCue => c.owner \in wanted
  /\ r.mute => Mute \in wanted
  /\ ~r.test /\ ~blurred => r.cur = chosen /\ disk.cur = chosen

(* A sleep light that has gone off, by its timer or by request, is off in   *)
(* the file as well before long, so that a restart does not light it again. *)
ExpiredLightForgotten ==
  (r.sleep = "off" /\ ledUp) ~> (disk.sleep = "off" \/ r.sleep # "off" \/ ~ledUp)

Higher == r.startup \/ r.test \/ r.cue.owner \notin {None, Mute}
Dropped == ~r.pending /\ hw # r.frame
Agrees(m) == audio.up /\ ledUp /\ audio.muted = m

(* While the privacy latch stays asserted and audiod answers, the           *)
(* microphone ends up muted, whatever the page does; the ring and the lamp  *)
(* end up saying what audiod says, unless a higher layer holds the ring or  *)
(* its last frame was lost in a failed write.                               *)
MuteFollowed ==
  env.buttons =>
    /\ <>[](latch.state = 1 /\ latch.readable /\ audio.up) => <>[](audio.muted = 1)
    /\ <>[](Agrees(1) /\ ~Higher) => <>[](hw = CueFrame(Mute))
    /\ <>[]Agrees(0) => <>[](hw # CueFrame(Mute) \/ Dropped)
    /\ <>[](audio.up /\ latch.control = "works") => <>[](latch.lit = audio.muted)
(* Without the exemption for a lost frame. *)
NewestFrameWritten == <>[]ledUp => []<>(hw = r.frame)
=============================================================================
