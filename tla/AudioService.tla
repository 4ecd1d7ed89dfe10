---------------------------- MODULE AudioService ----------------------------
(***************************************************************************)
(* audiod and airplayd together.  To the shared level and the receiver's    *)
(* processes this module adds what audiod plays itself and the mixer it     *)
(* watches: the sleep generator on the media bus, cues and samples on the   *)
(* system bus, each written by a forked child; the codec's reference level, *)
(* which others overwrite; and the engine's levelling flag.  audiod serves  *)
(* one request at a time and blocks in waitpid while a generator it has     *)
(* stopped fades out.  A setup bounds what the environment does and says    *)
(* which parts besides the shared level are busy: the receiver's processes, *)
(* audiod's own sounds, or the mixer, none of which depends on another.     *)
(***************************************************************************)
EXTENDS AirplayReceiver, Sequences

CONSTANTS MaxPid,        \* children forked in a behaviour
          CueInterval    \* LE_CUE_MIN_INTERVAL_MS, in ticks

ASSUME SoundsAssumption == MaxPid \in Nat /\ CueInterval \in Nat \ {0}

VARIABLES
  procs,     \* the children: pid -> [kind, st]
  slot,      \* noise_pid, cue_pid, sample_pid
  blocked,   \* the pid stop_noise waits for, and whether a start follows
  now, cueAt,  \* the clock, and cue_started_ms
  mix,       \* the codec and what refresh_state made of it
  level      \* volume levelling: saved choice, RAM flag, memory

soundVars == <<procs, slot, blocked, now, cueAt, mix, level>>

Kinds == {"noise", "cue", "sample"}
NotBlocked == [pid |-> 0, restart |-> FALSE]

SoundsInit ==
  /\ procs = <<>>
  /\ slot = [k \in Kinds |-> 0]
  /\ blocked = NotBlocked
  /\ now = 0 /\ cueAt = -CueInterval
  /\ mix = [unity |-> TRUE, codec |-> TRUE, ready |-> TRUE]
  /\ level = [saved |-> FALSE, flag |-> FALSE, on |-> FALSE, check |-> TRUE]

Free == blocked = NotBlocked
Gone(p) == p # 0 => procs[p].st = "exited"
CanFork == Len(procs) < MaxPid
Forked(kind) == Append(procs, [kind |-> kind, st |-> "forked"])
(* start_noise forks only after stop_noise has reaped the one before. *)
BeginNoise ==
  /\ procs' = Forked("noise")
  /\ slot' = [slot EXCEPT !["noise"] = Len(procs) + 1]

(* SIGTERM: the generator's own handler asks for the fade; before it is     *)
(* installed the child still runs the daemon's, which only sets a flag the  *)
(* child never reads.                                                       *)
BugTerminated(p) == procs
Terminated(p) ==
  [procs EXCEPT ![p].st = IF @ = "playing" THEN "fading" ELSE @]

NoiseStart ==
  /\ Free /\ CanFork /\ mix.ready
  /\ IF Gone(slot["noise"])
     THEN BeginNoise /\ UNCHANGED blocked
     ELSE /\ procs' = Terminated(slot["noise"])
          /\ blocked' = [pid |-> slot["noise"], restart |-> TRUE]
          /\ UNCHANGED slot
  /\ UNCHANGED <<now, cueAt, mix, level>>

NoiseStop ==
  /\ Free
  /\ IF Gone(slot["noise"])
     THEN slot' = [slot EXCEPT !["noise"] = 0] /\ UNCHANGED <<procs, blocked>>
     ELSE /\ procs' = Terminated(slot["noise"])
          /\ blocked' = [pid |-> slot["noise"], restart |-> FALSE]
          /\ UNCHANGED slot
  /\ UNCHANGED <<now, cueAt, mix, level>>

(* waitpid returns: the old generator is silent. *)
NoiseReaped ==
  /\ ~Free /\ Gone(blocked.pid)
  /\ IF blocked.restart /\ CanFork
     THEN BeginNoise
     ELSE slot' = [slot EXCEPT !["noise"] = 0] /\ UNCHANGED procs
  /\ blocked' = NotBlocked
  /\ UNCHANGED <<now, cueAt, mix, level>>

(* cue_may_start without the writer slot. *)
BugCueMayStart == now - cueAt >= CueInterval
(* cue_may_start: the writer before it has exited, and long enough ago. *)
CueMayStart == Gone(slot["cue"]) /\ now - cueAt >= CueInterval
Cue ==
  /\ Free /\ CanFork /\ CueMayStart
  /\ procs' = Forked("cue")
  /\ slot' = [slot EXCEPT !["cue"] = Len(procs) + 1]
  /\ cueAt' = now
  /\ UNCHANGED <<blocked, now, mix, level>>

Sample ==
  /\ Free /\ CanFork /\ mix.ready /\ Gone(slot["sample"])
  /\ procs' = Forked("sample")
  /\ slot' = [slot EXCEPT !["sample"] = Len(procs) + 1]
  /\ UNCHANGED <<blocked, now, cueAt, mix, level>>

(* The loop's reaper forgets every child that has exited. *)
ReapChildren ==
  /\ Free
  /\ slot' = [k \in Kinds |-> IF Gone(slot[k]) THEN 0 ELSE slot[k]]
  /\ UNCHANGED <<procs, blocked, now, cueAt, mix, level>>

(* A child: its first instructions, then its sound until that is over, its *)
(* reader closes, its timer runs out or it has faded.                      *)
ChildBegins(p) ==
  /\ procs[p].st = "forked"
  /\ procs' = [procs EXCEPT ![p].st = "playing"]
  /\ UNCHANGED <<slot, blocked, now, cueAt, mix, level>>
ChildEnds(p) ==
  /\ procs[p].st \in {"playing", "fading"}
  /\ procs' = [procs EXCEPT ![p].st = "exited"]
  /\ UNCHANGED <<slot, blocked, now, cueAt, mix, level>>
Fades(p) == procs[p].st = "fading" /\ ChildEnds(p)

Tick ==
  /\ now < 2 * CueInterval
  /\ now' = now + 1 /\ level' = [level EXCEPT !.check = TRUE]
  /\ UNCHANGED <<procs, slot, blocked, cueAt, mix>>

(* refresh_state: the reference read back, and restored when another       *)
(* writer moved it; without it the output is reported unavailable.         *)
Answers == mix.codec
Reference == mix.unity \/ Answers
RefreshState ==
  /\ Free
  /\ mix' = [mix EXCEPT !.unity = Reference, !.ready = Answers]
  /\ UNCHANGED <<procs, slot, blocked, now, cueAt, level>>
(* The playback engine, or the codec itself: external. *)
MixerMoved ==
  /\ mix.unity
  /\ mix' = [mix EXCEPT !.unity = FALSE]
  /\ UNCHANGED <<procs, slot, blocked, now, cueAt, level>>
CodecToggles ==
  /\ mix' = [mix EXCEPT !.codec = ~@]
  /\ UNCHANGED <<procs, slot, blocked, now, cueAt, level>>

(* set_volume_leveling: save, then the engine's flag, then the memory that *)
(* the loop re-asserts; the flag may fail and may vanish with /run.        *)
SetLeveling(on) ==
  /\ Free
  /\ \/ level' = [level EXCEPT !.saved = on, !.flag = ~on, !.on = on]
     \/ level' = [level EXCEPT !.saved = on]
  /\ UNCHANGED <<procs, slot, blocked, now, cueAt, mix>>
FlagLost ==
  /\ level.flag
  /\ level' = [level EXCEPT !.flag = FALSE]
  /\ UNCHANGED <<procs, slot, blocked, now, cueAt, mix>>
ReconcileLeveling ==
  /\ Free /\ level.check
  /\ level' = [level EXCEPT !.check = FALSE, !.flag = ~level.on]
  /\ UNCHANGED <<procs, slot, blocked, now, cueAt, mix>>

PlayNext ==
  \/ NoiseReaped \/ ReapChildren \/ NoiseStart \/ NoiseStop \/ Cue \/ Sample \/ Tick
  \/ \E p \in DOMAIN procs : ChildBegins(p) \/ ChildEnds(p)
MixerNext ==
  \/ ReconcileLeveling \/ MixerMoved \/ CodecToggles \/ FlagLost \/ Tick \/ Sample
  \/ \E on \in BOOLEAN : SetLeveling(on)

Sounding(k) == {p \in DOMAIN procs : procs[p].kind = k /\ procs[p].st # "exited"}

(* Two generators never share the media bus, nor two cues or two samples    *)
(* the system bus, whatever order requests, exits and reaping come in       *)
(* (start_noise, cue_may_start, start_sample, reap_children).               *)
WritersExclusive == \A k \in Kinds : Cardinality(Sounding(k)) <= 1

(* A generator that was told to stop falls silent, and audiod, which waits  *)
(* for that, serves again: the fade is bounded (stop_noise).                *)
StopReturns == []<>Free

----------------------------------------------------------------------------
(* Levels are the adapter protocol's 0..100. *)
ASSUME AudioAssumption ==
  \A s \in Setups :
    /\ s.boot \in 0..100 /\ s.levels \subseteq 0..100 /\ s.sliders \subseteq Int
    /\ {s.sessions, s.callbacks, s.crashes, s.faults, s.presses} \subseteq Nat
    /\ {s.enabled, s.fifoFails, s.undoFails} \subseteq BOOLEAN

vars == <<setup, volumeVars, receiverVars, soundVars>>
Kept == UNCHANGED setup

Init == VolumeInit /\ ReceiverInit /\ SoundsInit

(* The receiver's processes are followed through one life of airplayd. *)
Level ==
  /\ VolumeNext /\ ("receiver" \in setup.parts => c'.up)
  /\ UNCHANGED <<receiverVars, soundVars>>
Receiver == "receiver" \in setup.parts /\ ReceiverNext /\ UNCHANGED soundVars
(* With prompt children no request overtakes one that has yet to install   *)
(* its signal handler.                                                     *)
Prompt ==
  setup.prompt => \A p \in DOMAIN procs : procs[p].st # "forked" \/ procs'[p] # procs[p]
                                          \/ UNCHANGED <<slot, blocked>>
Sounds ==
  /\ \/ "sounds" \in setup.parts /\ PlayNext /\ Prompt
     \/ "mixer" \in setup.parts /\ MixerNext
     \/ RefreshState
  /\ UNCHANGED <<volumeVars, receiverVars>>

Next == (Level \/ Receiver \/ Sounds) /\ Kept

Audiod == AudiodWorks /\ Kept /\ UNCHANGED <<receiverVars, soundVars>>
Airplayd == AirplaydWorks /\ Kept /\ UNCHANGED <<receiverVars, soundVars>>
InReceiver == Kept /\ UNCHANGED soundVars /\ "receiver" \in setup.parts
Waits == NoiseReaped /\ Kept /\ UNCHANGED <<volumeVars, receiverVars>>
Child(p) ==
  (ChildBegins(p) \/ Fades(p)) /\ Kept /\ UNCHANGED <<volumeVars, receiverVars>>

(* Each daemon's loop turns (airplayd's pass recurs however its requests to *)
(* audiod end), init restarts a daemon that died, and a child that was told *)
(* to fade does.                                                            *)
Fairness ==
  /\ WF_vars(Audiod)
  /\ WF_vars(Airplayd)
  /\ SF_vars(Pass /\ InReceiver)
  /\ WF_vars(EnableStep /\ InReceiver)
  /\ WF_vars(Waits /\ "sounds" \in setup.parts)
  /\ \A p \in 1..MaxPid : WF_vars(p \in DOMAIN procs /\ Child(p))

Spec == Init /\ [][Next]_vars /\ Fairness

----------------------------------------------------------------------------
(* The level is the owner's: kept when the last sender has gone, and the    *)
(* engine plays a sender only at a level it is acknowledged for, whatever   *)
(* dies, fails, is repeated or arrives late.                                *)
LevelHonest == OwnerLevelKept /\ AdmissionSound

(* Every process the two daemons started is one they can still stop, and    *)
(* none doubles another: one writer per bus, whatever order requests, exits *)
(* and reaping come in; no receiver child spawned over a live one; and no   *)
(* Sendspin player left talking to an engine that has been replaced         *)
(* (start_noise, cue_may_start, reap_children, set_enabled, sendspin_poll). *)
ChildrenAccounted == WritersExclusive /\ NoStrays /\ PlayerBound

(* Neither daemon stays stuck on a child: a stopped generator fades and     *)
(* audiod serves again (stop_noise), and a receiver that lost a child ends  *)
(* up whole or disabled (reap in airplayd's main).                          *)
ServiceReturns == StopReturns /\ ReceiverWhole
=============================================================================
