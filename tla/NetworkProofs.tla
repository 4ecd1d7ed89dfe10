---------------------------- MODULE NetworkProofs ----------------------------
(***************************************************************************)
(* What networkd promises its clients, the owner of its recovery access    *)
(* point and the supervisor it asks for a reboot, for every set of         *)
(* clients, every number of profiles and passwords, every failure          *)
(* threshold and, but for what Sheltered and Unmixed leave out, every      *)
(* setup.                                                                  *)
(***************************************************************************)
EXTENDS NetworkService, TLAPS, WellFoundedInduction

(***************************************************************************)
(* The ladder.  A phase is only reached over the rungs below it, and the   *)
(* history keeps them until the gateway answers.                           *)
(***************************************************************************)
Ladder == {"reassociate", "if_down", "if_up"}

Full(t) == "reassociate" \in t /\ "if_down" \in t /\ "if_up" \in t

Climbed(h, t) ==
    /\ h.phase = "reassociating" => "reassociate" \in t
    /\ h.phase = "down_wait" => "reassociate" \in t /\ "if_down" \in t
    /\ h.phase = "if_recovering" => Full(t)

\* What the ladder asks for, given the rungs tried.
Rung(o, t) ==
    /\ o.health \in Health /\ o.action \in Actions
    /\ Climbed(o.health, t \cup {o.action})
    /\ o.action = "reboot" => Full(t)

LadderInv ==
    /\ health \in Health /\ tried \subseteq Ladder
    /\ guard \in BOOLEAN /\ reboots \in {0, 1} /\ (guard \/ reboots = 0)
    /\ Climbed(health, tried)

Earned == reboots' > reboots =>
              reboots' = 1 /\ {"reassociate", "if_down", "if_up"} \subseteq tried

LEMMA EscalateRung ==
  ASSUME NEW h \in Health, NEW t, Climbed(h, t)
  PROVE  Rung(Escalate(h), t)
<1>1. CASE h.phase = "idle" /\ h.seen /\ h.failures >= FailureThreshold
  <2>1. Escalate(h) = Outcome([h EXCEPT !.phase = "reassociating"], "reassociate")
    BY <1>1 DEF Escalate
  <2> QED BY <2>1, <1>1 DEF Rung, Outcome, Climbed, Full, Ladder, Health, Phases, Actions
<1>2. CASE h.phase = "reassociating"
  <2>1. Escalate(h) = Outcome([h EXCEPT !.phase = "down_wait"], "if_down")
    BY <1>2 DEF Escalate
  <2> QED BY <2>1, <1>2 DEF Rung, Outcome, Climbed, Full, Ladder, Health, Phases, Actions
<1>3. CASE h.phase = "if_recovering"
  <2>1. Escalate(h) = Outcome([h EXCEPT !.phase = "reboot_pending"], "reboot")
    BY <1>3 DEF Escalate
  <2> QED BY <2>1, <1>3 DEF Rung, Outcome, Climbed, Full, Ladder, Health, Phases, Actions
<1>4. CASE /\ ~(h.phase = "idle" /\ h.seen /\ h.failures >= FailureThreshold)
           /\ h.phase # "reassociating" /\ h.phase # "if_recovering"
  <2>1. Escalate(h) = Outcome(h, "none")
    BY <1>4 DEF Escalate
  <2> QED BY <2>1, <1>4 DEF Rung, Outcome, Climbed, Full, Ladder, Actions
<1> QED BY <1>1, <1>2, <1>3, <1>4

LEMMA RecordRung ==
  ASSUME NEW h \in Health, NEW t, Climbed(h, t), NEW r \in ProbeResults
  PROVE  Rung(RecordProbe(h, r), t)
<1>0. 0 \in 0 .. FailureThreshold
  BY ThresholdAssumption
<1>1. CASE r = -1
  <2> DEFINE g == [h EXCEPT !.awaiting = FALSE, !.reachable = -1, !.failures = 0]
  <2>1. RecordProbe(h, r) = Outcome(g, "none")
    BY <1>1 DEF RecordProbe
  <2>2. g \in Health /\ g.phase = h.phase
    BY <1>0 DEF Health, ProbeResults
  <2> HIDE DEF g
  <2> QED BY <2>1, <2>2 DEF Rung, Outcome, Climbed, Full, Actions
<1>2. CASE r = 1
  <2> DEFINE g == [h EXCEPT !.awaiting = FALSE, !.reachable = 1, !.failures = 0,
                            !.seen = TRUE, !.phase = "idle"]
  <2>1. RecordProbe(h, r) = Outcome(g, "none")
    BY <1>2 DEF RecordProbe
  <2>2. g \in Health /\ g.phase = "idle"
    BY <1>0 DEF Health, ProbeResults, Phases
  <2> HIDE DEF g
  <2> QED BY <2>1, <2>2 DEF Rung, Outcome, Climbed, Full, Actions
<1>3. CASE r # -1 /\ r # 1
  <2>1. RecordProbe(h, r) = Escalate(CountFailure(h))
    BY <1>3 DEF RecordProbe
  <2>2. (IF h.failures < FailureThreshold THEN h.failures + 1 ELSE h.failures)
          \in 0 .. FailureThreshold
    BY ThresholdAssumption DEF Health
  <2>3. CountFailure(h) \in Health /\ CountFailure(h).phase = h.phase
    BY <2>2 DEF CountFailure, Health, ProbeResults
  <2>4. Climbed(CountFailure(h), t)
    BY <2>3 DEF Climbed
  <2> QED BY <2>1, <2>3, <2>4, EscalateRung
<1> QED BY <1>1, <1>2, <1>3

LEMMA TickRung ==
  ASSUME NEW h \in Health, NEW t, Climbed(h, t),
         NEW a \in BOOLEAN, NEW route \in BOOLEAN, NEW due \in BOOLEAN
  PROVE  Rung(HealthTick(h, a, route, due), t)
<1>1. CASE h.phase \in {"reboot_pending", "reboot_requested"}
  <2>1. HealthTick(h, a, route, due) = Outcome(h, "none")
    BY <1>1 DEF HealthTick
  <2> QED BY <2>1 DEF Rung, Outcome, Climbed, Full, Actions, Ladder
<1>2. CASE h.phase = "down_wait"
  <2>1. HealthTick(h, a, route, due) =
          IF due THEN Outcome([h EXCEPT !.phase = "if_recovering"], "if_up")
                 ELSE Outcome(h, "none")
    BY <1>2 DEF HealthTick
  <2> QED BY <2>1, <1>2 DEF Rung, Outcome, Climbed, Full, Actions, Ladder, Health, Phases
<1>3. CASE h.phase \in {"idle", "exhausted"} /\ ~a
  <2>1. HealthTick(h, a, route, due) = Outcome(FreshHealth, "none")
    BY <1>3 DEF HealthTick
  <2>2. FreshHealth \in Health /\ FreshHealth.phase = "idle"
    BY ThresholdAssumption DEF FreshHealth, Health, Phases, ProbeResults
  <2> QED BY <2>1, <2>2 DEF Rung, Outcome, Climbed, Full, Actions
<1>4. CASE /\ h.phase \notin {"reboot_pending", "reboot_requested", "down_wait"}
           /\ ~(h.phase \in {"idle", "exhausted"} /\ ~a)
  <2> DEFINE joined == a /\ ~h.associated
             h1 == IF joined THEN [h EXCEPT !.associated = TRUE] ELSE h
  <2>1. HealthTick(h, a, route, due) = TickProbe(h, a, route, due)
    BY <1>4 DEF HealthTick
  <2>2. h1 \in Health /\ h1.phase = h.phase
    BY DEF Health
  <2>3. Climbed(h1, t)
    BY <2>2 DEF Climbed
  <2>4. CASE h1.awaiting \/ ~(due \/ joined)
    <3>1. TickProbe(h, a, route, due) = Outcome(h1, "none")
      BY <2>4 DEF TickProbe
    <3> QED BY <2>1, <3>1, <2>2, <2>3 DEF Rung, Outcome, Climbed, Full, Actions, Ladder
  <2>5. CASE ~(h1.awaiting \/ ~(due \/ joined)) /\ route
    <3> DEFINE g == [h1 EXCEPT !.awaiting = TRUE]
    <3>1. TickProbe(h, a, route, due) = Outcome(g, "probe")
      BY <2>5 DEF TickProbe
    <3> HIDE DEF h1
    <3>2. g \in Health /\ g.phase = h1.phase
      BY <2>2 DEF Health
    <3> HIDE DEF g
    <3> QED BY <2>1, <3>1, <3>2, <2>3 DEF Rung, Outcome, Climbed, Full, Actions
  <2>6. CASE ~(h1.awaiting \/ ~(due \/ joined)) /\ ~route
    <3>1. TickProbe(h, a, route, due) = RecordProbe(h1, IF h1.seen THEN 0 ELSE -1)
      BY <2>6 DEF TickProbe
    <3>2. (IF h1.seen THEN 0 ELSE -1) \in ProbeResults
      BY DEF ProbeResults
    <3> QED BY <2>1, <3>1, <3>2, <2>2, <2>3, RecordRung
  <2> QED BY <2>4, <2>5, <2>6
<1> QED BY <1>1, <1>2, <1>3, <1>4

LEMMA PerformEarned ==
  ASSUME LadderInv, NEW o, Rung(o, tried), PerformHealth(o)
  PROVE  LadderInv' /\ Earned
<1> DEFINE a == o.action
<1>1. PICK res \in RebootOutcomes :
        /\ RequestReboot(a, res)
        /\ health' = IF a = "reboot" THEN FinishReboot(o.health, reboots' > reboots)
                                     ELSE o.health
  BY DEF PerformHealth
<1>2. tried' = IF a \in {"reassociate", "if_down", "if_up"} THEN tried \cup {a}
               ELSE IF o.health.phase = "idle" THEN {} ELSE tried
  BY DEF PerformHealth
<1>3. /\ guard' \in BOOLEAN /\ reboots' \in {0, 1} /\ (guard' \/ reboots' = 0)
      /\ Earned
  <2>1. CASE a = "reboot" /\ ~guard /\ res = "ok"
    <3>1. reboots' = reboots + 1 /\ guard'
      BY <1>1, <2>1 DEF RequestReboot
    <3>2. reboots = 0
      BY <2>1 DEF LadderInv
    <3>3. guard' \in BOOLEAN
      BY <1>1 DEF RequestReboot, LadderInv
    <3>4. Full(tried)
      BY <2>1 DEF Rung
    <3> QED BY <3>1, <3>2, <3>3, <3>4 DEF Earned, Full
  <2>2. CASE ~(a = "reboot" /\ ~guard /\ res = "ok")
    <3>1. reboots' = reboots /\ guard' = (guard \/ FALSE)
      BY <1>1, <2>2 DEF RequestReboot
    <3> QED BY <3>1 DEF LadderInv, Earned
  <2> QED BY <2>1, <2>2
<1>4. health' \in Health
  BY <1>1 DEF FinishReboot, Rung, Health, Phases
<1>5. tried' \subseteq Ladder
  BY <1>2 DEF LadderInv, Ladder
<1>6. Climbed(health', tried')
  <2>1. Climbed(o.health, tried')
    BY <1>2 DEF Rung, Climbed, Full, Ladder, LadderInv
  <2>2. health' = o.health \/ health'.phase \in {"reboot_requested", "exhausted"}
    BY <1>1 DEF FinishReboot, Rung, Health
  <2> QED BY <2>1, <2>2 DEF Climbed
<1> QED BY <1>3, <1>4, <1>5, <1>6 DEF LadderInv, Climbed

(***************************************************************************)
(* The record of the access point.  Sound is its type with the bound on    *)
(* the retries; Honest is what RecoveryHonest says of it; Prompt and Quiet *)
(* are what holds without failing net-down helpers and without the         *)
(* automatic fallback.                                                     *)
(***************************************************************************)
Sound(r) == r \in Recovery /\ (r.pending => r.attempts < NetDownMax)

Owed(r) == r.radio = "ap" => r.net
Backed(r) == Serving(r) => r.kids /\ r.net /\ ~r.pending /\ r.radio = "ap"
Childless(r) == r.alive => Serving(r)
Lit(r) == r.led <=> r.mode = "active"
Willing(r) == r.mode \in {"armed", "starting", "active", "handover"} => r.enabled
Honest(r) == Owed(r) /\ Backed(r) /\ Childless(r) /\ Lit(r) /\ Willing(r)

Prompt(r) == r.net => Serving(r)
Quiet(r) == ~r.auto /\ ~r.counting
Radiating(m) == m \in {"armed", "starting", "active"}

\* What a step on the record keeps; down says that its net-down worked.
Keeps(r, s, down) ==
    /\ Sound(s)
    /\ Honest(r) => Honest(s)
    /\ Honest(r) /\ Prompt(r) /\ down => Prompt(s)
    /\ Quiet(r) => Quiet(s)

Aside(r, s) ==
    /\ s.mode = r.mode /\ s.trigger = r.trigger /\ (s.led <=> r.led)
    /\ (s.counting <=> r.counting) /\ (s.enabled <=> r.enabled)
    /\ (s.auto <=> r.auto) /\ (s.marker <=> r.marker)

LEMMA ReleaseIs ==
  ASSUME NEW r, Sound(r), NEW ok \in BOOLEAN
  PROVE  LET s == ReleaseNet(r, ok)
         IN  /\ Sound(s) /\ Aside(r, s)
             /\ (s.kids <=> r.kids) /\ (s.alive <=> r.alive)
             /\ (Owed(r) => Owed(s)) /\ (ok => ~s.net) /\ (s.net => r.net)
<1> DEFINE tries == (IF r.pending THEN r.attempts ELSE 0) + 1
<1>1. CASE ~r.net
  <2>1. ReleaseNet(r, ok) = r
    BY <1>1 DEF ReleaseNet
  <2> QED BY <1>1, <2>1 DEF Aside
<1>2. CASE r.net /\ ok
  <2> DEFINE s == [r EXCEPT !.net = FALSE, !.pending = FALSE, !.attempts = 0,
                            !.radio = "sta"]
  <2>1. ReleaseNet(r, ok) = s
    BY <1>2 DEF ReleaseNet
  <2>0. 0 \in 0 .. NetDownMax
    BY DEF NetDownMax
  <2>1a. s \in Recovery
    BY <2>0 DEF Sound, Recovery
  <2>2. s \in Recovery /\ ~s.pending /\ ~s.net /\ s.radio = "sta"
    BY <2>1a DEF Sound, Recovery
  <2>3. Aside(r, s) /\ (s.kids <=> r.kids) /\ (s.alive <=> r.alive)
    BY DEF Sound, Recovery, Aside
  <2> HIDE DEF s
  <2> QED BY <2>1, <2>2, <2>3, <1>2 DEF Sound, Owed
<1>3. CASE r.net /\ ~ok
  <2> DEFINE more == tries < NetDownMax
             s == [r EXCEPT !.attempts = tries, !.pending = more]
  <2>1. ReleaseNet(r, ok) = s
    BY <1>3 DEF ReleaseNet
  <2>a. more \in BOOLEAN /\ (more => tries < NetDownMax)
    OBVIOUS
  <2> HIDE DEF more
  <2>2. tries \in 0 .. NetDownMax
    BY DEF Sound, Recovery, NetDownMax
  <2> HIDE DEF tries
  <2>0. s \in Recovery
    BY <2>2, <2>a DEF Sound, Recovery
  <2>3. s \in Recovery /\ (s.pending => s.attempts < NetDownMax)
    BY <2>0, <2>a DEF Sound, Recovery
  <2>4. Aside(r, s) /\ (s.kids <=> r.kids) /\ (s.alive <=> r.alive) /\ (s.net <=> r.net)
        /\ s.radio = r.radio
    BY DEF Sound, Recovery, Aside
  <2> HIDE DEF s
  <2> QED BY <2>1, <2>3, <2>4, <1>3 DEF Sound, Owed
<1> QED BY <1>1, <1>2, <1>3

LEMMA TeardownIs ==
  ASSUME NEW r, Sound(r), NEW ok \in BOOLEAN
  PROVE  LET s == Teardown(r, ok)
         IN  /\ Sound(s) /\ Aside(r, s)
             /\ ~s.kids /\ (s.alive <=> r.alive /\ ~r.kids)
             /\ (Owed(r) => Owed(s)) /\ (ok => ~s.net) /\ (s.net => r.net)
<1> DEFINE t == [r EXCEPT !.kids = FALSE, !.alive = r.alive /\ ~r.kids]
<1>1. Teardown(r, ok) = ReleaseNet(t, ok)
  BY DEF Teardown
<1>2. Sound(t) /\ Aside(r, t) /\ ~t.kids /\ (t.alive <=> r.alive /\ ~r.kids)
  BY DEF Sound, Recovery, Aside
<1>3. (t.net <=> r.net) /\ t.radio = r.radio
  BY DEF Sound, Recovery
<1> HIDE DEF t
<1> QED BY <1>1, <1>2, <1>3, ReleaseIs DEF Aside, Owed

LEMMA StopKeeps ==
  ASSUME NEW r, Sound(r), NEW down \in BOOLEAN
  PROVE  LET s == Stop(r, down)
         IN  /\ Keeps(r, s, down) /\ s.mode = "stopped"
             /\ (Owed(r) /\ Backed(r) /\ Childless(r) => Honest(s))
             /\ (down => Prompt(s)) /\ (s.auto <=> r.auto) /\ ~s.counting
<1> DEFINE t == Teardown(r, down)
           mark == r.marker /\ r.trigger # "physical"
           s == [t EXCEPT !.marker = mark, !.led = FALSE, !.counting = FALSE,
                          !.mode = "stopped", !.trigger = "none"]
<1>1. Stop(r, down) = s
  BY DEF Stop
<1>2. /\ Sound(t) /\ Aside(r, t) /\ ~t.kids /\ (t.alive <=> r.alive /\ ~r.kids)
      /\ (Owed(r) => Owed(t)) /\ (down => ~t.net)
  BY TeardownIs
<1>3. mark \in BOOLEAN
  BY DEF Sound, Recovery
<1> HIDE DEF t, mark
<1>4. Sound(s)
  <2>1. s \in Recovery
    BY <1>2, <1>3 DEF Sound, Recovery, Modes, Triggers
  <2> QED BY <2>1, <1>2 DEF Sound, Recovery
<1>5. /\ s.mode = "stopped" /\ ~s.led /\ ~s.counting /\ (s.auto <=> t.auto)
      /\ (s.net <=> t.net) /\ s.radio = t.radio /\ (s.alive <=> t.alive)
      /\ (s.enabled <=> t.enabled)
  BY <1>2 DEF Sound, Recovery
<1> HIDE DEF s
<1>6. Owed(r) /\ Backed(r) /\ Childless(r) => Honest(s)
  BY <1>2, <1>5 DEF Honest, Owed, Backed, Childless, Lit, Willing, Serving, Aside
<1>7. down => Prompt(s)
  BY <1>2, <1>5 DEF Prompt
<1>8. Quiet(r) => Quiet(s)
  BY <1>2, <1>5 DEF Quiet, Aside
<1> QED BY <1>1, <1>2, <1>4, <1>5, <1>6, <1>7, <1>8 DEF Keeps, Aside, Honest

LEMMA ArmKeeps ==
  ASSUME NEW r, Sound(r), NEW trigger \in Triggers, NEW psk \in BOOLEAN,
         NEW down
  PROVE  Keeps(r, Arm(r, trigger, psk), down)
<1>1. CASE Serving(r) \/ ~r.enabled
  <2>1. Arm(r, trigger, psk) = r
    BY <1>1 DEF Arm
  <2> QED BY <2>1 DEF Keeps
<1>2. CASE ~Serving(r) /\ r.enabled
  <2> DEFINE m == IF psk THEN "armed" ELSE "unavailable"
             s == [r EXCEPT !.trigger = trigger, !.mode = m]
  <2>1. Arm(r, trigger, psk) = s
    BY <1>2 DEF Arm
  <2>2. m \in Modes /\ m \in {"armed", "unavailable"}
    BY DEF Modes
  <2> HIDE DEF m
  <2>3. s \in Recovery
    BY <2>2 DEF Sound, Recovery
  <2>4. /\ s.mode = m /\ (s.led <=> r.led) /\ (s.counting <=> r.counting)
        /\ (s.auto <=> r.auto) /\ (s.net <=> r.net) /\ s.radio = r.radio
        /\ (s.alive <=> r.alive) /\ (s.enabled <=> r.enabled)
        /\ (s.pending <=> r.pending) /\ s.attempts = r.attempts
    BY DEF Sound, Recovery
  <2> HIDE DEF s
  <2>5. Sound(s)
    BY <2>3, <2>4 DEF Sound
  <2>6. Honest(r) => Honest(s)
    BY <2>2, <2>4, <1>2 DEF Honest, Owed, Backed, Childless, Lit, Willing, Serving
  <2>7. Honest(r) /\ Prompt(r) => Prompt(s)
    BY <2>4, <1>2 DEF Prompt
  <2>8. Quiet(r) => Quiet(s)
    BY <2>4 DEF Quiet
  <2> QED BY <2>1, <2>5, <2>6, <2>7, <2>8 DEF Keeps
<1> QED BY <1>1, <1>2

LEMMA UnavailableKeeps ==
  ASSUME NEW r, Sound(r), r.mode \in {"armed", "starting"}, NEW down \in BOOLEAN,
         NEW t, Sound(t), Aside(r, t), ~t.alive \/ ~Honest(r), Owed(r) => Owed(t),
         down /\ Prompt(r) => ~t.net
  PROVE  Keeps(r, [t EXCEPT !.mode = "unavailable"], down)
<1> DEFINE s == [t EXCEPT !.mode = "unavailable"]
<1>1. s \in Recovery
  BY DEF Sound, Recovery, Modes
<1>2. /\ s.mode = "unavailable" /\ (s.led <=> t.led) /\ (s.counting <=> t.counting)
      /\ (s.auto <=> t.auto) /\ (s.net <=> t.net) /\ s.radio = t.radio
      /\ (s.alive <=> t.alive) /\ (s.enabled <=> t.enabled)
      /\ (s.pending <=> t.pending) /\ s.attempts = t.attempts
  BY DEF Sound, Recovery
<1> HIDE DEF s
<1>3. Sound(s)
  BY <1>1, <1>2 DEF Sound
<1>4. Honest(r) => Honest(s)
  BY <1>2 DEF Honest, Owed, Backed, Childless, Lit, Willing, Serving, Aside
<1>5. Honest(r) /\ Prompt(r) /\ down => Prompt(s)
  BY <1>2 DEF Prompt
<1>6. Quiet(r) => Quiet(s)
  BY <1>2 DEF Quiet, Aside
<1> QED BY <1>3, <1>4, <1>5, <1>6 DEF Keeps, s

LEMMA StartKeeps ==
  ASSUME NEW r, Sound(r), r.mode = "armed", NEW f \in {"none", "probe", "up", "spawn"},
         NEW down \in BOOLEAN
  PROVE  Keeps(r, StartServices(r, f, down), down)
<1> DEFINE t == Teardown(r, down)
           up == [t EXCEPT !.net = TRUE, !.pending = FALSE, !.attempts = 0,
                           !.radio = "ap", !.kids = TRUE, !.alive = TRUE]
<1>1. /\ Sound(t) /\ Aside(r, t) /\ ~t.kids /\ (t.alive <=> r.alive /\ ~r.kids)
      /\ (Owed(r) => Owed(t)) /\ (down => ~t.net)
  BY TeardownIs
<1>0. StartServices(r, f, down) =
        CASE f = "probe" -> [r EXCEPT !.mode = "unavailable"]
          [] f = "up"    -> [t EXCEPT !.mode = "unavailable"]
          [] f = "spawn" -> [Teardown(up, down) EXCEPT !.mode = "unavailable"]
          [] f = "none"  -> [up EXCEPT !.mode = "starting"]
  BY DEF StartServices
<1> HIDE DEF t
<1>2. /\ Sound(up) /\ Aside(t, up) /\ up.net /\ ~up.pending /\ up.radio = "ap"
      /\ up.kids /\ up.alive
  <2>0. 0 \in 0 .. NetDownMax
    BY DEF NetDownMax
  <2>1. up \in Recovery
    BY <1>1, <2>0 DEF Sound, Recovery
  <2>2. /\ Aside(t, up) /\ up.net /\ ~up.pending /\ up.radio = "ap"
        /\ up.kids /\ up.alive
    BY <1>1 DEF Sound, Recovery, Aside
  <2> QED BY <2>1, <2>2 DEF Sound
<1> HIDE DEF up
<1>3. CASE f = "probe"
  <2>1. ~r.alive \/ ~Honest(r)
    BY DEF Honest, Childless, Serving
  <2>2. Prompt(r) => ~r.net
    BY DEF Prompt, Serving
  <2> QED BY <1>0, <1>3, <2>1, <2>2, UnavailableKeeps DEF Aside
<1>4. CASE f = "up"
  <2>1. ~t.alive \/ ~Honest(r)
    BY <1>1 DEF Honest, Childless, Serving
  <2> QED BY <1>0, <1>4, <1>1, <2>1, UnavailableKeeps
<1>5. CASE f = "spawn"
  <2> DEFINE v == Teardown(up, down)
  <2>1. /\ Sound(v) /\ Aside(up, v) /\ (v.alive <=> up.alive /\ ~up.kids)
        /\ (Owed(up) => Owed(v)) /\ (down => ~v.net)
    BY <1>2, TeardownIs
  <2>2. StartServices(r, f, down) = [v EXCEPT !.mode = "unavailable"]
    BY <1>0, <1>5
  <2> HIDE DEF v
  <2>3. ~v.alive /\ Owed(v) /\ Aside(r, v)
    BY <2>1, <1>1, <1>2 DEF Owed, Aside
  <2> QED BY <2>1, <2>2, <2>3, UnavailableKeeps
<1>6. CASE f = "none"
  <2> DEFINE s == [up EXCEPT !.mode = "starting"]
  <2>1. StartServices(r, f, down) = s
    BY <1>0, <1>6
  <2>2. s \in Recovery
    BY <1>2 DEF Sound, Recovery, Modes
  <2>3. /\ s.mode = "starting" /\ (s.led <=> up.led) /\ (s.counting <=> up.counting)
        /\ (s.auto <=> up.auto) /\ s.net /\ s.radio = "ap" /\ s.kids
        /\ s.alive /\ (s.enabled <=> up.enabled) /\ ~s.pending
    BY <1>2 DEF Sound, Recovery
  <2> HIDE DEF s
  <2>4. Honest(r) => Honest(s)
    BY <2>3, <1>1, <1>2 DEF Honest, Owed, Backed, Childless, Lit, Willing, Serving, Aside
  <2>5. Prompt(s)
    BY <2>3 DEF Prompt, Serving
  <2>6. Quiet(r) => Quiet(s)
    BY <2>3, <1>1, <1>2 DEF Quiet, Aside
  <2> QED BY <2>1, <2>2, <2>3, <2>4, <2>5, <2>6 DEF Keeps, Sound
<1> QED BY <1>3, <1>4, <1>5, <1>6

LEMMA BeginKeeps ==
  ASSUME NEW r, Sound(r), NEW down \in BOOLEAN
  PROVE  LET s == HandoverBegin(r, down)
         IN  Keeps(r, s, down) /\ (Honest(r) => ~Radiating(s.mode))
             /\ (s.mode = "handover" \/ s = r)
<1>1. CASE r.enabled /\ r.mode \in {"active", "starting", "armed"}
  <2> DEFINE t == Teardown(r, down)
             s == [t EXCEPT !.led = FALSE, !.counting = FALSE, !.mode = "handover"]
  <2>1. HandoverBegin(r, down) = s
    BY <1>1 DEF HandoverBegin
  <2>2. /\ Sound(t) /\ Aside(r, t) /\ ~t.kids /\ (t.alive <=> r.alive /\ ~r.kids)
        /\ (Owed(r) => Owed(t)) /\ (down => ~t.net)
    BY TeardownIs
  <2> HIDE DEF t
  <2>3. s \in Recovery
    BY <2>2 DEF Sound, Recovery, Modes
  <2>4. /\ s.mode = "handover" /\ ~s.led /\ ~s.counting /\ (s.auto <=> t.auto)
        /\ (s.net <=> t.net) /\ s.radio = t.radio /\ (s.alive <=> t.alive)
        /\ (s.enabled <=> t.enabled) /\ (s.pending <=> t.pending)
        /\ s.attempts = t.attempts
    BY <2>2 DEF Sound, Recovery
  <2> HIDE DEF s
  <2>5. Honest(r) => Honest(s)
    BY <2>2, <2>4, <1>1 DEF Honest, Owed, Backed, Childless, Lit, Willing, Serving, Aside
  <2>6. down => Prompt(s)
    BY <2>2, <2>4 DEF Prompt
  <2>7. Quiet(r) => Quiet(s)
    BY <2>2, <2>4 DEF Quiet, Aside
  <2> QED BY <2>1, <2>2, <2>3, <2>4, <2>5, <2>6, <2>7 DEF Keeps, Sound, Radiating
<1>2. CASE ~(r.enabled /\ r.mode \in {"active", "starting", "armed"})
  <2>1. HandoverBegin(r, down) = r
    BY <1>2 DEF HandoverBegin
  <2> QED BY <2>1, <1>2 DEF Keeps, Honest, Willing, Radiating
<1> QED BY <1>1, <1>2

LEMMA ResultKeeps ==
  ASSUME NEW r, Sound(r), NEW associated \in BOOLEAN, NEW down \in BOOLEAN
  PROVE  LET s == HandoverResult(r, associated, down)
         IN  Keeps(r, s, down) /\ s.mode # "handover"
             /\ (s = r \/ r.mode = "handover")
<1>1. CASE r.mode # "handover"
  <2>1. HandoverResult(r, associated, down) = r
    BY <1>1 DEF HandoverResult
  <2> QED BY <2>1, <1>1 DEF Keeps
<1>2. CASE r.mode = "handover" /\ associated
  <2>1. HandoverResult(r, associated, down) = Stop(r, down)
    BY <1>2 DEF HandoverResult
  <2> QED BY <2>1, <1>2, StopKeeps
<1>3. CASE r.mode = "handover" /\ ~associated
  <2> DEFINE s == [r EXCEPT !.mode = "armed", !.counting = FALSE]
  <2>1. HandoverResult(r, associated, down) = s
    BY <1>3 DEF HandoverResult
  <2>2. s \in Recovery
    BY DEF Sound, Recovery, Modes
  <2>3. /\ s.mode = "armed" /\ (s.led <=> r.led) /\ ~s.counting /\ (s.auto <=> r.auto)
        /\ (s.net <=> r.net) /\ s.radio = r.radio /\ (s.alive <=> r.alive)
        /\ (s.enabled <=> r.enabled) /\ (s.pending <=> r.pending)
        /\ s.attempts = r.attempts
    BY DEF Sound, Recovery
  <2> HIDE DEF s
  <2>4. Honest(r) => Honest(s)
    BY <2>3, <1>3 DEF Honest, Owed, Backed, Childless, Lit, Willing, Serving
  <2>5. Prompt(r) => Prompt(s)
    BY <2>3, <1>3 DEF Prompt, Serving
  <2>6. Quiet(r) => Quiet(s)
    BY <2>3 DEF Quiet
  <2> QED BY <2>1, <2>2, <2>3, <2>4, <2>5, <2>6, <1>3 DEF Keeps, Sound
<1> QED BY <1>1, <1>2, <1>3

LEMMA ConfigureKeeps ==
  ASSUME NEW r, Sound(r), NEW enabled \in BOOLEAN, NEW auto \in BOOLEAN,
         NEW down \in BOOLEAN
  PROVE  LET s == Configure(r, enabled, auto, down)
         IN  /\ Sound(s) /\ (Honest(r) => Honest(s))
             /\ (Honest(r) /\ Prompt(r) /\ down => Prompt(s))
             /\ (Quiet(r) /\ ~auto => Quiet(s))
             /\ s.mode \in {r.mode, "stopped"}
<1> DEFINE t == [r EXCEPT !.enabled = enabled, !.auto = auto]
<1>0. Configure(r, enabled, auto, down) = IF enabled THEN t ELSE Stop(t, down)
  BY DEF Configure
<1>1. t \in Recovery
  BY DEF Sound, Recovery
<1>2. /\ t.mode = r.mode /\ (t.led <=> r.led) /\ (t.counting <=> r.counting)
      /\ (t.net <=> r.net) /\ t.radio = r.radio /\ (t.alive <=> r.alive)
      /\ (t.kids <=> r.kids) /\ (t.pending <=> r.pending) /\ t.attempts = r.attempts
      /\ (t.enabled <=> enabled) /\ (t.auto <=> auto)
  BY DEF Sound, Recovery
<1> HIDE DEF t
<1>3. Sound(t)
  BY <1>1, <1>2 DEF Sound
<1>4. CASE enabled
  <2>1. Configure(r, enabled, auto, down) = t
    BY <1>0, <1>4
  <2>2. Honest(r) => Honest(t)
    BY <1>2, <1>4 DEF Honest, Owed, Backed, Childless, Lit, Willing, Serving
  <2>3. Prompt(r) => Prompt(t)
    BY <1>2 DEF Prompt, Serving
  <2>4. Quiet(r) /\ ~auto => Quiet(t)
    BY <1>2 DEF Quiet
  <2> QED BY <2>1, <2>2, <2>3, <2>4, <1>2, <1>3
<1>5. CASE ~enabled
  <2> DEFINE s == Stop(t, down)
  <2>1. Configure(r, enabled, auto, down) = s
    BY <1>0, <1>5
  <2>2. /\ Keeps(t, s, down) /\ s.mode = "stopped"
        /\ (Owed(t) /\ Backed(t) /\ Childless(t) => Honest(s))
        /\ (down => Prompt(s)) /\ (s.auto <=> t.auto) /\ ~s.counting
    BY <1>3, StopKeeps
  <2> HIDE DEF s
  <2>3. Honest(r) => Honest(s)
    BY <2>2, <1>2 DEF Honest, Owed, Backed, Childless, Serving
  <2>4. ~auto => Quiet(s)
    BY <2>2, <1>2 DEF Quiet
  <2> QED BY <2>1, <2>2, <2>3, <2>4 DEF Keeps
<1> QED BY <1>4, <1>5

(***************************************************************************)
(* A tick of the access point: an owed net-down tried again, a start, the  *)
(* wait for its children and the wait for an association.                  *)
(***************************************************************************)
LEMMA ReleaseKeeps ==
  ASSUME NEW r, Sound(r), r.pending, NEW down \in BOOLEAN
  PROVE  LET s == ReleaseNet(r, down)
         IN  Keeps(r, s, down) /\ s.mode = r.mode /\ Aside(r, s)
<1> DEFINE s == ReleaseNet(r, down)
<1>1. /\ Sound(s) /\ Aside(r, s) /\ (s.kids <=> r.kids) /\ (s.alive <=> r.alive)
      /\ (Owed(r) => Owed(s)) /\ (down => ~s.net) /\ (s.net => r.net)
  BY ReleaseIs
<1> HIDE DEF s
<1>2. Honest(r) => Honest(s)
  BY <1>1 DEF Honest, Owed, Backed, Childless, Lit, Willing, Serving, Aside
<1>3. Prompt(r) => Prompt(s)
  BY <1>1 DEF Prompt, Serving, Aside
<1>4. Quiet(r) => Quiet(s)
  BY <1>1 DEF Quiet, Aside
<1> QED BY <1>1, <1>2, <1>3, <1>4 DEF Keeps, s, Aside

LEMMA StartingKeeps ==
  ASSUME NEW r, Sound(r), r.mode = "starting", NEW due \in BOOLEAN,
         NEW out \in TickResults
  PROVE  Keeps(r, TickStarting(r, due, out), out.down)
<1>0. out.down \in BOOLEAN /\ out.ready \in BOOLEAN
  BY DEF TickResults
<1>1. CASE r.alive /\ due /\ out.ready
  <2> DEFINE s == [r EXCEPT !.mode = "active", !.led = TRUE]
  <2>1. TickStarting(r, due, out) = s
    BY <1>1 DEF TickStarting
  <2>2. s \in Recovery
    BY DEF Sound, Recovery, Modes
  <2>3. /\ s.mode = "active" /\ s.led /\ (s.counting <=> r.counting)
        /\ (s.auto <=> r.auto) /\ (s.net <=> r.net) /\ s.radio = r.radio
        /\ (s.kids <=> r.kids) /\ (s.alive <=> r.alive) /\ (s.enabled <=> r.enabled)
        /\ (s.pending <=> r.pending) /\ s.attempts = r.attempts
    BY DEF Sound, Recovery
  <2> HIDE DEF s
  <2>4. Honest(r) => Honest(s)
    BY <2>3 DEF Honest, Owed, Backed, Childless, Lit, Willing, Serving
  <2>5. Prompt(s)
    BY <2>3 DEF Prompt, Serving
  <2>6. Quiet(r) => Quiet(s)
    BY <2>3 DEF Quiet
  <2> QED BY <2>1, <2>2, <2>3, <2>4, <2>5, <2>6 DEF Keeps, Sound
<1>2. CASE ~(r.alive /\ due /\ out.ready) /\ (~r.alive \/ due)
  <2> DEFINE t == Teardown(r, out.down)
             lit == IF due THEN FALSE ELSE t.led
             s == [t EXCEPT !.mode = "unavailable", !.led = lit]
  <2>1. TickStarting(r, due, out) = s
    BY <1>2 DEF TickStarting
  <2>2. /\ Sound(t) /\ Aside(r, t) /\ ~t.kids /\ (t.alive <=> r.alive /\ ~r.kids)
        /\ (Owed(r) => Owed(t)) /\ (out.down => ~t.net)
    BY <1>0, TeardownIs
  <2>3. lit \in BOOLEAN /\ (lit => t.led)
    BY <2>2 DEF Sound, Recovery
  <2> HIDE DEF t, lit
  <2>4. s \in Recovery
    BY <2>2, <2>3 DEF Sound, Recovery, Modes
  <2>5. /\ s.mode = "unavailable" /\ (s.led <=> lit) /\ (s.counting <=> t.counting)
        /\ (s.auto <=> t.auto) /\ (s.net <=> t.net) /\ s.radio = t.radio
        /\ (s.alive <=> t.alive) /\ (s.enabled <=> t.enabled)
        /\ (s.pending <=> t.pending) /\ s.attempts = t.attempts
    BY <2>2, <2>3 DEF Sound, Recovery
  <2> HIDE DEF s
  <2>6. Honest(r) => Honest(s)
    BY <2>2, <2>3, <2>5 DEF Honest, Owed, Backed, Childless, Lit, Willing, Serving, Aside
  <2>7. out.down => Prompt(s)
    BY <2>2, <2>5 DEF Prompt
  <2>8. Quiet(r) => Quiet(s)
    BY <2>2, <2>5 DEF Quiet, Aside
  <2> QED BY <2>1, <2>2, <2>4, <2>5, <2>6, <2>7, <2>8 DEF Keeps, Sound
<1>3. CASE ~(r.alive /\ due /\ out.ready) /\ ~(~r.alive \/ due)
  <2>1. TickStarting(r, due, out) = r
    BY <1>3 DEF TickStarting
  <2> QED BY <2>1 DEF Keeps
<1> QED BY <1>1, <1>2, <1>3

LEMMA CountingKeeps ==
  ASSUME NEW r, Sound(r), NEW b \in BOOLEAN, Quiet(r) => ~b, NEW down
  PROVE  LET s == [r EXCEPT !.counting = b]
         IN  Keeps(r, s, down) /\ s.mode = r.mode
<1> DEFINE s == [r EXCEPT !.counting = b]
<1>1. s \in Recovery
  BY DEF Sound, Recovery
<1>2. /\ s.mode = r.mode /\ (s.led <=> r.led) /\ (s.counting <=> b)
      /\ (s.auto <=> r.auto) /\ (s.net <=> r.net) /\ s.radio = r.radio
      /\ (s.kids <=> r.kids) /\ (s.alive <=> r.alive) /\ (s.enabled <=> r.enabled)
      /\ (s.pending <=> r.pending) /\ s.attempts = r.attempts
  BY DEF Sound, Recovery
<1> HIDE DEF s
<1>3. Honest(r) => Honest(s)
  BY <1>2 DEF Honest, Owed, Backed, Childless, Lit, Willing, Serving
<1>4. Prompt(r) => Prompt(s)
  BY <1>2 DEF Prompt, Serving
<1>5. Quiet(r) => Quiet(s)
  BY <1>2 DEF Quiet
<1> QED BY <1>1, <1>2, <1>3, <1>4, <1>5 DEF Keeps, Sound, s

LEMMA IdleKeeps ==
  ASSUME NEW r, Sound(r), NEW a \in BOOLEAN, NEW due \in BOOLEAN,
         NEW out \in TickResults
  PROVE  LET s == TickIdle(r, a, due, out)
         IN  Keeps(r, s, out.down) /\ (Quiet(r) => s.mode = r.mode)
<1> DEFINE counts == r.counting \/ (r.enabled /\ r.auto /\ ~a)
           r1 == [r EXCEPT !.counting = FALSE]
           b == counts /\ ~a
<1>0. out.down \in BOOLEAN /\ out.psk \in BOOLEAN
  BY DEF TickResults
<1>1. CASE counts /\ ~a /\ due /\ r.counting
  <2>1. TickIdle(r, a, due, out) = Arm(r1, "auto", out.psk)
    BY <1>1 DEF TickIdle
  <2>2. Keeps(r, r1, out.down)
    BY CountingKeeps
  <2> HIDE DEF r1
  <2>3. Keeps(r1, Arm(r1, "auto", out.psk), out.down)
    BY <2>2, <1>0, ArmKeeps DEF Keeps, Triggers
  <2>4. ~Quiet(r)
    BY <1>1 DEF Quiet
  <2> QED BY <2>1, <2>2, <2>3, <2>4 DEF Keeps
<1>2. CASE ~(counts /\ ~a /\ due /\ r.counting)
  <2>1. TickIdle(r, a, due, out) = [r EXCEPT !.counting = b]
    BY <1>2 DEF TickIdle
  <2>2. b \in BOOLEAN /\ (Quiet(r) => ~b)
    BY DEF Quiet
  <2> HIDE DEF b
  <2> QED BY <2>1, <2>2, CountingKeeps
<1> QED BY <1>1, <1>2

LEMMA StartMode ==
  ASSUME NEW r, Sound(r), NEW f \in {"none", "probe", "up", "spawn"},
         NEW down \in BOOLEAN
  PROVE  StartServices(r, f, down).mode \in {"unavailable", "starting"}
<1> DEFINE t == Teardown(r, down)
           up == [t EXCEPT !.net = TRUE, !.pending = FALSE, !.attempts = 0,
                           !.radio = "ap", !.kids = TRUE, !.alive = TRUE]
           v == Teardown(up, down)
<1>1. Sound(t)
  BY TeardownIs
<1>2. StartServices(r, f, down) =
        CASE f = "probe" -> [r EXCEPT !.mode = "unavailable"]
          [] f = "up"    -> [t EXCEPT !.mode = "unavailable"]
          [] f = "spawn" -> [v EXCEPT !.mode = "unavailable"]
          [] f = "none"  -> [up EXCEPT !.mode = "starting"]
  BY DEF StartServices
<1> HIDE DEF t
<1>3. up \in Recovery /\ ~up.pending
  <2>1. 0 \in 0 .. NetDownMax
    BY DEF NetDownMax
  <2> QED BY <1>1, <2>1 DEF Sound, Recovery
<1>4. Sound(v)
  BY <1>3, TeardownIs DEF Sound
<1> HIDE DEF up, v
<1> QED BY <1>1, <1>2, <1>3, <1>4 DEF Sound, Recovery

LEMMA StartingMode ==
  ASSUME NEW r, Sound(r), r.mode = "starting", NEW due \in BOOLEAN,
         NEW out \in TickResults
  PROVE  TickStarting(r, due, out).mode \in {"active", "starting", "unavailable"}
<1>1. out.down \in BOOLEAN
  BY DEF TickResults
<1>2. Sound(Teardown(r, out.down))
  BY <1>1, TeardownIs
<1> QED BY <1>2 DEF TickStarting, Sound, Recovery

LEMMA IdleMode ==
  ASSUME NEW r, Sound(r), NEW a \in BOOLEAN, NEW due \in BOOLEAN,
         NEW out \in TickResults
  PROVE  TickIdle(r, a, due, out).mode \in {r.mode, "armed", "unavailable"}
BY DEF TickIdle, Arm, Sound, Recovery

LEMMA TickKeeps ==
  ASSUME NEW r, Sound(r), NEW a \in BOOLEAN, NEW due \in BOOLEAN,
         NEW retry \in BOOLEAN, NEW out \in TickResults
  PROVE  LET s == RecoveryTickOf(r, a, due, retry, out)
         IN  /\ Keeps(r, s, out.down)
             /\ (Quiet(r) /\ ~Radiating(r.mode) => s.mode = r.mode)
             /\ (s.mode = "handover" => r.mode = "handover")
<1> DEFINE r1 == IF r.pending /\ retry THEN ReleaseNet(r, out.down) ELSE r
           s == RecoveryTickOf(r, a, due, retry, out)
<1>0. /\ out.down \in BOOLEAN /\ out.start \in {"none", "probe", "up", "spawn"}
      /\ r.mode \in Modes
  BY DEF TickResults, Sound, Recovery
<1>1. Keeps(r, r1, out.down) /\ r1.mode = r.mode
  BY <1>0, ReleaseKeeps DEF Keeps
<1>2. s = IF a /\ Serving(r) THEN Stop(r, out.down)
          ELSE CASE r.mode = "armed"    -> StartServices(r1, out.start, out.down)
                 [] r.mode = "starting" -> TickStarting(r1, due, out)
                 [] r.mode \in {"client", "unavailable", "stopped"} ->
                                           TickIdle(r1, a, due, out)
                 [] OTHER -> r1
  BY DEF RecoveryTickOf
<1> HIDE DEF r1, s
<1>3. CASE a /\ Serving(r)
  <2>1. s = Stop(r, out.down)
    BY <1>2, <1>3 DEF Serving
  <2>2. Keeps(r, s, out.down) /\ s.mode = "stopped"
    BY <2>1, <1>0, StopKeeps
  <2>3. Radiating(r.mode)
    BY <1>3 DEF Radiating, Serving
  <2> QED BY <2>2, <2>3 DEF s
<1>4. CASE ~(a /\ Serving(r)) /\ r.mode = "armed"
  <2>1. s = StartServices(r1, out.start, out.down)
    BY <1>2, <1>4
  <2>2. Keeps(r1, s, out.down)
    BY <2>1, <1>0, <1>1, <1>4, StartKeeps DEF Keeps
  <2>3. s.mode # "handover"
    BY <2>1, <1>0, <1>1, <1>4, StartMode DEF Keeps
  <2> QED BY <2>2, <2>3, <1>1, <1>4 DEF Keeps, Radiating, s
<1>5. CASE ~(a /\ Serving(r)) /\ r.mode = "starting"
  <2>1. s = TickStarting(r1, due, out)
    BY <1>2, <1>5
  <2>2. Keeps(r1, s, out.down)
    BY <2>1, <1>0, <1>1, <1>5, StartingKeeps DEF Keeps
  <2>3. s.mode # "handover"
    BY <2>1, <1>0, <1>1, <1>5, StartingMode DEF Keeps
  <2> QED BY <2>2, <2>3, <1>1, <1>5 DEF Keeps, Radiating, s
<1>6. CASE r.mode \in {"client", "unavailable", "stopped"}
  <2>1. s = TickIdle(r1, a, due, out)
    BY <1>2, <1>6 DEF Serving
  <2>2. Keeps(r1, s, out.down) /\ (Quiet(r1) => s.mode = r1.mode)
    BY <2>1, <1>1, IdleKeeps DEF Keeps
  <2>3. s.mode # "handover"
    BY <2>1, <1>0, <1>1, <1>6, IdleMode DEF Keeps
  <2> QED BY <2>2, <2>3, <1>1, <1>6 DEF Keeps, s
<1>7. CASE ~(a /\ Serving(r)) /\ r.mode \in {"handover", "active"}
  <2>1. s = r1
    BY <1>2, <1>7
  <2>2. Keeps(r, s, out.down) /\ s.mode = r.mode
    BY <2>1, <1>1
  <2> QED BY <2>2, <1>7 DEF s
<1> QED BY <1>0, <1>3, <1>4, <1>5, <1>6, <1>7 DEF Modes, Serving

\* The record after recovery_boot, whatever the daemon before it left behind.
LEMMA BootIs ==
  ASSUME NEW c \in [enabled : BOOLEAN, auto : BOOLEAN], NEW radio \in {"sta", "ap"},
         NEW alive \in BOOLEAN, NEW marker \in BOOLEAN, NEW w, NEW psk \in BOOLEAN
  PROVE  LET s == BootRecovery(c, radio, alive, marker, w, psk)
         IN  /\ Sound(s) /\ s.radio = radio /\ (s.alive <=> alive) /\ ~s.net /\ ~s.led
             /\ s.mode \in {"client", "armed", "unavailable"}
             /\ (~Configured => s.mode = "client")
             /\ (radio = "sta" /\ ~alive => Honest(s) /\ Prompt(s))
             /\ (~c.auto => Quiet(s))
<1> DEFINE r0 == InitRecovery(c.enabled, c.auto, radio, alive, marker)
           m == IF psk THEN "armed" ELSE "unavailable"
           r1 == IF marker THEN Arm(r0, "physical", psk) ELSE r0
           known == r1.auto /\ (Answers(r0) /\ w.cfgs # {})
           r2 == [r1 EXCEPT !.auto = known]
<1>0. /\ r0.mode = "client" /\ ~r0.kids /\ (r0.alive <=> alive) /\ ~r0.net /\ ~r0.pending
      /\ ~r0.led /\ ~r0.counting /\ (r0.enabled <=> c.enabled) /\ (r0.auto <=> c.auto)
      /\ r0.radio = radio
  BY DEF InitRecovery
<1>1. Sound(r0)
  <2>1. 0 \in 0 .. NetDownMax
    BY DEF NetDownMax
  <2>2. c.enabled \in BOOLEAN /\ c.auto \in BOOLEAN
    OBVIOUS
  <2>3. r0 \in Recovery
    BY <2>1, <2>2 DEF InitRecovery, Recovery, Modes, Triggers
  <2> QED BY <2>3, <1>0 DEF Sound
<1>2. BootRecovery(c, radio, alive, marker, w, psk) =
        IF ~Configured \/ ~c.enabled THEN r0 ELSE r2
  BY DEF BootRecovery
<1> HIDE DEF r0
<1>3. /\ Sound(r1) /\ r1.mode \in {"client", "armed", "unavailable"}
      /\ (r1.mode # "client" => c.enabled)
      /\ ~r1.kids /\ (r1.alive <=> alive) /\ ~r1.net /\ ~r1.pending
      /\ ~r1.led /\ ~r1.counting /\ (r1.enabled <=> c.enabled) /\ (r1.auto <=> c.auto)
      /\ r1.radio = radio
  <2>1. CASE ~marker \/ ~c.enabled
    <3>1. r1 = r0
      BY <2>1, <1>0 DEF Arm
    <3> QED BY <3>1, <1>0, <1>1
  <2>2. CASE marker /\ c.enabled
    <3>1. r1 = [r0 EXCEPT !.trigger = "physical", !.mode = m]
      BY <2>2, <1>0 DEF Arm, Serving
    <3>2. m \in {"armed", "unavailable"}
      OBVIOUS
    <3> HIDE DEF m, r1
    <3>3. r1 \in Recovery
      BY <3>1, <3>2, <1>1 DEF Sound, Recovery, Modes, Triggers
    <3>4. /\ r1.mode = m
          /\ (r1.kids <=> r0.kids) /\ (r1.alive <=> r0.alive) /\ (r1.net <=> r0.net)
          /\ (r1.pending <=> r0.pending) /\ (r1.led <=> r0.led)
          /\ (r1.counting <=> r0.counting) /\ (r1.enabled <=> r0.enabled)
          /\ (r1.auto <=> r0.auto) /\ r1.radio = r0.radio
      BY <3>1, <1>1 DEF Sound, Recovery
    <3> QED BY <2>2, <3>2, <3>3, <3>4, <1>0 DEF Sound
  <2> QED BY <2>1, <2>2
<1>4. known \in BOOLEAN /\ (known => r1.auto)
  BY <1>3 DEF Sound, Recovery
<1> HIDE DEF r1, known
<1>5. /\ Sound(r2) /\ r2.mode \in {"client", "armed", "unavailable"}
      /\ (r2.mode # "client" => c.enabled)
      /\ ~r2.kids /\ (r2.alive <=> alive) /\ ~r2.net /\ ~r2.pending
      /\ ~r2.led /\ ~r2.counting /\ (r2.enabled <=> c.enabled) /\ (r2.auto => c.auto)
      /\ r2.radio = radio
  <2>1. r2 \in Recovery
    BY <1>3, <1>4 DEF Sound, Recovery
  <2>2. /\ r2.mode = r1.mode
        /\ (r2.kids <=> r1.kids) /\ (r2.alive <=> r1.alive) /\ (r2.net <=> r1.net)
        /\ (r2.pending <=> r1.pending) /\ (r2.led <=> r1.led)
        /\ (r2.counting <=> r1.counting) /\ (r2.enabled <=> r1.enabled)
        /\ (r2.auto <=> known) /\ r2.radio = r1.radio
    BY <1>3, <1>4 DEF Sound, Recovery
  <2> HIDE DEF r2
  <2> QED BY <2>1, <2>2, <1>3, <1>4 DEF Sound
<1> HIDE DEF r2
<1>6. CASE ~Configured \/ ~c.enabled
  <2>1. BootRecovery(c, radio, alive, marker, w, psk) = r0
    BY <1>2, <1>6
  <2>2. radio = "sta" /\ ~alive => Honest(r0) /\ Prompt(r0)
    BY <1>0 DEF Honest, Owed, Backed, Childless, Lit, Willing, Serving, Prompt
  <2>3. ~c.auto => Quiet(r0)
    BY <1>0 DEF Quiet
  <2> QED BY <2>1, <2>2, <2>3, <1>0, <1>1
<1>7. CASE ~(~Configured \/ ~c.enabled)
  <2>1. BootRecovery(c, radio, alive, marker, w, psk) = r2
    BY <1>2, <1>7
  <2>2. radio = "sta" /\ ~alive => Honest(r2) /\ Prompt(r2)
    BY <1>5, <1>7 DEF Honest, Owed, Backed, Childless, Lit, Willing, Serving, Prompt
  <2>3. ~c.auto => Quiet(r2)
    BY <1>5 DEF Quiet
  <2> QED BY <2>1, <2>2, <2>3, <1>5, <1>7
<1> QED BY <1>6, <1>7

(***************************************************************************)
(* wpa_supplicant.  Held says that its file and its memory have the        *)
(* profile g, and that the profile it uses is one it has.                  *)
(***************************************************************************)
Held(w, g) ==
    /\ w \in Wpa /\ w.sel \in w.cfgs \cup {None}
    /\ g # None => g \in w.saved /\ g \in w.cfgs

LEMMA IdleHeld ==
  ASSUME NEW w, NEW g, Held(w, g)
  PROVE  /\ Held(Idle(w), g) /\ Idle(w).cfgs = w.cfgs /\ Idle(w).saved = w.saved
         /\ Held(DisableAll(w), g) /\ DisableAll(w).cfgs = w.cfgs
         /\ DisableAll(w).saved = w.saved
         /\ Held(Reassociate(w), g) /\ Reassociate(w).cfgs = w.cfgs
         /\ Reassociate(w).saved = w.saved
<1>1. Idle(w) \in Wpa /\ Idle(w).cfgs = w.cfgs /\ Idle(w).saved = w.saved
      /\ Idle(w).sel = None
  BY DEF Held, Wpa, Idle
<1>2. DisableAll(w) \in Wpa /\ DisableAll(w).cfgs = w.cfgs
      /\ DisableAll(w).saved = w.saved /\ DisableAll(w).sel = None
  BY <1>1 DEF DisableAll, Wpa
<1>3. Reassociate(w) \in Wpa /\ Reassociate(w).cfgs = w.cfgs
      /\ Reassociate(w).saved = w.saved /\ Reassociate(w).sel = w.sel
  BY DEF Held, Wpa, Reassociate
<1> QED BY <1>1, <1>2, <1>3 DEF Held

LEMMA ReloadHeld ==
  ASSUME NEW w, NEW g, w \in Wpa, g # None => g \in w.saved
  PROVE  /\ Held(Reload(w), g) /\ Reload(w).cfgs = w.saved /\ Reload(w).saved = w.saved
<1>1. Idle(w) \in Wpa /\ Idle(w).saved = w.saved /\ Idle(w).sel = None
  BY DEF Wpa, Idle
<1>2. Reload(w) \in Wpa /\ Reload(w).cfgs = w.saved
      /\ Reload(w).saved = w.saved /\ Reload(w).sel = None
  BY <1>1 DEF Reload, Wpa
<1> QED BY <1>2 DEF Held

LEMMA RemoveHeld ==
  ASSUME NEW w, NEW g, Held(w, g), NEW i, i # g \/ g = None
  PROVE  LET v == RemoveNetwork(w, i)
         IN  Held(v, g) /\ v.cfgs = w.cfgs \ {i} /\ v.saved = w.saved
<1> DEFINE w1 == IF w.sel = i THEN Idle(w) ELSE w
           v == [w1 EXCEPT !.cfgs = @ \ {i}]
<1>1. RemoveNetwork(w, i) = v
  BY DEF RemoveNetwork
<1>3. w1 \in Wpa /\ w1.cfgs = w.cfgs /\ w1.saved = w.saved
      /\ w1.sel \in (w.cfgs \ {i}) \cup {None}
  BY DEF Held, Wpa, Idle
<1> HIDE DEF w1
<1>4. v \in Wpa /\ v.cfgs = w.cfgs \ {i} /\ v.saved = w.saved /\ v.sel = w1.sel
  BY <1>3 DEF Wpa
<1> HIDE DEF v
<1> QED BY <1>1, <1>3, <1>4 DEF Held

LEMMA SelectHeld ==
  ASSUME NEW w, NEW g, Held(w, g), NEW i
  PROVE  LET v == Select(w, i)
         IN  Held(v, g) /\ v.cfgs = w.cfgs /\ v.saved = w.saved
<1>1. CASE i \notin w.cfgs
  BY <1>1 DEF Select
<1>2. CASE i \in w.cfgs
  <2> DEFINE d == w.done /\ w.sel = i
             v == [w EXCEPT !.sel = i, !.done = d, !.off = FALSE]
  <2>1. Select(w, i) = v
    BY <1>2 DEF Select
  <2>2. d \in BOOLEAN
    BY DEF Held, Wpa
  <2> HIDE DEF d
  <2>3. v \in Wpa /\ v.cfgs = w.cfgs /\ v.saved = w.saved /\ v.sel = i
    BY <2>2, <1>2 DEF Held, Wpa
  <2> HIDE DEF v
  <2> QED BY <2>1, <2>3, <1>2 DEF Held
<1> QED BY <1>1, <1>2

LEMMA SaveHeld ==
  ASSUME NEW w, NEW g, Held(w, g)
  PROVE  LET v == SaveConfig(w)
         IN  Held(v, g) /\ v.cfgs = w.cfgs /\ v.saved = w.cfgs
<1>1. SaveConfig(w) \in Wpa /\ SaveConfig(w).cfgs = w.cfgs /\ SaveConfig(w).saved = w.cfgs
      /\ SaveConfig(w).sel = w.sel
  BY DEF Held, Wpa, SaveConfig
<1> QED BY <1>1 DEF Held

LEMMA AddHeld ==
  ASSUME NEW w, NEW g, Held(w, g), NEW i \in Profiles
  PROVE  LET v == AddNetwork(w, i)
         IN  Held(v, g) /\ v.cfgs = w.cfgs \cup {i} /\ v.saved = w.saved
<1> DEFINE v == AddNetwork(w, i)
<1>1. v \in Wpa /\ v.cfgs = w.cfgs \cup {i} /\ v.saved = w.saved /\ v.sel = w.sel
  BY DEF Held, Wpa, AddNetwork
<1> HIDE DEF v
<1>2. Held(v, g)
  BY <1>1 DEF Held
<1> QED BY <1>1, <1>2 DEF v

LEMMA RestoreHeld ==
  ASSUME NEW w, NEW g, Held(w, g), NEW r, NEW prev, NEW cand, cand # g \/ g = None,
         NEW bad
  PROVE  Held(RestoreProfile(w, r, prev, cand, bad), g)
<1> DEFINE w1 == IF cand = None \/ bad = "remove" THEN w ELSE RemoveNetwork(w, cand)
           w2 == IF bad = "select" THEN w1
                 ELSE IF prev # None THEN Select(w1, prev) ELSE DisableAll(w1)
<1>1. Held(w1, g)
  BY RemoveHeld
<1> HIDE DEF w1
<1>2. Held(w2, g)
  BY <1>1, SelectHeld, IdleHeld
<1> HIDE DEF w2
<1>3. Held(SaveConfig(w2), g)
  BY <1>2, SaveHeld
<1>4. RestoreProfile(w, r, prev, cand, bad) =
        IF ~Answers(r) THEN w
        ELSE IF prev = None \/ bad = "save" THEN w2 ELSE SaveConfig(w2)
  BY DEF RestoreProfile, w1, w2
<1> QED BY <1>2, <1>3, <1>4

LEMMA AfterHeld ==
  ASSUME NEW w, NEW g, Held(w, g), NEW r0, NEW r1
  PROVE  LET v == AfterRadio(w, r0, r1)
         IN  Held(v, g) /\ v.saved = w.saved /\ (v = w \/ v.cfgs = w.saved)
<1>1. w \in Wpa /\ (g # None => g \in w.saved)
  BY DEF Held
<1> QED BY <1>1, ReloadHeld DEF AfterRadio

(***************************************************************************)
(* A new profile takes the smallest free number.                           *)
(***************************************************************************)
Below == {p \in Nat \X Nat : p[1] < p[2]}

LEMMA NewIdIs ==
  ASSUME NEW w \in Wpa, Profiles \ w.cfgs # {}
  PROVE  NewId(w) \in Profiles /\ NewId(w) \notin w.cfgs
<1> DEFINE S == Profiles \ w.cfgs
<1>1. IsWellFoundedOn(Below, Nat)
  BY NatLessThanWellFounded DEF OpToRel, Below
<1>2. S \subseteq Nat /\ S # {}
  BY NetworkdAssumption DEF Profiles
<1> HIDE DEF S
<1>3. \E x \in S : \A y \in S : ~(<<y, x>> \in Below)
  BY <1>1, <1>2, WFMin
<1>4. PICK x \in S : \A y \in S : ~(<<y, x>> \in Below)
  BY <1>3
<1>5. \A y \in S : x <= y
  <2> TAKE y \in S
  <2>1. x \in Nat /\ y \in Nat
    BY <1>2
  <2>2. <<y, x>> \in Nat \X Nat
    BY <2>1
  <2>3. ~(<<y, x>> \in Below)
    BY <1>4
  <2> QED BY <2>1, <2>2, <2>3 DEF Below
<1>6. \E i \in S : \A j \in S : i <= j
  BY <1>5
<1>7. NewId(w) \in S
  BY <1>6 DEF NewId, S
<1> QED BY <1>7 DEF S

(***************************************************************************)
(* The loop apart from the ladder: the types, the owner of every request,  *)
(* and the profiles.  Running says that an attempt to join is under way.   *)
(***************************************************************************)
RecType ==
    /\ Sound(rec) /\ conf \in [enabled : BOOLEAN, auto : BOOLEAN]
    /\ ledOn \in BOOLEAN

StType ==
    /\ st \in State /\ netlink \in BOOLEAN /\ probe \in BOOLEAN /\ chan \in BOOLEAN
    /\ kern \in [down : BOOLEAN, lease : BOOLEAN]

Whoever == Clients \cup {NoClient}

OpType ==
    /\ assoc \in [active : BOOLEAN, prev : Profiles \cup {None},
                  cand : Profiles, who : Whoever]
    /\ dhcp \in [active : BOOLEAN, release : BOOLEAN, who : Whoever]
    /\ scan \in [stage : {"none", "wpa", "family", "trigger", "dump"},
                 who : Whoever]
    /\ client \in [Clients -> {"gone", "idle", "busy"}]

Owned ==
    /\ scan.stage = "none" => scan.who = NoClient
    /\ ~assoc.active => assoc.who = NoClient
    /\ ~dhcp.active => dhcp.who = NoClient
    /\ assoc.active => ~dhcp.active
    /\ scan.who # NoClient => scan.who # assoc.who /\ scan.who # dhcp.who
    /\ RequestsOwned

Joining == dhcp.active /\ ~dhcp.release

WpaInv ==
    /\ Held(wpa, good) /\ good \in Profiles \cup {None}
    /\ assoc.active \/ Joining => assoc.cand # good
    /\ Joining => assoc.cand \in wpa.saved /\ assoc.cand \in wpa.cfgs

DeskInv == RecType /\ StType /\ OpType /\ Owned /\ WpaInv /\ setup \in Setups

LEMMA SetupTypes ==
  ASSUME setup \in Setups
  PROVE  /\ \A f : Works(f) \subseteq BOOLEAN
         /\ Routes \subseteq BOOLEAN /\ setup.auto \subseteq BOOLEAN
         /\ setup.marker \subseteq BOOLEAN
<1>1. setup \in Setup
  BY NetworkdAssumption
<1> QED BY <1>1 DEF Setup, Works, Routes

LEMMA ZeroProfile == 0 \in Profiles
BY NetworkdAssumption DEF Profiles

LEMMA Refreshes ==
  ASSUME NEW s \in State, NEW r \in Recovery, NEW w \in Wpa,
         NEW k \in [down : BOOLEAN, lease : BOOLEAN], NEW ch \in BOOLEAN,
         NEW route \in BOOLEAN
  PROVE  /\ RefreshInterface(s, r, w, k, route) \in State
         /\ Refreshed(s, r, w, k, ch, route) \in State
<1> DEFINE link == LinkUp(r, w, k)
           ip == r.radio = "ap" \/ k.lease
           gw == r.radio = "sta" /\ k.lease /\ ~k.down /\ route
           t == [s EXCEPT !.link = link, !.ip = ip, !.gw = gw]
<1>1. link \in BOOLEAN /\ ip \in BOOLEAN /\ gw \in BOOLEAN
  BY DEF LinkUp, Recovery, Wpa
<1>2. RefreshInterface(s, r, w, k, route) = t
  BY DEF RefreshInterface
<1> HIDE DEF link, ip, gw
<1>3. t \in State
  BY <1>1 DEF State
<1> HIDE DEF t
<1>4. RefreshWpa(t, r, w, ch) \in State
  <2> DEFINE y == t.ssid \/ w.done
             z == IF w.done THEN "connected"
                  ELSE IF w.sel # None THEN "connecting" ELSE "disconnected"
             x == IF t.link THEN "connected" ELSE "disconnected"
  <2>1. y \in BOOLEAN /\ z \in States /\ x \in States
    BY <1>3 DEF State, Wpa, States
  <2>2. RefreshWpa(t, r, w, ch) = IF ch /\ Answers(r)
          THEN [t EXCEPT !.ssid = y, !.state = z] ELSE [t EXCEPT !.state = x]
    BY DEF RefreshWpa
  <2> HIDE DEF x, y, z
  <2> QED BY <2>1, <2>2, <1>3 DEF State
<1> QED BY <1>2, <1>3, <1>4 DEF Refreshed

LEMMA BootStates ==
  ASSUME NEW r \in Recovery, NEW w \in Wpa,
         NEW k \in [down : BOOLEAN, lease : BOOLEAN], NEW route \in BOOLEAN
  PROVE  BootState(r, w, k, route) \in State
<1>1. [state |-> "unavailable", ssid |-> FALSE, link |-> FALSE,
       ip |-> FALSE, gw |-> FALSE] \in State
  BY DEF State, States
<1>2. Answers(r) \in BOOLEAN
  BY DEF Answers
<1> QED BY <1>1, <1>2, Refreshes DEF BootState

LEMMA Replies ==
  ASSUME NEW cl \in [Clients -> {"gone", "idle", "busy"}], NEW who
  PROVE  /\ Replied(cl, who) \in [Clients -> {"gone", "idle", "busy"}]
         /\ \A c \in Clients : Replied(cl, who)[c] = "busy" <=> cl[c] = "busy" /\ c # who
BY DEF Replied

LEMMA RearmedIs ==
  ASSUME NEW r, Sound(r)
  PROVE  Sound(Rearmed(r))
BY ResultKeeps DEF Rearmed, Keeps

(***************************************************************************)
(* The handlers.                                                           *)
(***************************************************************************)
LEMMA InitDesk == ServiceInit => DeskInv
<1> SUFFICES ASSUME ServiceInit PROVE DeskInv
  OBVIOUS
<1> USE DEF ServiceInit, Init
<1>1. setup \in Setups
  OBVIOUS
<1>2. conf \in [enabled : BOOLEAN, auto : BOOLEAN]
  <2>1. PICK a \in setup.auto : conf = [enabled |-> TRUE, auto |-> a]
    OBVIOUS
  <2> QED BY <2>1, <1>1, SetupTypes
<1>3. wpa \in Wpa /\ wpa.sel \in wpa.cfgs \cup {None} /\ wpa.saved = wpa.cfgs
      /\ (wpa.sel = None => ~wpa.done)
  OBVIOUS
<1>4. kern \in [down : BOOLEAN, lease : BOOLEAN]
  BY <1>3 DEF Wpa
<1>5. Sound(rec)
  <2>1. PICK m \in setup.marker, psk \in Works("ap") :
          rec = BootRecovery(conf, "sta", FALSE, m, wpa, psk)
    OBVIOUS
  <2>2. m \in BOOLEAN /\ psk \in BOOLEAN
    BY <1>1, SetupTypes
  <2>3. FALSE \in BOOLEAN /\ "sta" \in {"sta", "ap"}
    OBVIOUS
  <2> HIDE DEF ServiceInit, Init
  <2> QED BY ZenonT(60), <2>1, <2>2, <2>3, <1>2, BootIs
<1>6. st \in State
  <2>1. PICK route \in Routes : st = BootState(rec, wpa, kern, route)
    OBVIOUS
  <2> QED BY <2>1, <1>1, <1>3, <1>4, <1>5, SetupTypes, BootStates DEF Sound
<1>7. OpType
  BY ZeroProfile DEF OpType, NoAssoc, NoDhcp, NoScan, Whoever
<1>8. Owned
  BY NetworkdAssumption DEF Owned, NoAssoc, NoDhcp, NoScan, RequestsOwned
<1>9. WpaInv
  <2>1. good \in wpa.cfgs \cup {None}
    BY <1>3
  <2>2. wpa.cfgs \subseteq Profiles
    BY <1>3 DEF Wpa
  <2> QED BY <2>1, <2>2, <1>3 DEF WpaInv, Held, NoAssoc, NoDhcp, Joining
<1> QED BY <1>1, <1>2, <1>4, <1>5, <1>6, <1>7, <1>8, <1>9 DEF DeskInv, RecType, StType

LEMMA StartsDesk ==
  ASSUME DeskInv, Kept, NEW c \in Clients, ConnectStarts(c)
  PROVE  DeskInv'
<1>1. PICK down \in Works("netdown") :
         LET r == ConnectRecovery(down)
             w == AfterRadio(wpa, rec, r)
         IN  /\ Answers(r)
             /\ Profiles \ w.cfgs # {}
             /\ rec' = r /\ ledOn' = r.led
             /\ wpa' = Select(AddNetwork(DisableAll(w), NewId(w)), NewId(w))
             /\ assoc' = [active |-> TRUE, prev |-> w.sel, cand |-> NewId(w),
                          who |-> c]
  BY DEF ConnectStarts
<1> DEFINE r == ConnectRecovery(down)
           w == AfterRadio(wpa, rec, r)
           i == NewId(w)
<1>2. down \in BOOLEAN
  BY SetupTypes DEF DeskInv
<1>3. Sound(r)
  BY <1>2, BeginKeeps DEF ConnectRecovery, Keeps, DeskInv, RecType
<1>4. Held(w, good)
  BY AfterHeld DEF DeskInv, WpaInv
<1>5. Profiles \ w.cfgs # {} /\ rec' = r /\ ledOn' = r.led
      /\ wpa' = Select(AddNetwork(DisableAll(w), i), i)
      /\ assoc' = [active |-> TRUE, prev |-> w.sel, cand |-> i, who |-> c]
  BY <1>1
<1> HIDE DEF r, w
<1>6. i \in Profiles /\ i \notin w.cfgs
  BY <1>4, <1>5, NewIdIs DEF Held
<1> HIDE DEF i
<1>7. Held(AddNetwork(DisableAll(w), i), good)
  BY <1>4, <1>6, IdleHeld, AddHeld
<1>8. Held(wpa', good)
  BY <1>5, <1>7, SelectHeld
<1>9. RecType'
  BY <1>3, <1>5 DEF DeskInv, RecType, ConnectStarts, Sound, Recovery
<1>10. StType'
  BY DEF DeskInv, StType, ConnectStarts, HelperEvents, healthVars
<1>11. OpType'
  <2>1. w.sel \in Profiles \cup {None}
    BY <1>4 DEF Held, Wpa
  <2> QED BY <1>5, <1>6, <2>1 DEF DeskInv, OpType, ConnectStarts, Whoever
<1>12. Owned'
  BY <1>5, NetworkdAssumption DEF DeskInv, OpType, Owned, ConnectStarts, CanConnect,
     RequestsOwned
<1>13. WpaInv'
  <2>1. good' = good /\ dhcp' = dhcp /\ ~dhcp.active
    BY DEF ConnectStarts, CanConnect
  <2>2. i # good
    BY <1>4, <1>6, NetworkdAssumption DEF Held, None, Profiles
  <2> QED BY <1>5, <1>8, <2>1, <2>2 DEF DeskInv, WpaInv, Joining
<1> QED BY <1>9, <1>10, <1>11, <1>12, <1>13 DEF DeskInv, Kept

LEMMA RejectedDesk ==
  ASSUME DeskInv, Kept, NEW c \in Clients, ConnectRejected(c)
  PROVE  DeskInv'
<1>1. PICK down \in Works("netdown"), stage \in {"disable", "add", "set"} :
         LET r == ConnectRecovery(down)
             w == AfterRadio(wpa, rec, r)
             w1 == IF stage = "disable" THEN w ELSE DisableAll(w)
             cand == IF stage = "set" THEN NewId(w) ELSE None
             w2 == IF cand = None THEN w1
                   ELSE AddNetwork(w1, cand)
         IN  /\ stage # "set" => "wpa" \in Faults
             /\ stage = "set" => Profiles \ w.cfgs # {}
             /\ Answers(r)
             /\ rec' = Rearmed(r) /\ ledOn' = rec'.led
             /\ wpa' = RestoreProfile(w2, r, w.sel, cand, "none")
  BY DEF ConnectRejected
<1> DEFINE r == ConnectRecovery(down)
           w == AfterRadio(wpa, rec, r)
           w1 == IF stage = "disable" THEN w ELSE DisableAll(w)
           cand == IF stage = "set" THEN NewId(w) ELSE None
           w2 == IF cand = None THEN w1 ELSE AddNetwork(w1, cand)
<1>2. down \in BOOLEAN
  BY SetupTypes DEF DeskInv
<1>3. Sound(r)
  BY <1>2, BeginKeeps DEF ConnectRecovery, Keeps, DeskInv, RecType
<1>4. Held(w, good)
  BY AfterHeld DEF DeskInv, WpaInv
<1>5. (stage = "set" => Profiles \ w.cfgs # {}) /\ rec' = Rearmed(r) /\ ledOn' = rec'.led
      /\ wpa' = RestoreProfile(w2, r, w.sel, cand, "none")
  BY <1>1
<1> HIDE DEF r, w
<1>6. cand \in Profiles \cup {None} /\ cand \notin w.cfgs
  <2>1. None \notin Profiles
    BY NetworkdAssumption DEF None, Profiles
  <2>2. w.cfgs \subseteq Profiles
    BY <1>4 DEF Held, Wpa
  <2> QED BY <2>1, <2>2, <1>4, <1>5, NewIdIs DEF Held
<1>7. cand # good \/ good = None
  BY <1>4, <1>6 DEF Held
<1>8. Held(w1, good)
  BY <1>4, IdleHeld
<1> HIDE DEF w1, cand
<1>9. Held(w2, good)
  BY <1>8, <1>6, AddHeld
<1> HIDE DEF w2
<1>10. Held(wpa', good)
  BY <1>5, <1>7, <1>9, RestoreHeld
<1>11. Sound(rec') /\ rec' \in Recovery
  BY <1>3, <1>5, RearmedIs DEF Sound
<1>12. RecType'
  BY <1>5, <1>11 DEF DeskInv, RecType, ConnectRejected, Recovery
<1>13. StType'
  BY DEF DeskInv, StType, ConnectRejected, HelperEvents, healthVars
<1>14. OpType' /\ Owned'
  BY DEF DeskInv, OpType, Owned, RequestsOwned, ConnectRejected, opVars
<1>15. WpaInv'
  BY <1>10 DEF DeskInv, WpaInv, Joining, ConnectRejected, CanConnect, opVars
<1> QED BY <1>12, <1>13, <1>14, <1>15 DEF DeskInv, Kept

LEMMA UnansweredDesk ==
  ASSUME DeskInv, Kept, NEW c \in Clients, ConnectUnanswered(c)
  PROVE  DeskInv'
<1>1. PICK down \in Works("netdown") :
         LET r == ConnectRecovery(down)
         IN  /\ ~Answers(r)
             /\ rec' = Rearmed(r) /\ ledOn' = rec'.led
             /\ wpa' = AfterRadio(wpa, rec, r)
  BY DEF ConnectUnanswered
<1>2. down \in BOOLEAN
  BY SetupTypes DEF DeskInv
<1>3. Sound(ConnectRecovery(down))
  BY <1>2, BeginKeeps DEF ConnectRecovery, Keeps, DeskInv, RecType
<1>4. Sound(rec') /\ rec' \in Recovery
  BY <1>1, <1>3, RearmedIs DEF Sound
<1>5. Held(wpa', good)
  BY <1>1, AfterHeld DEF DeskInv, WpaInv
<1>6. RecType'
  BY <1>1, <1>4 DEF DeskInv, RecType, ConnectUnanswered, Recovery
<1>7. StType'
  <2>1. st' \in State
    BY DEF DeskInv, StType, ConnectUnanswered, State, States
  <2> QED BY <2>1 DEF DeskInv, StType, ConnectUnanswered, HelperEvents, healthVars
<1>8. OpType' /\ Owned'
  BY DEF DeskInv, OpType, Owned, RequestsOwned, ConnectUnanswered, opVars
<1>9. WpaInv'
  BY <1>5 DEF DeskInv, WpaInv, Joining, ConnectUnanswered, CanConnect, opVars
<1> QED BY <1>6, <1>7, <1>8, <1>9 DEF DeskInv, Kept

LEMMA TimesOutDesk ==
  ASSUME DeskInv, Kept, AssociationTimesOut
  PROVE  DeskInv'
<1>1. PICK bad \in RestoreFails :
        wpa' = RestoreProfile(wpa, rec, assoc.prev, assoc.cand, bad)
  BY DEF AssociationTimesOut
<1>2. Held(wpa', good)
  BY <1>1, RestoreHeld DEF DeskInv, WpaInv, AssociationTimesOut
<1>3. Sound(rec') /\ rec' \in Recovery
  BY RearmedIs DEF AssociationTimesOut, DeskInv, RecType, Sound
<1>4. RecType'
  BY <1>3 DEF DeskInv, RecType, AssociationTimesOut, Recovery
<1>5. StType'
  BY DEF DeskInv, StType, AssociationTimesOut, healthVars, Answers
<1>6. OpType'
  BY ZeroProfile, Replies DEF DeskInv, OpType, AssociationTimesOut, EndAssociation, NoAssoc, Whoever
<1>7. Owned'
  BY NetworkdAssumption, Replies DEF DeskInv, OpType, Owned, RequestsOwned, AssociationTimesOut,
     EndAssociation, NoAssoc
<1>8. WpaInv'
  BY <1>2 DEF DeskInv, WpaInv, Owned, Joining, AssociationTimesOut, EndAssociation, NoAssoc
<1> QED BY <1>4, <1>5, <1>6, <1>7, <1>8 DEF DeskInv, Kept

LEMMA NotSavedDesk ==
  ASSUME DeskInv, Kept, AssociationNotSaved
  PROVE  DeskInv'
<1>0. assoc.active
  BY DEF AssociationNotSaved, AssociationCompleted
<1>2. Held(wpa', good)
  BY <1>0, RestoreHeld DEF DeskInv, WpaInv, AssociationNotSaved
<1>3. Sound(rec') /\ rec' \in Recovery
  BY RearmedIs DEF AssociationNotSaved, DeskInv, RecType, Sound
<1>4. RecType'
  BY <1>3 DEF DeskInv, RecType, AssociationNotSaved, Recovery
<1>5. StType'
  BY DEF DeskInv, StType, AssociationNotSaved, healthVars
<1>6. OpType'
  BY ZeroProfile, Replies DEF DeskInv, OpType, AssociationNotSaved, EndAssociation, NoAssoc, Whoever
<1>7. Owned'
  BY <1>0, NetworkdAssumption, Replies DEF DeskInv, OpType, Owned, RequestsOwned,
     AssociationNotSaved, EndAssociation, NoAssoc
<1>8. WpaInv'
  BY <1>0, <1>2 DEF DeskInv, WpaInv, Owned, Joining, AssociationNotSaved, EndAssociation, NoAssoc
<1> QED BY <1>4, <1>5, <1>6, <1>7, <1>8 DEF DeskInv, Kept

LEMMA SavedDesk ==
  ASSUME DeskInv, Kept, NEW started \in BOOLEAN, AssociationSaved(started)
  PROVE  DeskInv'
<1>0. assoc.active /\ ~dhcp.active /\ wpa.sel = assoc.cand
  BY DEF AssociationSaved, AssociationCompleted, DeskInv, Owned
<1>1. Held(SaveConfig(wpa), good) /\ SaveConfig(wpa).cfgs = wpa.cfgs
      /\ SaveConfig(wpa).saved = wpa.cfgs
  BY SaveHeld DEF DeskInv, WpaInv
<1>2. assoc.cand \in wpa.cfgs
  BY <1>0, NetworkdAssumption DEF DeskInv, WpaInv, OpType, Held, None, Profiles
<1>3. StType'
  <2>1. st' \in State
    BY DEF DeskInv, StType, AssociationSaved, State, States
  <2> QED BY <2>1 DEF DeskInv, StType, AssociationSaved, ResetHealth
<1>4. CASE started
  <2>1. /\ wpa' = SaveConfig(wpa)
        /\ assoc' = [assoc EXCEPT !.active = FALSE, !.who = NoClient]
        /\ dhcp' = [active |-> TRUE, release |-> FALSE, who |-> assoc.who]
        /\ UNCHANGED <<rec, ledOn, client, conf, scan, good>>
    BY <1>4 DEF AssociationSaved
  <2>2. RecType'
    BY <2>1 DEF DeskInv, RecType
  <2>3. OpType'
    BY <2>1 DEF DeskInv, OpType, Whoever
  <2>4. ~assoc'.active /\ assoc'.who = NoClient /\ assoc'.cand = assoc.cand
    BY <2>1 DEF DeskInv, OpType
  <2>5. Owned'
    BY <1>0, <2>1, <2>4, NetworkdAssumption DEF DeskInv, OpType, Owned, RequestsOwned
  <2>6. WpaInv'
    BY <1>0, <1>1, <1>2, <2>1, <2>4 DEF DeskInv, WpaInv, Joining
  <2> QED BY <1>3, <2>2, <2>3, <2>5, <2>6 DEF DeskInv, Kept
<1>5. CASE ~started
  <2>1. PICK bad \in RestoreFails :
           wpa' = RestoreProfile(SaveConfig(wpa), rec, assoc.prev, assoc.cand, bad)
    BY <1>5 DEF AssociationSaved
  <2>2. /\ rec' = Rearmed(rec) /\ ledOn' = rec'.led
        /\ EndAssociation
        /\ UNCHANGED <<dhcp, conf, scan, good>>
    BY <1>5 DEF AssociationSaved
  <2>3. Held(wpa', good)
    BY <1>0, <1>1, <2>1, RestoreHeld DEF DeskInv, WpaInv
  <2>4. Sound(rec') /\ rec' \in Recovery
    BY <2>2, RearmedIs DEF DeskInv, RecType, Sound
  <2>5. RecType'
    BY <2>2, <2>4 DEF DeskInv, RecType, Recovery
  <2>6. OpType'
    BY <2>2, ZeroProfile, Replies DEF DeskInv, OpType, EndAssociation, NoAssoc, Whoever
  <2>7. Owned'
    BY <1>0, <2>2, NetworkdAssumption, Replies DEF DeskInv, OpType, Owned, RequestsOwned,
       EndAssociation, NoAssoc
  <2>8. WpaInv'
    BY <1>0, <2>2, <2>3 DEF DeskInv, WpaInv, Joining, EndAssociation, NoAssoc
  <2> QED BY <1>3, <2>5, <2>6, <2>7, <2>8 DEF DeskInv, Kept
<1> QED BY <1>4, <1>5

LEMMA EndDhcpDesk ==
  ASSUME DeskInv, NEW ok \in BOOLEAN, NEW down \in BOOLEAN, EndDhcp(ok, down),
         conf' = conf, scan' = scan, assoc' = assoc \/ assoc' = NoAssoc, dhcp.active
  PROVE  RecType' /\ OpType' /\ Owned' /\ netlink' \in BOOLEAN
<1>1. Sound(rec') /\ rec' \in Recovery
  BY ResultKeeps DEF EndDhcp, DeskInv, RecType, Keeps, Sound
<1>2. RecType'
  BY <1>1 DEF DeskInv, RecType, EndDhcp, Recovery
<1>3. OpType'
  <2>1. assoc \in [active : BOOLEAN, prev : Profiles \cup {None},
                   cand : Profiles, who : Whoever]
    BY DEF DeskInv, OpType
  <2>2. NoAssoc \in [active : BOOLEAN, prev : Profiles \cup {None},
                     cand : Profiles, who : Whoever]
    BY ZeroProfile DEF NoAssoc, Whoever
  <2>3. assoc' \in [active : BOOLEAN, prev : Profiles \cup {None},
                    cand : Profiles, who : Whoever]
    BY <2>1, <2>2
  <2>4. dhcp' \in [active : BOOLEAN, release : BOOLEAN, who : Whoever]
    BY DEF EndDhcp, NoDhcp, Whoever
  <2>5. client' \in [Clients -> {"gone", "idle", "busy"}]
    BY Replies DEF EndDhcp, DeskInv, OpType
  <2> QED BY <2>3, <2>4, <2>5 DEF DeskInv, OpType, Whoever
<1>4. assoc'.who = NoClient /\ ~assoc'.active
  BY DEF DeskInv, Owned, NoAssoc
<1>5. Owned'
  BY <1>4, NetworkdAssumption, Replies DEF DeskInv, OpType, Owned, RequestsOwned, EndDhcp, NoDhcp
<1>6. netlink' \in BOOLEAN
  BY DEF EndDhcp, HelperEvents, DeskInv, StType
<1> QED BY <1>2, <1>3, <1>5, <1>6

LEMMA VerdictHeld ==
  ASSUME DeskInv, Joining, NEW success \in BOOLEAN, NEW saves \in BOOLEAN
  PROVE  LET v == LeaseVerdict(success, saves)
         IN  /\ v.ok \in BOOLEAN
             /\ Held(v.wpa, IF v.ok THEN assoc.cand ELSE good)
<1> DEFINE kept == RemoveNetwork(wpa, assoc.prev)
           v == LeaseVerdict(success, saves)
<1>0. /\ Held(wpa, good) /\ assoc.cand # good
      /\ assoc.cand \in wpa.saved /\ assoc.cand \in wpa.cfgs
  BY DEF DeskInv, WpaInv
<1>1. Held(wpa, assoc.cand)
  BY <1>0 DEF Held
<1>2. CASE ~success
  <2> DEFINE bad == IF saves THEN "none" ELSE "save"
             w == RestoreProfile(wpa, rec, assoc.prev, assoc.cand, bad)
  <2>1. v = [ok |-> FALSE, wpa |-> w]
    BY <1>2 DEF LeaseVerdict
  <2>2. Held(w, good)
    BY <1>0, RestoreHeld
  <2> HIDE DEF w
  <2> QED BY <2>1, <2>2
<1>3. CASE success /\ ~LeaseReplaces
  <2>1. v = [ok |-> TRUE, wpa |-> wpa]
    BY <1>3 DEF LeaseVerdict
  <2> QED BY <1>1, <2>1
<1>4. CASE success /\ LeaseReplaces /\ ~Answers(rec)
  <2>1. v = [ok |-> FALSE, wpa |-> wpa]
    BY <1>4 DEF LeaseVerdict
  <2> QED BY <1>0, <2>1
<1>5. CASE success /\ LeaseReplaces /\ Answers(rec)
  <2>1. v = [ok |-> saves, wpa |-> IF saves THEN SaveConfig(kept) ELSE RolledBack(kept)]
    BY <1>5 DEF LeaseVerdict
  <2>2. Held(kept, assoc.cand) /\ kept.saved = wpa.saved
    BY <1>1, <1>5, RemoveHeld DEF LeaseReplaces
  <2> HIDE DEF kept
  <2>3. CASE saves
    BY <2>1, <2>2, <2>3, SaveHeld
  <2>4. CASE ~saves
    <3>1. Held(Reload(kept), good)
      BY <1>0, <2>2, ReloadHeld DEF Held
    <3>2. Held(RemoveNetwork(Reload(kept), assoc.cand), good)
      BY <1>0, <3>1, RemoveHeld
    <3>3. Held(RolledBack(kept), good)
      BY <3>2, SelectHeld, SaveHeld DEF RolledBack
    <3> QED BY <2>1, <2>4, <3>3
  <2> QED BY <2>3, <2>4
<1> QED BY <1>2, <1>3, <1>4, <1>5

LEMMA LeaseDesk ==
  ASSUME DeskInv, Kept, NEW success \in BOOLEAN, LeaseEnds(success)
  PROVE  DeskInv'
<1>1. PICK saves \in Works("wpa"), down \in Works("netdown"), route \in Routes :
         LET v == LeaseVerdict(success, saves)
         IN  /\ wpa' = v.wpa
             /\ good' = IF v.ok THEN assoc.cand ELSE good
             /\ EndDhcp(v.ok, down)
             /\ st' = [RefreshInterface(st, rec, wpa, kern', route) EXCEPT
                         !.state = IF v.ok THEN "connected" ELSE "disconnected"]
  BY DEF LeaseEnds
<1> DEFINE v == LeaseVerdict(success, saves)
<1>2. saves \in BOOLEAN /\ down \in BOOLEAN /\ route \in BOOLEAN
  BY SetupTypes DEF DeskInv
<1>3. Joining
  BY DEF LeaseEnds, Joining
<1>4. v.ok \in BOOLEAN /\ Held(v.wpa, IF v.ok THEN assoc.cand ELSE good)
  BY <1>2, <1>3, VerdictHeld
<1>5. /\ wpa' = v.wpa /\ good' = (IF v.ok THEN assoc.cand ELSE good)
      /\ EndDhcp(v.ok, down)
      /\ st' = [RefreshInterface(st, rec, wpa, kern', route) EXCEPT
                  !.state = IF v.ok THEN "connected" ELSE "disconnected"]
  BY <1>1
<1> HIDE DEF v
<1>6. Held(wpa', good')
  BY <1>4, <1>5
<1>7. RecType' /\ OpType' /\ Owned' /\ netlink' \in BOOLEAN
  BY <1>2, <1>3, <1>4, <1>5, EndDhcpDesk DEF LeaseEnds, Joining
<1>8. StType'
  <2>1. kern' \in [down : BOOLEAN, lease : BOOLEAN]
    BY DEF LeaseEnds, DeskInv, StType
  <2>2. RefreshInterface(st, rec, wpa, kern', route) \in State
    BY <1>2, <2>1, Refreshes DEF DeskInv, StType, RecType, WpaInv, Held, Sound
  <2> DEFINE x == RefreshInterface(st, rec, wpa, kern', route)
  <2>3. st' = [x EXCEPT !.state = IF v.ok THEN "connected" ELSE "disconnected"]
    BY <1>5
  <2>4. x \in State
    BY <2>2
  <2> HIDE DEF x
  <2>5. st' \in State
    BY <2>3, <2>4 DEF State, States
  <2> QED BY <1>7, <2>1, <2>5 DEF DeskInv, StType, LeaseEnds, healthVars, Answers
<1>9. WpaInv'
  <2>1. good' \in Profiles \cup {None}
    BY <1>5 DEF DeskInv, WpaInv, OpType
  <2>2. dhcp' = NoDhcp /\ assoc' = NoAssoc
    BY <1>5 DEF EndDhcp, LeaseEnds
  <2> QED BY <1>6, <2>1, <2>2 DEF WpaInv, Joining, NoDhcp, NoAssoc
<1> QED BY <1>7, <1>8, <1>9 DEF DeskInv, Kept

LEMMA ReleaseDesk ==
  ASSUME DeskInv, Kept, ReleaseEnds
  PROVE  DeskInv'
<1>1. PICK success \in Works("dhcp"), down \in Works("netdown") : EndDhcp(success, down)
  BY DEF ReleaseEnds
<1>2. success \in BOOLEAN /\ down \in BOOLEAN
  BY SetupTypes DEF DeskInv
<1>3. RecType' /\ OpType' /\ Owned' /\ netlink' \in BOOLEAN
  BY <1>1, <1>2, EndDhcpDesk DEF ReleaseEnds
<1>4. StType'
  <2>1. kern' \in [down : BOOLEAN, lease : BOOLEAN]
    BY DEF ReleaseEnds, DeskInv, StType
  <2>2. st' \in State
    BY DEF ReleaseEnds, DeskInv, StType, State, States
  <2> QED BY <1>3, <2>1, <2>2 DEF DeskInv, StType, ReleaseEnds, healthVars
<1>5. WpaInv'
  BY <1>1 DEF DeskInv, WpaInv, Owned, Joining, EndDhcp, NoDhcp, ReleaseEnds
<1> QED BY <1>3, <1>4, <1>5 DEF DeskInv, Kept

LEMMA CancelledIs ==
  ASSUME DeskInv
  PROVE  LET op == CancelledOp
         IN  /\ Sound(op.rec) /\ op.chan \in BOOLEAN /\ Held(op.wpa, good)
             /\ op.who = (IF assoc.active THEN assoc.who ELSE dhcp.who)
<1>1. CASE assoc.active
  <2>1. CancelledOp = [rec |-> rec, who |-> assoc.who, chan |-> Answers(rec),
            wpa |-> RestoreProfile(wpa, rec, assoc.prev, assoc.cand, "none")]
    BY <1>1 DEF CancelledOp
  <2> QED BY <1>1, <2>1, RestoreHeld DEF DeskInv, WpaInv, RecType, Answers
<1>2. CASE ~assoc.active /\ dhcp.active
  <2> DEFINE ch == IF dhcp.release THEN chan ELSE Answers(rec)
             w == IF dhcp.release THEN wpa
                  ELSE RestoreProfile(wpa, rec, assoc.prev, assoc.cand, "none")
  <2>1. CancelledOp = [rec |-> Rearmed(rec), who |-> dhcp.who, chan |-> ch, wpa |-> w]
    BY <1>2 DEF CancelledOp
  <2>2. ch \in BOOLEAN
    BY DEF Answers, DeskInv, StType
  <2>3. Held(w, good)
    BY <1>2, RestoreHeld DEF DeskInv, WpaInv, Joining
  <2>4. Sound(Rearmed(rec))
    BY RearmedIs DEF DeskInv, RecType
  <2> HIDE DEF ch, w
  <2> QED BY <1>2, <2>1, <2>2, <2>3, <2>4
<1>3. CASE ~assoc.active /\ ~dhcp.active
  <2>1. CancelledOp = [rec |-> rec, who |-> NoClient, chan |-> chan, wpa |-> wpa]
    BY <1>3 DEF CancelledOp
  <2> QED BY <1>3, <2>1 DEF DeskInv, WpaInv, RecType, StType, Owned
<1> QED BY <1>1, <1>2, <1>3

LEMMA DisconnectDesk ==
  ASSUME DeskInv, Kept, NEW c \in Clients, Disconnect(c)
  PROVE  DeskInv'
<1> DEFINE op == CancelledOp
<1>1. /\ Sound(op.rec) /\ op.chan \in BOOLEAN /\ Held(op.wpa, good)
      /\ op.who = (IF assoc.active THEN assoc.who ELSE dhcp.who)
  BY CancelledIs
<1>2. /\ rec' = op.rec /\ ledOn' = op.rec.led /\ chan' = (op.chan /\ Answers(rec))
      /\ wpa' = IF chan' THEN DisableAll(op.wpa) ELSE op.wpa
  BY DEF Disconnect
<1>3. DisconnectClients(c) = [Replied(client, op.who) EXCEPT ![c] = "busy"]
  BY DEF DisconnectClients
<1> HIDE DEF op
<1>4. Held(wpa', good)
  BY <1>1, <1>2, IdleHeld
<1>5. RecType'
  BY <1>1, <1>2 DEF DeskInv, RecType, Disconnect, Sound, Recovery
<1>6. StType'
  <2>1. st' \in State
    BY DEF Disconnect, DeskInv, StType, State, States
  <2> QED BY <1>2, <2>1 DEF DeskInv, StType, Disconnect, ResetHealth, Answers
<1>7. PICK forks \in Works("dhcp") :
         /\ dhcp' = IF forks THEN [active |-> TRUE, release |-> TRUE, who |-> c]
                             ELSE NoDhcp
         /\ client' = IF forks THEN DisconnectClients(c)
                               ELSE Replied(DisconnectClients(c), c)
  BY DEF Disconnect
<1>8. /\ DisconnectClients(c) \in [Clients -> {"gone", "idle", "busy"}]
      /\ \A d \in Clients : DisconnectClients(c)[d] = "busy" <=>
            d = c \/ (client[d] = "busy" /\ d # op.who)
  <2>1. /\ Replied(client, op.who) \in [Clients -> {"gone", "idle", "busy"}]
        /\ \A d \in Clients : Replied(client, op.who)[d] = "busy" <=>
              client[d] = "busy" /\ d # op.who
    BY Replies DEF DeskInv, OpType
  <2> QED BY <1>3, <2>1
<1>9. assoc' = NoAssoc /\ scan' = scan /\ good' = good /\ client[c] = "idle"
  BY DEF Disconnect
<1>10. OpType'
  BY <1>7, <1>8, <1>9, ZeroProfile, Replies DEF DeskInv, OpType, NoDhcp, NoAssoc, Whoever
<1>11. Owned'
  <2>1. scan.who # c
    BY <1>9 DEF DeskInv, Owned, RequestsOwned
  <2>2. \A d \in Clients : client[d] = "busy" /\ d # op.who <=> d = scan.who
    BY <1>1, NetworkdAssumption DEF DeskInv, Owned, RequestsOwned
  <2>3. CASE forks
    BY <1>7, <1>8, <1>9, <2>1, <2>2, <2>3, NetworkdAssumption
    DEF DeskInv, Owned, RequestsOwned, NoAssoc, NoDhcp
  <2>4. CASE ~forks
    <3>1. \A d \in Clients : client'[d] = "busy" <=> d = scan.who
      BY <1>7, <1>8, <2>1, <2>2, <2>4, Replies
    <3> QED BY <1>7, <1>9, <2>4, <3>1, NetworkdAssumption
        DEF DeskInv, Owned, RequestsOwned, NoAssoc, NoDhcp
  <2> QED BY <2>3, <2>4
<1>12. WpaInv'
  BY <1>4, <1>7, <1>9 DEF DeskInv, WpaInv, Joining, NoAssoc, NoDhcp
<1> QED BY <1>5, <1>6, <1>10, <1>11, <1>12 DEF DeskInv, Kept

LEMMA ScanDesk ==
  ASSUME DeskInv, Kept, NEW c \in Clients, StartScan(c)
  PROVE  DeskInv'
<1>1. PICK stage \in ScanStages : scan' = [stage |-> stage, who |-> c]
  BY DEF StartScan
<1>2. stage \in {"wpa", "family"}
  BY DEF ScanStages
<1>3. RecType'
  BY DEF DeskInv, RecType, StartScan, recVars
<1>4. StType'
  BY DEF DeskInv, StType, StartScan, healthVars, State, States, Answers
<1>5. OpType'
  BY <1>1, <1>2 DEF DeskInv, OpType, StartScan, Whoever
<1>6. Owned'
  BY <1>1, <1>2, NetworkdAssumption DEF DeskInv, OpType, Owned, RequestsOwned, StartScan
<1>7. WpaInv'
  BY DEF DeskInv, WpaInv, Joining, StartScan
<1> QED BY <1>3, <1>4, <1>5, <1>6, <1>7 DEF DeskInv, Kept

LEMMA AdvancesDesk ==
  ASSUME DeskInv, Kept, DriverScanAdvances
  PROVE  DeskInv'
<1>1. RecType' /\ StType' /\ WpaInv'
  BY DEF DeskInv, RecType, StType, WpaInv, Joining, DriverScanAdvances, recVars, healthVars,
     radioVars
<1>2. scan' \in [stage : {"trigger", "dump"}, who : {scan.who}] /\ scan.stage # "none"
  BY DEF DeskInv, OpType, DriverScanAdvances
<1>3. OpType' /\ Owned'
  BY <1>2 DEF DeskInv, OpType, Owned, RequestsOwned, DriverScanAdvances, Whoever
<1> QED BY <1>1, <1>3 DEF DeskInv, Kept

LEMMA ScanEndsDesk ==
  ASSUME DeskInv, Kept, ScanEnds
  PROVE  DeskInv'
<1>1. RecType' /\ StType' /\ WpaInv'
  BY DEF DeskInv, RecType, StType, WpaInv, Joining, ScanEnds, recVars, healthVars, radioVars
<1>2. OpType'
  BY Replies DEF DeskInv, OpType, ScanEnds, NoScan, Whoever
<1>3. Owned'
  BY Replies, NetworkdAssumption DEF DeskInv, OpType, Owned, RequestsOwned, ScanEnds, NoScan
<1> QED BY <1>1, <1>2, <1>3 DEF DeskInv, Kept

LEMMA LeavesDesk ==
  ASSUME DeskInv, Kept, NEW c \in Clients, ClientLeaves(c)
  PROVE  DeskInv'
<1>0. /\ client' = [client EXCEPT ![c] = "gone"] /\ scan' = Disowned(scan, c)
      /\ assoc' = Disowned(assoc, c) /\ dhcp' = Disowned(dhcp, c)
  BY DEF ClientLeaves
<1>a. /\ assoc'.who = (IF assoc.who = c THEN NoClient ELSE assoc.who)
      /\ (assoc'.active <=> assoc.active) /\ assoc'.cand = assoc.cand
      /\ assoc' \in [active : BOOLEAN, prev : Profiles \cup {None},
                     cand : Profiles, who : Whoever]
  BY <1>0 DEF Disowned, DeskInv, OpType, Whoever
<1>d. /\ dhcp'.who = (IF dhcp.who = c THEN NoClient ELSE dhcp.who)
      /\ (dhcp'.active <=> dhcp.active) /\ (dhcp'.release <=> dhcp.release)
      /\ dhcp' \in [active : BOOLEAN, release : BOOLEAN, who : Whoever]
  BY <1>0 DEF Disowned, DeskInv, OpType, Whoever
<1>s. /\ scan'.who = (IF scan.who = c THEN NoClient ELSE scan.who)
      /\ scan'.stage = scan.stage
      /\ scan' \in [stage : {"none", "wpa", "family", "trigger", "dump"}, who : Whoever]
  BY <1>0 DEF Disowned, DeskInv, OpType, Whoever
<1>1. RecType' /\ StType'
  BY DEF DeskInv, RecType, StType, ClientLeaves, recVars, healthVars, radioVars
<1>2. OpType'
  BY <1>0, <1>a, <1>d, <1>s DEF DeskInv, OpType, Whoever
<1>3. Owned'
  <2>1. RequestsOwned'
    BY <1>0, <1>a, <1>d, <1>s, NetworkdAssumption DEF DeskInv, OpType, Owned, RequestsOwned
  <2> QED BY <2>1, <1>a, <1>d, <1>s DEF DeskInv, Owned
<1>4. WpaInv'
  BY <1>a, <1>d DEF DeskInv, WpaInv, Joining, ClientLeaves, radioVars
<1> QED BY <1>1, <1>2, <1>3, <1>4 DEF DeskInv, Kept

LEMMA JoinsDesk ==
  ASSUME DeskInv, Kept, NEW c \in Clients, ClientJoins(c)
  PROVE  DeskInv'
BY NetworkdAssumption DEF DeskInv, RecType, StType, OpType, Owned, RequestsOwned, WpaInv, Joining,
   ClientJoins, recVars, healthVars, radioVars, Kept

LEMMA RefreshDesk ==
  ASSUME DeskInv, Kept, NEW opens \in BOOLEAN, Refresh(opens)
  PROVE  DeskInv'
<1>0. netlink' \in BOOLEAN /\ chan' \in BOOLEAN
  BY DEF DeskInv, StType, Refresh, Answers
<1>1. PICK route \in Routes : st' = Refreshed(st, rec, wpa, kern, chan', route)
  BY DEF Refresh
<1>2. st' \in State
  BY <1>0, <1>1, SetupTypes, Refreshes DEF DeskInv, StType, RecType, WpaInv, Held, Sound
<1>3. RecType' /\ WpaInv' /\ OpType' /\ Owned'
  BY DEF DeskInv, RecType, WpaInv, Joining, OpType, Owned, RequestsOwned, Refresh, recVars, opVars
<1>4. StType'
  BY <1>0, <1>2 DEF DeskInv, StType, Refresh, healthVars
<1> QED BY <1>3, <1>4 DEF DeskInv, Kept

LEMMA LostDesk ==
  ASSUME DeskInv, Kept, MonitorLost
  PROVE  DeskInv'
<1>1. RecType' /\ WpaInv' /\ OpType' /\ Owned'
  BY DEF DeskInv, RecType, WpaInv, Joining, OpType, Owned, RequestsOwned, MonitorLost, recVars, opVars
<1>2. StType'
  BY DEF DeskInv, StType, MonitorLost, healthVars, State, States
<1> QED BY <1>1, <1>2 DEF DeskInv, Kept

LEMMA CommandDesk ==
  ASSUME DeskInv, Kept, NEW r, Sound(r), RecoveryCommand(r),
         conf' \in [enabled : BOOLEAN, auto : BOOLEAN]
  PROVE  DeskInv'
<1>0. /\ rec' = r /\ ledOn' = r.led /\ wpa' = AfterRadio(wpa, rec, r)
      /\ netlink' \in BOOLEAN /\ chan' \in BOOLEAN
  BY DEF RecoveryCommand, HelperEvents, DeskInv, StType, Answers
<1>1. RecType'
  BY <1>0 DEF RecType, Sound, Recovery
<1>2. PICK route \in Routes : st' = Refreshed(st, r, wpa', kern, chan', route)
  BY DEF RecoveryCommand
<1>3. Held(wpa', good) /\ wpa'.saved = wpa.saved /\ (wpa' = wpa \/ wpa'.cfgs = wpa.saved)
  BY <1>0, AfterHeld DEF DeskInv, WpaInv
<1>4. st' \in State
  BY <1>0, <1>2, <1>3, SetupTypes, Refreshes DEF DeskInv, StType, Held, Sound
<1>5. StType'
  BY <1>0, <1>4 DEF DeskInv, StType, RecoveryCommand, healthVars
<1>6. OpType' /\ Owned'
  BY DEF DeskInv, OpType, Owned, RequestsOwned, RecoveryCommand, opVars
<1>7. WpaInv'
  BY <1>3 DEF DeskInv, WpaInv, Joining, RecoveryCommand, opVars
<1> QED BY <1>1, <1>5, <1>6, <1>7 DEF DeskInv, Kept

LEMMA StopDesk ==
  ASSUME DeskInv, Kept, RecoveryStop
  PROVE  DeskInv'
<1>1. PICK down \in Works("netdown") : RecoveryCommand(Stop(rec, down))
  BY DEF RecoveryStop
<1>2. down \in BOOLEAN
  BY SetupTypes DEF DeskInv
<1>3. Sound(Stop(rec, down))
  BY <1>2, StopKeeps DEF DeskInv, RecType, Keeps
<1>4. conf' \in [enabled : BOOLEAN, auto : BOOLEAN]
  BY DEF RecoveryStop, DeskInv, RecType
<1> QED BY <1>1, <1>3, <1>4, CommandDesk

LEMMA ConfigureDesk ==
  ASSUME DeskInv, Kept, NEW enabled \in BOOLEAN, NEW auto \in BOOLEAN,
         RecoveryConfigure(enabled, auto)
  PROVE  DeskInv'
<1>1. PICK down \in Works("netdown") : RecoveryCommand(Configure(rec, enabled, auto, down))
  BY DEF RecoveryConfigure
<1>2. down \in BOOLEAN
  BY SetupTypes DEF DeskInv
<1>3. Sound(Configure(rec, enabled, auto, down))
  BY <1>2, ConfigureKeeps DEF DeskInv, RecType
<1>4. conf' \in [enabled : BOOLEAN, auto : BOOLEAN]
  BY DEF RecoveryConfigure
<1> QED BY <1>1, <1>3, <1>4, CommandDesk

LEMMA TickIs ==
  ASSUME DeskInv, NEW retry \in BOOLEAN, RecoveryTick(retry)
  PROVE  \E due \in BOOLEAN, out \in TickResults :
            /\ rec' = RecoveryTickOf(rec, Associated, due, retry, out)
            /\ ("netdown" \notin Faults => out.down)
            /\ Associated \in BOOLEAN
<1>1. Associated \in BOOLEAN
  BY DEF Associated, DeskInv, StType, State
<1> QED BY <1>1 DEF RecoveryTick, TickOutcomes

LEMMA TickDesk ==
  ASSUME DeskInv, Kept, NEW retry \in BOOLEAN, RecoveryTick(retry)
  PROVE  DeskInv'
<1>1. PICK due \in BOOLEAN, out \in TickResults :
        /\ rec' = RecoveryTickOf(rec, Associated, due, retry, out)
        /\ Associated \in BOOLEAN
  BY TickIs
<1>2. Sound(rec') /\ rec' \in Recovery
  BY <1>1, TickKeeps DEF DeskInv, RecType, Keeps, Sound
<1>3. RecType'
  BY <1>2 DEF DeskInv, RecType, RecoveryTick, Recovery
<1>4. Held(wpa', good) /\ wpa'.saved = wpa.saved /\ (wpa' = wpa \/ wpa'.cfgs = wpa.saved)
  BY AfterHeld DEF DeskInv, WpaInv, RecoveryTick
<1>5. StType'
  BY DEF DeskInv, StType, RecoveryTick, HelperEvents, healthVars
<1>6. OpType' /\ Owned'
  BY DEF DeskInv, OpType, Owned, RequestsOwned, RecoveryTick, opVars
<1>7. WpaInv'
  BY <1>4 DEF DeskInv, WpaInv, Joining, RecoveryTick, opVars
<1> QED BY <1>3, <1>5, <1>6, <1>7 DEF DeskInv, Kept

LEMMA PerformDesk ==
  ASSUME DeskInv, Kept, probe' \in BOOLEAN, NEW o, PerformHealth(o)
  PROVE  DeskInv'
<1>1. PICK works \in Works("iface") :
         /\ SetInterface(o.action, works)
         /\ wpa' = IF Answers(rec) /\ o.action \in {"reassociate", "if_up"}
                      /\ (o.action = "if_up" => works)
                     THEN Reassociate(wpa)
                   ELSE IF kern'.down THEN Reassociate(wpa) ELSE wpa
  BY DEF PerformHealth
<1>2. kern' \in [down : BOOLEAN, lease : BOOLEAN]
  BY <1>1 DEF SetInterface, DeskInv, StType
<1>3. wpa' = wpa \/ wpa' = Reassociate(wpa)
  BY <1>1
<1>4. Held(wpa', good) /\ wpa'.cfgs = wpa.cfgs /\ wpa'.saved = wpa.saved
  BY <1>3, IdleHeld DEF DeskInv, WpaInv
<1>5. RecType' /\ StType'
  BY <1>2 DEF DeskInv, RecType, StType, PerformHealth, recVars
<1>6. OpType' /\ Owned'
  BY DEF DeskInv, OpType, Owned, RequestsOwned, PerformHealth, opVars
<1>7. WpaInv'
  BY <1>4 DEF DeskInv, WpaInv, Joining, PerformHealth, opVars
<1> QED BY <1>5, <1>6, <1>7 DEF DeskInv, Kept

LEMMA HealthDesk ==
  ASSUME DeskInv, Kept, HealthStep
  PROVE  DeskInv'
<1>1. CASE HealthSuspends
  BY <1>1, PerformDesk DEF HealthSuspends
<1>2. CASE ProbeTimesOut
  BY <1>2, PerformDesk DEF ProbeTimesOut
<1>3. CASE ProbeAnswered
  BY <1>3, PerformDesk DEF ProbeAnswered
<1>4. ASSUME NEW due \in BOOLEAN, HealthTicks(due) PROVE DeskInv'
  <2>1. \E o : PerformHealth(o)
    BY <1>4 DEF HealthTicks
  <2>2. probe' \in BOOLEAN
    BY <1>4 DEF HealthTicks, DeskInv, StType
  <2> QED BY <2>1, <2>2, PerformDesk
<1> QED BY <1>1, <1>2, <1>3, <1>4 DEF HealthStep

LEMMA WpaStepsDesk ==
  ASSUME DeskInv, Kept, WpaSteps
  PROVE  DeskInv'
<1>0. Held(wpa', good) /\ wpa'.cfgs = wpa.cfgs /\ wpa'.saved = wpa.saved
  <2>1. CASE wpa' = [wpa EXCEPT !.done = TRUE]
    BY <2>1 DEF DeskInv, WpaInv, Held, Wpa
  <2>2. ASSUME NEW i \in wpa.cfgs, wpa' = [wpa EXCEPT !.sel = i]
        PROVE  Held(wpa', good) /\ wpa'.cfgs = wpa.cfgs /\ wpa'.saved = wpa.saved
    BY <2>2 DEF DeskInv, WpaInv, Held, Wpa
  <2>3. CASE wpa' = Reassociate(wpa)
    BY <2>3, IdleHeld DEF DeskInv, WpaInv
  <2> QED BY <2>1, <2>2, <2>3 DEF WpaSteps
<1>1. RecType' /\ StType' /\ OpType' /\ Owned'
  BY DEF DeskInv, RecType, StType, OpType, Owned, RequestsOwned, WpaSteps, recVars, healthVars,
     opVars
<1>2. WpaInv'
  BY <1>0 DEF DeskInv, WpaInv, Joining, WpaSteps, opVars
<1> QED BY <1>1, <1>2 DEF DeskInv, Kept

LEMMA ChildDesk ==
  ASSUME DeskInv, Kept, ApChildDies
  PROVE  DeskInv'
<1>1. rec' \in Recovery /\ (rec'.pending <=> rec.pending) /\ rec'.attempts = rec.attempts
  BY DEF DeskInv, RecType, Sound, Recovery, ApChildDies
<1>2. RecType'
  BY <1>1 DEF DeskInv, RecType, Sound, ApChildDies
<1>3. StType' /\ OpType' /\ Owned' /\ WpaInv'
  BY DEF DeskInv, StType, OpType, Owned, RequestsOwned, WpaInv, Joining, ApChildDies, healthVars,
     opVars, radioVars
<1> QED BY <1>2, <1>3 DEF DeskInv, Kept

LEMMA RestartDesk ==
  ASSUME DeskInv, Kept, NEW r, Sound(r), NEW w, Held(w, good), Restarted(r, w)
  PROVE  DeskInv'
<1>1. PICK psk \in Works("ap") :
        rec' = BootRecovery(conf, r.radio, r.alive, r.marker, w, psk)
  BY DEF Restarted
<1>2. psk \in BOOLEAN /\ r.radio \in {"sta", "ap"} /\ r.alive \in BOOLEAN /\ r.marker \in BOOLEAN
  BY SetupTypes DEF DeskInv, Sound, Recovery
<1>3. conf \in [enabled : BOOLEAN, auto : BOOLEAN]
  BY DEF DeskInv, RecType
<1>4. Sound(rec') /\ rec' \in Recovery
  BY <1>1, <1>2, <1>3, BootIs DEF Sound
<1>5. RecType'
  BY <1>3, <1>4 DEF RecType, Restarted
<1>6. PICK route \in Routes : st' = BootState(rec', w, kern, route)
  BY DEF Restarted
<1>7. st' \in State
  BY <1>4, <1>6, SetupTypes, BootStates DEF DeskInv, StType, Held
<1>8. StType'
  BY <1>7 DEF DeskInv, StType, Restarted, ResetHealth, Answers
<1>9. OpType' /\ Owned'
  BY ZeroProfile, NetworkdAssumption DEF OpType, Owned, RequestsOwned, Restarted, NoAssoc, NoDhcp,
     NoScan, Whoever
<1>10. WpaInv'
  BY DEF DeskInv, WpaInv, Joining, Restarted, NoAssoc, NoDhcp
<1> QED BY <1>5, <1>8, <1>9, <1>10 DEF DeskInv, Kept

LEMMA ShutDownIs ==
  ASSUME DeskInv, NEW down \in BOOLEAN
  PROVE  Sound(ShutDown(down))
BY StopKeeps DEF ShutDown, DeskInv, RecType, Keeps

LEMMA TermIs ==
  ASSUME DeskInv, Terminate
  PROVE  \E down \in Works("netdown"), w \in Wpa :
            down \in BOOLEAN /\ Held(w, good) /\ Restarted(ShutDown(down), w)
<1>1. PICK down \in Works("netdown") :
         LET r == ShutDown(down)
             w == AfterRadio(wpa, rec, r)
         IN  Restarted(r, IF assoc.active
                            THEN RestoreProfile(w, r, assoc.prev, assoc.cand, "none")
                            ELSE w)
  BY DEF Terminate
<1> DEFINE r == ShutDown(down)
           w == AfterRadio(wpa, rec, r)
           v == IF assoc.active THEN RestoreProfile(w, r, assoc.prev, assoc.cand, "none")
                ELSE w
<1>2. down \in BOOLEAN
  BY SetupTypes DEF DeskInv
<1>3. Held(w, good)
  BY AfterHeld DEF DeskInv, WpaInv
<1>4. Restarted(r, v)
  BY <1>1
<1> HIDE DEF w
<1>5. Held(v, good)
  BY <1>3, RestoreHeld DEF DeskInv, WpaInv
<1> HIDE DEF v
<1>6. v \in Wpa
  BY <1>5 DEF Held
<1> QED BY <1>2, <1>4, <1>5, <1>6

LEMMA StepDesk ==
  ASSUME DeskInv, Kept, Step
  PROVE  DeskInv'
<1>1. ASSUME NEW c \in Clients, ClientStep(c) PROVE DeskInv'
  BY <1>1, ScanDesk, StartsDesk, RejectedDesk, UnansweredDesk, DisconnectDesk, LeavesDesk,
     JoinsDesk DEF ClientStep
<1>2. CASE DriverScanAdvances \/ ScanEnds
  BY <1>2, AdvancesDesk, ScanEndsDesk
<1>3. CASE AssociationStep
  <2>1. CASE AssociationTimesOut \/ AssociationNotSaved
    BY <2>1, TimesOutDesk, NotSavedDesk
  <2>2. ASSUME NEW s \in BOOLEAN, AssociationSaved(s) PROVE DeskInv'
    BY <2>2, SavedDesk
  <2> QED BY <1>3, <2>1, <2>2 DEF AssociationStep
<1>4. CASE DhcpStep
  <2>1. ASSUME NEW s \in BOOLEAN, LeaseEnds(s) PROVE DeskInv'
    BY <2>1, LeaseDesk
  <2> QED BY <1>4, <2>1, ReleaseDesk DEF DhcpStep
<1>5. ASSUME NEW opens \in BOOLEAN, Refresh(opens) PROVE DeskInv'
  BY <1>5, RefreshDesk
<1>6. CASE MonitorLost \/ RecoveryStop
  BY <1>6, LostDesk, StopDesk
<1>7. ASSUME NEW enabled \in BOOLEAN, NEW auto \in setup.auto, RecoveryConfigure(enabled, auto)
      PROVE  DeskInv'
  <2>1. auto \in BOOLEAN
    BY SetupTypes DEF DeskInv
  <2> QED BY <1>7, <2>1, ConfigureDesk
<1>8. ASSUME NEW retry \in BOOLEAN, RecoveryTick(retry) PROVE DeskInv'
  BY <1>8, TickDesk
<1>9. CASE HealthStep
  BY <1>9, HealthDesk
<1>10. CASE WpaSteps \/ ApChildDies
  BY <1>10, WpaStepsDesk, ChildDesk
<1>11. CASE Terminate
  <2>1. PICK down \in BOOLEAN, w \in Wpa : Held(w, good) /\ Restarted(ShutDown(down), w)
    BY <1>11, TermIs
  <2> QED BY <2>1, ShutDownIs, RestartDesk
<1>12. CASE Crash
  BY <1>12, RestartDesk DEF Crash, DeskInv, RecType, WpaInv
<1> QED BY <1>1, <1>2, <1>3, <1>4, <1>5, <1>6, <1>7, <1>8, <1>9, <1>10, <1>11, <1>12 DEF Step

(***************************************************************************)
(* The ladder in the loop.                                                 *)
(***************************************************************************)
LEMMA ResetEarned ==
  ASSUME LadderInv, ResetHealth, guard' = guard, reboots' = reboots
  PROVE  LadderInv' /\ Earned
<1>1. FreshHealth \in Health /\ FreshHealth.phase = "idle"
  BY ThresholdAssumption DEF FreshHealth, Health, Phases, ProbeResults
<1> QED BY <1>1 DEF LadderInv, ResetHealth, Climbed, Earned, Ladder

LEMMA KeptEarned ==
  ASSUME LadderInv, UNCHANGED healthVars
  PROVE  LadderInv' /\ Earned
BY DEF LadderInv, healthVars, Climbed, Earned, Full

LEMMA StepEarned ==
  ASSUME DeskInv, LadderInv, Step
  PROVE  LadderInv' /\ Earned
<1>1. ASSUME NEW c \in Clients, ClientStep(c) PROVE LadderInv' /\ Earned
  <2>1. CASE Disconnect(c)
    BY <2>1, ResetEarned DEF Disconnect
  <2>2. CASE StartScan(c) \/ ConnectStarts(c) \/ ConnectRejected(c) \/ ConnectUnanswered(c)
             \/ ClientLeaves(c) \/ ClientJoins(c)
    BY <2>2, KeptEarned DEF StartScan, ConnectStarts, ConnectRejected, ConnectUnanswered,
       ClientLeaves, ClientJoins
  <2> QED BY <1>1, <2>1, <2>2 DEF ClientStep
<1>2. CASE DriverScanAdvances \/ ScanEnds \/ DhcpStep \/ MonitorLost \/ WpaSteps \/ ApChildDies
  BY <1>2, KeptEarned DEF DriverScanAdvances, ScanEnds, DhcpStep, LeaseEnds, ReleaseEnds,
     MonitorLost, WpaSteps, ApChildDies
<1>3. CASE AssociationStep
  <2>1. CASE AssociationTimesOut \/ AssociationNotSaved
    BY <2>1, KeptEarned DEF AssociationTimesOut, AssociationNotSaved
  <2>2. ASSUME NEW s, AssociationSaved(s) PROVE LadderInv' /\ Earned
    BY <2>2, ResetEarned DEF AssociationSaved
  <2> QED BY <1>3, <2>1, <2>2 DEF AssociationStep
<1>4. ASSUME NEW opens, Refresh(opens) PROVE LadderInv' /\ Earned
  BY <1>4, KeptEarned DEF Refresh
<1>5. ASSUME NEW r, RecoveryCommand(r) PROVE LadderInv' /\ Earned
  BY <1>5, KeptEarned DEF RecoveryCommand
<1>6. CASE RecoveryStop
  BY <1>5, <1>6 DEF RecoveryStop
<1>7. ASSUME NEW enabled, NEW auto, RecoveryConfigure(enabled, auto)
      PROVE  LadderInv' /\ Earned
  BY <1>5, <1>7 DEF RecoveryConfigure
<1>8. ASSUME NEW retry, RecoveryTick(retry) PROVE LadderInv' /\ Earned
  BY <1>8, KeptEarned DEF RecoveryTick
<1>9. CASE HealthStep
  <2>0. health \in Health /\ Climbed(health, tried)
    BY DEF LadderInv
  <2>1. CASE HealthSuspends \/ ProbeTimesOut \/ ProbeAnswered
    <3>1. \E result \in ProbeResults : PerformHealth(RecordProbe(health, result))
      BY <2>1 DEF HealthSuspends, ProbeTimesOut, ProbeAnswered, ProbeResults
    <3> QED BY <2>0, <3>1, RecordRung, PerformEarned
  <2>2. ASSUME NEW due \in BOOLEAN, HealthTicks(due) PROVE LadderInv' /\ Earned
    <3> DEFINE o == HealthTick(health, Associated, st.gw, due)
    <3>1. Associated \in BOOLEAN /\ st.gw \in BOOLEAN
      BY DEF Associated, DeskInv, StType, State
    <3>2. Rung(o, tried)
      BY <2>0, <3>1, TickRung
    <3>3. PerformHealth(o) \/ (o.action = "probe" /\ PerformHealth(RecordProbe(o.health, -1)))
      BY <2>2 DEF HealthTicks
    <3> HIDE DEF o
    <3>4. CASE o.action = "probe" /\ PerformHealth(RecordProbe(o.health, -1))
      <4>1. o.health \in Health /\ Climbed(o.health, tried)
        BY <3>2, <3>4 DEF Rung, Climbed, Full
      <4>2. -1 \in ProbeResults
        BY DEF ProbeResults
      <4> QED BY <3>4, <4>1, <4>2, RecordRung, PerformEarned
    <3> QED BY <3>2, <3>3, <3>4, PerformEarned
  <2> QED BY <1>9, <2>1, <2>2 DEF HealthStep
<1>10. ASSUME NEW r, NEW w, Restarted(r, w) PROVE LadderInv' /\ Earned
  BY <1>10, ResetEarned DEF Restarted
<1>11. CASE Terminate \/ Crash
  BY <1>10, <1>11 DEF Terminate, Crash
<1> QED BY <1>1, <1>2, <1>3, <1>4, <1>6, <1>7, <1>8, <1>9, <1>11 DEF Step

LEMMA InitLadder == ServiceInit => LadderInv
<1>1. FreshHealth \in Health /\ FreshHealth.phase = "idle"
  BY ThresholdAssumption DEF FreshHealth, Health, Phases, ProbeResults
<1> QED BY <1>1 DEF ServiceInit, Init, LadderInv, Climbed, Ladder

-----------------------------------------------------------------------------
(* The inductive invariant of the poll loop.                                *)
LoopInv == DeskInv /\ LadderInv

LEMMA StutterLoop ==
  ASSUME LoopInv, UNCHANGED vars
  PROVE  LoopInv' /\ Earned
<1>1. DeskInv'
  BY DEF LoopInv, DeskInv, RecType, StType, OpType, Owned, RequestsOwned, WpaInv, Joining,
     vars, recVars, healthVars, opVars, radioVars
<1>2. LadderInv' /\ Earned
  BY KeptEarned DEF LoopInv, vars
<1> QED BY <1>1, <1>2 DEF LoopInv

LEMMA LoopStep ==
  ASSUME LoopInv, [ServiceNext]_serviceVars
  PROVE  LoopInv' /\ Earned
<1>1. CASE InLoop(Step)
  <2>1. Kept /\ Step
    BY <1>1 DEF InLoop
  <2> QED BY <2>1, StepDesk, StepEarned DEF LoopInv
<1>2. CASE OnFiles(FileStep) \/ InScan(ListStep) \/ UNCHANGED serviceVars
  BY <1>2, StutterLoop DEF OnFiles, InScan, serviceVars
<1> QED BY <1>1, <1>2 DEF ServiceNext

LEMMA LoopHolds == ServiceSpec => []LoopInv
<1>1. ServiceInit => LoopInv
  BY InitDesk, InitLadder DEF LoopInv
<1>2. LoopInv /\ [ServiceNext]_serviceVars => LoopInv'
  BY LoopStep
<1> QED BY <1>1, <1>2, PTL DEF ServiceSpec

(* TypeOK: the record of the access point, the interface, the operations,   *)
(* the adapter slots, wpa_supplicant and the ladder keep their types        *)
(* through every handler of the poll loop, every restart and every death.   *)
THEOREM TypeCorrect == ServiceSpec => []TypeOK
<1>1. LoopInv => TypeOK
  BY DEF LoopInv, DeskInv, RecType, Sound, StType, OpType, Whoever, WpaInv, Held, LadderInv, Ladder,
     TypeOK
<1> QED BY <1>1, LoopHolds, PTL

(* RebootsEarned: perform_health_action asks for at most one recovery       *)
(* reboot past the persistent guard, restarts of the daemon included, and   *)
(* only when re-association, interface down and interface up were all tried *)
(* since the gateway last answered.                                         *)
THEOREM RebootsAlwaysEarned == ServiceSpec => RebootsEarned
<1>1. LoopInv /\ [ServiceNext]_serviceVars =>
        [reboots' > reboots =>
          reboots' = 1 /\ {"reassociate", "if_down", "if_up"} \subseteq tried]_serviceVars
  BY LoopStep DEF Earned
<1> QED BY <1>1, LoopHolds, PTL DEF ServiceSpec, RebootsEarned

(* ClientsHonest, but for the order of a scan's rows (ListHonest): a client *)
(* is busy exactly while one operation will answer it (dispatch_request,    *)
(* remove_client, finish_scan, finish_association, finish_dhcp), and        *)
(* restore_network_profile, the lease's verdict and its roll-back keep the  *)
(* profile of the last confirmed lease in the supplicant's file.            *)
THEOREM ClientsAlwaysHonest == ServiceSpec => [](ListHonest => ClientsHonest)
<1>1. LoopInv => RequestsOwned /\ WorkingProfileKept
  BY DEF LoopInv, DeskInv, Owned, WpaInv, Held, WorkingProfileKept
<1>2. LoopInv /\ TypeOK => (ListHonest => ClientsHonest)
  BY <1>1 DEF ClientsHonest
<1> QED BY <1>2, TypeCorrect, LoopHolds, PTL

-----------------------------------------------------------------------------
(***************************************************************************)
(* Surroundings in which the access point keeps its word.  Each condition  *)
(* leaves out a setup in which the code does not: a disconnect takes the   *)
(* attempt that carries a hand-over; the automatic fallback arms beside an *)
(* association; a daemon that dies, or ends with net-down failing, forgets *)
(* that the platform has the radio.                                        *)
(***************************************************************************)
Sheltered ==
    setup.part = "loop" /\ Configured =>
        /\ setup.auto = {FALSE} /\ "disconnect" \notin Requests
        /\ "crash" \notin Faults
        /\ "term" \in Faults => "netdown" \notin Faults

(***************************************************************************)
(* The access point.  Still is a record that is never touched: no marker   *)
(* path was given.                                                         *)
(***************************************************************************)
Still(r) == r.mode = "client" /\ ~r.net /\ ~r.alive /\ r.radio = "sta" /\ ~r.led

RecInv ==
    /\ Honest(rec) /\ (ledOn <=> rec.led)
    /\ ~Configured => Still(rec)
    /\ setup.part = "loop" /\ Configured => Quiet(rec) /\ ~conf.auto
    /\ "netdown" \notin Faults => Prompt(rec)

UseInv == (assoc.active => ~Radiating(rec.mode)) /\ HandoverOwned

ApInv == Sheltered /\ RecInv /\ UseInv

LEMMA RecKept ==
  ASSUME ApInv, Kept, NEW down, "netdown" \notin Faults => down,
         Configured => Keeps(rec, rec', down), ~Configured => rec' = rec,
         ledOn' <=> rec'.led, conf' = conf
  PROVE  Sheltered' /\ RecInv'
<1>1. CASE Configured
  BY <1>1 DEF ApInv, Sheltered, RecInv, Keeps, Kept, Configured, Faults, Requests
<1>2. CASE ~Configured
  BY <1>2 DEF ApInv, Sheltered, RecInv, Kept, Configured, Faults, Requests
<1> QED BY <1>1, <1>2

LEMMA RecSame ==
  ASSUME ApInv, Kept, UNCHANGED <<rec, ledOn, conf>>
  PROVE  Sheltered' /\ RecInv'
BY DEF ApInv, Sheltered, RecInv, Kept, Configured, Faults, Requests

LEMMA Beside ==
  ASSUME ApInv, Kept, UNCHANGED recVars, assoc'.active <=> assoc.active,
         dhcp'.active <=> dhcp.active, dhcp'.release <=> dhcp.release
  PROVE  ApInv'
<1>1. Sheltered' /\ RecInv'
  BY RecSame DEF recVars
<1> QED BY <1>1 DEF ApInv, UseInv, HandoverOwned, recVars

LEMMA DownWorks ==
  ASSUME NEW down \in Works("netdown")
  PROVE  "netdown" \notin Faults => down
BY DEF Works

LEMMA RearmedKeeps ==
  ASSUME NEW r, Sound(r)
  PROVE  /\ Keeps(r, Rearmed(r), TRUE) /\ Sound(Rearmed(r))
         /\ (Configured => Rearmed(r).mode # "handover") /\ (~Configured => Rearmed(r) = r)
<1>1. CASE Configured
  <2>1. Rearmed(r) = HandoverResult(r, FALSE, TRUE)
    BY <1>1 DEF Rearmed
  <2>2. TRUE \in BOOLEAN /\ FALSE \in BOOLEAN
    OBVIOUS
  <2>3. Keeps(r, HandoverResult(r, FALSE, TRUE), TRUE)
        /\ HandoverResult(r, FALSE, TRUE).mode # "handover"
    BY <2>2, ResultKeeps
  <2> QED BY <1>1, <2>1, <2>3 DEF Keeps
<1>2. CASE ~Configured
  BY <1>2 DEF Rearmed, Keeps
<1> QED BY <1>1, <1>2

\* An attempt fails: the record is armed again and no association runs.
LEMMA RearmedAp ==
  ASSUME DeskInv, ApInv, Kept, NEW down, "netdown" \notin Faults => down,
         NEW r, Sound(r), Configured => Keeps(rec, r, down), ~Configured => r = rec,
         rec' = Rearmed(r), ledOn' = rec'.led, conf' = conf, ~assoc'.active
  PROVE  ApInv'
<1>1. /\ Keeps(r, rec', TRUE) /\ (Configured => rec'.mode # "handover")
      /\ (~Configured => rec' = rec)
  BY RearmedKeeps
<1>2. Configured => Keeps(rec, rec', down)
  BY <1>1 DEF Keeps
<1>3. ledOn' <=> rec'.led
  OBVIOUS
<1>4. Sheltered' /\ RecInv'
  BY <1>1, <1>2, <1>3, RecKept
<1>5. rec'.mode # "handover"
  BY <1>1 DEF ApInv, RecInv, Still
<1> QED BY <1>4, <1>5 DEF ApInv, UseInv, HandoverOwned

LEMMA BeginAp ==
  ASSUME DeskInv, ApInv, NEW down \in Works("netdown")
  PROVE  LET r == ConnectRecovery(down)
         IN  /\ Sound(r) /\ (Configured => Keeps(rec, r, down)) /\ (~Configured => r = rec)
             /\ ~Radiating(r.mode) /\ ("netdown" \notin Faults => down)
<1>1. down \in BOOLEAN
  BY SetupTypes DEF DeskInv
<1>2. CASE Configured
  <2>1. Keeps(rec, HandoverBegin(rec, down), down) /\ ~Radiating(HandoverBegin(rec, down).mode)
    BY <1>1, BeginKeeps DEF DeskInv, RecType, ApInv, RecInv
  <2> QED BY <1>2, <2>1, DownWorks DEF ConnectRecovery, Keeps
<1>3. CASE ~Configured
  BY <1>3, DownWorks DEF ConnectRecovery, DeskInv, RecType, ApInv, RecInv, Still, Radiating
<1> QED BY <1>2, <1>3

LEMMA StartsAp ==
  ASSUME DeskInv, ApInv, Kept, NEW c, ConnectStarts(c)
  PROVE  ApInv'
<1>1. PICK down \in Works("netdown") :
        rec' = ConnectRecovery(down) /\ ledOn' = rec'.led /\ assoc'.active
  BY DEF ConnectStarts
<1>2. /\ (Configured => Keeps(rec, rec', down)) /\ (~Configured => rec' = rec)
      /\ ~Radiating(rec'.mode) /\ ("netdown" \notin Faults => down)
  BY <1>1, BeginAp
<1>3. conf' = conf /\ (ledOn' <=> rec'.led)
  BY <1>1 DEF ConnectStarts
<1>4. Sheltered' /\ RecInv'
  BY <1>2, <1>3, RecKept
<1> QED BY <1>1, <1>2, <1>4 DEF ApInv, UseInv, HandoverOwned

LEMMA RefusedAp ==
  ASSUME DeskInv, ApInv, Kept, NEW c, ConnectRejected(c) \/ ConnectUnanswered(c)
  PROVE  ApInv'
<1>1. PICK down \in Works("netdown") : rec' = Rearmed(ConnectRecovery(down)) /\ ledOn' = rec'.led
  BY DEF ConnectRejected, ConnectUnanswered
<1> DEFINE r == ConnectRecovery(down)
<1>2. /\ Sound(r) /\ (Configured => Keeps(rec, r, down)) /\ (~Configured => r = rec)
      /\ ("netdown" \notin Faults => down)
  BY BeginAp
<1>3. conf' = conf /\ ~assoc'.active
  BY DEF ConnectRejected, ConnectUnanswered, CanConnect, opVars
<1>4. rec' = Rearmed(r) /\ ledOn' = rec'.led
  BY <1>1
<1> HIDE DEF r
<1> QED BY <1>2, <1>3, <1>4, RearmedAp

LEMMA FailsAp ==
  ASSUME DeskInv, ApInv, Kept, rec' = Rearmed(rec), ledOn' = rec'.led, conf' = conf,
         ~assoc'.active
  PROVE  ApInv'
<1>1. Sound(rec) /\ Keeps(rec, rec, TRUE)
  BY DEF DeskInv, RecType, Keeps
<1> QED BY <1>1, RearmedAp

LEMMA AssociationAp ==
  ASSUME DeskInv, ApInv, Kept, AssociationStep
  PROVE  ApInv'
<1>1. CASE AssociationTimesOut \/ AssociationNotSaved
  BY <1>1, FailsAp DEF AssociationTimesOut, AssociationNotSaved, EndAssociation, NoAssoc
<1>2. CASE AssociationSaved(TRUE)
  <2>a. /\ assoc' = [assoc EXCEPT !.active = FALSE, !.who = NoClient]
        /\ dhcp' = [active |-> TRUE, release |-> FALSE, who |-> assoc.who]
        /\ rec' = rec /\ ledOn' = ledOn /\ conf' = conf
    BY <1>2 DEF AssociationSaved
  <2>b. ~assoc'.active
    BY <2>a DEF DeskInv, OpType
  <2>c. dhcp'.active /\ ~dhcp'.release
    BY <2>a
  <2>1. UNCHANGED <<rec, ledOn, conf>> /\ ~assoc'.active /\ dhcp'.active /\ ~dhcp'.release
    BY <2>a, <2>b, <2>c
  <2>2. Sheltered' /\ RecInv'
    BY <2>1, RecSame
  <2> QED BY <2>1, <2>2 DEF ApInv, UseInv, HandoverOwned
<1>3. CASE AssociationSaved(FALSE)
  BY <1>3, FailsAp DEF AssociationSaved, EndAssociation, NoAssoc
<1> QED BY <1>1, <1>2, <1>3 DEF AssociationStep

LEMMA EndDhcpAp ==
  ASSUME DeskInv, ApInv, Kept, NEW ok \in BOOLEAN, NEW down \in Works("netdown"),
         EndDhcp(ok, down), conf' = conf, ~assoc'.active
  PROVE  ApInv'
<1>1. down \in BOOLEAN
  BY SetupTypes DEF DeskInv
<1>2. Sound(rec)
  BY DEF DeskInv, RecType
<1>3. Configured => Keeps(rec, rec', down) /\ rec'.mode # "handover"
  BY <1>1, <1>2, ResultKeeps DEF EndDhcp
<1>4. (~Configured => rec' = rec) /\ (ledOn' <=> rec'.led)
  BY DEF EndDhcp
<1>5. Sheltered' /\ RecInv'
  BY <1>3, <1>4, RecKept, DownWorks
<1>6. rec'.mode # "handover"
  BY <1>3, <1>4 DEF ApInv, RecInv, Still
<1> QED BY <1>5, <1>6 DEF ApInv, UseInv, HandoverOwned

LEMMA DhcpAp ==
  ASSUME DeskInv, ApInv, Kept, DhcpStep
  PROVE  ApInv'
<1>1. ASSUME NEW s \in BOOLEAN, LeaseEnds(s) PROVE ApInv'
  <2>1. PICK saves \in Works("wpa"), down \in Works("netdown"), route \in Routes :
          EndDhcp(LeaseVerdict(s, saves).ok, down)
    BY <1>1 DEF LeaseEnds
  <2>2. saves \in BOOLEAN
    BY SetupTypes DEF DeskInv
  <2>3. LeaseVerdict(s, saves).ok \in BOOLEAN
    BY <1>1, <2>2, VerdictHeld DEF LeaseEnds, Joining
  <2>4. conf' = conf /\ ~assoc'.active
    BY <1>1 DEF LeaseEnds, NoAssoc
  <2> QED BY <2>1, <2>3, <2>4, EndDhcpAp
<1>2. CASE ReleaseEnds
  <2>1. PICK success \in Works("dhcp"), down \in Works("netdown") : EndDhcp(success, down)
    BY <1>2 DEF ReleaseEnds
  <2>2. success \in BOOLEAN
    BY SetupTypes DEF DeskInv
  <2>3. conf' = conf /\ ~assoc'.active
    BY <1>2 DEF ReleaseEnds, DeskInv, Owned
  <2> QED BY <2>1, <2>2, <2>3, EndDhcpAp
<1> QED BY <1>1, <1>2 DEF DhcpStep

LEMMA DisconnectAp ==
  ASSUME DeskInv, ApInv, Kept, setup.part = "loop", NEW c, Disconnect(c)
  PROVE  ApInv'
<1>1. ~Configured
  BY DEF ApInv, Sheltered, Disconnect
<1>2. CancelledOp.rec = rec
  BY <1>1 DEF CancelledOp, Rearmed
<1>3. rec' = rec /\ (ledOn' <=> rec'.led) /\ conf' = conf /\ ~assoc'.active
  BY <1>2 DEF Disconnect, NoAssoc
<1>4. Sheltered' /\ RecInv'
  BY <1>1, <1>3, RecKept
<1> QED BY <1>1, <1>3, <1>4 DEF ApInv, RecInv, Still, UseInv, HandoverOwned

LEMMA StopAp ==
  ASSUME DeskInv, ApInv, Kept, RecoveryStop
  PROVE  ApInv'
<1>1. PICK down \in Works("netdown") : RecoveryCommand(Stop(rec, down))
  BY DEF RecoveryStop
<1>2. down \in BOOLEAN /\ Sound(rec)
  BY SetupTypes DEF DeskInv, RecType
<1>3. Keeps(rec, rec', down) /\ rec'.mode = "stopped"
  BY <1>1, <1>2, StopKeeps DEF RecoveryCommand
<1>4. Configured /\ (ledOn' <=> rec'.led) /\ conf' = conf
  BY <1>1 DEF RecoveryCommand, RecoveryStop
<1>5. Sheltered' /\ RecInv'
  BY <1>3, <1>4, RecKept, DownWorks
<1> QED BY <1>3, <1>5 DEF ApInv, UseInv, HandoverOwned, Radiating

LEMMA ConfigureAp ==
  ASSUME DeskInv, ApInv, Kept, setup.part = "loop", NEW enabled \in BOOLEAN,
         NEW auto \in setup.auto, RecoveryConfigure(enabled, auto)
  PROVE  ApInv'
<1>1. PICK down \in Works("netdown") : RecoveryCommand(Configure(rec, enabled, auto, down))
  BY DEF RecoveryConfigure
<1>2. down \in BOOLEAN /\ Sound(rec) /\ auto \in BOOLEAN
  BY SetupTypes DEF DeskInv, RecType
<1>3. Configured /\ (ledOn' <=> rec'.led) /\ rec' = Configure(rec, enabled, auto, down)
  BY <1>1 DEF RecoveryCommand
<1>4. ~auto
  BY <1>3 DEF ApInv, Sheltered
<1>5. /\ Honest(rec') /\ (Prompt(rec) /\ down => Prompt(rec')) /\ Quiet(rec')
      /\ rec'.mode \in {rec.mode, "stopped"}
  BY <1>2, <1>3, <1>4, ConfigureKeeps DEF ApInv, RecInv
<1>6. ~conf'.auto
  BY <1>4 DEF RecoveryConfigure
<1>7. Sheltered' /\ RecInv'
  BY <1>3, <1>5, <1>6, DownWorks DEF ApInv, Sheltered, RecInv, Kept, Configured, Faults, Requests
<1>8. assoc' = assoc /\ dhcp' = dhcp
  BY <1>1 DEF RecoveryCommand, opVars
<1> QED BY <1>5, <1>7, <1>8 DEF ApInv, UseInv, HandoverOwned, Radiating

LEMMA TickAp ==
  ASSUME DeskInv, ApInv, Kept, setup.part = "loop", NEW retry \in BOOLEAN, RecoveryTick(retry)
  PROVE  ApInv'
<1>1. PICK due \in BOOLEAN, out \in TickResults :
        /\ rec' = RecoveryTickOf(rec, Associated, due, retry, out)
        /\ ("netdown" \notin Faults => out.down)
        /\ Associated \in BOOLEAN
  BY TickIs
<1>s. Sound(rec)
  BY DEF DeskInv, RecType
<1> DEFINE a == Associated
<1>a. a \in BOOLEAN /\ rec' = RecoveryTickOf(rec, a, due, retry, out)
  BY <1>1
<1> HIDE DEF a
<1>2. /\ Keeps(rec, rec', out.down)
      /\ (Quiet(rec) /\ ~Radiating(rec.mode) => rec'.mode = rec.mode)
      /\ (rec'.mode = "handover" => rec.mode = "handover")
  BY <1>s, <1>a, TickKeeps
<1>3. Configured /\ (ledOn' <=> rec'.led) /\ conf' = conf /\ assoc' = assoc /\ dhcp' = dhcp
  BY DEF RecoveryTick, opVars
<1>4. Sheltered' /\ RecInv'
  BY <1>1, <1>2, <1>3, RecKept
<1>5. Quiet(rec)
  BY <1>3 DEF ApInv, RecInv
<1> QED BY <1>2, <1>3, <1>4, <1>5 DEF ApInv, UseInv, HandoverOwned

LEMMA ChildAp ==
  ASSUME DeskInv, ApInv, Kept, ApChildDies
  PROVE  ApInv'
<1>1. /\ rec'.mode = rec.mode /\ (rec'.led <=> rec.led) /\ (rec'.counting <=> rec.counting)
      /\ (rec'.auto <=> rec.auto) /\ (rec'.net <=> rec.net) /\ rec'.radio = rec.radio
      /\ (rec'.kids <=> rec.kids) /\ ~rec'.alive /\ (rec'.enabled <=> rec.enabled)
      /\ (rec'.pending <=> rec.pending)
  BY DEF ApChildDies, DeskInv, RecType, Sound, Recovery
<1>2. ledOn' = ledOn /\ conf' = conf /\ assoc' = assoc /\ dhcp' = dhcp
  BY DEF ApChildDies, opVars
<1>3. Honest(rec')
  BY <1>1 DEF ApInv, RecInv, Honest, Owed, Backed, Childless, Lit, Willing, Serving
<1>4. RecInv'
  BY <1>1, <1>2, <1>3 DEF ApInv, RecInv, Still, Quiet, Prompt, Serving, Kept, Configured, Faults
<1>5. Sheltered'
  BY DEF ApInv, Sheltered, Kept, Configured, Faults, Requests
<1> QED BY <1>1, <1>2, <1>4, <1>5 DEF ApInv, UseInv, HandoverOwned

LEMMA RestartAp ==
  ASSUME DeskInv, ApInv, Kept, NEW r, Sound(r), r.radio = "sta", ~r.alive,
         NEW w, Restarted(r, w)
  PROVE  ApInv'
<1>1. PICK psk \in Works("ap") :
        rec' = BootRecovery(conf, r.radio, r.alive, r.marker, w, psk)
  BY DEF Restarted
<1>2. psk \in BOOLEAN /\ r.radio \in {"sta", "ap"} /\ r.alive \in BOOLEAN /\ r.marker \in BOOLEAN
  BY SetupTypes DEF DeskInv, Sound, Recovery
<1>3. conf \in [enabled : BOOLEAN, auto : BOOLEAN]
  BY DEF DeskInv, RecType
<1>4. /\ rec'.radio = "sta" /\ ~rec'.alive /\ ~rec'.net /\ ~rec'.led
      /\ rec'.mode \in {"client", "armed", "unavailable"}
      /\ (~Configured => rec'.mode = "client")
      /\ Honest(rec') /\ Prompt(rec') /\ (~conf.auto => Quiet(rec'))
  BY <1>1, <1>2, <1>3, BootIs
<1>5. ~ledOn' /\ conf' = conf /\ ~assoc'.active
  BY DEF Restarted, NoAssoc
<1>6. RecInv'
  BY <1>4, <1>5 DEF ApInv, RecInv, Still, Kept, Configured, Faults
<1>7. Sheltered'
  BY DEF ApInv, Sheltered, Kept, Configured, Faults, Requests
<1> QED BY <1>4, <1>5, <1>6, <1>7 DEF ApInv, UseInv, HandoverOwned

LEMMA TermAp ==
  ASSUME DeskInv, ApInv, Kept, setup.part = "loop", Terminate
  PROVE  ApInv'
<1>1. PICK down \in Works("netdown"), w \in Wpa :
        down \in BOOLEAN /\ Held(w, good) /\ Restarted(ShutDown(down), w)
  BY TermIs
<1> DEFINE r == ShutDown(down)
<1>2. Sound(r)
  BY <1>1, ShutDownIs
<1>3. r.radio = "sta" /\ ~r.alive
  <2>1. CASE ~Configured
    BY <2>1 DEF ShutDown, ApInv, RecInv, Still
  <2>2. CASE Configured /\ rec.mode \in {"active", "starting", "armed", "handover"}
    <3>1. r = Stop(rec, down)
      BY <2>2 DEF ShutDown
    <3>2. down
      BY <2>2, <1>1, DownWorks DEF ApInv, Sheltered, Terminate
    <3>3. Sound(rec) /\ Honest(rec)
      BY DEF DeskInv, RecType, ApInv, RecInv
    <3>4. Honest(r) /\ Prompt(r) /\ r.mode = "stopped"
      BY <1>1, <3>1, <3>2, <3>3, StopKeeps DEF Honest
    <3> HIDE DEF r
    <3> QED BY <1>2, <3>4 DEF Honest, Owed, Childless, Prompt, Serving, Sound, Recovery
  <2>3. CASE Configured /\ rec.mode \notin {"active", "starting", "armed", "handover"}
    <3>1. r = rec
      BY <2>3 DEF ShutDown
    <3>2. Honest(rec) /\ Prompt(rec) /\ Sound(rec)
      BY <2>3 DEF DeskInv, RecType, ApInv, RecInv, Sheltered, Terminate
    <3> QED BY <2>3, <3>1, <3>2 DEF Honest, Owed, Childless, Prompt, Serving, Sound, Recovery
  <2> QED BY <2>1, <2>2, <2>3
<1> HIDE DEF r
<1>4. Restarted(r, w)
  BY <1>1 DEF r
<1> QED BY <1>2, <1>3, <1>4, RestartAp

LEMMA CrashAp ==
  ASSUME DeskInv, ApInv, Kept, setup.part = "loop", Crash
  PROVE  ApInv'
<1>1. ~Configured
  BY DEF ApInv, Sheltered, Crash
<1>2. Sound(rec) /\ rec.radio = "sta" /\ ~rec.alive
  BY <1>1 DEF DeskInv, RecType, ApInv, RecInv, Still
<1> QED BY <1>2, RestartAp DEF Crash

LEMMA StepAp ==
  ASSUME DeskInv, ApInv, Kept, setup.part = "loop", Step
  PROVE  ApInv'
<1>1. ASSUME NEW c \in Clients, ClientStep(c) PROVE ApInv'
  <2>1. CASE ClientLeaves(c)
    <3>1. /\ (assoc'.active <=> assoc.active) /\ (dhcp'.active <=> dhcp.active)
          /\ (dhcp'.release <=> dhcp.release)
      BY <2>1 DEF ClientLeaves, Disowned, DeskInv, OpType
    <3> QED BY <2>1, <3>1, Beside DEF ClientLeaves
  <2>2. CASE StartScan(c) \/ ClientJoins(c)
    BY <2>2, Beside DEF StartScan, ClientJoins
  <2>3. CASE Disconnect(c)
    BY <2>3, DisconnectAp
  <2> QED BY <1>1, <2>1, <2>2, <2>3, StartsAp, RefusedAp DEF ClientStep
<1>2. CASE DriverScanAdvances \/ ScanEnds \/ MonitorLost \/ WpaSteps
  BY <1>2, Beside DEF DriverScanAdvances, ScanEnds, MonitorLost, WpaSteps, opVars
<1>3. CASE AssociationStep \/ DhcpStep
  BY <1>3, AssociationAp, DhcpAp
<1>4. ASSUME NEW opens, Refresh(opens) PROVE ApInv'
  BY <1>4, Beside DEF Refresh, opVars
<1>5. CASE RecoveryStop \/ ApChildDies
  BY <1>5, StopAp, ChildAp
<1>6. ASSUME NEW enabled \in BOOLEAN, NEW auto \in setup.auto, RecoveryConfigure(enabled, auto)
      PROVE  ApInv'
  BY <1>6, ConfigureAp
<1>7. ASSUME NEW retry \in BOOLEAN, RecoveryTick(retry) PROVE ApInv'
  BY <1>7, TickAp
<1>8. CASE HealthStep
  <2>1. \E o : PerformHealth(o)
    BY <1>8 DEF HealthStep, HealthSuspends, ProbeTimesOut, ProbeAnswered, HealthTicks
  <2> QED BY <2>1, Beside DEF PerformHealth, opVars
<1>9. CASE Terminate \/ Crash
  BY <1>9, TermAp, CrashAp
<1> QED BY <1>1, <1>2, <1>3, <1>4, <1>5, <1>6, <1>7, <1>8, <1>9 DEF Step

LEMMA InitAp ==
  ASSUME ServiceInit, Sheltered
  PROVE  ApInv
<1>1. PICK m \in setup.marker, psk \in Works("ap") :
        rec = BootRecovery(conf, "sta", FALSE, m, wpa, psk)
  BY DEF ServiceInit, Init
<1>2. DeskInv
  BY InitDesk
<1>3. m \in BOOLEAN /\ psk \in BOOLEAN /\ conf \in [enabled : BOOLEAN, auto : BOOLEAN]
  BY <1>2, SetupTypes DEF DeskInv, RecType
<1> DEFINE radio == "sta"
           alive == FALSE
<1>4. /\ alive \in BOOLEAN /\ ~alive /\ radio \in {"sta", "ap"} /\ radio = "sta"
      /\ rec = BootRecovery(conf, radio, alive, m, wpa, psk)
  BY <1>1
<1> HIDE DEF radio, alive
<1>5. /\ rec.radio = "sta" /\ ~rec.alive /\ ~rec.net /\ ~rec.led
      /\ rec.mode \in {"client", "armed", "unavailable"}
      /\ (~Configured => rec.mode = "client")
      /\ Honest(rec) /\ Prompt(rec) /\ (~conf.auto => Quiet(rec))
  BY <1>3, <1>4, BootIs
<1>6. conf.auto \in setup.auto /\ ~ledOn /\ ~assoc.active
  BY DEF ServiceInit, Init, NoAssoc
<1> QED BY <1>5, <1>6 DEF ApInv, RecInv, UseInv, HandoverOwned, Still, Sheltered

LEMMA ApStep ==
  ASSUME DeskInv, ApInv, [ServiceNext]_serviceVars
  PROVE  ApInv'
<1>1. CASE InLoop(Step)
  BY <1>1, StepAp DEF InLoop
<1>2. ASSUME UNCHANGED vars PROVE ApInv'
  <2>1. Kept /\ UNCHANGED recVars /\ assoc' = assoc /\ dhcp' = dhcp
    BY <1>2 DEF vars, Kept, opVars
  <2> QED BY <2>1, Beside
<1>3. CASE OnFiles(FileStep) \/ InScan(ListStep) \/ UNCHANGED serviceVars
  BY <1>2, <1>3 DEF OnFiles, InScan, serviceVars
<1> QED BY <1>1, <1>3 DEF ServiceNext

LEMMA ApHolds == ServiceSpec /\ Sheltered => []ApInv
<1>1. LoopInv /\ ApInv /\ [ServiceNext]_serviceVars => ApInv'
  BY ApStep DEF LoopInv
<1>2. ServiceInit /\ Sheltered => ApInv
  BY InitAp
<1> QED BY <1>1, <1>2, LoopHolds, PTL DEF ServiceSpec

-----------------------------------------------------------------------------
(***************************************************************************)
(* Surroundings in which the files keep theirs: nothing interrupts the two *)
(* renames that replace the settings, and no power cut follows a rename    *)
(* that a failed or missing synchronisation left on its way to flash.      *)
(***************************************************************************)
Unmixed ==
    setup.part = "files" =>
        /\ "torn" \notin Faults
        /\ "power" \in Faults => "crash" \notin Faults /\ "file" \notin Faults

(***************************************************************************)
(* The files.  Old is the setting that a roll-back puts back, InForce the  *)
(* one the daemon runs with.                                               *)
(***************************************************************************)
Jobs == [step : {"boot", "idle", "look", "psk_rename", "psk_sync", "publish",
                 "conf_write", "conf_backup", "conf_rename", "conf_sync"},
         why : {"none", "arm", "serve", "prepare", "reveal", "configure"},
         key : 0 .. Secrets, want : Settings \cup {"none"}, backed : BOOLEAN]

Effect(c) == IF c = "off" THEN "off" ELSE "on"
InForce == IF mem.enabled THEN "on" ELSE "off"
Storing == job.step \in {"conf_write", "conf_backup", "conf_rename", "conf_sync"}
Replacing == job.step \in {"conf_rename", "conf_sync"}
Old == IF ~Replacing THEN dir.conf ELSE IF job.backed THEN dir.bak ELSE "none"

KeyInv ==
    /\ word.told # 0 => dir.psk = word.told
    /\ word.ap # 0 => dir.psk = word.ap
    /\ job.step = "psk_rename" => dir.psk = 0 /\ job.key # 0
    /\ job.step = "psk_sync" =>
          dir.psk = job.key /\ job.key # 0 /\ word.told = 0 /\ word.ap = 0
    /\ job.step = "publish" => dir.psk = job.key /\ job.key # 0
    /\ "power" \in Faults /\ dir.psk # 0 /\ job.step # "psk_sync" => disk.psk = dir.psk

ConfInv ==
    /\ mem.mode = "off" <=> job.step = "boot"
    /\ Storing => job.want \in word.owner /\ job.want \in Settings
    /\ job.step \in {"conf_write", "conf_backup"} => ~job.backed
    /\ job.step = "conf_rename" => dir.conf = "none"
    /\ job.step = "conf_sync" => dir.conf = job.want
    /\ job.step = "conf_backup" => dir.conf # "none"
    /\ mem.mode # "off" => Effect(Old) = InForce /\ InForce \in word.owner
    /\ mem.mode = "off" => Effect(dir.conf) \in word.owner
    /\ "power" \in Faults =>
          disk.conf = Old \/ (job.step = "conf_sync" /\ disk.conf = job.want)

FilesInv == FileType /\ job \in Jobs /\ KeyInv /\ ConfInv

\* The surroundings without a replacement that is interrupted.
Calm ==
    /\ "torn" \notin Faults /\ Faults' = Faults
    /\ "power" \in Faults => "crash" \notin Faults /\ "file" \notin Faults

LEMMA IdleJob == 0 \in 0 .. Secrets /\ NoJob \in Jobs /\ NoJob.step = "idle"
<1>1. 0 \in 0 .. Secrets
  BY SecretsAssumption
<1>2. NoJob \in Jobs
  BY <1>1 DEF NoJob, Jobs
<1> QED BY <1>1, <1>2 DEF NoJob

LEMMA DoingIs ==
  ASSUME NEW step \in {"boot", "look", "conf_write"},
         NEW why \in {"none", "arm", "serve", "prepare", "reveal", "configure"}
  PROVE  /\ Doing(step, why) \in Jobs /\ Doing(step, why).step = step
         /\ ~Doing(step, why).backed
BY IdleJob DEF Doing, Jobs, NoJob

LEMMA BootsFiles ==
  ASSUME FilesInv, Calm, NEW read, read, NEW marker, Boots(read, marker)
  PROVE  FilesInv'
<1>1. /\ mem' = [enabled |-> Load(read), mode |-> "client"]
      /\ job' = (IF MarkerCheck(marker) /\ mem'.enabled THEN Doing("look", "arm") ELSE NoJob)
      /\ dir' = dir /\ disk' = disk /\ word' = word /\ job.step = "boot"
  BY DEF Boots
<1>2. Load(read) <=> Effect(dir.conf) = "on"
  BY DEF Load, Effect, FilesInv, FileType, Files, Settings
<1> DEFINE on == Load(read)
<1>3. on \in BOOLEAN
  BY DEF Load
<1>4. mem' = [enabled |-> on, mode |-> "client"] /\ (on <=> Effect(dir.conf) = "on")
  BY <1>1, <1>2
<1> HIDE DEF on
<1>5. /\ job'.step \in {"look", "idle"} /\ job' \in Jobs
  BY <1>1, IdleJob, DoingIs
<1>6. FileType'
  <2>1. mem' \in [enabled : BOOLEAN, mode : {"off", "client", "armed", "active",
                                            "unavailable", "stopped"}]
    BY <1>3, <1>4
  <2>2. job'.key \in 0 .. Secrets /\ job'.backed \in BOOLEAN
    BY <1>5 DEF Jobs
  <2> QED BY <1>1, <2>1, <2>2 DEF FilesInv, FileType
<1>7. KeyInv'
  BY <1>1, <1>5 DEF FilesInv, KeyInv, Calm
<1>8. ConfInv'
  <2>1. mem.mode = "off" /\ ~Replacing
    BY <1>1 DEF FilesInv, ConfInv, Replacing
  <2>2. Effect(dir.conf) \in word.owner /\ Effect(dir.conf) \in {"on", "off"} /\ Old = dir.conf
    BY <2>1 DEF FilesInv, ConfInv, Old, Effect
  <2>3. (mem'.enabled <=> on) /\ mem'.mode = "client"
    BY <1>3, <1>4
  <2>4. ~Storing' /\ ~Replacing' /\ Old' = dir.conf /\ Effect(Old)' = Effect(dir.conf)
    BY <1>1, <1>5 DEF Storing, Replacing, Old, Effect
  <2>5. InForce' = Effect(dir.conf)
    BY <1>4, <2>2, <2>3 DEF InForce
  <2>6. "power" \in Faults' => disk'.conf = Old'
    BY <1>1, <2>1, <2>2, <2>4 DEF FilesInv, ConfInv, Calm
  <2> QED BY <1>1, <1>5, <2>2, <2>3, <2>4, <2>5, <2>6 DEF ConfInv, Storing
<1> QED BY <1>5, <1>6, <1>7, <1>8 DEF FilesInv

\* A job begins or ends without a file, a password or a setting changing.
LEMMA NextJob ==
  ASSUME FilesInv, Calm, UNCHANGED <<dir, disk, word>>, job.step # "boot", job' \in Jobs,
         job'.step \in {"idle", "look"}, ~Storing,
         job.step # "psk_sync", mem'.enabled <=> mem.enabled, mem' \in [enabled : BOOLEAN,
           mode : {"client", "armed", "active", "unavailable", "stopped"}]
  PROVE  FilesInv'
<1>1. FileType'
  BY DEF FilesInv, FileType, Jobs
<1>2. KeyInv'
  BY DEF FilesInv, KeyInv, Calm
<1>3. ConfInv'
  BY DEF FilesInv, ConfInv, Calm, Storing, Replacing, Old, InForce, Effect
<1> QED BY <1>1, <1>2, <1>3 DEF FilesInv

LEMMA Awake ==
  ASSUME FilesInv, job.step # "boot"
  PROVE  mem \in [enabled : BOOLEAN,
                  mode : {"client", "armed", "active", "unavailable", "stopped"}]
BY DEF FilesInv, FileType, ConfInv

LEMMA AsksFiles ==
  ASSUME FilesInv, Calm, NEW why \in {"prepare", "reveal", "serve"},
         job.step = "idle", job' = Doing("look", why), UNCHANGED <<dir, disk, mem, word>>
  PROVE  FilesInv'
<1>1. job' \in Jobs /\ job'.step = "look"
  BY DoingIs
<1> QED BY <1>1, Awake, NextJob DEF Storing

LEMMA RefusedIs ==
  ASSUME FilesInv, job.step # "boot", Refused
  PROVE  /\ job' \in Jobs /\ job'.step = "idle" /\ (mem'.enabled <=> mem.enabled)
         /\ mem' \in [enabled : BOOLEAN,
                      mode : {"client", "armed", "active", "unavailable", "stopped"}]
<1>1. job' \in Jobs /\ job'.step = "idle"
  BY IdleJob DEF Refused
<1> QED BY <1>1, Awake DEF Refused

LEMMA FoundIs ==
  ASSUME FilesInv, job.step # "boot", NEW key \in 0 .. Secrets, Found(key)
  PROVE  /\ job' \in Jobs /\ job'.step \in {"idle", "publish"}
         /\ (job'.step = "publish" => job'.key = key) /\ (mem'.enabled <=> mem.enabled)
         /\ mem' \in [enabled : BOOLEAN,
                      mode : {"client", "armed", "active", "unavailable", "stopped"}]
<1>2. job' \in Jobs /\ job'.step \in {"idle", "publish"}
      /\ (job'.step = "publish" => job'.key = key)
  BY IdleJob DEF Found, Jobs, FilesInv
<1> QED BY <1>2, Awake DEF Found

\* The password that was found is told, used or neither.
LEMMA FoundFiles ==
  ASSUME FilesInv, Calm, ~Storing, job.step # "boot", NEW key \in 0 .. Secrets, key # 0,
         dir.psk = key, Found(key), word' = Told(key), dir' = dir,
         disk'.psk = dir.psk \/ (disk' = disk /\ job.step # "psk_sync"), disk' \in Files,
         disk'.conf = disk.conf \/ disk'.conf = dir.conf
  PROVE  FilesInv'
<1>1. /\ job' \in Jobs /\ job'.step \in {"idle", "publish"}
      /\ (job'.step = "publish" => job'.key = key) /\ (mem'.enabled <=> mem.enabled)
      /\ mem' \in [enabled : BOOLEAN,
                   mode : {"client", "armed", "active", "unavailable", "stopped"}]
  BY FoundIs
<1>2. /\ word'.told \in {word.told, key} /\ word'.ap = word.ap /\ word'.made = word.made
      /\ word'.owner = word.owner
      /\ word' \in [told : 0 .. Secrets, ap : 0 .. Secrets,
                    made : 0 .. Secrets, owner : SUBSET Settings]
  BY DEF Told, FilesInv, FileType
<1>3. FileType'
  BY <1>1, <1>2 DEF FilesInv, FileType, Jobs
<1>4. KeyInv'
  BY <1>1, <1>2 DEF FilesInv, KeyInv, Calm
<1>5. ConfInv'
  BY <1>1, <1>2 DEF FilesInv, ConfInv, Calm, Storing, Replacing, Old, InForce, Effect
<1> QED BY <1>1, <1>3, <1>4, <1>5 DEF FilesInv

LEMMA LookUpFiles ==
  ASSUME FilesInv, Calm, NEW ok, LookUp(ok)
  PROVE  FilesInv'
<1>1. job.step = "look" /\ dir' = dir /\ disk' = disk /\ ~Storing
  BY DEF LookUp, Storing
<1>2. CASE Refused /\ word' = word
  BY <1>1, <1>2, RefusedIs, NextJob
<1>3. CASE dir.psk # 0 /\ Found(dir.psk) /\ word' = Told(dir.psk)
  <2>1. dir.psk \in 0 .. Secrets /\ disk \in Files
    BY DEF FilesInv, FileType, Files
  <2> QED BY <1>1, <1>3, <2>1, FoundFiles
<1>4. CASE Generated
  <2>1. /\ word'.told = word.told /\ word'.ap = word.ap /\ word'.owner = word.owner
        /\ word' \in [told : 0 .. Secrets, ap : 0 .. Secrets,
                      made : 0 .. Secrets, owner : SUBSET Settings]
    BY <1>4, SecretsAssumption DEF Generated, FilesInv, FileType
  <2>2. /\ job' \in Jobs /\ job'.step = "psk_rename" /\ job'.key # 0
    <3> DEFINE key == word.made + 1
    <3>1. key \in 0 .. Secrets /\ key # 0
      BY <1>4, SecretsAssumption DEF Generated, FilesInv, FileType
    <3>2. job' = [job EXCEPT !.step = "psk_rename", !.key = key]
      BY <1>4 DEF Generated
    <3> HIDE DEF key
    <3> QED BY <3>1, <3>2 DEF FilesInv, Jobs
  <2>3. mem' = mem /\ dir.psk = 0
    BY <1>4 DEF Generated
  <2>4. FileType'
    BY <1>1, <2>1, <2>2, <2>3 DEF FilesInv, FileType, Jobs
  <2>5. KeyInv'
    BY <1>1, <2>1, <2>2, <2>3 DEF FilesInv, KeyInv, Calm
  <2>6. ConfInv'
    BY <1>1, <2>1, <2>2, <2>3
       DEF FilesInv, ConfInv, Calm, Storing, Replacing, Old, InForce, Effect
  <2> QED BY <2>2, <2>4, <2>5, <2>6 DEF FilesInv
<1> QED BY <1>2, <1>3, <1>4 DEF LookUp

LEMMA PskRenameFiles ==
  ASSUME FilesInv, Calm, NEW ok, PskRename(ok)
  PROVE  FilesInv'
<1>1. job.step = "psk_rename" /\ disk' = disk /\ word' = word /\ ~Storing
  BY DEF PskRename, Storing
<1>2. CASE Refused /\ dir' = dir
  BY <1>1, <1>2, RefusedIs, NextJob
<1>3. CASE /\ dir' = [dir EXCEPT !.psk = job.key]
           /\ job' = [job EXCEPT !.step = "psk_sync"] /\ mem' = mem
  <2>1. /\ dir' \in Files /\ dir'.psk = job.key /\ dir'.conf = dir.conf /\ dir'.bak = dir.bak
    BY <1>3 DEF FilesInv, FileType, Files
  <2>2. /\ job' \in Jobs /\ job'.step = "psk_sync" /\ job'.key = job.key
    BY <1>3 DEF FilesInv, Jobs
  <2>3. job.key # 0 /\ word.told = 0 /\ word.ap = 0
    BY <1>1 DEF FilesInv, KeyInv, FileType
  <2>4. FileType'
    BY <1>1, <1>3, <2>1, <2>2 DEF FilesInv, FileType, Jobs
  <2>5. KeyInv'
    BY <1>1, <2>1, <2>2, <2>3 DEF KeyInv
  <2>6. ConfInv'
    BY <1>1, <1>3, <2>1, <2>2
       DEF FilesInv, ConfInv, Calm, Storing, Replacing, Old, InForce, Effect
  <2> QED BY <2>2, <2>4, <2>5, <2>6 DEF FilesInv
<1> QED BY <1>2, <1>3 DEF PskRename

LEMMA PskSyncFiles ==
  ASSUME FilesInv, Calm, NEW ok, PskSync(ok)
  PROVE  FilesInv'
<1>1. job.step = "psk_sync" /\ ~Storing
  BY DEF PskSync, Storing
<1>2. dir.psk = job.key /\ job.key # 0 /\ word.told = 0 /\ word.ap = 0 /\ dir \in Files
      /\ job.key \in 0 .. Secrets /\ disk \in Files
  BY <1>1 DEF FilesInv, KeyInv, FileType
<1>3. CASE disk' = dir /\ dir' = dir /\ Found(job.key) /\ word' = Told(job.key)
  BY <1>1, <1>2, <1>3, FoundFiles
<1>4. CASE dir' = [dir EXCEPT !.psk = 0] /\ Refused /\ UNCHANGED <<disk, word>>
  <2>1. /\ dir' \in Files /\ dir'.psk = 0 /\ dir'.conf = dir.conf /\ dir'.bak = dir.bak
    BY <1>2, <1>4, IdleJob DEF Files
  <2>2. /\ job' \in Jobs /\ job'.step = "idle" /\ (mem'.enabled <=> mem.enabled)
        /\ mem' \in [enabled : BOOLEAN,
                     mode : {"client", "armed", "active", "unavailable", "stopped"}]
    BY <1>1, <1>4, RefusedIs
  <2>3. FileType'
    BY <1>4, <2>1, <2>2 DEF FilesInv, FileType, Jobs
  <2>4. KeyInv'
    BY <1>2, <1>4, <2>1, <2>2 DEF KeyInv
  <2>5. ConfInv'
    BY <1>1, <1>4, <2>1, <2>2
       DEF FilesInv, ConfInv, Calm, Storing, Replacing, Old, InForce, Effect
  <2> QED BY <2>2, <2>3, <2>4, <2>5 DEF FilesInv
<1> QED BY <1>3, <1>4 DEF PskSync, SyncParent

LEMMA PublishFiles ==
  ASSUME FilesInv, Calm, NEW ok, Publish(ok)
  PROVE  FilesInv'
<1>1. job.step = "publish" /\ ~Storing /\ dir' = dir /\ disk' = disk /\ job' = NoJob
  BY DEF Publish, Storing
<1>2. /\ mem' \in [enabled : BOOLEAN,
                   mode : {"client", "armed", "active", "unavailable", "stopped"}]
      /\ (mem'.enabled <=> mem.enabled)
  BY <1>1, Awake DEF Publish
<1>3. job.key \in 0 .. Secrets /\ dir.psk = job.key
  BY <1>1 DEF FilesInv, KeyInv, FileType
<1>4. /\ word'.told = word.told /\ word'.ap \in {word.ap, job.key}
      /\ word'.owner = word.owner
      /\ word' \in [told : 0 .. Secrets, ap : 0 .. Secrets,
                    made : 0 .. Secrets, owner : SUBSET Settings]
  <2> DEFINE ap == IF ok THEN job.key ELSE word.ap
  <2>1. word' = [word EXCEPT !.ap = ap]
    BY DEF Publish
  <2>2. ap \in 0 .. Secrets /\ ap \in {word.ap, job.key}
    BY <1>3 DEF FilesInv, FileType
  <2> HIDE DEF ap
  <2> QED BY <2>1, <2>2 DEF FilesInv, FileType
<1>5. FileType'
  BY <1>1, <1>2, <1>4, IdleJob DEF FilesInv, FileType, Jobs
<1>6. KeyInv'
  BY <1>1, <1>3, <1>4, IdleJob DEF FilesInv, KeyInv, Calm
<1>7. ConfInv'
  BY <1>1, <1>2, <1>4, IdleJob
     DEF FilesInv, ConfInv, Calm, Storing, Replacing, Old, InForce, Effect
<1> QED BY <1>1, <1>5, <1>6, <1>7, IdleJob DEF FilesInv

LEMMA StoreFiles ==
  ASSUME FilesInv, Calm, NEW want \in Settings, StoreSettings(want)
  PROVE  FilesInv'
<1>1. /\ job.step = "idle" /\ dir' = dir /\ disk' = disk /\ mem' = mem
      /\ job' = [Doing("conf_write", "configure") EXCEPT !.want = want]
      /\ word' = [word EXCEPT !.owner = @ \cup {want}]
  BY DEF StoreSettings
<1>2. /\ job' \in Jobs /\ job'.step = "conf_write" /\ job'.want = want /\ ~job'.backed
  BY <1>1, DoingIs DEF Jobs
<1>3. /\ word'.told = word.told /\ word'.ap = word.ap /\ word'.owner = word.owner \cup {want}
      /\ word' \in [told : 0 .. Secrets, ap : 0 .. Secrets,
                    made : 0 .. Secrets, owner : SUBSET Settings]
  BY <1>1 DEF FilesInv, FileType
<1>4. FileType'
  BY <1>1, <1>2, <1>3 DEF FilesInv, FileType, Jobs
<1>5. KeyInv'
  BY <1>1, <1>2, <1>3 DEF FilesInv, KeyInv, Calm
<1>6. ConfInv'
  BY <1>1, <1>2, <1>3 DEF FilesInv, ConfInv, Calm, Storing, Replacing, Old, InForce, Effect
<1> QED BY <1>2, <1>4, <1>5, <1>6 DEF FilesInv

\* The change is refused: the old settings are in the directory again.
LEMMA RejectedFiles ==
  ASSUME FilesInv, Calm, Storing, Rejected, dir' \in Files, dir'.psk = dir.psk,
         dir'.conf = Old, disk' = disk,
         "power" \in Faults => ~Replacing
  PROVE  FilesInv'
<1>1. job.step # "boot" /\ job.step # "psk_sync"
  BY DEF Storing
<1>2. /\ mem' = mem /\ job' = NoJob /\ word' = [word EXCEPT !.owner = {InForce}]
      /\ InForce \in Settings
  BY DEF Rejected, InForce, Settings
<1>3. /\ word'.told = word.told /\ word'.ap = word.ap /\ word'.owner = {InForce}
      /\ word' \in [told : 0 .. Secrets, ap : 0 .. Secrets,
                    made : 0 .. Secrets, owner : SUBSET Settings]
  BY <1>2 DEF FilesInv, FileType
<1>4. FileType'
  BY <1>2, <1>3, IdleJob DEF FilesInv, FileType, Jobs
<1>5. KeyInv'
  BY <1>1, <1>2, <1>3, IdleJob DEF FilesInv, KeyInv, Calm
<1>6. ConfInv'
  <2>1. mem.mode # "off" /\ Effect(Old) = InForce
    BY <1>1 DEF FilesInv, ConfInv
  <2>2. ~Storing' /\ Old' = Old /\ Effect(Old)' = Effect(Old) /\ InForce' = InForce
        /\ job'.step = "idle"
    BY <1>2, IdleJob DEF Storing, Replacing, Old, Effect, InForce
  <2>3. "power" \in Faults => disk.conf = Old
    BY DEF FilesInv, ConfInv, Replacing
  <2>4. "power" \in Faults' => disk'.conf = Old'
    BY <2>2, <2>3 DEF Calm
  <2> QED BY <1>2, <1>3, <2>1, <2>2, <2>4 DEF ConfInv, Storing
<1> QED BY <1>2, <1>4, <1>5, <1>6, IdleJob DEF FilesInv

\* A step of a change on which nothing else depends.
LEMMA ConfWriteFiles ==
  ASSUME FilesInv, Calm, NEW ok, ConfWrite(ok)
  PROVE  FilesInv'
<1>1. job.step = "conf_write" /\ dir' = dir /\ disk' = disk /\ Storing /\ ~Replacing
  BY DEF ConfWrite, Storing, Replacing
<1>2. CASE Rejected
  BY <1>1, <1>2, RejectedFiles DEF FilesInv, FileType, Old
<1>3. CASE /\ job' = [job EXCEPT !.step = IF dir.conf = "none" THEN "conf_rename"
                                                               ELSE "conf_backup"]
           /\ mem' = mem /\ word' = word
  <2> DEFINE step == IF dir.conf = "none" THEN "conf_rename" ELSE "conf_backup"
  <2>1. job' \in Jobs /\ job'.step = step /\ job'.want = job.want
        /\ (job'.backed <=> job.backed)
    BY <1>3 DEF FilesInv, Jobs
  <2>2. FileType'
    BY <1>1, <1>3, <2>1 DEF FilesInv, FileType, Jobs
  <2>3. KeyInv'
    BY <1>1, <1>3, <2>1 DEF FilesInv, KeyInv, Calm
  <2>4. ConfInv'
    BY <1>1, <1>3, <2>1 DEF FilesInv, ConfInv, Calm, Storing, Replacing, Old, InForce, Effect
  <2> QED BY <2>1, <2>2, <2>3, <2>4 DEF FilesInv
<1> QED BY <1>2, <1>3 DEF ConfWrite

LEMMA ConfBackupFiles ==
  ASSUME FilesInv, Calm, NEW ok, ConfBackup(ok)
  PROVE  FilesInv'
<1>1. job.step = "conf_backup" /\ disk' = disk /\ Storing /\ ~Replacing
  BY DEF ConfBackup, Storing, Replacing
<1>2. CASE Rejected /\ dir' = dir
  BY <1>1, <1>2, RejectedFiles DEF FilesInv, FileType, Old
<1>3. CASE /\ dir' = [dir EXCEPT !.bak = dir.conf, !.conf = "none"]
           /\ job' = [job EXCEPT !.step = "conf_rename", !.backed = TRUE]
           /\ mem' = mem /\ word' = word
  <2>1. job' \in Jobs /\ job'.step = "conf_rename" /\ job'.want = job.want /\ job'.backed
    BY <1>3 DEF FilesInv, Jobs
  <2>2. dir' \in Files /\ dir'.bak = dir.conf /\ dir'.conf = "none" /\ dir'.psk = dir.psk
    BY <1>3 DEF FilesInv, FileType, Files
  <2>3. FileType'
    BY <1>1, <1>3, <2>1, <2>2 DEF FilesInv, FileType, Jobs
  <2>4. KeyInv'
    BY <1>1, <1>3, <2>1, <2>2 DEF FilesInv, KeyInv, Calm
  <2>5. ConfInv'
    BY <1>1, <1>3, <2>1, <2>2
       DEF FilesInv, ConfInv, Calm, Storing, Replacing, Old, InForce, Effect
  <2> QED BY <2>1, <2>3, <2>4, <2>5 DEF FilesInv
<1> QED BY <1>2, <1>3 DEF ConfBackup

\* A roll-back that works puts the old settings back.
LEMMA RollBackIs ==
  ASSUME FilesInv, Replacing, NEW undone, undone
  PROVE  /\ RolledBackFile(undone) \in Files /\ RolledBackFile(undone).psk = dir.psk
         /\ RolledBackFile(undone).conf = Old
<1>1. dir \in Files
  BY DEF FilesInv, FileType
<1>2. CASE job.backed
  <2>1. RolledBackFile(undone) = [dir EXCEPT !.conf = dir.bak, !.bak = "none"]
    BY <1>2 DEF RolledBackFile
  <2> QED BY <1>1, <1>2, <2>1 DEF Files, Old
<1>3. CASE ~job.backed
  <2>1. RolledBackFile(undone) = [dir EXCEPT !.conf = "none"]
    BY <1>3 DEF RolledBackFile
  <2> QED BY <1>1, <1>3, <2>1 DEF Files, Old
<1> QED BY <1>2, <1>3

LEMMA FailsQuietly ==
  ASSUME Calm, NEW ok \in Works("file"), ~ok
  PROVE  "power" \notin Faults
BY DEF Calm, Works

LEMMA ConfRenameFiles ==
  ASSUME FilesInv, Calm, NEW ok \in Works("file"), NEW undone, undone, ConfRename(ok, undone)
  PROVE  FilesInv'
<1>1. job.step = "conf_rename" /\ disk' = disk /\ Storing /\ Replacing
  BY DEF ConfRename, Storing, Replacing
<1>2. CASE ~ok
  <2>1. Rejected /\ dir' = RolledBackFile(undone)
    BY <1>2 DEF ConfRename
  <2> QED BY <1>1, <1>2, <2>1, RollBackIs, FailsQuietly, RejectedFiles
<1>3. CASE ok
  <2>0. /\ dir' = [dir EXCEPT !.conf = job.want]
        /\ job' = [job EXCEPT !.step = "conf_sync"] /\ mem' = mem /\ word' = word
    BY <1>3 DEF ConfRename
  <2>1. job' \in Jobs /\ job'.step = "conf_sync" /\ job'.want = job.want
        /\ (job'.backed <=> job.backed)
    BY <2>0 DEF FilesInv, Jobs
  <2>2. dir' \in Files /\ dir'.bak = dir.bak /\ dir'.conf = job.want /\ dir'.psk = dir.psk
    BY <2>0 DEF FilesInv, FileType, Files, Jobs
  <2>3. FileType'
    BY <1>1, <2>0, <2>1, <2>2 DEF FilesInv, FileType, Jobs
  <2>4. KeyInv'
    BY <1>1, <2>0, <2>1, <2>2 DEF FilesInv, KeyInv, Calm
  <2>5. ConfInv'
    BY <1>1, <2>0, <2>1, <2>2
       DEF FilesInv, ConfInv, Calm, Storing, Replacing, Old, InForce, Effect
  <2> QED BY <2>1, <2>3, <2>4, <2>5 DEF FilesInv
<1> QED BY <1>2, <1>3

LEMMA ConfSyncFiles ==
  ASSUME FilesInv, Calm, NEW ok \in Works("file"), NEW undone, undone, ConfSync(ok, undone)
  PROVE  FilesInv'
<1>1. job.step = "conf_sync" /\ Storing /\ Replacing
  BY DEF ConfSync, Storing, Replacing
<1>2. CASE ~ok
  <2>1. Rejected /\ dir' = RolledBackFile(undone) /\ disk' = disk
    BY <1>2 DEF ConfSync, SyncParent
  <2> QED BY <1>1, <1>2, <2>1, RollBackIs, FailsQuietly, RejectedFiles
<1>3. CASE disk' = dir /\ Accepted /\ dir' = dir
  <2>1. /\ job.want \in Settings /\ dir.conf = job.want /\ dir \in Files
        /\ mem.mode # "off"
    BY <1>1 DEF FilesInv, ConfInv, FileType
  <2>2. job' = NoJob /\ job'.step = "idle" /\ job' \in Jobs
    BY <1>3, IdleJob DEF Accepted
  <2>3. /\ mem' \in [enabled : BOOLEAN,
                     mode : {"client", "armed", "active", "unavailable", "stopped"}]
        /\ (mem'.enabled <=> job.want = "on")
    <3>1. CASE job.want = "on"
      BY <1>1, <1>3, <3>1, Awake DEF Accepted
    <3>2. CASE job.want # "on"
      BY <1>3, <3>2 DEF Accepted
    <3> QED BY <3>1, <3>2
  <2>4. /\ word'.told = word.told /\ word'.ap \in {word.ap, 0} /\ word'.owner = {job.want}
        /\ word' \in [told : 0 .. Secrets, ap : 0 .. Secrets,
                      made : 0 .. Secrets, owner : SUBSET Settings]
    <3> DEFINE ap == IF job.want = "on" THEN word.ap ELSE 0
    <3>1. word' = [word EXCEPT !.owner = {job.want}, !.ap = ap]
      BY <1>3 DEF Accepted
    <3>2. ap \in 0 .. Secrets /\ ap \in {word.ap, 0}
      BY IdleJob DEF FilesInv, FileType
    <3> HIDE DEF ap
    <3> QED BY <2>1, <3>1, <3>2 DEF FilesInv, FileType
  <2>5. FileType'
    BY <1>3, <2>1, <2>2, <2>3, <2>4 DEF FilesInv, FileType, Jobs
  <2>6. KeyInv'
    BY <1>1, <1>3, <2>2, <2>4 DEF FilesInv, KeyInv, Calm
  <2>7. ConfInv'
    <3>1. ~Storing' /\ Old' = job.want /\ disk'.conf = job.want
      BY <1>3, <2>1, <2>2 DEF Storing, Replacing, Old
    <3>2. InForce' = job.want /\ Effect(Old)' = job.want
      BY <2>1, <2>3, <3>1 DEF InForce, Effect, Settings
    <3> QED BY <2>2, <2>3, <2>4, <3>1, <3>2 DEF ConfInv, Storing
  <2> QED BY <2>2, <2>5, <2>6, <2>7 DEF FilesInv
<1> QED BY <1>2, <1>3 DEF ConfSync, SyncParent

LEMMA WrittenFiles ==
  ASSUME FilesInv, Calm, WrittenBack, job.step # "conf_rename"
  PROVE  FilesInv'
<1>1. disk' = dir /\ dir' = dir /\ job' = job /\ mem' = mem /\ word' = word
  BY DEF WrittenBack
<1>2. dir.conf = Old \/ (job.step = "conf_sync" /\ dir.conf = job.want)
  BY DEF FilesInv, ConfInv, Old, Replacing
<1>3. FileType' /\ KeyInv'
  BY <1>1 DEF FilesInv, FileType, KeyInv, Calm
<1>4. ConfInv'
  BY <1>1, <1>2 DEF FilesInv, ConfInv, Calm, Storing, Replacing, Old, InForce, Effect
<1> QED BY <1>1, <1>3, <1>4 DEF FilesInv

LEMMA DownIs ==
  ASSUME Down
  PROVE  /\ mem'.mode = "off" /\ job' \in Jobs /\ job'.step = "boot"
         /\ mem' \in [enabled : BOOLEAN, mode : {"off", "client", "armed", "active",
                                                 "unavailable", "stopped"}]
BY DoingIs DEF Down

LEMMA PowerFiles ==
  ASSUME FilesInv, Calm, "power" \in Faults, PowerCut, job.step # "conf_rename"
  PROVE  FilesInv'
<1>1. mem.mode # "off" /\ dir' = disk /\ disk' = disk /\ Down
      /\ word' = [word EXCEPT !.ap = 0]
  BY DEF PowerCut
<1>2. /\ mem'.mode = "off" /\ job' \in Jobs /\ job'.step = "boot"
      /\ mem' \in [enabled : BOOLEAN, mode : {"off", "client", "armed", "active",
                                              "unavailable", "stopped"}]
  BY <1>1, DownIs
<1>3. /\ word'.told = word.told /\ word'.ap = 0 /\ word'.owner = word.owner
      /\ word' \in [told : 0 .. Secrets, ap : 0 .. Secrets,
                    made : 0 .. Secrets, owner : SUBSET Settings]
  BY <1>1, IdleJob DEF FilesInv, FileType
<1>4. FileType'
  BY <1>1, <1>2, <1>3 DEF FilesInv, FileType, Jobs
<1>5. KeyInv'
  BY <1>1, <1>2, <1>3 DEF FilesInv, KeyInv
<1>6. Effect(disk.conf) \in word.owner
  <2>1. Effect(Old) \in word.owner
    BY <1>1 DEF FilesInv, ConfInv
  <2>2. job.step = "conf_sync" /\ disk.conf = job.want => Effect(disk.conf) \in word.owner
    BY DEF FilesInv, ConfInv, Storing, Effect, Settings
  <2> QED BY <2>1, <2>2 DEF FilesInv, ConfInv
<1>7. ConfInv'
  <2>1. ~Storing' /\ Old' = dir'.conf /\ Effect(dir.conf)' = Effect(disk.conf)
    BY <1>1, <1>2 DEF Storing, Replacing, Old, Effect
  <2> QED BY <1>1, <1>2, <1>3, <1>6, <2>1 DEF ConfInv, Storing
<1> QED BY <1>2, <1>4, <1>5, <1>7 DEF FilesInv

LEMMA DiesFiles ==
  ASSUME FilesInv, Calm, "power" \notin Faults, DaemonDies, job.step # "conf_rename"
  PROVE  FilesInv'
<1>1. mem.mode # "off" /\ dir' = dir /\ disk' = disk /\ word' = word /\ Down
  BY DEF DaemonDies
<1>2. /\ mem'.mode = "off" /\ job' \in Jobs /\ job'.step = "boot"
      /\ mem' \in [enabled : BOOLEAN, mode : {"off", "client", "armed", "active",
                                              "unavailable", "stopped"}]
  BY <1>1, DownIs
<1>3. FileType'
  BY <1>1, <1>2 DEF FilesInv, FileType, Jobs
<1>4. KeyInv'
  BY <1>1, <1>2 DEF FilesInv, KeyInv, Calm
<1>5. Effect(dir.conf) \in word.owner
  BY <1>1 DEF FilesInv, ConfInv, Storing, Replacing, Old, Effect, Settings
<1>6. ConfInv'
  <2>1. ~Storing' /\ Effect(dir.conf)' = Effect(dir.conf)
    BY <1>1, <1>2 DEF Storing, Effect
  <2> QED BY <1>1, <1>2, <1>5, <2>1 DEF ConfInv, Storing, Calm
<1> QED BY <1>2, <1>3, <1>4, <1>6 DEF FilesInv

LEMMA FileStepKeeps ==
  ASSUME FilesInv, Calm, FileStep
  PROVE  FilesInv'
<1>1. Works("torn") = {TRUE} /\ RollsBack = {TRUE}
  BY DEF Calm, Works, RollsBack
<1>2. ASSUME NEW read \in Works("torn"), NEW marker, Boots(read, marker) PROVE FilesInv'
  BY <1>1, <1>2, BootsFiles
<1>3. ASSUME NEW why \in {"prepare", "reveal"}, AskSecret(why) PROVE FilesInv'
  BY <1>3, AsksFiles DEF AskSecret
<1>4. CASE Serve
  BY <1>4, AsksFiles DEF Serve
<1>5. ASSUME NEW want \in Settings, StoreSettings(want) PROVE FilesInv'
  BY <1>5, StoreFiles
<1>6. ASSUME NEW ok \in Works("file"),
             \/ LookUp(ok) \/ PskRename(ok) \/ PskSync(ok) \/ Publish(ok)
             \/ ConfWrite(ok) \/ ConfBackup(ok)
      PROVE  FilesInv'
  BY <1>6, LookUpFiles, PskRenameFiles, PskSyncFiles, PublishFiles, ConfWriteFiles,
     ConfBackupFiles
<1>7. ASSUME NEW ok \in Works("file"), NEW undone \in RollsBack,
             ConfRename(ok, undone) \/ ConfSync(ok, undone)
      PROVE  FilesInv'
  BY <1>1, <1>7, ConfRenameFiles, ConfSyncFiles
<1>8. CASE Interrupts /\ (WrittenBack \/ ("power" \in Faults /\ PowerCut)
                          \/ ("crash" \in Faults /\ DaemonDies))
  BY <1>8, WrittenFiles, PowerFiles, DiesFiles DEF Interrupts, Calm
<1> QED BY <1>2, <1>3, <1>4, <1>5, <1>6, <1>7, <1>8 DEF FileStep

LEMMA FilesSame ==
  ASSUME FilesInv, UNCHANGED fileVars, Faults' = Faults
  PROVE  FilesInv'
<1>1. dir' = dir /\ disk' = disk /\ job' = job /\ mem' = mem /\ word' = word
  BY DEF fileVars
<1>2. FileType' /\ job' \in Jobs
  BY <1>1 DEF FilesInv, FileType
<1>3. KeyInv'
  BY <1>1 DEF FilesInv, KeyInv
<1>4. ConfInv'
  BY <1>1 DEF FilesInv, ConfInv, Storing, Replacing, Old, InForce, Effect
<1> QED BY <1>2, <1>3, <1>4 DEF FilesInv

LEMMA FilesStart == FilesInit => FilesInv
<1> SUFFICES ASSUME FilesInit PROVE FilesInv
  OBVIOUS
<1>1. /\ dir = [psk |-> 0, conf |-> "none", bak |-> "none"] /\ disk = dir
      /\ job \in Jobs /\ job.step = "boot"
      /\ mem = [enabled |-> FALSE, mode |-> "off"]
      /\ word = [told |-> 0, ap |-> 0, made |-> 0, owner |-> {"on"}]
  BY DoingIs DEF FilesInit
<1>2. FileType
  BY <1>1, IdleJob DEF FileType, Files, Settings, Jobs
<1>3. KeyInv
  BY <1>1 DEF KeyInv
<1>4. ConfInv
  BY <1>1 DEF ConfInv, Storing, Replacing, Old, Effect
<1> QED BY <1>1, <1>2, <1>3, <1>4 DEF FilesInv

LEMMA FilesHold == ServiceSpec /\ Unmixed => [](Unmixed /\ FilesInv)
<1>1. ServiceInit /\ Unmixed => Unmixed /\ FilesInv
  BY FilesStart DEF ServiceInit
<1>2. Unmixed /\ FilesInv /\ [ServiceNext]_serviceVars => Unmixed' /\ FilesInv'
  <2> SUFFICES ASSUME Unmixed, FilesInv, [ServiceNext]_serviceVars
               PROVE  Unmixed' /\ FilesInv'
    OBVIOUS
  <2>1. setup' = setup
    BY DEF ServiceNext, InLoop, OnFiles, InScan, serviceVars, vars, Kept
  <2>2. Faults' = Faults /\ Unmixed'
    BY <2>1 DEF Faults, Unmixed
  <2>3. CASE OnFiles(FileStep)
    BY <2>2, <2>3, FileStepKeeps DEF OnFiles, Unmixed, Calm
  <2>4. CASE UNCHANGED fileVars
    BY <2>2, <2>4, FilesSame
  <2> QED BY <2>2, <2>3, <2>4 DEF ServiceNext, InLoop, InScan, serviceVars
<1> QED BY <1>1, <1>2, PTL DEF ServiceSpec

(* RecoveryHonest: a radio that the platform has is known to be owed back   *)
(* (release_net_ownership), an access point reported as starting or active  *)
(* is one (start_services, le_recovery_tick), no child outlives it          *)
(* (teardown_children), ledd shows it exactly while it is active, it never  *)
(* shares the radio with an association, a hand-over is carried by an       *)
(* attempt that ends it, and the password and the settings the owner was    *)
(* told of are those on disk and in force (le_recovery_psk_ensure,          *)
(* le_recovery_config_persist).                                             *)
THEOREM RecoveryAlwaysHonest ==
  ServiceSpec /\ Sheltered /\ Unmixed => []RecoveryHonest
<1>1. LoopInv /\ ApInv /\ Unmixed /\ FilesInv => RecoveryHonest
  <2> SUFFICES ASSUME LoopInv, ApInv, FilesInv PROVE RecoveryHonest
    OBVIOUS
  <2>1. Honest(rec) /\ (ledOn <=> rec.led)
    BY DEF ApInv, RecInv
  <2>2. OwnershipTracked /\ ApBacked /\ NoStrayChildren /\ LedTruthful
    BY <2>1 DEF Honest, Owed, Backed, Childless, Lit, OwnershipTracked, ApBacked,
       NoStrayChildren, LedTruthful
  <2>3. RadioExclusive /\ HandoverOwned
    BY DEF ApInv, UseInv, Radiating, Serving, RadioExclusive
  <2>4. FilesHonest
    BY DEF FilesInv, KeyInv, ConfInv, InForce, FilesHonest
  <2> QED BY <2>2, <2>3, <2>4 DEF RecoveryHonest
<1> QED BY <1>1, LoopHolds, ApHolds, FilesHold, PTL

=============================================================================
