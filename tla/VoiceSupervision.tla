--------------------------- MODULE VoiceSupervision ---------------------------
(***************************************************************************)
(* Two parties run the init scripts of the voice services: the watchdog    *)
(* (watchdogd.c), which restarts a service that stopped answering, and a   *)
(* worker the web daemon forks (api.c, voice_pipeline_restart), which      *)
(* stops one voice owner and starts the other when the owner of the device *)
(* selects Home Assistant or the local pipeline.  They share the processes *)
(* and the saved configuration, and nothing else.                          *)
(*                                                                         *)
(* Time is kept by the policies (WatchdogPolicy): one pass of the watchdog *)
(* takes one of the times of the scene.  An init script is one step when   *)
(* it stops a service and two when it starts one: between them the daemon  *)
(* does not exist yet, so a stop finds nothing to stop.                    *)
(*                                                                         *)
(* A second part, moved only in the setups that say so, is the watchdog's  *)
(* loop over one service on a longer time scale (WatchdogService).         *)
(***************************************************************************)
EXTENDS Integers, Sequences, FiniteSets, WatchdogPolicy

CONSTANTS
    Grace,       \* --rearm-grace
    WorkerMax,   \* bound: how long one restart worker takes
    Lone,        \* the limits of the policy on the longer time scale
    Scenes       \* the devices and surroundings explored, see Scene

Services == {"micd", "agentd", "ttsd", "sttd", "esphomed", "waked"}

\* die: a daemon exits.  wedge: it stops answering.  stop: the stop script
\* fails, with or without effect.  start: the start script fails.  read: the
\* configuration cannot be read.  persist: it cannot be saved.  fork: no
\* worker can be forked.  term: the watchdog is stopped.
FaultKinds ==
    {"die", "wedge", "stop", "start", "read", "persist", "fork", "term"}

\* One scene: the services installed, the time from the start of one pass of
\* the watchdog to the start of the next, what may go wrong and (bounds) how
\* often, how many pipeline selections there are, whether a selection may keep
\* the owner (local, custom), whether the watchdog runs, and whether the
\* part explored is the loop over one service.
Scene == [present : SUBSET Services \ {{}}, pass : SUBSET (Nat \ {0}) \ {{}},
          faults : SUBSET FaultKinds, faultMax : Nat, switchMax : Nat,
          sameOwner : BOOLEAN, watching : BOOLEAN, alone : BOOLEAN]

ASSUME SupervisionAssumption ==
    /\ Grace \in Nat /\ WorkerMax \in Nat
    /\ Scenes \subseteq Scene

\* On the longer scale as in the code, the time that forgives is longer than
\* the storm window (LE_WATCHDOG_HEALTHY_RESET_MS, LE_WATCHDOG_STORM_WINDOW_MS).
ASSUME LoneAssumption ==
    /\ {Lone.restarts, Lone.window, Lone.reset} \subseteq Nat \ {0}
    /\ Lone.window < Lone.reset
    /\ Lone.backoffMax \in Nat /\ BackoffStart <= Lone.backoffMax
    /\ Lone.scripts \subseteq Nat

VARIABLES
    proc,      \* what runs: "down", "up" or "wedged"
    stream,    \* micd's microphone stream: "none", "offered" or "taken"
    conf,      \* the saved voice mode
    api,       \* the web daemon's transition state
    worker,    \* the forked restart worker
    wd,        \* where the watchdog's loop is
    sup,       \* services[] of the watchdog
    faults,    \* bound: faults so far
    switches,  \* bound: selections so far
    scene,     \* the scene of this behaviour
    policy, broken, acted, streak, recent   \* of WatchdogService

device == <<proc, stream, conf, api, worker, wd, sup, faults, switches>>
lone == <<policy, broken, acted, streak, recent>>
supervisionVars == <<device, scene, lone>>

Alone == INSTANCE WatchdogService WITH
    Interval <- 1, InitTimes <- Lone.scripts, BackoffMax <- Lone.backoffMax,
    StormRestarts <- Lone.restarts, StormWindow <- Lone.window,
    HealthyReset <- Lone.reset

Present == scene.present

\* descriptors[] of watchdogd.c, the services with an owner or a group.
Table == SelectSeq(<<"micd", "agentd", "ttsd", "sttd", "esphomed", "waked">>,
                   LAMBDA s : s \in Present)
N == Len(Table)
Local == Present \cap {"agentd", "ttsd", "sttd"}
Owner(s) == CASE s \in Local -> "local"
              [] s = "esphomed" -> "ha"
              [] OTHER -> "any"
Leader(s) == IF s = "waked" /\ "micd" \in Present THEN "micd" ELSE s
PidProbed == {"agentd", "ttsd", "sttd"}      \* PROBE_PIDFILE

Modes == {"local", "ha"}
Other(m) == IF m = "local" THEN "ha" ELSE "local"
WithFault(f) == f \in scene.faults /\ faults < scene.faultMax /\ faults' = faults + 1
NoFault == UNCHANGED faults

NoWorker == [at |-> 0, target |-> "local", failed |-> FALSE, sat |-> FALSE,
             exit |-> "none", age |-> 0]
NewWorker(m) == [NoWorker EXCEPT !.at = 1, !.target = m]

NewService == [policy |-> FreshPolicy, healthy |-> FALSE, seen |-> FALSE,
               installed |-> FALSE, deselected |-> FALSE]

\* The pass so far: at which step, at which row of the table, with which mode.
Sleeping == [at |-> "sleep", i |-> 0, mode |-> "unknown", lead |-> 0]
Ended == [Sleeping EXCEPT !.at = "exited"]

TypeOK ==
    /\ proc \in [Present -> {"down", "up", "wedged"}]
    /\ stream \in {"none", "offered", "taken"}
    /\ conf \in Modes
    /\ api \in [mode : Modes, snap : Modes, child : BOOLEAN, rolling : BOOLEAN,
                result : {"ok", "failed"}, lost : BOOLEAN]
    /\ worker \in [at : 0 .. 12, target : Modes, failed : BOOLEAN,
                   sat : BOOLEAN, exit : {"none", "ok", "failed"},
                   age : 0 .. WorkerMax]
    /\ wd \in [at : {"sleep", "probe", "decide", "stop", "reread", "start",
                     "starting", "exited"},
               i : 0 .. N + 1, mode : Modes \cup {"unknown"}, lead : 0 .. N]
    /\ sup \in [Present -> [policy : Policy, healthy : BOOLEAN, seen : BOOLEAN,
                            installed : BOOLEAN, deselected : BOOLEAN]]
    /\ faults \in 0 .. scene.faultMax /\ switches \in 0 .. scene.switchMax
    /\ scene \in Scenes
    /\ Alone!TypeOK

Wanted(s, m) == m = "unknown" \/ Owner(s) = "any" \/ Owner(s) = m

SupervisionInit ==
    /\ scene \in Scenes
    /\ conf \in Modes
    /\ proc = [s \in Present |-> IF Wanted(s, conf) THEN "up" ELSE "down"]
    /\ stream = IF {"micd", "waked"} \subseteq Present THEN "taken" ELSE "none"
    /\ api = [mode |-> conf, snap |-> conf, child |-> FALSE, rolling |-> FALSE,
              result |-> "ok", lost |-> FALSE]
    /\ worker = NoWorker
    /\ wd = IF scene.watching THEN Sleeping ELSE Ended
    /\ sup = [s \in Present |-> NewService]
    /\ faults = 0 /\ switches = 0
    /\ Alone!Init

(***************************************************************************)
(* The init scripts and the daemons (external)                             *)
(***************************************************************************)
Runs(s) == proc[s] = "up"

\* A stop script that works; it ends micd's stream.
Stopped(s) ==
    /\ proc' = [proc EXCEPT ![s] = "down"]
    /\ stream' = IF s = "micd" THEN "none" ELSE stream

\* The daemon a start script launches.  waked exits when it gets no stream.
Launched(s) ==
    /\ proc' = [proc EXCEPT ![s] = IF s = "waked" /\ stream # "offered"
                                     THEN proc[s] ELSE "up"]
    /\ stream' = CASE s = "micd" -> "offered"
                   [] s = "waked" /\ stream = "offered" -> "taken"
                   [] OTHER -> stream

StopScript(s, ok) ==
    \/ Stopped(s) /\ ok /\ NoFault
    \/ Stopped(s) /\ ~ok /\ WithFault("stop")
    \/ ~ok /\ WithFault("stop") /\ UNCHANGED <<proc, stream>>

DaemonDies(s) ==
    /\ proc[s] # "down" /\ WithFault("die")
    /\ Stopped(s)
    /\ UNCHANGED <<conf, api, worker, wd, sup, switches>>

Wedges(s) ==
    /\ Runs(s) /\ WithFault("wedge")
    /\ proc' = [proc EXCEPT ![s] = "wedged"]
    /\ UNCHANGED <<stream, conf, api, worker, wd, sup, switches>>

\* waked exits when its stream ends.
StreamEnds ==
    /\ "waked" \in Present /\ proc["waked"] # "down" /\ stream # "taken"
    /\ Stopped("waked")
    /\ UNCHANGED <<conf, api, worker, wd, sup, faults, switches>>

(***************************************************************************)
(* voice_pipeline_restart in the forked worker: a list of script calls.    *)
(***************************************************************************)
Calls(op, services) == [i \in 1 .. Len(services) |-> <<op, services[i]>>]
Here(services) == SelectSeq(services, LAMBDA s : s \in Present)

StartCalls(s) == <<<<"begin", s>>, <<"launch", s>>>>
StartsLocal ==
    LET order == Here(<<"sttd", "ttsd", "agentd">>)
    IN  [i \in 1 .. 2 * Len(order) |->
            StartCalls(order[(i + 1) \div 2])[IF i % 2 = 1 THEN 1 ELSE 2]]

WorkerScript(m) ==
    Calls("stop", Here(<<"agentd", "sttd", "ttsd", "esphomed">>))
    \o <<<<"check", "none">>>>
    \o IF m = "ha" THEN StartCalls("esphomed") \o <<<<"ready", "esphomed">>>>
                   ELSE StartsLocal

Call == WorkerScript(worker.target)[worker.at]
WorkerActive == worker.at > 0 /\ worker.exit = "none"
Exits(w, code) == [w EXCEPT !.exit = code]

\* After the stops: Home Assistant starts only when all of them worked, the
\* local owner whenever the satellite is certainly gone.
BugStartAnyway(w) == FALSE

Blocked(w) == IF w.target = "ha" THEN w.failed ELSE w.sat

WorkerStops ==
    /\ WorkerActive /\ worker.at <= Len(WorkerScript(worker.target)) /\ Call[1] = "stop"
    /\ \E ok \in BOOLEAN :
         /\ StopScript(Call[2], ok)
         /\ worker' = [worker EXCEPT !.at = @ + 1, !.failed = @ \/ ~ok,
                                     !.sat = @ \/ (~ok /\ Call[2] = "esphomed")]
    /\ UNCHANGED <<conf, api, wd, sup, switches>>

WorkerChecks ==
    /\ WorkerActive /\ worker.at <= Len(WorkerScript(worker.target)) /\ Call[1] = "check"
    /\ worker' = IF Blocked(worker) THEN Exits(worker, "failed")
                                    ELSE [worker EXCEPT !.at = @ + 1]
    /\ UNCHANGED <<proc, stream, conf, api, wd, sup, faults, switches>>

\* start: "already running" ends the script at once.
WorkerBegins ==
    /\ WorkerActive /\ worker.at <= Len(WorkerScript(worker.target)) /\ Call[1] = "begin"
    /\ worker' = [worker EXCEPT !.at = IF proc[Call[2]] = "down" THEN @ + 1
                                                                 ELSE @ + 2]
    /\ UNCHANGED <<proc, stream, conf, api, wd, sup, faults, switches>>

StartFailed(w) ==
    IF w.target = "ha" THEN Exits(w, "failed")
                       ELSE [w EXCEPT !.at = @ + 1, !.failed = TRUE]

WorkerLaunches ==
    /\ WorkerActive /\ worker.at <= Len(WorkerScript(worker.target)) /\ Call[1] = "launch"
    /\ \/ /\ Launched(Call[2]) /\ NoFault
          /\ worker' = [worker EXCEPT !.at = @ + 1]
       \/ /\ WithFault("start") /\ UNCHANGED <<proc, stream>>
          /\ worker' = StartFailed(worker)
    /\ UNCHANGED <<conf, api, wd, sup, switches>>

WorkerEnds ==
    /\ WorkerActive
    /\ \/ /\ worker.at <= Len(WorkerScript(worker.target)) /\ Call[1] = "ready"
          /\ worker' = Exits(worker, IF Runs("esphomed") THEN "ok" ELSE "failed")
       \/ /\ worker.at > Len(WorkerScript(worker.target))
          /\ worker' = Exits(worker, IF worker.failed THEN "failed" ELSE "ok")
    /\ UNCHANGED <<proc, stream, conf, api, wd, sup, faults, switches>>

(***************************************************************************)
(* The web daemon: PUT /voice-pipeline and the reaping every request does. *)
(***************************************************************************)
\* voice_pipeline_restart_reap of a child that needs no roll-back.
QuietReap(a) ==
    CASE ~a.child -> a
      [] a.child /\ a.rolling ->
           [a EXCEPT !.child = FALSE, !.rolling = FALSE,
                     !.lost = @ \/ worker.exit = "failed"]
      [] OTHER -> [a EXCEPT !.child = FALSE, !.result = "ok"]

Reapable == api.child /\ worker.exit # "none"
Quiet == Reapable /\ (api.rolling \/ worker.exit = "ok")

\* A failed transition: the old intent is saved again, then a worker brings
\* the old services back.
RollBack ==
    \/ /\ NoFault
       /\ conf' = api.snap
       /\ worker' = NewWorker(api.snap)
       /\ api' = [api EXCEPT !.mode = api.snap, !.result = "failed",
                             !.rolling = TRUE]
    \/ /\ WithFault("persist")
       /\ worker' = NoWorker
       /\ api' = [api EXCEPT !.mode = api.snap, !.result = "failed",
                             !.child = FALSE, !.lost = TRUE]
       /\ UNCHANGED conf
    \/ /\ WithFault("fork")
       /\ conf' = api.snap
       /\ worker' = NoWorker
       /\ api' = [api EXCEPT !.mode = api.snap, !.result = "failed",
                             !.child = FALSE, !.lost = TRUE]

Reap ==
    /\ Reapable
    /\ IF Quiet THEN /\ api' = QuietReap(api) /\ worker' = NoWorker
                     /\ NoFault /\ UNCHANGED conf
                ELSE RollBack
    /\ UNCHANGED <<proc, stream, wd, sup, switches>>

CanSelect(m) ==
    /\ switches < scene.switchMax
    /\ ~api.child \/ Quiet
    /\ scene.sameOwner \/ m # api.mode

SelectNotSaved(m) ==
    /\ CanSelect(m) /\ WithFault("persist")
    /\ api' = [QuietReap(api) EXCEPT !.lost = FALSE]
    /\ worker' = NoWorker
    /\ switches' = switches + 1
    /\ UNCHANGED <<proc, stream, conf, wd, sup>>

\* The new intent is saved, but apply_voice_pipeline_mode reports the failure
\* of the transition before this one, or cannot fork.  The handler saves the
\* old intent again and ignores the result.
SelectRefused(m) ==
    LET a == QuietReap(api)
    IN  /\ CanSelect(m)
        /\ \/ a.result = "failed" /\ NoFault /\ conf' = a.mode
           \/ a.result = "failed" /\ WithFault("persist") /\ conf' = m
           \/ a.result = "ok" /\ WithFault("fork") /\ conf' = a.mode
        /\ api' = [a EXCEPT !.lost = FALSE, !.result = "ok"]
        /\ worker' = NoWorker
        /\ switches' = switches + 1
        /\ UNCHANGED <<proc, stream, wd, sup>>

\* PUT /integrations/home-assistant that asks for what is selected already.
SelectUnchanged ==
    LET a == QuietReap(api)
    IN  /\ CanSelect(Other(a.mode))
        /\ \/ NoFault /\ conf' = a.mode
           \/ WithFault("persist") /\ UNCHANGED conf
        /\ api' = [a EXCEPT !.lost = FALSE]
        /\ worker' = NoWorker
        /\ switches' = switches + 1
        /\ UNCHANGED <<proc, stream, wd, sup>>

SelectStarts(m) ==
    LET a == QuietReap(api)
    IN  /\ CanSelect(m) /\ a.result = "ok"
        /\ api' = [a EXCEPT !.lost = FALSE, !.snap = a.mode, !.mode = m,
                            !.child = TRUE]
        /\ conf' = m
        /\ worker' = NewWorker(m)
        /\ switches' = switches + 1
        /\ UNCHANGED <<proc, stream, wd, sup, faults>>

(***************************************************************************)
(* The watchdog's pass: read the mode, probe every service, then decide.   *)
(***************************************************************************)
ReadsMode(m) ==
    \/ m = conf /\ NoFault
    \/ m = "unknown" /\ WithFault("read")

BeginPass(dt) ==
    /\ wd.at = "sleep"
    /\ WorkerActive => worker.age + dt <= WorkerMax
    /\ worker' = IF WorkerActive THEN [worker EXCEPT !.age = @ + dt] ELSE worker
    /\ \E m \in Modes \cup {"unknown"} :
          ReadsMode(m) /\ wd' = [at |-> "probe", i |-> 1, mode |-> m, lead |-> 0]
    /\ sup' = [s \in Present |->
                 [sup[s] EXCEPT !.policy = Elapse(@, dt)]]
    /\ UNCHANGED <<proc, stream, conf, api, switches>>

\* probe: an answering socket, or for some services only a live process.
Healthy(s) == Runs(s) \/ (s \in PidProbed /\ proc[s] = "wedged")

Deselected(v) == [v EXCEPT !.seen = FALSE, !.deselected = TRUE,
                           !.healthy = FALSE, !.policy = FreshPolicy]

\* The mode of this service is selected again: it is armed with a grace.
Rearmed(v) ==
    IF v.seen \/ ~(v.installed \/ v.deselected) THEN v
    ELSE [v EXCEPT !.seen = TRUE, !.deselected = FALSE,
                   !.policy = [FreshPolicy EXCEPT !.wait = Grace]]

Probed(v, h) == [Rearmed(v) EXCEPT !.healthy = h, !.installed = @ \/ h,
                                   !.seen = @ \/ h]

ProbeService ==
    /\ wd.at = "probe"
    /\ LET s == Table[wd.i]
       IN  sup' = [sup EXCEPT ![s] = IF Wanted(s, wd.mode)
                                       THEN Probed(@, Healthy(s))
                                       ELSE Deselected(@)]
    /\ wd' = IF wd.i = N THEN [wd EXCEPT !.at = "decide", !.i = 1]
                         ELSE [wd EXCEPT !.i = @ + 1]
    /\ UNCHANGED <<proc, stream, conf, api, worker, faults, switches>>

InGroup(s, lead) == Leader(s) = lead

GroupHealthy(lead) ==
    \A s \in Present : InGroup(s, lead) /\ sup[s].seen => sup[s].healthy

Onward(i) == IF i = N THEN Sleeping
             ELSE [at |-> "decide", i |-> i + 1, mode |-> wd.mode, lead |-> 0]

Decide ==
    /\ wd.at = "decide"
    /\ LET s == Table[wd.i]
           v == Step(sup[s].policy, GroupHealthy(s))
       IN  IF Leader(s) # s \/ ~sup[s].seen
             THEN wd' = Onward(wd.i) /\ UNCHANGED sup
             ELSE /\ sup' = [sup EXCEPT ![s].policy = v.policy]
                  /\ wd' = IF v.action = "restart"
                             THEN [wd EXCEPT !.at = "stop", !.lead = wd.i,
                                             !.i = N]
                             ELSE Onward(wd.i)
    /\ UNCHANGED <<proc, stream, conf, api, worker, faults, switches>>

(***************************************************************************)
(* restart_group                                                           *)
(***************************************************************************)
Member == InGroup(Table[wd.i], Table[wd.lead])

StopMember ==
    /\ wd.at = "stop"
    /\ IF Member THEN \E ok \in BOOLEAN : StopScript(Table[wd.i], ok)
                 ELSE UNCHANGED <<proc, stream, faults>>
    /\ wd' = IF wd.i > 1 THEN [wd EXCEPT !.i = @ - 1]
                         ELSE [wd EXCEPT !.at = "reread"]
    /\ UNCHANGED <<conf, api, worker, sup, switches>>

RereadMode ==
    /\ wd.at = "reread"
    /\ \E m \in Modes \cup {"unknown"} :
          ReadsMode(m) /\ wd' = [wd EXCEPT !.at = "start", !.i = 1, !.mode = m]
    /\ UNCHANGED <<proc, stream, conf, api, worker, sup, switches>>

\* After the last member the policy is told of the restart.
NextMember ==
    IF wd.i < N
      THEN /\ wd' = [wd EXCEPT !.at = "start", !.i = @ + 1]
           /\ UNCHANGED sup
      ELSE /\ wd' = Onward(wd.lead)
           /\ sup' = [sup EXCEPT ![Table[wd.lead]].policy = Restarted(@)]

StartMember ==
    /\ wd.at = "start"
    /\ IF Member /\ Wanted(Table[wd.i], wd.mode) /\ proc[Table[wd.i]] = "down"
         THEN wd' = [wd EXCEPT !.at = "starting"] /\ UNCHANGED sup
         ELSE NextMember
    /\ UNCHANGED <<proc, stream, conf, api, worker, faults, switches>>

LaunchMember ==
    /\ wd.at = "starting"
    /\ \/ Launched(Table[wd.i]) /\ NoFault
       \/ WithFault("start") /\ UNCHANGED <<proc, stream>>
    /\ NextMember
    /\ UNCHANGED <<conf, api, worker, switches>>

\* SIGTERM: the loop ends and the script that runs is cancelled.
StopWatchdog ==
    /\ wd.at # "exited" /\ WithFault("term")
    /\ wd' = Ended
    /\ UNCHANGED <<proc, stream, conf, api, worker, sup, switches>>

WatchdogStep ==
    \/ \E dt \in scene.pass : BeginPass(dt)
    \/ ProbeService \/ Decide
    \/ StopMember \/ RereadMode \/ StartMember \/ LaunchMember

WorkerStep ==
    WorkerStops \/ WorkerChecks \/ WorkerBegins \/ WorkerLaunches \/ WorkerEnds

WebStep ==
    \/ Reap
    \/ SelectUnchanged
    \/ \E m \in Modes :
          SelectNotSaved(m) \/ SelectRefused(m) \/ SelectStarts(m)

\* The scene never changes.
SameScene == UNCHANGED scene

DeviceNext ==
    /\ ~scene.alone
    /\ \/ WatchdogStep \/ StopWatchdog
       \/ WorkerStep \/ WebStep
       \/ \E s \in Present : DaemonDies(s) \/ Wedges(s)
       \/ StreamEnds
    /\ UNCHANGED lone

LoneNext == scene.alone /\ Alone!Next /\ UNCHANGED device

SupervisionNext == SameScene /\ (DeviceNext \/ LoneNext)

SupervisionSpec == SupervisionInit /\ [][SupervisionNext]_supervisionVars

InDevice(A) == ~scene.alone /\ A /\ UNCHANGED lone /\ SameScene

\* The watchdog's loop and the worker go on, a script ends, and a daemon
\* whose stream ended exits.
FairSpec ==
    /\ SupervisionSpec
    /\ WF_supervisionVars(InDevice(WatchdogStep)) /\ WF_supervisionVars(InDevice(WorkerStep))
    /\ WF_supervisionVars(InDevice(StreamEnds))
    /\ WF_supervisionVars(scene.alone /\ Alone!Loop /\ UNCHANGED device /\ SameScene)

----------------------------------------------------------------------------
\* The local pipeline and the Home Assistant satellite never run together:
\* they hold the microphone path exclusively (voice_pipeline_restart,
\* restart_group).
VoiceExclusive ==
    \A s \in Local, h \in Present \cap {"esphomed"} :
        proc[s] = "down" \/ proc[h] = "down"

\* The watchdog and the worker never start the same service at once.
NoStartRace ==
    wd.at = "starting" /\ WorkerActive /\ worker.at <= Len(WorkerScript(worker.target))
        => Call # <<"launch", Table[wd.i]>>

\* When no transition is pending the saved intent is the one the web daemon
\* reports, or the lost roll-back is reported.
IntentSaved == ~api.child => conf = api.mode \/ api.lost

\* A worker that reports success leaves exactly the services of its mode
\* running: the transition "ready" of voice_pipeline_restart_state.
OwnerSettled ==
    worker.exit = "ok" =>
        \A s \in Present : Runs(s) <=> Wanted(s, worker.target)

HasCapture == {"micd", "waked"} \subseteq Present
CaptureSeen == HasCapture /\ sup["micd"].seen /\ sup["waked"].seen
CaptureRuns == HasCapture /\ Runs("micd") /\ Runs("waked") /\ stream = "taken"
CaptureGivenUp == HasCapture /\ sup["micd"].policy.givenUp

\* A wake word seen working comes back after micd or waked fails, unless the
\* watchdog gave the group up or is stopped.  A start script that works is
\* taken to give micd its stream; WakeService says when it does not.
CaptureRecovers ==
    CaptureSeen ~> CaptureRuns \/ CaptureGivenUp \/ wd.at = "exited"

\* One voice owner, and the one that was asked for: both never run at once,
\* nobody starts what the other party is starting, a transition that reports
\* success left the services of its mode, and the saved intent is the one
\* reported, whichever script, save or fork fails and wherever the watchdog's
\* pass is.
OwnersHonest == VoiceExclusive /\ NoStartRace /\ IntentSaved /\ OwnerSettled

\* Restarts are earned by fresh failures and bounded over any stretch of time,
\* however the fixed storm windows fall (le_watchdog_step).
RestartsBounded == [][Alone!StormBounded' /\ Alone!RestartEarned]_supervisionVars

\* The watchdog comes to an end with what fails: a service that never answers
\* again is given up, a capture group that failed runs again or is given up.
SupervisionSettles == Alone!GivesUp /\ CaptureRecovers

=============================================================================
