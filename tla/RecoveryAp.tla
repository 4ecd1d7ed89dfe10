------------------------------ MODULE RecoveryAp ------------------------------
(***************************************************************************)
(* The recovery access point of network_recovery.c as operators on one     *)
(* record: the fields of struct le_recovery that decide behaviour, and the *)
(* three facts of the platform its calls change.                           *)
(*                                                                         *)
(*   mode, trigger, net, pending, attempts, led, counting, enabled, auto   *)
(*            mode, trigger, net_configured, net_release_pending,          *)
(*            net_release_attempts, led_active, auto_counting and the two  *)
(*            owner settings of the same names in C                        *)
(*   kids     children[] holds active entries (hostapd and dnsmasq)        *)
(*   alive    those processes really run                                   *)
(*   radio    who has the interface: "sta" (wpa_supplicant) or "ap"        *)
(*   marker   the boot marker file exists                                  *)
(*                                                                         *)
(* Deadlines are not kept: "due" says that the one that matters passed.    *)
(* Net helpers, probes and spawns succeed or fail as the caller says.      *)
(* secret_available, the credential rate limit, the SSID and error texts   *)
(* decide no transition and are left out.                                  *)
(***************************************************************************)
EXTENDS Integers

(***************************************************************************)
(* The gateway liveness ladder of network_health.c: three failed probes on *)
(* a network that was once healthy start a re-association, then an         *)
(* interface down/up cycle, then one request for a supervised reboot.      *)
(*                                                                         *)
(* The functions of the file are operators on a health record.  The        *)
(* deadlines next_probe_ms and transition_deadline_ms are not kept: the    *)
(* caller says whether the one that matters has passed ("due"), and a      *)
(* model that lets every value happen covers every clock.                  *)
(***************************************************************************)
CONSTANT FailureThreshold   \* config.failure_threshold

ASSUME ThresholdAssumption == FailureThreshold \in Nat \ {0}

Phases == {"idle", "reassociating", "down_wait", "if_recovering",
           "reboot_pending", "reboot_requested", "exhausted"}

Actions == {"none", "probe", "reassociate", "if_down", "if_up", "reboot"}

\* enum le_gateway_probe_result: -1 unavailable, 0 unreachable, 1 reachable.
ProbeResults == {-1, 0, 1}

Health == [phase : Phases, associated : BOOLEAN, awaiting : BOOLEAN,
           reachable : ProbeResults, failures : 0 .. FailureThreshold,
           seen : BOOLEAN]

\* le_network_health_init, and mark_disconnected: the fields other than the
\* deadlines are the same.
FreshHealth == [phase |-> "idle", associated |-> FALSE, awaiting |-> FALSE,
                reachable |-> -1, failures |-> 0, seen |-> FALSE]

Outcome(h, a) == [health |-> h, action |-> a]

CountFailure(h) ==
    [h EXCEPT !.awaiting = FALSE, !.reachable = 0,
              !.failures = IF @ < FailureThreshold THEN @ + 1 ELSE @]

Escalate(h) ==
    CASE h.phase = "idle" /\ h.seen /\ h.failures >= FailureThreshold ->
            Outcome([h EXCEPT !.phase = "reassociating"], "reassociate")
      [] h.phase = "reassociating" ->
            Outcome([h EXCEPT !.phase = "down_wait"], "if_down")
      [] h.phase = "if_recovering" ->
            Outcome([h EXCEPT !.phase = "reboot_pending"], "reboot")
      [] OTHER -> Outcome(h, "none")

RecordProbe(h, result) ==
    CASE result = -1 ->
            Outcome([h EXCEPT !.awaiting = FALSE, !.reachable = -1,
                              !.failures = 0], "none")
      [] result = 1 ->
            Outcome([h EXCEPT !.awaiting = FALSE, !.reachable = 1,
                              !.failures = 0, !.seen = TRUE,
                              !.phase = "idle"], "none")
      [] OTHER -> Escalate(CountFailure(h))

(***************************************************************************)
(* le_network_health_tick.  A fresh association probes at once, whatever   *)
(* next_probe_ms says.                                                     *)
(***************************************************************************)
TickProbe(h, associated, route, due) ==
    LET joined == associated /\ ~h.associated
        h1 == IF joined THEN [h EXCEPT !.associated = TRUE] ELSE h
    IN  IF h1.awaiting \/ ~(due \/ joined)
          THEN Outcome(h1, "none")
          ELSE IF route
                 THEN Outcome([h1 EXCEPT !.awaiting = TRUE], "probe")
                 ELSE RecordProbe(h1, IF h1.seen THEN 0 ELSE -1)

HealthTick(h, associated, route, due) ==
    CASE h.phase \in {"reboot_pending", "reboot_requested"} ->
            Outcome(h, "none")
      [] h.phase = "down_wait" ->
            IF due THEN Outcome([h EXCEPT !.phase = "if_recovering"], "if_up")
                   ELSE Outcome(h, "none")
      [] h.phase \in {"idle", "exhausted"} /\ ~associated ->
            Outcome(FreshHealth, "none")
      [] OTHER -> TickProbe(h, associated, route, due)

\* le_network_health_finish_reboot_request
FinishReboot(h, submitted) ==
    IF h.phase # "reboot_pending" THEN h
    ELSE [h EXCEPT !.phase = IF submitted THEN "reboot_requested"
                                          ELSE "exhausted"]

-----------------------------------------------------------------------------
\* LE_RECOVERY_NET_DOWN_MAX_ATTEMPTS
NetDownMax == 3

Modes == {"client", "armed", "starting", "active", "handover",
          "unavailable", "stopped"}
Triggers == {"none", "physical", "auto"}

Recovery == [mode : Modes, trigger : Triggers, kids : BOOLEAN,
             alive : BOOLEAN, net : BOOLEAN, pending : BOOLEAN,
             attempts : 0 .. NetDownMax, led : BOOLEAN, counting : BOOLEAN,
             enabled : BOOLEAN, auto : BOOLEAN,
             radio : {"sta", "ap"}, marker : BOOLEAN]

Serving(r) == r.mode \in {"starting", "active"}

\* le_recovery_init with the owner settings given; the platform is what the
\* previous daemon left behind.
InitRecovery(enabled, auto, radio, alive, marker) ==
    [mode |-> "client", trigger |-> "none", kids |-> FALSE, alive |-> alive,
     net |-> FALSE, pending |-> FALSE, attempts |-> 0, led |-> FALSE,
     counting |-> FALSE, enabled |-> enabled, auto |-> auto,
     radio |-> radio, marker |-> marker]

(***************************************************************************)
(* release_net_ownership and teardown_children                             *)
(***************************************************************************)
BugReleaseForgets(r, ok) ==
    IF ~r.net THEN r
    ELSE [r EXCEPT !.net = FALSE, !.pending = FALSE, !.attempts = 0,
                   !.radio = IF ok THEN "sta" ELSE @]

ReleaseNet(r, ok) ==
    LET tries == (IF r.pending THEN r.attempts ELSE 0) + 1
    IN  IF ~r.net THEN r
        ELSE IF ok
          THEN [r EXCEPT !.net = FALSE, !.pending = FALSE, !.attempts = 0,
                         !.radio = "sta"]
          ELSE [r EXCEPT !.attempts = tries, !.pending = tries < NetDownMax]

Teardown(r, ok) ==
    ReleaseNet([r EXCEPT !.kids = FALSE, !.alive = r.alive /\ ~r.kids], ok)

(***************************************************************************)
(* le_recovery_arm.  psk is FALSE when the per-device secret cannot be     *)
(* read or created.                                                        *)
(***************************************************************************)
Arm(r, trigger, psk) ==
    IF Serving(r) \/ ~r.enabled THEN r
    ELSE [r EXCEPT !.trigger = trigger,
                   !.mode = IF psk THEN "armed" ELSE "unavailable"]

StartServices(r, f, down) ==
    LET up == [Teardown(r, down) EXCEPT
                 !.net = TRUE, !.pending = FALSE, !.attempts = 0,
                 !.radio = "ap", !.kids = TRUE, !.alive = TRUE]
    IN  CASE f = "probe" -> [r EXCEPT !.mode = "unavailable"]
          [] f = "up"    -> [Teardown(r, down) EXCEPT !.mode = "unavailable"]
          [] f = "spawn" -> [Teardown(up, down) EXCEPT !.mode = "unavailable"]
          [] f = "none"  -> [up EXCEPT !.mode = "starting"]

Stop(r, down) ==
    [Teardown(r, down) EXCEPT
        !.marker = r.marker /\ r.trigger # "physical",
        !.led = FALSE, !.counting = FALSE,
        !.mode = "stopped", !.trigger = "none"]

HandoverBegin(r, down) ==
    IF r.enabled /\ r.mode \in {"active", "starting", "armed"}
      THEN [Teardown(r, down) EXCEPT !.led = FALSE, !.counting = FALSE,
                                     !.mode = "handover"]
      ELSE r

HandoverResult(r, associated, down) ==
    IF r.mode # "handover" THEN r
    ELSE IF associated THEN Stop(r, down)
         ELSE [r EXCEPT !.mode = "armed", !.counting = FALSE]

Configure(r, enabled, auto, down) ==
    LET r1 == [r EXCEPT !.enabled = enabled, !.auto = auto]
    IN  IF enabled THEN r1 ELSE Stop(r1, down)

(***************************************************************************)
(* le_recovery_tick.  due: the deadline of the mode passed; retry: the     *)
(* net-down retry time passed.  out gives the results of this tick's       *)
(* calls: start (see StartServices), ready (the readiness probe), psk and  *)
(* down.                                                                   *)
(***************************************************************************)
TickResults == [start : {"none", "probe", "up", "spawn"},
                ready : BOOLEAN, psk : BOOLEAN, down : BOOLEAN]

TickStarting(r, due, out) ==
    IF r.alive /\ due /\ out.ready
      THEN [r EXCEPT !.mode = "active", !.led = TRUE]
    ELSE IF ~r.alive \/ due
      THEN [Teardown(r, out.down) EXCEPT !.mode = "unavailable",
                                         !.led = IF due THEN FALSE ELSE @]
    ELSE r

TickIdle(r, associated, due, out) ==
    LET counts == r.counting \/ (r.enabled /\ r.auto /\ ~associated)
        r1 == [r EXCEPT !.counting = FALSE]
    IN  IF counts /\ ~associated /\ due /\ r.counting
          THEN Arm(r1, "auto", out.psk)
          ELSE [r EXCEPT !.counting = counts /\ ~associated]

RecoveryTickOf(r, associated, due, retry, out) ==
    LET r1 == IF r.pending /\ retry THEN ReleaseNet(r, out.down) ELSE r
    IN  IF associated /\ Serving(r) THEN Stop(r, out.down)
        ELSE CASE r.mode = "armed"    -> StartServices(r1, out.start, out.down)
               [] r.mode = "starting" -> TickStarting(r1, due, out)
               [] r.mode \in {"client", "unavailable", "stopped"} ->
                                         TickIdle(r1, associated, due, out)
               [] OTHER -> r1

------------------------------------------------------------------------------
(***************************************************************************)
(* What the recovery access point keeps on flash: the per-device password  *)
(* (le_recovery_psk_ensure) and the owner's settings with their backup     *)
(* (le_recovery_config_persist, write_locked_file).  A write is a temporary*)
(* file, renames and a synchronised directory; each is a step, because the *)
(* power may go or the daemon may die between two of them.                 *)
(*                                                                         *)
(* dir is the directory as processes see it, disk what a power cut leaves. *)
(* The kernel may write dir back at any time (WrittenBack).  ok says       *)
(* whether the calls of a step succeed, undone whether its roll-back does. *)
(***************************************************************************)
CONSTANT Secrets        \* bound: passwords generated in one behaviour

ASSUME SecretsAssumption == Secrets \in Nat \ {0}

VARIABLES
    dir,     \* the files: psk (0: none), conf and bak ("none": absent)
    disk,    \* the same files as they are on flash
    job,     \* the operation under way and its next step
    mem,     \* the daemon: enabled, and the mode of its access point
    word     \* history: the password told to the owner and the settings the
             \* owner may expect; the one hostapd uses; passwords generated

fileVars == <<dir, disk, job, mem, word>>

Settings == {"on", "off"}
Files == [psk : 0 .. Secrets, conf : Settings \cup {"none"},
          bak : Settings \cup {"none"}]
NoJob == [step |-> "idle", why |-> "none", key |-> 0, want |-> "none",
          backed |-> FALSE]
Doing(step, why) == [NoJob EXCEPT !.step = step, !.why = why]

FileType ==
    /\ dir \in Files /\ disk \in Files
    /\ job.key \in 0 .. Secrets /\ job.backed \in BOOLEAN
    /\ mem \in [enabled : BOOLEAN, mode : {"off", "client", "armed", "active",
                                           "unavailable", "stopped"}]
    /\ word \in [told : 0 .. Secrets, ap : 0 .. Secrets,
                 made : 0 .. Secrets, owner : SUBSET Settings]

FilesInit ==
    /\ dir = [psk |-> 0, conf |-> "none", bak |-> "none"] /\ disk = dir
    /\ job = Doing("boot", "none")
    /\ mem = [enabled |-> FALSE, mode |-> "off"]
    /\ word = [told |-> 0, ap |-> 0, made |-> 0, owner |-> {"on"}]

(***************************************************************************)
(* The boot: le_recovery_config_load, then recovery_boot with the marker.  *)
(***************************************************************************)
Markers == {"absent", "flawed", "held"}

\* le_recovery_marker_check: a marker that is a link, writable by others, not
\* root's, not on tmpfs or not tagged is refused; none is a normal boot.
MarkerCheck(m) == m = "held"

\* No file, or one that cannot be read or parsed: the defaults apply.
Load(read) == dir.conf = "none" \/ ~read \/ dir.conf = "on"

Boots(read, marker) ==
    /\ job.step = "boot"
    /\ mem' = [enabled |-> Load(read), mode |-> "client"]
    /\ job' = IF MarkerCheck(marker) /\ mem'.enabled
                THEN Doing("look", "arm") ELSE NoJob
    /\ UNCHANGED <<dir, disk, word>>

(***************************************************************************)
(* le_recovery_psk_ensure, for a command (recovery_prepare, recovery_psk), *)
(* for le_recovery_arm and for write_recovery_configs.                     *)
(***************************************************************************)
\* secret_reveal_allowed: never while the access point serves.
AskSecret(why) ==
    /\ job.step = "idle" /\ mem.enabled /\ mem.mode # "active"
    /\ job' = Doing("look", why)
    /\ UNCHANGED <<dir, disk, mem, word>>

Serve ==
    /\ job.step = "idle" /\ mem.mode = "armed"
    /\ job' = Doing("look", "serve")
    /\ UNCHANGED <<dir, disk, mem, word>>

Refused ==
    /\ job' = NoJob
    /\ mem' = [mem EXCEPT !.mode = IF job.why \in {"arm", "serve"}
                                     THEN "unavailable" ELSE @]

\* The password goes to the owner, arms the device or goes into hostapd.conf.
Found(key) ==
    /\ job' = IF job.why = "serve" THEN [job EXCEPT !.step = "publish",
                                                    !.key = key]
              ELSE NoJob
    /\ mem' = [mem EXCEPT !.mode = IF job.why = "arm" THEN "armed" ELSE @]

Told(key) == [word EXCEPT !.told = IF job.why = "reveal" THEN key ELSE @]

\* A fresh password, in a temporary file in a protected directory.
Generated ==
    /\ dir.psk = 0 /\ word.made < Secrets
    /\ word' = [word EXCEPT !.made = @ + 1]
    /\ job' = [job EXCEPT !.step = "psk_rename", !.key = word.made + 1]
    /\ mem' = mem

\* The file is read, or there is none and a password is made.
LookUp(ok) ==
    /\ job.step = "look"
    /\ \/ ~ok /\ Refused /\ word' = word
       \/ ok /\ dir.psk # 0 /\ Found(dir.psk) /\ word' = Told(dir.psk)
       \/ ok /\ Generated
    /\ UNCHANGED <<dir, disk>>

PskRename(ok) ==
    /\ job.step = "psk_rename"
    /\ IF ok THEN /\ dir' = [dir EXCEPT !.psk = job.key]
                  /\ job' = [job EXCEPT !.step = "psk_sync"] /\ mem' = mem
             ELSE Refused /\ dir' = dir
    /\ UNCHANGED <<disk, word>>

\* fsync_parent_dir: on success the directory is on flash.
SyncParent(ok) == ok /\ disk' = dir

PskSync(ok) ==
    /\ job.step = "psk_sync"
    /\ \/ /\ SyncParent(ok) /\ dir' = dir
          /\ Found(job.key) /\ word' = Told(job.key)
       \/ /\ ~ok /\ dir' = [dir EXCEPT !.psk = 0]
          /\ Refused /\ UNCHANGED <<disk, word>>

\* write_recovery_configs: hostapd.conf and dnsmasq.conf on tmpfs.
Publish(ok) ==
    /\ job.step = "publish"
    /\ job' = NoJob
    /\ mem' = [mem EXCEPT !.mode = IF ok THEN "active" ELSE "unavailable"]
    /\ word' = [word EXCEPT !.ap = IF ok THEN job.key ELSE @]
    /\ UNCHANGED <<dir, disk>>

(***************************************************************************)
(* recovery_configure: the file first, the running settings after it.      *)
(***************************************************************************)
StoreSettings(want) ==
    /\ job.step = "idle" /\ mem.mode # "off"
    /\ job' = [Doing("conf_write", "configure") EXCEPT !.want = want]
    /\ word' = [word EXCEPT !.owner = @ \cup {want}]
    /\ UNCHANGED <<dir, disk, mem>>

\* The owner is told that nothing changed.
Rejected ==
    /\ job' = NoJob /\ mem' = mem
    /\ word' = [word EXCEPT !.owner = {IF mem.enabled THEN "on" ELSE "off"}]

Accepted ==
    /\ job' = NoJob
    /\ mem' = IF job.want = "on" THEN [mem EXCEPT !.enabled = TRUE]
              ELSE [enabled |-> FALSE, mode |-> "stopped"]
    /\ word' = [word EXCEPT !.owner = {job.want},
                            !.ap = IF job.want = "on" THEN @ ELSE 0]

ConfWrite(ok) ==
    /\ job.step = "conf_write"
    /\ IF ok THEN /\ job' = [job EXCEPT !.step = IF dir.conf = "none"
                                                   THEN "conf_rename"
                                                   ELSE "conf_backup"]
                  /\ UNCHANGED <<mem, word>>
             ELSE Rejected
    /\ UNCHANGED <<dir, disk>>

ConfBackup(ok) ==
    /\ job.step = "conf_backup"
    /\ IF ok THEN /\ dir' = [dir EXCEPT !.bak = dir.conf, !.conf = "none"]
                  /\ job' = [job EXCEPT !.step = "conf_rename",
                                        !.backed = TRUE]
                  /\ UNCHANGED <<mem, word>>
             ELSE Rejected /\ dir' = dir
    /\ disk' = disk

\* The backup of this call goes back; without one the new file goes.
RolledBackFile(undone) ==
    IF ~undone THEN dir
    ELSE IF job.backed THEN [dir EXCEPT !.conf = dir.bak, !.bak = "none"]
    ELSE [dir EXCEPT !.conf = "none"]

ConfRename(ok, undone) ==
    /\ job.step = "conf_rename"
    /\ IF ok THEN /\ dir' = [dir EXCEPT !.conf = job.want]
                  /\ job' = [job EXCEPT !.step = "conf_sync"]
                  /\ UNCHANGED <<mem, word>>
             ELSE Rejected /\ dir' = RolledBackFile(undone)
    /\ disk' = disk

ConfSync(ok, undone) ==
    /\ job.step = "conf_sync"
    /\ \/ SyncParent(ok) /\ Accepted /\ dir' = dir
       \/ ~ok /\ Rejected /\ dir' = RolledBackFile(undone) /\ disk' = disk

(***************************************************************************)
(* The surroundings.                                                       *)
(***************************************************************************)
WrittenBack ==
    /\ disk # dir
    /\ disk' = dir
    /\ UNCHANGED <<dir, job, mem, word>>

Down == mem' = [enabled |-> FALSE, mode |-> "off"] /\ job' = Doing("boot", "none")

PowerCut ==
    /\ mem.mode # "off"
    /\ Down /\ dir' = disk /\ disk' = disk
    /\ word' = [word EXCEPT !.ap = 0]

\* The files stay, and so does a hostapd that was running.
DaemonDies == mem.mode # "off" /\ Down /\ UNCHANGED <<dir, disk, word>>

----------------------------------------------------------------------------
(* A password shown to the owner stays the device's password over every     *)
(* later failure, crash and power cut, and is the one its access point      *)
(* uses (le_recovery_secret_json promises that it can be saved for later).  *)
(* The daemon runs with the settings the owner was last told of, or, when   *)
(* a change was interrupted, with the old or the new ones                   *)
(* (le_recovery_config_persist).                                            *)
FilesHonest ==
    /\ FileType
    /\ word.told # 0 => dir.psk = word.told
    /\ word.told # 0 /\ word.ap # 0 => word.ap = word.told
    /\ mem.mode # "off" => (IF mem.enabled THEN "on" ELSE "off") \in word.owner
=============================================================================
