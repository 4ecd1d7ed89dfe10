------------------------------- MODULE Networkd -------------------------------
(***************************************************************************)
(* networkd: one poll loop that serves adapter clients (scan, connect,     *)
(* disconnect, recovery commands), drives wpa_supplicant and a DHCP child, *)
(* watches the gateway and runs the recovery access point (both in         *)
(* RecoveryAp).  The loop is single threaded, so one handler is one       *)
(* action; what interleaves is which event the next iteration serves.      *)
(*                                                                         *)
(* Deadlines are untimed: a timeout is an action enabled while what it     *)
(* bounds is under way.  At most one wpa_supplicant command fails in one   *)
(* handler.                                                                *)
(***************************************************************************)
EXTENDS Integers, FiniteSets, RecoveryAp

CONSTANTS
    Clients,        \* adapter connections (CLIENT_MAX slots)
    MaxProfiles,    \* bound: wpa_supplicant profiles at one time
    Setups          \* the devices and surroundings explored, see Setup

NoClient == "none"

Commands == {"scan", "connect", "disconnect", "recovery_stop",
             "recovery_configure", "status"}

\* wpa: a supplicant command fails.  dhcp: no lease, no address or no fork.
\* assoc: the association times out.  ap: a step of starting the AP fails.
\* netdown: the net-down helper fails.  child: hostapd or dnsmasq dies.
\* leave: a client goes away.  drop: the association is lost.  iface: the
\* interface ioctl fails.  reboot: guard or request cannot be written.
\* term: SIGTERM and restart.  crash: the daemon dies and is restarted.
\* file: a file operation fails.  power: the power is cut.  torn: also in the
\* middle of replacing a file.
FaultKinds == {"wpa", "dhcp", "assoc", "ap", "netdown", "child", "leave",
               "drop", "iface", "reboot", "term", "crash", "file", "power",
               "torn"}

\* One setup: the commands clients send, what may go wrong, whether the
\* gateway check runs, whether a marker path was given (recovery_configured),
\* the auto_enabled values owners set, whether a boot marker may exist,
\* whether the default route may be missing, the part explored
\* (NetworkService) and the units in which a driver reports levels.
Setup == [requests : SUBSET Commands, faults : SUBSET FaultKinds,
          probing : BOOLEAN, configured : BOOLEAN,
          auto : SUBSET BOOLEAN \ {{}}, marker : SUBSET BOOLEAN \ {{}},
          routes : SUBSET BOOLEAN \ {{}}, part : {"loop", "files", "list"},
          units : SUBSET {"dbm", "percent"}]

ASSUME NetworkdAssumption ==
    /\ IsFiniteSet(Clients) /\ Clients # {} /\ NoClient \notin Clients
    /\ MaxProfiles \in Nat \ {0}
    /\ Setups \subseteq Setup

VARIABLES
    rec,      \* the recovery state machine and the platform (RecoveryAp)
    conf,     \* the persisted owner settings, recovery.json
    ledOn,    \* ctx->recovery_led_active: what ledd was last told
    health,   \* ctx->health
    probe,    \* ctx->gateway_probe.active
    st,       \* ctx->state, the fields decisions read
    netlink,  \* address or link events of a net helper are queued
    assoc,    \* ctx->association
    dhcp,     \* ctx->dhcp
    scan,     \* ctx->scan
    client,   \* "gone", "idle" or "busy" per adapter slot
    wpa,      \* wpa_supplicant
    chan,     \* ctx->wpa.command is open
    kern,     \* the interface: administratively down, has a leased address
    guard,    \* the persistent reboot guard file exists
    reboots,  \* reboot requests submitted
    good,     \* history: the profile of the last confirmed lease
    tried,    \* history: ladder actions since the gateway last answered
    setup     \* the setup of this behaviour

radioVars  == <<wpa, chan, kern, good>>
healthVars == <<health, probe, guard, reboots, tried>>
opVars     == <<assoc, dhcp, scan, client>>
recVars    == <<rec, conf, ledOn>>
vars == <<recVars, healthVars, st, netlink, opVars, radioVars, setup>>

Requests == setup.requests
Faults == setup.faults
Configured == setup.configured
Routes == setup.routes

None == -1
Profiles == 0 .. MaxProfiles - 1

May(f) == IF f \in Faults THEN BOOLEAN ELSE {FALSE}
Works(f) == IF f \in Faults THEN BOOLEAN ELSE {TRUE}

(***************************************************************************)
(* wpa_supplicant (external), as the commands of networkd.c use it.        *)
(***************************************************************************)
Wpa == [cfgs : SUBSET Profiles, saved : SUBSET Profiles,
        sel : Profiles \cup {None}, done : BOOLEAN, off : BOOLEAN]

Idle(w) == [w EXCEPT !.sel = None, !.done = FALSE]
DisableAll(w) == [Idle(w) EXCEPT !.off = TRUE]
Reload(w) == [Idle(w) EXCEPT !.cfgs = w.saved, !.off = FALSE]
RemoveNetwork(w, i) ==
    LET w1 == IF w.sel = i THEN Idle(w) ELSE w
    IN  [w1 EXCEPT !.cfgs = @ \ {i}]
Select(w, i) ==
    IF i \notin w.cfgs THEN w
    ELSE [w EXCEPT !.sel = i, !.done = w.done /\ w.sel = i, !.off = FALSE]
AddNetwork(w, i) == [w EXCEPT !.cfgs = @ \cup {i}]
SaveConfig(w) == [w EXCEPT !.saved = w.cfgs]
Reassociate(w) == [w EXCEPT !.done = FALSE]
NewId(w) == CHOOSE i \in Profiles \ w.cfgs :
                \A j \in Profiles \ w.cfgs : i <= j

\* The supplicant runs only while the client plane has the radio, and
\* wpa_open refuses while a net-down is owed.
Answers(r) == r.radio = "sta" /\ ~r.net

\* net-up stops the supplicant and net-down starts it again from its file.
AfterRadio(w, r0, r1) == IF r0.radio = r1.radio THEN w ELSE Reload(w)

\* The helpers run to completion, so their netlink events are queued before
\* the next poll, which serves netlink before the checks that end the loop.
HelperEvents == netlink' = (netlink \/ rec'.radio # rec.radio)

(***************************************************************************)
(* refresh_state                                                           *)
(***************************************************************************)
States == {"connected", "connecting", "disconnected", "unavailable"}
State == [state : States, ssid : BOOLEAN, link : BOOLEAN, ip : BOOLEAN,
          gw : BOOLEAN]

\* IFF_RUNNING: an associated station, or a serving access point.
LinkUp(r, w, k) == ~k.down /\ IF r.radio = "ap" THEN r.alive ELSE w.done

\* refresh_interface_info.  The portal address is an address too.
RefreshInterface(s, r, w, k, route) ==
    [s EXCEPT !.link = LinkUp(r, w, k), !.ip = r.radio = "ap" \/ k.lease,
              !.gw = r.radio = "sta" /\ k.lease /\ ~k.down /\ route]

\* refresh_wpa_info on the open channel; refresh_link_fallback without one.
RefreshWpa(s, r, w, ch) ==
    IF ch /\ Answers(r)
      THEN [s EXCEPT !.ssid = @ \/ w.done,
                     !.state = IF w.done THEN "connected"
                               ELSE IF w.sel # None THEN "connecting"
                               ELSE "disconnected"]
      ELSE [s EXCEPT !.state = IF s.link THEN "connected"
                                         ELSE "disconnected"]

Refreshed(s, r, w, k, ch, route) ==
    RefreshWpa(RefreshInterface(s, r, w, k, route), r, w, ch)

\* What recovery_tick and check_network_health call associated.
Associated == st.state = "connected" /\ st.ssid /\ st.link

(***************************************************************************)
(* Adapter clients: remove_client and the reply that ends an operation.    *)
(***************************************************************************)
NoAssoc == [active |-> FALSE, prev |-> 0, cand |-> 0, who |-> NoClient]
NoDhcp == [active |-> FALSE, release |-> FALSE, who |-> NoClient]
NoScan == [stage |-> "none", who |-> NoClient]

Replied(cl, who) ==
    [c \in Clients |-> IF c = who /\ cl[c] = "busy" THEN "idle" ELSE cl[c]]

TypeOK ==
    /\ rec \in Recovery
    /\ conf \in [enabled : BOOLEAN, auto : BOOLEAN]
    /\ ledOn \in BOOLEAN
    /\ health \in Health
    /\ probe \in BOOLEAN
    /\ st \in State
    /\ netlink \in BOOLEAN
    /\ assoc \in [active : BOOLEAN, prev : Profiles \cup {None},
                  cand : Profiles, who : Clients \cup {NoClient}]
    /\ dhcp \in [active : BOOLEAN, release : BOOLEAN,
                 who : Clients \cup {NoClient}]
    /\ scan \in [stage : {"none", "wpa", "family", "trigger", "dump"},
                 who : Clients \cup {NoClient}]
    /\ client \in [Clients -> {"gone", "idle", "busy"}]
    /\ wpa \in Wpa
    /\ chan \in BOOLEAN
    /\ kern \in [down : BOOLEAN, lease : BOOLEAN]
    /\ guard \in BOOLEAN
    /\ reboots \in 0 .. 2
    /\ good \in Profiles \cup {None}
    /\ tried \subseteq {"reassociate", "if_down", "if_up"}
    /\ setup \in Setups

(***************************************************************************)
(* Start of the daemon: main before the loop, with recovery_boot.          *)
(***************************************************************************)
BootRecovery(c, radio, alive, marker, w, psk) ==
    LET r0 == InitRecovery(c.enabled, c.auto, radio, alive, marker)
        r1 == IF marker THEN Arm(r0, "physical", psk) ELSE r0
        known == Answers(r0) /\ w.cfgs # {}     \* wpa_has_saved_network
    IN  IF ~Configured \/ ~c.enabled THEN r0
        ELSE [r1 EXCEPT !.auto = @ /\ known]

BootState(r, w, k, route) ==
    Refreshed([state |-> "unavailable", ssid |-> FALSE, link |-> FALSE,
               ip |-> FALSE, gw |-> FALSE], r, w, k, Answers(r), route)

Init ==
    /\ setup \in Setups
    /\ conf \in [enabled : {TRUE}, auto : setup.auto]
    /\ wpa \in {w \in Wpa : /\ w.saved = w.cfgs /\ w.cfgs \in {{}, {0}}
                             /\ w.sel \in w.cfgs \cup {None} /\ ~w.off
                             /\ (w.sel = None => ~w.done)}
    /\ kern \in [down : {FALSE}, lease : {wpa.done}]
    /\ \E m \in setup.marker, psk \in Works("ap") :
          rec = BootRecovery(conf, "sta", FALSE, m, wpa, psk)
    /\ \E route \in Routes : st = BootState(rec, wpa, kern, route)
    /\ chan = TRUE /\ netlink = FALSE
    /\ ledOn = FALSE
    /\ health = FreshHealth /\ probe = FALSE
    /\ assoc = NoAssoc /\ dhcp = NoDhcp /\ scan = NoScan
    /\ client = [c \in Clients |-> "idle"]
    /\ guard = FALSE /\ reboots = 0
    /\ good = (IF wpa.done THEN wpa.sel ELSE None) /\ tried = {}

(***************************************************************************)
(* restore_network_profile.  bad names the command that fails, if any.     *)
(***************************************************************************)
RestoreFails == IF "wpa" \in Faults
                  THEN {"none", "remove", "select", "save"} ELSE {"none"}

RestoreProfile(w, r, prev, cand, bad) ==
    LET w1 == IF cand = None \/ bad = "remove" THEN w ELSE RemoveNetwork(w, cand)
        w2 == IF bad = "select" THEN w1
              ELSE IF prev # None THEN Select(w1, prev) ELSE DisableAll(w1)
    IN  IF ~Answers(r) THEN w
        ELSE IF prev = None \/ bad = "save" THEN w2 ELSE SaveConfig(w2)

\* The re-arm that follows a failed attempt, and the LED update after it.
Rearmed(r) == IF Configured THEN HandoverResult(r, FALSE, TRUE) ELSE r

CanConnect(c) ==
    /\ "connect" \in Requests /\ client[c] = "idle"
    /\ ~dhcp.active /\ ~assoc.active

\* The AP gives the radio back before wpa_supplicant is asked to associate.
ConnectRecovery(down) == IF Configured THEN HandoverBegin(rec, down) ELSE rec

ConnectStarts(c) ==
    /\ CanConnect(c)
    /\ \E down \in Works("netdown") :
         LET r == ConnectRecovery(down)
             w == AfterRadio(wpa, rec, r)
         IN  /\ Answers(r)
             /\ Profiles \ w.cfgs # {}
             /\ rec' = r /\ ledOn' = r.led
             /\ wpa' = Select(AddNetwork(DisableAll(w), NewId(w)), NewId(w))
             /\ assoc' = [active |-> TRUE, prev |-> w.sel, cand |-> NewId(w),
                          who |-> c]
    /\ chan' = TRUE /\ HelperEvents
    /\ client' = [client EXCEPT ![c] = "busy"]
    /\ UNCHANGED <<conf, healthVars, st, dhcp, scan, kern, good>>

\* A command is refused at some stage: the working profile is selected again
\* and a recovery hand-over is undone.
ConnectRejected(c) ==
    /\ CanConnect(c)
    /\ \E down \in Works("netdown"), stage \in {"disable", "add", "set"} :
         LET r == ConnectRecovery(down)
             w == AfterRadio(wpa, rec, r)
             w1 == IF stage = "disable" THEN w ELSE DisableAll(w)
             cand == IF stage = "set" THEN NewId(w) ELSE None
             w2 == IF cand = None THEN w1
                   ELSE AddNetwork(w1, cand)
         IN  /\ stage # "set" => "wpa" \in Faults
             /\ stage = "set" => Profiles \ w.cfgs # {}
             /\ Answers(r)
             /\ rec' = Rearmed(r) /\ ledOn' = rec'.led
             /\ wpa' = RestoreProfile(w2, r, w.sel, cand, "none")
    /\ chan' = TRUE /\ HelperEvents
    /\ UNCHANGED <<conf, healthVars, st, opVars, kern, good>>

\* Nobody answers: net-down failed, or the platform still has the radio.
ConnectUnanswered(c) ==
    /\ CanConnect(c)
    /\ \E down \in Works("netdown") :
         LET r == ConnectRecovery(down)
         IN  /\ ~Answers(r)
             /\ rec' = Rearmed(r) /\ ledOn' = rec'.led
             /\ wpa' = AfterRadio(wpa, rec, r)
    /\ chan' = FALSE /\ HelperEvents
    /\ st' = [st EXCEPT !.state = "unavailable"]
    /\ UNCHANGED <<conf, healthVars, opVars, kern, good>>

(***************************************************************************)
(* check_association and finish_association                                *)
(***************************************************************************)
AssociationCompleted ==
    /\ assoc.active /\ Answers(rec) /\ wpa.done /\ wpa.sel = assoc.cand

EndAssociation == assoc' = NoAssoc /\ client' = Replied(client, assoc.who)

AssociationTimesOut ==
    /\ assoc.active /\ ~AssociationCompleted
    /\ \E bad \in RestoreFails :
          wpa' = RestoreProfile(wpa, rec, assoc.prev, assoc.cand, bad)
    /\ rec' = Rearmed(rec) /\ ledOn' = rec'.led
    /\ chan' = Answers(rec)
    /\ EndAssociation
    /\ UNCHANGED <<netlink, conf, healthVars, st, dhcp, scan, kern, good>>

\* SAVE_CONFIG fails after the association.
AssociationNotSaved ==
    /\ AssociationCompleted /\ "wpa" \in Faults
    /\ wpa' = RestoreProfile(wpa, rec, assoc.prev, assoc.cand, "none")
    /\ rec' = Rearmed(rec) /\ ledOn' = rec'.led
    /\ EndAssociation
    /\ UNCHANGED <<netlink, conf, healthVars, st, dhcp, scan, chan, kern, good>>

ResetHealth == health' = FreshHealth /\ probe' = FALSE /\ tried' = {}

\* The profile is saved; the lease decides.  Without a DHCP child the attempt
\* has failed.
AssociationSaved(started) ==
    /\ AssociationCompleted
    /\ ResetHealth
    /\ st' = [st EXCEPT !.ssid = TRUE, !.state = "connecting"]
    /\ IF started
         THEN /\ wpa' = SaveConfig(wpa)
              /\ assoc' = [assoc EXCEPT !.active = FALSE, !.who = NoClient]
              /\ dhcp' = [active |-> TRUE, release |-> FALSE, who |-> assoc.who]
              /\ UNCHANGED <<rec, ledOn, client>>
         ELSE /\ \E bad \in RestoreFails :
                   wpa' = RestoreProfile(SaveConfig(wpa), rec, assoc.prev,
                                         assoc.cand, bad)
              /\ rec' = Rearmed(rec) /\ ledOn' = rec'.led
              /\ EndAssociation
              /\ UNCHANGED dhcp
    /\ UNCHANGED <<netlink, conf, guard, reboots, scan, chan, kern, good>>

(***************************************************************************)
(* finish_dhcp.  DhcpEnd gives the supplicant and the verdict for a lease: *)
(* the replaced profile goes only when the new file can be written.        *)
(***************************************************************************)
LeaseReplaces == assoc.prev # None /\ assoc.prev # assoc.cand

BugRollbackNoReload(w) ==
    SaveConfig(Select(RemoveNetwork(w, assoc.cand), assoc.prev))

RolledBack(w) ==
    SaveConfig(Select(RemoveNetwork(Reload(w), assoc.cand), assoc.prev))

LeaseVerdict(success, saves) ==
    LET kept == RemoveNetwork(wpa, assoc.prev)
    IN  CASE ~success ->
               [ok |-> FALSE,
                wpa |-> RestoreProfile(wpa, rec, assoc.prev, assoc.cand,
                                       IF saves THEN "none" ELSE "save")]
          [] success /\ ~LeaseReplaces -> [ok |-> TRUE, wpa |-> wpa]
          [] success /\ LeaseReplaces /\ ~Answers(rec) ->
               [ok |-> FALSE, wpa |-> wpa]
          [] OTHER ->
               [ok |-> saves, wpa |-> IF saves THEN SaveConfig(kept)
                                               ELSE RolledBack(kept)]

EndDhcp(ok, down) ==
    /\ dhcp' = NoDhcp
    /\ rec' = IF Configured THEN HandoverResult(rec, ok, down) ELSE rec
    /\ ledOn' = rec'.led /\ HelperEvents
    /\ client' = Replied(client, dhcp.who)

LeaseEnds(success) ==
    /\ dhcp.active /\ ~dhcp.release
    /\ success => wpa.done /\ rec.radio = "sta" /\ ~kern.down
    /\ kern' = [kern EXCEPT !.lease = success]
    /\ \E saves \in Works("wpa"), down \in Works("netdown"), route \in Routes :
         LET v == LeaseVerdict(success, saves)
         IN  /\ wpa' = v.wpa
             /\ good' = IF v.ok THEN assoc.cand ELSE good
             /\ EndDhcp(v.ok, down)
             /\ st' = [RefreshInterface(st, rec, wpa, kern', route) EXCEPT
                         !.state = IF v.ok THEN "connected"
                                           ELSE "disconnected"]
    /\ assoc' = NoAssoc
    /\ chan' = (chan /\ Answers(rec))
    /\ UNCHANGED <<conf, healthVars, scan>>

ReleaseEnds ==
    /\ dhcp.active /\ dhcp.release
    /\ kern' = [kern EXCEPT !.lease = FALSE]
    /\ st' = [st EXCEPT !.ip = FALSE, !.gw = FALSE, !.state = "disconnected"]
    /\ \E success \in Works("dhcp"), down \in Works("netdown") :
          EndDhcp(success, down)
    /\ UNCHANGED <<conf, healthVars, assoc, scan, wpa, chan, good>>

(***************************************************************************)
(* disconnect: cancel_association or cancel_dhcp, then the release.        *)
(***************************************************************************)
CancelledOp ==
    IF assoc.active
      THEN [rec |-> rec, who |-> assoc.who, chan |-> Answers(rec),
            wpa |-> RestoreProfile(wpa, rec, assoc.prev, assoc.cand, "none")]
    ELSE IF dhcp.active
      THEN [rec |-> Rearmed(rec), who |-> dhcp.who,
            chan |-> IF dhcp.release THEN chan ELSE Answers(rec),
            wpa |-> IF dhcp.release THEN wpa
                    ELSE RestoreProfile(wpa, rec, assoc.prev, assoc.cand, "none")]
    ELSE [rec |-> rec, who |-> NoClient, chan |-> chan, wpa |-> wpa]

BugDisconnectKeepsOld(c) ==
    [client EXCEPT ![c] = "busy"]

DisconnectClients(c) == [Replied(client, CancelledOp.who) EXCEPT ![c] = "busy"]

Disconnect(c) ==
    /\ "disconnect" \in Requests /\ client[c] = "idle"
    /\ LET op == CancelledOp
       IN  /\ rec' = op.rec
           /\ ledOn' = op.rec.led
           /\ chan' = (op.chan /\ Answers(rec))
           /\ wpa' = IF chan' THEN DisableAll(op.wpa) ELSE op.wpa
    /\ assoc' = NoAssoc
    /\ ResetHealth
    /\ st' = [st EXCEPT !.ssid = FALSE, !.ip = FALSE, !.gw = FALSE,
                        !.state = "disconnected"]
    /\ \E forks \in Works("dhcp") :
         /\ dhcp' = IF forks THEN [active |-> TRUE, release |-> TRUE, who |-> c]
                             ELSE NoDhcp
         /\ client' = IF forks THEN DisconnectClients(c)
                               ELSE Replied(DisconnectClients(c), c)
    /\ UNCHANGED <<netlink, conf, guard, reboots, scan, kern, good>>

(***************************************************************************)
(* scan: by wpa_supplicant when it answers, by nl80211 otherwise.          *)
(***************************************************************************)
\* The supplicant's scan, or driver_scan_begin when it is not there or
\* refuses.
ScanStages == IF Answers(rec) THEN {"wpa", "family"} ELSE {"family"}

StartScan(c) ==
    /\ "scan" \in Requests /\ client[c] = "idle" /\ scan.stage = "none"
    /\ \E stage \in ScanStages : scan' = [stage |-> stage, who |-> c]
    /\ chan' = Answers(rec)
    /\ st' = IF Answers(rec) THEN st ELSE [st EXCEPT !.state = "unavailable"]
    /\ client' = [client EXCEPT ![c] = "busy"]
    /\ UNCHANGED <<netlink, recVars, healthVars, assoc, dhcp, wpa, kern, good>>

\* driver_scan_message: one kernel answer moves the scan on.
DriverScanAdvances ==
    /\ scan.stage \in {"family", "trigger"}
    /\ scan' = [scan EXCEPT !.stage = IF @ = "family" THEN "trigger"
                                                      ELSE "dump"]
    /\ UNCHANGED <<netlink, recVars, healthVars, st, assoc, dhcp, client, radioVars>>

\* finish_scan and finish_driver_scan: results, an error or the deadline.
ScanEnds ==
    /\ scan.stage # "none"
    /\ scan' = NoScan
    /\ client' = Replied(client, scan.who)
    /\ UNCHANGED <<netlink, recVars, healthVars, st, assoc, dhcp, radioVars>>

Disowned(op, c) == IF op.who = c THEN [op EXCEPT !.who = NoClient] ELSE op

ClientLeaves(c) ==
    /\ "leave" \in Faults /\ client[c] # "gone"
    /\ client' = [client EXCEPT ![c] = "gone"]
    /\ scan' = Disowned(scan, c)
    /\ assoc' = Disowned(assoc, c)
    /\ dhcp' = Disowned(dhcp, c)
    /\ UNCHANGED <<netlink, recVars, healthVars, st, radioVars>>

ClientJoins(c) ==
    /\ client[c] = "gone"
    /\ client' = [client EXCEPT ![c] = "idle"]
    /\ UNCHANGED <<netlink, recVars, healthVars, st, assoc, dhcp, scan, radioVars>>

(***************************************************************************)
(* status and the netlink and monitor events: refresh_state                *)
(***************************************************************************)
Refresh(opens) ==
    /\ netlink' = (netlink /\ opens)
    /\ opens => "status" \in Requests
    /\ LET ch == Answers(rec) /\ (chan \/ opens)
       IN  /\ chan' = ch
           /\ \E route \in Routes :
                 st' = Refreshed(st, rec, wpa, kern, ch, route)
    /\ UNCHANGED <<recVars, healthVars, opVars, wpa, kern, good>>

\* drain_wpa_events on a channel whose other end is gone.
MonitorLost ==
    /\ chan /\ ~Answers(rec)
    /\ chan' = FALSE
    /\ st' = [st EXCEPT !.state = "unavailable"]
    /\ UNCHANGED <<netlink, recVars, healthVars, opVars, wpa, kern, good>>

(***************************************************************************)
(* recovery_stop and recovery_configure                                    *)
(***************************************************************************)
RecoveryCommand(r) ==
    /\ Configured
    /\ rec' = r /\ ledOn' = r.led /\ HelperEvents
    /\ wpa' = AfterRadio(wpa, rec, r)
    /\ chan' = (chan /\ Answers(r))
    /\ \E route \in Routes : st' = Refreshed(st, r, wpa', kern, chan', route)
    /\ UNCHANGED <<healthVars, opVars, kern, good>>

RecoveryStop ==
    /\ "recovery_stop" \in Requests /\ \E c \in Clients : client[c] = "idle"
    /\ \E down \in Works("netdown") : RecoveryCommand(Stop(rec, down))
    /\ UNCHANGED conf

RecoveryConfigure(enabled, auto) ==
    /\ "recovery_configure" \in Requests
    /\ \E c \in Clients : client[c] = "idle"
    /\ conf' = [enabled |-> enabled, auto |-> auto]
    /\ \E down \in Works("netdown") :
          RecoveryCommand(Configure(rec, enabled, auto, down))

(***************************************************************************)
(* recovery_tick                                                           *)
(***************************************************************************)
TickOutcomes ==
    {o \in TickResults :
        /\ "ap" \notin Faults => o.start = "none" /\ o.ready /\ o.psk
        /\ "netdown" \notin Faults => o.down}

RecoveryTick(retry) ==
    /\ Configured /\ ~netlink
    /\ \E due \in BOOLEAN, out \in TickOutcomes :
          rec' = RecoveryTickOf(rec, Associated, due, retry, out)
    /\ rec' # rec
    /\ ledOn' = rec'.led /\ HelperEvents
    /\ wpa' = AfterRadio(wpa, rec, rec')
    /\ UNCHANGED <<conf, healthVars, st, opVars, chan, kern, good>>

(***************************************************************************)
(* check_network_health, handle_gateway_probe_event, perform_health_action *)
(***************************************************************************)
BugGuardAfter(a, o) ==
    /\ reboots' = IF a = "reboot" /\ o = "ok" THEN reboots + 1 ELSE reboots
    /\ guard' = guard

\* reserve_reboot_guard, request_supervised_reboot: o is what fails.
RequestReboot(a, o) ==
    LET submits == a = "reboot" /\ ~guard /\ o = "ok"
    IN  /\ reboots' = IF submits THEN reboots + 1 ELSE reboots
        /\ guard' = (guard \/ submits)

RebootOutcomes == IF "reboot" \in Faults THEN {"ok", "failed"} ELSE {"ok"}

\* set_interface_enabled
SetInterface(a, works) ==
    kern' = CASE works /\ a = "if_down" -> [kern EXCEPT !.down = TRUE]
              [] works /\ a = "if_up"   -> [kern EXCEPT !.down = FALSE]
              [] OTHER -> kern

PerformHealth(o) ==
    LET a == o.action
        asks == a \in {"reassociate", "if_up"}
    IN  /\ \E res \in RebootOutcomes :
             /\ RequestReboot(a, res)
             /\ health' = IF a = "reboot"
                            THEN FinishReboot(o.health, reboots' > reboots)
                            ELSE o.health
        /\ \E works \in Works("iface") :
             /\ SetInterface(a, works)
             /\ wpa' = IF Answers(rec) /\ asks /\ (a = "if_up" => works)
                         THEN Reassociate(wpa)
                       ELSE IF kern'.down THEN Reassociate(wpa) ELSE wpa
        /\ tried' = IF a \in {"reassociate", "if_down", "if_up"}
                      THEN tried \cup {a}
                    ELSE IF o.health.phase = "idle" THEN {} ELSE tried
    /\ UNCHANGED <<netlink, recVars, st, opVars, chan, good>>

\* Liveness is unknown while an operation has the radio or no address.
HealthBusy == Associated /\ (dhcp.active \/ scan.stage # "none" \/ ~st.ip)

HealthSuspends ==
    /\ HealthBusy
    /\ probe' = FALSE
    /\ PerformHealth(RecordProbe(health, -1))

ProbeTimesOut ==
    /\ ~HealthBusy /\ probe
    /\ probe' = FALSE
    /\ PerformHealth(RecordProbe(health, 0))

HealthTicks(due) ==
    /\ ~HealthBusy
    /\ LET o == HealthTick(health, Associated, st.gw, due)
       IN  \/ /\ o.action # "probe"
              /\ probe' = probe
              /\ PerformHealth(o)
           \/ /\ o.action = "probe"
              /\ probe' = TRUE
              /\ PerformHealth(o)
           \/ /\ o.action = "probe"            \* the socket cannot be opened
              /\ probe' = FALSE
              /\ PerformHealth(RecordProbe(o.health, -1))

ProbeAnswered ==
    /\ probe
    /\ probe' = FALSE
    /\ \E result \in {1, -1} : PerformHealth(RecordProbe(health, result))

(***************************************************************************)
(* The environment: wpa_supplicant joins, loses or picks a network; a      *)
(* child of the access point dies.                                         *)
(***************************************************************************)
WpaSteps ==
    /\ rec.radio = "sta"
    /\ \/ /\ wpa.sel # None /\ ~wpa.done /\ ~kern.down
          /\ wpa' = [wpa EXCEPT !.done = TRUE]
       \/ /\ wpa.sel = None /\ ~wpa.off
          /\ \E i \in wpa.cfgs : wpa' = [wpa EXCEPT !.sel = i]
       \/ /\ wpa.done /\ "drop" \in Faults
          /\ wpa' = Reassociate(wpa)
    /\ UNCHANGED <<netlink, recVars, healthVars, st, opVars, chan, kern, good>>

ApChildDies ==
    /\ "child" \in Faults /\ rec.alive
    /\ rec' = [rec EXCEPT !.alive = FALSE]
    /\ UNCHANGED <<netlink, conf, ledOn, healthVars, st, opVars, radioVars>>

(***************************************************************************)
(* cleanup on SIGTERM, and a restart; a crash restarts without cleanup.    *)
(***************************************************************************)
Restarted(r, w) ==
    /\ netlink' = FALSE
    /\ \E psk \in Works("ap") :
          rec' = BootRecovery(conf, r.radio, r.alive, r.marker, w, psk)
    /\ wpa' = w
    /\ \E route \in Routes : st' = BootState(rec', w, kern, route)
    /\ chan' = Answers(rec')
    /\ ledOn' = FALSE
    /\ ResetHealth
    /\ assoc' = NoAssoc /\ dhcp' = NoDhcp /\ scan' = NoScan
    /\ client' = [c \in Clients |-> "idle"]
    /\ UNCHANGED <<conf, kern, guard, reboots, good>>

ShutDown(down) ==
    IF Configured /\ rec.mode \in {"active", "starting", "armed", "handover"}
      THEN Stop(rec, down) ELSE rec

Terminate ==
    /\ "term" \in Faults
    /\ \E down \in Works("netdown") :
         LET r == ShutDown(down)
             w == AfterRadio(wpa, rec, r)
         IN  Restarted(r, IF assoc.active
                            THEN RestoreProfile(w, r, assoc.prev, assoc.cand,
                                                "none")
                            ELSE w)

Crash == "crash" \in Faults /\ Restarted(rec, wpa)

AssociationStep ==
    \/ AssociationTimesOut
    \/ AssociationNotSaved
    \/ AssociationSaved(TRUE)
    \/ "dhcp" \in Faults /\ AssociationSaved(FALSE)

DhcpStep == LeaseEnds(TRUE) \/ LeaseEnds(FALSE) \/ ReleaseEnds

ClientStep(c) ==
    \/ StartScan(c)
    \/ ConnectStarts(c) \/ ConnectRejected(c) \/ ConnectUnanswered(c)
    \/ Disconnect(c)
    \/ ClientLeaves(c) \/ ClientJoins(c)

HealthStep ==
    \/ HealthSuspends \/ ProbeTimesOut \/ ProbeAnswered
    \/ \E due \in BOOLEAN : HealthTicks(due)

Step ==
    \/ \E c \in Clients : ClientStep(c)
    \/ DriverScanAdvances \/ ScanEnds
    \/ AssociationStep \/ DhcpStep
    \/ \E opens \in BOOLEAN : Refresh(opens)
    \/ MonitorLost
    \/ RecoveryStop
    \/ \E enabled \in BOOLEAN, auto \in setup.auto :
          RecoveryConfigure(enabled, auto)
    \/ \E retry \in BOOLEAN : RecoveryTick(retry)
    \/ setup.probing /\ ~netlink /\ HealthStep
    \/ WpaSteps \/ ApChildDies
    \/ Terminate \/ Crash

\* The setup never changes.
Kept == UNCHANGED setup

----------------------------------------------------------------------------
\* Every busy client is the one a running operation will answer, and an
\* operation that will answer a client has that client waiting
\* (dispatch_request, remove_client, finish_scan, finish_association,
\* finish_dhcp).
RequestsOwned ==
    \A c \in Clients :
        client[c] = "busy" <=>
            c \in {scan.who, assoc.who, dhcp.who}

\* While the platform has the radio the daemon knows that a net-down is owed
\* (net_configured), whatever failed (release_net_ownership).
OwnershipTracked == rec.radio = "ap" => rec.net

\* An access point reported starting or active has its children tracked and
\* its portal address set, and no cleanup pending against it.
ApBacked ==
    Serving(rec) => rec.kids /\ rec.net /\ ~rec.pending /\ rec.radio = "ap"

\* No hostapd or dnsmasq outlives the access point it was started for.
NoStrayChildren == rec.alive => Serving(rec)

\* ledd shows the recovery pattern exactly while the access point is active.
LedTruthful == ledOn <=> rec.mode = "active"

\* The radio has one user: no access point while a client association is
\* under way.
RadioExclusive == Serving(rec) => ~assoc.active

\* A hand-over is always carried by an attempt that will end it.
HandoverOwned ==
    rec.mode = "handover" => assoc.active \/ (dhcp.active /\ ~dhcp.release)

\* The profile of the last confirmed lease stays in the supplicant's file
\* through every failed attempt to replace it.
WorkingProfileKept == good # None => good \in wpa.saved

\* An interface taken down by the ladder has an up step coming.
InterfaceRestored == kern.down => health.phase = "down_wait"

\* The boot marker goes only with a confirmed lease, in an instance without
\* owner stop, reconfiguration or termination.
MarkerNeedsLease ==
    [][rec.marker /\ ~rec'.marker =>
          dhcp.active /\ ~dhcp'.active /\ st'.state = "connected"]_vars

\* A hand-over that ends recovery clears the boot marker.
MarkerCleared ==
    [][rec.mode = "handover" /\ rec'.mode = "stopped" => ~rec'.marker]_vars

\* The automatic fallback arms only while its owner has it enabled.
AutoOptIn ==
    [][rec'.trigger = "auto" /\ rec.trigger # "auto" => rec.auto]_vars

\* Every waiting client is answered.
RequestsAnswered == \A c \in Clients : client[c] = "busy" ~> client[c] # "busy"

\* An owed net-down is settled or given up: the retries are bounded.
ReleaseSettled == rec.pending ~> ~rec.pending

=============================================================================
