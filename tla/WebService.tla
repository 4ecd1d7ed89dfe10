------------------------------ MODULE WebService ------------------------------
(* What the web daemon administers: the first boot, accounts, the factory   *)
(* reset, and the clock service its status pages report.  The four keep     *)
(* separate state; a setup explores one.                                    *)
EXTENDS FirstBoot, Naturals, Sequences

(* The factory reset: every writer of persistent state stopped, the         *)
(* supervisor that would bring them back first, the state removed, and the  *)
(* device rebooted; any refusal puts back what was stopped.                 *)
VARIABLES
  svc,      \* the services that run
  files,    \* whose persistent state is on disk
  rst,      \* the reset: its step, the place in the table, what it stopped
  rec,      \* the service the supervisor's recovery script is starting
  fresh,    \* micd's stream has not been handed out
  watch     \* what this watchdogd has seen answer; and, for RestBack only, what went
            \* down while no watchdogd had seen it and nobody starts any more
resetVars == <<svc, files, rst, rec, fresh, watch>>

factory_reset_services == <<"watchdogd", "btd", "ledd", "networkd", "timerd", "agentd", "waked", "micd">>
Services == {factory_reset_services[i] : i \in 1..Len(factory_reset_services)}
factory_reset_capture == {"micd", "waked"}
Owners == Services \ {"watchdogd", "micd"}
None == "none"
ResetInit ==
  /\ svc = Services /\ files = Owners /\ rec = None /\ fresh = FALSE
  /\ watch = [seen |-> {}, lost |-> {}]
  /\ rst = [pc |-> "idle", i |-> 1, stopped |-> {}]
At == factory_reset_services[rst.i]
LastOne == rst.i = Len(factory_reset_services)
Goes(pc) == rst' = [rst EXCEPT !.pc = pc, !.i = 1]

factory_reset == rst.pc \in {"idle", "refused"} /\ rst' = [pc |-> "stop", i |-> 1, stopped |-> {}]
                 /\ UNCHANGED <<svc, files, rec, fresh, watch>>
Loses(them) == watch' = [watch EXCEPT !.lost = @ \union them]

(* The supervisor's end terminates its recovery script's process group and  *)
(* waits for it.  waked does not outlive the stream micd gave it.           *)
BugCancelled(s) == rec
Cancelled(s) == IF s = "watchdogd" THEN None ELSE rec
Without(s) == IF s = "micd" THEN svc \ factory_reset_capture ELSE svc \ {s}
NextStop(stopped) == rst' = [pc |-> IF LastOne THEN "clear" ELSE "stop",
                             i |-> IF LastOne THEN 1 ELSE rst.i + 1, stopped |-> stopped]
(* A stop that fails, or leaves the service running, refuses the reset; one *)
(* that fails although the service is gone is not among those put back.     *)
(* What the supervisor has seen ends with it.                               *)
Tabled == rst.stopped \ factory_reset_capture
BugPaired == rst.stopped \intersect factory_reset_capture
Paired == IF rst.stopped \intersect factory_reset_capture = {} THEN {} ELSE factory_reset_capture
Stops(lame) == LET gone == IF lame THEN (svc \ Without(At)) \ Paired ELSE {}
               IN IF At = "watchdogd"
                  THEN watch' = [seen |-> {}, lost |-> watch.lost \union gone \union (Services \ svc)]
                  ELSE Loses(gone)
quiesce_factory_reset_services(outcome) ==
  /\ rst.pc = "stop"
  /\ IF At \notin svc THEN outcome = "ok" /\ NextStop(rst.stopped) /\ UNCHANGED <<svc, rec, watch>>
     ELSE /\ svc' = IF outcome = "refused" THEN svc ELSE Without(At)
          /\ rec' = IF outcome = "refused" THEN rec ELSE Cancelled(At)
          /\ IF outcome = "refused" THEN UNCHANGED watch ELSE Stops(outcome = "lame")
          /\ IF outcome = "ok" THEN NextStop(rst.stopped \union {At}) ELSE Goes("resume")
  /\ UNCHANGED <<files, fresh>>
le_factory_reset_clear(left) ==
  /\ rst.pc = "clear" /\ left \subseteq files /\ files' = left
  /\ Goes(IF left = {} THEN "reboot" ELSE "resume")
  /\ UNCHANGED <<svc, rec, fresh, watch>>
linux_reboot(ok) == /\ rst.pc = "reboot" /\ Goes(IF ok THEN "rebooted" ELSE "resume")
                    /\ UNCHANGED <<svc, files, rec, fresh, watch>>

(* Back in the order of the table, the capture pair last and as a unit: a   *)
(* waked that finds the stream of a running micd taken ends at once.        *)
(* The result of a start is not looked at.                                  *)
Up(s, ok) == LET up == ok /\ (s = "waked" => fresh /\ "micd" \in svc)
             IN /\ svc' = IF up THEN svc \union {s} ELSE svc
                /\ fresh' = CASE s = "micd" -> (ok /\ "micd" \notin svc) \/ fresh
                              [] s = "waked" -> fresh /\ ~up
                              [] OTHER -> fresh
                /\ Loses(IF ok THEN {} ELSE IF s = "micd" THEN factory_reset_capture ELSE {s})
resume_factory_reset_services(ok) ==
  /\ rst.pc = "resume"
  /\ IF At \in Tabled THEN Up(At, ok) ELSE ok /\ UNCHANGED <<svc, fresh, watch>>
  /\ IF LastOne THEN Goes("micd") ELSE rst' = [rst EXCEPT !.i = @ + 1]
  /\ UNCHANGED <<files, rec>>
restore_factory_reset_capture(ok) ==
  /\ UNCHANGED <<files, rec>>
  /\ \/ /\ rst.pc = "micd" /\ Goes("waked")
        /\ CASE "micd" \notin Paired -> ok /\ UNCHANGED <<svc, fresh, watch>>
             [] "micd" \in Paired \intersect rst.stopped -> Up("micd", ok)
             [] OTHER -> /\ svc' = (svc \ factory_reset_capture) \union (IF ok THEN {"micd"} ELSE {})
                         /\ fresh' = ok /\ Loses(IF ok THEN {} ELSE factory_reset_capture)
     \/ /\ rst.pc = "waked" /\ Goes("refused")
        /\ IF "waked" \in Paired THEN Up("waked", ok) ELSE ok /\ UNCHANGED <<svc, fresh, watch>>

(* Meanwhile the supervisor starts what it has seen answer and what has     *)
(* stopped answering, the pair through micd and as one, its script a        *)
(* process of its own; and every owner writes its state.                    *)
Probes(s) == /\ "watchdogd" \in svc /\ rec = None /\ s \in svc \ ({"watchdogd"} \union watch.seen)
             /\ watch' = [seen |-> watch.seen \union {s}, lost |-> watch.lost \ {s}]
             /\ UNCHANGED <<svc, files, rst, rec, fresh>>
Leader(s) == IF s \in factory_reset_capture THEN "micd" ELSE s
Supervises(s) == /\ "watchdogd" \in svc /\ rec = None /\ s \notin svc /\ {s, Leader(s)} \subseteq watch.seen
                 /\ rec' = s /\ UNCHANGED <<svc, files, rst, fresh, watch>>
Recovery == /\ rec # None /\ rec' = None /\ UNCHANGED <<files, rst, watch>>
            /\ IF rec \in factory_reset_capture
               THEN svc' = svc \union factory_reset_capture /\ fresh' = FALSE
               ELSE svc' = svc \union {rec} /\ UNCHANGED fresh
Writes(s) == s \in svc \intersect Owners /\ s \notin files /\ files' = files \union {s}
             /\ UNCHANGED <<svc, rst, rec, fresh, watch>>
ServiceDies(s) == /\ s \in svc \ {"watchdogd"} /\ svc' = Without(s) /\ UNCHANGED <<files, rst, rec, fresh>>
                  /\ Loses(IF s \in watch.seen THEN {} ELSE IF s = "micd" THEN factory_reset_capture ELSE {s})

(* The device reboots only without a trace of its owner, and a reset that   *)
(* is refused ends with every service that ran running again: all of them,  *)
(* or all but those that nobody starts any more.                            *)
ResetClean == rst.pc = "rebooted" => files = {}
Back(them) == rst.pc = "refused" /\ rec = None /\ them \subseteq svc
AllBack == Back(Services)
RestBack == Back(Services \ watch.lost)

-----------------------------------------------------------------------------
(* Sessions: a fixed table in memory, of which those issued over HTTPS are  *)
(* also kept in a file that a restarted daemon loads while HTTPS serves.    *)
CONSTANTS SessionSlots, SessionLife
ASSUME SessionAssumption == SessionSlots \in Nat \ {0} /\ SessionLife \in Nat \ {0}
VARIABLES
  db,       \* memory: users, sessions, whether HTTPS serves
  kept,     \* the files: users, sessions
  now,
  past      \* what was issued and answered: see SessionsHonest
accountVars == <<db, kept, now, past>>

Users == {"ann", "bob"}
Table == 1..SessionSlots
Empty == [t |-> 0, u |-> "ann", exp |-> 0, kept |-> FALSE]
AccountsInit ==
  /\ db = [users |-> Users, sessions |-> [i \in Table |-> Empty], https |-> TRUE]
  /\ kept = [users |-> Users, sessions |-> {}]
  /\ now = 0
  /\ past = [issued |-> 0, ended |-> {}, plain |-> {}, stale |-> {}, promised |-> {}]

Live(e) == e.t # 0 /\ e.exp > now
le_auth_session(t) == \E i \in Table : Live(db.sessions[i]) /\ db.sessions[i].t = t
BugSaved(s) == {s[i] : i \in {j \in Table : s[j].t # 0}}
Saved(s) == {s[i] : i \in {j \in Table : s[j].t # 0 /\ s[j].kept}}

(* A token takes the first free or expired slot, the first of all when none *)
(* is; issued over HTTPS it is answered only once the file has it, and a    *)
(* plain one that pushed a kept session out only once the file has not.     *)
SlotFor == LET free == {i \in Table : ~Live(db.sessions[i])}
           IN IF free = {} THEN 1 ELSE CHOOSE i \in free : \A j \in free : i <= j
issue_token(u, t) == [t |-> t, u |-> u, exp |-> now + SessionLife, kept |-> FALSE]
le_auth_login(u, https, ok) ==
  /\ u \in db.users /\ (https => db.https)
  /\ LET i == SlotFor
         t == past.issued + 1
         old == db.sessions[i]
         evicts == old.t # 0 /\ old.kept
         saves == https \/ (db.https /\ evicts)
         entry == [issue_token(u, t) EXCEPT !.kept = https /\ ok]
         table == [db.sessions EXCEPT ![i] = entry]
     IN /\ db' = [db EXCEPT !.sessions = table]
        /\ kept' = IF saves /\ ok THEN [kept EXCEPT !.sessions = Saved(table)] ELSE kept
        /\ past' = [past EXCEPT !.issued = t,
                                !.plain = IF https THEN @ ELSE @ \union {t},
                                !.promised = (@ \ {old.t}) \union (IF https /\ ok THEN {t} ELSE {})]
  /\ UNCHANGED now

(* Logging out and removing a user clear memory first; the answer is a      *)
(* success only when the file followed.                                     *)
Cleared(slots) == [i \in Table |-> IF i \in slots THEN [db.sessions[i] EXCEPT !.t = 0] ELSE db.sessions[i]]
Answered(table, ok, gone, users) ==
  /\ db' = [db EXCEPT !.users = users, !.sessions = table]
  /\ kept' = [users |-> users, sessions |-> IF db.https /\ ok THEN Saved(table) ELSE kept.sessions]
  /\ past' = [past EXCEPT !.promised = @ \ gone, !.ended = IF ok \/ ~db.https THEN @ \union gone ELSE @]
  /\ UNCHANGED now
le_auth_logout(t, ok) ==
  /\ le_auth_session(t)
  /\ Answered(Cleared({i \in Table : db.sessions[i].t = t}), ok, {t}, db.users)
le_auth_remove_user(u, ok) ==
  /\ u \in db.users /\ db.users # {u}
  /\ LET its == {i \in Table : db.sessions[i].u = u}
     IN Answered(Cleared(its), ok, {db.sessions[i].t : i \in its} \ {0}, db.users \ {u})
le_auth_add_user(u) ==
  /\ u \notin db.users
  /\ db' = [db EXCEPT !.users = @ \union {u}] /\ kept' = [kept EXCEPT !.users = @ \union {u}]
  /\ UNCHANGED <<now, past>>

(* A restart: the file's unexpired sessions of known users, if HTTPS comes  *)
(* up; otherwise the file is removed.                                       *)
le_auth_load_sessions == {e \in kept.sessions : e.exp > now /\ e.u \in kept.users}
WebRestarts(https) ==
  LET loaded == IF https THEN le_auth_load_sessions ELSE {}
  IN /\ db' \in {[users |-> kept.users, https |-> https, sessions |-> s] :
                  s \in {s \in [Table -> loaded \union {Empty}] :
                           /\ \A e \in loaded : \E i \in Table : s[i] = e
                           /\ \A i, j \in Table : i < j /\ s[j] # Empty => s[i] # Empty /\ s[i] # s[j]}}
     /\ kept' = IF https THEN kept ELSE [kept EXCEPT !.sessions = {}]
     /\ past' = [past EXCEPT !.stale = @ \union past.plain,
                             !.promised = IF https THEN @ ELSE {}]
     /\ UNCHANGED now
Hour == /\ now' = now + 1
        /\ past' = [past EXCEPT !.promised =
                      {t \in @ : \E i \in Table : db.sessions[i].t = t /\ db.sessions[i].exp > now + 1}]
        /\ UNCHANGED <<db, kept>>

(* A token answered as logged out, or whose user was answered as removed,   *)
(* is never honoured again, a plain one not after a restart, none longer    *)
(* than it was issued for; and one answered over HTTPS is honoured until    *)
(* it ends, is pushed out or HTTPS is given up, restarts or not.            *)
SessionsHonest ==
  /\ \A t \in past.ended \union past.stale : ~le_auth_session(t)
  /\ \A t \in past.promised : le_auth_session(t)

-----------------------------------------------------------------------------
(* timed: a network, one run of ntpd under a timeout, the result written to *)
(* the hardware clock and a status file, and again.                         *)
VARIABLE clk
ClockInit == clk = [pc |-> "network", child |-> "none", known |-> FALSE, late |-> FALSE, stopping |-> FALSE,
                    status |-> "waiting-network", good |-> FALSE, ready |-> FALSE]
Route(up) == clk.ready # up /\ clk' = [clk EXCEPT !.ready = up]

WaitsNetwork == /\ clk.pc = "network"
                /\ clk.stopping \/ clk.ready
                /\ clk' = [clk EXCEPT !.pc = IF clk.stopping THEN "ended" ELSE "start",
                                      !.status = IF clk.stopping THEN @ ELSE "synchronizing"]
start_ntpd(ok) == /\ clk.pc = "start"
                  /\ clk' = IF ok THEN [clk EXCEPT !.pc = "fork", !.child = "runs", !.late = FALSE]
                            ELSE [clk EXCEPT !.pc = "result", !.child = "failed"]
(* The child can be signalled once its number is stored, and only then.     *)
ChildKnown == clk.pc = "fork" /\ clk' = [clk EXCEPT !.pc = "wait", !.known = TRUE]
Running == clk.child \in {"runs", "asked"}
ChildEnds(how) == Running /\ clk' = [clk EXCEPT !.child = how]
Asked == IF clk.known /\ clk.child = "runs" THEN "asked" ELSE clk.child
on_alarm == clk.pc = "wait" /\ Running /\ ~clk.late /\ clk' = [clk EXCEPT !.late = TRUE, !.child = Asked]
on_signal == clk.pc # "ended" /\ ~clk.stopping /\ clk' = [clk EXCEPT !.stopping = TRUE, !.child = Asked]
(* wait_ntpd: the child is reaped when it ends, and killed when it has      *)
(* outlasted its time and a grace.                                          *)
wait_ntpd == /\ clk.pc = "wait" /\ (Running => clk.late)
             /\ clk' = [clk EXCEPT !.pc = "result", !.known = FALSE,
                                   !.child = IF Running THEN "failed" ELSE @]
sync_hook(rtc) == clk.child = "ok" /\ rtc
Result(rtc) ==
  /\ clk.pc = "result"
  /\ clk' = [clk EXCEPT !.child = "none", !.good = clk.child = "ok",
               !.pc = IF clk.stopping THEN "ended" ELSE "sleep",
               !.status = IF clk.stopping THEN @
                          ELSE IF sync_hook(rtc) THEN "synchronized" ELSE "retrying"]
Sleeps == clk.pc = "sleep" /\ clk' = [clk EXCEPT !.pc = "network"]

(* The status says synchronized only after an ntpd that succeeded, and an   *)
(* ended daemon leaves no child.                                            *)
ClockHonest == /\ clk.status = "synchronized" => clk.good
               /\ clk.pc \in {"network", "start", "sleep", "ended"} => clk.child = "none"

-----------------------------------------------------------------------------
CONSTANT Setups
(* What a device is found with; one that completed its setup has an account. *)
ASSUME SetupsAssumption ==
  \A x \in Setups : /\ x.doc \in {"none", "good", "bad"} /\ x.marker \in {"none", "valid", "bad"}
                    /\ x.account \in {"none", "owner"} /\ (x.marker = "valid" => x.account # "none")
VARIABLES setup, left
vars == <<setup, left, bootVars, accountVars, resetVars, clk>>
Kept == UNCHANGED setup
Spend(b) == left[b] > 0 /\ left' = [left EXCEPT ![b] = @ - 1]
Steady == UNCHANGED left
Costs(ok) == IF ok THEN Steady ELSE Spend("faults")

Init == /\ setup \in Setups /\ left = setup.left
        /\ BootInit(setup.doc, setup.marker, setup.account) /\ AccountsInit /\ ResetInit /\ ClockInit

Boots(A) == setup.part = "boot" /\ A /\ UNCHANGED <<accountVars, resetVars, clk>>
Signs(A) == setup.part = "accounts" /\ A /\ UNCHANGED <<bootVars, resetVars, clk>>
Resets(A) == setup.part = "reset" /\ A /\ UNCHANGED <<bootVars, accountVars, clk>>
Clocks(A) == setup.part = "clock" /\ A /\ UNCHANGED <<bootVars, accountVars, resetVars>>

Wizard == Posts("setup", "cafe")
Boot ==
  \/ Boots(Steady /\ (api_provision_start \/ NetUp \/ ProvisionTimesOut))
  \/ \E ok \in BOOLEAN : Boots(Costs(ok) /\ (ApplyAccount(ok) \/ ApplyWifi(ok) \/ provision_start(ok)))
  \/ \E a, ok \in BOOLEAN : Boots(Costs(a /\ ok) /\ ApplySettings(a, ok))
  \/ \E ok \in BOOLEAN : Boots(Costs(ok) /\ api_provision_poll(ok))
  \/ \E ok \in BOOLEAN : Boots(Costs(ok) /\ JobStep(ok))
  \/ Boots(Steady /\ (auth_bootstrap_json \/ Get))
  \/ \E ok \in BOOLEAN, f \in {"own", "rest"} : Boots(Spend("puts") /\ Put(f, ok))
  \/ Boots(Steady /\ ~web.completed /\ Wizard)
  \/ \E ssid \in {Home, "cafe"} : Boots(Spend("posts") /\ (Posts("setup", ssid) \/ Posts("connect", ssid)))
  \/ Boots(Spend("deaths") /\ (WebDies \/ JobDies))
Account ==
  \/ \E u \in Users, https, ok \in BOOLEAN : Signs(Spend("logins") /\ le_auth_login(u, https, ok))
  \/ \E t \in 1..past.issued, ok \in BOOLEAN : Signs(Spend("outs") /\ le_auth_logout(t, ok))
  \/ \E u \in Users, ok \in BOOLEAN : Signs(Spend("outs") /\ le_auth_remove_user(u, ok))
  \/ \E u \in Users : Signs(Steady /\ le_auth_add_user(u))
  \/ \E https \in BOOLEAN : Signs(Spend("deaths") /\ WebRestarts(https))
  \/ Signs(Spend("hours") /\ Hour)
Reset ==
  \/ Resets(Spend("posts") /\ factory_reset)
  \/ \E o \in {"ok", "refused"} : Resets(Costs(o = "ok") /\ quiesce_factory_reset_services(o))
  \/ Resets(At \in setup.lame /\ Spend("faults") /\ quiesce_factory_reset_services("lame"))
  \/ \E rest \in {{}, {"btd"}} : Resets(Costs(rest = {}) /\ le_factory_reset_clear(rest))
  \/ \E ok \in BOOLEAN : Resets(Costs(ok) /\ linux_reboot(ok))
  \/ \E ok \in BOOLEAN : Resets(Costs(ok) /\ (resume_factory_reset_services(ok) \/ restore_factory_reset_capture(ok)))
  \/ \E s \in Services : Resets(Steady /\ (Probes(s) \/ Supervises(s) \/ (s \in setup.busy /\ Writes(s))))
  \/ Resets(Steady /\ Recovery)
  \/ \E s \in setup.dies : Resets(Spend("deaths") /\ ServiceDies(s))
Clock ==
  \/ Clocks(Steady /\ (WaitsNetwork \/ ChildKnown \/ wait_ntpd \/ Sleeps))
  \/ Clocks(Costs(setup.hangs) /\ on_alarm)
  \/ \E ok \in BOOLEAN : Clocks(Costs(ok) /\ (start_ntpd(ok) \/ Result(ok)))
  \/ \E how \in {"ok", "failed"} : Clocks(Costs(how = "ok") /\ ChildEnds(how))
  \/ Clocks(Steady /\ clk.child = "asked" /\ ChildEnds("failed"))
  \/ \E up \in BOOLEAN : Clocks(Costs(up) /\ Route(up))
  \/ Clocks(Spend("deaths") /\ on_signal)
Next == (Boot \/ Account \/ Reset \/ Clock) /\ Kept

(* Daemons, scripts and the server's tick run; the owner keeps posting the  *)
(* wizard while setup is not complete; ntpd ends, except one that hangs and *)
(* is killed; a script returns and the supervisor comes round.              *)
Settles(A) == setup.settles /\ Steady /\ A /\ Kept
Fairness ==
  /\ WF_vars(Settles(Boots(api_provision_start \/ ApplyAccount(TRUE) \/ ApplySettings(TRUE, TRUE) \/ ApplyWifi(TRUE)
                \/ provision_start(TRUE))))
  /\ WF_vars(Settles(Boots(api_provision_poll(TRUE) \/ ProvisionTimesOut)))
  /\ WF_vars(Settles(Boots(JobStep(TRUE))))
  /\ WF_vars(Settles(Boots(auth_bootstrap_json)))
  /\ WF_vars(Settles(Boots(Get)))
  /\ WF_vars(Settles(Boots(~web.completed /\ Wizard)))
  /\ WF_vars(Settles(Resets(quiesce_factory_reset_services("ok") \/ le_factory_reset_clear({}) \/ linux_reboot(TRUE)
                 \/ resume_factory_reset_services(TRUE) \/ restore_factory_reset_capture(TRUE))))
  /\ WF_vars(Settles(Resets(Recovery)))
  /\ \A s \in Services : WF_vars(Settles(Resets(Probes(s)))) /\ WF_vars(Settles(Resets(Supervises(s))))
  /\ WF_vars(Settles(Clocks(WaitsNetwork \/ ChildKnown \/ wait_ntpd \/ Sleeps \/ start_ntpd(TRUE) \/ Result(TRUE))))
  /\ WF_vars(Settles(Clocks(setup.hangs /\ on_alarm)))
  /\ WF_vars(Settles(Clocks(Route(TRUE))))
  /\ WF_vars(Settles(Clocks(~setup.hangs /\ ChildEnds("ok"))))
Spec == Init /\ [][Next]_vars /\ Fairness

----------------------------------------------------------------------------
(* The choices made in the wizard and after it outlive the worker that      *)
(* writes them, and an account that exists is never replaced.               *)
WizardKept ==
  [][WizardSaved' /\ (disk.account # "none" => disk.account' = disk.account)]_vars

(* The device reboots from a factory reset only without a trace of its      *)
(* owner; the time is called synchronized only after an ntpd that succeeded *)
(* and a stopped timed leaves no child.                                     *)
WipedAndTimed == ResetClean /\ ClockHonest

(* What was begun ends: setup completes and the daemon takes changes again; *)
(* a refused reset ends with every service running but those that went down *)
(* while no supervisor had seen them (died, were started in vain, or were   *)
(* taken down by a stop that failed); the clock is set again and again,     *)
(* whatever becomes of one ntpd, and a stopped timed ends.                  *)
AdminSettles ==
  setup.settles =>
    /\ setup.part = "boot" => <>[](Serving /\ web.completed /\ Valid /\ ~web.busy)
    /\ setup.part = "reset" => rst.pc = "resume" ~> (RestBack \/ rst.pc = "rebooted")
    /\ setup.part = "clock" => /\ []<>(clk.status = "synchronized" \/ clk.stopping \/ setup.hangs)
                               /\ clk.stopping ~> clk.pc = "ended"
                               /\ clk.pc = "wait" ~> clk.pc # "wait"

(* What resume_factory_reset_services says of itself: a refused reset       *)
(* leaves the device as supervised as it found it.  So one begun with every *)
(* service running and seen by the supervisor ends in a reboot or with      *)
(* every service running.                                                   *)
AllFound == rst.pc = "stop" /\ rst.i = 1 /\ svc = Services /\ Services \ {"watchdogd"} \subseteq watch.seen
LeftAsFound == setup.settles /\ setup.part = "reset" => AllFound ~> (AllBack \/ rst.pc = "rebooted")
=============================================================================
