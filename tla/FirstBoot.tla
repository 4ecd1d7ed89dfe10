------------------------------ MODULE FirstBoot ------------------------------
(* The first boot: an installer's document applied before the web daemon    *)
(* listens, and the setup wizard, whose request runs in a forked worker on  *)
(* a copy of the daemon's memory and writes the configuration file whole.   *)
EXTENDS Naturals

VARIABLES
  disk,     \* the document, the account, the completion marker, the configuration
  web,      \* the web daemon's memory
  job,      \* the configuration worker: its own copy of that memory
  net,      \* the network asked for, and whether it is up
  told      \* what clients were told: the wizard's answer, the newest saved setting
bootVars == <<disk, web, job, net, told>>

(* A configuration: who chose the fields setup owns, and the rest. *)
Home == "home"
Defaults == [own |-> "default", rest |-> 0]
WebDown == [pc |-> "down", mem |-> Defaults, account |-> "none", completed |-> FALSE, created |-> FALSE,
            handed |-> FALSE, pending |-> FALSE, busy |-> FALSE]
NoJob == [state |-> "none", pc |-> "adapters", mem |-> Defaults, ssid |-> Home, kind |-> "setup"]
BootInit(doc, marker, account) ==
  /\ disk = [doc |-> doc, account |-> account, marker |-> marker, saved |-> Defaults]
  /\ web = WebDown /\ job = NoJob /\ net = [asked |-> "none", up |-> FALSE]
  /\ told = [wizard |-> "none", rest |-> 0, tried |-> 0, blurred |-> FALSE]

Valid == disk.marker = "valid"
provision_read == [disk EXCEPT !.doc = "none"]
document_parse == disk.doc = "good"
persist_configuration(m, ok) == disk' = IF ok THEN [disk EXCEPT !.saved = m] ELSE disk
api_write_setup_marker(ok) == disk' = IF ok THEN [disk EXCEPT !.marker = "valid"] ELSE disk
Runs == job.state = "runs"
Serving == web.pc = "listen"

----------------------------------------------------------------------------
(* Start: the saved configuration, the account and the marker are read; the *)
(* document is removed whatever it holds, and applied only before setup.    *)
api_provision_start ==
  /\ web.pc = "down"
  /\ disk' = provision_read
  /\ web' = [WebDown EXCEPT !.mem = disk.saved, !.account = disk.account, !.completed = Valid,
                            !.pc = IF document_parse /\ ~Valid THEN "account" ELSE "listen"]
  /\ UNCHANGED <<job, net, told>>

(* One step of the document: the account only where there is none; each     *)
(* refusal goes to the result file, and only a new account with a network   *)
(* handed over and a result written leaves something to wait for.           *)
ApplyAccount(ok) ==
  /\ web.pc = "account"
  /\ LET made == ok /\ web.account = "none" /\ disk.account = "none"
     IN /\ web' = [web EXCEPT !.pc = "settings", !.created = made, !.account = IF made THEN "doc" ELSE @]
        /\ disk' = [disk EXCEPT !.account = IF made THEN "doc" ELSE @]
  /\ UNCHANGED <<job, net, told>>
ApplySettings(adapters, ok) ==
  /\ web.pc = "settings"
  /\ IF adapters
     THEN /\ web' = [web EXCEPT !.mem.own = "doc", !.pc = IF ok THEN "handoff" ELSE "record"]
          /\ persist_configuration([web.mem EXCEPT !.own = "doc"], ok)
     ELSE web' = [web EXCEPT !.pc = "record"] /\ UNCHANGED disk
  /\ UNCHANGED <<job, net, told>>
ApplyWifi(ok) ==
  /\ web.pc = "handoff" /\ web' = [web EXCEPT !.pc = "record", !.handed = ok]
  /\ net' = IF ok THEN [asked |-> Home, up |-> FALSE] ELSE net
  /\ UNCHANGED <<disk, job, told>>
provision_start(ok) ==
  /\ web.pc = "record"
  /\ web' = [web EXCEPT !.pc = "listen", !.pending = ok /\ web.created /\ web.handed]
  /\ UNCHANGED <<disk, job, net, told>>

(* The server's tick: the hand-over's own network is up, or time is up.     *)
api_provision_poll(ok) ==
  /\ Serving /\ web.pending /\ net.up /\ net.asked = Home
  /\ web' = [web EXCEPT !.pending = FALSE, !.completed = ok \/ @]
  /\ api_write_setup_marker(ok)
  /\ UNCHANGED <<job, net, told>>
ProvisionTimesOut ==
  /\ Serving /\ web.pending /\ ~(net.up /\ net.asked = Home)
  /\ web' = [web EXCEPT !.pending = FALSE] /\ UNCHANGED <<disk, job, net, told>>

----------------------------------------------------------------------------
(* Every request first takes in what the worker left: with a valid marker   *)
(* the fields setup owns; with a bad one nothing, and the daemon stays busy.*)
Refreshes == ~web.completed /\ Valid
refresh_fails == ~web.completed /\ disk.marker = "bad"
Synced == IF ~web.busy THEN web
          ELSE [web EXCEPT !.mem.own = IF Refreshes THEN disk.saved.own ELSE @,
                           !.completed = Refreshes \/ @,
                           !.busy = refresh_fails \/ Runs]
auth_bootstrap_json ==
  /\ Serving /\ web.account = "none"
  /\ web' = IF Synced.busy THEN Synced ELSE [Synced EXCEPT !.account = "owner"]
  /\ disk' = IF Synced.busy THEN disk ELSE [disk EXCEPT !.account = "owner"]
  /\ UNCHANGED <<job, net, told>>
Admitted == Serving /\ web.account # "none"

(* A change to a setting: memory first, and it stays changed when the save  *)
(* fails.  Refused while the worker is at work.                             *)
Changed(m, field) == IF field = "own" THEN [m EXCEPT !.own = "later"] ELSE [m EXCEPT !.rest = told.tried + 1]
BugPut(field, ok) ==
  /\ Admitted
  /\ web' = [Synced EXCEPT !.mem = Changed(Synced.mem, field)]
  /\ persist_configuration(web'.mem, ok)
  /\ told' = [told EXCEPT !.tried = @ + 1, !.rest = IF ok THEN web'.mem.rest ELSE @]
  /\ UNCHANGED <<job, net>>
Put(field, ok) ==
  /\ Admitted
  /\ web' = IF Synced.busy THEN Synced ELSE [Synced EXCEPT !.mem = Changed(Synced.mem, field)]
  /\ persist_configuration(web'.mem, ok /\ ~Synced.busy)
  /\ told' = IF Synced.busy THEN told
             ELSE [told EXCEPT !.tried = @ + 1, !.rest = IF ok THEN web'.mem.rest ELSE @]
  /\ UNCHANGED <<job, net>>
Get == Serving /\ web.busy /\ web' = Synced /\ UNCHANGED <<disk, job, net, told>>

(* The wizard, or a plain change of network, forks the worker.              *)
Posts(kind, ssid) ==
  /\ Admitted
  /\ IF Synced.busy THEN web' = Synced /\ UNCHANGED <<job, told>>
     ELSE /\ web' = [Synced EXCEPT !.busy = TRUE]
          /\ job' = [NoJob EXCEPT !.state = "runs", !.mem = Synced.mem, !.ssid = ssid, !.kind = kind,
                                  !.pc = IF kind = "connect" THEN "connect"
                                         ELSE IF Synced.completed THEN "answer" ELSE "adapters"]
          /\ told' = [told EXCEPT !.blurred = @ \/ web.pending]
  /\ UNCHANGED <<disk, net>>

JobOver == [job EXCEPT !.state = "none"]
setup_activate_installed_features(ok) ==
  job' = (IF ok THEN [job EXCEPT !.pc = "marker"] ELSE JobOver) /\ UNCHANGED <<disk, net, told>>
(* setup_apply, in its order: adapters, network, file, features, marker.    *)
JobStep(ok) ==
  /\ Runs /\ UNCHANGED web
  /\ CASE job.pc = "adapters" -> job' = (IF ok THEN [job EXCEPT !.pc = "connect"] ELSE JobOver)
                                 /\ UNCHANGED <<disk, net, told>>
       [] job.pc = "connect" ->
            /\ job' = IF ok /\ job.kind = "setup" THEN [job EXCEPT !.pc = "save", !.mem.own = "wizard"] ELSE JobOver
            /\ net' = IF ok THEN [asked |-> job.ssid, up |-> FALSE] ELSE net
            /\ UNCHANGED <<disk, told>>
       [] job.pc = "save" ->
            /\ job' = IF ok THEN [job EXCEPT !.pc = "features"] ELSE JobOver
            /\ persist_configuration(job.mem, ok)
            /\ UNCHANGED <<net, told>>
       [] job.pc = "features" -> setup_activate_installed_features(ok)
       [] job.pc = "marker" ->
            /\ job' = IF ok THEN [job EXCEPT !.pc = "answer"] ELSE JobOver
            /\ api_write_setup_marker(ok)
            /\ told' = IF ok THEN [told EXCEPT !.wizard = "ok"] ELSE told
            /\ UNCHANGED net
       [] job.pc = "answer" -> job' = JobOver /\ UNCHANGED <<disk, net, told>>
(* Its alarm, or anything else that kills it. *)
JobDies == Runs /\ job' = JobOver /\ UNCHANGED <<disk, web, net, told>>

NetUp == net.asked # "none" /\ ~net.up /\ net' = [net EXCEPT !.up = TRUE] /\ UNCHANGED <<disk, web, job, told>>
WebDies == /\ web.pc # "down" /\ web' = WebDown /\ UNCHANGED <<disk, job, net>>
           /\ told' = [told EXCEPT !.blurred = @ \/ Runs]

(* What the wizard was told it saved, and every later change answered as    *)
(* saved, is in the file; completion is recorded only for a device that has *)
(* an account, and one that exists is never replaced.  Not for a wizard run *)
(* while a document waits for its network, or one whose daemon died.        *)
WizardSaved ==
  /\ ~told.blurred => /\ told.wizard = "ok" => disk.saved.own \in {"wizard", "later"}
                      /\ disk.saved.rest >= told.rest
  /\ Valid \/ web.completed => disk.account # "none"
  /\ web.pc \notin {"down"} /\ web.account # "none" => web.account = disk.account
=============================================================================
