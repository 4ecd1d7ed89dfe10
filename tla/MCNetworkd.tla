------------------------------ MODULE MCNetworkd ------------------------------
(***************************************************************************)
(* The setups in which TLC explores networkd.                              *)
(***************************************************************************)
EXTENDS NetworkService

Plain == [requests |-> {}, faults |-> {}, probing |-> FALSE,
          configured |-> TRUE, auto |-> {FALSE}, marker |-> {FALSE},
          routes |-> {TRUE}, part |-> "loop", units |-> {}]

\* Two clients connect, disconnect and scan while commands fail.
Connecting ==
    [Plain EXCEPT !.requests = {"connect", "disconnect", "scan"},
                  !.faults = {"wpa", "dhcp", "leave"}, !.configured = FALSE]

\* The recovery access point, its children and helpers failing.
Recovering ==
    [Plain EXCEPT !.requests = {"connect", "recovery_stop",
                                "recovery_configure", "status"},
                  !.faults = {"ap", "netdown", "child", "wpa", "dhcp", "leave"},
                  !.marker = BOOLEAN]

\* The gateway stops answering: the ladder up to the reboot.
Climbing ==
    [Plain EXCEPT !.requests = {"connect", "scan"},
                  !.faults = {"iface", "reboot", "drop", "crash", "term"},
                  !.probing = TRUE, !.configured = FALSE, !.routes = BOOLEAN]

\* The recovery files while calls fail and the daemon dies, and while the
\* power goes.
FilesFail == [Plain EXCEPT !.part = "files", !.faults = {"file", "crash"}]
FilesCut == [Plain EXCEPT !.part = "files", !.faults = {"power"}]

\* The networks in range, reported in dBm or in per cent.
Listing(unit) == [Plain EXCEPT !.part = "list", !.units = {unit}]

Explored == {Connecting, Recovering, Climbing, FilesFail, FilesCut,
             Listing("dbm"), Listing("percent")}

(***************************************************************************)
(* Setups in which the code departs from what its documents say; README.md *)
(* names the property that each of them violates.                          *)
(***************************************************************************)
\* A disconnect during a hand-over: HandoverOwned.
HandingOver ==
    {[Plain EXCEPT !.requests = {"connect", "disconnect"}, !.marker = {TRUE}]}

\* A failed hand-over after an earlier association: MarkerNeedsLease.
HandingBack == {[Plain EXCEPT !.requests = {"connect"}, !.marker = {TRUE}]}

\* The automatic fallback arms after a physical arming failed: MarkerCleared.
TwoTriggers ==
    {[Plain EXCEPT !.requests = {"connect"}, !.faults = {"ap"},
                   !.auto = {TRUE}, !.marker = {TRUE}]}

\* The owner switches the automatic fallback off: AutoOptIn.
OptingOut ==
    {[Plain EXCEPT !.requests = {"recovery_configure"}, !.auto = BOOLEAN]}

\* The automatic fallback beside an association: RadioExclusive.
AutoFallback == {[Plain EXCEPT !.requests = {"connect"}, !.auto = {TRUE}]}

\* A restart with a net-down owed: OwnershipTracked.
OwedRestart ==
    {[Plain EXCEPT !.requests = {"recovery_stop"}, !.marker = {TRUE},
                   !.faults = {"netdown", "term"}]}

\* The daemon dies while the platform has the radio: OwnershipTracked.
Orphaned == {[Plain EXCEPT !.marker = {TRUE}, !.faults = {"crash"}]}

\* A disconnect in the middle of the interface cycle: InterfaceRestored.
LadderBroken ==
    {[Plain EXCEPT !.requests = {"disconnect"}, !.probing = TRUE,
                   !.configured = FALSE]}

\* The power goes between the two renames of the settings: FilesHonest.
Torn == {[Plain EXCEPT !.part = "files", !.faults = {"power", "torn"}]}

\* The daemon dies between a rename and its synchronisation, and the power
\* goes later: FilesHonest.
NotSynced == {[Plain EXCEPT !.part = "files", !.faults = {"power", "crash"}]}

\* A synchronisation fails after the kernel wrote the rename back, and the
\* power goes before the roll-back is written too: FilesHonest.
Unwound == {[Plain EXCEPT !.part = "files", !.faults = {"power", "file"}]}

\* A driver that reports some levels in dBm and some in per cent: ListHonest.
MixedUnits == {[Plain EXCEPT !.part = "list", !.units = {"dbm", "percent"}]}

ScanSizes == {<<2, 2>>, <<3, 1>>}

=============================================================================
