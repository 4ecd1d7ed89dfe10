---------------------------- MODULE BtController ----------------------------
(***************************************************************************)
(* btd and its controller: one activation, the pairing window, discovery,   *)
(* and the bonds in two files.  Every management command is a step of its   *)
(* own, because mgmt_command handles the controller's events while it waits *)
(* for the reply; so is every file it saves.  A command is carried out,     *)
(* refused, or answered too late, in which case the controller may or may   *)
(* not have carried it out.                                                 *)
(***************************************************************************)
EXTENDS Integers, FiniteSets, Sequences, TLC

CONSTANT Setups          \* the bounded environments explored
ASSUME SetupsAssumption == \A x \in Setups : x.on \in BOOLEAN

VARIABLES
  setup,      \* this behaviour's environment and bounds
  b,          \* btd's memory: struct bt_context, and the command it is at
  hci,        \* the controller: power, settings, keys, scan, links
  disk,       \* the device and key databases and the readiness marker
  owner,      \* history: the settings the owner last chose outside the window
  blurred,    \* history: why the settings may differ from the owner's choice
  excused,    \* history: phones whose bond was not recorded in both files
  gone,       \* history: phones the owner has unpaired and been told so
  spent       \* how much of each bound is used up

btVars == <<b, hci, disk, owner, blurred, excused, gone, spent>>
history == <<owner, blurred, excused, gone>>

Settings == {"connectable", "discoverable", "bondable"}
NoOne == "nobody"
Phones == setup.phones
At(pc) == b.up /\ b.pc = pc
AtRest == At("idle") /\ b.todo = <<>>

Booted == [up |-> FALSE, enabled |-> FALSE, capable |-> FALSE, attempted |-> FALSE,
           scanning |-> FALSE, mode |-> FALSE, saved |-> {}, cache |-> {},
           devs |-> {}, paired |-> {}, connected |-> {}, found |-> {}, keys |-> {},
           prompt |-> NoOne, todo |-> <<>>, pc |-> "idle", who |-> NoOne,
           to |-> FALSE, then |-> "idle"]
Working == {"connectable", "bondable"}

BtInit ==
  /\ setup \in Setups
  /\ b = [Booted EXCEPT !.up = TRUE, !.enabled = setup.on, !.capable = setup.on,
                        !.attempted = setup.on, !.cache = IF setup.on THEN Working ELSE {}]
  /\ hci = [powered |-> setup.on, settings |-> b.cache, keys |-> {},
            scanning |-> FALSE, links |-> {}]
  /\ disk = [devs |-> {}, keys |-> {}, ready |-> setup.on]
  /\ owner = b.cache
  /\ blurred = FALSE /\ excused = {} /\ gone = {}
  /\ spent = [crashes |-> 0, faults |-> 0, requests |-> 0]

Spend(what) ==
  /\ spent[what] < setup[what]
  /\ spent' = [spent EXCEPT ![what] = @ + 1]
Fault == Spend("faults")

----------------------------------------------------------------------------
(* The device table is bounded: a phone with no slot stays unknown.         *)
HasSlot(c, p) == p \in c.devs \/ Cardinality(c.devs) < setup.room
GetDevice(c, p) == IF HasSlot(c, p) THEN [c EXCEPT !.devs = @ \union {p}] ELSE c

(* The two databases are saved one after the other; the memory they are    *)
(* saved from does not change in between.                                  *)
BugSavePairingBond == <<"keys", "devs">>
SavePairingBond == <<"devs", "keys">>
Write ==
  /\ b.up /\ b.todo # <<>>
  /\ LET file == Head(b.todo)
         image == IF file = "devs" THEN b.paired ELSE b.keys
         lost == IF file = "devs" THEN b.paired \ disk.devs ELSE disk.keys \ b.keys
     IN /\ file # "reply"
        /\ \/ disk' = [disk EXCEPT ![file] = image] /\ UNCHANGED <<excused, spent>>
           \/ Fault /\ excused' = excused \union lost /\ UNCHANGED disk
  /\ b' = [b EXCEPT !.todo = Tail(@)]
  /\ UNCHANGED <<hci, owner, blurred, gone>>
(* The owner is told that the phone is unpaired. *)
Replies ==
  /\ b.up /\ b.todo = <<"reply">>
  /\ gone' = gone \union {b.who}
  /\ b' = [b EXCEPT !.todo = <<>>]
  /\ UNCHANGED <<hci, disk, owner, blurred, excused, spent>>

----------------------------------------------------------------------------
(* process_event: what btd makes of one event about phone p.                *)
Found(c, p) ==
  IF HasSlot(c, p)
  THEN [GetDevice(c, p) EXCEPT !.found = @ \union {p},
                               !.todo = IF p \in c.paired THEN <<"devs">> ELSE @]
  ELSE c
Connected(c, p) ==
  IF HasSlot(c, p)
  THEN [GetDevice(c, p) EXCEPT !.connected = @ \union {p},
                               !.todo = IF p \in c.paired THEN <<"devs">> ELSE @]
  ELSE c
Disconnected(c, p) == [c EXCEPT !.connected = @ \ {p}]
Prompted(c, p) == [c EXCEPT !.prompt = p]
AuthFailed(c, p) == [c EXCEPT !.prompt = NoOne]
NewKey(c, p) ==
  [GetDevice(c, p) EXCEPT
     !.paired = IF HasSlot(c, p) THEN @ \union {p} ELSE @,
     !.keys = IF Cardinality(@) < setup.room THEN @ \union {p} ELSE @,
     !.prompt = NoOne, !.todo = SavePairingBond]

(* What happens on the air, and the event that tells btd of it. *)
Event(p, kind) ==
  /\ b.up /\ b.todo = <<>> /\ hci.powered
  /\ \/ /\ kind = "found" /\ hci.scanning
        /\ b' = Found(b, p) /\ UNCHANGED <<hci, excused, gone>>
     \/ /\ kind = "connected" /\ "connectable" \in hci.settings /\ p \notin hci.links
        /\ b' = Connected(b, p) /\ hci' = [hci EXCEPT !.links = @ \union {p}]
        /\ UNCHANGED <<excused, gone>>
     \/ /\ kind = "disconnected" /\ p \in hci.links
        /\ b' = Disconnected(b, p) /\ hci' = [hci EXCEPT !.links = @ \ {p}]
        /\ UNCHANGED <<excused, gone>>
     \/ /\ kind = "prompt" /\ p \in hci.links /\ "bondable" \in hci.settings
        /\ b' = Prompted(b, p) /\ UNCHANGED <<hci, excused, gone>>
     \/ /\ kind = "failed" /\ b.prompt # NoOne
        /\ b' = AuthFailed(b, p) /\ UNCHANGED <<hci, excused, gone>>
     \/ /\ kind = "key" /\ p \in hci.links /\ "bondable" \in hci.settings
        /\ b' = NewKey(b, p)
        /\ hci' = [hci EXCEPT !.keys = @ \union {p}]
        /\ excused' = IF HasSlot(b, p) THEN excused ELSE excused \union {p}
        /\ gone' = gone \ {p}
  /\ UNCHANGED <<disk, owner, blurred, spent>>

(* The inquiry period ends by itself; other settings are announced. *)
ScanEnds ==
  /\ b.up /\ b.todo = <<>> /\ hci.scanning
  /\ hci' = [hci EXCEPT !.scanning = FALSE]
  /\ b' = [b EXCEPT !.scanning = FALSE]
  /\ UNCHANGED <<disk, history, spent>>

----------------------------------------------------------------------------
(* The commands of a request, in order: what each asks of the controller,   *)
(* and where the request goes on success and on failure.                    *)
BugUndo == "idle"
Undo == "undoB"
Script(c) ==
  LET Set(s, v, ok, fail) == [op |-> s, to |-> v, ok |-> ok, fail |-> fail]
      Was(s) == s \in c.saved
  IN CASE c.pc = "power"  -> Set("power", TRUE, "info", "idle")
       [] c.pc = "info"   -> Set("info", TRUE, "secure", "idle")
       [] c.pc = "secure" -> Set("secure", TRUE, "bond", "drop")
       [] c.pc = "bond"   -> Set("bondable", TRUE, "conn", "idle")
       [] c.pc = "conn"   -> Set("connectable", TRUE, "load", "idle")
       [] c.pc = "load"   -> Set("load", TRUE, "idle", "idle")
       [] c.pc = "again"  -> Set("secure", TRUE, c.then, "drop")
       [] c.pc = "drop"   -> Set("power", FALSE, "idle", "idle")
       [] c.pc = "off"    -> Set("power", FALSE, "idle", "idle")
       [] c.pc = "still"  -> Set("scan", FALSE, "name", "name")
       [] c.pc = "name"   -> Set("name", TRUE, "openB", "idle")
       [] c.pc = "openB"  -> Set("bondable", TRUE, "openC", Undo)
       [] c.pc = "openC"  -> Set("connectable", TRUE, "openD", Undo)
       [] c.pc = "openD"  -> Set("discoverable", TRUE, "idle", Undo)
       [] c.pc = "undoB"  -> Set("bondable", Was("bondable"), "undoC", "undoC")
       [] c.pc = "undoC"  -> Set("connectable", Was("connectable"), "undoD", "undoD")
       [] c.pc = "undoD"  -> Set("discoverable", Was("discoverable"), "idle", "idle")
       [] c.pc = "shutD"  -> Set("discoverable", Was("discoverable"), "shutC", c.then)
       [] c.pc = "shutC"  -> Set("connectable", Was("connectable"), "shutB", c.then)
       [] c.pc = "shutB"  -> Set("bondable", Was("bondable"), c.then, c.then)
       [] c.pc = "scan"   -> Set("scan", TRUE, "idle", "scan2")
       [] c.pc = "scan2"  -> Set("scan", TRUE, "idle", "idle")
       [] c.pc = "still2" -> Set("scan", FALSE, "idle", "idle")
       [] c.pc = "setC"   -> Set("connectable", c.to, "idle", "idle")
       [] c.pc = "setD"   -> Set("discoverable", c.to, "idle", "idle")
       [] OTHER           -> Set(c.pc, TRUE, "idle", "idle")  \* unpair, answer, hangup

(* What the controller does. *)
Does(s) ==
  CASE s.op \in Settings -> [hci EXCEPT !.settings = IF s.to THEN @ \union {s.op}
                                                            ELSE @ \ {s.op}]
    [] s.op = "power" -> [hci EXCEPT !.powered = s.to, !.scanning = FALSE,
                                     !.links = IF s.to THEN @ ELSE {}]
    [] s.op = "scan"  -> [hci EXCEPT !.scanning = s.to]
    [] s.op = "load"  -> [hci EXCEPT !.keys = IF b.keys = {} THEN @ ELSE b.keys]
    [] s.op = "unpair" -> [hci EXCEPT !.keys = @ \ {b.who}, !.links = @ \ {b.who}]
    [] s.op = "hangup" -> [hci EXCEPT !.links = @ \ {b.who}]
    [] OTHER -> hci

(* What btd makes of the answer.  A request's own set_connectable and      *)
(* set_discoverable leave the cached settings alone.                       *)
Cached(c, s) == IF s.to THEN c.cache \union {s.op} ELSE c.cache \ {s.op}
Unpaired(c) ==
  [c EXCEPT !.paired = @ \ {c.who}, !.connected = @ \ {c.who},
            !.keys = @ \ {c.who}, !.todo = <<"keys", "devs", "reply">>]
(* A daemon that cannot secure a powered controller exits. *)
GivesUp(c) == c.pc = "drop" /\ c.then = "load"
Succeeds(c, s) ==
  LET n == [c EXCEPT !.pc = s.ok]
  IN IF GivesUp(c) THEN Booted
     ELSE CASE s.op \in Settings /\ c.pc \notin {"setC", "setD"} ->
                 [n EXCEPT !.cache = Cached(c, s),
                           !.mode = (c.pc = "openD") \/ (c.mode /\ c.pc # "shutB")]
            [] s.op = "power"  -> [n EXCEPT !.enabled = s.to, !.capable = @ /\ s.to]
            [] s.op = "info"   -> [n EXCEPT !.cache = hci.settings, !.enabled = hci.powered]
            [] s.op = "secure" -> [n EXCEPT !.capable = TRUE]
            [] s.op = "scan"   -> [n EXCEPT !.scanning = s.to]
            [] s.op = "unpair" -> Unpaired(n)
            [] s.op = "answer" -> [n EXCEPT !.prompt = NoOne]
            [] OTHER -> n
Fails(c, s) ==
  IF GivesUp(c) THEN Booted
  ELSE [c EXCEPT !.pc = s.fail, !.enabled = @ /\ c.pc # "drop",
                 !.capable = @ /\ c.pc # "drop"]

Marker(s, ok) ==
  CASE s.op = "secure" /\ ok  -> [disk EXCEPT !.ready = TRUE]
    [] s.op = "info" /\ ~ok   -> [disk EXCEPT !.ready = FALSE]
    [] OTHER -> disk

(* Without power there is nobody to scan for, unpair or answer. *)
Able(s) == hci.powered \/ s.op \notin {"scan", "unpair", "hangup", "answer", "secure"}
Opening == {"still", "name", "openB", "openC", "openD"}
Restoring == {"undoB", "undoC", "undoD", "shutD", "shutC", "shutB"}
Chosen(s) ==
  IF s.op \in Settings /\ ~b.mode /\ b.pc \in {"bond", "conn", "setC", "setD"}
  THEN (IF s.to THEN owner \union {s.op} ELSE owner \ {s.op}) ELSE owner
Command ==
  /\ b.up /\ b.pc # "idle" /\ b.todo = <<>>
  /\ LET s == Script(b)
     IN \/ /\ b' = Succeeds(b, s) /\ hci' = Does(s) /\ disk' = Marker(s, TRUE)
           /\ owner' = Chosen(s)
           /\ Able(s) /\ UNCHANGED <<blurred, excused, gone, spent>>
        \/ /\ IF Able(s) THEN Fault /\ hci' \in {hci, Does(s)}
                          ELSE UNCHANGED <<hci, spent>>
           /\ b' = Fails(b, s) /\ disk' = Marker(s, FALSE)
           /\ blurred' = (blurred \/ (Able(s) /\ b.pc \notin Opening))
           /\ UNCHANGED <<owner, excused, gone>>

----------------------------------------------------------------------------
(* Requests, one at a time: read, served to the end, answered.              *)
Request(what) ==
  /\ AtRest /\ what \in setup.asks
  /\ Spend("requests")
Begin(c, pc) == b' = [c EXCEPT !.pc = pc]

(* set_enabled: the firmware is prepared once in the daemon's life. *)
SetEnabled ==
  /\ Request("enable")
  /\ \/ /\ b.enabled /\ Begin([b EXCEPT !.then = "idle"],
                               IF b.capable THEN "idle" ELSE "again")
     \/ /\ ~b.enabled
        /\ \/ Begin([b EXCEPT !.attempted = TRUE, !.then = "idle"],
                    IF b.attempted THEN "idle" ELSE "power")
           \/ ~b.attempted /\ b' = [b EXCEPT !.attempted = TRUE]   \* a helper failed
  /\ UNCHANGED <<hci, disk, history>>
SetDisabled ==
  /\ Request("disable")
  /\ IF b.enabled
     THEN Begin([b EXCEPT !.then = "off"], IF b.mode THEN "shutD" ELSE "off")
     ELSE b' = [b EXCEPT !.capable = FALSE]
  /\ UNCHANGED <<hci, disk, history>>

(* The settings to come back to are the cached ones. *)
OpenWindow ==
  /\ Request("open") /\ b.enabled /\ ~b.mode
  /\ LET start == IF b.scanning THEN "still" ELSE "name"
         c == [b EXCEPT !.saved = b.cache, !.then = start]
     IN Begin(c, IF b.capable THEN start ELSE "again")
  /\ blurred' = (blurred \/ b.cache # hci.settings)
  /\ UNCHANGED <<hci, disk, owner, excused, gone>>
ShutWindow ==
  /\ Request("shut") /\ b.enabled /\ b.mode
  /\ Begin([b EXCEPT !.then = "idle"], "shutD")
  /\ UNCHANGED <<hci, disk, history>>

(* Each scan starts from the bonded and the connected devices. *)
Scan ==
  /\ Request("scan") /\ b.enabled
  /\ LET kept == b.paired \union b.connected
     IN \/ Begin([b EXCEPT !.devs = @ \intersect kept, !.found = {}], "scan")
        \/ Begin(b, "still2")
  /\ UNCHANGED <<hci, disk, history>>

(* unpair, disconnect, and the answer to a pairing request, which is about  *)
(* the phone the caller names.                                              *)
About(what, pc, p) ==
  /\ Request(what) /\ Begin([b EXCEPT !.who = p], pc)
  /\ UNCHANGED <<hci, disk, history>>

SetConnectable(v) ==
  /\ Request("set") /\ Begin([b EXCEPT !.to = v], "setC")
  /\ UNCHANGED <<hci, disk, history>>
SetDiscoverable(v) ==
  /\ Request("set") /\ Begin([b EXCEPT !.to = v], "setD")
  /\ UNCHANGED <<hci, disk, history>>

(* status: a snapshot older than two seconds is read again.  NEW_SETTINGS  *)
(* has the same effect on the cache.                                       *)
RefreshInfo ==
  /\ AtRest /\ "status" \in setup.asks
  /\ \/ /\ b' = [b EXCEPT !.cache = hci.settings, !.enabled = hci.powered]
        /\ UNCHANGED <<disk, spent>>
     \/ Fault /\ disk' = [disk EXCEPT !.ready = FALSE] /\ UNCHANGED b
  /\ UNCHANGED <<hci, history>>

----------------------------------------------------------------------------
(* btd dies, in the middle of a request too, and comes back to what it     *)
(* saved and to the controller as it is.                                   *)
Dies ==
  /\ b.up /\ Spend("crashes")
  /\ blurred' = (blurred \/ b.mode \/ b.pc \in Opening \union Restoring)
  /\ b' = Booted
  /\ UNCHANGED <<hci, disk, owner, excused, gone>>
Loaded == [Booted EXCEPT !.up = TRUE, !.devs = disk.devs, !.paired = disk.devs,
                         !.keys = disk.keys]
Starts ==
  /\ ~b.up
  /\ \/ /\ b' = [Loaded EXCEPT !.cache = hci.settings, !.enabled = hci.powered,
                     !.then = "load", !.pc = IF hci.powered THEN "again" ELSE "load"]
        /\ UNCHANGED <<disk, spent>>
     \/ /\ Fault /\ b' = [Loaded EXCEPT !.pc = "load"]
        /\ disk' = [disk EXCEPT !.ready = FALSE]
  /\ UNCHANGED <<hci, history>>

BtNext ==
  \/ Write \/ Replies \/ Command \/ ScanEnds \/ Dies \/ Starts \/ RefreshInfo
  \/ \E p \in Phones, kind \in setup.events : Event(p, kind)
  \/ SetEnabled \/ SetDisabled \/ OpenWindow \/ ShutWindow \/ Scan
  \/ \E p \in Phones : \/ About("unpair", "unpair", p)
                       \/ About("hangup", "hangup", p)
                       \/ About("answer", "answer", p)
  \/ \E v \in BOOLEAN : SetConnectable(v) \/ SetDiscoverable(v)
=============================================================================
