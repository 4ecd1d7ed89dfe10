---------------------------- MODULE StreamService ----------------------------
(* The two players that stream from the network onto the speaker, radiod    *)
(* and the Sendspin companion, and the discovery by which the companion is  *)
(* found.  They share nothing, and a scene explores one of them.            *)
EXTENDS RadioPlayer, SendspinSink

(* Service discovery: mdnsd with its leases (mdns_lease.c), the dbus and    *)
(* avahi children it keeps, and the two programs that may be advertised     *)
(* (mdns_client.c; discovery_lease.cpp of sendspind, mdns_tick of           *)
(* esphomed).  A lease lasts as long as its owner's connection.  A service  *)
(* file is the owner's kind and which run of its program wrote it; what the *)
(* file says is left out, as are the delays between tries.                  *)
CONSTANT Clients   \* CLIENTS
ASSUME ClientsAssumption == Clients \in Nat \ {0}
VARIABLES
  md,     \* mdnsd: it runs, an unlink failed, its dbus and avahi
  slot,   \* fds[]: the accepted connections
  queue,  \* connections not accepted yet
  lease,  \* owner_fd of each lease, as a slot; 0 if free
  files,  \* the services directory
  shown,  \* what avahi advertises
  own     \* the programs: run, wish, connection and its unread answer
discoveryVars == <<md, slot, queue, lease, files, shown, own>>

Owners == {"esphome", "sendspin"}
Down == [up |-> FALSE, fail |-> FALSE, bus |-> FALSE, avahi |-> "down"]
Free == [k |-> "none", run |-> 0, msg |-> "none", gone |-> FALSE, late |-> FALSE]
DiscoveryInit ==
  /\ md = Down /\ slot = [i \in 1..Clients |-> Free] /\ queue = <<>> /\ files = {} /\ shown = {}
  /\ lease = [k \in Owners |-> 0]
  /\ own = [k \in Owners |-> [run |-> 1, up |-> TRUE, wants |-> TRUE, fd |-> FALSE, reply |-> "none"]]

(* The owner's end of its connection is closed: mdnsd finds it hung up.     *)
HungUp(conn, k) == IF conn.k = k THEN [conn EXCEPT !.gone = TRUE] ELSE conn
Hangs(k) == /\ slot' = [i \in 1..Clients |-> HungUp(slot[i], k)]
            /\ queue' = [i \in DOMAIN queue |-> HungUp(queue[i], k)]
Untold == UNCHANGED <<md, lease, files, shown>>

----------------------------------------------------------------------------
(* A registration names its sender's kind; decoding gives back what was     *)
(* encoded or refuses.                                                      *)
Registration(k) == [Free EXCEPT !.k = k, !.run = own[k].run, !.msg = "register"]
(* An owner that listens connects and sends its registration in one go;     *)
(* anything but "pending" makes it close and try again later.               *)
Registers(k) ==
  /\ own[k].up /\ own[k].wants /\ ~own[k].fd /\ md.up /\ Len(queue) < Clients
  /\ own' = [own EXCEPT ![k].fd = TRUE, ![k].reply = "none"]
  /\ queue' = Append(queue, Registration(k))
  /\ UNCHANGED slot /\ Untold
Receives(k) ==
  /\ own[k].up /\ own[k].reply # "none"
  /\ own' = [own EXCEPT ![k].reply = "none", ![k].fd = own[k].reply = "pending"]
  /\ IF own[k].reply = "pending" THEN UNCHANGED <<slot, queue>> ELSE Hangs(k)
  /\ Untold
(* Its port stops or starts listening, or its mode is chosen or left.       *)
Withdraws(k) ==
  /\ own[k].up /\ own[k].wants /\ own' = [own EXCEPT ![k].wants = FALSE, ![k].fd = FALSE, ![k].reply = "none"]
  /\ Hangs(k) /\ Untold
Wants(k) == own[k].up /\ ~own[k].wants /\ own' = [own EXCEPT ![k].wants = TRUE] /\ UNCHANGED <<slot, queue>> /\ Untold
OwnerDies(k) == own[k].up /\ own' = [own EXCEPT ![k].up = FALSE, ![k].fd = FALSE, ![k].reply = "none"] /\ Hangs(k) /\ Untold
OwnerStarts(k) == ~own[k].up /\ own' = [own EXCEPT ![k].up = TRUE, ![k].run = @ + 1] /\ UNCHANGED <<slot, queue>> /\ Untold
(* Any other program that asks for the status, or connects and says nothing.*)
Visits(msg) == /\ md.up /\ Len(queue) < Clients /\ queue' = Append(queue, [Free EXCEPT !.k = "visitor", !.msg = msg])
               /\ UNCHANGED <<slot, own>> /\ Untold

----------------------------------------------------------------------------
(* peer_pidfd, peer_still_owner: the very process that connected still runs.*)
Lives(conn) == conn.k \in Owners /\ own[conn.k].up /\ own[conn.k].run = conn.run
Answered(conn, word) == IF Lives(conn) /\ own[conn.k].fd /\ ~conn.gone THEN [own EXCEPT ![conn.k].reply = word] ELSE own
(* One accepted connection per pass; a full table closes it.                *)
Accepts ==
  /\ md.up /\ ~md.fail /\ queue # <<>> /\ queue' = Tail(queue)
  /\ IF \E i \in 1..Clients : slot[i] = Free
     THEN /\ slot' = [slot EXCEPT ![CHOOSE i \in 1..Clients : slot[i] = Free /\ \A j \in 1..i - 1 : slot[j] # Free] = Head(queue)]
          /\ UNCHANGED own
     ELSE UNCHANGED slot /\ own' = Answered(Head(queue), "closed")
  /\ Untold
Expires(i) == /\ md.up /\ slot[i] # Free /\ ~slot[i].late /\ \A k \in Owners : lease[k] # i
              /\ slot' = [slot EXCEPT ![i].late = TRUE] /\ UNCHANGED <<queue, own>> /\ Untold
(* SIGHUP makes avahi read the directory again; before it has a handler the *)
(* signal ends it.  It is sent when an unlink failed, too.                  *)
Reloads == IF md.avahi = "starting" THEN {"starting", "down"} ELSE {md.avahi}
(* One client of a pass: its message, then whether it is closed, with its   *)
(* lease withdrawn.  links and unlinks: publish and the unlink succeed.     *)
Taken(conn, links) == conn.msg = "register" /\ Lives(conn) /\ lease[conn.k] = 0 /\ links
Owned(i, conn, links) == Taken(conn, links) \/ (conn.k \in Owners /\ lease[conn.k] = i)
Closes(i, conn, links) == \/ conn.gone \/ conn.msg = "status" \/ (conn.msg = "register" /\ ~Taken(conn, links))
                          \/ (conn.late /\ ~Owned(i, conn, links))
Serves(i, links, unlinks) ==
  LET conn == slot[i]
      taken == Taken(conn, links)
      closes == Closes(i, conn, links)
      drops == closes /\ Owned(i, conn, links)
  IN /\ md.up /\ ~md.fail /\ conn # Free /\ (conn.msg # "none" \/ closes) /\ UNCHANGED queue
     /\ (~links => conn.msg = "register") /\ (~unlinks => drops)
     /\ slot' = [slot EXCEPT ![i] = IF closes THEN Free ELSE [conn EXCEPT !.msg = "none"]]
     /\ lease' = IF drops /\ unlinks THEN [lease EXCEPT ![conn.k] = 0] ELSE IF taken THEN [lease EXCEPT ![conn.k] = i] ELSE lease
     /\ files' = IF drops /\ unlinks THEN files \ {<<conn.k, conn.run>>} ELSE IF taken THEN files \cup {<<conn.k, conn.run>>} ELSE files
     /\ own' = IF conn.msg = "register" THEN Answered(conn, IF taken THEN "pending" ELSE "error") ELSE own
     /\ \E after \in IF taken \/ drops THEN Reloads ELSE {md.avahi} :
           md' = [md EXCEPT !.avahi = after, !.fail = ~unlinks]
     /\ shown' = IF (taken \/ drops) /\ md.avahi = "up" THEN files' ELSE shown

----------------------------------------------------------------------------
(* The children: avahi runs only while the bus does.                        *)
BusStarts == md.up /\ ~md.bus /\ md' = [md EXCEPT !.bus = TRUE, !.avahi = "down"] /\ shown' = {}
             /\ UNCHANGED <<slot, queue, lease, files, own>>
AvahiStarts == md.up /\ md.bus /\ md.avahi = "down" /\ md' = [md EXCEPT !.avahi = "starting"]
               /\ UNCHANGED <<slot, queue, lease, files, shown, own>>
AvahiReads == md.avahi = "starting" /\ md' = [md EXCEPT !.avahi = "up"] /\ shown' = files
              /\ UNCHANGED <<slot, queue, lease, files, own>>
ChildDies(dbus) ==
  /\ IF dbus THEN md.bus ELSE md.avahi # "down"
  /\ md' = IF dbus THEN [md EXCEPT !.bus = FALSE] ELSE [md EXCEPT !.avahi = "down"]
  /\ shown' = IF dbus THEN shown ELSE {}
  /\ UNCHANGED <<slot, queue, lease, files, own>>
(* mdnsd ends, on a signal or after an unlink that failed (what is leased   *)
(* is withdrawn first), or is killed: its children die with it.             *)
Gone == /\ md' = Down /\ slot' = [i \in 1..Clients |-> Free] /\ queue' = <<>> /\ shown' = {}
        /\ lease' = [k \in Owners |-> 0]
        /\ own' = [k \in Owners |-> IF own[k].fd THEN [own[k] EXCEPT !.reply = "closed"] ELSE own[k]]
MdnsdExits(unlinks) == md.up /\ Gone /\ files' = IF unlinks THEN {} ELSE files
MdnsdDies == md.up /\ Gone /\ UNCHANGED files
(* What an earlier run left of either owner is removed.                     *)
ClearStale(fs) == {file \in fs : file[1] \notin Owners}
(* main: clear_stale removes what an earlier run left, or mdnsd gives up.   *)
MdnsdStarts(cleared) ==
  /\ ~md.up
  /\ IF cleared THEN md' = [Down EXCEPT !.up = TRUE] /\ files' = ClearStale(files) ELSE UNCHANGED <<md, files>>
  /\ UNCHANGED <<slot, queue, lease, shown, own>>

----------------------------------------------------------------------------
(* Nothing is advertised that no connection stands for: every service file  *)
(* is the lease of a connection of that very program, and avahi advertises  *)
(* what is in the directory, whatever died, however often it was restarted. *)
DiscoveryHonest ==
  /\ md.avahi = "up" => shown = files
  /\ md.avahi # "up" => shown = {}
  /\ md.up /\ ~md.fail => \A file \in files : lease[file[1]] # 0 /\ slot[lease[file[1]]].run = file[2]
  /\ md.up /\ ~md.fail => \A k \in Owners : lease[k] # 0 => slot[lease[k]].k = k
(* What wants to be found is found, and what is gone is no longer shown.    *)
Advertised == /\ \A k \in Owners : own[k].up /\ own[k].wants => <<k, own[k].run>> \in shown
              /\ \A file \in shown : own[file[1]].up /\ own[file[1]].wants /\ own[file[1]].run = file[2]

----------------------------------------------------------------------------
(* The three together. *)
CONSTANTS Scenes
VARIABLES scene, left
streamVars == <<scene, radioVars, sinkVars, discoveryVars, left>>
Kept == UNCHANGED scene
Spend(b) == left[b] > 0 /\ left' = [left EXCEPT ![b] = @ - 1]
Steady == UNCHANGED left
Late(late, b) == IF late THEN Spend(b) ELSE Steady

StreamInit == /\ scene \in Scenes /\ left = scene.left
              /\ RadioInit /\ SinkInit(1, scene.seen) /\ DiscoveryInit

Both(late) == left["asks"] > 0 /\ left' = [left EXCEPT !["asks"] = @ - 1, !["late"] = IF late THEN @ - 1 ELSE @]
Asked(late) == (late => left["late"] > 0) /\ Both(late)
RadioAsks ==
  \/ \E late \in BOOLEAN : Asked(late) /\ \/ Stop(late)
                                          \/ \E want \in BOOLEAN : SetPaused(want, late)
                                          \/ \E url \in scene.urls, i \in Players : Play(late, url, i)
  \/ Steady /\ Status
  \/ Spend("deaths") /\ (scene.orphans \/ \A i \in Players : p[i].st # "forked") /\ RadiodDies
  \/ Steady /\ RadiodStarts
PlayerSteps(i) ==
  \/ Steady /\ (Guarded(i) \/ ComesBack(i) \/ Killed(i) \/ Reconnects(i) \/ Dials(i) \/ Sounds(i) \/ HlsSounds(i))
  \/ Steady /\ (p[i].url # "broken" \/ scene.answers) /\ Opens(i)
  \/ (IF p[i].url = "broken" THEN Steady ELSE Spend("drops")) /\ (OpenFails(i) \/ Drops(i))
  \/ Steady /\ ~bus /\ (OpenFails(i) \/ Drops(i))
  \/ Steady /\ (Finishes(i) \/ HlsEnds(i))
  \/ Spend("stuck") /\ GetsStuck(i)
  \/ \E broken \in BOOLEAN : Steady /\ HlsCut(i, broken)
FetcherSteps ==
  \/ Steady /\ (FirstList(TRUE) \/ Refreshes("ok") \/ Fetches(TRUE) \/ RoundEnds)
  \/ Spend("fails") /\ (FirstList(FALSE) \/ Refreshes("lost") \/ Refreshes("unparsed") \/ Fetches(FALSE))
ServerSteps == \/ \E drop \in BOOLEAN : Spend("moves") /\ ServerMoves(drop)
               \/ Spend("ends") /\ ServerEnds
BusSteps == IF bus THEN Spend("buses") /\ BusTurns ELSE Steady /\ BusTurns
SinkSteps ==
  \/ Steady /\ (Reads \/ FindsClosed \/ Writes)
  \/ Steady /\ Pumps /\ op' # Idle
  \/ Steady /\ EngineServes(FALSE)
  \/ Spend("full") /\ EngineServes(TRUE)
  \/ Spend("late") /\ TimesOut
  \/ Spend("starts") /\ StreamStarts
  \/ \E natural \in BOOLEAN : Spend("ends") /\ StreamEnds(natural)
  \/ Spend("seeks") /\ StreamBoundary
  \/ Spend("mutes") /\ MuteTurns
  \/ Spend("restarts") /\ CompanionRestarts
  \/ Spend("deaths") /\ EngineDies
  \/ Steady /\ (EngineStarts \/ EnginePlays)

DiscoverySteps ==
  \/ \E k \in Owners : \/ Steady /\ (Registers(k) \/ Receives(k) \/ Wants(k) \/ OwnerStarts(k))
                       \/ Spend("asks") /\ Withdraws(k)
                       \/ Spend("restarts") /\ OwnerDies(k)
  \/ \E msg \in {"none", "status"} : Spend("moves") /\ Visits(msg)
  \/ Steady /\ (Accepts \/ BusStarts \/ AvahiStarts \/ AvahiReads \/ MdnsdStarts(TRUE))
  \/ \E i \in 1..Clients : Steady /\ (Serves(i, TRUE, TRUE) \/ (slot[i].k = "visitor" /\ Expires(i)))
  \/ Spend("fails") /\ \/ \E i \in 1..Clients : Serves(i, FALSE, TRUE) \/ Serves(i, TRUE, FALSE)
                       \/ MdnsdStarts(FALSE) \/ MdnsdExits(FALSE)
  \/ Steady /\ md.fail /\ MdnsdExits(TRUE)
  \/ Spend("deaths") /\ (MdnsdExits(TRUE) \/ MdnsdDies \/ \E b \in BOOLEAN : ChildDies(b))

Part == IF scene.part \in {"sendspin", "discovery"} THEN scene.part ELSE "radio"
StreamNext == /\ \/ /\ Part = "radio" /\ UNCHANGED <<sinkVars, discoveryVars>>
                    /\ RadioAsks \/ (\E i \in Players : PlayerSteps(i)) \/ FetcherSteps \/ ServerSteps \/ BusSteps
                 \/ Part = "sendspin" /\ UNCHANGED <<radioVars, discoveryVars>> /\ SinkSteps
                 \/ Part = "discovery" /\ UNCHANGED <<radioVars, sinkVars>> /\ DiscoverySteps
              /\ Kept

(* Processes run, the bus comes back, the station and the engine answer     *)
(* once the faults are spent; somebody asks radiod for its status.          *)
Radio(A) == scene.settles /\ Part = "radio" /\ Steady /\ A /\ UNCHANGED <<sinkVars, discoveryVars>> /\ Kept
Sink(A) == scene.settles /\ Part = "sendspin" /\ Steady /\ A /\ UNCHANGED <<radioVars, discoveryVars>> /\ Kept
Found(A) == scene.settles /\ Part = "discovery" /\ Steady /\ A /\ UNCHANGED <<radioVars, sinkVars>> /\ Kept
Fairness ==
  /\ \A i \in Players : WF_streamVars(Radio(Guarded(i) \/ ComesBack(i) \/ Killed(i) \/ Reconnects(i) \/ Dials(i)))
  /\ \A i \in Players : WF_streamVars(Radio(Opens(i) /\ p[i].url # "broken"))
  /\ \A i \in Players : WF_streamVars(Radio(p[i].url = "broken" /\ (OpenFails(i) \/ Drops(i))))
  /\ \A i \in Players : WF_streamVars(Radio(Sounds(i) \/ HlsSounds(i) \/ HlsEnds(i)))
  /\ WF_streamVars(Radio(Status)) /\ WF_streamVars(Radio(RadiodStarts)) /\ WF_streamVars(Radio(~bus /\ BusTurns))
  /\ WF_streamVars(Radio(FirstList(TRUE) \/ Refreshes("ok") \/ Fetches(TRUE) \/ RoundEnds))
  /\ WF_streamVars(Sink(Reads \/ FindsClosed)) /\ WF_streamVars(Sink(EngineServes(FALSE)))
  /\ WF_streamVars(Sink(EngineStarts)) /\ SF_streamVars(Sink(Pumps /\ op' # Idle)) /\ SF_streamVars(Sink(Writes))
  /\ \A k \in Owners : WF_streamVars(Found(Receives(k) \/ Wants(k) \/ OwnerStarts(k))) /\ SF_streamVars(Found(Registers(k)))
  /\ \A i \in 1..Clients : WF_streamVars(Found(Serves(i, TRUE, TRUE))) /\ WF_streamVars(Found(slot[i].k = "visitor" /\ Expires(i)))
  /\ WF_streamVars(Found(Accepts)) /\ WF_streamVars(Found(MdnsdStarts(TRUE))) /\ WF_streamVars(Found(md.fail /\ MdnsdExits(TRUE)))
  /\ WF_streamVars(Found(BusStarts \/ AvahiStarts)) /\ WF_streamVars(Found(AvahiReads))
StreamSpec == StreamInit /\ [][StreamNext]_streamVars /\ Fairness

----------------------------------------------------------------------------
(* radiod's record is what plays, no player outlives its stop, and the      *)
(* audio of a stream reaches the speaker once and in order: for radio, and  *)
(* for the Sendspin bridge over late and lost answers; and nothing is       *)
(* advertised that no running program stands for.                           *)
StreamsHonest == RadioHonest /\ SinkHonest /\ DiscoveryHonest

(* A station that never gave audio is given up, unless paused; one that     *)
(* dropped is heard again unless stopped or paused; a Sendspin stream       *)
(* that started gets all its frames to the engine unless it is ended; what  *)
(* wants to be found is found and what is gone is no longer advertised.     *)
StreamsSettle ==
  /\ scene.settles /\ scene.part = "broken" ~> Silent \/ r.paused
  /\ scene.settles /\ scene.part = "live" => [](r.pid # 0 /\ ~r.paused => <>(Audible \/ Silent \/ r.paused))
  /\ scene.settles /\ scene.part = "sendspin" => []<>Started
  /\ scene.settles /\ scene.part = "discovery" => []<>Advertised
=============================================================================
