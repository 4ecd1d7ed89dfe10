-------------------------- MODULE BluetoothProofs --------------------------
(***************************************************************************)
(* Proofs about BluetoothService for every set of phones and every         *)
(* environment: any number of crashes, faults, requests and events.        *)
(***************************************************************************)
EXTENDS BluetoothService, VoiceSupervision, FiniteSetTheorems, FunctionTheorems, TLAPS

USE SetupsAssumption

-----------------------------------------------------------------------------
(* The stream.  A slot remembers conf and open after a hang-up, so what is  *)
(* inductive is that an open stream was configured, in every slot.          *)
Someone == Listeners \union {Nobody}
Session == [fd : Someone, media : Someone, conf : BOOLEAN, open : BOOLEAN,
            play : BOOLEAN, jam : BOOLEAN]
SoundSession(x) ==
  /\ x \in Session
  /\ x.open => x.conf
  /\ x.play => x.open /\ x.fd # Nobody
  /\ x.media # Nobody => x.fd # Nobody
StreamInv ==
  /\ s \in [Slots -> Session]
  /\ \A i \in Slots : SoundSession(s[i])
  /\ active = (\E i \in Slots : s[i].play)

\* The first of some slots is one of them.
LEMMA FirstIn ==
  ASSUME NEW T \in SUBSET Slots, T # {}
  PROVE  First(T) \in T
<1>1. \A j \in T : j = 1 \/ j = 2
  BY DEF Slots
<1>2. CASE 1 \in T
  BY <1>1, <1>2 DEF First
<1>3. CASE 1 \notin T
  BY <1>1, <1>3 DEF First
<1> QED
  BY <1>2, <1>3

\* Every signal, and the end of the channel, leave a session sound.
LEMMA SignalSound ==
  ASSUME NEW x, SoundSession(x), x.fd # Nobody, NEW signal
  PROVE  SoundSession(Dispatch(x, signal))
<1> USE DEF SoundSession, Session, Someone
<1>1. SoundSession(Configured(x))
  BY DEF Configured
<1>2. SoundSession(Opened(x))
  BY DEF Opened
<1>3. SoundSession(Started(x))
  BY DEF Started
<1>4. SoundSession(Suspended(x)) /\ SoundSession(Closed(x))
  BY DEF Suspended, Closed
<1>5. SoundSession(Aborted(x))
  BY DEF Aborted, Free
<1> QED
  BY <1>1, <1>2, <1>3, <1>4, <1>5 DEF Dispatch

\* A new table of sound sessions, with stream_active recomputed from it, is
\* all that Now has to establish.
LEMMA NowSound ==
  ASSUME StreamInv, NEW i \in Slots, NEW x, SoundSession(x),
         NEW t, t = [s EXCEPT ![i] = x], Now(t)
  PROVE  StreamInv'
<1>1. t \in [Slots -> Session] /\ \A j \in Slots : SoundSession(t[j])
  BY DEF StreamInv, SoundSession
<1> QED
  BY <1>1 DEF Now, StreamInv, SoundSession

\* A step of the stream machinery keeps the table sound: whoever connects,
\* whatever is signalled, and whichever channel ends first.
LEMMA StreamStepSound ==
  ASSUME StreamInv, StreamStep
  PROVE  StreamInv'
<1> USE DEF Slots
<1>1. ASSUME NEW p \in Listeners, NEW u, Searches(p, {u})
      PROVE  StreamInv'
  BY <1>1 DEF Searches, StreamInv, SoundSession
<1>2. ASSUME NEW p \in Listeners, Accepts(p)
      PROVE  StreamInv'
  <2>1. CASE Waiting # {}
    <3>1. First(Waiting) \in Waiting
      BY <2>1, FirstIn DEF Waiting
    <3> DEFINE i == First(Waiting)  x == [s[i] EXCEPT !.media = p]
    <3>2. i \in Slots /\ s[i].fd # Nobody
      BY <3>1 DEF Waiting
    <3>3. SoundSession(x)
      BY <3>2 DEF StreamInv, SoundSession, Session, Someone
    <3>4. Now([s EXCEPT ![i] = x])
      BY <1>2, <2>1, <3>2 DEF Accepts, StreamInv
    <3> QED
      BY <3>2, <3>3, <3>4, NowSound
  <2>2. CASE Waiting = {} /\ Unused # {}
    <3>1. First(Unused) \in Slots
      BY <2>2, FirstIn DEF Unused
    <3> DEFINE i == First(Unused)  x == [Free EXCEPT !.fd = p]
    <3>2. SoundSession(x)
      BY DEF Free, SoundSession, Session, Someone
    <3>3. Now([s EXCEPT ![i] = x])
      BY <1>2, <2>2 DEF Accepts
    <3> QED
      BY <3>1, <3>2, <3>3, NowSound
  <2>3. CASE Waiting = {} /\ Unused = {}
    BY <1>2, <2>3 DEF Accepts, Now, StreamInv, SoundSession
  <2> QED
    BY <2>1, <2>2, <2>3
<1>3. ASSUME NEW i \in Slots, HangsUp(i)
      PROVE  StreamInv'
  <2>1. SoundSession(HungUp(s[i]))
    BY DEF StreamInv, SoundSession, Session, Someone, HungUp
  <2>2. Now([s EXCEPT ![i] = HungUp(s[i])])
    BY <1>3 DEF HangsUp, StreamInv
  <2> QED
    BY <2>1, <2>2, NowSound
<1>4. ASSUME NEW i \in Slots, MediaEnds(i)
      PROVE  StreamInv'
  <2> DEFINE x == [s[i] EXCEPT !.media = Nobody, !.play = FALSE]
  <2>1. SoundSession(x)
    BY DEF StreamInv, SoundSession, Session, Someone
  <2>2. Now([s EXCEPT ![i] = x])
    BY <1>4 DEF MediaEnds, StreamInv, Session
  <2> QED
    BY <2>1, <2>2, NowSound
<1>5. ASSUME NEW i \in Slots, Decodes(i)
      PROVE  StreamInv'
  <2> DEFINE x == [s[i] EXCEPT !.jam = TRUE]
  <2>1. SoundSession(x)
    BY DEF StreamInv, SoundSession, Session
  <2>2. Now([s EXCEPT ![i] = x])
    BY <1>5 DEF Decodes, StreamInv
  <2> QED
    BY <2>1, <2>2, NowSound
<1>6. ASSUME NEW i \in Slots, NEW g, Signals(i, g)
      PROVE  StreamInv'
  <2>1. SoundSession(Dispatch(s[i], g))
    BY <1>6, SignalSound DEF StreamInv, Signals
  <2>2. Now([s EXCEPT ![i] = Dispatch(s[i], g)])
    BY <1>6 DEF Signals, StreamInv
  <2> QED
    BY <2>1, <2>2, NowSound
<1> QED
  BY <1>1, <1>2, <1>3, <1>4, <1>5, <1>6 DEF StreamStep

\* stream_active, for any phones in any order: it is TRUE exactly while some
\* slot plays, and what plays has its signalling channel and was configured
\* and opened (avdtp_accept, avdtp_dispatch, avdtp_close_session).
THEOREM StreamAlwaysOwned == Spec => []StreamOwned
<1>1. Init => StreamInv
  <2> SUFFICES ASSUME Init PROVE StreamInv
    OBVIOUS
  <2>1. \A i \in Slots : s[i] = Free
    BY DEF Init, ProfileInit
  <2>2. s \in [Slots -> Session] /\ SoundSession(Free) /\ ~Free.play
    BY DEF Init, ProfileInit, SoundSession, Session, Someone, Free
  <2>3. active = FALSE
    BY DEF Init, ProfileInit
  <2> QED
    BY <2>1, <2>2, <2>3, Zenon DEF StreamInv
<1>2. StreamInv /\ [Next]_vars => StreamInv'
  <2> SUFFICES ASSUME StreamInv, [Next]_vars PROVE StreamInv'
    OBVIOUS
  <2>1. CASE UNCHANGED streamVars
    BY <2>1 DEF streamVars, StreamInv, SoundSession
  <2>2. CASE StreamStep
    BY <2>2, StreamStepSound
  <2> QED
    BY <2>1, <2>2 DEF Next, Controlling, Streaming, Sounding, vars
<1>3. StreamInv => StreamOwned
  BY DEF StreamInv, SoundSession, StreamOwned
<1> QED
  BY <1>1, <1>2, <1>3, PTL DEF Spec

-----------------------------------------------------------------------------
(* The controller.  What btd may hold in memory, and where a request may be.*)
Todos == {<<>>, <<"devs">>, <<"keys">>, <<"devs", "keys">>,
          <<"keys", "devs", "reply">>, <<"devs", "reply">>, <<"reply">>}
Resumes == {"idle", "off", "still", "name", "load"}
Pcs == Opening \union Restoring \union Resumes
         \union {"power", "info", "secure", "bond", "conn", "again", "drop", "scan",
                 "scan2", "still2", "setC", "setD", "unpair", "hangup", "answer"}
Phone == Phones \union {NoOne}
Daemon ==
  [up : BOOLEAN, enabled : BOOLEAN, capable : BOOLEAN, attempted : BOOLEAN,
   scanning : BOOLEAN, mode : BOOLEAN, saved : SUBSET Settings, cache : SUBSET Settings,
   devs : SUBSET Phones, paired : SUBSET Phones, connected : SUBSET Phones,
   found : SUBSET Phones, keys : SUBSET Phones, prompt : Phone, todo : Todos,
   pc : Pcs, who : Phone, to : BOOLEAN, then : Resumes]
Controller == [powered : BOOLEAN, settings : SUBSET Settings, keys : SUBSET Phones,
               scanning : BOOLEAN, links : SUBSET Phones]
Files == [devs : SUBSET Phones, keys : SUBSET Phones, ready : BOOLEAN]
ControllerType ==
  /\ setup \in Setups
  /\ b \in Daemon /\ hci \in Controller /\ disk \in Files
  /\ owner \in SUBSET Settings /\ blurred \in BOOLEAN
  /\ excused \in SUBSET Phones /\ gone \in SUBSET Phone

(* What makes the bonds inductive: how far the two saves have come.         *)
Unsaved == <<"devs", "keys">>
Forgetting == {<<"keys", "devs", "reply">>, <<"devs", "reply">>, <<"reply">>}
BondInv ==
  /\ disk.keys \subseteq disk.devs \union excused
  /\ gone \intersect (disk.keys \union b.keys \union hci.keys) \subseteq excused
  /\ b.up =>
       /\ b.keys \subseteq b.paired \union excused
       /\ b.todo # <<"keys", "devs", "reply">> => disk.keys \subseteq b.paired \union excused
       /\ b.todo # Unsaved => b.paired \subseteq disk.devs \union excused
       /\ b.todo \in Forgetting => b.who \notin b.keys /\ b.who \notin hci.keys
       /\ b.todo \in {<<"devs", "reply">>, <<"reply">>} => b.who \notin disk.keys \ excused

(* What makes the window inductive: which settings differ at which command. *)
Undoing == {"undoB", "undoC", "undoD"}
Shutting == {"shutD", "shutC", "shutB"}
Agree(set) == \A x \in set : x \in hci.settings <=> x \in owner
WillOpen == b.pc \in Opening \/ (b.pc = "again" /\ b.then \in {"still", "name"})
Securing == {"again", "power", "info", "secure", "drop"}
WindowInv ==
  /\ b.up /\ b.pc \in Securing /\ b.then = "load" => ~b.mode
  /\ b.up /\ (WillOpen \/ b.pc \in Undoing) => ~b.mode
  /\ b.up /\ b.pc \in Shutting => b.mode /\ b.then \in {"off", "idle"}
  /\ ~b.up => b = Booted
  /\ ~blurred =>
       /\ b.up /\ (b.mode \/ WillOpen \/ b.pc \in Undoing) => b.saved = owner
       /\ ~b.mode /\ b.pc \notin {"openC", "openD"} \union Undoing => Agree(Settings)
       /\ b.pc = "undoC" => Agree({"bondable"})
       /\ b.pc = "undoD" => Agree({"bondable", "connectable"})
       /\ b.pc = "shutC" => Agree({"discoverable"})
       /\ b.pc = "shutB" => Agree({"discoverable", "connectable"})

Commands == {"power", "info", "secure", "load", "scan", "name", "unpair", "hangup",
             "answer", "idle"} \union Settings
\* Where each command leads, and what it asks.
LEMMA ScriptType ==
  ASSUME NEW c \in Daemon
  PROVE  Script(c) \in [op : Commands, to : BOOLEAN, ok : Pcs, fail : Pcs]
  BY SMTT(60) DEF Script, Daemon, Commands, Pcs, Opening, Restoring, Resumes, Undo, Settings

\* The commands that set a controller's setting.
LEMMA ScriptSets ==
  ASSUME NEW c \in Daemon, Script(c).op \in Settings
  PROVE  c.pc \in {"bond", "conn", "openB", "openC", "openD", "setC", "setD"}
                    \union Restoring
  BY SMTT(60) DEF Script, Daemon, Restoring, Settings, Pcs, Opening, Resumes

\* The fields a command's answer changes.
LEMMA DaemonExcept ==
  ASSUME NEW n \in Daemon, NEW m \in BOOLEAN, NEW k \in BOOLEAN, NEW h \in SUBSET Settings
  PROVE  /\ [n EXCEPT !.cache = h, !.mode = m] \in Daemon
         /\ [n EXCEPT !.enabled = m, !.capable = k] \in Daemon
         /\ [n EXCEPT !.cache = h, !.enabled = m] \in Daemon
         /\ [n EXCEPT !.capable = k] \in Daemon /\ [n EXCEPT !.scanning = m] \in Daemon
         /\ [n EXCEPT !.prompt = NoOne] \in Daemon
  BY DEF Daemon, Phone

\* btd's memory when it is down, and as it is read back from the files.
LEMMA BootedType == Booted \in Daemon
  BY DEF Booted, Daemon, Phone, Todos, Pcs, Resumes, Opening, Restoring
LEMMA LoadedType ==
  ASSUME ControllerType, NEW h \in SUBSET Settings, NEW e \in BOOLEAN, NEW t \in Resumes,
         NEW q \in Pcs
  PROVE  /\ Loaded \in Daemon
         /\ [Loaded EXCEPT !.cache = h, !.enabled = e, !.then = t, !.pc = q] \in Daemon
         /\ [Loaded EXCEPT !.pc = q] \in Daemon
<1>1. Loaded \in Daemon
  BY BootedType DEF Loaded, ControllerType, Daemon, Files
<1> QED
  BY <1>1 DEF Daemon

\* btd's memory stays well formed whatever a command's answer is.
LEMMA CommandType ==
  ASSUME ControllerType, Command, setup' = setup
  PROVE  ControllerType'
<1> DEFINE c == Script(b)
<1>1. c \in [op : Commands, to : BOOLEAN, ok : Pcs, fail : Pcs]
  BY ScriptType DEF ControllerType
<1>2. Booted \in Daemon
  BY BootedType
<1>3. Does(c) \in Controller
  BY <1>1 DEF Does, ControllerType, Controller, Daemon, Settings
<1>4. Marker(c, TRUE) \in Files /\ Marker(c, FALSE) \in Files
  BY DEF Marker, ControllerType, Files
<1>5. Succeeds(b, c) \in Daemon
  <2> USE DEF ControllerType, Controller, Daemon
  <2> DEFINE n == [b EXCEPT !.pc = c.ok]
  <2>1. n \in Daemon
    BY <1>1
  <2>2. c.op \in Settings => Cached(b, c) \in SUBSET Settings
    BY <1>1 DEF Cached
  <2>3. Unpaired(n) \in Daemon
    BY <2>1 DEF Unpaired, Todos
  <2>4. /\ ((b.pc = "openD") \/ (b.mode /\ b.pc # "shutB")) \in BOOLEAN
        /\ (n.capable /\ c.to) \in BOOLEAN /\ c.to \in BOOLEAN
        /\ hci.settings \in SUBSET Settings /\ hci.powered \in BOOLEAN
    BY <1>1, <2>1
  <2> HIDE DEF ControllerType, Controller, Daemon, n
  <2> QED
    BY <1>2, <2>1, <2>2, <2>3, <2>4, DaemonExcept DEF Succeeds, n
<1>6. Fails(b, c) \in Daemon
  <2>1. \A e, k \in BOOLEAN :
          [b EXCEPT !.pc = c.fail, !.enabled = e, !.capable = k] \in Daemon
    BY <1>1 DEF ControllerType, Daemon
  <2>2. (b.enabled /\ b.pc # "drop") \in BOOLEAN /\ (b.capable /\ b.pc # "drop") \in BOOLEAN
    OBVIOUS
  <2> QED
    BY <1>2, <2>1, <2>2, Zenon DEF Fails
<1>7. Chosen(c) \in SUBSET Settings
  BY <1>1 DEF Chosen, ControllerType
<1> QED
  BY ZenonT(60), <1>3, <1>4, <1>5, <1>6, <1>7
     DEF Command, ControllerType, Daemon, Controller, Files, Phone, Phones

\* Writing out, and replying, take the next save off the list.
LEMMA TodoTail ==
  ASSUME NEW t \in Todos, t # <<>>
  PROVE  /\ Tail(t) \in Todos
         /\ Head(t) \in {"devs", "keys", "reply"}
<1>1. /\ Tail(<<"devs">>) = <<>> /\ Tail(<<"keys">>) = <<>> /\ Tail(<<"reply">>) = <<>>
      /\ Tail(<<"devs", "keys">>) = <<"keys">> /\ Tail(<<"devs", "reply">>) = <<"reply">>
      /\ Tail(<<"keys", "devs", "reply">>) = <<"devs", "reply">>
  OBVIOUS
<1>2. /\ Head(<<"devs">>) = "devs" /\ Head(<<"keys">>) = "keys"
      /\ Head(<<"reply">>) = "reply" /\ Head(<<"devs", "keys">>) = "devs"
      /\ Head(<<"devs", "reply">>) = "devs" /\ Head(<<"keys", "devs", "reply">>) = "keys"
  OBVIOUS
<1> QED
  BY <1>1, <1>2, Zenon DEF Todos

\* A request begins at one of the commands.
LEMMA BeginType ==
  ASSUME NEW c \in Daemon, NEW pc \in Pcs, Begin(c, pc)
  PROVE  b' \in Daemon
  BY DEF Begin, Daemon

\* One of btd's steps keeps its memory, the controller and the files typed.
LEMMA BtNextType ==
  ASSUME ControllerType, BtNext, setup' = setup
  PROVE  ControllerType'
<1>0. /\ Daemon' = Daemon /\ Controller' = Controller /\ Files' = Files
      /\ Phone' = Phone /\ Phones' = Phones
  BY DEF Daemon, Controller, Files, Phone, Phones
<1>1. CASE Write
  <2>1. b' \in Daemon
    BY <1>1, TodoTail DEF Write, ControllerType, Daemon
  <2>2. disk' \in Files /\ excused' \in SUBSET Phones
    BY <1>1, TodoTail DEF Write, Fault, ControllerType, Daemon, Files
  <2> QED
    BY <1>0, <1>1, <2>1, <2>2 DEF Write, ControllerType
<1>2. CASE Replies
  <2>1. b' \in Daemon /\ gone' \in SUBSET Phone
    BY <1>2 DEF Replies, ControllerType, Daemon, Todos
  <2> QED
    BY <1>0, <1>2, <2>1 DEF Replies, ControllerType
<1>3. CASE Command
  BY <1>3, CommandType
<1>4. CASE ScanEnds
  <2>1. b' \in Daemon /\ hci' \in Controller
    BY <1>4 DEF ScanEnds, ControllerType, Daemon, Controller
  <2> QED
    BY <1>0, <1>4, <2>1 DEF ScanEnds, history, ControllerType
<1>5. CASE Dies
  BY <1>0, <1>5, BootedType DEF Dies, ControllerType
<1>6. CASE Starts
  <2>1. /\ hci.settings \in SUBSET Settings /\ hci.powered \in BOOLEAN
        /\ "load" \in Resumes /\ "load" \in Pcs /\ "again" \in Pcs
    BY DEF ControllerType, Controller, Pcs, Resumes
  <2>2. b' \in Daemon
    <3>1. [Loaded EXCEPT !.pc = "load"] \in Daemon
      BY <2>1, LoadedType
    <3>2. \A q \in {"again", "load"} :
            [Loaded EXCEPT !.cache = hci.settings, !.enabled = hci.powered,
                           !.then = "load", !.pc = q] \in Daemon
      BY <2>1, LoadedType
    <3> QED
      BY <1>6, <3>1, <3>2 DEF Starts
  <2>3. disk' \in Files
    BY <1>6 DEF Starts, ControllerType, Files
  <2> QED
    BY <1>0, <1>6, <2>2, <2>3 DEF Starts, history, ControllerType
<1>7. CASE RefreshInfo
  <2>1. b' \in Daemon /\ disk' \in Files
    BY <1>7 DEF RefreshInfo, ControllerType, Daemon, Controller, Files
  <2> QED
    BY <1>0, <1>7, <2>1 DEF RefreshInfo, history, ControllerType
<1>8. ASSUME NEW p \in Phones, NEW kind, Event(p, kind)
      PROVE  ControllerType'
  <2> USE DEF ControllerType, Daemon
  <2> DEFINE g == GetDevice(b, p)
  <2>1. g \in Daemon
    BY DEF GetDevice
  <2>2. /\ Disconnected(b, p) \in Daemon
        /\ Prompted(b, p) \in Daemon /\ AuthFailed(b, p) \in Daemon
    BY DEF Disconnected, Prompted, AuthFailed, Phone
  <2>3. Found(b, p) \in Daemon /\ Connected(b, p) \in Daemon /\ NewKey(b, p) \in Daemon
    <3> HIDE DEF g
    <3>1. \A t \in Todos : /\ [g EXCEPT !.found = @ \union {p}, !.todo = t] \in Daemon
                           /\ [g EXCEPT !.connected = @ \union {p}, !.todo = t] \in Daemon
      BY <2>1
    <3>2. \A x, y \in SUBSET Phones, t \in Todos :
            [g EXCEPT !.paired = x, !.keys = y, !.prompt = NoOne, !.todo = t] \in Daemon
      BY <2>1 DEF Phone
    <3>3. g.todo \in Todos /\ <<"devs">> \in Todos /\ SavePairingBond \in Todos
      BY <2>1 DEF Todos, SavePairingBond
    <3>4. /\ (IF HasSlot(b, p) THEN g.paired \union {p} ELSE g.paired) \in SUBSET Phones
          /\ (IF Cardinality(g.keys) < setup.room THEN g.keys \union {p} ELSE g.keys)
               \in SUBSET Phones
      BY <2>1
    <3> HIDE DEF Daemon
    <3>5. Found(b, p) \in Daemon /\ Connected(b, p) \in Daemon
      BY <3>1, <3>3 DEF Found, Connected, g
    <3>6. NewKey(b, p) \in Daemon
      BY <3>2, <3>3, <3>4 DEF NewKey, g
    <3> QED
      BY <3>5, <3>6
  <2>4. hci' \in Controller
    BY <1>8 DEF Event, Controller
  <2>5. excused' \in SUBSET Phones /\ gone' \in SUBSET Phone
    BY <1>8 DEF Event
  <2>6. b' \in Daemon
    BY <1>8, <2>2, <2>3 DEF Event
  <2> HIDE DEF Daemon
  <2> QED
    BY <1>0, <1>8, <2>4, <2>5, <2>6 DEF Event
<1>9. CASE SetEnabled \/ SetDisabled \/ OpenWindow \/ ShutWindow \/ Scan
  <2> USE DEF history, ControllerType
  <2>0. /\ {"idle", "again", "power", "shutD", "off", "still", "name", "scan", "still2"}
             \subseteq Pcs
        /\ \A to \in Resumes : [b EXCEPT !.then = to] \in Daemon
    BY DEF Daemon, Resumes, Pcs, Opening, Restoring
  <2>1. SetEnabled => b' \in Daemon
    <3>1. /\ [b EXCEPT !.attempted = TRUE, !.then = "idle"] \in Daemon
          /\ [b EXCEPT !.attempted = TRUE] \in Daemon
      BY DEF Daemon, Resumes
    <3> QED
      BY <2>0, <3>1, BeginType DEF SetEnabled, Resumes
  <2>2. SetDisabled => b' \in Daemon
    <3>1. [b EXCEPT !.capable = FALSE] \in Daemon
      BY DEF Daemon
    <3> QED
      BY <2>0, <3>1, BeginType DEF SetDisabled, Resumes
  <2>3. OpenWindow => b' \in Daemon
    <3>1. \A start \in {"still", "name"} :
            [b EXCEPT !.saved = b.cache, !.then = start] \in Daemon
      BY DEF Daemon, Resumes
    <3> QED
      BY <2>0, <3>1, BeginType DEF OpenWindow
  <2>4. ShutWindow => b' \in Daemon
    BY <2>0, BeginType DEF ShutWindow, Resumes
  <2>5. Scan => b' \in Daemon
    <3>1. \A kept : [b EXCEPT !.devs = @ \intersect kept, !.found = {}] \in Daemon
      BY DEF Daemon
    <3> QED
      BY <2>0, <3>1, BeginType DEF Scan
  <2> QED
    BY <1>0, <1>9, <2>1, <2>2, <2>3, <2>4, <2>5
       DEF SetEnabled, SetDisabled, OpenWindow, ShutWindow, Scan
<1>10. ASSUME NEW p \in Phones, NEW what,
              About(what, "unpair", p) \/ About(what, "hangup", p) \/ About(what, "answer", p)
       PROVE  ControllerType'
  <2>1. [b EXCEPT !.who = p] \in Daemon /\ {"unpair", "hangup", "answer"} \subseteq Pcs
    BY DEF ControllerType, Daemon, Pcs, Phone
  <2>2. b' \in Daemon
    BY <1>10, <2>1, BeginType DEF About
  <2> QED
    BY <1>0, <1>10, <2>2 DEF About, history, ControllerType
<1>11. ASSUME NEW v \in BOOLEAN, SetConnectable(v) \/ SetDiscoverable(v)
       PROVE  ControllerType'
  <2>1. [b EXCEPT !.to = v] \in Daemon /\ {"setC", "setD"} \subseteq Pcs
    BY DEF ControllerType, Daemon, Pcs
  <2>2. b' \in Daemon
    BY <1>11, <2>1, BeginType DEF SetConnectable, SetDiscoverable
  <2> QED
    BY <1>0, <1>11, <2>2 DEF SetConnectable, SetDiscoverable, history, ControllerType
<1> QED
  BY <1>1, <1>2, <1>3, <1>4, <1>5, <1>6, <1>7, <1>8, <1>9, <1>10, <1>11 DEF BtNext

\* The lists of saves are told apart by what they hold.
LEMMA TodosDiffer ==
  /\ <<>> # Unsaved /\ <<>> \notin Forgetting /\ <<>> # <<"keys", "devs", "reply">>
  /\ <<"devs">> # Unsaved /\ <<"devs">> \notin Forgetting
  /\ <<"keys">> # Unsaved /\ <<"keys">> \notin Forgetting
  /\ Unsaved \notin Forgetting
  /\ <<"devs", "reply">> # <<"keys", "devs", "reply">>
  /\ <<"reply">> # <<"keys", "devs", "reply">> /\ <<"reply">> # <<"devs", "reply">>
  BY DEF Unsaved, Forgetting

\* Each save, made or failed, brings the files one step nearer to memory.
LEMMA WriteBonds ==
  ASSUME ControllerType, BondInv, Write
  PROVE  BondInv'
<1> USE DEF ControllerType, Daemon, Files, Controller
<1>1. CASE b.todo = <<"devs">>
  BY <1>1, TodosDiffer DEF Write, BondInv, Unsaved, Forgetting
<1>2. CASE b.todo = <<"keys">>
  BY <1>2, TodosDiffer DEF Write, BondInv, Unsaved, Forgetting
<1>3. CASE b.todo = Unsaved
  BY <1>3, TodosDiffer DEF Write, BondInv, Unsaved, Forgetting
<1>4. CASE b.todo = <<"keys", "devs", "reply">>
  BY <1>4, TodosDiffer DEF Write, BondInv, Unsaved, Forgetting
<1>5. CASE b.todo = <<"devs", "reply">>
  BY <1>5, TodosDiffer DEF Write, BondInv, Unsaved, Forgetting
<1>6. CASE b.todo = <<"reply">> \/ b.todo = <<>>
  BY <1>6 DEF Write
<1> QED
  BY <1>1, <1>2, <1>3, <1>4, <1>5, <1>6 DEF Todos, Unsaved

\* What a command's answer does to the bonds.
LEMMA CommandBonds ==
  ASSUME ControllerType, BondInv, Command
  PROVE  BondInv'
<1> DEFINE c == Script(b)
<1>1. c \in [op : Commands, to : BOOLEAN, ok : Pcs, fail : Pcs]
  BY ScriptType DEF ControllerType
<1>2. b.up /\ b.todo = <<>>
  BY DEF Command
<1> HIDE DEF c
<1>3. disk'.keys = disk.keys /\ disk'.devs = disk.devs
  BY DEF Command, Marker, ControllerType, Files, c
<1>4. UNCHANGED <<excused, gone>>
  BY DEF Command
<1>5. \/ hci'.keys = hci.keys
      \/ hci'.keys = b.keys
      \/ c.op = "unpair" /\ hci'.keys = hci.keys \ {b.who}
  BY DEF Command, Does, ControllerType, Controller, c
<1>6. \/ b' = Booted
      \/ b'.keys = b.keys /\ b'.paired = b.paired /\ b'.todo = <<>>
      \/ /\ c.op = "unpair" /\ hci'.keys = hci.keys \ {b.who} /\ b'.who = b.who
         /\ b'.keys = b.keys \ {b.who} /\ b'.paired = b.paired \ {b.who}
         /\ b'.todo = <<"keys", "devs", "reply">>
  <2>1. CASE b' = Succeeds(b, c) /\ hci' = Does(c)
    BY <1>1, <1>2, <2>1 DEF Succeeds, Unpaired, Does, ControllerType, Daemon, Controller,
                            Settings
  <2>2. CASE b' = Fails(b, c)
    BY <1>1, <1>2, <2>2 DEF Fails, ControllerType, Daemon
  <2> QED
    BY <2>1, <2>2 DEF Command, c
<1>7. CASE b' = Booted
  BY <1>2, <1>3, <1>4, <1>5, <1>7 DEF BondInv, Booted
<1>8. CASE b'.keys = b.keys /\ b'.paired = b.paired /\ b'.todo = <<>>
  BY <1>2, <1>3, <1>4, <1>5, <1>8, TodosDiffer DEF BondInv, Forgetting
<1>9. CASE /\ hci'.keys = hci.keys \ {b.who} /\ b'.who = b.who
           /\ b'.keys = b.keys \ {b.who} /\ b'.paired = b.paired \ {b.who}
           /\ b'.todo = <<"keys", "devs", "reply">>
  BY <1>2, <1>3, <1>4, <1>5, <1>9, TodosDiffer DEF BondInv, Forgetting, Unsaved
<1> QED
  BY <1>6, <1>7, <1>8, <1>9

\* What an event on the air does to the bonds: a key for a phone that has no
\* room in the table is excused, and pairing again takes back an unpairing.
LEMMA EventBonds ==
  ASSUME ControllerType, BondInv, NEW p \in Phones, NEW kind, Event(p, kind)
  PROVE  BondInv'
<1>1. b.up /\ b.todo = <<>> /\ UNCHANGED disk
  BY DEF Event
<1>2. CASE kind # "key"
  <2>1. /\ b'.up /\ b'.keys = b.keys /\ b'.paired = b.paired
        /\ b'.todo \in {<<>>, <<"devs">>}
    BY <1>1, <1>2 DEF Event, Found, Connected, Disconnected, Prompted, AuthFailed, GetDevice,
                      ControllerType, Daemon
  <2>2. hci'.keys = hci.keys /\ UNCHANGED <<excused, gone>>
    BY <1>2 DEF Event, ControllerType, Controller
  <2> QED
    BY <1>1, <2>1, <2>2, TodosDiffer DEF BondInv, Forgetting
<1>3. CASE kind = "key"
  <2>1. /\ b'.up /\ b'.todo = Unsaved /\ b'.keys \in {b.keys, b.keys \union {p}}
        /\ b'.paired = IF HasSlot(b, p) THEN b.paired \union {p} ELSE b.paired
    BY <1>1, <1>3 DEF Event, NewKey, GetDevice, SavePairingBond, Unsaved, ControllerType,
                      Daemon
  <2>2. /\ hci'.keys = hci.keys \union {p} /\ gone' = gone \ {p}
        /\ excused' = IF HasSlot(b, p) THEN excused ELSE excused \union {p}
    BY <1>3 DEF Event, ControllerType, Controller
  <2> QED
    BY <1>1, <2>1, <2>2, TodosDiffer DEF BondInv, Forgetting
<1> QED
  BY <1>2, <1>3

\* Every step of btd keeps the bonds accounted for.
LEMMA BtNextBonds ==
  ASSUME ControllerType, BondInv, BtNext, setup' = setup
  PROVE  BondInv'
<1> USE DEF ControllerType
<1>1. CASE Write
  BY <1>1, WriteBonds
<1>2. CASE Replies
  BY <1>2, TodosDiffer DEF Replies, BondInv, Daemon, Forgetting
<1>3. CASE Command
  BY <1>3, CommandBonds
<1>4. CASE Dies
  BY <1>4 DEF Dies, BondInv, Booted
<1>5. CASE Starts
  <2>1. b'.keys = disk.keys /\ b'.paired = disk.devs /\ b'.todo = <<>>
    BY ZenonT(60), <1>5 DEF Starts, Loaded, Booted
  <2>2. disk'.keys = disk.keys /\ disk'.devs = disk.devs /\ UNCHANGED <<hci, excused, gone>>
    BY <1>5 DEF Starts, Files, history
  <2> QED
    BY <2>1, <2>2, TodosDiffer DEF BondInv, Forgetting
<1>6. ASSUME NEW p \in Phones, NEW kind, Event(p, kind)
      PROVE  BondInv'
  BY <1>6, EventBonds
<1>7. CASE /\ b'.up = b.up /\ b'.keys = b.keys /\ b'.paired = b.paired
           /\ b.todo = <<>> /\ b'.todo = <<>> /\ hci'.keys = hci.keys
           /\ disk'.keys = disk.keys /\ disk'.devs = disk.devs
           /\ UNCHANGED <<excused, gone>>
  BY <1>7, TodosDiffer DEF BondInv, Forgetting
<1>8. CASE ScanEnds \/ RefreshInfo
  BY <1>7, <1>8 DEF ScanEnds, RefreshInfo, AtRest, history, Daemon, Controller, Files
<1>9. CASE SetEnabled \/ SetDisabled \/ OpenWindow \/ ShutWindow \/ Scan
  BY <1>7, <1>9 DEF SetEnabled, SetDisabled, OpenWindow, ShutWindow, Scan, Request, AtRest,
                    Begin, history, Daemon
<1>10. ASSUME NEW p \in Phones, NEW what, NEW pc, About(what, pc, p)
       PROVE  BondInv'
  BY <1>7, <1>10 DEF About, Request, AtRest, Begin, history, Daemon
<1>11. ASSUME NEW v \in BOOLEAN, SetConnectable(v) \/ SetDiscoverable(v)
       PROVE  BondInv'
  BY <1>7, <1>11 DEF SetConnectable, SetDiscoverable, Request, AtRest, Begin, history, Daemon
<1> QED
  BY <1>1, <1>2, <1>3, <1>4, <1>5, <1>6, <1>8, <1>9, <1>10, <1>11 DEF BtNext

-----------------------------------------------------------------------------
Asks(c, op, v, ok, fail) ==
  Script(c).op = op /\ (Script(c).to <=> v) /\ Script(c).ok = ok /\ Script(c).fail = fail
\* The commands that set something, as the script has them.
LEMMA ScriptAt ==
  ASSUME NEW c \in Daemon
  PROVE  /\ c.pc = "bond" => Asks(c, "bondable", TRUE, "conn", "idle")
         /\ c.pc = "conn" => Asks(c, "connectable", TRUE, "load", "idle")
         /\ c.pc = "setC" => Asks(c, "connectable", c.to, "idle", "idle")
         /\ c.pc = "setD" => Asks(c, "discoverable", c.to, "idle", "idle")
         /\ c.pc = "openB" => Asks(c, "bondable", TRUE, "openC", "undoB")
         /\ c.pc = "openC" => Asks(c, "connectable", TRUE, "openD", "undoB")
         /\ c.pc = "openD" => Asks(c, "discoverable", TRUE, "idle", "undoB")
         /\ c.pc = "undoB" => Asks(c, "bondable", "bondable" \in c.saved, "undoC", "undoC")
         /\ c.pc = "undoC" => Asks(c, "connectable", "connectable" \in c.saved, "undoD", "undoD")
         /\ c.pc = "undoD" => Asks(c, "discoverable", "discoverable" \in c.saved, "idle", "idle")
         /\ c.pc = "shutD" => Asks(c, "discoverable", "discoverable" \in c.saved, "shutC", c.then)
         /\ c.pc = "shutC" => Asks(c, "connectable", "connectable" \in c.saved, "shutB", c.then)
         /\ c.pc = "shutB" => Asks(c, "bondable", "bondable" \in c.saved, c.then, c.then)
  BY DEF Script, Asks, Undo
\* The other commands, and where they lead.
LEMMA ScriptElse ==
  ASSUME NEW c \in Daemon, c.pc \notin {"bond", "conn", "openB", "openC", "openD", "setC", "setD"},
         c.pc \notin Restoring
  PROVE  /\ Script(c).op \notin Settings
         /\ c.pc \notin Opening \union {"again"} =>
              {Script(c).ok, Script(c).fail} \intersect (Opening \union Restoring) = {}
         /\ c.pc = "again" => Script(c).ok = c.then /\ Script(c).fail = "drop"
         /\ c.pc \in Opening => {Script(c).ok, Script(c).fail} \subseteq {"name", "openB", "idle"}
         /\ {Script(c).ok, Script(c).fail} \intersect {"again"} = {}
         /\ c.pc \notin Securing => {Script(c).ok, Script(c).fail} \intersect Securing = {}
<1> USE DEF Daemon, Restoring, Opening, Settings, Pcs, Resumes
<1>1. Script(c).op \notin Settings
  BY DEF Script
<1>2. c.pc \notin Opening \union {"again"} =>
              {Script(c).ok, Script(c).fail} \intersect (Opening \union Restoring) = {}
  BY DEF Script
<1>3. /\ c.pc = "again" => Script(c).ok = c.then /\ Script(c).fail = "drop"
      /\ c.pc \in Opening => {Script(c).ok, Script(c).fail} \subseteq {"name", "openB", "idle"}
  BY DEF Script
<1>4. {Script(c).ok, Script(c).fail} \intersect {"again"} = {}
  BY DEF Script
<1>5. c.pc \notin Securing => {Script(c).ok, Script(c).fail} \intersect Securing = {}
  BY DEF Script, Securing
<1> QED
  BY <1>1, <1>2, <1>3, <1>4, <1>5

After(c) == IF c.to THEN hci.settings \union {c.op} ELSE hci.settings \ {c.op}
\* The answers to a command that sets something: carried out, or failed with
\* the controller changed or not, which outside Opening is remembered.
LEMMA SettingStep ==
  ASSUME ControllerType, Command, NEW c, c = Script(b), c.op \in Settings
  PROVE  /\ b.up /\ b'.up /\ b'.saved = b.saved /\ b'.then = b.then
         /\ \/ /\ b'.pc = c.ok /\ hci'.settings = After(c)
               /\ owner' = Chosen(c) /\ blurred' = blurred
               /\ b.pc \in {"setC", "setD"} => b'.mode = b.mode
               /\ b.pc \notin {"setC", "setD"} =>
                    (b'.mode <=> b.pc = "openD" \/ (b.mode /\ b.pc # "shutB"))
            \/ /\ b'.pc = c.fail /\ hci'.settings \in {hci.settings, After(c)}
               /\ owner' = owner /\ b'.mode = b.mode
               /\ blurred' <=> blurred \/ b.pc \notin Opening
<1>1. c \in [op : Commands, to : BOOLEAN, ok : Pcs, fail : Pcs]
  BY ScriptType DEF ControllerType
<1>2. ~GivesUp(b) /\ Able(c)
  <2>1. b.pc # "drop"
    BY ScriptSets DEF ControllerType, Restoring
  <2> QED
    BY <2>1 DEF GivesUp, Able, Settings
<1>3. Does(c).settings = After(c)
  <2>1. c.op \notin {"power", "scan", "load", "unpair", "hangup"}
    BY DEF Settings
  <2>2. Does(c) = [hci EXCEPT !.settings = After(c)]
    BY <2>1 DEF Does, After
  <2> QED
    BY <2>2 DEF ControllerType, Controller
<1>4. CASE b' = Succeeds(b, c) /\ hci' = Does(c) /\ owner' = Chosen(c) /\ blurred' = blurred
  <2>1. CASE b.pc \in {"setC", "setD"}
    <3>1. b' = [b EXCEPT !.pc = c.ok]
      BY <1>1, <1>2, <1>4, <2>1 DEF Succeeds, Settings
    <3> QED
      BY <1>3, <1>4, <2>1, <3>1 DEF ControllerType, Daemon, Command
  <2>2. CASE b.pc \notin {"setC", "setD"}
    <3>1. b' = [[b EXCEPT !.pc = c.ok] EXCEPT !.cache = Cached(b, c),
                  !.mode = ((b.pc = "openD") \/ (b.mode /\ b.pc # "shutB"))]
      BY <1>1, <1>2, <1>4, <2>2 DEF Succeeds, Settings
    <3> QED
      BY <1>3, <1>4, <2>2, <3>1 DEF ControllerType, Daemon, Command
  <2> QED
    BY <2>1, <2>2
<1>5. CASE /\ b' = Fails(b, c) /\ hci' \in {hci, Does(c)} /\ owner' = owner
           /\ blurred' = (blurred \/ (Able(c) /\ b.pc \notin Opening))
  <2>1. /\ b'.pc = c.fail /\ b'.mode = b.mode /\ b.up /\ b'.up
        /\ b'.saved = b.saved /\ b'.then = b.then
    BY <1>2, <1>5 DEF Fails, ControllerType, Daemon, Command
  <2>2. blurred' <=> blurred \/ b.pc \notin Opening
    BY <1>2, <1>5
  <2>3. hci'.settings \in {hci.settings, After(c)}
    BY <1>3, <1>5
  <2> QED
    BY <1>5, <2>1, <2>2, <2>3
<1> QED
  BY <1>2, <1>4, <1>5 DEF Command

\* A command that sets something keeps the window's account straight.
LEMMA SettingWindow ==
  ASSUME ControllerType, WindowInv, Command, Script(b).op \in Settings
  PROVE  WindowInv'
<1> DEFINE c == Script(b)
<1>1. b \in Daemon /\ b.pc \in {"bond", "conn", "openB", "openC", "openD", "setC", "setD"}
                                \union Restoring
  BY ScriptSets DEF ControllerType
<1>2. hci.settings \in SUBSET Settings /\ owner \in SUBSET Settings /\ b.saved \in SUBSET Settings
      /\ blurred \in BOOLEAN /\ b.mode \in BOOLEAN
  BY DEF ControllerType, Controller, Daemon
<1>13. /\ b.up /\ b'.up /\ b'.saved = b.saved /\ b'.then = b.then
         /\ \/ /\ b'.pc = c.ok /\ hci'.settings = After(c)
               /\ owner' = Chosen(c) /\ blurred' = blurred
               /\ b.pc \in {"setC", "setD"} => b'.mode = b.mode
               /\ b.pc \notin {"setC", "setD"} =>
                    (b'.mode <=> b.pc = "openD" \/ (b.mode /\ b.pc # "shutB"))
            \/ /\ b'.pc = c.fail /\ hci'.settings \in {hci.settings, After(c)}
               /\ owner' = owner /\ b'.mode = b.mode
               /\ blurred' <=> blurred \/ b.pc \notin Opening
  BY SettingStep
<1> HIDE DEF c
<1> USE <1>1, <1>2, <1>13
        DEF WindowInv, WillOpen, Opening, Securing, Undoing, Shutting, Agree, After, Chosen
<1>3. CASE b.pc = "bond" \/ b.pc = "conn"
  <2>1. Asks(b, "bondable", TRUE, "conn", "idle") \/ Asks(b, "connectable", TRUE, "load", "idle")
    BY ScriptAt, <1>3
  <2> QED
    BY <2>1, <1>3 DEF Settings, Asks, c
<1>4. CASE b.pc = "setC" \/ b.pc = "setD"
  <2>1. \/ Asks(b, "connectable", b.to, "idle", "idle")
        \/ Asks(b, "discoverable", b.to, "idle", "idle")
    BY ScriptAt, <1>4
  <2> QED
    BY <2>1, <1>4 DEF Settings, Asks, c
<1>5. CASE b.pc = "openB"
  <2>1. Asks(b, "bondable", TRUE, "openC", "undoB")
    BY ScriptAt, <1>5
  <2> QED
    BY <2>1, <1>5 DEF Settings, Asks, c
<1>6. CASE b.pc = "openC" \/ b.pc = "openD"
  <2>1. \/ b.pc = "openC" /\ Asks(b, "connectable", TRUE, "openD", "undoB")
        \/ b.pc = "openD" /\ Asks(b, "discoverable", TRUE, "idle", "undoB")
    BY ScriptAt, <1>6
  <2> QED
    BY <2>1, <1>6 DEF Settings, Asks, c
<1>7. CASE b.pc = "undoB"
  <2>1. Asks(b, "bondable", "bondable" \in b.saved, "undoC", "undoC")
    BY ScriptAt, <1>7
  <2>2. ~b.mode /\ ~b'.mode /\ b'.pc = "undoC" /\ owner' = owner
    BY <2>1, <1>7 DEF Asks, c
  <2>3. ~blurred' => /\ ~blurred /\ b.saved = owner
                     /\ \A x \in Settings : x \in hci'.settings <=>
                          IF x = "bondable" THEN x \in owner ELSE x \in hci.settings
    <3>1. ~blurred' => ~blurred /\ b.saved = owner /\ hci'.settings = After(c)
      BY <1>7
    <3>2. c.op = "bondable" /\ (c.to <=> "bondable" \in b.saved)
      BY <2>1 DEF Asks, c
    <3> QED
      BY <3>1, <3>2
  <2> QED
    BY <2>2, <2>3, <1>7 DEF Settings
<1>8. CASE b.pc = "undoC"
  <2>1. Asks(b, "connectable", "connectable" \in b.saved, "undoD", "undoD")
    BY ScriptAt, <1>8
  <2>2. ~b.mode /\ ~b'.mode /\ b'.pc = "undoD" /\ owner' = owner
    BY <2>1, <1>8 DEF Asks, c
  <2>3. ~blurred' => /\ ~blurred /\ b.saved = owner
                     /\ \A x \in Settings : x \in hci'.settings <=>
                          IF x = "connectable" THEN x \in owner ELSE x \in hci.settings
    <3>1. ~blurred' => ~blurred /\ b.saved = owner /\ hci'.settings = After(c)
      BY <1>8
    <3>2. c.op = "connectable" /\ (c.to <=> "connectable" \in b.saved)
      BY <2>1 DEF Asks, c
    <3> QED
      BY <3>1, <3>2
  <2> QED
    BY <2>2, <2>3, <1>8 DEF Settings
<1>9. CASE b.pc = "undoD"
  <2>1. Asks(b, "discoverable", "discoverable" \in b.saved, "idle", "idle")
    BY ScriptAt, <1>9
  <2>2. ~b.mode /\ ~b'.mode /\ b'.pc = "idle" /\ owner' = owner
    BY <2>1, <1>9 DEF Asks, c
  <2>3. ~blurred' => /\ ~blurred /\ b.saved = owner
                     /\ \A x \in Settings : x \in hci'.settings <=>
                          IF x = "discoverable" THEN x \in owner ELSE x \in hci.settings
    <3>1. ~blurred' => ~blurred /\ b.saved = owner /\ hci'.settings = After(c)
      BY <1>9
    <3>2. c.op = "discoverable" /\ (c.to <=> "discoverable" \in b.saved)
      BY <2>1 DEF Asks, c
    <3> QED
      BY <3>1, <3>2
  <2> QED
    BY <2>2, <2>3, <1>9 DEF Settings
<1>10. CASE b.pc = "shutD"
  <2>1. Asks(b, "discoverable", "discoverable" \in b.saved, "shutC", b.then)
    BY ScriptAt, <1>10
  <2> QED
    BY <2>1, <1>10 DEF Settings, Asks, c
<1>11. CASE b.pc = "shutC"
  <2>1. Asks(b, "connectable", "connectable" \in b.saved, "shutB", b.then)
    BY ScriptAt, <1>11
  <2> QED
    BY <2>1, <1>11 DEF Settings, Asks, c
<1>12. CASE b.pc = "shutB"
  <2>1. Asks(b, "bondable", "bondable" \in b.saved, b.then, b.then)
    BY ScriptAt, <1>12
  <2> QED
    BY <2>1, <1>12 DEF Settings, Asks, c
<1> QED
  BY <1>3, <1>4, <1>5, <1>6, <1>7, <1>8, <1>9, <1>10, <1>11, <1>12 DEF Restoring

\* Every other command leaves the settings and the owner's choice alone.
LEMMA OtherWindow ==
  ASSUME ControllerType, WindowInv, Command, Script(b).op \notin Settings
  PROVE  WindowInv'
<1> DEFINE c == Script(b)
<1>1. c \in [op : Commands, to : BOOLEAN, ok : Pcs, fail : Pcs] /\ b \in Daemon
  BY ScriptType DEF ControllerType
<1>2. /\ b.pc \notin {"bond", "conn", "openB", "openC", "openD", "setC", "setD"}
      /\ b.pc \notin Restoring
  BY <1>1, ScriptAt DEF Asks, Settings, Restoring
<1>3. b.up /\ owner' = owner /\ (blurred => blurred') /\ hci'.settings = hci.settings
  <2>1. Does(c).settings = hci.settings
    BY DEF Does, ControllerType, Controller
  <2>2. blurred => blurred'
    BY DEF Command
  <2> QED
    BY <2>1, <2>2 DEF Command, Chosen
<1>4. \/ b' = Booted /\ b.pc = "drop" /\ b.then = "load"
      \/ /\ b'.up /\ b'.pc \in {c.ok, c.fail} /\ b'.saved = b.saved /\ b'.mode = b.mode
         /\ b'.then = b.then
  <2>1. CASE b' = Succeeds(b, c)
    BY <1>1, <1>3, <2>1 DEF Succeeds, GivesUp, Unpaired, Daemon
  <2>2. CASE b' = Fails(b, c)
    BY <1>1, <1>3, <2>2 DEF Fails, GivesUp, Daemon
  <2> QED
    BY <2>1, <2>2 DEF Command
<1> HIDE DEF c
<1> USE DEF WindowInv, WillOpen, Securing, Undoing, Shutting, Agree
<1>5. CASE b' = Booted /\ b.pc = "drop" /\ b.then = "load"
  BY <1>3, <1>5 DEF Booted, Opening
<1>6. CASE /\ b'.up /\ b'.pc \in {c.ok, c.fail} /\ b'.saved = b.saved /\ b'.mode = b.mode
           /\ b'.then = b.then
  <2>1. CASE b.pc \notin Opening \union {"again"}
    <3>1. /\ {c.ok, c.fail} \intersect (Opening \union Restoring \union {"again"}) = {}
          /\ b.pc \notin Securing => {c.ok, c.fail} \intersect Securing = {}
      BY <1>1, <1>2, <2>1, ScriptElse DEF c
    <3> QED
      BY <1>2, <1>3, <1>6, <2>1, <3>1 DEF Opening, Restoring
  <2>2. CASE b.pc = "again"
    <3>1. c.ok = b.then /\ c.fail = "drop" /\ b.then \in Resumes
      BY <1>1, <1>2, <2>2, ScriptElse DEF c, Daemon
    <3> QED
      BY <1>2, <1>3, <1>6, <2>2, <3>1 DEF Opening, Restoring, Resumes
  <2>3. CASE b.pc \in Opening
    <3>1. {c.ok, c.fail} \subseteq {"name", "openB", "idle"}
      BY <1>1, <1>2, <2>3, ScriptElse DEF c
    <3> QED
      BY <1>2, <1>3, <1>6, <2>3, <3>1 DEF Opening, Restoring
  <2> QED
    BY <2>1, <2>2, <2>3
<1> QED
  BY <1>4, <1>5, <1>6

\* Every step of btd keeps the window's account straight.
LEMMA BtNextWindow ==
  ASSUME ControllerType, WindowInv, BtNext
  PROVE  WindowInv'
<1> USE DEF ControllerType, Daemon, Controller
<1>1. CASE Command
  BY <1>1, SettingWindow, OtherWindow
<1>2. CASE Dies
  BY <1>2 DEF Dies, WindowInv, WillOpen, Opening, Restoring, Undoing, Shutting, Agree, Booted
<1>3. CASE Starts
  <2>1. /\ b'.up /\ ~b'.mode /\ b'.pc \in {"again", "load"} /\ UNCHANGED <<hci, owner, blurred>>
        /\ b'.pc = "again" => b'.then = "load"
    BY ZenonT(60), <1>3 DEF Starts, Loaded, Booted, history
  <2> QED
    BY <1>3, <2>1 DEF Starts, WindowInv, WillOpen, Opening, Securing, Undoing, Shutting, Agree, Booted
<1>4. CASE /\ UNCHANGED <<owner, blurred>> /\ b.up /\ b'.up = b.up /\ b'.pc = b.pc
           /\ b'.mode = b.mode /\ b'.saved = b.saved /\ b'.then = b.then
           /\ hci'.settings = hci.settings
  BY <1>4 DEF WindowInv, WillOpen, Opening, Securing, Undoing, Shutting, Agree
<1>5. CASE Write \/ Replies \/ ScanEnds \/ RefreshInfo
  BY ZenonT(60), <1>4, <1>5 DEF Write, Replies, ScanEnds, RefreshInfo, AtRest, At, history
<1>6. ASSUME NEW p, NEW kind, Event(p, kind)
      PROVE  WindowInv'
  <2>1. /\ b'.up = b.up /\ b'.pc = b.pc
        /\ b'.mode = b.mode /\ b'.saved = b.saved /\ b'.then = b.then
    <3>1. CASE kind = "key"
      BY ZenonT(60), <1>6, <3>1 DEF Event, NewKey, GetDevice
    <3>2. CASE kind = "found"
      BY <1>6, <3>2 DEF Event, Found, GetDevice
    <3>3. CASE kind = "connected"
      BY ZenonT(60), <1>6, <3>3 DEF Event, Connected, GetDevice
    <3>4. CASE kind \notin {"key", "found", "connected"}
      BY <1>6, <3>4 DEF Event, Disconnected, Prompted, AuthFailed
    <3> QED
      BY <3>1, <3>2, <3>3, <3>4
  <2> QED
    BY <1>4, <1>6, <2>1 DEF Event
<1>7. CASE OpenWindow
  <2>1. /\ b.up /\ b'.up /\ b.pc = "idle" /\ ~b.mode /\ ~b'.mode /\ b'.saved = b.cache
        /\ b'.pc \in {"still", "name"} \/ (b'.pc = "again" /\ b'.then \in {"still", "name"})
        /\ UNCHANGED <<hci, owner>>
    BY <1>7 DEF OpenWindow, Begin, Request, AtRest, At
  <2>2. ~blurred' => ~blurred /\ b.cache = hci.settings
    BY <1>7 DEF OpenWindow
  <2>3. ~blurred => hci.settings = owner
    BY <2>1 DEF WindowInv, Opening, Undoing, Agree, Settings
  <2> QED
    BY <2>1, <2>2, <2>3 DEF WindowInv, WillOpen, Opening, Securing, Undoing, Shutting, Agree
<1>8. CASE SetEnabled \/ SetDisabled \/ ShutWindow \/ Scan
  <2>1. /\ b.up /\ b'.up /\ b.pc = "idle" /\ b'.mode = b.mode /\ b'.saved = b.saved
        /\ \/ b'.pc \in {"idle", "off", "scan", "still2"}
           \/ b'.pc \in {"again", "power"} /\ b'.then = "idle"
           \/ b'.pc = "shutD" /\ b.mode /\ b'.then \in {"off", "idle"}
        /\ UNCHANGED <<hci, owner, blurred>>
    <3> USE DEF Begin, Request, AtRest, At, history
    <3>1. CASE SetEnabled
      BY ZenonT(60), <3>1 DEF SetEnabled
    <3>2. CASE SetDisabled
      BY ZenonT(60), <3>2 DEF SetDisabled
    <3>3. CASE ShutWindow
      BY <3>3 DEF ShutWindow
    <3>4. CASE Scan
      BY <3>4 DEF Scan
    <3> QED
      BY <1>8, <3>1, <3>2, <3>3, <3>4
  <2> QED
    BY <2>1 DEF WindowInv, WillOpen, Opening, Securing, Undoing, Shutting, Agree
<1>9. ASSUME NEW p, NEW what, About(what, "unpair", p) \/ About(what, "hangup", p)
                                \/ About(what, "answer", p)
      PROVE  WindowInv'
  <2>1. /\ b.up /\ b'.up /\ b.pc = "idle" /\ b'.mode = b.mode /\ b'.saved = b.saved
        /\ b'.pc \in {"unpair", "hangup", "answer"} /\ UNCHANGED <<hci, owner, blurred>>
    BY ZenonT(60), <1>9 DEF About, Begin, Request, AtRest, At, history
  <2> QED
    BY <2>1 DEF WindowInv, WillOpen, Opening, Securing, Undoing, Shutting, Agree
<1>10. ASSUME NEW v \in BOOLEAN, SetConnectable(v) \/ SetDiscoverable(v)
       PROVE  WindowInv'
  <2>1. /\ b.up /\ b'.up /\ b.pc = "idle" /\ b'.mode = b.mode /\ b'.saved = b.saved
        /\ b'.pc \in {"setC", "setD"} /\ UNCHANGED <<hci, owner, blurred>>
    BY ZenonT(60), <1>10 DEF SetConnectable, SetDiscoverable, Begin, Request, AtRest, At, history
  <2> QED
    BY <2>1 DEF WindowInv, WillOpen, Opening, Securing, Undoing, Shutting, Agree
<1> QED
  BY <1>1, <1>2, <1>3, <1>5, <1>6, <1>7, <1>8, <1>9, <1>10 DEF BtNext

-----------------------------------------------------------------------------
BtInv == ControllerType /\ BondInv /\ WindowInv

\* btd's controller keeps its invariant, whatever dies, fails or is asked.
LEMMA BtInvariant == Spec => []BtInv
<1>1. Init => BtInv
  <2> SUFFICES ASSUME Init PROVE BtInv
    OBVIOUS
  <2>1. ControllerType
    BY DEF Init, BtInit, ControllerType, Daemon, Controller, Files, Booted, Working, Phone,
           Todos, Pcs, Resumes, Opening, Restoring, Settings
  <2>2. BondInv
    BY TodosDiffer DEF Init, BtInit, BondInv, Booted, Forgetting
  <2>3. WindowInv
    BY DEF Init, BtInit, WindowInv, WillOpen, Booted, Agree, Opening, Securing, Undoing, Shutting
  <2> QED
    BY <2>1, <2>2, <2>3 DEF BtInv
<1>2. BtInv /\ [Next]_vars => BtInv'
  <2> SUFFICES ASSUME BtInv, [Next]_vars PROVE BtInv'
    OBVIOUS
  <2>1. CASE UNCHANGED <<setup, btVars>>
    BY <2>1 DEF btVars, BtInv, ControllerType, Daemon, Controller, Files, Phone, Phones,
                BondInv, WindowInv, WillOpen, Agree
  <2>2. CASE BtNext /\ setup' = setup
    BY <2>2, BtNextType, BtNextBonds, BtNextWindow DEF BtInv
  <2> QED
    BY <2>1, <2>2 DEF Next, Controlling, Streaming, Sounding, Kept, vars
<1> QED
  BY <1>1, <1>2, PTL DEF Spec

\* Keys and devices agree on disk although btd may die between the saves of
\* save_pairing_bond or of an unpairing, and the keys of an unpaired phone are
\* nowhere once the owner has been told.
THEOREM BondsAlwaysAccounted == Spec => []BondsAccounted
<1>1. BtInv => BondsAccounted
  BY DEF BtInv, BondInv, BondsAccounted
<1> QED
  BY <1>1, BtInvariant, PTL

\* Outside the pairing window the controller shows what the owner chose:
\* opening half-way is undone, closing restores, in any order of the other
\* commands.
THEOREM WindowAlwaysRestored == Spec => []WindowRestored
<1>1. BtInv => WindowRestored
  BY DEF BtInv, WindowInv, WindowRestored, AtRest, At, Opening, Undoing, Agree,
         ControllerType, Controller
<1> QED
  BY <1>1, BtInvariant, PTL

(***************************************************************************)
(* The watchdog's restarts, of VoiceSupervision, which shares nothing with *)
(* Bluetooth.  The recent restarts split into those of the window the      *)
(* policy is in, which it counts, and those before it.  A window begins    *)
(* with a restart and is as long as recent reaches: when the next begins,  *)
(* the first restart of the last is past, and fewer than the limit remain. *)
(***************************************************************************)
(* The restarts of the window p is in, and those before it. *)
Counted(p, ages) == {a \in ages : a <= p.window}
Earlier(p, ages) == {a \in ages : a > p.window}

(* What the policy p knows of the restarts of these ages. *)
StormOK(p, ages) ==
  /\ p \in Alone!Policy /\ ages \subseteq 0 .. Lone.window
  /\ Cardinality(Counted(p, ages)) <= p.restarts
  /\ Cardinality(Earlier(p, ages)) < Lone.restarts
  /\ p.restarts > 0 /\ p.window <= Lone.window => p.window \in ages
  /\ p.restarts > 0 /\ p.window > Lone.window => Cardinality(ages) < p.restarts
  /\ p.healthy # None => \A a \in ages : p.healthy < a
StormInv ==
  /\ StormOK(policy, recent) /\ 0 \notin recent
  /\ streak \in Nat /\ (~policy.givenUp => streak = policy.failures)

LEMMA AgesFinite ==
  ASSUME NEW ages \in SUBSET (0 .. Lone.window)
  PROVE  IsFiniteSet(ages) /\ Cardinality(ages) \in Nat
<1>0. 0 \in Int /\ Lone.window \in Int
  BY LoneAssumption
<1>1. IsFiniteSet(0 .. Lone.window)
  BY <1>0, FS_Interval
<1>2. IsFiniteSet(ages)
  BY <1>1, FS_Subset
<1> QED
  BY <1>2, FS_CardinalityType

LEMMA AgesWithin ==
  ASSUME NEW big \in SUBSET (0 .. Lone.window), NEW small \in SUBSET big
  PROVE  Cardinality(small) <= Cardinality(big)
  BY AgesFinite, FS_Subset

(* As time passes, no age is added. *)
LEMMA OlderCount ==
  ASSUME NEW ages \in SUBSET (0 .. Lone.window), NEW dt \in Nat
  PROVE  Cardinality(Alone!Older(ages, dt)) <= Cardinality(ages)
<1> DEFINE older == Alone!Older(ages, dt)
           f == [a \in older |-> a - dt]
<1>1. Lone.window \in Nat
  BY LoneAssumption
<1>2. \A a \in older : a \in Int /\ a - dt \in ages
  BY <1>1 DEF Alone!Older
<1> HIDE DEF older
<1>3. f \in [older -> ages]
  BY <1>2
<1>4. \A a, z \in older : f[a] = f[z] => a = z
  BY <1>2
<1>5. f \in Injection(older, ages)
  BY <1>3, <1>4 DEF Injection, IsInjective
<1> HIDE DEF f
<1>6. Cardinality(older) <= Cardinality(ages)
  BY <1>5, AgesFinite, FS_Injection
<1> QED
  BY <1>6 DEF older

LEMMA StormElapses ==
  ASSUME NEW p, NEW ages, StormOK(p, ages), NEW dt \in Nat \ {0}
  PROVE  /\ StormOK(Alone!Elapse(p, dt), Alone!Older(ages, dt))
         /\ 0 \notin Alone!Older(ages, dt)
<1> DEFINE q == Alone!Elapse(p, dt)
           older == Alone!Older(ages, dt)
           W == Lone.window
<1>n. /\ W \in Nat \ {0} /\ Lone.restarts \in Nat \ {0}
      /\ Lone.reset \in Nat /\ W < Lone.reset
  BY LoneAssumption
<1>p. /\ p.restarts \in 0 .. Lone.restarts /\ p.window \in 0 .. W + 1
      /\ p.healthy \in {None} \cup (0 .. Lone.reset) /\ p.wait \in Nat
      /\ ages \in SUBSET (0 .. W) /\ p \in Alone!Policy
  BY <1>n DEF StormOK, Alone!Policy, Alone!None, None
<1>1. older = {a \in 0 .. W : a - dt \in ages}
  BY DEF Alone!Older
<1>2. /\ q.restarts = p.restarts
      /\ q.window = (IF p.window + dt > W + 1 THEN W + 1 ELSE p.window + dt)
      /\ q.healthy = (IF p.healthy = None THEN None
                      ELSE IF p.healthy + dt > Lone.reset THEN Lone.reset ELSE p.healthy + dt)
  BY <1>p DEF Alone!Elapse, Alone!Policy, Alone!AtMost, Alone!None, None
<1>3. q \in Alone!Policy
  <2> DEFINE left == IF p.wait > dt THEN p.wait - dt ELSE 0
             aged == q.window
             well == q.healthy
  <2>1. left \in Nat
    BY <1>p
  <2>2. aged \in 0 .. W + 1 /\ well \in {None} \cup (0 .. Lone.reset)
    BY <1>2, <1>p, <1>n DEF None
  <2>3. q = [p EXCEPT !.wait = left, !.window = aged, !.healthy = well]
    BY <1>p, <1>2 DEF Alone!Elapse, Alone!Policy, Alone!AtMost, Alone!None, None
  <2> HIDE DEF q, left, aged, well
  <2> QED
    <3> DEFINE q1 == [p EXCEPT !.wait = left]
               q2 == [q1 EXCEPT !.window = aged]
    <3>1. q1 \in Alone!Policy
      BY <2>1, <1>p DEF Alone!Policy
    <3>2. q = [q2 EXCEPT !.healthy = well]
      BY <2>3
    <3> HIDE DEF q1
    <3>3. q2 \in Alone!Policy
      BY <2>2, <3>1 DEF Alone!Policy
    <3> HIDE DEF q2
    <3>4. well \in {Alone!None} \cup (0 .. Lone.reset)
      BY <2>2 DEF Alone!None, None
    <3> QED
      BY <3>2, <3>3, <3>4 DEF Alone!Policy
<1>4. 0 \notin older /\ older \in SUBSET (0 .. W)
  BY <1>1, <1>p
<1> SUFFICES StormOK(q, older)
  BY <1>4
<1> HIDE DEF q, older
<1>5. q.healthy # None => \A a \in older : q.healthy < a
  BY <1>1, <1>2, <1>p, <1>n DEF StormOK, None
<1>6. CASE p.window + dt <= W
  <2>1. Counted(q, older) = Alone!Older(Counted(p, ages), dt)
    BY <1>1, <1>2, <1>6, <1>n, <1>p DEF Counted, Alone!Older
  <2>2. Earlier(q, older) = Alone!Older(Earlier(p, ages), dt)
    BY <1>1, <1>2, <1>6, <1>n, <1>p DEF Earlier, Alone!Older
  <2>3. Counted(p, ages) \in SUBSET (0 .. W) /\ Earlier(p, ages) \in SUBSET (0 .. W)
    BY <1>p DEF Counted, Earlier
  <2>4. /\ Cardinality(Counted(q, older)) <= Cardinality(Counted(p, ages))
        /\ Cardinality(Earlier(q, older)) <= Cardinality(Earlier(p, ages))
    BY <2>1, <2>2, <2>3, OlderCount
  <2>5. /\ Cardinality(Counted(q, older)) \in Nat /\ Cardinality(Counted(p, ages)) \in Nat
        /\ Cardinality(Earlier(q, older)) \in Nat /\ Cardinality(Earlier(p, ages)) \in Nat
    <3>1. Counted(q, older) \in SUBSET (0 .. W) /\ Earlier(q, older) \in SUBSET (0 .. W)
      BY <1>4 DEF Counted, Earlier
    <3> QED
      BY <2>3, <3>1, AgesFinite
  <2>6. p.restarts > 0 => q.window \in older
    <3>1. p.restarts > 0 => p.window \in ages
      BY <1>6, <1>p, <1>n DEF StormOK
    <3> QED
      BY <3>1, <1>1, <1>2, <1>6, <1>p, <1>n
  <2>7. q.window <= W
    BY <1>2, <1>6, <1>p, <1>n
  <2> QED
    BY <1>2, <1>3, <1>4, <1>5, <2>4, <2>5, <2>6, <2>7, <1>n, <1>p DEF StormOK
<1>7. CASE p.window + dt > W
  <2>1. q.window = W + 1
    BY <1>2, <1>7, <1>n, <1>p
  <2>2. Earlier(q, older) = {} /\ Counted(q, older) = older
    <3>1. \A a \in older : a <= q.window /\ ~(a > q.window)
      BY <2>1, <1>4, <1>n
    <3> QED
      BY <3>1 DEF Earlier, Counted
  <2>3. Cardinality(Earlier(q, older)) = 0
    BY <2>2, FS_EmptySet
  <2>4. older \subseteq Alone!Older(Counted(p, ages), dt)
    BY <1>1, <1>7, <1>n, <1>p DEF Counted, Alone!Older
  <2>5. Counted(p, ages) \in SUBSET (0 .. W)
    BY <1>p DEF Counted
  <2>6. Cardinality(older) <= Cardinality(Counted(p, ages))
    <3>1. Alone!Older(Counted(p, ages), dt) \in SUBSET (0 .. W)
      BY DEF Alone!Older
    <3>2. Cardinality(older) <= Cardinality(Alone!Older(Counted(p, ages), dt))
      BY <2>4, <3>1, AgesWithin
    <3>3. Cardinality(Alone!Older(Counted(p, ages), dt)) <= Cardinality(Counted(p, ages))
      BY <2>5, OlderCount
    <3> QED
      BY <3>1, <3>2, <3>3, <2>5, <1>4, AgesFinite
  <2>7. Cardinality(older) \in Nat /\ Cardinality(Counted(p, ages)) \in Nat
    BY <1>4, <2>5, AgesFinite
  <2>8. p.restarts > 0 => Cardinality(older) < p.restarts
    <3>1. ASSUME p.restarts > 0, p.window <= W PROVE Cardinality(older) < p.restarts
      <4> DEFINE rest == Counted(p, ages) \ {p.window}
      <4>1. p.window \in Counted(p, ages)
        BY <3>1, <1>p, <1>n DEF StormOK, Counted
      <4>2. Cardinality(rest) = Cardinality(Counted(p, ages)) - 1
        BY <4>1, <2>5, AgesFinite, FS_RemoveElement
      <4>3. rest \in SUBSET (0 .. W)
        BY <2>5
      <4>4. older \subseteq Alone!Older(rest, dt) /\ Alone!Older(rest, dt) \in SUBSET (0 .. W)
        BY <1>1, <1>7, <1>n, <1>p DEF Counted, Alone!Older
      <4> HIDE DEF rest
      <4>5. Cardinality(older) <= Cardinality(Alone!Older(rest, dt))
        BY <4>4, AgesWithin
      <4>6. Cardinality(Alone!Older(rest, dt)) <= Cardinality(rest)
        BY <4>3, OlderCount
      <4>7. Cardinality(Alone!Older(rest, dt)) \in Nat /\ Cardinality(rest) \in Nat
        BY <4>3, <4>4, AgesFinite
      <4>8. Cardinality(Counted(p, ages)) <= p.restarts
        BY DEF StormOK
      <4> QED
        BY <4>2, <4>5, <4>6, <4>7, <4>8, <2>7, <1>p, <1>n
    <3>2. ASSUME p.restarts > 0, p.window > W PROVE Cardinality(older) < p.restarts
      <4>1. Cardinality(ages) < p.restarts
        BY <3>2 DEF StormOK
      <4>2. Cardinality(older) <= Cardinality(ages)
        BY <1>p, OlderCount DEF older
      <4>3. Cardinality(ages) \in Nat
        BY <1>p, AgesFinite
      <4> QED
        BY <4>1, <4>2, <4>3, <2>7, <1>p, <1>n
    <3> QED
      BY <3>1, <3>2, <1>p, <1>n
  <2>9. Cardinality(older) <= p.restarts
    <3>1. Cardinality(Counted(p, ages)) <= p.restarts
      BY DEF StormOK
    <3> QED
      BY <3>1, <2>6, <2>7, <1>p, <1>n
  <2> QED
    BY <1>2, <1>3, <1>4, <1>5, <2>1, <2>2, <2>3, <2>8, <2>9, <1>n, <1>p DEF StormOK
<1> QED
  BY <1>6, <1>7, <1>p, <1>n

LEMMA LoneIs ==
  /\ Lone.window \in Nat \ {0} /\ Lone.restarts \in Nat \ {0} /\ Lone.reset \in Nat \ {0}
  /\ Lone.window < Lone.reset /\ FailuresBeforeRestart \in Nat \ {0}
  /\ BackoffStart \in BackoffStart .. Lone.backoffMax /\ BackoffStart \in Nat
  /\ Lone.backoffMax \in Nat
  BY LoneAssumption, PolicyAssumption

LEMMA PolicyIs ==
  ASSUME NEW p \in Alone!Policy
  PROVE  /\ p.failures \in 0 .. FailuresBeforeRestart /\ p.restarts \in 0 .. Lone.restarts
         /\ p.window \in 0 .. Lone.window + 1 /\ p.givenUp \in BOOLEAN /\ p.wait \in Nat
         /\ p.healthy \in {None} \cup (0 .. Lone.reset)
         /\ p.backoff \in BackoffStart .. Lone.backoffMax
  BY DEF Alone!Policy, Alone!None, None

(* What the ages depend on. *)
LEMMA SameStorm ==
  ASSUME NEW p, NEW ages, StormOK(p, ages), NEW q \in Alone!Policy,
         q.window = p.window, q.restarts = p.restarts,
         q.healthy # None => \A a \in ages : q.healthy < a
  PROVE  StormOK(q, ages)
  BY DEF StormOK, Counted, Earlier

(* A window begins: all that is recent belongs to those before it. *)
LEMMA WindowOpens ==
  ASSUME NEW q \in Alone!Policy, NEW ages \in SUBSET (0 .. Lone.window), 0 \notin ages,
         q.window = 0, q.restarts = 0, Cardinality(ages) < Lone.restarts,
         q.healthy # None => \A a \in ages : q.healthy < a
  PROVE  StormOK(q, ages)
<1>1. \A a \in ages : a > 0 /\ ~(a <= 0)
  BY LoneIs
<1>2. Counted(q, ages) = {} /\ Earlier(q, ages) = ages
  BY <1>1 DEF Counted, Earlier
<1> QED
  BY <1>2, FS_EmptySet, LoneIs DEF StormOK

LEMMA AnsweredKeeps ==
  ASSUME NEW p, NEW ages, StormOK(p, ages), 0 \notin ages
  PROVE  LET q == Alone!Answered(p)
         IN StormOK(q, ages) /\ q.failures = 0 /\ q.givenUp = p.givenUp
<1> DEFINE q == Alone!Answered(p)
           well == IF p.healthy = None THEN 0 ELSE p.healthy
           m == [p EXCEPT !.failures = 0, !.healthy = well]
<1>p. p \in Alone!Policy /\ ages \in SUBSET (0 .. Lone.window)
  BY DEF StormOK
<1>w. well \in 0 .. Lone.reset /\ \A a \in ages : well < a
  BY <1>p, PolicyIs, LoneIs DEF StormOK
<1>m. /\ m \in Alone!Policy /\ m.failures = 0 /\ m.healthy = well /\ m.window = p.window
      /\ m.restarts = p.restarts /\ m.givenUp = p.givenUp
  <2> HIDE DEF well
  <2>1. 0 \in 0 .. FailuresBeforeRestart
    BY LoneIs
  <2> QED
    BY <1>p, <1>w, <2>1 DEF Alone!Policy
<1>q. q = IF m.healthy < Lone.reset THEN m
          ELSE [m EXCEPT !.restarts = 0, !.backoff = BackoffStart, !.window = 0]
  BY DEF Alone!Answered, Alone!None, None
<1> HIDE DEF q, m, well
<1>1. CASE m.healthy < Lone.reset
  <2>1. StormOK(m, ages)
    BY <1>w, <1>m, SameStorm
  <2> QED
    BY <1>1, <1>q, <1>m, <2>1 DEF q
<1>2. CASE ~(m.healthy < Lone.reset)
  <2>1. ages = {}
    BY <1>2, <1>m, <1>w, <1>p, LoneIs
  <2>2. /\ q \in Alone!Policy /\ q.failures = 0 /\ q.window = 0 /\ q.restarts = 0
        /\ q.givenUp = p.givenUp
    <3>1. 0 \in 0 .. Lone.restarts /\ 0 \in 0 .. Lone.window + 1
      BY LoneIs
    <3> QED
      BY <1>2, <1>q, <1>m, <3>1, LoneIs DEF Alone!Policy
  <2>3. StormOK(q, ages)
    BY <1>p, <2>1, <2>2, WindowOpens, FS_EmptySet, LoneIs
  <2> QED
    BY <2>2, <2>3 DEF q
<1> QED
  BY <1>1, <1>2

LEMMA UnansweredKeeps ==
  ASSUME NEW p, NEW ages, StormOK(p, ages), 0 \notin ages
  PROVE  LET q == Alone!Unanswered(p)
             f == p.failures + 1
         IN /\ StormOK(q, ages) /\ q.givenUp = p.givenUp
            /\ q.failures = IF f > FailuresBeforeRestart THEN FailuresBeforeRestart ELSE f
            /\ ~(q.failures < FailuresBeforeRestart) => q.window <= Lone.window
<1> DEFINE q == Alone!Unanswered(p)
           f == IF p.failures + 1 > FailuresBeforeRestart THEN FailuresBeforeRestart
                ELSE p.failures + 1
           m == [p EXCEPT !.healthy = None, !.failures = f]
<1>p. p \in Alone!Policy /\ ages \in SUBSET (0 .. Lone.window)
  BY DEF StormOK
<1>f. f \in 0 .. FailuresBeforeRestart
  BY <1>p, PolicyIs, LoneIs
<1>m. /\ m \in Alone!Policy /\ m.failures = f /\ m.healthy = None /\ m.window = p.window
      /\ m.restarts = p.restarts /\ m.givenUp = p.givenUp
  <2> HIDE DEF f
  <2> QED
    BY <1>p, <1>f DEF Alone!Policy, Alone!None, None
<1>q. q = IF m.failures < FailuresBeforeRestart \/ m.window <= Lone.window THEN m
          ELSE [m EXCEPT !.window = 0, !.restarts = 0]
  BY DEF Alone!Unanswered, Alone!AtMost, Alone!None, None
<1> HIDE DEF q, m
<1>1. CASE m.failures < FailuresBeforeRestart \/ m.window <= Lone.window
  <2>1. StormOK(m, ages)
    BY <1>m, SameStorm
  <2> QED
    BY <1>1, <1>q, <1>m, <2>1 DEF q
<1>2. CASE ~(m.failures < FailuresBeforeRestart \/ m.window <= Lone.window)
  <2>1. p.window > Lone.window
    BY <1>2, <1>m, <1>p, PolicyIs, LoneIs
  <2>2. Cardinality(ages) < Lone.restarts
    <3>1. CASE p.restarts > 0
      <4>1. Cardinality(ages) < p.restarts
        BY <2>1, <3>1 DEF StormOK
      <4>2. Cardinality(ages) \in Nat
        BY <1>p, AgesFinite
      <4>3. p.restarts \in 0 .. Lone.restarts
        BY <1>p, PolicyIs
      <4> QED
        BY <4>1, <4>2, <4>3, LoneIs
    <3>2. CASE ~(p.restarts > 0)
      <4>0. \A a \in ages : a <= p.window
        BY <2>1, <1>p, PolicyIs, LoneIs
      <4>1. Counted(p, ages) = ages
        BY <4>0 DEF Counted
      <4>2. Cardinality(ages) <= p.restarts
        BY <4>1 DEF StormOK
      <4>3. Cardinality(ages) \in Nat
        BY <1>p, AgesFinite
      <4>4. p.restarts \in 0 .. Lone.restarts
        BY <1>p, PolicyIs
      <4> QED
        BY <3>2, <4>2, <4>3, <4>4, LoneIs
    <3> QED
      BY <3>1, <3>2
  <2>3. /\ q \in Alone!Policy /\ q.failures = f /\ q.window = 0 /\ q.restarts = 0
        /\ q.givenUp = p.givenUp /\ q.healthy = None
    <3>1. 0 \in 0 .. Lone.restarts /\ 0 \in 0 .. Lone.window + 1
      BY LoneIs
    <3> HIDE DEF f
    <3> QED
      BY <1>2, <1>q, <1>m, <3>1 DEF Alone!Policy
  <2>4. StormOK(q, ages)
    BY <1>p, <2>2, <2>3, WindowOpens
  <2> QED
    BY <2>3, <2>4, LoneIs DEF q
<1> QED
  BY <1>1, <1>2

LEMMA RestartedKeeps ==
  ASSUME NEW p, NEW ages, StormOK(p, ages), 0 \notin ages,
         p.restarts < Lone.restarts, p.window <= Lone.window
  PROVE  LET q == Alone!Restarted(p)
         IN StormOK(q, ages \cup {0}) /\ q.failures = 0 /\ q.givenUp = p.givenUp
<1> DEFINE q == Alone!Restarted(p)
           from == IF p.restarts = 0 THEN 0 ELSE p.window
           next == IF 2 * p.backoff > Lone.backoffMax THEN Lone.backoffMax ELSE 2 * p.backoff
           more == ages \cup {0}
<1>p. p \in Alone!Policy /\ ages \in SUBSET (0 .. Lone.window)
  BY DEF StormOK
<1>1. /\ from \in 0 .. Lone.window + 1 /\ from <= Lone.window
      /\ next \in BackoffStart .. Lone.backoffMax
      /\ p.restarts + 1 \in 0 .. Lone.restarts /\ p.backoff \in Nat
      /\ 0 \in 0 .. FailuresBeforeRestart
  BY <1>p, PolicyIs, LoneIs
<1>2. q = [p EXCEPT !.window = from, !.restarts = p.restarts + 1, !.failures = 0,
                    !.healthy = None, !.wait = p.backoff, !.backoff = next]
  BY <1>p DEF Alone!Restarted, Alone!AtMost, Alone!None, None, Alone!Policy
<1>3. /\ q \in Alone!Policy /\ q.window = from /\ q.restarts = p.restarts + 1 /\ q.failures = 0
      /\ q.healthy = None /\ q.givenUp = p.givenUp
  <2> HIDE DEF q, from, next
  <2> DEFINE m == [p EXCEPT !.window = from, !.restarts = p.restarts + 1]
             n == [m EXCEPT !.failures = 0, !.healthy = None]
  <2>1. /\ m \in Alone!Policy /\ m.window = from
        /\ m.restarts = p.restarts + 1 /\ m.givenUp = p.givenUp
    BY <1>p, <1>1 DEF Alone!Policy
  <2>2. q = [n EXCEPT !.wait = p.backoff, !.backoff = next]
    BY <1>2
  <2> HIDE DEF m
  <2>3. /\ n \in Alone!Policy /\ n.window = from
        /\ n.restarts = p.restarts + 1 /\ n.givenUp = p.givenUp
        /\ n.failures = 0 /\ n.healthy = None
    BY <1>1, <2>1 DEF Alone!Policy, Alone!None, None
  <2> HIDE DEF n
  <2> QED
    BY <1>1, <2>2, <2>3 DEF Alone!Policy
<1>4. more \in SUBSET (0 .. Lone.window)
  BY <1>p, LoneIs
<1>a. 0 \in more /\ \A a : a \in more <=> a \in ages \/ a = 0
  OBVIOUS
<1>w. q.window = IF p.restarts = 0 THEN 0 ELSE p.window
  BY <1>3
<1>n. p.restarts \in 0 .. Lone.restarts /\ p.window \in Nat /\ q.restarts = p.restarts + 1
  BY <1>3, <1>p, PolicyIs, LoneIs
<1> HIDE DEF q, next, more
<1>5. CASE p.restarts = 0
  <2>1. Cardinality(Counted(p, ages)) = 0
    <3>1. Counted(p, ages) \in SUBSET (0 .. Lone.window)
      BY <1>p DEF Counted
    <3>2. Cardinality(Counted(p, ages)) \in Nat
      BY <3>1, AgesFinite
    <3>3. Cardinality(Counted(p, ages)) <= p.restarts
      BY DEF StormOK
    <3> QED
      BY <1>5, <3>2, <3>3
  <2>2. Counted(p, ages) = {}
    <3>1. IsFiniteSet(Counted(p, ages))
      BY <1>p, AgesFinite DEF Counted
    <3> QED
      BY <2>1, <3>1, FS_EmptySet
  <2>3. ages = Earlier(p, ages)
    <3>1. \A a \in ages : ~(a <= p.window)
      BY <2>2 DEF Counted
    <3>2. \A a \in ages : a > p.window
      BY <3>1, <1>p, PolicyIs, LoneIs
    <3> QED
      BY <3>2 DEF Earlier
  <2>4. Counted(q, more) = {0} /\ Earlier(q, more) = ages
    <3>1. \A a \in ages : a > 0 /\ ~(a <= 0)
      BY <1>p, LoneIs
    <3> QED
      BY <1>w, <1>a, <1>5, <3>1 DEF Counted, Earlier
  <2>5. Cardinality({0}) = 1
    BY FS_Singleton
  <2>6. Cardinality(Counted(q, more)) <= q.restarts
    BY <1>n, <1>5, <2>4, <2>5
  <2>7. Cardinality(Earlier(q, more)) < Lone.restarts
    <3>1. Cardinality(Earlier(p, ages)) < Lone.restarts
      BY DEF StormOK
    <3> QED
      BY <2>3, <2>4, <3>1
  <2>8. q.window \in more /\ q.window <= Lone.window
    BY <1>w, <1>a, <1>5, LoneIs
  <2>9. StormOK(q, more)
    <3>1. ~(q.window > Lone.window)
      BY <1>w, <1>5, LoneIs
    <3> QED
      BY <1>3, <1>4, <2>6, <2>7, <2>8, <3>1 DEF StormOK
  <2> QED
    BY <1>3, <2>9 DEF q, more
<1>6. CASE p.restarts > 0
  <2>1. Counted(q, more) = Counted(p, ages) \cup {0}
    BY <1>w, <1>a, <1>n, <1>6 DEF Counted
  <2>2. Earlier(q, more) = Earlier(p, ages)
    <3>1. ~(0 > p.window) /\ q.window = p.window
      BY <1>w, <1>n, <1>6
    <3> QED
      BY <1>a, <3>1 DEF Earlier
  <2>3. Cardinality(Counted(q, more)) <= q.restarts
    <3>1. Counted(p, ages) \in SUBSET (0 .. Lone.window)
      BY <1>p DEF Counted
    <3>2. IsFiniteSet(Counted(p, ages)) /\ Cardinality(Counted(p, ages)) \in Nat
      BY <3>1, AgesFinite
    <3>3. Cardinality(Counted(p, ages) \cup {0})
            = IF 0 \in Counted(p, ages) THEN Cardinality(Counted(p, ages))
              ELSE Cardinality(Counted(p, ages)) + 1
      BY <3>2, FS_AddElement
    <3>4. Cardinality(Counted(p, ages)) <= p.restarts
      BY DEF StormOK
    <3>5. p.restarts \in 0 .. Lone.restarts
      BY <1>p, PolicyIs
    <3>6. q.restarts = p.restarts + 1
      BY <1>3
    <3> DEFINE had == Cardinality(Counted(p, ages))
               has == Cardinality(Counted(q, more))
    <3>7. had \in Nat /\ (has = had \/ has = had + 1) /\ had <= p.restarts
      BY <2>1, <3>2, <3>3, <3>4
    <3> HIDE DEF had, has
    <3>8. has <= q.restarts
      BY <3>5, <3>6, <3>7, LoneIs
    <3> QED
      BY <3>8 DEF has
  <2>4. p.window \in ages
    BY <1>6 DEF StormOK
  <2>5. Cardinality(Earlier(q, more)) < Lone.restarts
    <3>1. Cardinality(Earlier(p, ages)) < Lone.restarts
      BY DEF StormOK
    <3> QED
      BY <2>2, <3>1
  <2>6. q.window \in more /\ q.window <= Lone.window
    BY <1>w, <1>a, <1>n, <1>6, <2>4
  <2>7. StormOK(q, more)
    <3>1. ~(q.window > Lone.window)
      BY <1>w, <1>n, <1>6, LoneIs
    <3> QED
      BY <1>3, <1>4, <2>3, <2>5, <2>6, <3>1 DEF StormOK
  <2> QED
    BY <1>3, <2>7 DEF q, more
<1> QED
  BY <1>5, <1>6, <1>p, PolicyIs

(* What a pass decides, and what it leaves of the policy. *)
LEMMA StepKeeps ==
  ASSUME NEW p, NEW ages, StormOK(p, ages), 0 \notin ages, NEW answers \in BOOLEAN
  PROVE  LET v == Alone!Step(p, answers)
             q == v.policy
             f == p.failures + 1
         IN /\ StormOK(q, ages) /\ v.action \in {"none", "restart", "give_up"}
            /\ ~q.givenUp /\ answers => q.failures = 0
            /\ ~q.givenUp /\ ~answers =>
                 q.failures = IF f > FailuresBeforeRestart THEN FailuresBeforeRestart ELSE f
            /\ q.givenUp \/ ~p.givenUp
            /\ v.action = "restart" =>
                 /\ ~p.givenUp /\ f >= FailuresBeforeRestart
                 /\ q.restarts < Lone.restarts /\ q.window <= Lone.window
<1> DEFINE v == Alone!Step(p, answers)
           u == Alone!Unanswered(p)
           w == Alone!Answered(p)
           f == p.failures + 1
<1>p. p \in Alone!Policy
  BY DEF StormOK
<1>g. p.givenUp \in BOOLEAN /\ f \in Nat /\ FailuresBeforeRestart \in Nat
  BY <1>p, PolicyIs, LoneIs
<1>w. StormOK(w, ages) /\ w.failures = 0 /\ w.givenUp = p.givenUp
  BY AnsweredKeeps
<1>u. /\ StormOK(u, ages) /\ u.givenUp = p.givenUp
      /\ u.failures = IF f > FailuresBeforeRestart THEN FailuresBeforeRestart ELSE f
      /\ ~(u.failures < FailuresBeforeRestart) => u.window <= Lone.window
  BY UnansweredKeeps
<1>1. CASE p.givenUp
  <2>1. v = [policy |-> p, action |-> "give_up"]
    BY <1>1 DEF Alone!Step, Alone!Verdict
  <2> HIDE DEF v
  <2> QED
    BY <1>1, <2>1 DEF v
<1>2. CASE ~p.givenUp /\ answers
  <2>1. v = [policy |-> w, action |-> "none"]
    BY <1>2 DEF Alone!Step, Alone!Verdict
  <2>2. v.policy = w /\ v.action = "none"
    BY <2>1
  <2>3. "none" # "restart"
    OBVIOUS
  <2> HIDE DEF v, w
  <2> QED
    BY <1>2, <1>w, <2>2, <2>3 DEF v
<1>3. CASE ~p.givenUp /\ ~answers
  <2> DEFINE lost == [u EXCEPT !.givenUp = TRUE]
  <2>1. v = IF u.failures < FailuresBeforeRestart THEN [policy |-> u, action |-> "none"]
            ELSE IF u.restarts >= Lone.restarts THEN [policy |-> lost, action |-> "give_up"]
            ELSE [policy |-> u, action |-> IF u.wait > 0 THEN "none" ELSE "restart"]
    BY <1>3 DEF Alone!Step, Alone!Verdict
  <2>2. u \in Alone!Policy
    BY <1>u DEF StormOK
  <2>3. u.restarts \in 0 .. Lone.restarts
    BY <2>2, PolicyIs
  <2>4. StormOK(lost, ages) /\ lost.givenUp
    <3> HIDE DEF u
    <3>1. /\ lost \in Alone!Policy /\ lost.window = u.window /\ lost.restarts = u.restarts
          /\ lost.healthy = u.healthy /\ lost.givenUp
      BY <2>2 DEF Alone!Policy
    <3>2. u.healthy # None => \A a \in ages : u.healthy < a
      BY <1>u DEF StormOK
    <3> HIDE DEF lost
    <3> QED
      BY <1>u, <3>1, <3>2, SameStorm
  <2> HIDE DEF v, u, lost
  <2>5. CASE u.failures < FailuresBeforeRestart
    BY <1>3, <1>u, <1>g, <2>1, <2>5 DEF v
  <2>6. CASE ~(u.failures < FailuresBeforeRestart) /\ u.restarts >= Lone.restarts
    BY <1>3, <2>1, <2>4, <2>6 DEF v
  <2>7. CASE ~(u.failures < FailuresBeforeRestart) /\ ~(u.restarts >= Lone.restarts)
    <3>1. v.policy = u /\ v.action \in {"none", "restart"}
      BY <2>1, <2>7
    <3>2. f >= FailuresBeforeRestart
      BY <1>u, <1>g, <2>7
    <3>3. u.restarts < Lone.restarts
      BY <2>3, <2>7, LoneIs
    <3> QED
      BY <1>3, <1>u, <2>7, <3>1, <3>2, <3>3 DEF v
  <2> QED
    BY <2>5, <2>6, <2>7
<1> QED
  BY <1>1, <1>2, <1>3, <1>g

(* A pass keeps what the policy knows, and restarts only what earned it. *)
LEMMA PassKeeps ==
  ASSUME StormInv, NEW answers \in BOOLEAN, NEW init \in Lone.scripts,
         Alone!Pass(answers, init)
  PROVE  StormInv' /\ Alone!RestartEarned
<1> DEFINE v == Alone!Step(policy, answers)
           restarts == v.action = "restart"
           dt == 1 + IF restarts THEN init ELSE 0
           q == IF restarts THEN Alone!Restarted(v.policy) ELSE v.policy
           ages == recent \cup (IF restarts THEN {0} ELSE {})
           f == policy.failures + 1
<1>p. /\ policy' = Alone!Elapse(q, dt) /\ recent' = Alone!Older(ages, dt)
      /\ acted' = v.action
      /\ streak' = IF answers \/ restarts THEN 0
                   ELSE IF streak + 1 > FailuresBeforeRestart THEN FailuresBeforeRestart
                        ELSE streak + 1
  BY DEF Alone!Pass, Alone!AtMost
<1>d. dt \in Nat \ {0}
  BY LoneAssumption
<1>s. /\ StormOK(policy, recent) /\ 0 \notin recent /\ streak \in Nat
      /\ ~policy.givenUp => streak = policy.failures
  BY DEF StormInv
<1>f. policy.failures \in Nat /\ FailuresBeforeRestart \in Nat
  BY <1>s, PolicyIs, LoneIs DEF StormOK
<1>v. /\ StormOK(v.policy, recent)
      /\ ~v.policy.givenUp /\ answers => v.policy.failures = 0
      /\ ~v.policy.givenUp /\ ~answers =>
           v.policy.failures = IF f > FailuresBeforeRestart THEN FailuresBeforeRestart ELSE f
      /\ v.policy.givenUp \/ ~policy.givenUp
      /\ restarts =>
           /\ ~policy.givenUp /\ f >= FailuresBeforeRestart
           /\ v.policy.restarts < Lone.restarts /\ v.policy.window <= Lone.window
  BY <1>s, StepKeeps
<1> HIDE DEF v
<1>q. /\ StormOK(q, ages) /\ q.givenUp = v.policy.givenUp
      /\ q.failures = IF restarts THEN 0 ELSE v.policy.failures
  <2>1. CASE restarts
    BY <2>1, <1>s, <1>v, RestartedKeeps
  <2>2. CASE ~restarts
    BY <2>2, <1>v
  <2> QED
    BY <2>1, <2>2
<1> HIDE DEF q, ages, dt
<1>1. StormOK(policy', recent') /\ 0 \notin recent'
  BY <1>p, <1>d, <1>q, StormElapses
<1>2. policy'.givenUp = q.givenUp /\ policy'.failures = q.failures
  BY <1>p, <1>q DEF Alone!Elapse, StormOK, Alone!Policy
<1>3. streak' \in Nat
  BY <1>p, <1>s, <1>f
<1>4. ~policy'.givenUp => streak' = policy'.failures
  <2> SUFFICES ASSUME ~policy'.givenUp PROVE streak' = policy'.failures
    OBVIOUS
  <2>1. ~v.policy.givenUp /\ streak = policy.failures
    BY <1>2, <1>q, <1>v, <1>s
  <2> QED
    BY <2>1, <1>2, <1>q, <1>v, <1>p
<1>5. Alone!RestartEarned
  BY <1>p, <1>s, <1>v, <1>f DEF Alone!RestartEarned
<1> QED
  BY <1>1, <1>3, <1>4, <1>5 DEF StormInv

LEMMA AlwaysBounded ==
  ASSUME StormInv PROVE Alone!StormBounded
<1>1. recent \in SUBSET (0 .. Lone.window) /\ policy \in Alone!Policy
  BY DEF StormInv, StormOK
<1> DEFINE now == Counted(policy, recent)
           then == Earlier(policy, recent)
<1>2. now \in SUBSET (0 .. Lone.window) /\ then \in SUBSET (0 .. Lone.window)
  BY <1>1 DEF Counted, Earlier
<1>3. recent = now \cup then /\ now \cap then = {}
  <2>1. \A a \in recent : a <= policy.window <=> ~(a > policy.window)
    BY <1>1, PolicyIs, LoneIs
  <2>2. \A a : /\ a \in now <=> a \in recent /\ a <= policy.window
               /\ a \in then <=> a \in recent /\ a > policy.window
    BY DEF Counted, Earlier
  <2> HIDE DEF now, then
  <2> QED
    BY <2>1, <2>2
<1>4. Cardinality(now) <= policy.restarts /\ Cardinality(then) < Lone.restarts
  BY DEF StormInv, StormOK
<1> HIDE DEF now, then
<1>5. /\ IsFiniteSet(now) /\ IsFiniteSet(then)
      /\ Cardinality(now) \in Nat /\ Cardinality(then) \in Nat
  BY <1>2, AgesFinite
<1>6. Cardinality(recent) = Cardinality(now) + Cardinality(then)
  <2>1. Cardinality(now \cap then) = 0
    BY <1>3, FS_EmptySet
  <2>2. Cardinality(now \cup then)
          = Cardinality(now) + Cardinality(then) - Cardinality(now \cap then)
    BY <1>5, FS_Union
  <2> QED
    BY <1>3, <1>5, <2>1, <2>2
<1>7. policy.restarts \in 0 .. Lone.restarts
  BY <1>1, PolicyIs
<1>8. Alone!Cardinality(recent) = Cardinality(recent)
  BY DEF Alone!Cardinality, Cardinality
<1> QED
  BY <1>4, <1>5, <1>6, <1>7, <1>8, LoneIs DEF Alone!StormBounded

LEMMA RestartsInit == SupervisionInit => StormInv
<1> SUFFICES ASSUME SupervisionInit PROVE StormInv
  OBVIOUS
<1>1. policy = Alone!FreshPolicy /\ recent = {} /\ streak = 0
  BY DEF SupervisionInit, Alone!Init
<1>2. /\ 0 \in 0 .. FailuresBeforeRestart /\ 0 \in 0 .. Lone.restarts
      /\ 0 \in 0 .. Lone.window + 1 /\ 0 \in 0 .. Lone.reset
  BY LoneIs
<1>3. /\ Alone!FreshPolicy \in Alone!Policy /\ Alone!FreshPolicy.failures = 0
      /\ Alone!FreshPolicy.window = 0 /\ Alone!FreshPolicy.restarts = 0
  BY <1>2, LoneIs DEF Alone!FreshPolicy, Alone!Policy
<1>4. StormOK(policy, recent)
  BY <1>1, <1>3, WindowOpens, FS_EmptySet, LoneIs
<1> QED
  BY <1>1, <1>3, <1>4 DEF StormInv

LEMMA RestartsStep ==
  StormInv /\ [SupervisionNext]_supervisionVars =>
      StormInv' /\ [Alone!StormBounded' /\ Alone!RestartEarned]_supervisionVars
<1> SUFFICES ASSUME StormInv, [SupervisionNext]_supervisionVars
             PROVE  /\ StormInv'
                    /\ [Alone!StormBounded' /\ Alone!RestartEarned]_supervisionVars
  OBVIOUS
<1>1. CASE UNCHANGED supervisionVars
  BY <1>1 DEF supervisionVars, lone, StormInv
<1>2. CASE SupervisionNext
  <2>1. StormInv' /\ Alone!RestartEarned
    <3>1. CASE UNCHANGED <<policy, streak, recent>>
      BY <3>1 DEF Alone!RestartEarned, StormInv
    <3>2. CASE Alone!Next
      <4>1. CASE Alone!Breaks
        BY <4>1, <3>1 DEF Alone!Breaks
      <4>2. CASE Alone!Loop
        BY <4>2, PassKeeps DEF Alone!Loop
      <4> QED
        BY <3>2, <4>1, <4>2 DEF Alone!Next
    <3> QED
      BY <1>2, <3>1, <3>2 DEF SupervisionNext, DeviceNext, LoneNext, lone
  <2>2. Alone!StormBounded'
    BY <2>1, AlwaysBounded, PTL
  <2> QED
    BY <2>1, <2>2
<1> QED
  BY <1>1, <1>2

(* The watchdog restarts a service only on fresh failures, and any stretch   *)
(* as long as the storm window sees fewer than two windows' restarts         *)
(* (le_watchdog_step, le_watchdog_restarted).                                *)
THEOREM RestartsAlwaysBounded == SupervisionSpec => RestartsBounded
<1>1. SupervisionInit => StormInv
  BY RestartsInit
<1>2. StormInv /\ [SupervisionNext]_supervisionVars =>
        StormInv' /\ [Alone!StormBounded' /\ Alone!RestartEarned]_supervisionVars
  BY RestartsStep
<1> QED
  BY <1>1, <1>2, PTL DEF SupervisionSpec, RestartsBounded
=============================================================================
