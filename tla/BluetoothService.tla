-------------------------- MODULE BluetoothService --------------------------
(* btd whole: the controller with its bonds, and the profiles of a phone.   *)
EXTENDS BtController, Integers, FiniteSets

(***************************************************************************)
(* The profiles btd serves to a phone: the service records it searches,     *)
(* the AVDTP stream with its signalling and media channels, and AVRCP's     *)
(* absolute volume, which is the speaker's master level on another scale.   *)
(* One pass of the loop handles one channel here.                           *)
(***************************************************************************)
CONSTANTS Listeners      \* the phones that may connect
VARIABLES
  s,          \* struct le_avdtp_session
  active,     \* stream_active
  known,      \* phones that have found the audio sink
  ctl,        \* struct le_avrcp_session
  level,      \* volume_percent, what the profile last knew of the master
  master,     \* the level audiod publishes, -1 when there is none yet
  queued,     \* a level audiod was asked for and has not yet set, or -1
  shown,      \* the phones' own sliders
  moves       \* how often the level may still move
streamVars == <<s, active, known>>
volumeVars == <<ctl, level, master, queued, shown, moves>>

Nobody == "nobody"
Slots == {1, 2}

Free == [fd |-> Nobody, media |-> Nobody, conf |-> FALSE, open |-> FALSE,
         play |-> FALSE, jam |-> FALSE]
Hung == [fd |-> Nobody, reg |-> FALSE]
ProfileInit(budget) ==
  /\ s = [i \in Slots |-> Free] /\ active = FALSE /\ known = {}
  /\ ctl = [i \in Slots |-> Hung]
  /\ level = -1 /\ master = -1 /\ queued = -1
  /\ shown = [p \in Listeners |-> 0]
  /\ moves = budget

----------------------------------------------------------------------------
(* The records and the identifiers by which each is found.  Every          *)
(* identifier of a search must be in the record; 1002 asks for public ones.*)
Records == {"server", "browse", "sink", "control", "identity"}
Uuids == [server |-> {"1000"}, browse |-> {"1002"},
          sink |-> {"110b", "0100", "0019"},
          control |-> {"110e", "110c", "0100", "0017"}, identity |-> {"1200"}]
HasUuid(r, u) ==
  CASE u = "ffff" -> TRUE
    [] u = "1002" -> r # "server"
    [] OTHER      -> u \in Uuids[r]
ServiceSearch(pattern) ==
  IF pattern = {} THEN {} ELSE {r \in Records : \A u \in pattern : HasUuid(r, u)}
Searches(p, pattern) ==
  /\ p \notin known
  /\ known' = IF "sink" \in ServiceSearch(pattern) THEN known \union {p} ELSE known
  /\ UNCHANGED <<s, active>>

----------------------------------------------------------------------------
(* AVDTP.  The same port takes signalling and media connections: an open   *)
(* stream that waits for media takes the next connection, whoever makes it.*)
Now(t) == s' = t /\ active' = (\E i \in Slots : t[i].play) /\ UNCHANGED known
First(slots) == CHOOSE i \in slots : \A j \in slots : i <= j
Waiting == {i \in Slots : s[i].fd # Nobody /\ s[i].open /\ s[i].media = Nobody}
Unused == {i \in Slots : s[i].fd = Nobody}
Accepts(p) ==
  /\ p \in known
  /\ Cardinality({i \in Slots : s[i].fd = p}) + Cardinality({i \in Slots : s[i].media = p}) < 2
  /\ Now(IF Waiting # {}
         THEN [s EXCEPT ![First(Waiting)].media = p]
         ELSE IF Unused # {}
              THEN [s EXCEPT ![First(Unused)] = [Free EXCEPT !.fd = p]]
              ELSE s)

Configured(x) == IF x.conf \/ x.open \/ x.play THEN x ELSE [x EXCEPT !.conf = TRUE]
Opened(x) == IF x.conf THEN [x EXCEPT !.open = TRUE, !.play = FALSE] ELSE x
Started(x) == IF x.open \/ x.play THEN [x EXCEPT !.play = TRUE, !.jam = FALSE] ELSE x
Suspended(x) == [x EXCEPT !.play = FALSE]
Closed(x) == [x EXCEPT !.play = FALSE, !.open = FALSE, !.media = Nobody]
Aborted(x) == [Free EXCEPT !.fd = x.fd]
(* The commands with no effect on the session: discover, capabilities,     *)
(* delay report, refused reconfigurations and unknown signals.             *)
Dispatch(x, signal) ==
  CASE signal = "configure" -> Configured(x)
    [] signal = "open"      -> Opened(x)
    [] signal = "start"     -> Started(x)
    [] signal = "suspend"   -> Suspended(x)
    [] signal = "close"     -> Closed(x)
    [] signal = "abort"     -> Aborted(x)
    [] OTHER                -> x
Signals(i, signal) == s[i].fd # Nobody /\ Now([s EXCEPT ![i] = Dispatch(@, signal)])

(* The signalling channel ends. *)
BugHungUp(x) == [x EXCEPT !.fd = Nobody, !.media = Nobody]
HungUp(x) == [x EXCEPT !.fd = Nobody, !.media = Nobody, !.play = FALSE]
HangsUp(i) == s[i].fd # Nobody /\ Now([s EXCEPT ![i] = HungUp(@)])
MediaEnds(i) ==
  /\ s[i].media # Nobody
  /\ Now([s EXCEPT ![i].media = Nobody, ![i].play = FALSE])
(* A media packet is decoded onto the media bus, or left in the buffer     *)
(* when its first frame cannot be parsed, where it stays until the next    *)
(* START empties the buffer.                                               *)
Decodes(i) ==
  /\ s[i].media # Nobody /\ s[i].play
  /\ Now([s EXCEPT ![i].jam = TRUE])

StreamStep ==
  \/ \E p \in Listeners : \/ \E u \in {"110b", "1200"} : Searches(p, {u})
                          \/ Accepts(p)
  \/ \E i \in Slots : \/ HangsUp(i) \/ MediaEnds(i) \/ Decodes(i)
                      \/ \E g \in {"configure", "open", "start", "suspend",
                                   "close", "abort", "discover"} : Signals(i, g)

----------------------------------------------------------------------------
(* AVRCP.  0..127 on the phone, 0..100 on the speaker.                      *)
PercentToAvrcp(percent) ==
  LET p == IF percent < 0 THEN 50 ELSE IF percent > 100 THEN 100 ELSE percent
  IN (p * 127 + 50) \div 100
AvrcpToPercent(absolute) == (absolute * 100 + 63) \div 127

Joins(p) ==
  /\ \A i \in Slots : ctl[i].fd # p
  /\ LET hangs == {i \in Slots : ctl[i].fd = Nobody}
     IN /\ hangs # {}
        /\ ctl' = [ctl EXCEPT ![First(hangs)] = [fd |-> p, reg |-> FALSE]]
  /\ UNCHANGED <<level, master, queued, shown, moves>>
Leaves(i) ==
  /\ ctl[i].fd # Nobody
  /\ ctl' = [ctl EXCEPT ![i] = Hung]
  /\ UNCHANGED <<level, master, queued, shown, moves>>

(* A registration answers with the level as it is; it is used up by the    *)
(* first change.                                                           *)
BugRegisters(i) ==
  /\ ctl[i].fd # Nobody /\ ~ctl[i].reg
  /\ ctl' = [ctl EXCEPT ![i].reg = TRUE]
  /\ UNCHANGED <<level, master, queued, shown, moves>>
Registers(i) ==
  /\ ctl[i].fd # Nobody /\ ~ctl[i].reg
  /\ ctl' = [ctl EXCEPT ![i].reg = TRUE]
  /\ shown' = [shown EXCEPT ![ctl[i].fd] = PercentToAvrcp(level)]
  /\ UNCHANGED <<level, master, queued, moves>>

Spends == moves > 0 /\ moves' = moves - 1
(* The phone's slider: audiod sets the level, refuses, or answers too late.*)
SetAbsolute(i, v) ==
  /\ ctl[i].fd # Nobody /\ Spends /\ queued = -1
  /\ \/ /\ master' = AvrcpToPercent(v) /\ level' = master'
        /\ shown' = [shown EXCEPT ![ctl[i].fd] = v]
        /\ UNCHANGED queued
     \/ queued' \in {-1, AvrcpToPercent(v)} /\ UNCHANGED <<master, level, shown>>
  /\ UNCHANGED ctl
AppliesLate ==
  /\ queued # -1
  /\ master' = queued /\ queued' = -1
  /\ UNCHANGED <<ctl, level, shown, moves>>
(* The buttons, the web page or AirPlay move the master. *)
MovesLocally(v) ==
  /\ Spends /\ master' = v
  /\ UNCHANGED <<ctl, level, queued, shown>>

(* Every 250 ms: the published level, and a notification if it moved. *)
SetLocalVolume ==
  /\ master # -1 /\ master # level
  /\ level' = master
  /\ LET told == {i \in Slots : ctl[i].fd # Nobody /\ ctl[i].reg}
     IN /\ ctl' = [i \in Slots |-> IF i \in told THEN [ctl[i] EXCEPT !.reg = FALSE]
                                                 ELSE ctl[i]]
        /\ shown' = [p \in Listeners |-> IF \E i \in told : ctl[i].fd = p
                                         THEN PercentToAvrcp(master) ELSE shown[p]]
  /\ UNCHANGED <<master, queued, moves>>

VolumeStep(phones, sliders, levels) ==
  \/ \E p \in phones : Joins(p)
  \/ \E i \in Slots : \/ Leaves(i) \/ Registers(i)
                      \/ \E v \in sliders : SetAbsolute(i, v)
  \/ AppliesLate \/ SetLocalVolume
  \/ \E v \in levels : MovesLocally(v)

-----------------------------------------------------------------------------
vars == <<setup, btVars, streamVars, volumeVars>>
Kept == UNCHANGED setup

Init == BtInit /\ ProfileInit(setup.moves)
Controlling == setup.part = "controller" /\ BtNext /\ UNCHANGED <<streamVars, volumeVars>>
Streaming == setup.part = "stream" /\ StreamStep /\ UNCHANGED <<btVars, volumeVars>>
Sounding(A) == setup.part = "volume" /\ A /\ UNCHANGED <<btVars, streamVars>>

Next ==
  /\ \/ Controlling
     \/ Streaming
     \/ Sounding(VolumeStep(setup.callers, setup.sliders, setup.levels))
  /\ Kept

(* The loop wakes at least twice a second and audiod answers; a phone       *)
(* registers again once its notification is used up.                        *)
Fairness ==
  /\ WF_vars(Sounding(SetLocalVolume) /\ Kept)
  /\ WF_vars(Sounding(AppliesLate) /\ Kept)
  /\ WF_vars(Sounding(\E i \in Slots : Registers(i)) /\ Kept)
Spec == Init /\ [][Next]_vars /\ Fairness

----------------------------------------------------------------------------
(* A key that outlives btd belongs to a device the owner is shown, and the  *)
(* keys of a phone the owner unpaired are nowhere: not in the database, not *)
(* in btd, not in the controller.  btd may die between the two saves of     *)
(* either operation.  Excused are the phones of a failed save and those     *)
(* paired while the device table was full.                                  *)
BondsAccounted ==
  /\ disk.keys \subseteq disk.devs \union excused
  /\ AtRest => gone \intersect (disk.keys \union b.keys \union hci.keys) \subseteq excused

(* Outside the pairing window a working controller shows what the owner     *)
(* chose: a window that could not be opened half-way is rolled back, one    *)
(* that was open is closed, in either case with other commands in between.  *)
(* Blurred is a restoring command that failed, a window opened on stale     *)
(* cached settings, and a daemon that died with the window open.            *)
WindowRestored ==
  AtRest /\ b.enabled /\ ~b.mode /\ ~blurred => hci.settings = owner

(* btd reports a stream as active only while some phone's signalling        *)
(* channel is there and its stream was configured and opened; a media       *)
(* channel never outlives the signalling of its session.                    *)
StreamOwned ==
  /\ \A i \in Slots : /\ s[i].play => s[i].fd # Nobody /\ s[i].conf /\ s[i].open
                      /\ s[i].media # Nobody => s[i].fd # Nobody
  /\ active = (\E i \in Slots : s[i].play)

Linked(p) == \E i \in Slots : ctl[i].fd = p

(* Once nobody moves it any more, the slider of a phone that stays and the  *)
(* speaker's level agree, although a registration is used up by each change *)
(* and audiod may set a level after it has been refused.                    *)
SliderSettles ==
  \A p \in Listeners :
    <>[](Linked(p) /\ master # -1) => <>[](AvrcpToPercent(shown[p]) = master)

(* Without the exemption for stale cached settings. *)
WindowRestoresSettings ==
  AtRest /\ b.enabled /\ ~b.mode /\ spent.faults + spent.crashes = 0
    => hci.settings = owner
(* Every bond the controller holds is shown to the owner. *)
BondsReported == AtRest => hci.keys \subseteq b.paired
(* A media channel belongs to the phone of its session. *)
ChannelsMatch == \A i \in Slots : s[i].media \in {Nobody, s[i].fd}
=============================================================================
