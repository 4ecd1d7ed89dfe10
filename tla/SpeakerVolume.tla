--------------------------- MODULE SpeakerVolume ---------------------------
(***************************************************************************)
(* The one speaker level, shared by its owner and by an AirPlay sender.     *)
(* audiod publishes the level in master.volume; while a sender plays, its   *)
(* callbacks set the level and the owner's own is kept as a baseline in a   *)
(* record under /run that outlives either daemon.  airplayd sees the        *)
(* sender's marker and volume file, asks audiod to apply each callback and  *)
(* only then acknowledges it, which lets the audio engine play the media.   *)
(* Every durable write is a step of its own, so either daemon may die       *)
(* between two of them.  Sessions and callbacks are numbered in the order   *)
(* of the creation times the code compares.                                 *)
(***************************************************************************)
EXTENDS Integers, FiniteSets, TLC

CONSTANT Setups          \* the bounded environments explored

VARIABLES
  setup,      \* this behaviour's environment and bounds
  d,          \* audiod's memory: struct audio_hw
  c,          \* airplayd's memory: struct airplay_ctx
  files,      \* /run/libreecho-audio: master, record, marker, callback, ack;
              \* history: left, a marker whose bridge is dead
  asked,      \* history: the levels the owner may rightly find restored
  pressed,    \* history: session and callback the owner's choice last overrode
  spent       \* how much of each bound is used up

volumeVars == <<d, c, files, asked, pressed, spent>>

None == <<>>
NoSession == [sess |-> 0, cb |-> 0, base |-> 0, sender |-> 0, override |-> FALSE]

(* Shairport's -30..0 dB slider and -144 for mute, as the 0..100 level;     *)
(* anything else is a corrupt callback.                                     *)
DbValid(db) == db = -144 \/ db \in -30..0
DbToPercent(db) == IF db = -144 THEN 0 ELSE ((db + 30) * 66 + 30) \div 20

Down == [up |-> FALSE, s |-> NoSession, prev |-> NoSession, newest |-> 0,
         ended |-> FALSE, pending |-> FALSE, publish |-> FALSE, volume |-> 50,
         requested |-> -1, missing |-> FALSE, op |-> "idle", target |-> 0,
         from |-> "none"]
Idle == [up |-> TRUE, enabled |-> TRUE, sess |-> 0, confirmed |-> None,
         applied |-> FALSE, pc |-> "idle", m |-> 0, v |-> 0, level |-> 0]
Dead == [Idle EXCEPT !.up = FALSE]

VolumeInit ==
  /\ setup \in Setups
  /\ d = Down
  /\ c = [Idle EXCEPT !.enabled = setup.enabled]
  /\ files = [master |-> -1, record |-> None, marker |-> 0, cb |-> 0,
              db |-> 0, ack |-> None, left |-> 0]
  /\ asked = {setup.boot}
  /\ pressed = None
  /\ spent = [sessions |-> 0, presses |-> 0, crashes |-> 0, faults |-> 0]

Spend(what) ==
  /\ spent[what] < setup[what]
  /\ spent' = [spent EXCEPT ![what] = @ + 1]
(* A durable write, a mixer write or a reply fails. *)
Fault == Spend("faults")

----------------------------------------------------------------------------
(* audiod: the durable writes.                                              *)

SessionRecord(s) == <<"session", s>>
EndedRecord(sess, base, pending) == <<"ended", sess, base, pending>>
SaveRecord(r) == files' = [files EXCEPT !.record = r]
(* audio_set_volume: the level file, then what audiod remembers of it. *)
Published(v) == [d EXCEPT !.volume = v, !.requested = v, !.publish = FALSE]
Publish(v) == files' = [files EXCEPT !.master = v]

(* A finished request answers its caller, who may have given up. *)
Told(ok) ==
  CASE c.pc = "call" /\ ok -> [c EXCEPT !.pc = "status", !.applied = FALSE,
                                       !.confirmed = <<c.m, c.v>>]
    [] c.pc = "end" /\ ok  -> [c EXCEPT !.pc = "idle", !.sess = 0,
                                       !.applied = FALSE, !.confirmed = None]
    [] OTHER               -> [c EXCEPT !.pc = "idle"]
Answered(ok) == IF d.from = "airplayd" THEN Told(ok) ELSE c
Finish(mem, ok) ==
  /\ d' = [mem EXCEPT !.op = "idle", !.from = "none"]
  /\ c' = Answered(ok)
Goto(mem, op) == d' = [mem EXCEPT !.op = op] /\ UNCHANGED c

At(op) == d.up /\ d.op = op

(* A sender's callback: the record first, so that a lost process cannot    *)
(* strand the speaker at the sender's level, then the level.               *)
SaveSender ==
  /\ At("saveV")
  /\ \/ /\ SaveRecord(SessionRecord(d.s))
        /\ Goto(d, "setV") /\ UNCHANGED spent
     \/ /\ Fault /\ Finish([d EXCEPT !.s = d.prev], FALSE)
        /\ UNCHANGED files
  /\ UNCHANGED <<asked, pressed>>

SetSender ==
  /\ At("setV")
  /\ \/ /\ Publish(d.s.sender)
        /\ Finish([Published(d.s.sender) EXCEPT !.newest = d.s.sess,
                     !.ended = FALSE, !.requested = d.s.base], TRUE)
        /\ UNCHANGED spent
     \/ /\ Fault /\ Goto([d EXCEPT !.s = d.prev], "undoV")
        /\ UNCHANGED files
  /\ UNCHANGED <<asked, pressed>>

(* The level could not be set: the old record back, or none. *)
UndoSender ==
  /\ At("undoV")
  /\ \/ /\ SaveRecord(IF d.s.sess # 0 THEN SessionRecord(d.s) ELSE None)
        /\ UNCHANGED spent
     \/ setup.undoFails /\ Fault /\ UNCHANGED files
  /\ Finish(d, FALSE)
  /\ UNCHANGED <<asked, pressed>>

(* The owner's choice while a sender plays.  Where the undo of a failed     *)
(* change may itself fail, setup.undoFails says so.                         *)
SaveOwner ==
  /\ At("saveO")
  /\ \/ /\ SaveRecord(SessionRecord(d.s))
        /\ Goto(d, "setO")
        /\ asked' = asked \union {d.s.base}
        /\ UNCHANGED spent
     \/ /\ Fault /\ Finish([d EXCEPT !.s = d.prev], FALSE)
        /\ UNCHANGED <<files, asked>>
  /\ UNCHANGED pressed

SetOwner ==
  /\ At("setO")
  /\ LET v == IF d.s.sess # 0 THEN d.s.base ELSE d.target
     IN \/ /\ Publish(v) /\ Finish(Published(v), TRUE)
           /\ asked' = {v}
           /\ pressed' = IF d.s.sess # 0 THEN <<d.s.sess, d.s.cb>> ELSE None
           /\ UNCHANGED spent
        \/ /\ Fault
           /\ IF d.s.sess # 0 THEN Goto([d EXCEPT !.s = d.prev], "undoO")
                              ELSE Finish(d, FALSE)
           /\ UNCHANGED <<files, asked, pressed>>

UndoOwner ==
  /\ At("undoO")
  /\ \/ /\ SaveRecord(SessionRecord(d.s))
        /\ asked' = asked \intersect {d.s.base}
        /\ UNCHANGED spent
     \/ setup.undoFails /\ Fault /\ UNCHANGED <<files, asked>>
  /\ Finish(d, FALSE)
  /\ UNCHANGED pressed

(* A session's end: a tombstone that still holds the baseline, the          *)
(* baseline itself, and the tombstone without the debt.                     *)
SetEnded(mem, pending) ==
  [mem EXCEPT !.newest = d.target, !.ended = TRUE, !.pending = pending,
              !.missing = FALSE, !.s.sess = 0, !.s.cb = 0]

Tombstone ==
  /\ At("tomb")
  /\ \/ /\ SaveRecord(EndedRecord(d.target, d.s.base, TRUE))
        /\ Goto(SetEnded(d, TRUE), "restore") /\ UNCHANGED spent
     \/ Fault /\ Finish(d, FALSE) /\ UNCHANGED files
  /\ UNCHANGED <<asked, pressed>>

EndUnheard ==
  /\ At("tomb0")
  /\ \/ /\ SaveRecord(EndedRecord(d.target, d.s.base, FALSE))
        /\ Finish(SetEnded(d, FALSE), TRUE) /\ UNCHANGED spent
     \/ Fault /\ Finish(d, FALSE) /\ UNCHANGED files
  /\ UNCHANGED <<asked, pressed>>

Restore ==
  /\ At("restore")
  /\ \/ /\ Publish(d.s.base)
        /\ Goto(Published(d.s.base), "final") /\ UNCHANGED spent
     \/ Fault /\ Finish(d, FALSE) /\ UNCHANGED files
  /\ UNCHANGED <<asked, pressed>>

SettleEnded ==
  /\ At("final")
  /\ \/ /\ SaveRecord(EndedRecord(d.newest, d.s.base, FALSE))
        /\ Finish([d EXCEPT !.pending = FALSE], TRUE) /\ UNCHANGED spent
     \/ Fault /\ Finish(d, FALSE) /\ UNCHANGED files
  /\ UNCHANGED <<asked, pressed>>

(* The start-up level, and a session found in the record. *)
Chosen == IF d.s.sess # 0 /\ d.s.override THEN <<d.s.sess, d.s.cb>> ELSE pressed
PublishStartup ==
  /\ At("publish")
  /\ \/ /\ Publish(d.volume) /\ Finish(Published(d.volume), TRUE)
        /\ pressed' = Chosen /\ UNCHANGED spent
     \/ Fault /\ Finish(d, FALSE) /\ UNCHANGED <<files, pressed>>
  /\ UNCHANGED asked

Resume ==
  /\ At("resume")
  /\ LET v == IF d.s.override THEN d.s.base ELSE d.s.sender
     IN \/ /\ Publish(v)
           /\ Finish([Published(v) EXCEPT !.requested = d.s.base], TRUE)
           /\ pressed' = Chosen /\ UNCHANGED spent
        \/ /\ Fault /\ Finish([d EXCEPT !.volume = v, !.publish = TRUE], FALSE)
           /\ UNCHANGED <<files, pressed>>
  /\ UNCHANGED asked

----------------------------------------------------------------------------
(* audiod: its loop and its requests.                                       *)

Revoke == files' = [files EXCEPT !.ack = None]
Serving == At("idle")

(* A session whose marker has gone is not ended. *)
BugPollSession(mem) ==
  /\ files.marker # 0 /\ UNCHANGED files
  /\ Goto([mem EXCEPT !.missing = FALSE], IF mem.publish THEN "publish" ELSE "idle")
(* airplay_restore_poll with a session: what it does, by marker and by     *)
(* whether airplayd's socket is bound; the grace may or may not be over.   *)
PollSession(mem) ==
  \/ /\ files.marker # 0 /\ c.up
     /\ Goto([mem EXCEPT !.missing = FALSE], IF mem.publish THEN "publish" ELSE "idle")
     /\ UNCHANGED files
  \/ /\ files.marker # 0 /\ ~c.up
     /\ Revoke
     /\ Goto([mem EXCEPT !.missing = TRUE], IF mem.publish THEN "publish" ELSE "idle")
  \/ /\ files.marker = 0 \/ (~c.up /\ mem.missing)
     /\ Revoke
     /\ Goto([mem EXCEPT !.target = mem.s.sess], "tomb")

Poll ==
  /\ Serving
  /\ \/ d.pending /\ Revoke /\ Goto(d, "restore")
     \/ /\ ~d.pending /\ d.s.sess = 0 /\ d.publish
        /\ Goto(d, "publish") /\ UNCHANGED files
     \/ ~d.pending /\ d.s.sess # 0 /\ PollSession(d)
  /\ UNCHANGED <<asked, pressed, spent>>

(* Start: the level file if there is one, else the saved setting; then the *)
(* record, before anything stale can reach the speaker.                    *)
Loaded ==
  LET v == IF files.master >= 0 THEN files.master ELSE setup.boot
      fresh == [Down EXCEPT !.up = TRUE, !.volume = v, !.requested = v, !.publish = TRUE]
      r == files.record
  IN IF r = None THEN fresh
     ELSE IF r[1] = "ended"
     THEN [fresh EXCEPT !.newest = r[2], !.ended = TRUE, !.s.base = r[3],
                        !.pending = r[4]]
     ELSE [fresh EXCEPT !.s = r[2], !.newest = r[2].sess, !.requested = r[2].base]

AudiodStarts ==
  /\ ~d.up
  /\ LET mem == Loaded
     IN \/ mem.pending /\ Revoke /\ Goto(mem, "restore")
        \/ ~mem.pending /\ mem.s.sess = 0 /\ Goto(mem, "publish") /\ UNCHANGED files
        \/ /\ mem.s.sess # 0 /\ files.marker = 0 /\ Revoke
           /\ Goto([mem EXCEPT !.target = mem.s.sess], "tomb")
        \/ /\ mem.s.sess # 0 /\ files.marker # 0
           /\ IF c.up THEN UNCHANGED files ELSE Revoke
           /\ Goto([mem EXCEPT !.missing = ~c.up], "resume")
  /\ UNCHANGED <<asked, pressed, spent>>

AudiodDies ==
  /\ d.up /\ Spend("crashes")
  /\ d' = Down
  /\ c' = IF c.pc \in {"call", "end", "status"} THEN [c EXCEPT !.pc = "idle"] ELSE c
  /\ UNCHANGED <<files, asked, pressed>>

(* set_volume, from the buttons or the API. *)
OwnerSets(v) ==
  /\ Serving /\ Spend("presses")
  /\ ~d.pending
  /\ IF d.s.sess # 0
     THEN Goto([d EXCEPT !.prev = d.s, !.s.base = v, !.s.override = TRUE], "saveO")
     ELSE Goto([d EXCEPT !.target = v], "setO")
  /\ UNCHANGED <<files, asked, pressed>>

(* A request that arrives while a restoration is owed: it is tried first,  *)
(* and the request refused when it fails.                                  *)
RefusePending ==
  /\ Serving /\ d.pending /\ c.pc \in {"call", "end"}
  /\ Fault /\ Revoke
  /\ c' = [c EXCEPT !.pc = "idle"] /\ UNCHANGED <<d, asked, pressed>>

Newer(session) == session > d.newest
ReplyNow(ok) == c' = Told(ok) /\ UNCHANGED d

(* airplay_end: an older or an already ended session is nothing to do. *)
ServeEnd ==
  /\ Serving /\ ~d.pending /\ c.pc = "end" /\ d.from = "none"
  /\ IF c.sess < d.newest \/ (c.sess = d.newest /\ d.ended)
     THEN ReplyNow(TRUE) /\ UNCHANGED files
     ELSE /\ Revoke
          /\ Goto([d EXCEPT !.target = c.sess, !.from = "airplayd"],
                  IF d.s.sess # 0 THEN "tomb" ELSE "tomb0")
  /\ UNCHANGED <<asked, pressed, spent>>

(* airplay_volume: only for the session whose marker is present, and never *)
(* for one that ended or for a callback that was already overtaken.        *)
Stale(session, cb) ==
  \/ session < d.newest
  \/ files.marker # session
  \/ session = d.newest /\ d.ended
  \/ d.s.sess = session /\ d.s.cb # 0 /\ cb < d.s.cb
(* A retried callback is applied a second time. *)
BugRepeated(session, cb) == FALSE
Repeated(session, cb) == d.s.sess = session /\ d.s.cb = cb

(* The baseline is always the level now playing, a sender's included. *)
BugBaseline == d.volume
Baseline ==
  IF d.s.sess # 0 THEN d.s.base ELSE IF d.requested >= 0 THEN d.requested ELSE d.volume
ServeVolume ==
  /\ Serving /\ ~d.pending /\ c.pc = "call" /\ d.from = "none"
  /\ IF Stale(c.m, c.v) THEN ReplyNow(FALSE)
     ELSE IF Repeated(c.m, c.v) THEN ReplyNow(TRUE)
     ELSE Goto([d EXCEPT !.prev = d.s, !.target = c.m, !.from = "airplayd",
                  !.s = [sess |-> c.m, cb |-> c.v, sender |-> c.level, override |-> FALSE,
                         base |-> Baseline]],
               "saveV")
  /\ UNCHANGED <<files, asked, pressed, spent>>

----------------------------------------------------------------------------
(* airplayd: airplay_master_poll.                                           *)

Current == <<files.marker, files.cb>>
Ready == c.up /\ c.pc = "idle"

(* The session it told audiod about is over: airplay_master_end. *)
AsksEnd ==
  /\ Ready /\ d.up
  /\ c.sess # 0 /\ (~c.enabled \/ files.marker # c.sess)
  /\ c' = [c EXCEPT !.pc = "end"]
  /\ UNCHANGED <<d, files, asked, pressed, spent>>

(* A callback that audiod has not confirmed, or whose acknowledgement has  *)
(* been revoked since; one only waiting for its acknowledgement is not     *)
(* written again.                                                          *)
AsksVolume ==
  /\ Ready /\ c.enabled /\ files.marker # 0 /\ c.sess \in {0, files.marker}
  /\ files.cb # 0 /\ DbValid(files.db)
  /\ ~(c.confirmed = Current /\ c.applied /\ files.ack = Current)
  /\ LET same == c.confirmed = Current /\ ~c.applied
         kept == IF same THEN c ELSE [c EXCEPT !.confirmed = None, !.applied = FALSE]
     IN c' = IF d.up
             THEN [kept EXCEPT !.pc = IF same THEN "status" ELSE "call",
                               !.sess = files.marker,
                               !.m = files.marker, !.v = files.cb,
                               !.level = DbToPercent(files.db)]
             ELSE kept
  /\ UNCHANGED <<d, files, asked, pressed, spent>>

(* audiod's status came back: acknowledge only what is still current. *)
ReadsBack ==
  /\ c.up /\ c.pc = "status" /\ Serving
  /\ c' = [c EXCEPT !.pc = IF Current = <<c.m, c.v>> THEN "ack" ELSE "idle"]
  /\ UNCHANGED <<d, files, asked, pressed, spent>>

Acknowledges ==
  /\ c.up /\ c.pc = "ack"
  /\ \/ /\ files' = [files EXCEPT !.ack = <<c.m, c.v>>]
        /\ c' = [c EXCEPT !.pc = "idle", !.applied = TRUE, !.confirmed = <<c.m, c.v>>]
        /\ UNCHANGED spent
     \/ Fault /\ c' = [c EXCEPT !.pc = "idle"] /\ UNCHANGED files
  /\ UNCHANGED <<d, asked, pressed>>

(* The reply did not come in time: what audiod did with it is unknown. *)
TimesOut ==
  /\ c.up /\ c.pc \in {"call", "end", "status"} /\ Fault
  /\ c' = [c EXCEPT !.pc = "idle"]
  /\ d' = [d EXCEPT !.from = "none"]
  /\ UNCHANGED <<files, asked, pressed>>

AirplaydDies ==
  /\ c.up /\ Spend("crashes")
  /\ c' = [Dead EXCEPT !.enabled = setup.enabled]
  /\ d' = [d EXCEPT !.from = "none"]
  /\ UNCHANGED <<files, asked, pressed>>

AirplaydStarts ==
  /\ ~c.up /\ c' = [c EXCEPT !.up = TRUE]
  /\ UNCHANGED <<d, files, asked, pressed, spent>>

(* The sender, through Shairport and the audio bridge: external. *)
SenderStarts ==
  /\ files.marker = 0 /\ c.enabled /\ Spend("sessions")
  /\ files' = [files EXCEPT !.marker = spent.sessions + 1]
  /\ UNCHANGED <<d, c, asked, pressed>>
SenderStops ==
  /\ files.marker # 0
  /\ files' = [files EXCEPT !.marker = 0]
  /\ UNCHANGED <<d, c, asked, pressed, spent>>
SenderSlides(db) ==
  /\ files.cb < setup.callbacks
  /\ files' = [files EXCEPT !.cb = @ + 1, !.db = db]
  /\ UNCHANGED <<d, c, asked, pressed, spent>>

AudiodWorks ==
  \/ SaveSender \/ SetSender \/ UndoSender \/ SaveOwner \/ SetOwner \/ UndoOwner
  \/ Tombstone \/ EndUnheard \/ Restore \/ SettleEnded \/ PublishStartup \/ Resume
  \/ Poll \/ AudiodStarts \/ ServeEnd \/ ServeVolume
AirplaydWorks == AsksEnd \/ AsksVolume \/ ReadsBack \/ Acknowledges \/ AirplaydStarts

VolumeNext ==
  \/ AudiodWorks \/ AirplaydWorks
  \/ RefusePending \/ TimesOut
  \/ AudiodDies \/ AirplaydDies
  \/ \E v \in setup.levels : OwnerSets(v)
  \/ SenderStarts \/ SenderStops
  \/ \E db \in setup.sliders : SenderSlides(db)

----------------------------------------------------------------------------
Settled == Serving /\ d.s.sess = 0 /\ ~d.pending /\ ~d.publish
(* Nobody plays for a marker whose bridge had to be killed. *)
Admitted == files.marker \notin {0, files.left} /\ files.ack = Current

(* Whatever dies, fails, is repeated or arrives late: with no session and   *)
(* nothing owed, the speaker is at a level its owner chose, never left at   *)
(* the last sender's (airplay_restore_save, airplay_finish_restore).        *)
OwnerLevelKept == Settled => files.master \in asked

(* The engine plays AirPlay media only at the level of the callback it is   *)
(* acknowledged for, or at the one the owner chose since; the one exception *)
(* is an audiod that restarted while the mixer refuses it, which retries    *)
(* every pass (airplay_master_poll, airplay_restore_poll).                  *)
AdmissionSound ==
  Admitted => \/ files.master = DbToPercent(files.db)
              \/ pressed = Current /\ files.master \in asked
              \/ d.publish \/ ~d.up

(* A callback that is retried, or was overtaken, never undoes the owner's   *)
(* choice: within a session only a newer callback moves the level away from *)
(* it (handle_request, airplay_volume).                                     *)
ButtonWins ==
  [][ (/\ files'.master # files.master /\ files'.master \notin asked'
       /\ pressed # None /\ d.s.sess = pressed[1])
      => d.s.cb > pressed[2] ]_<<files, asked, pressed, d>>

(* When a sender goes away the owner's level comes back, however often the  *)
(* daemons died meanwhile (airplay_restore_poll, retry_startup_volume).     *)
OwnerHeard ==
  files.marker = 0 ~> files.marker # 0 \/ (Settled /\ files.master \in asked)

(* A sender plays and has given a valid level. *)
Playing == files.marker # 0 /\ c.enabled /\ files.cb # 0 /\ DbValid(files.db)
(* A playing sender is let through in the end, unless its session was       *)
(* declared over (airplay_master_poll, airplay_ack_matches).                *)
MediaAdmitted ==
  Playing ~> (Admitted \/ ~Playing \/ (d.ended /\ d.newest = files.marker))
=============================================================================
