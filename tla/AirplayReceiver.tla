--------------------------- MODULE AirplayReceiver ---------------------------
(***************************************************************************)
(* airplayd's processes: the shared audio engine it always keeps, the three *)
(* of the AirPlay receiver while that is enabled, and the Sendspin player   *)
(* while it is wanted and the engine serves its sink.  A child that has     *)
(* exited stays a zombie, which kill(pid, 0) still finds, until a pass      *)
(* reaps it.  Enabling is a sequence of starts and waits that any child's   *)
(* death can interrupt; the daemon does nothing else meanwhile.             *)
(***************************************************************************)
EXTENDS SpeakerVolume

VARIABLE r    \* the children, the metadata pipe, and where an enable stands

receiverVars == <<r>>

Trio == {"nqptp", "bridge", "shairport"}
Children == Trio \union {"engine", "sendspin"}

ReceiverInit ==
  r = [child |-> [k \in Children |-> IF k = "engine" \/ (k \in Trio /\ setup.enabled)
                                     THEN "live" ELSE "none"],
       enabling |-> "no", fifo |-> setup.enabled, wanted |-> FALSE,
       epoch |-> 1, bound |-> 0, strays |-> 0]

(* child_alive, child_running and stop_child. *)
Alive(k) == r.child[k] # "none"
Running(k) == r.child[k] = "live"
Stopped(child, ks) == [k \in Children |-> IF k \in ks THEN "none" ELSE child[k]]
(* A spawn over a pid still held leaves that process with no one to stop it. *)
Spawned(k) ==
  [r EXCEPT !.child[k] = "live", !.strays = @ + (IF Running(k) THEN 1 ELSE 0)]

(* What stopping the bridge does to the sender's marker: removed on a       *)
(* clean exit, left behind for nobody when it had to be killed.             *)
BridgeStops ==
  \E m \in {0, files.marker} : files' = [files EXCEPT !.marker = m, !.left = m]
Waiting == c.up /\ c.pc = "idle" /\ r.enabling = "no"
Alone == UNCHANGED <<d, asked, pressed, spent>>

(* reap, at the top of a pass: a lost receiver child takes the rest down;   *)
(* then the engine is replaced, the player first.                           *)
TearDown(child) == Stopped(child, Trio)
AfterReap ==
  LET left == [k \in Children |-> IF r.child[k] = "zombie" THEN "none" ELSE r.child[k]]
      lost == \E k \in Children \ {"sendspin"} : r.child[k] = "zombie"
      down == IF lost /\ c.enabled THEN TearDown(left) ELSE left
      base == IF down["engine"] = "none" THEN Stopped(down, {"sendspin"}) ELSE down
  IN [torn |-> lost /\ c.enabled,
      child |-> [base EXCEPT !["engine"] = "live"],
      epoch |-> IF base["engine"] = "none" THEN r.epoch + 1 ELSE r.epoch]

Pass ==
  /\ Waiting
  /\ LET a == AfterReap
     IN /\ r' = [r EXCEPT !.child = a.child, !.epoch = a.epoch,
                          !.fifo = IF a.torn THEN FALSE ELSE @ \/ c.enabled]
        /\ c' = [c EXCEPT !.enabled = @ /\ ~a.torn]
        /\ IF a.torn THEN BridgeStops ELSE UNCHANGED files
  /\ Alone

(* sendspin_poll. *)
SendspinPoll ==
  /\ Waiting
  /\ LET fit == r.wanted /\ Alive("engine")
     IN \/ ~fit /\ Alive("sendspin") /\ r' = [r EXCEPT !.child["sendspin"] = "none"]
        \/ fit /\ ~Alive("sendspin") /\ r' = [Spawned("sendspin") EXCEPT !.bound = r.epoch]
  /\ UNCHANGED <<c, files>> /\ Alone

SetSendspin(on) ==
  /\ Waiting /\ r.wanted # on
  /\ r' = [r EXCEPT !.wanted = on]
  /\ UNCHANGED <<c, files>> /\ Alone
(* reset_sendspin_pairing stops the player before it removes its state. *)
ResetPairing ==
  /\ Waiting /\ Alive("sendspin")
  /\ r' = [r EXCEPT !.child["sendspin"] = "none"]
  /\ UNCHANGED <<c, files>> /\ Alone

(* set_enabled(0). *)
Disable ==
  /\ Waiting /\ c.enabled
  /\ r' = [r EXCEPT !.child = Stopped(@, Trio), !.fifo = FALSE]
  /\ c' = [c EXCEPT !.enabled = FALSE]
  /\ BridgeStops /\ Alone

(* set_enabled(1): skipped when every child answers and the pipe is open. *)
Enable ==
  /\ Waiting /\ spent.crashes <= setup.crashes
  /\ ~(c.enabled /\ (\A k \in Trio \union {"engine"} : Alive(k)) /\ r.fifo)
  /\ Alive("engine")
  /\ r' = [Spawned("nqptp") EXCEPT !.enabling = "clock"]
  /\ UNCHANGED <<c, files>> /\ Alone

EnableFails ==
  /\ r' = [r EXCEPT !.child = Stopped(@, Trio), !.fifo = FALSE, !.enabling = "no"]
  /\ UNCHANGED c /\ BridgeStops
EnableStep ==
  /\ c.up
  /\ \/ /\ r.enabling = "clock"
        /\ \/ r' = [Spawned("bridge") EXCEPT !.enabling = "sound"] /\ UNCHANGED <<c, files>>
           \/ EnableFails
     \/ /\ r.enabling = "sound"
        /\ \/ /\ r' = [Spawned("shairport") EXCEPT !.enabling = "watch", !.fifo = TRUE]
              /\ UNCHANGED <<c, files>>
           \/ EnableFails
     \/ /\ r.enabling = "watch"
        /\ IF \A k \in Trio : Running(k)
           THEN /\ r' = [r EXCEPT !.enabling = "no"]
                /\ c' = [c EXCEPT !.enabled = TRUE] /\ UNCHANGED files
           ELSE EnableFails
  /\ Alone

ChildDies(k) ==
  /\ c.up /\ r.child[k] = "live" /\ Spend("crashes")
  /\ r' = [r EXCEPT !.child[k] = "zombie"]
  /\ files' = [files EXCEPT !.marker = IF k = "bridge" THEN 0 ELSE @]
  /\ UNCHANGED <<d, c, asked, pressed>>
FifoLost ==
  /\ Waiting /\ setup.fifoFails /\ r.fifo
  /\ r' = [r EXCEPT !.fifo = FALSE]
  /\ UNCHANGED <<c, files>> /\ Alone

ReceiverWorks == Pass \/ SendspinPoll \/ EnableStep
ReceiverNext ==
  \/ ReceiverWorks
  \/ Enable \/ Disable \/ ResetPairing \/ FifoLost
  \/ \E on \in BOOLEAN : SetSendspin(on)
  \/ \E k \in Children : ChildDies(k)

----------------------------------------------------------------------------
(* airplayd loses no process: every one it started it can still stop        *)
(* (set_enabled, reap, stop_child).                                         *)
NoStrays == r.strays = 0

(* The Sendspin player never talks to an engine other than the one it was   *)
(* started for: an engine is only replaced after the player is stopped      *)
(* (main, sendspin_poll).                                                   *)
PlayerBound == Running("sendspin") /\ Running("engine") => r.bound = r.epoch

(* A receiver that lost a child is noticed: it ends up whole or disabled    *)
(* (reap in main).                                                          *)
ReceiverWhole == []<>(c.enabled => \A k \in Trio : Running(k))
=============================================================================
