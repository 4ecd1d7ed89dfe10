------------------------------ MODULE Microphone ------------------------------
(* micd, the stream workers it forks, the capture programs those fork, and  *)
(* the beam levels a worker shares with micd.  One codec: whoever opens it  *)
(* second gets nothing.                                                     *)
EXTENDS Integers, FiniteSets

CONSTANT Workers           \* stream workers, numbered from 1
VARIABLES
  mic,      \* micd: state, the worker it knows, whether the mixer took the profile
  work,     \* each worker: state, kind of stream, whose it is, its capture
  view      \* the shared beam levels, the writer and the reader of them
micVars == <<mic, work, view>>

Nobody == "nobody"
NoWorker == 0
Idle == [state |-> "none", kind |-> "mono", client |-> Nobody, capture |-> "none"]
NoView == [seq |-> 0, running |-> FALSE, lo |-> 0, hi |-> 0, step |-> 0,
           reads |-> 0, saw |-> [seq |-> 0, running |-> FALSE, lo |-> 0, hi |-> 0],
           told |-> [running |-> FALSE, lo |-> 0, hi |-> 0]]
MicInit == /\ mic = [state |-> "up", worker |-> NoWorker, configured |-> TRUE]
           /\ work = [i \in Workers |-> Idle] /\ view = NoView

Held == \E i \in Workers : work[i].capture \in {"runs", "orphan"}
Streams(client) == {i \in Workers : work[i].client = client /\ work[i].state = "relays"}
InUse == mic.worker # NoWorker

(* The codec's capture path: the fixed switches, then the four gains, each  *)
(* at the saved level or, if that is refused, at the default one.           *)
Refusals == {"none", "level", "default", "switch"}
Configured(refused) == refused \in {"none", "level"}

(* stream_raw and stream_mono: refused without the codec, while a worker is *)
(* known, or when the mixer refuses; else a worker is forked.  Its capture  *)
(* fails at once if another program has the codec.                          *)
Free(i) == work[i].state = "none" /\ work[i].capture = "none"
Relaying(client, kind) == [state |-> "relays", kind |-> kind, client |-> client,
                           capture |-> IF Held THEN "none" ELSE "runs"]
Serves(client, kind, refused, i) ==
  /\ mic.state = "up" /\ view.reads = 0
  /\ IF InUse THEN UNCHANGED <<mic, work>>
     ELSE IF ~Configured(refused) THEN mic' = [mic EXCEPT !.configured = FALSE] /\ UNCHANGED work
     ELSE /\ Free(i) /\ mic' = [mic EXCEPT !.worker = i, !.configured = TRUE]
          /\ work' = [work EXCEPT ![i] = Relaying(client, kind)]
  /\ UNCHANGED view

(* The relay ends when the capture's pipe does or the client is gone.  The  *)
(* worker then stops the beam view, its capture, and exits.                 *)
RelayOver(i) == work[i].state = "relays" /\ (work[i].capture = "none" \/ work[i].client = Nobody)
WorkerEnds(i) ==
  /\ RelayOver(i) /\ (work[i].kind = "mono" => view.step = 0)
  /\ work' = [work EXCEPT ![i] = [Idle EXCEPT !.state = IF mic.worker = i THEN "zombie" ELSE "none"]]
  /\ view' = IF work[i].kind = "mono" /\ mic.worker = i THEN [view EXCEPT !.seq = @ + 2, !.running = FALSE] ELSE view
  /\ UNCHANGED mic
(* The capture program fails, or the codec does.                            *)
CaptureDies(i) == /\ work[i].capture = "runs" /\ work' = [work EXCEPT ![i].capture = "none"]
                  /\ UNCHANGED <<mic, view>>
Leaves(client) == [i \in Workers |-> IF work[i].client = client
                                     THEN [work[i] EXCEPT !.client = Nobody] ELSE work[i]]
(* A worker killed outright takes no capture with it.  The raw relay's      *)
(* program finds its pipe closed; the mono relay's has inherited the read   *)
(* end itself and waits for ever, holding the codec.                        *)
Orphaned(kind) == IF kind = "mono" THEN "orphan" ELSE "none"
KillWorker(i) ==
  /\ work[i].state = "relays"
  /\ work' = [work EXCEPT ![i] = [Idle EXCEPT !.state = IF mic.worker = i THEN "zombie" ELSE "none",
                                  !.capture = IF work[i].capture = "runs" THEN Orphaned(work[i].kind) ELSE "none"]]
  /\ UNCHANGED <<mic, view>>

(* micd's loop notices a worker's end; a worker that died while writing     *)
(* leaves neither beams nor an odd count.                                   *)
Cleared == [view EXCEPT !.running = FALSE, !.seq = IF @ % 2 = 1 THEN @ + 1 ELSE @, !.step = 0]
Reaps == /\ InUse /\ work[mic.worker].state = "zombie" /\ mic.state = "up" /\ view.reads = 0
         /\ mic' = [mic EXCEPT !.worker = NoWorker]
         /\ work' = [work EXCEPT ![mic.worker].state = "none"] /\ view' = Cleared

----------------------------------------------------------------------------
(* SIGTERM: micd passes it to its worker, whose relay resumes the           *)
(* interrupted call, and waits for that worker; the init script kills first *)
(* micd and then every worker that is left.                                 *)
Term == /\ mic.state = "up" /\ view.reads = 0 /\ mic' = [mic EXCEPT !.state = "stopping"]
        /\ UNCHANGED <<work, view>>
MainExits == /\ mic.state = "stopping" /\ (InUse => work[mic.worker].state = "zombie")
             /\ mic' = [mic EXCEPT !.state = "down", !.worker = NoWorker]
             /\ work' = IF InUse THEN [work EXCEPT ![mic.worker].state = "none"] ELSE work
             /\ UNCHANGED view
MainKilled == /\ mic.state \in {"up", "stopping"}
              /\ mic' = [mic EXCEPT !.state = "down", !.worker = NoWorker]
              /\ work' = [i \in Workers |-> IF work[i].state = "zombie" THEN [work[i] EXCEPT !.state = "none"]
                                            ELSE work[i]]
              /\ UNCHANGED view
(* The mixer profile is tried once at start; the shared view is a new one.  *)
MicStarts(refused) == /\ mic.state = "down" /\ view' = NoView /\ UNCHANGED work
                    /\ mic' = [state |-> "up", worker |-> NoWorker, configured |-> Configured(refused)]

----------------------------------------------------------------------------
(* The beam levels: a sequence lock.  lo and hi stand for the parts a       *)
(* reader could see from two different hops.                                *)
Publishing(i) == work[i].state = "relays" /\ work[i].kind = "mono" /\ mic.worker = i
Publishes(i, v) ==
  /\ Publishing(i) /\ work[i].capture = "runs"
  /\ view' = CASE view.step = 0 -> [view EXCEPT !.seq = @ + 1, !.step = 1]
               [] view.step = 1 -> [view EXCEPT !.running = TRUE, !.lo = v, !.step = 2]
               [] view.step = 2 -> [view EXCEPT !.hi = view.lo, !.step = 3]
               [] OTHER -> [view EXCEPT !.seq = @ + 1, !.step = 0]
  /\ UNCHANGED <<mic, work>>
(* format_beams: take the count, copy, and try again unless it was even and *)
(* has not moved; after a hundred tries give up.                            *)
BugSettled == view.saw.seq % 2 = 0
Settled == view.saw.seq % 2 = 0 /\ view.saw.seq = view.seq
Reads ==
  /\ mic.state = "up"
  /\ view' = CASE view.reads = 0 -> [view EXCEPT !.reads = 1, !.saw.seq = view.seq]
               [] view.reads = 1 -> [view EXCEPT !.reads = 2, !.saw.lo = view.lo, !.saw.running = view.running]
               [] view.reads = 2 -> [view EXCEPT !.reads = 3, !.saw.hi = view.hi]
               [] OTHER -> IF Settled THEN [view EXCEPT !.reads = 0, !.told = [running |-> view.saw.running,
                                                    lo |-> view.saw.lo, hi |-> view.saw.hi]]
                           ELSE [view EXCEPT !.reads = 1, !.saw.seq = view.seq]
  /\ UNCHANGED <<mic, work>>
GivesUp == mic.state = "up" /\ view.reads > 0 /\ view' = [view EXCEPT !.reads = 0] /\ UNCHANGED <<mic, work>>
=============================================================================
