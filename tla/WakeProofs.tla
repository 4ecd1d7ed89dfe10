----------------------------- MODULE WakeProofs ------------------------------
(***************************************************************************)
(* What micd promises of the codec and of the beams it reports, and what   *)
(* waked's inference thread promises of its models and of its events, for  *)
(* every set of workers, every queue, every lockout and every setup.       *)
(***************************************************************************)
EXTENDS WakeService, FiniteSetTheorems, SequenceTheorems, TLAPS

USE WakeAssumption DEF NoWorker, None

-----------------------------------------------------------------------------
(* The microphone.  Levels are whatever a setup counts; what a worker, micd *)
(* and a reader of the beams may be doing is a record each.                 *)
Captures == {"none", "runs", "orphan"}
WorkRec == [state : {"none", "relays", "zombie"}, kind : {"mono", "raw"},
            client : {Nobody, "waked", "raw"}, capture : Captures]
MicRec == [state : {"up", "stopping", "down"}, worker : Workers \union {NoWorker},
           configured : BOOLEAN]
Glimpse == [seq : Nat, running : BOOLEAN, lo : Nat, hi : Nat]
Beam == [running : BOOLEAN, lo : Nat, hi : Nat]
ViewRec == [seq : Nat, running : BOOLEAN, lo : Nat, hi : Nat, step : 0..3, reads : 0..3,
            saw : Glimpse, told : Beam]
MicType == mic \in MicRec /\ work \in [Workers -> WorkRec] /\ view \in ViewRec

(* micd's worker is the only one that waits to be reaped, and one program   *)
(* at most has the codec.                                                   *)
WorkInv ==
  /\ \A i \in Workers : work[i].state = "zombie" => mic.worker = i
  /\ InUse => work[mic.worker].state \in {"relays", "zombie"}
  /\ mic.state = "down" => ~InUse
  /\ \A i, j \in Workers : work[i].capture # "none" /\ work[j].capture # "none" => i = j

(* The sequence lock.  The count is odd exactly while a hop is written; a   *)
(* reader whose count is still the writer's, and even, has copied the hop   *)
(* that is there.                                                           *)
Written ==
  /\ view.step = 0 <=> view.seq % 2 = 0
  /\ view.step = 0 /\ view.running => view.lo = view.hi
  /\ view.step = 3 => view.lo = view.hi
  /\ mic.state = "up" /\ ~InUse => view.step = 0 /\ ~view.running
Unmoved == view.saw.seq = view.seq /\ view.step = 0
Copied ==
  /\ view.told.running => view.told.lo = view.told.hi
  /\ view.reads # 0 => view.saw.seq <= view.seq
  /\ view.reads \in {2, 3} /\ Unmoved => view.saw.lo = view.lo /\ (view.saw.running <=> view.running)
  /\ view.reads = 3 /\ Unmoved => view.saw.hi = view.hi
MicInv == MicType /\ WorkInv /\ Written /\ Copied

LEMMA OneCapture == MicInv => Cardinality({i \in Workers : work[i].capture # "none"}) <= 1
<1> SUFFICES ASSUME MicInv PROVE Cardinality({i \in Workers : work[i].capture # "none"}) <= 1
  OBVIOUS
<1> DEFINE C == {i \in Workers : work[i].capture # "none"}
<1>1. ASSUME NEW x \in C PROVE C = {x}
  BY DEF MicInv, WorkInv
<1> HIDE DEF C
<1>2. Cardinality(C) <= 1
  <2>1. CASE C = {}
    <3>1. Cardinality(C) = 0
      BY <2>1, FS_EmptySet
    <3> QED
      BY <3>1
  <2>2. CASE C # {}
    <3>1. PICK x \in C : C = {x}
      BY <1>1, <2>2
    <3>2. Cardinality(C) = 1
      BY <3>1, FS_Singleton
    <3> QED
      BY <3>2
  <2> QED
    BY <2>1, <2>2
<1> QED
  BY <1>2 DEF C

LEMMA CaptureFollows == MicInv => CaptureTruthful
<1> SUFFICES ASSUME MicInv PROVE CaptureTruthful
  OBVIOUS
<1>1. mic.state = "up" /\ ~InUse => view.step = 0 /\ view.seq % 2 = 0 /\ ~view.running
  BY DEF MicInv, Written
<1> QED
  BY <1>1, OneCapture DEF MicInv, WorkInv, Copied, CaptureTruthful

LEMMA MicStarted == MicInit => MicInv
<1> SUFFICES ASSUME MicInit PROVE MicInv
  OBVIOUS
<1>1. MicType
  BY DEF MicInit, MicType, MicRec, WorkRec, ViewRec, Idle, Captures, NoView, Beam, Glimpse
<1>2. WorkInv
  BY DEF MicInit, WorkInv, Idle, InUse
<1>3. Written /\ Copied
  BY DEF MicInit, Written, Copied, NoView, InUse, Unmoved
<1> QED
  BY <1>1, <1>2, <1>3 DEF MicInv

(* A stream is served only while nobody has one.                            *)
LEMMA ServesKeeps ==
  ASSUME NEW client \in {"waked", "raw"}, NEW kind \in {"mono", "raw"}, NEW refused \in Refusals,
         NEW i \in Workers, MicInv, Serves(client, kind, refused, i)
  PROVE  MicInv'
<1>1. CASE InUse
  BY <1>1 DEF MicInv, Serves, MicType, WorkInv, Written, Copied, InUse, Unmoved
<1>2. CASE ~InUse /\ ~Configured(refused)
  <2>1. mic' = [mic EXCEPT !.configured = FALSE] /\ UNCHANGED <<work, view>>
    BY <1>2 DEF Serves
  <2>2. mic' \in MicRec /\ mic'.state = mic.state /\ mic'.worker = mic.worker
    BY <2>1 DEF MicInv, MicType, MicRec
  <2> QED
    BY <2>1, <2>2 DEF MicInv, MicType, WorkInv, Written, Copied, InUse, Unmoved
<1>3. CASE ~InUse /\ Configured(refused)
  <2>1. /\ mic.state = "up" /\ Free(i) /\ UNCHANGED view
        /\ mic' = [mic EXCEPT !.worker = i, !.configured = TRUE]
        /\ work' = [work EXCEPT ![i] = Relaying(client, kind)]
    BY <1>3 DEF Serves
  <2>2. mic' \in MicRec /\ mic'.state = mic.state /\ mic'.worker = i
    BY <2>1 DEF MicInv, MicType, MicRec
  <2> DEFINE r == Relaying(client, kind)
  <2>3. r \in WorkRec /\ r.state = "relays" /\ (r.capture # "none" => ~Held)
    BY DEF Relaying, WorkRec, Captures
  <2>4. work' = [work EXCEPT ![i] = r]
    BY <2>1
  <2> HIDE DEF r
  <2>5. MicType'
    BY <2>1, <2>2, <2>3, <2>4 DEF MicInv, MicType
  <2>6. \A j \in Workers : work[j].capture # "none" => Held
    BY DEF Held, MicInv, MicType, WorkRec, Captures
  <2>7. WorkInv'
    BY <1>3, <2>1, <2>2, <2>3, <2>4, <2>6 DEF MicInv, MicType, WorkInv, InUse
  <2>8. Written' /\ Copied'
    BY <1>3, <2>1, <2>2 DEF MicInv, Written, Copied, InUse, Unmoved
  <2> QED
    BY <2>5, <2>7, <2>8 DEF MicInv
<1> QED
  BY <1>1, <1>2, <1>3

\* A worker whose relay is over waits to be reaped, or is gone at once.
LEMMA WorkerEndsKeeps ==
  ASSUME NEW i \in Workers, MicInv, WorkerEnds(i)
  PROVE  MicInv'
<1> DEFINE r == [Idle EXCEPT !.state = IF mic.worker = i THEN "zombie" ELSE "none"]
<1>1. /\ work' = [work EXCEPT ![i] = r] /\ UNCHANGED mic /\ work[i].state = "relays"
      /\ work[i].kind = "mono" => view.step = 0
      /\ view' = IF work[i].kind = "mono" /\ mic.worker = i
                 THEN [view EXCEPT !.seq = @ + 2, !.running = FALSE] ELSE view
  BY DEF WorkerEnds, RelayOver
<1>2. r \in WorkRec /\ r.capture = "none" /\ (mic.worker = i => r.state = "zombie")
      /\ (mic.worker # i => r.state = "none")
  BY DEF Idle, WorkRec, Captures
<1> HIDE DEF r
<1>3. work' \in [Workers -> WorkRec] /\ WorkInv'
  BY <1>1, <1>2 DEF MicInv, MicType, WorkInv, InUse
<1>4. CASE view' = view
  BY <1>1, <1>3, <1>4 DEF MicInv, MicType, Written, Copied, InUse, Unmoved
<1>5. CASE view' # view
  <2> DEFINE n == view.seq + 2
  <2>1. view' = [view EXCEPT !.seq = n, !.running = FALSE] /\ view.step = 0 /\ mic.worker = i
    BY <1>1, <1>5
  <2>2. n \in Nat /\ n > view.seq /\ n % 2 = view.seq % 2
    BY DEF MicInv, MicType, ViewRec
  <2> HIDE DEF n
  <2>3. /\ view' \in ViewRec /\ view'.seq = n /\ view'.step = 0 /\ ~view'.running
        /\ view'.saw = view.saw /\ view'.told = view.told /\ view'.reads = view.reads
    BY <2>1, <2>2 DEF MicInv, MicType, ViewRec
  <2>4. view.saw.seq \in Nat /\ view.seq \in Nat
    BY DEF MicInv, MicType, ViewRec, Glimpse
  <2>5. Written'
    BY <2>1, <2>2, <2>3 DEF MicInv, Written
  <2>6. Copied'
    BY <2>1, <2>2, <2>3, <2>4 DEF MicInv, Copied, Unmoved
  <2> QED
    BY <1>1, <1>3, <2>3, <2>5, <2>6 DEF MicInv, MicType
<1> QED
  BY <1>4, <1>5

\* A capture fails, or a client goes: no worker's state is touched.
LEMMA WorkKeeps ==
  ASSUME MicInv, UNCHANGED <<mic, view>>, work' \in [Workers -> WorkRec],
         \A i \in Workers : work'[i].state = work[i].state /\ work'[i].capture \in {work[i].capture, "none"}
  PROVE  MicInv'
<1>1. MicType' /\ WorkInv'
  BY DEF MicInv, MicType, MicRec, WorkInv, WorkRec, InUse
<1> QED
  BY <1>1 DEF MicInv, Written, Copied, InUse, Unmoved

LEMMA CaptureDiesKeeps ==
  ASSUME NEW i \in Workers, MicInv, CaptureDies(i)
  PROVE  MicInv'
<1>1. /\ work' = [work EXCEPT ![i].capture = "none"] /\ UNCHANGED <<mic, view>>
      /\ work \in [Workers -> WorkRec]
  BY DEF CaptureDies, MicInv, MicType
<1>2. work' \in [Workers -> WorkRec]
  BY <1>1 DEF WorkRec, Captures
<1>3. \A j \in Workers : work'[j].state = work[j].state /\ work'[j].capture \in {work[j].capture, "none"}
  BY <1>1 DEF WorkRec
<1> QED
  BY <1>1, <1>2, <1>3, WorkKeeps

LEMMA LeavesKeeps ==
  ASSUME NEW client, MicInv, work' = Leaves(client), UNCHANGED <<mic, view>>
  PROVE  MicInv'
<1>1. ASSUME NEW j \in Workers
      PROVE  /\ work'[j] \in WorkRec /\ work'[j].state = work[j].state
             /\ work'[j].capture = work[j].capture
  BY DEF Leaves, MicInv, MicType, WorkRec
<1>2. work' \in [Workers -> WorkRec]
  BY <1>1 DEF Leaves
<1> QED
  BY <1>1, <1>2, WorkKeeps

\* A worker is killed: what it leaves of its capture is the one there was.
LEMMA KillWorkerKeeps ==
  ASSUME NEW i \in Workers, MicInv, KillWorker(i)
  PROVE  MicInv'
<1> DEFINE r == [Idle EXCEPT !.state = IF mic.worker = i THEN "zombie" ELSE "none",
                             !.capture = IF work[i].capture = "runs" THEN Orphaned(work[i].kind) ELSE "none"]
<1>1. work' = [work EXCEPT ![i] = r] /\ UNCHANGED <<mic, view>>
  BY DEF KillWorker
<1>2. /\ r \in WorkRec /\ (mic.worker = i => r.state = "zombie") /\ (mic.worker # i => r.state = "none")
      /\ r.capture # "none" => work[i].capture # "none"
  BY DEF Idle, WorkRec, Captures, Orphaned
<1> HIDE DEF r
<1>3. MicType' /\ WorkInv'
  BY <1>1, <1>2 DEF MicInv, MicType, WorkInv, InUse
<1> QED
  BY <1>1, <1>3 DEF MicInv, Written, Copied, InUse, Unmoved

\* micd notices the end: what a half-written hop left is cleared away.
LEMMA ReapsKeeps ==
  ASSUME MicInv, Reaps
  PROVE  MicInv'
<1> DEFINE x == mic.worker
           n == IF view.seq % 2 = 1 THEN view.seq + 1 ELSE view.seq
<1>1. /\ x \in Workers /\ mic.state = "up" /\ view.reads = 0
      /\ mic' = [mic EXCEPT !.worker = NoWorker] /\ work' = [work EXCEPT ![x].state = "none"]
      /\ view' = [view EXCEPT !.running = FALSE, !.seq = n, !.step = 0]
  BY DEF MicInv, MicType, MicRec, Reaps, InUse, Cleared
<1>2. mic' \in MicRec /\ mic'.state = "up" /\ mic'.worker = NoWorker
  BY <1>1 DEF MicInv, MicType, MicRec
<1>3. view.seq \in Nat
  BY DEF MicInv, MicType, ViewRec
<1>4. n \in Nat /\ n % 2 = 0
  BY <1>3
<1> HIDE DEF n
<1>5. /\ view' \in ViewRec /\ view'.seq = n /\ view'.step = 0 /\ ~view'.running
      /\ view'.told = view.told /\ view'.reads = 0
  BY <1>1, <1>4 DEF MicInv, MicType, ViewRec
<1>6. work' \in [Workers -> WorkRec] /\ work'[x].state = "none"
      /\ \A j \in Workers : work'[j].capture = work[j].capture /\ (j # x => work'[j] = work[j])
  BY <1>1 DEF MicInv, MicType, WorkRec
<1> HIDE DEF x
<1>7. \A j \in Workers : work[j].state = "zombie" => j = x
  BY DEF MicInv, WorkInv, x
<1>8. WorkInv'
  BY <1>2, <1>6, <1>7 DEF MicInv, WorkInv, InUse
<1>9. Written' /\ Copied'
  BY <1>2, <1>4, <1>5 DEF MicInv, Written, Copied, Unmoved
<1> QED
  BY <1>2, <1>5, <1>6, <1>8, <1>9 DEF MicInv, MicType

\* micd ends, and whoever waited for it to reap them is reaped with it.
LEMMA DownKeeps ==
  ASSUME MicInv, UNCHANGED view, mic' = [mic EXCEPT !.state = "down", !.worker = NoWorker],
         work' \in [Workers -> WorkRec],
         \A i \in Workers : work'[i].state # "zombie" /\ work'[i].capture = work[i].capture
  PROVE  MicInv'
<1>1. mic' \in MicRec /\ mic'.state = "down" /\ mic'.worker = NoWorker
  BY DEF MicInv, MicType, MicRec
<1>2. MicType' /\ WorkInv'
  BY <1>1 DEF MicInv, MicType, WorkInv, InUse
<1> QED
  BY <1>1, <1>2 DEF MicInv, Written, Copied, Unmoved

LEMMA MainKilledKeeps ==
  ASSUME MicInv, MainKilled
  PROVE  MicInv'
<1>1. ASSUME NEW i \in Workers
      PROVE  work'[i] \in WorkRec /\ work'[i].state # "zombie" /\ work'[i].capture = work[i].capture
  BY DEF MainKilled, MicInv, MicType, WorkRec
<1>2. work' \in [Workers -> WorkRec]
  BY <1>1 DEF MainKilled
<1> QED
  BY <1>1, <1>2, DownKeeps DEF MainKilled

LEMMA MainExitsKeeps ==
  ASSUME MicInv, MainExits
  PROVE  MicInv'
<1>1. CASE InUse
  <2> DEFINE x == mic.worker
  <2>1. x \in Workers /\ work' = [work EXCEPT ![x].state = "none"]
    BY <1>1 DEF MainExits, InUse, MicInv, MicType, MicRec
  <2>2. \A j \in Workers : work[j].state = "zombie" => j = x
    BY DEF MicInv, WorkInv
  <2> HIDE DEF x
  <2>3. work' \in [Workers -> WorkRec]
    BY <2>1 DEF MicInv, MicType, WorkRec
  <2>4. \A i \in Workers : work'[i].state # "zombie" /\ work'[i].capture = work[i].capture
    BY <2>1, <2>2 DEF MicInv, MicType, WorkRec
  <2> QED
    BY <2>3, <2>4, DownKeeps DEF MainExits
<1>2. CASE ~InUse
  <2>1. \A i \in Workers : work[i].state # "zombie"
    BY <1>2 DEF MicInv, WorkInv, InUse
  <2> QED
    BY <1>2, <2>1, DownKeeps DEF MainExits, MicInv, MicType
<1> QED
  BY <1>1, <1>2

LEMMA TermKeeps ==
  ASSUME MicInv, Term
  PROVE  MicInv'
<1>1. mic' \in MicRec /\ mic'.state = "stopping" /\ mic'.worker = mic.worker /\ UNCHANGED <<work, view>>
  BY DEF Term, MicInv, MicType, MicRec
<1> QED
  BY <1>1 DEF MicInv, MicType, WorkInv, Written, Copied, InUse, Unmoved

LEMMA MicStartsKeeps ==
  ASSUME NEW refused \in Refusals, MicInv, MicStarts(refused)
  PROVE  MicInv'
<1>1. mic' \in MicRec /\ mic'.state = "up" /\ mic'.worker = NoWorker
  BY DEF MicStarts, MicRec, Configured
<1>2. \A i \in Workers : work[i].state # "zombie"
  BY DEF MicStarts, MicInv, WorkInv, InUse
<1>3. view' = NoView /\ UNCHANGED work
  BY DEF MicStarts
<1>4. WorkInv'
  BY <1>1, <1>2, <1>3 DEF MicInv, WorkInv, InUse
<1>5. view' \in ViewRec /\ Written' /\ Copied'
  BY <1>3 DEF NoView, ViewRec, Beam, Glimpse, Written, Copied, Unmoved
<1> QED
  BY <1>1, <1>3, <1>4, <1>5 DEF MicInv, MicType

(* One step of the writer.  The count moves before the first and after the  *)
(* last word of a hop, and in between no reader can take it for settled.    *)
LEMMA PublishesKeeps ==
  ASSUME NEW i \in Workers, NEW v \in Nat, MicInv, Publishes(i, v)
  PROVE  MicInv'
<1> DEFINE n == view.seq + 1
<1>1. /\ UNCHANGED <<mic, work>> /\ mic.worker = i
      /\ view' = CASE view.step = 0 -> [view EXCEPT !.seq = n, !.step = 1]
                   [] view.step = 1 -> [view EXCEPT !.running = TRUE, !.lo = v, !.step = 2]
                   [] view.step = 2 -> [view EXCEPT !.hi = view.lo, !.step = 3]
                   [] OTHER -> [view EXCEPT !.seq = n, !.step = 0]
  BY DEF Publishes, Publishing
<1>2. view \in ViewRec /\ view.seq \in Nat /\ view.saw.seq \in Nat /\ view.step \in 0..3 /\ view.reads \in 0..3
      /\ view.saw \in Glimpse
  BY DEF MicInv, MicType, ViewRec, Glimpse
<1>3. n \in Nat /\ n > view.seq /\ (n % 2 = 0 <=> view.seq % 2 # 0)
  BY <1>2
<1>4. view.seq % 2 = 0 \/ view.step # 0
  BY DEF MicInv, Written
<1> HIDE DEF n
<1>5. WorkInv'
  BY <1>1 DEF MicInv, WorkInv, InUse
<1>6. InUse'
  BY <1>1 DEF InUse
<1>7. CASE view.step = 0
  <2>1. /\ view' \in ViewRec /\ view'.seq = n /\ view'.step = 1 /\ view'.saw = view.saw
        /\ view'.told = view.told /\ view'.reads = view.reads
    <3>1. view' = [view EXCEPT !.seq = n, !.step = 1] /\ 1 \in 0..3
      BY <1>1, <1>7
    <3>2. view' \in ViewRec /\ view'.seq = n /\ view'.step = 1
      BY <1>2, <1>3, <3>1 DEF ViewRec
    <3>3. view'.reads = view.reads /\ view'.saw = view.saw /\ view'.told = view.told
      BY <1>2, <1>3, <3>1 DEF ViewRec
    <3>4. view'.hi = view.hi /\ view'.lo = view.lo
      BY <1>2, <1>3, <3>1 DEF ViewRec
    <3>5. view'.running <=> view.running
      BY <1>2, <1>3, <3>1 DEF ViewRec
    <3> QED
      BY <3>2, <3>3, <3>4, <3>5
  <2>2. Written'
    BY <1>3, <1>6, <1>7, <2>1 DEF MicInv, Written
  <2>3. Copied'
    BY <1>2, <1>3, <2>1 DEF MicInv, Copied, Unmoved
  <2> QED
    BY <1>1, <1>5, <2>1, <2>2, <2>3 DEF MicInv, MicType
<1>8. CASE view.step = 1
  <2>1. /\ view' \in ViewRec /\ view'.seq = view.seq /\ view'.step = 2 /\ view'.saw = view.saw
        /\ view'.told = view.told /\ view'.reads = view.reads
    <3>1. view' = [view EXCEPT !.running = TRUE, !.lo = v, !.step = 2] /\ 2 \in 0..3
      BY <1>1, <1>8
    <3>2. view' \in ViewRec /\ view'.seq = view.seq /\ view'.step = 2
      BY <1>2, <3>1 DEF ViewRec
    <3>3. view'.reads = view.reads /\ view'.saw = view.saw /\ view'.told = view.told
      BY <1>2, <3>1 DEF ViewRec
    <3> QED
      BY <3>2, <3>3
  <2>2. Written'
    BY <1>6, <1>8, <2>1 DEF MicInv, Written
  <2>3. Copied'
    BY <1>2, <2>1 DEF MicInv, Copied, Unmoved
  <2> QED
    BY <1>1, <1>5, <2>1, <2>2, <2>3 DEF MicInv, MicType
<1>9. CASE view.step = 2
  <2>1. /\ view' \in ViewRec /\ view'.seq = view.seq /\ view'.step = 3 /\ view'.saw = view.saw
        /\ view'.told = view.told /\ view'.reads = view.reads /\ view'.hi = view.lo /\ view'.lo = view.lo
    <3>1. view' = [view EXCEPT !.hi = view.lo, !.step = 3] /\ view.lo \in Nat /\ 3 \in 0..3
      BY <1>1, <1>2, <1>9 DEF ViewRec
    <3>2. view'.hi = view.lo /\ view'.lo = view.lo
      BY <1>2, <3>1 DEF ViewRec
    <3>3. view' \in ViewRec /\ view'.seq = view.seq /\ view'.step = 3
      BY <1>2, <3>1 DEF ViewRec
    <3>4. view'.reads = view.reads /\ view'.saw = view.saw /\ view'.told = view.told
      BY <1>2, <3>1 DEF ViewRec
    <3> QED
      BY <3>2, <3>3, <3>4
  <2>2. Written'
    BY <1>6, <1>9, <2>1 DEF MicInv, Written
  <2>3. Copied'
    BY <1>2, <2>1 DEF MicInv, Copied, Unmoved
  <2> QED
    BY <1>1, <1>5, <2>1, <2>2, <2>3 DEF MicInv, MicType
<1>10. CASE view.step = 3
  <2>1. /\ view' \in ViewRec /\ view'.seq = n /\ view'.step = 0 /\ view'.saw = view.saw
        /\ view'.told = view.told /\ view'.reads = view.reads
        /\ view'.hi = view.hi /\ view'.lo = view.lo /\ (view'.running <=> view.running)
    <3>1. view' = [view EXCEPT !.seq = n, !.step = 0] /\ 0 \in 0..3
      BY <1>1, <1>10
    <3>2. view' \in ViewRec /\ view'.seq = n /\ view'.step = 0
      BY <1>2, <1>3, <3>1 DEF ViewRec
    <3>3. view'.reads = view.reads /\ view'.saw = view.saw /\ view'.told = view.told
      BY <1>2, <1>3, <3>1 DEF ViewRec
    <3>4. view'.hi = view.hi /\ view'.lo = view.lo
      BY <1>2, <1>3, <3>1 DEF ViewRec
    <3>5. view'.running <=> view.running
      BY <1>2, <1>3, <3>1 DEF ViewRec
    <3> QED
      BY <3>2, <3>3, <3>4, <3>5
  <2>2. Written'
    BY <1>3, <1>6, <1>10, <2>1 DEF MicInv, Written
  <2>3. Copied'
    BY <1>2, <1>3, <2>1 DEF MicInv, Copied, Unmoved
  <2> QED
    BY <1>1, <1>5, <2>1, <2>2, <2>3 DEF MicInv, MicType
<1> QED
  BY <1>2, <1>7, <1>8, <1>9, <1>10

(* One step of the reader.  What it reports it copied while the count stood *)
(* still and even: from a hop that was whole.                               *)
LEMMA ReadsKeeps ==
  ASSUME MicInv, Reads
  PROVE  MicInv'
<1>1. UNCHANGED <<mic, work>> /\ WorkInv'
  BY DEF Reads, MicInv, WorkInv, InUse
<1>2. /\ view \in ViewRec /\ view.seq \in Nat /\ view.saw.seq \in Nat /\ view.reads \in 0..3
      /\ view.saw \in Glimpse /\ view.running \in BOOLEAN /\ view.told \in Beam
  BY DEF MicInv, MicType, ViewRec, Glimpse
<1>3. ASSUME view' \in ViewRec, view'.seq = view.seq, view'.step = view.step, view'.lo = view.lo,
             view'.hi = view.hi, view'.running <=> view.running
      PROVE  MicType' /\ Written'
  BY <1>1, <1>3 DEF MicInv, MicType, Written, InUse
<1>4. CASE view.reads = 0 \/ (view.reads = 3 /\ ~Settled)
  <2> DEFINE x == [view.saw EXCEPT !.seq = view.seq]
  <2>1. view' = [view EXCEPT !.reads = 1, !.saw = x]
    BY <1>2, <1>4 DEF Reads, ViewRec, Glimpse
  <2>5. x \in Glimpse /\ x.seq = view.seq
    BY <1>2 DEF Glimpse
  <2> HIDE DEF x
  <2>2. /\ view' \in ViewRec /\ view'.seq = view.seq /\ view'.step = view.step /\ view'.lo = view.lo
        /\ view'.hi = view.hi /\ (view'.running <=> view.running)
        /\ view'.reads = 1 /\ view'.saw.seq = view.seq /\ view'.told = view.told
    <3>1. view'.saw = x /\ view'.told = view.told
      BY <1>2, <2>1, <2>5 DEF ViewRec
    <3>2. view' \in ViewRec /\ view'.seq = view.seq /\ view'.step = view.step /\ view'.reads = 1
      <4>1. view'.seq = view.seq /\ view'.step = view.step /\ view'.reads = 1
        BY <1>2, <2>1, <2>5 DEF ViewRec
      <4>2. view' \in ViewRec
        BY <1>2, <2>1, <2>5, 1 \in 0..3 DEF ViewRec
      <4> QED
        BY <4>1, <4>2
    <3>3. view'.lo = view.lo /\ view'.hi = view.hi
      BY <1>2, <2>1, <2>5 DEF ViewRec
    <3>4. view'.running <=> view.running
      BY <1>2, <2>1, <2>5 DEF ViewRec
    <3> QED
      BY <2>5, <3>1, <3>2, <3>3, <3>4
  <2>3. Copied'
    BY <1>2, <2>2 DEF MicInv, Copied
  <2> QED
    BY <1>1, <1>3, <2>2, <2>3 DEF MicInv
<1>5. CASE view.reads = 1
  <2> DEFINE x == [view.saw EXCEPT !.lo = view.lo, !.running = view.running]
  <2>4. view' = [view EXCEPT !.reads = 2, !.saw.lo = view.lo, !.saw.running = view.running]
    BY <1>5 DEF Reads
  <2>1. view' = [view EXCEPT !.reads = 2, !.saw = x]
    BY <1>2, <2>4 DEF ViewRec, Glimpse
  <2>5. /\ x \in Glimpse /\ x.seq = view.saw.seq
        /\ x.lo = view.lo /\ (x.running <=> view.running)
    BY <1>2 DEF ViewRec, Glimpse
  <2> HIDE DEF x
  <2>2. /\ view' \in ViewRec /\ view'.seq = view.seq /\ view'.step = view.step /\ view'.lo = view.lo
        /\ view'.hi = view.hi /\ (view'.running <=> view.running)
        /\ view'.reads = 2 /\ view'.saw.seq = view.saw.seq /\ view'.saw.lo = view.lo
        /\ (view'.saw.running <=> view.running) /\ view'.told = view.told
    <3>1. view'.saw = x /\ view'.told = view.told
      BY <1>2, <2>1, <2>5 DEF ViewRec
    <3>2. view' \in ViewRec /\ view'.seq = view.seq /\ view'.step = view.step /\ view'.reads = 2
      <4>1. view'.seq = view.seq /\ view'.step = view.step /\ view'.reads = 2
        BY <1>2, <2>1, <2>5 DEF ViewRec
      <4>2. view' \in ViewRec
        BY <1>2, <2>1, <2>5, 2 \in 0..3 DEF ViewRec
      <4> QED
        BY <4>1, <4>2
    <3>3. view'.lo = view.lo /\ view'.hi = view.hi
      BY <1>2, <2>1, <2>5 DEF ViewRec
    <3>4. view'.running <=> view.running
      BY <1>2, <2>1, <2>5 DEF ViewRec
    <3> QED
      BY <2>5, <3>1, <3>2, <3>3, <3>4
  <2>3. Copied'
    BY <1>2, <1>5, <2>2 DEF MicInv, Copied
  <2> QED
    BY <1>1, <1>3, <2>2, <2>3 DEF MicInv
<1>6. CASE view.reads = 2
  <2> DEFINE x == [view.saw EXCEPT !.hi = view.hi]
  <2>1. view' = [view EXCEPT !.reads = 3, !.saw = x]
    BY <1>2, <1>6 DEF Reads, ViewRec, Glimpse
  <2>5. /\ x \in Glimpse /\ x.seq = view.saw.seq
        /\ x.lo = view.saw.lo /\ x.hi = view.hi /\ (x.running <=> view.saw.running)
    BY <1>2 DEF ViewRec, Glimpse
  <2> HIDE DEF x
  <2>2. /\ view' \in ViewRec /\ view'.seq = view.seq /\ view'.step = view.step /\ view'.lo = view.lo
        /\ view'.hi = view.hi /\ (view'.running <=> view.running)
        /\ view'.reads = 3 /\ view'.saw.seq = view.saw.seq /\ view'.saw.lo = view.saw.lo
        /\ view'.saw.hi = view.hi /\ (view'.saw.running <=> view.saw.running) /\ view'.told = view.told
    <3>1. view'.saw = x /\ view'.told = view.told
      BY <1>2, <2>1, <2>5 DEF ViewRec
    <3>2. view' \in ViewRec /\ view'.seq = view.seq /\ view'.step = view.step /\ view'.reads = 3
      <4>1. view'.seq = view.seq /\ view'.step = view.step /\ view'.reads = 3
        BY <1>2, <2>1, <2>5 DEF ViewRec
      <4>2. view' \in ViewRec
        BY <1>2, <2>1, <2>5, 3 \in 0..3 DEF ViewRec
      <4> QED
        BY <4>1, <4>2
    <3>3. view'.lo = view.lo /\ view'.hi = view.hi
      BY <1>2, <2>1, <2>5 DEF ViewRec
    <3>4. view'.running <=> view.running
      BY <1>2, <2>1, <2>5 DEF ViewRec
    <3> QED
      BY <2>5, <3>1, <3>2, <3>3, <3>4
  <2>3. Copied'
    BY <1>2, <1>6, <2>2 DEF MicInv, Copied, Unmoved
  <2> QED
    BY <1>1, <1>3, <2>2, <2>3 DEF MicInv
<1>7. CASE view.reads = 3 /\ Settled
  <2> DEFINE b == [running |-> view.saw.running, lo |-> view.saw.lo, hi |-> view.saw.hi]
  <2>1. view' = [view EXCEPT !.reads = 0, !.told = b]
    BY <1>7 DEF Reads
  <2>2. b \in Beam /\ (b.running => b.lo = b.hi)
    <3>1. Unmoved /\ view.reads = 3
      BY <1>7 DEF Settled, Unmoved, MicInv, Written
    <3>2. view.running => view.lo = view.hi
      BY <3>1 DEF Unmoved, MicInv, Written
    <3>3. view.saw.lo = view.lo /\ view.saw.hi = view.hi /\ (view.saw.running <=> view.running)
      BY <3>1 DEF MicInv, Copied
    <3> QED
      BY <1>2, <3>2, <3>3 DEF Beam, Glimpse
  <2> HIDE DEF b
  <2>3. /\ view' \in ViewRec /\ view'.seq = view.seq /\ view'.step = view.step /\ view'.lo = view.lo
        /\ view'.hi = view.hi /\ (view'.running <=> view.running) /\ view'.reads = 0 /\ view'.told = b
    <3>1. view' \in ViewRec /\ view'.seq = view.seq /\ view'.step = view.step /\ view'.reads = 0
      <4>1. view'.seq = view.seq /\ view'.step = view.step /\ view'.reads = 0
        BY <1>2, <2>1, <2>2 DEF ViewRec
      <4>2. view' \in ViewRec
        BY <1>2, <2>1, <2>2, 0 \in 0..3 DEF ViewRec
      <4> QED
        BY <4>1, <4>2
    <3>2. view'.lo = view.lo /\ view'.hi = view.hi /\ view'.told = b
      BY <1>2, <2>1, <2>2 DEF ViewRec
    <3>3. view'.running <=> view.running
      BY <1>2, <2>1, <2>2 DEF ViewRec
    <3> QED
      BY <3>1, <3>2, <3>3
  <2>4. Copied'
    BY <2>2, <2>3 DEF Copied
  <2> QED
    BY <1>1, <1>3, <2>3, <2>4 DEF MicInv
<1> QED
  BY <1>2, <1>4, <1>5, <1>6, <1>7

LEMMA GivesUpKeeps ==
  ASSUME MicInv, GivesUp
  PROVE  MicInv'
<1>1. /\ UNCHANGED <<mic, work>> /\ view' \in ViewRec /\ view'.seq = view.seq /\ view'.step = view.step
      /\ view'.lo = view.lo /\ view'.hi = view.hi /\ (view'.running <=> view.running)
      /\ view'.reads = 0 /\ view'.told = view.told
  BY DEF GivesUp, MicInv, MicType, ViewRec
<1> QED
  BY <1>1 DEF MicInv, MicType, WorkInv, Written, Copied, InUse

LEMMA MicStill == MicInv /\ UNCHANGED micVars => MicInv'
  BY DEF micVars, MicInv, MicType, WorkInv, Written, Copied, InUse, Unmoved

-----------------------------------------------------------------------------
(* The inference thread and the calls into it.                              *)
Frames == [at : Nat, vad : BOOLEAN, play : BOOLEAN, score : Scores]
DecoderRec == [window : [1..3 -> Frames], count : 0..3, until : Nat]
AnswerRec == [said : {"none", "yes", "no"}, before : Nat]
ThreadRec == [pc : {"wait", "load", "retire", "feed", "done"}, engine : Nat, made : Nat, spare : Nat,
              alive : SUBSET Nat, queue : Seq(Frames), block : Frames, dropped : 0..1, accept : Nat,
              stopping : BOOLEAN, failed : BOOLEAN, requested : BOOLEAN, cancelled : BOOLEAN,
              result : BOOLEAN, decoder : DecoderRec, pipe : Seq(Frames),
              asker : {"free", "reload", "join", "gone"}, answer : AnswerRec]
WakedRec == [state : {"connects", "up", "down"}, pulse : BOOLEAN, at : Nat, heard : Seq(Nat)]
ThreadType == k \in ThreadRec /\ w \in WakedRec

(* A request under way is either waited for or given up, has published      *)
(* nothing before it comes to retire an engine, and decides what is then    *)
(* answered; engines are numbered as they are made.                         *)
ModelInv ==
  /\ 1 <= k.engine /\ k.engine <= k.made /\ k.spare <= k.made
  /\ k.spare # k.engine /\ (k.spare # None => k.pc = "retire")
  /\ k.pc \in {"load", "retire"} => k.requested
  /\ k.requested /\ k.pc # "retire" => ~k.result
  /\ k.asker # "reload" /\ k.requested /\ k.pc # "retire" => k.cancelled
  /\ k.asker = "reload" => /\ k.answer.said = "none"
                           /\ k.engine = k.answer.before \/ (k.result /\ k.engine > k.answer.before)
                           /\ k.result => k.engine > k.answer.before
  /\ k.answer.said = "yes" => k.engine > k.answer.before
  /\ k.answer.said = "no" => k.engine = k.answer.before
  /\ k.asker # "gone" => k.alive = {k.engine} \union ({k.spare} \ {None})
  /\ k.pc = "feed" => ~k.failed

(* While the first model is in use: events published, then those in the     *)
(* pipe, are a lockout apart, and the decoder is locked as long after each. *)
EventInv ==
  k.made = 1 =>
    /\ \A i, j \in 1..Len(w.heard) : i < j => w.heard[j] - w.heard[i] >= Lockout
    /\ \A i, j \in 1..Len(k.pipe) : i < j => k.pipe[j].at - k.pipe[i].at >= Lockout
    /\ \A i \in 1..Len(w.heard), j \in 1..Len(k.pipe) : k.pipe[j].at - w.heard[i] >= Lockout
    /\ \A i \in 1..Len(w.heard) : w.heard[i] + Lockout <= k.decoder.until
    /\ \A j \in 1..Len(k.pipe) : k.pipe[j].at + Lockout <= k.decoder.until
WakeInv == ThreadType /\ ModelInv /\ EventInv

LEMMA WorkerFollows == WakeInv => WorkerTruthful
  BY DEF WakeInv, ThreadType, ModelInv, EventInv, WorkerTruthful

LEMMA ThreadStarted == k' = Started /\ w' = Fresh => WakeInv'
<1> SUFFICES ASSUME k' = Started, w' = Fresh PROVE WakeInv'
  OBVIOUS
<1>1. Silence \in Frames
  BY DEF Silence, Frames, Scores
<1>2. EmptyDecoder \in DecoderRec
  BY <1>1 DEF EmptyDecoder, DecoderRec
<1>3. ThreadType'
  BY <1>1, <1>2 DEF ThreadType, Started, Fresh, ThreadRec, WakedRec, AnswerRec
<1>4. ModelInv'
  BY DEF ModelInv, Started
<1>5. EventInv'
  BY DEF EventInv, Started, Fresh
<1> QED
  BY <1>3, <1>4, <1>5 DEF WakeInv

LEMMA ThreadBegins == k = Started /\ w = Fresh => WakeInv
<1> SUFFICES ASSUME k = Started, w = Fresh PROVE WakeInv
  OBVIOUS
<1>1. Silence \in Frames
  BY DEF Silence, Frames, Scores
<1>2. EmptyDecoder \in DecoderRec
  BY <1>1 DEF EmptyDecoder, DecoderRec
<1>3. ThreadType
  BY <1>1, <1>2 DEF ThreadType, Started, Fresh, ThreadRec, WakedRec, AnswerRec
<1>4. ModelInv
  BY DEF ModelInv, Started
<1>5. EventInv
  BY DEF EventInv, Started, Fresh
<1> QED
  BY <1>3, <1>4, <1>5 DEF WakeInv

(* What a step leaves alone: the model and its request, or the events.      *)
SameModel ==
  /\ k'.engine = k.engine /\ k'.made = k.made /\ k'.spare = k.spare /\ k'.alive = k.alive
  /\ k'.asker = k.asker /\ k'.answer = k.answer
  /\ (k'.requested <=> k.requested) /\ (k'.cancelled <=> k.cancelled) /\ (k'.result <=> k.result)
SameEvents == k'.pipe = k.pipe /\ k'.decoder = k.decoder /\ w'.heard = w.heard

LEMMA ModelSame ==
  ASSUME ModelInv, SameModel, k'.pc = "feed" => ~k'.failed,
         k'.pc = k.pc \/ (k.pc \notin {"load", "retire"} /\ k'.pc \notin {"load", "retire"})
  PROVE  ModelInv'
  BY DEF ModelInv, SameModel

LEMMA EventsSame == EventInv /\ SameEvents /\ k'.made \in {k.made, k.made + 1} /\ k.made \in Nat /\ 1 <= k.made
                    => EventInv'
  BY DEF EventInv, SameEvents

\* The thread takes up a request, its end, or the next block.
LEMMA WokenKeeps ==
  ASSUME WakeInv, Woken, UNCHANGED w
  PROVE  WakeInv'
<1>1. k \in ThreadRec /\ w' = w /\ w \in WakedRec /\ k.pc = "wait"
  BY DEF WakeInv, ThreadType, Woken
<1>2. CASE k.requested
  <2>1. k' = [k EXCEPT !.pc = "load"]
    BY <1>2 DEF Woken
  <2>2. k' \in ThreadRec
    BY <1>1, <2>1 DEF ThreadRec
  <2>3. k'.pc = "load" /\ ~(k'.pc = "feed")
    BY <1>1, <2>1 DEF ThreadRec
  <2>4. SameModel
    BY <1>1, <2>1 DEF SameModel, ThreadRec
  <2>5. SameEvents
    BY <1>1, <2>1 DEF SameEvents, ThreadRec
  <2>6. ModelInv'
    BY <1>1, <1>2, <2>3, <2>4 DEF WakeInv, ModelInv, SameModel
  <2>7. EventInv'
    BY <1>1, <2>4, <2>5, EventsSame DEF WakeInv, ModelInv, SameModel, ThreadRec
  <2> QED
    BY <1>1, <2>2, <2>6, <2>7 DEF WakeInv, ThreadType
<1>3. CASE ~k.requested /\ NothingToFeed
  <2>1. k' = [k EXCEPT !.pc = "done"]
    BY <1>3 DEF Woken
  <2>2. k' \in ThreadRec
    BY <1>1, <2>1 DEF ThreadRec
  <2>3. k'.pc = "done"
    BY <1>1, <2>1 DEF ThreadRec
  <2>4. SameModel
    BY <1>1, <2>1 DEF SameModel, ThreadRec
  <2>5. SameEvents
    BY <1>1, <2>1 DEF SameEvents, ThreadRec
  <2>6. ModelInv'
    BY <1>1, <2>3, <2>4, ModelSame DEF WakeInv
  <2>7. EventInv'
    BY <1>1, <2>4, <2>5, EventsSame DEF WakeInv, ModelInv, SameModel, ThreadRec
  <2> QED
    BY <1>1, <2>2, <2>6, <2>7 DEF WakeInv, ThreadType
<1>4. CASE ~k.requested /\ ~NothingToFeed
  <2> DEFINE b == Head(k.queue)
             q == Tail(k.queue)
  <2>1. k' = [k EXCEPT !.pc = "feed", !.block = b, !.queue = q]
    BY <1>4 DEF Woken
  <2>2. b \in Frames /\ q \in Seq(Frames) /\ ~k.failed
    <3>1. k.queue \in Seq(Frames) /\ k.queue # <<>> /\ ~k.failed
      BY <1>1, <1>4 DEF NothingToFeed, ThreadRec
    <3> QED
      BY <3>1, HeadTailProperties
  <2> HIDE DEF b, q
  <2>3. k' \in ThreadRec
    BY <1>1, <2>1, <2>2 DEF ThreadRec
  <2>4. k'.pc = "feed" /\ ~k'.failed
    BY <1>1, <2>1, <2>2 DEF ThreadRec
  <2>5. SameModel
    BY <1>1, <2>1 DEF SameModel, ThreadRec
  <2>6. SameEvents
    BY <1>1, <2>1 DEF SameEvents, ThreadRec
  <2>7. ModelInv'
    BY <1>1, <2>4, <2>5, ModelSame DEF WakeInv
  <2>8. EventInv'
    BY <1>1, <2>5, <2>6, EventsSame DEF WakeInv, ModelInv, SameModel, ThreadRec
  <2> QED
    BY <1>1, <2>3, <2>7, <2>8 DEF WakeInv, ThreadType
<1> QED
  BY <1>2, <1>3, <1>4

(* A load: published only while its request stands, and then with a new     *)
(* decoder; what it does not publish is what will be retired.               *)
LEMMA LoadsKeeps ==
  ASSUME NEW ok \in BOOLEAN, WakeInv, Loads(ok), UNCHANGED w
  PROVE  WakeInv'
<1> DEFINE new == k.made + 1
           al == k.alive \union {new}
<1>1. k \in ThreadRec /\ w' = w /\ w \in WakedRec /\ k.pc = "load"
  BY DEF WakeInv, ThreadType, Loads
<1>2. /\ new \in Nat /\ k.engine \in Nat /\ k.made \in Nat /\ k.spare \in Nat /\ al \in SUBSET Nat
      /\ new = k.made + 1 /\ al = k.alive \union {new} /\ k.answer.before \in Nat
  BY <1>1 DEF ThreadRec, AnswerRec
<1>3. EmptyDecoder \in DecoderRec /\ <<>> \in Seq(Frames)
  <2>1. Silence \in Frames
    BY DEF Silence, Frames, Scores
  <2> QED
    BY <2>1 DEF EmptyDecoder, DecoderRec
<1>4. k.requested /\ ~k.result /\ k.spare = None /\ 1 <= k.engine /\ k.engine <= k.made
  BY <1>1 DEF WakeInv, ModelInv
<1>5. CASE Published(ok)
  <2>1. k' = [k EXCEPT !.made = new, !.alive = al, !.pc = "retire", !.spare = k.engine, !.engine = new,
                       !.queue = <<>>, !.decoder = EmptyDecoder, !.failed = FALSE, !.result = TRUE]
    BY <1>1, <1>5 DEF Loads, Published, ThreadRec
  <2>2. k.asker = "reload" /\ k.answer.said = "none" /\ k.engine = k.answer.before
    BY <1>1, <1>4, <1>5 DEF WakeInv, ModelInv, Published
  <2> HIDE DEF new, al
  <2>3. k' \in ThreadRec
    BY ZenonT(60), <1>1, <1>2, <1>3, <2>1 DEF ThreadRec
  <2>4. /\ k'.made = new /\ k'.alive = al /\ k'.spare = k.engine /\ k'.engine = new
        /\ k'.pc = "retire"
    BY <1>1, <2>1 DEF ThreadRec
  <2>5. /\ k'.asker = k.asker /\ k'.answer = k.answer /\ k'.result
        /\ (k'.requested <=> k.requested)
    BY <1>1, <2>1 DEF ThreadRec
  <2>6. k.alive = {k.engine}
    BY <1>4, <2>2 DEF WakeInv, ModelInv
  <2>7. ModelInv'
    BY <1>2, <1>4, <2>2, <2>4, <2>5, <2>6 DEF ModelInv
  <2>8. EventInv'
    BY <1>2, <1>4, <2>4 DEF EventInv
  <2> QED
    BY <1>1, <2>3, <2>7, <2>8 DEF WakeInv, ThreadType
<1>6. CASE ~Published(ok) /\ ok
  <2>1. k' = [k EXCEPT !.made = new, !.alive = al, !.pc = "retire", !.spare = new, !.result = FALSE]
    BY <1>1, <1>6 DEF Loads, ThreadRec
  <2> HIDE DEF new, al
  <2>3. k' \in ThreadRec
    BY ZenonT(60), <1>1, <1>2, <2>1 DEF ThreadRec
  <2>4. /\ k'.made = new /\ k'.alive = al /\ k'.spare = new /\ k'.engine = k.engine
        /\ k'.pc = "retire" /\ k'.pipe = k.pipe /\ k'.decoder = k.decoder
    BY <1>1, <2>1 DEF ThreadRec
  <2>5. /\ k'.asker = k.asker /\ k'.answer = k.answer /\ ~k'.result
        /\ (k'.requested <=> k.requested)
    BY <1>1, <2>1 DEF ThreadRec
  <2>6. k.asker # "gone" => k.alive = {k.engine}
    BY <1>4 DEF WakeInv, ModelInv
  <2>7. ModelInv'
    BY <1>2, <1>4, <2>4, <2>5, <2>6 DEF WakeInv, ModelInv
  <2>8. EventInv'
    BY <1>2, <1>4, <2>4 DEF EventInv
  <2> QED
    BY <1>1, <2>3, <2>7, <2>8 DEF WakeInv, ThreadType
<1>7. CASE ~ok
  <2>1. k' = [k EXCEPT !.pc = "retire", !.spare = None, !.result = FALSE]
    BY <1>1, <1>7 DEF Loads, Published, ThreadRec
  <2>3. k' \in ThreadRec
    BY <1>1, <2>1 DEF ThreadRec
  <2>4. /\ k'.made = k.made /\ k'.alive = k.alive /\ k'.spare = None /\ k'.engine = k.engine
        /\ k'.pc = "retire" /\ k'.pipe = k.pipe /\ k'.decoder = k.decoder
    BY <1>1, <2>1 DEF ThreadRec
  <2>5. /\ k'.asker = k.asker /\ k'.answer = k.answer /\ ~k'.result
        /\ (k'.requested <=> k.requested)
    BY <1>1, <2>1 DEF ThreadRec
  <2>7. ModelInv'
    BY <1>2, <1>4, <2>4, <2>5 DEF WakeInv, ModelInv
  <2>8. EventInv'
    BY <1>1, <2>4 DEF WakeInv, EventInv
  <2> QED
    BY <1>1, <2>3, <2>7, <2>8 DEF WakeInv, ThreadType
<1> QED
  BY <1>5, <1>6, <1>7

\* The engine to retire is never the one in use.
LEMMA RetiresKeeps ==
  ASSUME WakeInv, Retires, UNCHANGED w
  PROVE  WakeInv'
<1> DEFINE al == k.alive \ {k.spare}
<1>1. k \in ThreadRec /\ w' = w /\ w \in WakedRec /\ k.pc = "retire"
  BY DEF WakeInv, ThreadType, Retires
<1>2. k' = [k EXCEPT !.alive = al, !.spare = None, !.requested = FALSE, !.pc = "wait"]
  BY <1>1 DEF Retires, ThreadRec
<1>3. al \in SUBSET Nat /\ k.engine \in Nat /\ k.made \in Nat /\ k.spare \in Nat
  BY <1>1 DEF ThreadRec
<1>4. k.asker # "gone" => al = {k.engine}
  BY <1>3 DEF WakeInv, ModelInv
<1> HIDE DEF al
<1>5. k' \in ThreadRec
  BY <1>1, <1>2, <1>3 DEF ThreadRec
<1>6. /\ k'.made = k.made /\ k'.alive = al /\ k'.spare = None /\ k'.engine = k.engine
      /\ k'.pc = "wait" /\ k'.pipe = k.pipe /\ k'.decoder = k.decoder
  BY <1>1, <1>2 DEF ThreadRec
<1>7. k'.asker = k.asker /\ k'.answer = k.answer /\ ~k'.requested /\ (k'.result <=> k.result)
  BY <1>1, <1>2 DEF ThreadRec
<1>8. ModelInv'
  BY <1>1, <1>3, <1>4, <1>6, <1>7 DEF WakeInv, ModelInv
<1>9. EventInv'
  BY <1>1, <1>6 DEF WakeInv, EventInv
<1> QED
  BY <1>1, <1>5, <1>8, <1>9 DEF WakeInv, ThreadType

LEMMA FeedFailsKeeps ==
  ASSUME WakeInv, FeedFails, UNCHANGED w
  PROVE  WakeInv'
<1>1. k \in ThreadRec /\ w' = w /\ w \in WakedRec /\ k.pc = "feed" /\ k' = [k EXCEPT !.failed = TRUE, !.pc = "wait"]
  BY DEF WakeInv, ThreadType, FeedFails
<1>2. k' \in ThreadRec
  BY <1>1 DEF ThreadRec
<1>3. k'.pc = "wait"
  BY <1>1 DEF ThreadRec
<1>4. SameModel
  BY <1>1 DEF SameModel, ThreadRec
<1>5. SameEvents
  BY <1>1 DEF SameEvents, ThreadRec
<1>6. ModelInv'
  BY <1>1, <1>3, <1>4, ModelSame DEF WakeInv
<1>7. EventInv'
  BY <1>1, <1>4, <1>5, EventsSame DEF WakeInv, ModelInv, SameModel, ThreadRec
<1> QED
  BY <1>1, <1>2, <1>6, <1>7 DEF WakeInv, ThreadType

\* Three scores have a peak.
LEMMA PeakIn ==
  ASSUME NEW win \in [1..3 -> Frames]
  PROVE  Peak(win) \in 1..3
<1> DEFINE P(i) == /\ \A j \in 1..3 : win[j].score <= win[i].score
                   /\ \A j \in 1..(i - 1) : win[j].score < win[i].score
<1>1. win[1].score \in Nat /\ win[2].score \in Nat /\ win[3].score \in Nat
  BY DEF Frames, Scores
<1>2. \E i \in 1..3 : P(i)
  <2>1. \A j \in 1..3 : j = 1 \/ j = 2 \/ j = 3
    OBVIOUS
  <2>2. CASE win[2].score <= win[1].score /\ win[3].score <= win[1].score
    <3>1. P(1)
      BY <1>1, <2>1, <2>2
    <3> QED
      BY <3>1
  <2>3. CASE win[1].score < win[2].score /\ win[3].score <= win[2].score
    <3>1. P(2)
      BY <1>1, <2>1, <2>3
    <3> QED
      BY <3>1
  <2>4. CASE win[1].score < win[3].score /\ win[2].score < win[3].score
    <3>1. P(3)
      BY <1>1, <2>1, <2>4
    <3> QED
      BY <3>1
  <2> QED
    BY <1>1, <2>2, <2>3, <2>4
<1> QED
  BY <1>2 DEF Peak

(* A block is scored.  What it makes an event of lies beyond the lockout of *)
(* the last one, and locks the decoder anew.                                *)
LEMMA FeedsKeeps ==
  ASSUME NEW score \in Scores, WakeInv, Feeds(score), UNCHANGED w
  PROVE  WakeInv'
<1> DEFINE d == Decoded(k.block, score)
           old == k.decoder
           win == <<old.window[2], old.window[3], [k.block EXCEPT !.score = score]>>
           peak == win[Peak(win)]
           event == Accepted(old, win, peak)
           pipe == k.pipe \o d.events
           dec == d.decoder
<1>1. k \in ThreadRec /\ w' = w /\ w \in WakedRec /\ k.pc = "feed" /\ Lockout \in Nat
  BY DEF WakeInv, ThreadType, Feeds
<1>2. k' = [k EXCEPT !.decoder = dec, !.pipe = pipe, !.pc = "wait"]
  BY DEF Feeds
<1>3. old \in DecoderRec /\ k.block \in Frames /\ k.pipe \in Seq(Frames)
  BY <1>1 DEF ThreadRec
<1>4. win \in [1..3 -> Frames]
  <2>1. [k.block EXCEPT !.score = score] \in Frames
    BY <1>3 DEF Frames
  <2>2. old.window[2] \in Frames /\ old.window[3] \in Frames
    BY <1>3 DEF DecoderRec
  <2> QED
    BY <2>1, <2>2
<1>5. peak \in Frames
  BY <1>4, PeakIn
<1>6. /\ dec = [window |-> win, count |-> IF old.count < 3 THEN old.count + 1 ELSE 3,
                until |-> IF event THEN peak.at + Lockout ELSE old.until]
      /\ d.events = IF event THEN <<peak>> ELSE <<>>
  BY DEF Decoded
<1>7. event => old.until <= peak.at
  BY <1>3, <1>5 DEF Accepted, Locked, DecoderRec, Frames
<1> HIDE DEF win, peak, event, d
<1>8. peak.at \in Nat /\ old.until \in Nat /\ old.count \in 0..3
  BY <1>3, <1>5 DEF Frames, DecoderRec
<1>9. dec \in DecoderRec /\ dec.until = IF event THEN peak.at + Lockout ELSE old.until
  <2> DEFINE c == IF old.count < 3 THEN old.count + 1 ELSE 3
             u == IF event THEN peak.at + Lockout ELSE old.until
  <2>1. c \in 0..3 /\ u \in Nat
    BY <1>1, <1>8
  <2>2. dec = [window |-> win, count |-> c, until |-> u]
    BY <1>6
  <2> HIDE DEF c, u, dec
  <2>3. dec \in DecoderRec /\ dec.until = u
    BY <1>4, <2>1, <2>2 DEF DecoderRec
  <2> QED
    BY <2>3 DEF u
<1>10. pipe = IF event THEN Append(k.pipe, peak) ELSE k.pipe
  <2>1. CASE event
    <3>1. pipe = k.pipe \o <<peak>>
      BY <1>6, <2>1
    <3> QED
      BY <1>3, <1>5, <2>1, <3>1, AppendIsConcat
  <2>2. CASE ~event
    <3>1. pipe = k.pipe \o <<>>
      BY <1>6, <2>2
    <3> QED
      BY <1>3, <2>2, <3>1, ConcatEmptySeq
  <2> QED
    BY <2>1, <2>2
<1>11. pipe \in Seq(Frames)
  BY <1>3, <1>5, <1>10, AppendProperties
<1> HIDE DEF pipe, dec
<1>12. k' \in ThreadRec
  BY <1>1, <1>2, <1>9, <1>11 DEF ThreadRec
<1>13. k'.pc = "wait" /\ k'.pipe = pipe /\ k'.decoder = dec
  BY <1>1, <1>2 DEF ThreadRec
<1>14. SameModel
  BY <1>1, <1>2 DEF SameModel, ThreadRec
<1>15. ModelInv'
  BY <1>1, <1>13, <1>14, ModelSame DEF WakeInv
<1>16. EventInv'
  <2> SUFFICES ASSUME k.made = 1
               PROVE /\ \A i, j \in 1..Len(w.heard) : i < j => w.heard[j] - w.heard[i] >= Lockout
                     /\ \A i, j \in 1..Len(pipe) : i < j => pipe[j].at - pipe[i].at >= Lockout
                     /\ \A i \in 1..Len(w.heard), j \in 1..Len(pipe) : pipe[j].at - w.heard[i] >= Lockout
                     /\ \A i \in 1..Len(w.heard) : w.heard[i] + Lockout <= dec.until
                     /\ \A j \in 1..Len(pipe) : pipe[j].at + Lockout <= dec.until
    BY <1>1, <1>13, <1>14 DEF EventInv, SameModel
  <2>1. CASE ~event
    BY <1>9, <1>10, <2>1 DEF WakeInv, EventInv
  <2>2. CASE event
    <3> DEFINE n == Len(k.pipe)
    <3>1. /\ n \in Nat /\ Len(pipe) = n + 1 /\ pipe[n + 1] = peak
          /\ \A j \in 1..n : pipe[j] = k.pipe[j] /\ k.pipe[j].at \in Nat
      <4>1. \A j \in 1..n : k.pipe[j] \in Frames
        BY <1>3, ElementOfSeq
      <4> QED
        BY <1>3, <1>5, <1>10, <2>2, <4>1, AppendProperties DEF Frames
    <3> HIDE DEF n
    <3>2. /\ \A i, j \in 1..Len(w.heard) : i < j => w.heard[j] - w.heard[i] >= Lockout
          /\ \A i, j \in 1..n : i < j => k.pipe[j].at - k.pipe[i].at >= Lockout
          /\ \A i \in 1..Len(w.heard), j \in 1..n : k.pipe[j].at - w.heard[i] >= Lockout
          /\ \A i \in 1..Len(w.heard) : w.heard[i] + Lockout <= old.until
          /\ \A j \in 1..n : k.pipe[j].at + Lockout <= old.until
      BY DEF n, WakeInv, EventInv
    <3>3. \A i \in 1..Len(w.heard) : w.heard[i] \in Nat
      BY <1>1, ElementOfSeq DEF WakedRec
    <3>4. dec.until = peak.at + Lockout /\ old.until <= peak.at
      BY <1>7, <1>9, <2>2
    <3>5. ASSUME NEW i \in 1..Len(pipe), NEW j \in 1..Len(pipe), i < j
          PROVE  pipe[j].at - pipe[i].at >= Lockout
      <4>1. i \in 1..n /\ (j \in 1..n \/ j = n + 1)
        BY <3>1, <3>5
      <4>2. CASE j \in 1..n
        BY <3>1, <3>2, <3>5, <4>1, <4>2
      <4>3. CASE j = n + 1
        <5>1. pipe[j] = peak /\ pipe[i] = k.pipe[i] /\ k.pipe[i].at \in Nat
              /\ k.pipe[i].at + Lockout <= old.until
          BY <3>1, <3>2, <4>1, <4>3
        <5> QED
          BY <1>1, <1>8, <3>4, <5>1
      <4> QED
        BY <4>1, <4>2, <4>3
    <3>6. ASSUME NEW i \in 1..Len(w.heard), NEW j \in 1..Len(pipe)
          PROVE  pipe[j].at - w.heard[i] >= Lockout
      <4>1. j \in 1..n \/ j = n + 1
        BY <3>1
      <4>2. CASE j \in 1..n
        BY <3>1, <3>2, <4>2
      <4>3. CASE j = n + 1
        <5>1. pipe[j] = peak /\ w.heard[i] + Lockout <= old.until /\ w.heard[i] \in Nat
          BY <3>1, <3>2, <3>3, <4>3
        <5> QED
          BY <1>1, <1>8, <3>4, <5>1
      <4> QED
        BY <4>1, <4>2, <4>3
    <3>7. ASSUME NEW i \in 1..Len(w.heard) PROVE w.heard[i] + Lockout <= dec.until
      <4>1. w.heard[i] + Lockout <= old.until /\ w.heard[i] \in Nat
        BY <3>2, <3>3
      <4> QED
        BY <1>1, <1>8, <3>4, <4>1
    <3>8. ASSUME NEW j \in 1..Len(pipe) PROVE pipe[j].at + Lockout <= dec.until
      <4>1. j \in 1..n \/ j = n + 1
        BY <3>1
      <4>2. CASE j \in 1..n
        <5>1. pipe[j].at + Lockout <= old.until /\ pipe[j].at \in Nat
          BY <3>1, <3>2, <4>2
        <5> QED
          BY <1>1, <1>8, <3>4, <5>1
      <4>3. CASE j = n + 1
        BY <1>1, <1>8, <3>1, <3>4, <4>3
      <4> QED
        BY <4>1, <4>2, <4>3
    <3> QED
      BY <3>2, <3>5, <3>6, <3>7, <3>8
  <2> QED
    BY <2>1, <2>2
<1> QED
  BY <1>1, <1>12, <1>15, <1>16 DEF WakeInv, ThreadType

\* set_word: refused while another request is under way, else waited for.
LEMMA AsksKeeps ==
  ASSUME WakeInv, k' = Asks, k.asker = "free", UNCHANGED w
  PROVE  WakeInv'
<1>1. k \in ThreadRec /\ w' = w /\ w \in WakedRec /\ k.engine \in Nat /\ k.made \in Nat
  BY DEF WakeInv, ThreadType, ThreadRec
<1>2. CASE k.stopping \/ k.requested
  <2> DEFINE a == [said |-> "no", before |-> k.engine]
  <2>1. k' = [k EXCEPT !.answer = a]
    BY <1>2 DEF Asks
  <2>2. a \in AnswerRec /\ a.said = "no" /\ a.before = k.engine
    BY <1>1 DEF AnswerRec
  <2> HIDE DEF a
  <2>3. k' \in ThreadRec
    BY <1>1, <2>1, <2>2 DEF ThreadRec
  <2>4. k'.pc = k.pc /\ k'.engine = k.engine /\ k'.made = k.made /\ k'.spare = k.spare
    BY <1>1, <2>1 DEF ThreadRec
  <2>5. k'.alive = k.alive /\ k'.asker = k.asker /\ k'.answer = a
    BY <1>1, <2>1 DEF ThreadRec
  <2>6. (k'.requested <=> k.requested) /\ (k'.cancelled <=> k.cancelled)
    BY <1>1, <2>1 DEF ThreadRec
  <2>7. (k'.result <=> k.result) /\ (k'.failed <=> k.failed)
    BY <1>1, <2>1 DEF ThreadRec
  <2>8. SameEvents
    BY <1>1, <2>1 DEF SameEvents, ThreadRec
  <2>9. ModelInv'
    BY <2>2, <2>4, <2>5, <2>6, <2>7 DEF WakeInv, ModelInv
  <2>10. EventInv'
    BY <1>1, <2>4, <2>8, EventsSame DEF WakeInv, ModelInv
  <2> QED
    BY <1>1, <2>3, <2>9, <2>10 DEF WakeInv, ThreadType
<1>3. CASE ~(k.stopping \/ k.requested)
  <2> DEFINE a == [said |-> "none", before |-> k.engine]
  <2>1. k' = [k EXCEPT !.requested = TRUE, !.cancelled = FALSE, !.result = FALSE, !.asker = "reload",
                       !.answer = a]
    BY <1>3 DEF Asks
  <2>2. a \in AnswerRec /\ a.said = "none" /\ a.before = k.engine
    BY <1>1 DEF AnswerRec
  <2> HIDE DEF a
  <2>3. k' \in ThreadRec
    BY ZenonT(60), <1>1, <2>1, <2>2 DEF ThreadRec
  <2>4. k'.pc = k.pc /\ k'.engine = k.engine /\ k'.made = k.made /\ k'.spare = k.spare
    BY <1>1, <2>1 DEF ThreadRec
  <2>5. k'.alive = k.alive /\ k'.asker = "reload" /\ k'.answer = a
    BY <1>1, <2>1 DEF ThreadRec
  <2>6. k'.requested /\ ~k'.result
    BY <1>1, <2>1 DEF ThreadRec
  <2>7. k'.failed <=> k.failed
    BY <1>1, <2>1 DEF ThreadRec
  <2>8. SameEvents
    BY <1>1, <2>1 DEF SameEvents, ThreadRec
  <2>9. ModelInv'
    BY <1>3, <2>2, <2>4, <2>5, <2>6, <2>7 DEF WakeInv, ModelInv
  <2>10. EventInv'
    BY <1>1, <2>4, <2>8, EventsSame DEF WakeInv, ModelInv
  <2> QED
    BY <1>1, <2>3, <2>9, <2>10 DEF WakeInv, ThreadType
<1> QED
  BY <1>2, <1>3

\* The wait for a reload ends: what is then said is what was published.
LEMMA ReloadKeeps ==
  ASSUME WakeInv, ReloadEnds \/ ReloadTimesOut, UNCHANGED w
  PROVE  WakeInv'
<1>1. k \in ThreadRec /\ w' = w /\ w \in WakedRec /\ k.asker = "reload" /\ k.answer \in AnswerRec
      /\ k.engine \in Nat /\ k.made \in Nat
  BY DEF WakeInv, ThreadType, ReloadEnds, ReloadTimesOut, ThreadRec
<1> DEFINE said == IF k.result THEN "yes" ELSE "no"
           a == [k.answer EXCEPT !.said = said]
           c == IF k.requested /\ ~k.result THEN TRUE ELSE k.cancelled
<1>2. k' = [k EXCEPT !.cancelled = c, !.asker = "free", !.answer = a]
  <2>1. CASE ReloadEnds
    BY <1>1, <2>1 DEF ReloadEnds, Answered, ThreadRec, AnswerRec
  <2>2. CASE ReloadTimesOut
    BY <1>1, <2>2 DEF ReloadTimesOut, Answered, ThreadRec, AnswerRec
  <2> QED
    BY <2>1, <2>2
<1>3. a \in AnswerRec /\ a.said = said /\ a.before = k.answer.before
  BY <1>1 DEF AnswerRec
<1>4. c \in BOOLEAN
  BY <1>1 DEF ThreadRec
<1>5. k.requested /\ ~k.result => c
  OBVIOUS
<1> HIDE DEF a, c
<1>6. k' \in ThreadRec
  BY <1>1, <1>2, <1>3, <1>4 DEF ThreadRec
<1>7. k'.pc = k.pc /\ k'.engine = k.engine /\ k'.made = k.made /\ k'.spare = k.spare
  BY <1>1, <1>2 DEF ThreadRec
<1>8. k'.alive = k.alive /\ k'.asker = "free" /\ k'.answer = a
  BY <1>1, <1>2 DEF ThreadRec
<1>9. (k'.requested <=> k.requested) /\ (k'.cancelled <=> c)
  BY <1>1, <1>2, <1>4 DEF ThreadRec
<1>10. (k'.result <=> k.result) /\ (k'.failed <=> k.failed)
  BY <1>1, <1>2 DEF ThreadRec
<1>11. SameEvents
  BY <1>1, <1>2 DEF SameEvents, ThreadRec
<1>12. ModelInv'
  BY <1>1, <1>3, <1>5, <1>7, <1>8, <1>9, <1>10 DEF WakeInv, ModelInv
<1>13. EventInv'
  BY <1>1, <1>7, <1>11, EventsSame DEF WakeInv, ModelInv
<1> QED
  BY <1>1, <1>6, <1>12, <1>13 DEF WakeInv, ThreadType

\* SIGTERM, and the thread joined.
LEMMA QuitsKeeps ==
  ASSUME WakeInv, k' = Stops, k.asker = "free", w' \in WakedRec, w'.heard = w.heard
  PROVE  WakeInv'
<1>1. k \in ThreadRec /\ k.engine \in Nat /\ k.made \in Nat /\ k' = [k EXCEPT !.stopping = TRUE, !.asker = "join"]
  BY DEF WakeInv, ThreadType, ThreadRec, Stops
<1>2. k' \in ThreadRec
  BY <1>1 DEF ThreadRec
<1>3. k'.pc = k.pc /\ k'.engine = k.engine /\ k'.made = k.made /\ k'.spare = k.spare
  BY <1>1 DEF ThreadRec
<1>4. k'.alive = k.alive /\ k'.asker = "join" /\ k'.answer = k.answer
  BY <1>1 DEF ThreadRec
<1>5. (k'.requested <=> k.requested) /\ (k'.cancelled <=> k.cancelled)
  BY <1>1 DEF ThreadRec
<1>6. (k'.result <=> k.result) /\ (k'.failed <=> k.failed)
  BY <1>1 DEF ThreadRec
<1>7. SameEvents
  BY <1>1 DEF SameEvents, ThreadRec
<1>8. ModelInv'
  BY <1>3, <1>4, <1>5, <1>6 DEF WakeInv, ModelInv
<1>9. EventInv'
  BY <1>1, <1>3, <1>7, EventsSame DEF WakeInv, ModelInv
<1> QED
  BY <1>2, <1>8, <1>9 DEF WakeInv, ThreadType

LEMMA JoinedKeeps ==
  ASSUME WakeInv, Joined, w' \in WakedRec, w'.heard = w.heard
  PROVE  WakeInv'
<1> DEFINE al == k.alive \ {k.engine}
<1>1. k \in ThreadRec /\ k.engine \in Nat /\ k.made \in Nat /\ k' = [k EXCEPT !.asker = "gone", !.alive = al]
      /\ k.pc = "done" /\ k.asker = "join"
  BY DEF WakeInv, ThreadType, ThreadRec, Joined
<1>2. al \in SUBSET Nat
  BY <1>1 DEF ThreadRec
<1> HIDE DEF al
<1>3. k' \in ThreadRec
  BY <1>1, <1>2 DEF ThreadRec
<1>4. k'.pc = k.pc /\ k'.engine = k.engine /\ k'.made = k.made /\ k'.spare = k.spare
  BY <1>1 DEF ThreadRec
<1>5. k'.asker = "gone" /\ k'.answer = k.answer
  BY <1>1 DEF ThreadRec
<1>6. (k'.requested <=> k.requested) /\ (k'.cancelled <=> k.cancelled)
  BY <1>1 DEF ThreadRec
<1>7. (k'.result <=> k.result) /\ (k'.failed <=> k.failed)
  BY <1>1 DEF ThreadRec
<1>8. SameEvents
  BY <1>1 DEF SameEvents, ThreadRec
<1>9. ModelInv'
  BY <1>1, <1>4, <1>5, <1>6, <1>7 DEF WakeInv, ModelInv
<1>10. EventInv'
  BY <1>1, <1>4, <1>8, EventsSame DEF WakeInv, ModelInv
<1> QED
  BY <1>3, <1>9, <1>10 DEF WakeInv, ThreadType

\* Sensitivity, and whatever does not touch the thread.
LEMMA SetThresholdKeeps ==
  ASSUME NEW t \in 1..3, WakeInv, k' = SetThreshold(t), UNCHANGED w
  PROVE  WakeInv'
<1>1. k \in ThreadRec /\ w \in WakedRec /\ w' = w /\ k' = [k EXCEPT !.accept = t] /\ t \in Nat
  BY DEF WakeInv, ThreadType, SetThreshold
<1>2. k' \in ThreadRec
  BY <1>1 DEF ThreadRec
<1>3. k'.pc = k.pc /\ (k'.failed <=> k.failed)
  BY <1>1 DEF ThreadRec
<1>4. SameModel
  BY <1>1 DEF SameModel, ThreadRec
<1>5. SameEvents
  BY <1>1 DEF SameEvents, ThreadRec
<1>6. ModelInv'
  BY <1>3, <1>4, ModelSame DEF WakeInv, ModelInv
<1>7. EventInv'
  BY <1>1, <1>4, <1>5, EventsSame DEF WakeInv, ModelInv, SameModel, ThreadRec
<1> QED
  BY <1>1, <1>2, <1>6, <1>7 DEF WakeInv, ThreadType

LEMMA ThreadStill ==
  ASSUME WakeInv, k' = k, w' \in WakedRec, w'.heard = w.heard
  PROVE  WakeInv'
<1>1. ModelInv'
  BY DEF WakeInv, ModelInv
<1> QED
  BY <1>1 DEF WakeInv, ThreadType, EventInv

\* A frame is queued, or dropped from a full queue.
LEMMA HearsKeeps ==
  ASSUME NEW b \in Frames, WakeInv, k' = Submitted(b), w' \in WakedRec, w'.heard = w.heard
  PROVE  WakeInv'
<1>1. k \in ThreadRec
  BY DEF WakeInv, ThreadType
<1> DEFINE q == Append(k.queue, b)
<1>2. q \in Seq(Frames)
  BY <1>1, AppendProperties DEF ThreadRec
<1>3. k' = [k EXCEPT !.dropped = 1] \/ k' = [k EXCEPT !.queue = q]
  BY <1>1 DEF Submitted, ThreadRec
<1> HIDE DEF q
<1>4. k' \in ThreadRec
  <2>1. CASE k' = [k EXCEPT !.dropped = 1]
    BY <1>1, <2>1, 1 \in 0..1 DEF ThreadRec
  <2>2. CASE k' = [k EXCEPT !.queue = q]
    BY <1>1, <1>2, <2>2 DEF ThreadRec
  <2> QED
    BY <1>3, <2>1, <2>2
<1>5. k'.pc = k.pc /\ (k'.failed <=> k.failed)
  BY <1>1, <1>3 DEF ThreadRec
<1>6. SameModel
  BY <1>1, <1>3 DEF SameModel, ThreadRec
<1>7. SameEvents
  BY <1>1, <1>3 DEF SameEvents, ThreadRec
<1>8. ModelInv'
  BY <1>5, <1>6, ModelSame DEF WakeInv, ModelInv
<1>9. EventInv'
  BY <1>1, <1>6, <1>7, EventsSame DEF WakeInv, ModelInv, SameModel, ThreadRec
<1> QED
  BY <1>4, <1>8, <1>9 DEF WakeInv, ThreadType

\* An event leaves the pipe for the subscribers, in its order.
LEMMA PublishEventKeeps ==
  ASSUME NEW ok \in BOOLEAN, WakeInv, PublishEvent(ok)
  PROVE  WakeInv'
<1> DEFINE p == Tail(k.pipe)
           e == Head(k.pipe)
           h == Append(w.heard, e.at)
<1>1. k \in ThreadRec /\ w \in WakedRec /\ k.pipe \in Seq(Frames) /\ k.pipe # <<>> /\ w.heard \in Seq(Nat)
      /\ Lockout \in Nat
  BY DEF WakeInv, ThreadType, PublishEvent, ThreadRec, WakedRec
<1>2. k' = [k EXCEPT !.pipe = p] /\ w' = [w EXCEPT !.pulse = ok, !.heard = h]
  BY <1>1 DEF PublishEvent, ThreadRec, WakedRec
<1>3. /\ p \in Seq(Frames) /\ e \in Frames /\ e = k.pipe[1] /\ Len(k.pipe) = Len(p) + 1 /\ Len(p) \in Nat
      /\ \A j \in 1..Len(p) : p[j] = k.pipe[j + 1]
  BY <1>1, HeadTailProperties
<1>4. /\ e.at \in Nat /\ h \in Seq(Nat) /\ Len(h) = Len(w.heard) + 1 /\ Len(w.heard) \in Nat
      /\ h[Len(w.heard) + 1] = e.at /\ \A i \in 1..Len(w.heard) : h[i] = w.heard[i]
  <2>1. e.at \in Nat
    BY <1>3 DEF Frames
  <2> QED
    BY <1>1, <2>1, AppendProperties
<1> HIDE DEF p, h, e
<1>5. k' \in ThreadRec /\ w' \in WakedRec
  BY <1>1, <1>2, <1>3, <1>4 DEF ThreadRec, WakedRec
<1>6. k'.pc = k.pc /\ (k'.failed <=> k.failed)
  BY <1>1, <1>2 DEF ThreadRec
<1>7. SameModel
  BY <1>1, <1>2 DEF SameModel, ThreadRec
<1>8. k'.pipe = p /\ k'.decoder = k.decoder /\ w'.heard = h
  BY <1>1, <1>2 DEF ThreadRec, WakedRec
<1>9. ModelInv'
  BY <1>6, <1>7, ModelSame DEF WakeInv, ModelInv
<1>10. EventInv'
  <2> SUFFICES ASSUME k.made = 1
               PROVE /\ \A i, j \in 1..Len(h) : i < j => h[j] - h[i] >= Lockout
                     /\ \A i, j \in 1..Len(p) : i < j => p[j].at - p[i].at >= Lockout
                     /\ \A i \in 1..Len(h), j \in 1..Len(p) : p[j].at - h[i] >= Lockout
                     /\ \A i \in 1..Len(h) : h[i] + Lockout <= k.decoder.until
                     /\ \A j \in 1..Len(p) : p[j].at + Lockout <= k.decoder.until
    BY <1>7, <1>8 DEF EventInv, SameModel
  <2> DEFINE n == Len(w.heard)
             m == Len(p)
  <2>1. /\ \A i, j \in 1..n : i < j => w.heard[j] - w.heard[i] >= Lockout
        /\ \A i, j \in 1..(m + 1) : i < j => k.pipe[j].at - k.pipe[i].at >= Lockout
        /\ \A i \in 1..n, j \in 1..(m + 1) : k.pipe[j].at - w.heard[i] >= Lockout
        /\ \A i \in 1..n : w.heard[i] + Lockout <= k.decoder.until
        /\ \A j \in 1..(m + 1) : k.pipe[j].at + Lockout <= k.decoder.until
    BY <1>3 DEF WakeInv, EventInv
  <2>2. n \in Nat /\ m \in Nat /\ Len(h) = n + 1 /\ h[n + 1] = e.at /\ e = k.pipe[1]
        /\ (\A i \in 1..n : h[i] = w.heard[i]) /\ \A j \in 1..m : p[j] = k.pipe[j + 1]
    BY <1>3, <1>4
  <2> HIDE DEF n, m
  <2>3. ASSUME NEW i \in 1..(n + 1), NEW j \in 1..(n + 1), i < j PROVE h[j] - h[i] >= Lockout
    <3>1. i \in 1..n /\ (j \in 1..n \/ j = n + 1) /\ 1 \in 1..(m + 1)
      BY <2>2, <2>3
    <3> QED
      BY <2>1, <2>2, <2>3, <3>1
  <2>4. ASSUME NEW i \in 1..m, NEW j \in 1..m, i < j PROVE p[j].at - p[i].at >= Lockout
    <3>1. i + 1 \in 1..(m + 1) /\ j + 1 \in 1..(m + 1) /\ i + 1 < j + 1
      BY <2>2, <2>4
    <3> QED
      BY <2>1, <2>2, <3>1
  <2>5. ASSUME NEW i \in 1..(n + 1), NEW j \in 1..m PROVE p[j].at - h[i] >= Lockout
    <3>1. (i \in 1..n \/ i = n + 1) /\ j + 1 \in 1..(m + 1) /\ 1 \in 1..(m + 1) /\ 1 < j + 1
      BY <2>2
    <3> QED
      BY <2>1, <2>2, <3>1
  <2>6. ASSUME NEW i \in 1..(n + 1) PROVE h[i] + Lockout <= k.decoder.until
    <3>1. (i \in 1..n \/ i = n + 1) /\ 1 \in 1..(m + 1)
      BY <2>2
    <3> QED
      BY <2>1, <2>2, <3>1
  <2>7. ASSUME NEW j \in 1..m PROVE p[j].at + Lockout <= k.decoder.until
    <3>1. j + 1 \in 1..(m + 1)
      BY <2>2
    <3> QED
      BY <2>1, <2>2, <3>1
  <2>8. Len(p) = m /\ Len(h) = n + 1
    BY <2>2 DEF m
  <2> QED
    BY <2>3, <2>4, <2>5, <2>6, <2>7, <2>8
<1> QED
  BY <1>5, <1>9, <1>10 DEF WakeInv, ThreadType

-----------------------------------------------------------------------------
(* The whole of it.                                                         *)
Bounded == /\ setup \in Setups /\ left \in [DOMAIN setup.left -> Nat] /\ "hops" \in DOMAIN setup.left
WholeInv == Bounded /\ MicInv /\ WakeInv

LEMMA BoundedKeeps ==
  ASSUME Bounded, UNCHANGED setup, Steady \/ \E b : Spend(b)
  PROVE  Bounded'
<1>1. CASE Steady
  BY <1>1 DEF Bounded, Steady
<1>2. CASE \E b : Spend(b)
  <2>1. PICK b : left[b] > 0 /\ left' = [left EXCEPT ![b] = left[b] - 1]
    BY <1>2 DEF Spend, Bounded
  <2>2. ASSUME b \in DOMAIN setup.left PROVE left[b] - 1 \in Nat
    BY <2>1, <2>2 DEF Bounded
  <2> QED
    BY <2>1, <2>2 DEF Bounded
<1> QED
  BY <1>1, <1>2

\* Every step pays for itself.
LEMMA NextPays == Next => UNCHANGED setup /\ (Steady \/ \E b : Spend(b))
  BY DEF Next, Kept, Engine, Alone, Led, Mixer

LEMMA WholeStart == Init => WholeInv
<1> SUFFICES ASSUME Init PROVE WholeInv
  OBVIOUS
<1>1. Bounded
  BY DEF Init, Bounded
<1>2. MicInv
  BY MicStarted DEF Init
<1>3. WakeInv
  BY ThreadBegins DEF Init
<1> QED
  BY <1>1, <1>2, <1>3 DEF WholeInv

(* The steps of waked's thread, of waked and of its clients.                *)
LEMMA EngineStep ==
  ASSUME WholeInv,
         \/ Engine(Steady /\ (Thread \/ ReloadEnds \/ \E s \in setup.scores : Feeds(s)))
         \/ Engine(Spend("faults") /\ (FeedFails \/ ReloadTimesOut))
  PROVE  MicInv' /\ WakeInv'
<1>1. UNCHANGED micVars /\ w' = w
  BY DEF Engine, wakeVars
<1>2. MicInv'
  BY <1>1, MicStill DEF WholeInv
<1>3. WakeInv
  BY DEF WholeInv
<1>4. CASE Thread
  <2>1. CASE Woken
    BY <1>2, <1>1, <1>3, <2>1, WokenKeeps
  <2>2. CASE Retires
    BY <1>2, <1>1, <1>3, <2>2, RetiresKeeps
  <2>3. ASSUME NEW ok \in BOOLEAN, Loads(ok) PROVE WakeInv'
    BY <1>1, <1>3, <2>3, LoadsKeeps
  <2> QED
    BY <1>2, <1>4, <2>1, <2>2, <2>3 DEF Thread
<1>5. ASSUME ReloadEnds \/ ReloadTimesOut PROVE WakeInv'
  BY <1>1, <1>3, <1>5, ReloadKeeps
<1>6. CASE FeedFails
  BY <1>2, <1>1, <1>3, <1>6, FeedFailsKeeps
<1>7. CASE \E s \in setup.scores : Feeds(s)
  <2>1. PICK s \in setup.scores : Feeds(s)
    BY <1>7
  <2>2. s \in Scores
    BY <2>1 DEF WholeInv, Bounded
  <2> QED
    BY <1>2, <1>1, <1>3, <2>1, <2>2, FeedsKeeps
<1>8. WakeInv'
  BY <1>4, <1>5, <1>6, <1>7 DEF Engine
<1> QED
  BY <1>2, <1>8

LEMMA MainStep ==
  ASSUME WholeInv,
         \/ \E f \in setup.frames : Hears(f.vad, f.play)
         \/ \E ok \in BOOLEAN : Expires(ok) \/ PublishEvent(ok)
         \/ TestWake(TRUE)
         \/ \E t \in 1..3 : SetSensitivity(t)
         \/ SetWord
         \/ \E kind \in Kinds, client \in {"agent", "other"} : Subscribe(client, kind)
         \/ \E c \in {"agent", "other"} : HangsUp(c)
  PROVE  MicInv' /\ WakeInv'
<1>1. UNCHANGED micVars
  BY DEF Hears, Expires, PublishEvent, TestWake, SetSensitivity, SetWord, Subscribe, HangsUp
<1>2. MicInv'
  BY <1>1, MicStill DEF WholeInv
<1>3. WakeInv /\ w \in WakedRec
  BY DEF WholeInv, WakeInv, ThreadType
<1>4. ASSUME NEW f \in setup.frames, Hears(f.vad, f.play) PROVE WakeInv'
  <2> DEFINE n == w.at + 1
             b == [at |-> n, vad |-> f.vad, play |-> f.play, score |-> 0]
  <2>1. w' = [w EXCEPT !.at = n] /\ k' = Submitted(b) /\ n \in Nat
    BY <1>3, <1>4 DEF Hears, WakedRec
  <2>2. f \in [vad : BOOLEAN, play : BOOLEAN]
    BY DEF WholeInv, Bounded
  <2> HIDE DEF n
  <2>3. w' \in WakedRec /\ w'.heard = w.heard
    BY <1>3, <2>1 DEF WakedRec
  <2>4. b \in Frames
    BY <2>1, <2>2 DEF Frames, Scores
  <2> HIDE DEF b
  <2> QED
    BY <1>3, <2>1, <2>3, <2>4, HearsKeeps
<1>5. ASSUME NEW ok \in BOOLEAN, Expires(ok) PROVE WakeInv'
  <2>1. k' = k /\ w' \in WakedRec /\ w'.heard = w.heard
    BY <1>3, <1>5 DEF Expires, WakedRec
  <2> QED
    BY <1>3, <2>1, ThreadStill
<1>6. ASSUME NEW ok \in BOOLEAN, PublishEvent(ok) PROVE WakeInv'
  BY <1>3, <1>6, PublishEventKeeps
<1>7. CASE TestWake(TRUE)
  <2>1. k' = k /\ w' \in WakedRec /\ w'.heard = w.heard
    BY <1>3, <1>7 DEF TestWake, WakedRec
  <2> QED
    BY <1>2, <1>3, <2>1, ThreadStill
<1>8. ASSUME NEW t \in 1..3, SetSensitivity(t) PROVE WakeInv'
  <2>1. w' = w /\ (k' = SetThreshold(t) \/ k' = k)
    BY <1>8 DEF SetSensitivity, wakeVars
  <2>2. CASE k' = SetThreshold(t)
    BY <1>3, <2>1, <2>2, SetThresholdKeeps
  <2>3. CASE k' = k
    BY <1>3, <2>1, <2>3, ThreadStill
  <2> QED
    BY <2>1, <2>2, <2>3
<1>9. CASE SetWord
  BY <1>2, <1>3, <1>9, AsksKeeps DEF SetWord, MainFree, wakeVars
<1>10. ASSUME NEW kind \in Kinds, NEW client \in {"agent", "other"}, Subscribe(client, kind) PROVE WakeInv'
  <2>1. k' = k /\ w' = w
    BY <1>10 DEF Subscribe
  <2> QED
    BY <1>3, <2>1, ThreadStill
<1>11. ASSUME NEW client \in {"agent", "other"}, HangsUp(client) PROVE WakeInv'
  <2>1. k' = k /\ w' = w
    BY <1>11 DEF HangsUp
  <2> QED
    BY <1>3, <2>1, ThreadStill
<1>12. WakeInv'
  BY <1>4, <1>5, <1>6, <1>7, <1>8, <1>9, <1>10, <1>11
<1> QED
  BY <1>2, <1>12

(* waked starts and ends.                                                   *)
LEMMA WakedStep ==
  ASSUME WholeInv,
         \/ \E r \in Refusals, i \in Workers : Connects(r, i)
         \/ MicLost \/ WakedDies \/ Quits \/ Closes \/ WakedStarts
  PROVE  MicInv' /\ WakeInv'
<1>1. MicInv /\ WakeInv /\ w \in WakedRec
  BY DEF WholeInv, WakeInv, ThreadType
<1>2. Ended \in WakedRec /\ Ended.heard = w.heard
  BY <1>1 DEF Ended, WakedRec
<1>3. ASSUME NEW r \in Refusals, NEW i \in Workers, Connects(r, i) PROVE MicInv' /\ WakeInv'
  <2>1. k' = k /\ w' \in WakedRec /\ w'.heard = w.heard
    BY <1>1, <1>3 DEF Connects, WakedRec
  <2>2. UNCHANGED micVars \/ Serves("waked", "mono", r, i)
    BY <1>3 DEF Connects
  <2> QED
    BY <1>1, <2>1, <2>2, ThreadStill, MicStill, ServesKeeps
<1>4. CASE MicLost
  BY <1>1, <1>2, <1>4, ThreadStill, MicStill DEF MicLost
<1>5. CASE WakedDies
  BY <1>1, <1>2, <1>5, ThreadStill, LeavesKeeps DEF WakedDies
<1>6. CASE Quits
  <2>1. w' \in WakedRec /\ w'.heard = w.heard
    BY <1>1, <1>6 DEF Quits, WakedRec
  <2> QED
    BY <1>1, <1>6, <2>1, QuitsKeeps, MicStill DEF Quits, MainFree
<1>7. CASE Closes
  BY <1>1, <1>2, <1>7, JoinedKeeps, LeavesKeeps DEF Closes
<1>8. CASE WakedStarts
  BY <1>1, <1>8, ThreadStarted, LeavesKeeps DEF WakedStarts
<1> QED
  BY <1>3, <1>4, <1>5, <1>6, <1>7, <1>8

(* The restart of the pair.                                                 *)
LEMMA RestartStep ==
  ASSUME WholeInv,
         \/ Notices \/ Restart \/ Terminates \/ Patience
         \/ \E i \in Workers : Sweeps(i)
         \/ \E r \in Refusals : Starts(r)
  PROVE  MicInv' /\ WakeInv'
<1>1. MicInv /\ WakeInv /\ w \in WakedRec
  BY DEF WholeInv, WakeInv, ThreadType
<1>2. k' = k /\ w' = w
  BY DEF Notices, Restart, Terminates, Patience, Sweeps, Starts, wakeVars
<1>3. WakeInv'
  BY <1>1, <1>2, ThreadStill
<1>4. CASE UNCHANGED micVars
  BY <1>3, <1>1, <1>4, MicStill
<1>5. CASE Term
  BY <1>3, <1>1, <1>5, TermKeeps
<1>6. CASE MainKilled
  BY <1>3, <1>1, <1>6, MainKilledKeeps
<1>7. CASE \E i \in Workers : KillWorker(i)
  BY <1>3, <1>1, <1>7, KillWorkerKeeps
<1>8. CASE \E r \in Refusals : MicStarts(r)
  BY <1>3, <1>1, <1>8, MicStartsKeeps
<1>9. \/ UNCHANGED micVars \/ Term \/ MainKilled \/ \E i \in Workers : KillWorker(i)
      \/ \E r \in Refusals : MicStarts(r)
  BY DEF Notices, Restart, Terminates, Patience, Sweeps, Starts
<1> QED
  BY <1>3, <1>4, <1>5, <1>6, <1>7, <1>8, <1>9

(* micd and its workers by themselves.                                      *)
LEMMA MicStep ==
  ASSUME WholeInv, UNCHANGED <<k, wakeVars, sup>>,
         \/ \E i \in Workers : Serves("raw", "raw", "none", i)
         \/ work' = Leaves("raw") /\ UNCHANGED <<mic, view>>
         \/ Reaps \/ MainExits \/ MainKilled \/ Reads \/ GivesUp
         \/ \E i \in Workers : WorkerEnds(i) \/ CaptureDies(i) \/ KillWorker(i) \/ Publishes(i, left.hops)
  PROVE  MicInv' /\ WakeInv'
<1>1. MicInv /\ WakeInv /\ w \in WakedRec /\ left.hops \in Nat
  BY DEF WholeInv, WakeInv, ThreadType, Bounded
<1>2. WakeInv'
  BY <1>1, ThreadStill DEF wakeVars
<1>3. CASE \E i \in Workers : Serves("raw", "raw", "none", i)
  BY <1>2, <1>1, <1>3, ServesKeeps DEF Refusals
<1>4. CASE work' = Leaves("raw") /\ UNCHANGED <<mic, view>>
  BY <1>2, <1>1, <1>4, LeavesKeeps
<1>5. CASE Reaps \/ MainExits \/ MainKilled
  <2>1. CASE Reaps
    BY <1>2, <1>1, <2>1, ReapsKeeps
  <2>2. CASE MainExits
    BY <1>2, <1>1, <2>2, MainExitsKeeps
  <2>3. CASE MainKilled
    BY <1>2, <1>1, <2>3, MainKilledKeeps
  <2> QED
    BY <1>5, <2>1, <2>2, <2>3
<1>6. CASE Reads \/ GivesUp
  <2>1. CASE Reads
    BY <1>2, <1>1, <2>1, ReadsKeeps
  <2>2. CASE GivesUp
    BY <1>2, <1>1, <2>2, GivesUpKeeps
  <2> QED
    BY <1>6, <2>1, <2>2
<1>7. ASSUME NEW i \in Workers, WorkerEnds(i) \/ CaptureDies(i) \/ KillWorker(i) \/ Publishes(i, left.hops)
      PROVE  MicInv'
  <2>1. CASE WorkerEnds(i)
    BY <1>1, <2>1, WorkerEndsKeeps
  <2>2. CASE CaptureDies(i)
    BY <1>1, <2>2, CaptureDiesKeeps
  <2>3. CASE KillWorker(i)
    BY <1>1, <2>3, KillWorkerKeeps
  <2>4. CASE Publishes(i, left.hops)
    BY <1>1, <2>4, PublishesKeeps
  <2> QED
    BY <1>7, <2>1, <2>2, <2>3, <2>4
<1>8. MicInv'
  BY <1>3, <1>4, <1>5, <1>6, <1>7
<1> QED
  BY <1>2, <1>8

LEMMA WholeStep == WholeInv /\ [Next]_vars => WholeInv'
<1>1. ASSUME WholeInv, Next PROVE WholeInv'
  <2>1. Bounded'
    BY <1>1, NextPays, BoundedKeeps DEF WholeInv
  <2>2. MicInv' /\ WakeInv'
    <3>1. CASE \/ Engine(Steady /\ (Thread \/ ReloadEnds \/ \E s \in setup.scores : Feeds(s)))
               \/ Engine(Spend("faults") /\ (FeedFails \/ ReloadTimesOut))
      BY <1>1, <3>1, EngineStep
    <3>2. CASE \/ \E f \in setup.frames : Hears(f.vad, f.play)
               \/ \E ok \in BOOLEAN : Expires(ok) \/ PublishEvent(ok)
               \/ TestWake(TRUE)
               \/ \E t \in 1..3 : SetSensitivity(t)
               \/ SetWord
               \/ \E kind \in Kinds, client \in {"agent", "other"} : Subscribe(client, kind)
               \/ \E c \in {"agent", "other"} : HangsUp(c)
      BY <1>1, <3>2, MainStep
    <3>3. CASE \/ \E r \in Refusals, i \in Workers : Connects(r, i)
               \/ MicLost \/ WakedDies \/ Quits \/ Closes \/ WakedStarts
      BY <1>1, <3>3, WakedStep
    <3>4. CASE \/ Notices \/ Restart \/ Terminates \/ Patience
               \/ \E i \in Workers : Sweeps(i)
               \/ \E r \in Refusals : Starts(r)
      BY <1>1, <3>4, RestartStep
    <3>5. CASE /\ UNCHANGED <<k, wakeVars, sup>>
               /\ \/ \E i \in Workers : Serves("raw", "raw", "none", i)
                  \/ work' = Leaves("raw") /\ UNCHANGED <<mic, view>>
                  \/ Reaps \/ MainExits \/ MainKilled \/ Reads \/ GivesUp
                  \/ \E i \in Workers : \/ WorkerEnds(i) \/ CaptureDies(i) \/ KillWorker(i)
                                        \/ Publishes(i, left.hops)
      BY <1>1, <3>5, MicStep
    <3> QED
      BY <1>1, <3>1, <3>2, <3>3, <3>4, <3>5 DEF Next, Alone
  <2> QED
    BY <2>1, <2>2 DEF WholeInv
<1>2. ASSUME WholeInv, UNCHANGED vars PROVE WholeInv'
  <2>1. MicInv' /\ WakeInv'
    BY <1>2, MicStill, ThreadStill DEF vars, wakeVars, WholeInv, WakeInv, ThreadType
  <2> QED
    BY <1>2, <2>1 DEF vars, WholeInv, Bounded
<1> QED
  BY <1>1, <1>2

LEMMA WholeAlways == Spec => []WholeInv
  BY WholeStart, WholeStep, PTL DEF Spec

(* What waked answers to set_word is what its thread does, now and however  *)
(* late a load ends (le_wake_worker_reload, worker_main): an accepted word  *)
(* is served by an engine made since, a refused one by the engine that was  *)
(* there, no engine is lost or used after it failed, and with one model two *)
(* events are never closer than the lockout.                                *)
THEOREM WorkerAlwaysTruthful == Spec => []WorkerTruthful
<1>1. WholeInv => WorkerTruthful
  BY WorkerFollows DEF WholeInv
<1> QED
  BY <1>1, WholeAlways, PTL

(* micd's bookkeeping of its workers, and the beams format_beams reports:   *)
(* however workers, captures and daemons end, one program at most has the   *)
(* codec, micd waits for exactly the worker there is, and what a reader     *)
(* reports was written by one hop.                                          *)
THEOREM CaptureAlwaysTruthful == Spec => []CaptureTruthful
<1>1. WholeInv => CaptureTruthful
  BY CaptureFollows DEF WholeInv
<1> QED
  BY <1>1, WholeAlways, PTL
=============================================================================
