------------------------- MODULE TimerDaemonProofs -------------------------
(***************************************************************************)
(* Proofs about TimerDaemon for every number of slots, every clock unit,   *)
(* every set of labels and requests, and with all the I/O faults.          *)
(*                                                                         *)
(* The invariant of the id proof is TypeOK /\ IdsUnique: an id is fresh    *)
(* because every live id is below nextId, which is the first conjunct of   *)
(* IdsUnique and the reason why the second one is inductive.               *)
(*                                                                         *)
(* The last part is about StreamService, which shares nothing with it:     *)
(* internet radio and discovery, for every number of players, tries,       *)
(* segments and clients, and for every scene but those StreamsAlwaysHonest *)
(* leaves out.                                                             *)
(***************************************************************************)
EXTENDS TimerDaemon, StreamService, FiniteSetTheorems, WellFoundedInduction, TLAPS

USE ScheduleAssumption, DaemonAssumption

\* What a situation may contain.
LEMMA SetupType ==
  ASSUME setup \in Setups
  PROVE  /\ setup.durations \subseteq Int /\ setup.alarms \subseteq Int
         /\ setup.labels \subseteq LabelOrNone /\ setup.remotes \subseteq RemoteIds
         /\ setup.legacy \subseteq Int /\ setup.skews \subseteq Nat
  BY DEF Setup

\* The wall clock reads a whole number of seconds.
LEMMA EpochType == TypeOK => Epoch \in Nat
  BY SMT DEF TypeOK, Epoch, WallMs

\* Conversions between the units yield integers, whatever the rounding.
LEMMA TruncDivType ==
  ASSUME NEW a \in Int, NEW b \in Nat \ {0}
  PROVE  TruncDiv(a, b) \in Int
  BY SMT DEF TruncDiv

LEMMA FreeTimerType == FreeTimer \in Timer
  BY DEF FreeTimer, Timer, Kinds, LabelOrNone

LEMMA FreeSlotsType ==
  ASSUME NEW tab \in [Slots -> Timer], NEW sel
  PROVE  FreeSlots(tab, sel) \in [Slots -> Timer]
  BY FreeTimerType DEF FreeSlots

LEMMA StepTableType ==
  ASSUME NEW tab \in [Slots -> Timer], NEW ms \in Int, NEW epoch
  PROVE  StepTable(tab, ms, epoch) \in [Slots -> Timer]
<1> SUFFICES ASSUME NEW t \in Timer PROVE StepTimer(t, ms, epoch) \in Timer
  BY DEF StepTable
<1>1. [t EXCEPT !.state = "ringing", !.ringStart = ms] \in Timer
  BY DEF Timer
<1> QED
  BY <1>1, FreeTimerType DEF StepTimer

\* A record made from a pending timer is one the file may hold.
LEMMA SnapshotType ==
  ASSUME NEW tab \in [Slots -> Timer], NEW ms \in Int, NEW epoch \in Int
  PROVE  Snapshot(tab, ms, epoch) \in FileType
<1> SUFFICES ASSUME NEW t \in Timer PROVE RecordOf(t, ms, epoch) \in Record
  BY DEF Snapshot, FileType
<1>1. t.dueMs \in Int /\ t.dueEpoch \in Int /\ t.kind \in Kinds /\ t.id \in Nat
      /\ t.label \in LabelOrNone /\ t.want \in Int
  BY DEF Timer
<1>2. TruncDiv(t.dueMs - ms, MsPerSec) \in Int
  BY <1>1, TruncDivType
<1> QED
  BY <1>1, <1>2 DEF RecordOf, Record

\* The number of timers dropped in one step is a natural number.
LEMMA MissedCountType ==
  ASSUME NEW tab, NEW ms, NEW epoch
  PROVE  MissedCount(tab, ms, epoch) \in Nat
<1>1. IsFiniteSet(Slots)
  BY FS_Interval DEF Slots
<1>2. IsFiniteSet({i \in Slots : Missed(tab[i], ms, epoch)})
  BY <1>1, FS_Subset
<1> QED
  BY <1>2, FS_CardinalityType DEF MissedCount

\* A restored slot is a timer: what the file holds is what it is made from.
LEMMA RestoredType ==
  ASSUME NEW rec \in Record, NEW id \in Nat, NEW ms \in Int, NEW epoch \in Int
  PROVE  Restored(rec, id, ms, epoch) \in Timer
<1>1. rec.due \in Int /\ rec.kind \in Kinds /\ rec.label \in LabelOrNone
      /\ rec.want \in Int
  BY DEF Record
<1> QED
  BY <1>1 DEF Restored, Timer

LEMMA NewTimerType ==
  ASSUME NEW id \in Nat, NEW n \in Int, NEW label \in LabelOrNone,
         NEW ms \in Int, NEW want \in Int
  PROVE  /\ NewCountdown(id, n, label, ms, want) \in Timer
         /\ NewAlarm(id, n, label, want) \in Timer
  BY DEF NewCountdown, NewAlarm, Timer, Kinds

LEMMA RemoteType ==
  ASSUME NEW tab \in [RemoteIds -> RemoteTimer], NEW ms \in Int
  PROVE  RemoteExpired(tab, ms) \in [RemoteIds -> RemoteTimer]
  BY DEF RemoteExpired, RemoteTimer, NoRemote

\* poll's deadline is an instant of the monotonic clock.
LEMMA DeadlinesType ==
  ASSUME TypeOK
  PROVE  PollDeadlines \subseteq Int
<1> USE DEF TypeOK
<1>1. Epoch \in Int
  BY EpochType
<1>2. \A i \in Slots : /\ timers[i].dueMs \in Int /\ timers[i].dueEpoch \in Int
                       /\ timers[i].ringStart \in Int
  BY DEF Timer
<1>3. \A x \in RemoteIds : remote[x].ringStart \in Int
  BY DEF RemoteTimer
<1>4. \A at \in Int : NotBefore(at, mono) \in Int
  BY DEF NotBefore
<1>5. \A i \in Slots :
        /\ NotBefore(timers[i].ringStart + RingSeconds * MsPerSec, mono) \in Int
        /\ NotBefore(timers[i].dueMs, mono) \in Int
        /\ NotBefore(mono + (timers[i].dueEpoch - Epoch) * MsPerSec, mono) \in Int
  BY <1>1, <1>2, <1>4
<1>6. ScheduleDeadlines(timers, mono, Epoch) \subseteq Int
  BY <1>5 DEF ScheduleDeadlines, RingingSlots, PendingSlots
<1>7. \A x \in RemoteIds :
        NotBefore(remote[x].ringStart + RingSeconds * MsPerSec, mono) \in Int
  BY <1>3, <1>4
<1>8. NotBefore(nextRing, mono) \in Int
  BY <1>4
<1> QED
  BY <1>6, <1>7, <1>8 DEF PollDeadlines, RemoteRinging

\* A save leaves a well-formed file and well-formed survivors.
LEMMA SaveType ==
  ASSUME TypeOK, SaveOk \/ SaveFailed
  PROVE  file' \in FileType /\ survivors' \in SUBSET FileType
         /\ commitPending' \in BOOLEAN
<1> USE DEF TypeOK
<1>1. Snapshot(timers, mono, Epoch) \in FileType
  BY SnapshotType, EpochType
<1>2. AfterBackup \in SUBSET FileType
  BY DEF AfterBackup
<1>3. CASE SaveOk
  BY <1>1, <1>3 DEF SaveOk
<1>4. CASE SaveNotWritten
  BY <1>4 DEF SaveNotWritten
<1>5. CASE SaveNotRenamed
  BY <1>2, <1>5 DEF SaveNotRenamed
<1>6. CASE SaveNotDurable
  BY <1>1, <1>2, <1>6 DEF SaveNotDurable
<1> QED
  BY <1>3, <1>4, <1>5, <1>6 DEF SaveFailed

LEMMA FreshType ==
  ASSUME FreshContext
  PROVE  /\ timers' \in [Slots -> Timer] /\ nextId' \in Nat /\ missed' \in Nat
         /\ remote' \in [RemoteIds -> RemoteTimer] /\ nextRing' \in Nat
         /\ dirty' \in BOOLEAN /\ loaded' \in BOOLEAN
         /\ commitPending' \in BOOLEAN
         /\ loadFrom' \in {"top", "step", "save", "exit"}
         /\ cursor' \in Nat /\ deadline' \in Int
<1>1. NoRemote \in RemoteTimer
  BY DEF NoRemote, RemoteTimer
<1>2. timers' \in [Slots -> Timer] /\ remote' \in [RemoteIds -> RemoteTimer]
  BY <1>1, FreeTimerType DEF FreshContext
<1>3. dirty' \in BOOLEAN /\ loaded' \in BOOLEAN /\ commitPending' \in BOOLEAN
  BY Zenon DEF FreshContext
<1> QED
  BY <1>2, <1>3 DEF FreshContext

-----------------------------------------------------------------------------
LEMMA InitType == Init => TypeOK
<1> SUFFICES ASSUME Init PROVE TypeOK
  OBVIOUS
<1>1. \A d \in setup.legacy : LegacyFile(d) \in FileType
  <2> TAKE d \in setup.legacy
  <2>0. d \in Int
    BY SetupType DEF Init
  <2>1. TrueTime(d) \in Int
    BY <2>0 DEF TrueTime
  <2>2. [kind |-> "countdown", id |-> 0, due |-> d, label |-> NoLabel,
         want |-> TrueTime(d)] \in Record
    BY <2>0, <2>1 DEF Record, Kinds, LabelOrNone
  <2> QED
    BY <2>2 DEF LegacyFile, FileType
<1>2. file \in FileType
  BY <1>1 DEF Init, FileType
<1>3. NoRemote \in RemoteTimer
  BY DEF NoRemote, RemoteTimer
<1>4. phase \in Phases
  BY DEF Init, Phases
<1>5. timers \in [Slots -> Timer] /\ remote \in [RemoteIds -> RemoteTimer]
  BY <1>3, FreeTimerType DEF Init
<1>6. /\ dirty \in BOOLEAN /\ loaded \in BOOLEAN /\ commitPending \in BOOLEAN
      /\ synced \in BOOLEAN
  BY Zenon DEF Init
<1> QED
  BY <1>2, <1>4, <1>5, <1>6 DEF Init, TypeOK

LEMMA LoopType == TypeOK /\ Loop /\ UNCHANGED setup => TypeOK'
<1> SUFFICES ASSUME TypeOK, Loop, UNCHANGED setup PROVE TypeOK'
  OBVIOUS
<1> USE DEF schedule, ctx, clocks, disk, Phases
<1>1. CASE LoopTop
  BY <1>1 DEF LoopTop, StartLoad, TypeOK
<1>2. ASSUME LoadDone PROVE TypeOK'
  BY <1>2 DEF LoadDone, TypeOK
<1>3. CASE LoadSkip
  BY <1>3 DEF LoadSkip, TypeOK
<1>4. CASE LoadLine
  <2>1. file[cursor] \in Record
    BY <1>4 DEF LoadLine, IsFile, TypeOK, FileType
  <2>2. RestoreId(file[cursor], nextId) \in Nat
    BY <2>1 DEF RestoreId, Record, TypeOK
  <2>3. Restored(file[cursor], RestoreId(file[cursor], nextId), mono, Epoch) \in Timer
    BY <2>1, <2>2, RestoredType, EpochType DEF TypeOK
  <2>4. NextIdAfterRestore(nextId, RestoreId(file[cursor], nextId)) \in Nat
    BY <2>2 DEF NextIdAfterRestore, TypeOK
  <2>5. timers' \in [Slots -> Timer] /\ nextId' \in Nat /\ missed' \in Nat
        /\ cursor' \in Nat
    BY <1>4, <2>3, <2>4 DEF LoadLine, TypeOK
  <2> QED
    BY <1>4, <2>5 DEF LoadLine, TypeOK
<1>5. CASE Step
  <2>1. timers' \in [Slots -> Timer]
    BY <1>5, StepTableType DEF Step, TypeOK
  <2>2. remote' \in [RemoteIds -> RemoteTimer]
    BY <1>5, RemoteType DEF Step, TypeOK
  <2>3. missed' \in Nat
    BY <1>5, MissedCountType DEF Step, TypeOK
  <2>4. phase' \in Phases /\ deadline' \in Int /\ nextRing' \in Nat
        /\ dirty' \in BOOLEAN
    BY <1>5 DEF Step, TypeOK
  <2> QED
    BY <1>5, <2>1, <2>2, <2>3, <2>4 DEF Step, TypeOK
<1>6. CASE CueDone
  BY <1>6 DEF CueDone, TypeOK
<1>7. ASSUME EnterPoll PROVE deadline' \in Int /\ phase' \in Phases
  BY <1>7, DeadlinesType DEF EnterPoll
<1>8. CASE NothingToSave
  BY <1>7, <1>8 DEF NothingToSave, TypeOK
<1>9. CASE LoadBeforeSave
  BY <1>9 DEF LoadBeforeSave, StartLoad, TypeOK
<1>10. CASE SaveIfDirty
  <2>1. file' \in FileType /\ survivors' \in SUBSET FileType
        /\ commitPending' \in BOOLEAN
    BY <1>10, SaveType DEF SaveIfDirty
  <2> QED
    BY <1>7, <1>10, <2>1 DEF SaveIfDirty, TypeOK
<1>11. CASE LoopAgain
  BY <1>11 DEF LoopAgain, TypeOK
<1>12. CASE SaveOnExit
  BY <1>12, SaveType DEF SaveOnExit, TypeOK
<1>13. CASE Exited
  BY <1>13, FreshType DEF Exited, TypeOK
<1> QED
  BY <1>1, <1>2, <1>3, <1>4, <1>5, <1>6, <1>8, <1>9, <1>10, <1>11, <1>12,
     <1>13 DEF Loop, LoadSteps, LoadNoFile, LoadEnd

LEMMA RequestType == TypeOK /\ LocalRequest /\ UNCHANGED setup => TypeOK'
<1> SUFFICES ASSUME TypeOK, LocalRequest, UNCHANGED setup PROVE TypeOK'
  OBVIOUS
<1> USE DEF schedule, ctx, clocks, disk, Phases
<1>1. ASSUME NEW s \in setup.durations, NEW l \in setup.labels, AddCountdown(s, l)
      PROVE  TypeOK'
  <2>0. s \in Int /\ l \in LabelOrNone
    BY <1>1, SetupType DEF TypeOK
  <2>1. NewCountdown(nextId, s, l, mono, real + s * MsPerSec) \in Timer
    BY <2>0, NewTimerType DEF TypeOK
  <2>2. timers' \in [Slots -> Timer]
    BY <1>1, <2>1 DEF AddCountdown, TypeOK
  <2> QED
    BY <1>1, <2>2 DEF AddCountdown, Served, TypeOK
<1>2. ASSUME NEW s \in setup.alarms, NEW l \in setup.labels, AddAlarm(Epoch + s, l)
      PROVE  TypeOK'
  <2>0. s \in Int /\ l \in LabelOrNone
    BY <1>2, SetupType DEF TypeOK
  <2>1. Epoch + s \in Int
    BY <2>0, EpochType
  <2>2. TrueTime(Epoch + s) \in Int
    BY <2>1 DEF TrueTime
  <2>3. NewAlarm(nextId, Epoch + s, l, TrueTime(Epoch + s)) \in Timer
    BY <2>0, <2>1, <2>2, NewTimerType DEF TypeOK
  <2>4. timers' \in [Slots -> Timer]
    BY <1>2, <2>3 DEF AddAlarm, TypeOK
  <2> QED
    BY <1>2, <2>4 DEF AddAlarm, Served, TypeOK
<1>3. ASSUME NEW tab \in [Slots -> Timer], NEW sel, Release(tab, sel)
      PROVE  timers' \in [Slots -> Timer] /\ dirty' \in BOOLEAN
  BY <1>3, FreeSlotsType DEF Release
<1>4. CASE CancelAll
  BY <1>3, <1>4 DEF CancelAll, Served, TypeOK
<1>5. ASSUME NEW id, CancelAt(id) PROVE TypeOK'
  <2>1. StepTable(timers, mono, Epoch) \in [Slots -> Timer]
    BY StepTableType DEF TypeOK
  <2>2. timers' \in [Slots -> Timer] /\ dirty' \in BOOLEAN
    BY <1>3, <1>5, <2>1 DEF CancelAt
  <2>3. missed' \in Nat
    BY <1>5, MissedCountType DEF CancelAt, TypeOK
  <2> QED
    BY <1>5, <2>2, <2>3 DEF CancelAt, Served, TypeOK
<1>6. ASSUME NEW l \in setup.labels, CancelLabel(l) PROVE TypeOK'
  BY <1>5, <1>6 DEF CancelLabel
<1>7. ASSUME NEW id, DismissId(id) PROVE TypeOK'
  BY <1>3, <1>7 DEF DismissId, Served, TypeOK
<1>8. CASE DismissAll
  <2>1. timers' \in [Slots -> Timer]
    BY <1>8, FreeSlotsType DEF DismissAll, TypeOK
  <2>2. remote' \in [RemoteIds -> RemoteTimer] /\ dirty' \in BOOLEAN
    BY <1>8 DEF DismissAll, NoRemote, RemoteTimer, TypeOK
  <2> QED
    BY <1>8, <2>1, <2>2 DEF DismissAll, Served, TypeOK
<1> QED
  BY <1>1, <1>2, <1>4, <1>5, <1>6, <1>7, <1>8 DEF LocalRequest

LEMMA RemoteRequestType == TypeOK /\ RemoteRequest /\ UNCHANGED setup => TypeOK'
<1> SUFFICES ASSUME TypeOK, RemoteRequest, UNCHANGED setup PROVE TypeOK'
  OBVIOUS
<1> USE DEF schedule, ctx, clocks, disk, Phases
<1>1. ASSUME NEW x \in RemoteIds, NEW v \in RemoteTimer, RemoteSet(x, v),
             nextRing' \in Nat
      PROVE  TypeOK'
  BY <1>1 DEF RemoteSet, Served, TypeOK
<1>2. \A a \in BOOLEAN : RemotePending(a) \in RemoteTimer
  BY DEF RemotePending, RemoteTimer
<1>3. ASSUME NEW x \in RemoteIds, NEW a \in BOOLEAN,
             RemoteStarted(x, a) \/ RemoteUpdated(x, a)
      PROVE  TypeOK'
  <2>1. CASE RemoteStarted(x, a)
    BY <1>1, <1>2, <2>1 DEF RemoteStarted, TypeOK
  <2>2. CASE RemoteUpdated(x, a)
    <3>1. [remote[x] EXCEPT !.active = FALSE] \in RemoteTimer
      BY DEF RemoteTimer, TypeOK
    <3> QED
      BY <1>1, <1>2, <2>2, <3>1 DEF RemoteUpdated, TypeOK
  <2> QED
    BY <1>3, <2>1, <2>2
<1>4. ASSUME NEW x \in RemoteIds, RemoteCancelled(x) \/ RemoteFinished(x)
      PROVE  TypeOK'
  <2>1. CASE RemoteCancelled(x)
    <3>1. NoRemote \in RemoteTimer
      BY DEF NoRemote, RemoteTimer
    <3> QED
      BY <1>1, <2>1, <3>1 DEF RemoteCancelled, TypeOK
  <2>2. CASE RemoteFinished(x)
    <3> DEFINE v == [state |-> "ringing", active |-> FALSE,
                     ringStart |-> IF remote[x].state = "ringing"
                                     THEN remote[x].ringStart ELSE mono]
    <3>1. v \in RemoteTimer
      BY DEF RemoteTimer, TypeOK
    <3>2. RemoteSet(x, v) /\ nextRing' \in Nat
      BY <2>2 DEF RemoteFinished, TypeOK
    <3> QED
      BY <1>1, <3>1, <3>2
  <2> QED
    BY <1>4, <2>1, <2>2
<1>5. CASE RemoteClear
  BY <1>5 DEF RemoteClear, NoRemote, RemoteTimer, Served, TypeOK
<1> QED
  BY <1>3, <1>4, <1>5, SetupType DEF RemoteRequest, TypeOK

LEMMA EnvironmentType == TypeOK /\ Environment /\ UNCHANGED setup => TypeOK'
<1> SUFFICES ASSUME TypeOK, Environment, UNCHANGED setup PROVE TypeOK'
  OBVIOUS
<1> USE DEF schedule, ctx, clocks, disk, Phases
<1>1. CASE Terminate
  BY <1>1 DEF Terminate, StartLoad, TypeOK
<1>2. CASE Crash
  BY <1>2, FreshType DEF Crash, TypeOK
<1>3. CASE Restart
  BY <1>3 DEF Restart, TypeOK
<1>4. CASE PowerCycle
  <2>1. file' \in FileType /\ survivors' \in SUBSET FileType
    BY <1>4 DEF PowerCycle, TypeOK
  <2>2. synced' \in BOOLEAN
    BY <1>4, Zenon DEF PowerCycle
  <2> QED
    BY <1>4, <2>1, <2>2, FreshType DEF PowerCycle, TypeOK
<1>5. CASE Tick
  BY <1>5 DEF Tick, TypeOK
<1>6. ASSUME NEW k \in setup.skews, ClockSet(k) PROVE TypeOK'
  BY <1>6, SetupType DEF ClockSet, TypeOK
<1> QED
  BY <1>1, <1>2, <1>3, <1>4, <1>5, <1>6 DEF Environment

\* Every variable keeps its type, whatever clients, clocks and faults do.
THEOREM TypeCorrect == Spec => []TypeOK
<1>1. TypeOK /\ UNCHANGED vars => TypeOK'
  BY DEF TypeOK, vars
<1>2. TypeOK /\ [Next]_vars => TypeOK'
  BY <1>1, LoopType, RequestType, RemoteRequestType, EnvironmentType DEF Next
<1> QED
  BY <1>2, InitType, PTL DEF Spec

-----------------------------------------------------------------------------
(***************************************************************************)
(* Ids.  Most actions only free slots or move one on: every slot that is   *)
(* live afterwards was live before, with the same id.                      *)
(***************************************************************************)
OnlyFrees ==
  \A i \in Slots : Live(timers'[i]) =>
    Live(timers[i]) /\ timers'[i].id = timers[i].id

LEMMA OnlyFreesKeepsIds ==
  ASSUME IdsUnique, OnlyFrees, nextId' = nextId
  PROVE  IdsUnique'
  BY DEF IdsUnique, OnlyFrees

\* A new timer with a fresh id in a free slot keeps the ids unique.
LEMMA FreshIdKeepsIds ==
  ASSUME TypeOK, IdsUnique, NEW i \in Slots, NEW t \in Timer,
         t.id \in Nat \ {0},
         \A j \in Slots : Live(timers[j]) => timers[j].id # t.id,
         timers' = [timers EXCEPT ![i] = t],
         nextId' \in Nat, nextId' >= nextId, nextId' > t.id
  PROVE  IdsUnique'
  BY DEF IdsUnique, TypeOK

LEMMA StepOnlyFrees ==
  ASSUME NEW tab \in [Slots -> Timer], NEW ms, NEW epoch, NEW i \in Slots,
         Live(StepTable(tab, ms, epoch)[i])
  PROVE  /\ Live(tab[i])
         /\ StepTable(tab, ms, epoch)[i].id = tab[i].id
<1> DEFINE t == tab[i]
<1>1. ~ Live(FreeTimer)
  BY DEF Live, FreeTimer
<1>2. StepTable(tab, ms, epoch)[i] = StepTimer(t, ms, epoch)
  BY DEF StepTable
<1>3. CASE Fires(t, ms, epoch)
  <2>1. Live(t)
    BY <1>3 DEF Fires, Due, Pending, Live
  <2>2. [t EXCEPT !.state = "ringing", !.ringStart = ms].id = t.id
    BY DEF Timer
  <2> QED
    BY <1>1, <1>2, <1>3, <2>1, <2>2 DEF StepTimer
<1>4. CASE ~ Fires(t, ms, epoch)
  BY <1>1, <1>2, <1>4 DEF StepTimer
<1> QED
  BY <1>3, <1>4

LEMMA FreeSlotsOnlyFrees ==
  ASSUME NEW tab \in [Slots -> Timer], NEW sel, NEW i \in Slots,
         Live(FreeSlots(tab, sel)[i])
  PROVE  Live(tab[i]) /\ FreeSlots(tab, sel)[i].id = tab[i].id
  BY DEF FreeSlots, Live, FreeTimer

\* Restoring a line: an id of the file that no live timer carries, or the
\* next id for a line that has none.
LEMMA LoadLineIds == TypeOK /\ IdsUnique /\ nextId > 0 /\ LoadLine => IdsUnique'
<1> SUFFICES ASSUME TypeOK, IdsUnique, nextId > 0, LoadLine PROVE IdsUnique'
  OBVIOUS
<1> DEFINE rec == file[cursor]
           id == RestoreId(rec, nextId)
<1>1. rec \in Record /\ rec.id \in Nat
  BY DEF LoadLine, IsFile, TypeOK, FileType, Record
<1>2. id \in Nat \ {0}
  BY <1>1 DEF RestoreId, TypeOK
<1>3. CASE UNCHANGED <<timers, nextId>>
  BY <1>3, OnlyFreesKeepsIds DEF OnlyFrees
<1>4. CASE \E i \in Slots :
             /\ RestoreAccepted(timers, rec, Epoch)
             /\ FirstFree(timers, i)
             /\ timers' = [timers EXCEPT ![i] = Restored(rec, id, mono, Epoch)]
             /\ nextId' = NextIdAfterRestore(nextId, id)
  <2>1. PICK i \in Slots :
             /\ RestoreAccepted(timers, rec, Epoch)
             /\ timers' = [timers EXCEPT ![i] = Restored(rec, id, mono, Epoch)]
             /\ nextId' = NextIdAfterRestore(nextId, id)
    BY <1>4
  <2>2. Restored(rec, id, mono, Epoch) \in Timer
        /\ Restored(rec, id, mono, Epoch).id = id
    <3>1. mono \in Int /\ Epoch \in Int
      BY EpochType DEF TypeOK
    <3>2. Restored(rec, id, mono, Epoch).id = id
      BY DEF Restored
    <3> HIDE DEF rec, id
    <3> QED
      BY <1>1, <1>2, <3>1, <3>2, RestoredType
  <2>3. \A j \in Slots : Live(timers[j]) => timers[j].id # id
    BY <1>1, <2>1 DEF RestoreId, RestoreAccepted, HasId, IdsUnique, TypeOK
  <2>4. nextId' \in Nat /\ nextId' >= nextId /\ nextId' > id
    BY <1>2, <2>1 DEF NextIdAfterRestore, TypeOK
  <2> QED
    BY <1>2, <2>1, <2>2, <2>3, <2>4, FreshIdKeepsIds
<1> QED
  BY <1>3, <1>4 DEF LoadLine

LEMMA AddIds ==
  ASSUME TypeOK, IdsUnique, nextId > 0, NEW i \in Slots, NEW t \in Timer,
         t.id = nextId, timers' = [timers EXCEPT ![i] = t], nextId' = nextId + 1
  PROVE  IdsUnique'
  BY FreshIdKeepsIds DEF IdsUnique, TypeOK

\* The inductive invariant: ids start at 1 and only grow.
IdInv == TypeOK /\ IdsUnique /\ nextId > 0

LEMMA FreshIds == FreshContext => IdsUnique' /\ nextId' > 0
  BY DEF FreshContext, IdsUnique, Live, FreeTimer

LEMMA NextIds == IdInv /\ [Next]_vars => IdsUnique' /\ nextId' > 0
<1> SUFFICES ASSUME IdInv, [Next]_vars PROVE IdsUnique' /\ nextId' > 0
  OBVIOUS
<1> USE DEF IdInv, schedule, ctx
<1>1. CASE UNCHANGED <<timers, nextId>>
  BY <1>1, OnlyFreesKeepsIds DEF OnlyFrees
<1>2. CASE LoadLine
  <2>1. \A id \in Nat : NextIdAfterRestore(nextId, id) > 0
    BY DEF NextIdAfterRestore, TypeOK
  <2>2. file[cursor] \in Record
    BY <1>2 DEF LoadLine, IsFile, TypeOK, FileType
  <2>3. RestoreId(file[cursor], nextId) \in Nat
    BY <2>2 DEF RestoreId, Record, TypeOK
  <2>4. nextId' > 0
    BY <1>2, <2>1, <2>3 DEF LoadLine
  <2> QED
    BY <1>2, <2>4, LoadLineIds
<1>3. CASE Step
  <2>1. OnlyFrees
    BY <1>3, StepOnlyFrees DEF Step, OnlyFrees, TypeOK
  <2> QED
    BY <1>3, <2>1, OnlyFreesKeepsIds DEF Step
<1>4. ASSUME NEW s \in setup.durations, NEW l \in setup.labels, AddCountdown(s, l)
      PROVE  IdsUnique' /\ nextId' > 0
  <2> DEFINE t == NewCountdown(nextId, s, l, mono, real + s * MsPerSec)
  <2>0. s \in Int /\ l \in LabelOrNone
    BY <1>4, SetupType DEF TypeOK
  <2>1. t \in Timer /\ t.id = nextId
    BY <2>0, NewTimerType DEF TypeOK, NewCountdown
  <2>2. PICK i \in Slots : timers' = [timers EXCEPT ![i] = t]
    BY <1>4 DEF AddCountdown
  <2>3. nextId' = nextId + 1
    BY <1>4 DEF AddCountdown
  <2>4. nextId' > 0
    BY <2>3 DEF TypeOK
  <2> HIDE DEF t
  <2> QED
    BY <2>1, <2>2, <2>3, <2>4, AddIds
<1>5. ASSUME NEW s \in setup.alarms, NEW l \in setup.labels, AddAlarm(Epoch + s, l)
      PROVE  IdsUnique' /\ nextId' > 0
  <2> DEFINE t == NewAlarm(nextId, Epoch + s, l, TrueTime(Epoch + s))
  <2>0. s \in Int /\ l \in LabelOrNone
    BY <1>5, SetupType DEF TypeOK
  <2>1. Epoch + s \in Int /\ TrueTime(Epoch + s) \in Int
    BY <2>0, EpochType DEF TrueTime
  <2>2. t \in Timer /\ t.id = nextId
    BY <2>0, <2>1, NewTimerType DEF TypeOK, NewAlarm
  <2>3. PICK i \in Slots : timers' = [timers EXCEPT ![i] = t]
    BY <1>5 DEF AddAlarm
  <2>4. nextId' = nextId + 1
    BY <1>5 DEF AddAlarm
  <2>5. nextId' > 0
    BY <2>4 DEF TypeOK
  <2> HIDE DEF t
  <2> QED
    BY <2>2, <2>3, <2>4, <2>5, AddIds
<1>6. ASSUME NEW sel, timers' = FreeSlots(timers, sel), nextId' = nextId
      PROVE  IdsUnique' /\ nextId' > 0
  <2>1. OnlyFrees
    BY <1>6, FreeSlotsOnlyFrees DEF OnlyFrees, TypeOK
  <2> QED
    BY <1>6, <2>1, OnlyFreesKeepsIds
<1>7. CASE CancelAll
  BY <1>6, <1>7 DEF CancelAll, Release
<1>8. ASSUME NEW id, CancelAt(id) PROVE IdsUnique' /\ nextId' > 0
  <2> DEFINE tab == StepTable(timers, mono, Epoch)
  <2>1. tab \in [Slots -> Timer]
    BY StepTableType DEF TypeOK
  <2>2. timers' = FreeSlots(tab, PendingWithId(tab, id))
    BY <1>8 DEF CancelAt, Release
  <2> HIDE DEF tab
  <2>3. \A i \in Slots : Live(timers'[i]) =>
          Live(tab[i]) /\ timers'[i].id = tab[i].id
    BY <2>1, <2>2, FreeSlotsOnlyFrees
  <2>4. \A i \in Slots : Live(tab[i]) =>
          Live(timers[i]) /\ tab[i].id = timers[i].id
    BY StepOnlyFrees DEF TypeOK, tab
  <2>5. OnlyFrees
    BY <2>3, <2>4 DEF OnlyFrees
  <2> QED
    BY <1>8, <2>5, OnlyFreesKeepsIds DEF CancelAt
<1>9. ASSUME NEW id, DismissId(id) PROVE IdsUnique' /\ nextId' > 0
  BY <1>6, <1>9 DEF DismissId, Release
<1>10. CASE DismissAll
  BY <1>6, <1>10 DEF DismissAll
<1>11. CASE FreshContext
  BY <1>11, FreshIds
<1>12. CASE Loop
  BY <1>1, <1>2, <1>3, <1>11, <1>12
     DEF Loop, LoadSteps, LoopTop, LoadNoFile, LoadSkip, LoadEnd, LoadDone,
         CueDone, NothingToSave, LoadBeforeSave, SaveIfDirty, LoopAgain,
         SaveOnExit, Exited
<1>13. CASE LocalRequest
  BY <1>4, <1>5, <1>7, <1>8, <1>9, <1>10, <1>13 DEF LocalRequest, CancelLabel
<1>14. CASE RemoteRequest
  BY <1>1, <1>14
     DEF RemoteRequest, RemoteStarted, RemoteUpdated, RemoteCancelled,
         RemoteFinished, RemoteClear, RemoteSet
<1>15. CASE Environment
  BY <1>1, <1>11, <1>15
     DEF Environment, Terminate, Crash, Restart, PowerCycle, Tick, ClockSet
<1>16. CASE UNCHANGED vars
  BY <1>1, <1>16 DEF vars
<1> QED
  BY <1>12, <1>13, <1>14, <1>15, <1>16 DEF Next

\* An id never names two timers, on any interleaving of the deferred restore
\* with requests, crashes and restarts.
THEOREM UniqueIds == Spec => []IdsUnique
<1>1. Init => IdInv
  <2>1. Init => IdsUnique /\ nextId > 0
    BY DEF Init, IdsUnique, Live, FreeTimer
  <2> QED
    BY <2>1, InitType DEF IdInv
<1>2. TypeOK /\ [Next]_vars => TypeOK'
  <2>1. TypeOK /\ UNCHANGED vars => TypeOK'
    BY DEF TypeOK, vars
  <2> QED
    BY <2>1, LoopType, RequestType, RemoteRequestType, EnvironmentType DEF Next
<1>3. IdInv /\ [Next]_vars => IdInv'
  BY <1>2, NextIds DEF IdInv
<1>4. IdInv => IdsUnique
  BY DEF IdInv
<1> QED
  BY <1>1, <1>3, <1>4, PTL DEF Spec

-----------------------------------------------------------------------------
(***************************************************************************)
(* The state file.  Outside poll, too, and before the restore, a schedule  *)
(* that is not dirty has every pending timer in the file; before the first *)
(* stop, in everything a power loss may leave of it.  That a restore keeps *)
(* this needs the file to be the only survivor until something is saved.   *)
(***************************************************************************)
Stored(tab, backup) == \A i \in PendingSlots(tab) : \E entry \in LinesOf(backup) : Stands(entry, tab[i])
PersistInv ==
  /\ ~ dirty => Stored(timers, file)
  /\ ~ dirty /\ stops = 0 => \A backup \in survivors : Stored(timers, backup)
  /\ phase \in {"exit", "gone", "down"} \/ loadFrom = "exit" => stops > 0
  /\ ~ loaded /\ stops = 0 => survivors = {file}
  /\ phase = "load" => ~ loaded

\* No step but a restore or a request makes a pending timer.
KeepsPending == \A i \in Slots : Pending(timers'[i]) => timers'[i] = timers[i]

LEMMA KeptStaysStored ==
  ASSUME KeepsPending, NEW backup, Stored(timers, backup)
  PROVE  Stored(timers', backup)
  BY DEF KeepsPending, Stored, PendingSlots

\* A step and a release only ring and free.
LEMMA StepKeepsPending ==
  ASSUME NEW tab \in [Slots -> Timer], NEW ms, NEW epoch, NEW i \in Slots,
         Pending(StepTable(tab, ms, epoch)[i])
  PROVE  StepTable(tab, ms, epoch)[i] = tab[i]
<1> DEFINE t == tab[i]
<1>1. StepTable(tab, ms, epoch)[i] = StepTimer(t, ms, epoch)
  BY DEF StepTable
<1>2. [t EXCEPT !.state = "ringing", !.ringStart = ms].state = "ringing"
  BY DEF Timer
<1> QED
  BY <1>1, <1>2 DEF StepTimer, Pending, FreeTimer

LEMMA FreeSlotsKeepsPending ==
  ASSUME NEW tab \in [Slots -> Timer], NEW sel, NEW i \in Slots,
         Pending(FreeSlots(tab, sel)[i])
  PROVE  FreeSlots(tab, sel)[i] = tab[i]
  BY DEF FreeSlots, Pending, FreeTimer

\* What is written is the schedule.
LEMMA SnapshotStores ==
  ASSUME TypeOK
  PROVE  Stored(timers, Snapshot(timers, mono, Epoch))
<1> DEFINE backup == Snapshot(timers, mono, Epoch)
<1>1. backup \in [Slots -> Record \cup {NoLine}] /\ IsFile(backup)
  <2>1. backup \in FileType
    BY SnapshotType, EpochType DEF TypeOK
  <2>2. 1 \in Slots /\ 1 \in DOMAIN backup
    BY DEF Slots, Snapshot
  <2> HIDE DEF backup
  <2>3. backup # NoFile
    BY <2>2 DEF NoFile
  <2> QED
    BY <2>1, <2>3 DEF FileType, IsFile
<1> SUFFICES ASSUME NEW i \in Slots, Pending(timers[i])
             PROVE  \E entry \in LinesOf(backup) : Stands(entry, timers[i])
  BY DEF Stored, PendingSlots
<1> DEFINE entry == RecordOf(timers[i], mono, Epoch)
<1>2. backup[i] = entry
  BY DEF Snapshot
<1>3. timers[i].kind \in Kinds
  BY DEF TypeOK, Timer
<1>4. entry.kind = timers[i].kind /\ entry # NoLine
  BY <1>3 DEF RecordOf, NoLine, Kinds
<1>5. Stands(entry, timers[i])
  BY <1>3 DEF RecordOf, Stands, Kinds
<1> HIDE DEF backup, entry
<1>6. entry \in LinesOf(backup)
  BY <1>1, <1>2, <1>4 DEF LinesOf
<1> QED
  BY <1>5, <1>6

\* A restored timer is the line it was restored from.
LEMMA LoadLinePersists == TypeOK /\ PersistInv /\ LoadLine => PersistInv'
<1> SUFFICES ASSUME TypeOK, PersistInv, LoadLine PROVE PersistInv'
  OBVIOUS
<1> USE DEF ctx, disk
<1>1. UNCHANGED <<dirty, file, survivors, stops, phase, loadFrom>>
  BY DEF LoadLine
<1>0. phase = "load" /\ loaded' = loaded /\ UNCHANGED <<loadFrom>>
  BY DEF LoadLine
<1>2. CASE timers' = timers
  BY <1>0, <1>1, <1>2 DEF PersistInv
<1>3. CASE timers' # timers
  <2> DEFINE rec == file[cursor]
             id == RestoreId(rec, nextId)
             t == Restored(rec, id, mono, Epoch)
  <2>1. PICK i \in Slots : timers' = [timers EXCEPT ![i] = t]
    BY <1>3 DEF LoadLine
  <2>2. rec \in LinesOf(file)
    BY DEF LoadLine, LinesOf
  <2>3. Stands(rec, t)
    BY DEF Stands, Restored, RestoreId
  <2>4. \A j \in Slots : timers'[j] = t \/ timers'[j] = timers[j]
    BY <2>1 DEF TypeOK
  <2> HIDE DEF rec, id, t
  <2>5. Stored(timers, file) => Stored(timers', file)
    BY <2>2, <2>3, <2>4 DEF Stored, PendingSlots
  <2>6. stops = 0 => survivors = {file}
    BY <1>0 DEF PersistInv
  <2> QED
    BY <1>0, <1>1, <2>5, <2>6 DEF PersistInv
<1> QED
  BY <1>2, <1>3

\* A step that writes nothing and makes no pending timer.
LEMMA QuietPersists ==
  ASSUME PersistInv, KeepsPending, UNCHANGED <<file, survivors>>, dirty => dirty',
         stops' >= stops, stops \in Nat, stops' \in Nat, loaded => loaded' \/ stops' > 0,
         phase' = "load" => ~ loaded',
         phase' \in {"exit", "gone", "down"} \/ loadFrom' = "exit" => stops' > 0
  PROVE  PersistInv'
<1>1. ~ dirty' => Stored(timers', file')
  BY KeptStaysStored DEF PersistInv
<1>2. ~ dirty' /\ stops' = 0 => \A backup \in survivors' : Stored(timers', backup)
  BY KeptStaysStored DEF PersistInv
<1> QED
  BY <1>1, <1>2 DEF PersistInv

\* A save, by how far it gets.
LEMMA SavePersists ==
  ASSUME TypeOK, PersistInv, SaveOk \/ SaveFailed, UNCHANGED <<timers, stops, loaded, loadFrom>>,
         \/ SaveOk /\ ~ dirty'
         \/ SaveFailed /\ dirty /\ dirty'
         \/ stops > 0 /\ dirty' = dirty,
         phase' = "poll" \/ (phase' = "gone" /\ stops > 0)
  PROVE  PersistInv'
<1> DEFINE backup == Snapshot(timers, mono, Epoch)
<1>1. Stored(timers, backup)
  BY SnapshotStores
<1> HIDE DEF backup
<1>2. file' \in {file, backup}
  BY DEF SaveOk, SaveFailed, SaveNotWritten, SaveNotRenamed, SaveNotDurable, backup
<1>3. SaveOk => file' = backup /\ survivors' = {backup}
  BY DEF SaveOk, backup
<1>4. ~ loaded => UNCHANGED <<file, survivors>>
  BY DEF SaveOk, SaveFailed, SaveNotWritten, SaveNotRenamed, SaveNotDurable, SaveAllowed
<1>5. stops \in Nat
  BY DEF TypeOK
<1> QED
  BY <1>1, <1>2, <1>3, <1>4, <1>5 DEF PersistInv

LEMMA FreshPersists ==
  ASSUME TypeOK, PersistInv, FreshContext, UNCHANGED <<file, survivors>>, phase' = "down",
         stops' \in Nat, stops' > 0
  PROVE  PersistInv'
<1>1. \A backup : Stored(timers', backup)
  BY DEF FreshContext, Stored, PendingSlots, Pending, FreeTimer
<1> QED
  BY <1>1 DEF PersistInv, FreshContext

LEMMA NextPersists == TypeOK /\ PersistInv /\ [Next]_vars => PersistInv'
<1> SUFFICES ASSUME TypeOK, PersistInv, [Next]_vars PROVE PersistInv'
  OBVIOUS
<1> USE DEF schedule, ctx, disk
<1>0. stops \in Nat
  BY DEF TypeOK
<1>1. ASSUME timers' = timers PROVE KeepsPending
  BY <1>1 DEF KeepsPending
<1>2. ASSUME NEW tab \in [Slots -> Timer], NEW sel, timers' = FreeSlots(tab, sel),
             \A i \in Slots : Pending(tab[i]) => tab[i] = timers[i]
      PROVE  KeepsPending
  BY <1>2, FreeSlotsKeepsPending DEF KeepsPending
<1>3. CASE LoadLine
  BY <1>3, LoadLinePersists
<1>4. CASE Step
  <2>1. KeepsPending
    BY <1>4, StepKeepsPending DEF Step, KeepsPending, TypeOK
  <2>2. dirty => dirty'
    BY <1>4 DEF Step
  <2> QED
    BY <1>0, <1>4, <2>1, <2>2, QuietPersists DEF Step, PersistInv
<1>5. CASE LoopTop \/ LoadBeforeSave \/ CueDone \/ NothingToSave \/ LoopAgain
  BY <1>0, <1>1, <1>5, QuietPersists
     DEF LoopTop, LoadBeforeSave, StartLoad, CueDone, NothingToSave, EnterPoll, LoopAgain, PersistInv
<1>6. CASE LoadNoFile \/ LoadEnd \/ LoadSkip
  <2>1. UNCHANGED <<timers, dirty, file, survivors, stops>>
    BY <1>6 DEF LoadNoFile, LoadEnd, LoadSkip, LoadDone
  <2>2. \/ loaded' /\ phase' = loadFrom /\ loadFrom' = "top"
        \/ UNCHANGED <<loaded, phase, loadFrom>>
    BY <1>6 DEF LoadNoFile, LoadEnd, LoadSkip, LoadDone
  <2>3. loadFrom \in {"top", "step", "save", "exit"}
    BY DEF TypeOK
  <2> QED
    BY <1>0, <1>1, <2>1, <2>2, <2>3, QuietPersists DEF PersistInv
<1>7. CASE SaveIfDirty
  BY <1>7, SavePersists DEF SaveIfDirty, EnterPoll
<1>8. CASE SaveOnExit
  BY <1>8, SavePersists DEF SaveOnExit, PersistInv
<1>9. CASE Exited \/ Crash
  <2>1. FreshContext /\ UNCHANGED <<file, survivors>> /\ phase' = "down"
    BY <1>9 DEF Exited, Crash
  <2>2. stops' \in Nat /\ stops' > 0
    BY <1>0, <1>9 DEF Exited, Crash, PersistInv
  <2> QED
    BY <2>1, <2>2, FreshPersists
<1>10. CASE Terminate \/ Restart
  BY <1>0, <1>1, <1>10, QuietPersists DEF Terminate, StartLoad, Restart, PersistInv
<1>11. CASE PowerCycle
  <2>1. \A backup : Stored(timers', backup)
    BY <1>11 DEF PowerCycle, FreshContext, Stored, PendingSlots, Pending, FreeTimer
  <2> QED
    BY <1>11, <2>1 DEF PowerCycle, FreshContext, PersistInv
<1>12. CASE Tick \/ \E k \in setup.skews : ClockSet(k)
  BY <1>0, <1>1, <1>12, QuietPersists DEF Tick, ClockSet, PersistInv
<1>13. CASE RemoteRequest
  <2>1. UNCHANGED <<timers, dirty, loaded, loadFrom, file, survivors, stops>> /\ phase' = "serve"
    BY <1>13 DEF RemoteRequest, RemoteStarted, RemoteUpdated, RemoteCancelled, RemoteFinished,
                 RemoteClear, RemoteSet, Served
  <2> QED
    BY <1>0, <1>1, <2>1, QuietPersists DEF PersistInv
<1>14. ASSUME Served, KeepsPending \/ dirty', dirty => dirty' PROVE PersistInv'
  <2>1. UNCHANGED <<loaded, loadFrom, file, survivors, stops>> /\ phase' = "serve"
    BY <1>14 DEF Served
  <2>2. CASE KeepsPending
    BY <1>0, <1>14, <2>1, <2>2, QuietPersists DEF PersistInv
  <2>3. CASE dirty'
    BY <2>1, <2>3 DEF PersistInv
  <2> QED
    BY <1>14, <2>2, <2>3
<1>15. CASE LocalRequest
  <2>1. ASSUME NEW s, NEW l, AddCountdown(s, l) \/ AddAlarm(s, l) PROVE PersistInv'
    BY <1>14, <2>1 DEF AddCountdown, AddAlarm
  <2>2. CASE CancelAll
    BY <1>2, <1>14, <2>2 DEF CancelAll, Release, TypeOK
  <2>3. ASSUME NEW id, CancelAt(id) PROVE PersistInv'
    <3> DEFINE tab == StepTable(timers, mono, Epoch)
    <3>1. tab \in [Slots -> Timer]
      BY StepTableType DEF TypeOK
    <3>2. \A i \in Slots : Pending(tab[i]) => tab[i] = timers[i]
      BY StepKeepsPending DEF TypeOK
    <3>3. timers' = FreeSlots(tab, PendingWithId(tab, id)) /\ Served /\ (dirty => dirty')
      BY <2>3 DEF CancelAt, Release
    <3> HIDE DEF tab
    <3> QED
      BY <1>2, <1>14, <3>1, <3>2, <3>3
  <2>4. ASSUME NEW id, DismissId(id) PROVE PersistInv'
    BY <1>2, <1>14, <2>4 DEF DismissId, Release, TypeOK
  <2>5. CASE DismissAll
    BY <1>2, <1>14, <2>5 DEF DismissAll, TypeOK
  <2> QED
    BY <1>15, <2>1, <2>2, <2>3, <2>4, <2>5 DEF LocalRequest, CancelLabel
<1>16. CASE UNCHANGED vars
  BY <1>16 DEF vars, PersistInv
<1> QED
  BY <1>3, <1>4, <1>5, <1>6, <1>7, <1>8, <1>9, <1>10, <1>11, <1>12, <1>13, <1>15, <1>16
     DEF Next, Loop, LoadSteps, Environment

\* A daemon with nothing to save loses no pending timer to a crash, nor
\* before the first stop to a power loss, whichever step of a save failed.
THEOREM ScheduleAlwaysPersisted == Spec => []SchedulePersisted
<1>1. Init => PersistInv
  BY DEF Init, PersistInv, Stored, PendingSlots, Pending, FreeTimer
<1>2. TypeOK /\ PersistInv /\ [Next]_vars => PersistInv'
  BY NextPersists
<1>3. PersistInv => SchedulePersisted
  BY DEF PersistInv, Stored, SchedulePersisted, CleanMeansSaved, CleanMeansDurable
<1> QED
  BY <1>1, <1>2, <1>3, TypeCorrect, PTL DEF Spec

-----------------------------------------------------------------------------
(***************************************************************************)
(* Time.  An instant `at' of the monotonic clock is passed by `slack' at   *)
(* most: a cue ends before that, and poll does not sleep past the instant, *)
(* or does not sleep.                                                      *)
(***************************************************************************)
Near(at, slack) ==
  /\ mono - at <= slack
  /\ phase = "cue" => deadline - at <= slack
  /\ phase = "poll" => deadline <= at \/ deadline <= mono

\* When an alarm comes due on the monotonic clock, the wall clock being
\* right: poll's timeout is computed from whole seconds.
AlarmAt(t) == mono - real + TrueTime(t.dueEpoch) + MsPerSec - 1
GraceMs == (MissGrace + 1) * MsPerSec
RingMs == RingSeconds * MsPerSec
TimerNear(t) ==
  /\ Pending(t) /\ t.kind = "countdown" => Near(t.dueMs, GraceMs - 1)
  /\ Pending(t) /\ t.kind = "alarm" => synced
  /\ Pending(t) /\ t.kind = "alarm" /\ setup.skews = {0} => Near(AlarmAt(t), MissGrace * MsPerSec)
  /\ Ringing(t) => Near(t.ringStart + RingMs, AudioBlock)
RemoteNear(entry) == entry.state = "ringing" => Near(entry.ringStart + RingMs, AudioBlock)
ClockInv ==
  /\ mono <= real /\ real <= setup.maxReal
  /\ setup.skews = {0} => skew = 0
  /\ phase = "down" => /\ ~ loaded
                       /\ \A i \in Slots : timers[i] = FreeTimer
                       /\ \A x \in RemoteIds : remote[x] = NoRemote
  /\ phase # "load" => loadFrom = "top"
NearInv == /\ \A i \in Slots : TimerNear(timers[i])
           /\ \A x \in RemoteIds : RemoteNear(remote[x])

(***************************************************************************)
(* A timer lost at most Slip per process it was handed on by: rounds is    *)
(* how many there were before the present one.                             *)
(***************************************************************************)
Slip == 2 * (MsPerSec - 1)
Rounds == IF phase \in {"exit", "gone"} \/ loadFrom = "exit" THEN stops - 1 ELSE stops
FileRounds == IF loaded THEN Rounds + 1 ELSE Rounds
TimerSlipped(t, n) ==
  /\ Pending(t) /\ t.kind = "countdown" => t.dueMs - mono >= t.want - real - Slip * n
  /\ Pending(t) /\ t.kind = "alarm" => t.want = TrueTime(t.dueEpoch)
RecordSlipped(entry, n) == /\ entry.kind = "countdown" => TrueTime(entry.due) >= entry.want - Slip * n
                           /\ entry.kind = "alarm" => entry.want = TrueTime(entry.due)
FileSlipped(backup, n) == \A entry \in LinesOf(backup) : RecordSlipped(entry, n)
SlipInv ==
  setup.skews = {0} =>
    /\ \A i \in Slots : TimerSlipped(timers[i], Rounds)
    /\ FileSlipped(file, FileRounds)
    /\ \A backup \in survivors : FileSlipped(backup, FileRounds)

\* Seconds to units: the order, the sum, and what a division leaves.
LEMMA UnitsMono ==
  ASSUME NEW x \in Int, NEW y \in Int
  PROVE  /\ x <= y => x * MsPerSec <= y * MsPerSec
         /\ x < y => x * MsPerSec + MsPerSec <= y * MsPerSec
<1>1. x <= y => x * MsPerSec <= y * MsPerSec
  OBVIOUS
<1>2. x < y => x * MsPerSec + MsPerSec <= y * MsPerSec
  OBVIOUS
<1> QED
  BY <1>1, <1>2

LEMMA UnitsAdd ==
  ASSUME NEW x \in Int, NEW y \in Int
  PROVE  /\ x * MsPerSec \in Int
         /\ (x + y) * MsPerSec = x * MsPerSec + y * MsPerSec
         /\ (x - y) * MsPerSec = x * MsPerSec - y * MsPerSec
  OBVIOUS

LEMMA UnitsDiv ==
  ASSUME NEW a \in Int
  PROVE  /\ a \div MsPerSec \in Int
         /\ (a \div MsPerSec) * MsPerSec <= a
         /\ a < (a \div MsPerSec) * MsPerSec + MsPerSec
  OBVIOUS

LEMMA UnitsBelow ==
  ASSUME NEW a \in Int, NEW b \in Int, a < b * MsPerSec
  PROVE  a \div MsPerSec < b
<1>1. a \div MsPerSec \in Int /\ (a \div MsPerSec) * MsPerSec <= a
  BY UnitsDiv
<1>2. b <= a \div MsPerSec => b * MsPerSec <= (a \div MsPerSec) * MsPerSec
  BY <1>1, UnitsMono
<1>3. b * MsPerSec \in Int /\ (a \div MsPerSec) * MsPerSec \in Int
  BY <1>1, UnitsAdd
<1> QED
  BY <1>1, <1>2, <1>3

LEMMA TimingFacts ==
  /\ GraceMs \in Nat /\ RingMs \in Nat /\ MissGrace * MsPerSec \in Nat
  /\ AudioBlock < GraceMs /\ GraceMs = MissGrace * MsPerSec + MsPerSec
  /\ ClockValidEpoch * MsPerSec \in Nat
  BY TimingAssumption DEF GraceMs, RingMs

\* The wall clock: credible only once it was set, and right if never stepped.
LEMMA WallFacts ==
  ASSUME TypeOK, ClockInv
  PROVE  /\ WallMs \in Nat /\ Epoch \in Nat /\ Epoch * MsPerSec \in Int
         /\ Epoch * MsPerSec <= WallMs /\ WallMs < Epoch * MsPerSec + MsPerSec
         /\ ClockValid(Epoch) <=> synced
         /\ setup.skews = {0} /\ synced => WallMs = ClockValidEpoch * MsPerSec + real
<1> DEFINE origin == ClockValidEpoch * MsPerSec
<1>1. origin \in Nat
  BY TimingFacts
<1>2. mono \in Nat /\ real \in Nat /\ skew \in Nat /\ mono < origin
  <2>1. setup.maxReal < origin /\ setup.maxReal \in Nat
    BY TimingAssumption DEF TypeOK, Setup
  <2> HIDE DEF origin
  <2> QED
    BY <1>1, <2>1 DEF TypeOK, ClockInv
<1>3. WallMs = IF synced THEN origin + real + skew ELSE mono
  BY DEF WallMs
<1> HIDE DEF origin
<1>4. WallMs \in Nat /\ (synced => WallMs >= origin) /\ (~ synced => WallMs < origin)
  BY <1>1, <1>2, <1>3
<1>5. /\ Epoch \in Int /\ Epoch * MsPerSec <= WallMs /\ WallMs < Epoch * MsPerSec + MsPerSec
      /\ Epoch * MsPerSec \in Int
  BY <1>4, UnitsDiv, UnitsAdd DEF Epoch
<1>6. Epoch \in Nat
  BY EpochType
<1>7. ClockValidEpoch \in Int
  OBVIOUS
<1>8. Epoch < ClockValidEpoch => WallMs < origin
  BY <1>1, <1>4, <1>5, <1>7, UnitsMono DEF origin
<1>9. ClockValidEpoch <= Epoch => WallMs >= origin
  BY <1>1, <1>4, <1>5, <1>7, UnitsMono DEF origin
<1>10. ClockValid(Epoch) <=> synced
  BY <1>1, <1>4, <1>6, <1>7, <1>8, <1>9 DEF ClockValid
<1>11. setup.skews = {0} /\ synced => WallMs = origin + real
  BY <1>1, <1>2, <1>3 DEF ClockInv
<1> QED
  BY <1>4, <1>5, <1>6, <1>10, <1>11 DEF origin

\* True time of a second of the wall clock.
LEMMA TrueTimeIs ==
  ASSUME NEW e \in Int
  PROVE  TrueTime(e) \in Int /\ TrueTime(e) = e * MsPerSec - ClockValidEpoch * MsPerSec
  BY UnitsAdd DEF TrueTime

LEMMA TrueTimeSum ==
  ASSUME NEW a \in Int, NEW b \in Int
  PROVE  TrueTime(a + b) = a * MsPerSec + b * MsPerSec - ClockValidEpoch * MsPerSec
<1>1. a + b \in Int /\ (a + b) * MsPerSec = a * MsPerSec + b * MsPerSec
  BY UnitsAdd
<1>2. \A e \in Int : TrueTime(e) = e * MsPerSec - ClockValidEpoch * MsPerSec
  BY TrueTimeIs
<1>3. TrueTime(a + b) = (a + b) * MsPerSec - ClockValidEpoch * MsPerSec
  BY <1>1, <1>2
<1> QED
  BY <1>1, <1>3

\* With a right clock, how far an alarm is from the present.
LEMMA AlarmDistance ==
  ASSUME TypeOK, ClockInv, setup.skews = {0}, synced, NEW e \in Int
  PROVE  /\ Epoch < e => real < TrueTime(e)
         /\ e <= Epoch => TrueTime(e) <= real
         /\ Epoch - MissGrace <= e => real - TrueTime(e) < GraceMs
         /\ real - TrueTime(e) < GraceMs => Epoch - e <= MissGrace
         /\ (e - Epoch) * MsPerSec \in Int
         /\ (e - Epoch) * MsPerSec <= TrueTime(e) - real + MsPerSec - 1
         /\ TrueTime(e) - real <= (e - Epoch) * MsPerSec
<1> DEFINE origin == ClockValidEpoch * MsPerSec
           em == e * MsPerSec
           pm == Epoch * MsPerSec
           g == MissGrace * MsPerSec
<1>1. /\ origin \in Nat /\ em \in Int /\ pm \in Int /\ real \in Nat /\ MsPerSec \in Nat /\ g \in Nat
      /\ Epoch \in Int /\ MissGrace \in Int /\ e - Epoch \in Int /\ Epoch - e \in Int
  BY WallFacts, TimingFacts, UnitsAdd DEF TypeOK
<1>2. pm <= origin + real /\ origin + real < pm + MsPerSec
  BY WallFacts
<1>3. TrueTime(e) = em - origin
  BY TrueTimeIs
<1>4. Epoch < e => pm + MsPerSec <= em
  BY <1>1, UnitsMono
<1>5. e <= Epoch => em <= pm
  BY <1>1, UnitsMono
<1>6. (e - Epoch) * MsPerSec = em - pm
  BY <1>1, UnitsAdd
<1>7. Epoch - MissGrace <= e => pm - g <= em
  <2>1. Epoch - MissGrace \in Int /\ (Epoch - MissGrace) * MsPerSec = pm - g
    BY <1>1, UnitsAdd
  <2> HIDE DEF pm, g
  <2> QED
    BY <2>1, UnitsMono
<1>8. e + MissGrace < Epoch => em + g + MsPerSec <= pm
  <2>1. e + MissGrace \in Int /\ (e + MissGrace) * MsPerSec = em + g
    BY <1>1, UnitsAdd
  <2>2. e + MissGrace < Epoch => (e + MissGrace) * MsPerSec + MsPerSec <= pm
    BY <1>1, <2>1, UnitsMono
  <2> HIDE DEF pm, g, em
  <2> QED
    BY <2>1, <2>2
<1>9. GraceMs = g + MsPerSec
  BY TimingFacts
<1> HIDE DEF origin, em, pm, g
<1> QED
  BY <1>1, <1>2, <1>3, <1>4, <1>5, <1>6, <1>7, <1>8, <1>9

(***************************************************************************)
(* After a step nothing is due, and no ring is over.                       *)
(***************************************************************************)
Ahead(t) ==
  /\ Pending(t) /\ t.kind = "countdown" => mono < t.dueMs
  /\ Pending(t) /\ t.kind = "alarm" =>
       synced /\ (setup.skews = {0} => real < TrueTime(t.dueEpoch))
  /\ Ringing(t) => mono <= t.ringStart + RingMs

LEMMA TimerFields ==
  ASSUME NEW t \in Timer
  PROVE  /\ t.kind \in {"countdown", "alarm"} /\ t.dueMs \in Int /\ t.dueEpoch \in Int
         /\ t.ringStart \in Int /\ t.want \in Int /\ t.id \in Nat
         /\ TrueTime(t.dueEpoch) \in Int
  BY TrueTimeIs DEF Timer, Kinds

LEMMA FreeIsNear == TimerNear(FreeTimer) /\ Ahead(FreeTimer)
  BY DEF TimerNear, Ahead, FreeTimer, Pending, Ringing

LEMMA StepAhead ==
  ASSUME TypeOK, ClockInv, NEW t \in Timer, TimerNear(t)
  PROVE  Ahead(StepTimer(t, mono, Epoch))
<1> DEFINE u == StepTimer(t, mono, Epoch)
           entry == [t EXCEPT !.state = "ringing", !.ringStart = mono]
<1>1. mono \in Nat /\ real \in Nat /\ RingMs \in Nat
  BY TimingFacts DEF TypeOK
<1>2. entry.state = "ringing" /\ entry.ringStart = mono
  BY DEF Timer
<1>3. CASE u = FreeTimer
  BY <1>3, FreeIsNear
<1>4. CASE u = entry
  <2>1. ~ Pending(entry) /\ mono <= entry.ringStart + RingMs
    BY <1>1, <1>2 DEF Pending
  <2> HIDE DEF entry
  <2> QED
    BY <1>4, <2>1 DEF Ahead
<1>5. CASE u = t /\ u # entry /\ u # FreeTimer
  <2>1. ~ RingOver(t, mono) /\ ~ Missed(t, mono, Epoch) /\ ~ Fires(t, mono, Epoch)
    BY <1>5 DEF StepTimer
  <2>2. ~ Due(t, mono, Epoch)
    BY <2>1 DEF Missed, Fires
  <2>3. Pending(t) /\ t.kind = "countdown" => mono < t.dueMs
    BY <1>1, <2>2, TimerFields DEF Due
  <2>4. Pending(t) /\ t.kind = "alarm" => synced
    BY DEF TimerNear
  <2>5. Pending(t) /\ t.kind = "alarm" => Epoch < t.dueEpoch
    BY <2>2, <2>4, TimerFields, WallFacts DEF Due
  <2>6. Pending(t) /\ t.kind = "alarm" /\ setup.skews = {0} => real < TrueTime(t.dueEpoch)
    BY <2>4, <2>5, TimerFields, AlarmDistance
  <2>7. Ringing(t) => mono <= t.ringStart + RingMs
    BY <1>1, <2>1, TimerFields DEF RingOver, RingMs
  <2> QED
    BY <1>5, <2>3, <2>4, <2>6, <2>7 DEF Ahead
<1> QED
  BY <1>3, <1>4, <1>5 DEF StepTimer

LEMMA AheadNear ==
  ASSUME TypeOK, NEW t \in Timer, Ahead(t), UNCHANGED <<mono, real, synced, setup>>,
         phase' # "poll", phase' = "cue" => deadline' = mono + AudioBlock
  PROVE  TimerNear(t)'
<1> DEFINE g == MissGrace * MsPerSec
<1>1. /\ mono \in Nat /\ real \in Nat /\ RingMs \in Nat /\ GraceMs \in Nat /\ AudioBlock \in Nat
      /\ AudioBlock < GraceMs /\ g \in Nat /\ GraceMs = g + MsPerSec /\ MsPerSec \in Nat \ {0}
  BY TimingFacts DEF TypeOK
<1> DEFINE tt == TrueTime(t.dueEpoch)
<1>2. t.dueMs \in Int /\ t.ringStart \in Int /\ tt \in Int
  BY TimerFields
<1> HIDE DEF g, tt
<1>3. ASSUME NEW at \in Int, mono < at
      PROVE  /\ mono - at <= GraceMs - 1
             /\ phase' = "cue" => deadline' - at <= GraceMs - 1
  BY <1>1, <1>3
<1>4. ASSUME real < tt
      PROVE  /\ mono - (mono - real + tt + MsPerSec - 1) <= g
             /\ phase' = "cue" => deadline' - (mono - real + tt + MsPerSec - 1) <= g
  BY <1>1, <1>2, <1>4
<1>5. ASSUME mono <= t.ringStart + RingMs
      PROVE  /\ mono - (t.ringStart + RingMs) <= AudioBlock
             /\ phase' = "cue" => deadline' - (t.ringStart + RingMs) <= AudioBlock
  BY <1>1, <1>2, <1>5
<1>6. (Pending(t) /\ t.kind = "countdown" => Near(t.dueMs, GraceMs - 1))'
  BY <1>2, <1>3 DEF Ahead, Near
<1>7. (Pending(t) /\ t.kind = "alarm" /\ setup.skews = {0} => Near(AlarmAt(t), MissGrace * MsPerSec))'
  BY <1>4 DEF Ahead, Near, AlarmAt, g, tt
<1>8. (Ringing(t) => Near(t.ringStart + RingMs, AudioBlock))'
  BY <1>5 DEF Ahead, Near
<1> QED
  BY <1>6, <1>7, <1>8 DEF TimerNear, Ahead

\* What is near stays near while the daemon neither sleeps nor blocks.
LEMMA AwakeNear ==
  ASSUME NEW t, TimerNear(t), UNCHANGED <<mono, real, synced, setup>>, phase' \notin {"cue", "poll"}
  PROVE  TimerNear(t)'
  BY DEF TimerNear, Near, AlarmAt

LEMMA Awake ==
  ASSUME TypeOK, NearInv, UNCHANGED <<mono, real, synced, setup>>, phase' \notin {"cue", "poll"},
         timers' \in [Slots -> Timer],
         \A i \in Slots : timers'[i] = timers[i] \/ Ahead(timers'[i]),
         \A x \in RemoteIds : \/ remote'[x] = remote[x]
                              \/ remote'[x].state = "ringing" =>
                                   mono <= remote'[x].ringStart + RingMs,
         remote' \in [RemoteIds -> RemoteTimer]
  PROVE  NearInv'
<1>1. ASSUME NEW i \in Slots PROVE TimerNear(timers[i])'
  <2>1. PICK v \in Timer : v = timers'[i]
    OBVIOUS
  <2>2. TimerNear(timers[i]) /\ (v = timers[i] \/ Ahead(v))
    BY <2>1 DEF NearInv
  <2>3. TimerNear(v)'
    <3>1. CASE v = timers[i]
      <4>1. TimerNear(v)
        BY <2>2, <3>1
      <4> QED
        BY <4>1, AwakeNear
    <3>2. CASE Ahead(v)
      BY <3>2, AheadNear
    <3> QED
      BY <2>2, <3>1, <3>2
  <2> QED
    BY <2>1, <2>3 DEF TimerNear, Near, AlarmAt
<1>2. ASSUME NEW x \in RemoteIds PROVE RemoteNear(remote[x])'
  <2>1. remote'[x].ringStart \in Int /\ mono \in Nat /\ RingMs \in Nat /\ AudioBlock \in Nat
    BY TimingFacts DEF RemoteTimer, TypeOK
  <2>2. CASE remote'[x] = remote[x]
    <3>1. RemoteNear(remote[x])
      BY DEF NearInv
    <3> QED
      BY <2>2, <3>1 DEF RemoteNear, Near
  <2>3. CASE remote'[x].state = "ringing" => mono <= remote'[x].ringStart + RingMs
    BY <2>1, <2>3 DEF RemoteNear, Near
  <2> QED
    BY <2>2, <2>3
<1> QED
  BY <1>1, <1>2 DEF NearInv

\* The loop's step, and the cue it may begin.
LEMMA StepNear ==
  ASSUME TypeOK, TypeOK', ClockInv, NearInv, Step, UNCHANGED setup
  PROVE  NearInv'
<1> USE DEF clocks
<1>0. /\ mono \in Nat /\ RingMs \in Nat /\ AudioBlock \in Nat
      /\ phase' \in {"cue", "save"} /\ (phase' = "cue" => deadline' = mono + AudioBlock)
      /\ UNCHANGED <<mono, real, synced>>
  BY TimingFacts DEF Step, TypeOK
<1>1. ASSUME NEW i \in Slots PROVE TimerNear(timers[i])'
  <2>1. timers[i] \in Timer /\ TimerNear(timers[i])
    BY DEF TypeOK, NearInv
  <2>2. timers'[i] = StepTimer(timers[i], mono, Epoch)
    BY DEF Step, StepTable
  <2>3. PICK v \in Timer : v = timers'[i]
    BY DEF TypeOK
  <2>4. Ahead(v)
    BY <2>1, <2>2, <2>3, StepAhead
  <2>5. TimerNear(v)'
    BY <1>0, <2>4, AheadNear
  <2> QED
    BY <2>3, <2>5 DEF TimerNear, Near, AlarmAt
<1>2. ASSUME NEW x \in RemoteIds PROVE RemoteNear(remote[x])'
  <2>1. remote[x].ringStart \in Int
    BY DEF TypeOK, RemoteTimer
  <2>2. remote'[x] = IF remote[x].state = "ringing" /\ mono - remote[x].ringStart >= RingMs
                     THEN NoRemote ELSE remote[x]
    BY DEF Step, RemoteExpired, RingMs
  <2>3. remote'[x].state = "ringing" => mono <= remote[x].ringStart + RingMs /\ remote'[x] = remote[x]
    BY <1>0, <2>1, <2>2 DEF NoRemote
  <2> QED
    BY <1>0, <2>1, <2>3 DEF RemoteNear, Near
<1> QED
  BY <1>1, <1>2 DEF NearInv

\* The loop goes to sleep until the first of its deadlines.
LEMMA PollNear ==
  ASSUME TypeOK, ClockInv, NearInv, EnterPoll,
         UNCHANGED <<timers, remote, mono, real, synced, setup>>
  PROVE  NearInv'
<1>0. /\ mono \in Nat /\ real \in Nat /\ deadline' \in Int /\ phase' = "poll"
      /\ \A e \in PollDeadlines : deadline' <= e
  BY DeadlinesType DEF EnterPoll, TypeOK
<1>1. ASSUME NEW at \in Int, NotBefore(at, mono) \in PollDeadlines
      PROVE  deadline' <= at \/ deadline' <= mono
  BY <1>0, <1>1 DEF NotBefore
<1>2. ASSUME NEW i \in Slots PROVE TimerNear(timers[i])'
  <2>1. timers[i] \in Timer /\ TimerNear(timers[i]) /\ timers'[i] = timers[i]
    BY DEF TypeOK, NearInv
  <2> DEFINE t == timers[i]
  <2>2. /\ t.dueMs \in Int /\ t.ringStart + RingMs \in Int /\ t.dueEpoch \in Int
        /\ t.ringStart \in Int
    BY <2>1, TimerFields, TimingFacts
  <2>3. Pending(t) /\ t.kind = "countdown" => deadline' <= t.dueMs \/ deadline' <= mono
    <3>1. Pending(t) /\ t.kind = "countdown" => NotBefore(t.dueMs, mono) \in PollDeadlines
      BY DEF PollDeadlines, ScheduleDeadlines, PendingSlots
    <3> QED
      BY <1>1, <2>2, <3>1
  <2>4. Ringing(t) => deadline' <= t.ringStart + RingMs \/ deadline' <= mono
    <3>1. Ringing(t) => NotBefore(t.ringStart + RingMs, mono) \in PollDeadlines
      BY DEF PollDeadlines, ScheduleDeadlines, RingingSlots, RingMs
    <3> QED
      BY <1>1, <2>2, <3>1
  <2>5. ASSUME Pending(t), t.kind = "alarm", setup.skews = {0}
        PROVE  deadline' <= AlarmAt(t) \/ deadline' <= mono
    <3>1. synced /\ ClockValid(Epoch)
      BY <2>1, <2>5, WallFacts DEF TimerNear
    <3> DEFINE d == (t.dueEpoch - Epoch) * MsPerSec
    <3>2. d \in Int /\ d <= TrueTime(t.dueEpoch) - real + MsPerSec - 1 /\ TrueTime(t.dueEpoch) \in Int
      BY <2>2, <2>5, <3>1, AlarmDistance, TrueTimeIs
    <3>3. NotBefore(mono + d, mono) \in PollDeadlines
      BY <2>5, <3>1 DEF PollDeadlines, ScheduleDeadlines, PendingSlots
    <3> HIDE DEF d
    <3>4. deadline' <= mono + d \/ deadline' <= mono
      BY <1>0, <1>1, <3>2, <3>3
    <3> QED
      BY <1>0, <3>2, <3>4 DEF AlarmAt
  <2> QED
    BY <1>0, <2>1, <2>3, <2>4, <2>5 DEF TimerNear, Near, AlarmAt
<1>3. ASSUME NEW x \in RemoteIds PROVE RemoteNear(remote[x])'
  <2>1. remote[x].ringStart + RingMs \in Int /\ RemoteNear(remote[x]) /\ remote'[x] = remote[x]
    BY TimingFacts DEF TypeOK, RemoteTimer, NearInv
  <2>2. remote[x].state = "ringing" => NotBefore(remote[x].ringStart + RingMs, mono) \in PollDeadlines
    BY DEF PollDeadlines, RemoteRinging, RingMs
  <2>3. remote[x].state = "ringing" => deadline' <= remote[x].ringStart + RingMs \/ deadline' <= mono
    BY <1>1, <2>1, <2>2
  <2> QED
    BY <1>0, <2>1, <2>3 DEF RemoteNear, Near
<1> QED
  BY <1>2, <1>3 DEF NearInv

\* Time passes only in a cue and in poll, or while there is nothing to ring.
LEMMA TickNear ==
  ASSUME TypeOK, ClockInv, NearInv, Tick, UNCHANGED setup
  PROVE  NearInv'
<1> USE DEF schedule, clocks
<1>0. /\ mono \in Nat /\ real \in Nat /\ deadline \in Int /\ mono' = mono + 1 /\ real' = real + 1
      /\ UNCHANGED <<timers, remote, phase, deadline, synced>>
  BY DEF Tick, TypeOK
<1>1. ASSUME NEW at \in Int, NEW slack \in Nat, Near(at, slack), phase # "down"
      PROVE  /\ mono' - at <= slack
             /\ phase = "cue" => deadline - at <= slack
             /\ phase = "poll" => deadline <= at \/ deadline <= mono'
  BY <1>0, <1>1 DEF Tick, Waiting, Near
<1>2. ASSUME NEW i \in Slots PROVE TimerNear(timers[i])'
  <2> DEFINE t == timers[i]
             g == MissGrace * MsPerSec
  <2>1. t \in Timer /\ TimerNear(t) /\ timers'[i] = t
    BY <1>0 DEF TypeOK, NearInv
  <2>2. /\ t.dueMs \in Int /\ t.ringStart + RingMs \in Int /\ TrueTime(t.dueEpoch) \in Int
        /\ GraceMs - 1 \in Nat /\ g \in Nat /\ AudioBlock \in Nat
    BY <2>1, TimerFields, TimingFacts
  <2>3. AlarmAt(t) \in Int /\ AlarmAt(t)' = AlarmAt(t)
    BY <1>0, <2>1, <2>2 DEF AlarmAt, TrueTime
  <2>4. CASE phase = "down"
    BY <2>1, <2>4, FreeIsNear DEF ClockInv, TimerNear, FreeTimer, Pending, Ringing
  <2>5. CASE phase # "down"
    <3> HIDE DEF g
    <3>1. Pending(t) /\ t.kind = "countdown" => Near(t.dueMs, GraceMs - 1)'
      BY <1>0, <1>1, <2>1, <2>2, <2>5 DEF TimerNear, Near
    <3>2. Ringing(t) => Near(t.ringStart + RingMs, AudioBlock)'
      BY <1>0, <1>1, <2>1, <2>2, <2>5 DEF TimerNear, Near
    <3>3. ASSUME Pending(t), t.kind = "alarm", setup.skews = {0}
          PROVE  Near(AlarmAt(t), g)'
      <4>1. Near(AlarmAt(t), g)
        BY <2>1, <3>3 DEF TimerNear, g
      <4>2. PICK at \in Int : at = AlarmAt(t) /\ at = AlarmAt(t)'
        BY <2>3
      <4>3. Near(at, g)'
        BY <1>0, <1>1, <2>2, <2>5, <4>1, <4>2 DEF Near
      <4> QED
        BY <4>2, <4>3 DEF Near, g
    <3> QED
      BY <1>0, <2>1, <3>1, <3>2, <3>3 DEF TimerNear, g
  <2> QED
    BY <2>4, <2>5
<1>3. ASSUME NEW x \in RemoteIds PROVE RemoteNear(remote[x])'
  <2>1. remote[x].ringStart + RingMs \in Int /\ RemoteNear(remote[x]) /\ remote'[x] = remote[x]
        /\ AudioBlock \in Nat
    BY <1>0, TimingFacts DEF TypeOK, RemoteTimer, NearInv
  <2>2. phase = "down" => remote[x].state # "ringing"
    BY DEF ClockInv, NoRemote
  <2> QED
    BY <1>0, <1>1, <2>1, <2>2 DEF RemoteNear, Near
<1> QED
  BY <1>2, <1>3 DEF NearInv

\* A line of the file is restored only within the grace.
LEMMA RestoredNear ==
  ASSUME TypeOK, ClockInv, NEW rec \in Record, NEW id \in Nat, RestoreInRange(rec, Epoch),
         UNCHANGED <<mono, real, synced, setup>>, phase' \notin {"cue", "poll"},
         NEW t \in Timer, t = Restored(rec, id, mono, Epoch)
  PROVE  TimerNear(t)'
<1> DEFINE d == (rec.due - Epoch) * MsPerSec
<1>1. /\ rec.due \in Int /\ Epoch \in Int /\ mono \in Nat /\ real \in Nat /\ d \in Int
      /\ rec.due - Epoch \in Int /\ MissGrace \in Int /\ rec.due - Epoch >= - MissGrace
      /\ rec.kind \in {"countdown", "alarm"} /\ TrueTime(rec.due) \in Int
  BY WallFacts, TrueTimeIs DEF Record, TypeOK, RestoreInRange, Kinds
<1>3. /\ t.state = "pending" /\ t.kind = rec.kind /\ t.dueEpoch = rec.due /\ t.dueMs = mono + d
  BY DEF Restored
<1>4. synced
  BY WallFacts DEF RestoreInRange
<1>5. (- MissGrace) * MsPerSec <= d /\ (- MissGrace) * MsPerSec = 0 - MissGrace * MsPerSec
  BY <1>1, UnitsMono, UnitsAdd
<1> HIDE DEF d
<1>6. mono - t.dueMs <= GraceMs - 1
  BY <1>1, <1>3, <1>5, TimingFacts
<1>7. setup.skews = {0} => real - TrueTime(rec.due) < GraceMs
  BY <1>1, <1>4, AlarmDistance
<1>8. setup.skews = {0} => mono - AlarmAt(t) <= MissGrace * MsPerSec
  <2> DEFINE g == MissGrace * MsPerSec
  <2>1. g \in Nat /\ GraceMs = g + MsPerSec /\ MsPerSec \in Nat
    BY TimingFacts
  <2> HIDE DEF g
  <2>2. setup.skews = {0} => mono - AlarmAt(t) <= g
    BY <1>1, <1>3, <1>7, <2>1 DEF AlarmAt
  <2> QED
    BY <2>2 DEF g
<1> QED
  BY <1>3, <1>4, <1>6, <1>8 DEF TimerNear, Near, Pending, Ringing, AlarmAt

LEMMA LoadLineNear ==
  ASSUME TypeOK, TypeOK', ClockInv, NearInv, LoadLine, UNCHANGED setup
  PROVE  NearInv'
<1> USE DEF clocks
<1>1. UNCHANGED <<mono, real, synced, remote>> /\ phase' = "load"
  BY DEF LoadLine
<1> DEFINE rec == file[cursor]
           id == RestoreId(rec, nextId)
           n == Restored(rec, id, mono, Epoch)
<1>2. rec \in Record
  BY DEF LoadLine, IsFile, TypeOK, FileType
<1>3. id \in Nat
  BY <1>2 DEF RestoreId, Record, TypeOK
<1>4. CASE timers' = timers
  BY <1>1, <1>4, Awake DEF TypeOK
<1>5. CASE timers' # timers
  <2>1. PICK i \in Slots : timers' = [timers EXCEPT ![i] = n] /\ RestoreInRange(rec, Epoch)
    BY <1>5 DEF LoadLine, RestoreAccepted
  <2>3. ASSUME NEW j \in Slots PROVE TimerNear(timers[j])'
    <3>1. PICK v \in Timer : v = timers'[j]
      BY DEF TypeOK
    <3>2. v = n \/ v = timers[j]
      BY <2>1, <3>1 DEF TypeOK
    <3>3. CASE v = timers[j]
      <4>1. TimerNear(v)
        BY <3>3 DEF NearInv
      <4>2. TimerNear(v)'
        BY <1>1, <4>1, AwakeNear
      <4> QED
        BY <3>1, <4>2 DEF TimerNear, Near, AlarmAt
    <3>4. CASE v = n
      <4> HIDE DEF rec, id
      <4>1. TimerNear(v)'
        BY <1>1, <1>2, <1>3, <2>1, <3>4, RestoredNear
      <4> QED
        BY <3>1, <4>1 DEF TimerNear, Near, AlarmAt
    <3> QED
      BY <3>2, <3>3, <3>4
  <2>4. ASSUME NEW x \in RemoteIds PROVE RemoteNear(remote[x])'
    <3>1. RemoteNear(remote[x])
      BY DEF NearInv
    <3> QED
      BY <1>1, <3>1 DEF RemoteNear, Near
  <2> QED
    BY <2>3, <2>4 DEF NearInv
<1> QED
  BY <1>4, <1>5

LEMMA FreshNear ==
  ASSUME FreshContext
  PROVE  NearInv'
<1>1. (\A i \in Slots : timers[i] = FreeTimer)' /\ (\A x \in RemoteIds : remote[x] = NoRemote)'
  BY DEF FreshContext
<1>2. \A i \in Slots : TimerNear(timers[i])'
  BY <1>1 DEF TimerNear, FreeTimer, Pending, Ringing
<1>3. \A x \in RemoteIds : RemoteNear(remote[x])'
  BY <1>1 DEF RemoteNear, NoRemote
<1> QED
  BY <1>2, <1>3 DEF NearInv

\* A clock that is set again is set wrong: there are no alarms to miss when
\* it is set for the first time.
LEMMA ClockSetNear ==
  ASSUME TypeOK, ClockInv, NearInv, NEW k \in setup.skews, ClockSet(k), UNCHANGED setup
  PROVE  NearInv'
<1> USE DEF schedule
<1>1. UNCHANGED <<timers, remote, phase, deadline, mono, real>> /\ synced'
      /\ (setup.skews = {0} => ~ synced)
  BY DEF ClockSet, ClockInv
<1> QED
  BY <1>1 DEF NearInv, TimerNear, RemoteNear, Near, AlarmAt

\* A request: what is added lies ahead, and what is released is gone.
LEMMA RequestNear ==
  ASSUME TypeOK, TypeOK', ClockInv, NearInv, LocalRequest, UNCHANGED setup
  PROVE  NearInv'
<1> USE DEF clocks
<1>0. /\ UNCHANGED <<mono, real, synced>> /\ phase' = "serve"
      /\ timers' \in [Slots -> Timer] /\ remote' \in [RemoteIds -> RemoteTimer]
  BY DEF LocalRequest, AddCountdown, AddAlarm, CancelAll, CancelLabel, CancelAt, DismissId,
         DismissAll, Served, TypeOK
<1>1. \A i \in Slots : timers[i] \in Timer /\ TimerNear(timers[i])
  BY DEF TypeOK, NearInv
<1>2. mono \in Nat /\ real \in Nat /\ Epoch \in Int
  BY WallFacts DEF TypeOK
<1>3. ASSUME NEW s \in setup.durations, NEW l \in setup.labels, AddCountdown(s, l)
      PROVE  NearInv'
  <2> DEFINE n == NewCountdown(nextId, s, l, mono, real + s * MsPerSec)
  <2>1. s \in Int /\ 1 <= s /\ remote' = remote
    BY <1>3, SetupType DEF AddCountdown, CountdownAccepted, TypeOK
  <2>2. 1 * MsPerSec <= s * MsPerSec /\ s * MsPerSec \in Int
    BY <2>1, UnitsMono, UnitsAdd
  <2>3. mono < mono + s * MsPerSec
    BY <1>2, <2>2
  <2>4. Ahead(n)
    BY <2>3 DEF Ahead, NewCountdown, Pending, Ringing
  <2> HIDE DEF n
  <2>5. \A i \in Slots : timers'[i] = timers[i] \/ timers'[i] = n
    BY <1>3 DEF AddCountdown, n, TypeOK
  <2> QED
    BY <1>0, <2>1, <2>4, <2>5, Awake
<1>4. ASSUME NEW s \in setup.alarms, NEW l \in setup.labels, AddAlarm(Epoch + s, l)
      PROVE  NearInv'
  <2> DEFINE e == Epoch + s
             n == NewAlarm(nextId, e, l, TrueTime(e))
  <2>1. s \in Int /\ e \in Int /\ Epoch < e /\ synced /\ remote' = remote
    BY <1>2, <1>4, SetupType, WallFacts DEF AddAlarm, AlarmAccepted, TypeOK
  <2>2. \A i \in Slots : timers'[i] = timers[i] \/ timers'[i] = n
    BY <1>4 DEF AddAlarm, TypeOK
  <2> HIDE DEF e
  <2>3. setup.skews = {0} => real < TrueTime(e)
    BY <2>1, AlarmDistance
  <2>4. Ahead(n)
    BY <2>1, <2>3 DEF Ahead, NewAlarm, Pending, Ringing
  <2> HIDE DEF n
  <2> QED
    BY <1>0, <2>1, <2>2, <2>4, Awake
<1>5. ASSUME NEW tab, NEW sel, timers' = FreeSlots(tab, sel), remote' = remote,
             \A i \in Slots : tab[i] = timers[i] \/ Ahead(tab[i])
      PROVE  NearInv'
  <2>1. \A i \in Slots : timers'[i] = tab[i] \/ timers'[i] = FreeTimer
    BY <1>5 DEF FreeSlots
  <2> QED
    BY <1>0, <1>5, <2>1, FreeIsNear, Awake
<1>6. CASE CancelAll
  BY <1>5, <1>6 DEF CancelAll, Release
<1>7. ASSUME NEW id, CancelAt(id) PROVE NearInv'
  <2> DEFINE tab == StepTable(timers, mono, Epoch)
  <2>1. \A i \in Slots : tab[i] = StepTimer(timers[i], mono, Epoch)
    BY DEF StepTable
  <2>2. timers' = FreeSlots(tab, PendingWithId(tab, id)) /\ remote' = remote
    BY <1>7 DEF CancelAt, Release
  <2> HIDE DEF tab
  <2>3. \A i \in Slots : Ahead(tab[i])
    BY <1>1, <2>1, StepAhead
  <2> QED
    BY <1>5, <2>2, <2>3
<1>8. ASSUME NEW id, DismissId(id) PROVE NearInv'
  BY <1>5, <1>8 DEF DismissId, Release
<1>9. CASE DismissAll
  <2>1. \A i \in Slots : timers'[i] = timers[i] \/ timers'[i] = FreeTimer
    BY <1>9 DEF DismissAll, FreeSlots
  <2>2. \A x \in RemoteIds : remote'[x] = remote[x] \/ remote'[x].state # "ringing"
    BY <1>9 DEF DismissAll, NoRemote
  <2> QED
    BY <1>0, <2>1, <2>2, FreeIsNear, Awake
<1> QED
  BY <1>3, <1>4, <1>6, <1>7, <1>8, <1>9 DEF LocalRequest, CancelLabel

\* Home Assistant's events: a ring begins now, or goes on.
LEMMA RemoteRequestNear ==
  ASSUME TypeOK, TypeOK', ClockInv, NearInv, RemoteRequest, UNCHANGED setup
  PROVE  NearInv'
<1> USE DEF clocks, schedule
<1>0. /\ UNCHANGED <<mono, real, synced, timers>> /\ phase' = "serve"
      /\ timers' \in [Slots -> Timer] /\ remote' \in [RemoteIds -> RemoteTimer]
  BY DEF RemoteRequest, RemoteStarted, RemoteUpdated, RemoteCancelled, RemoteFinished,
         RemoteClear, RemoteSet, Served, TypeOK
<1>1. mono \in Nat /\ RingMs \in Nat /\ remote \in [RemoteIds -> RemoteTimer]
  BY TimingFacts DEF TypeOK
<1>2. ASSUME NEW x \in RemoteIds, NEW v, RemoteSet(x, v),
             \/ v.state # "ringing"
             \/ v.ringStart = mono
             \/ v.state = remote[x].state /\ v.ringStart = remote[x].ringStart
      PROVE  NearInv'
  <2>1. remote' = [remote EXCEPT ![x] = v]
    BY <1>2 DEF RemoteSet
  <2>2. \A y \in RemoteIds \ {x} : remote'[y] = remote[y]
    BY <1>1, <2>1
  <2>3. remote'[x] = v
    BY <1>1, <2>1
  <2>4. ASSUME NEW y \in RemoteIds PROVE RemoteNear(remote[y])'
    <3>1. RemoteNear(remote[y])
      BY DEF NearInv
    <3>2. mono - (mono + RingMs) <= AudioBlock
      BY <1>1
    <3>3. CASE y # x
      BY <1>0, <2>2, <3>1, <3>3 DEF RemoteNear, Near
    <3>4. CASE y = x
      BY <1>0, <1>2, <2>3, <3>1, <3>2, <3>4 DEF RemoteNear, Near
    <3> QED
      BY <3>3, <3>4
  <2>5. ASSUME NEW i \in Slots PROVE TimerNear(timers[i])'
    <3>1. TimerNear(timers[i])
      BY DEF NearInv
    <3> QED
      BY <1>0, <3>1 DEF TimerNear, Near, AlarmAt
  <2> QED
    BY <2>4, <2>5 DEF NearInv
<1>3. \A a : RemotePending(a).state # "ringing"
  BY DEF RemotePending
<1>4. NoRemote.state # "ringing"
  BY DEF NoRemote
<1>5. ASSUME NEW x \in RemoteIds, NEW a \in BOOLEAN, RemoteStarted(x, a) \/ RemoteUpdated(x, a)
      PROVE  NearInv'
  <2> DEFINE v == [remote[x] EXCEPT !.active = FALSE]
  <2>1. v.state = remote[x].state /\ v.ringStart = remote[x].ringStart
    BY <1>1 DEF RemoteTimer
  <2>2. RemoteSet(x, RemotePending(a)) \/ RemoteSet(x, v)
    BY <1>5 DEF RemoteStarted, RemoteUpdated
  <2> HIDE DEF v
  <2> QED
    BY <1>2, <1>3, <2>1, <2>2
<1>6. ASSUME NEW x \in RemoteIds, RemoteCancelled(x) \/ RemoteFinished(x)
      PROVE  NearInv'
  <2> DEFINE again == remote[x].state = "ringing"
             v == [state |-> "ringing", active |-> FALSE,
                   ringStart |-> IF again THEN remote[x].ringStart ELSE mono]
  <2>1. v.ringStart = mono \/ (v.state = remote[x].state /\ v.ringStart = remote[x].ringStart)
    OBVIOUS
  <2>2. RemoteSet(x, NoRemote) \/ RemoteSet(x, v)
    BY <1>6 DEF RemoteCancelled, RemoteFinished
  <2> HIDE DEF v
  <2> QED
    BY <1>2, <1>4, <2>1, <2>2
<1>7. CASE RemoteClear
  <2>1. \A x \in RemoteIds : remote'[x].state # "ringing"
    BY <1>4, <1>7 DEF RemoteClear
  <2> QED
    BY <1>0, <2>1, Awake
<1> QED
  BY <1>5, <1>6, <1>7, SetupType DEF RemoteRequest, TypeOK

\* The clocks, and what a stopped daemon holds.
LEMMA NextClock == TypeOK /\ ClockInv /\ [Next]_vars => ClockInv'
<1> SUFFICES ASSUME TypeOK, ClockInv, [Next]_vars PROVE ClockInv'
  OBVIOUS
<1> USE DEF clocks
<1>0. mono \in Nat /\ real \in Nat /\ setup' = setup /\ setup.maxReal \in Nat
  BY DEF TypeOK, Next, vars, Setup
<1>1. ASSUME FreshContext, UNCHANGED <<mono, real, skew>> \/ (mono' = 0 /\ UNCHANGED <<real, skew>>)
      PROVE  ClockInv'
  BY <1>0, <1>1 DEF ClockInv, FreshContext
<1>2. ASSUME UNCHANGED <<mono, real, skew>>, phase' # "down", phase' # "load" => loadFrom' = "top"
      PROVE  ClockInv'
  BY <1>0, <1>2 DEF ClockInv
<1>3. CASE Exited \/ Crash \/ PowerCycle
  BY <1>1, <1>3 DEF Exited, Crash, PowerCycle
<1>4. CASE Tick
  BY <1>0, <1>4 DEF Tick, ClockInv, ctx, schedule
<1>5. ASSUME NEW k \in setup.skews, ClockSet(k) PROVE ClockInv'
  BY <1>0, <1>5 DEF ClockSet, ClockInv, ctx, schedule
<1>6. CASE LoopTop \/ LoadSteps \/ Terminate
  BY <1>2, <1>6 DEF LoopTop, LoadSteps, LoadNoFile, LoadSkip, LoadLine, LoadEnd, LoadDone, Terminate,
                    StartLoad, ClockInv, TypeOK
<1>7. CASE Step \/ CueDone \/ NothingToSave \/ LoadBeforeSave \/ SaveIfDirty \/ LoopAgain \/ SaveOnExit
  BY <1>2, <1>7 DEF Step, CueDone, NothingToSave, LoadBeforeSave, SaveIfDirty, LoopAgain, SaveOnExit,
                    EnterPoll, StartLoad, ClockInv
<1>8. CASE LocalRequest \/ RemoteRequest
  <2>1. Served /\ UNCHANGED loadFrom
    BY <1>8 DEF LocalRequest, AddCountdown, AddAlarm, CancelAll, CancelLabel, CancelAt, DismissId,
                DismissAll, RemoteRequest, RemoteStarted, RemoteUpdated, RemoteCancelled,
                RemoteFinished, RemoteClear, RemoteSet, Served
  <2> QED
    BY <1>2, <2>1 DEF Served, CanServe, ClockInv
<1>9. CASE Restart
  BY <1>2, <1>9 DEF Restart, ClockInv
<1>10. CASE UNCHANGED vars
  BY <1>10 DEF vars, ClockInv
<1> QED
  BY <1>3, <1>4, <1>5, <1>6, <1>7, <1>8, <1>9, <1>10 DEF Next, Loop, Environment

LEMMA NextNear == TypeOK /\ TypeOK' /\ ClockInv /\ NearInv /\ [Next]_vars => NearInv'
<1> SUFFICES ASSUME TypeOK, TypeOK', ClockInv, NearInv, [Next]_vars PROVE NearInv'
  OBVIOUS
<1> USE DEF clocks, schedule
<1>0. setup' = setup /\ timers' \in [Slots -> Timer] /\ remote' \in [RemoteIds -> RemoteTimer]
  BY DEF TypeOK, Next, vars
<1>1. ASSUME UNCHANGED <<timers, remote, mono, real, synced>>, phase' \notin {"cue", "poll"}
      PROVE  NearInv'
  BY <1>0, <1>1, Awake
<1>2. CASE Exited \/ Crash \/ PowerCycle
  BY <1>2, FreshNear DEF Exited, Crash, PowerCycle
<1>3. CASE LoopTop \/ LoadNoFile \/ LoadSkip \/ LoadEnd \/ Terminate
  BY <1>1, <1>3 DEF LoopTop, LoadNoFile, LoadSkip, LoadEnd, LoadDone, Terminate, StartLoad, TypeOK
<1>4. CASE CueDone \/ LoadBeforeSave \/ LoopAgain \/ SaveOnExit \/ Restart
  BY <1>1, <1>4 DEF CueDone, LoadBeforeSave, LoopAgain, SaveOnExit, StartLoad, Restart
<1>5. CASE NothingToSave \/ SaveIfDirty
  BY <1>0, <1>5, PollNear DEF NothingToSave, SaveIfDirty
<1>6. CASE UNCHANGED vars
  BY <1>6 DEF vars, NearInv, TimerNear, RemoteNear, Near, AlarmAt
<1> QED
  BY <1>0, <1>2, <1>3, <1>4, <1>5, <1>6, StepNear, LoadLineNear, TickNear, ClockSetNear, RequestNear,
     RemoteRequestNear DEF Next, Loop, LoadSteps, Environment

-----------------------------------------------------------------------------
(***************************************************************************)
(* Roundings.  A save and the restore of it lose less than two seconds.    *)
(***************************************************************************)

\* A slip measured against two clocks that advanced together is the same.
LEMMA StillSlipped ==
  ASSUME NEW due \in Int, NEW want \in Int, NEW slip \in Nat, NEW m0 \in Nat, NEW m1 \in Nat,
         NEW r0 \in Nat, NEW r1 \in Nat, r1 - m1 = r0 - m0, due - m0 >= want - r0 - slip
  PROVE  due - m1 >= want - r1 - slip
OBVIOUS

\* More roundings lose more.
LEMMA SlipMono ==
  ASSUME NEW n \in Nat, NEW m \in Nat, n <= m
  PROVE  Slip * n \in Nat /\ Slip * m \in Nat /\ Slip * n <= Slip * m
         /\ Slip * (n + 1) = Slip * n + Slip
<1>1. Slip \in Nat
  BY DEF Slip
<1> HIDE DEF Slip
<1>2. Slip * n \in Nat /\ Slip * m \in Nat /\ Slip * (n + 1) = Slip * n + Slip
  BY <1>1
<1>3. \A s \in Nat : s * n <= s * m
  OBVIOUS
<1> QED
  BY <1>1, <1>2, <1>3

LEMMA RoundsType ==
  ASSUME TypeOK, PersistInv
  PROVE  Rounds \in Nat /\ FileRounds \in Nat /\ Rounds <= FileRounds /\ Rounds <= stops
         /\ FileRounds <= Rounds + 1
<1>1. stops \in Nat /\ (phase \in {"exit", "gone"} \/ loadFrom = "exit" => stops > 0)
  BY DEF TypeOK, PersistInv
<1>2. Rounds \in Nat /\ Rounds <= stops
  BY <1>1 DEF Rounds
<1> QED
  BY <1>2 DEF FileRounds

LEMMA RoundsTypeAfter ==
  ASSUME TypeOK', PersistInv'
  PROVE  Rounds' \in Nat /\ FileRounds' \in Nat
<1>1. stops' \in Nat /\ (phase' \in {"exit", "gone"} \/ loadFrom' = "exit" => stops' > 0)
  BY DEF TypeOK, PersistInv
<1>2. \A n \in Nat : (n > 0 => n - 1 \in Nat) /\ n + 1 \in Nat
  OBVIOUS
<1>3. CASE phase' \in {"exit", "gone"} \/ loadFrom' = "exit"
  <2>1. Rounds' = stops' - 1
    BY <1>3 DEF Rounds
  <2> QED
    BY <1>1, <1>2, <1>3, <2>1 DEF FileRounds
<1>4. CASE ~ (phase' \in {"exit", "gone"} \/ loadFrom' = "exit")
  <2>1. Rounds' = stops'
    BY <1>4 DEF Rounds
  <2> QED
    BY <1>1, <1>2, <2>1 DEF FileRounds
<1> QED
  BY <1>3, <1>4

LEMMA WeakerTimer ==
  ASSUME NEW t \in Timer, NEW n \in Nat, NEW m \in Nat, n <= m, TypeOK, TimerSlipped(t, n)
  PROVE  TimerSlipped(t, m)
<1>1. mono \in Nat /\ real \in Nat /\ t.dueMs \in Int /\ t.want \in Int
  BY TimerFields DEF TypeOK
<1> QED
  BY <1>1, SlipMono DEF TimerSlipped

LEMMA WeakerFile ==
  ASSUME NEW backup \in FileType, NEW n \in Nat, NEW m \in Nat, n <= m, FileSlipped(backup, n)
  PROVE  FileSlipped(backup, m)
<1> SUFFICES ASSUME NEW entry \in LinesOf(backup) PROVE RecordSlipped(entry, m)
  BY DEF FileSlipped
<1>1. entry \in Record
  BY DEF LinesOf, IsFile, FileType
<1>2. entry.due \in Int /\ entry.want \in Int /\ TrueTime(entry.due) \in Int
  BY <1>1, TrueTimeIs DEF Record
<1>3. RecordSlipped(entry, n)
  BY DEF FileSlipped
<1> QED
  BY <1>2, <1>3, SlipMono DEF RecordSlipped

\* A division toward zero loses less than a second, in one direction.
LEMMA TruncLoses ==
  ASSUME NEW a \in Int
  PROVE  /\ TruncDiv(a, MsPerSec) \in Int
         /\ TruncDiv(a, MsPerSec) * MsPerSec >= a - (MsPerSec - 1)
<1>1. CASE a >= 0
  BY <1>1, UnitsDiv, UnitsAdd DEF TruncDiv
<1>2. CASE ~ (a >= 0)
  <2> DEFINE q == (- a) \div MsPerSec
  <2>1. - a \in Int /\ q \in Int /\ q * MsPerSec <= - a /\ q * MsPerSec \in Int
    BY UnitsDiv, UnitsAdd
  <2> HIDE DEF q
  <2>2. (0 - q) * MsPerSec = 0 * MsPerSec - q * MsPerSec /\ 0 * MsPerSec = 0
    BY <2>1, UnitsAdd
  <2>3. - q = 0 - q /\ - q \in Int
    BY <2>1
  <2>4. TruncDiv(a, MsPerSec) = - q
    BY <1>2 DEF TruncDiv, q
  <2>5. (- q) * MsPerSec >= a
    <3> DEFINE qm == q * MsPerSec
    <3>1. (0 - q) * MsPerSec = 0 - qm /\ qm \in Int /\ qm <= - a
      BY <2>1, <2>2
    <3> HIDE DEF qm
    <3>2. (0 - q) * MsPerSec >= a
      BY <3>1
    <3> QED
      BY <2>3, <3>2
  <2>6. (- q) * MsPerSec \in Int
    BY <2>3, UnitsAdd
  <2> QED
    BY <2>3, <2>4, <2>5, <2>6
<1> QED
  BY <1>1, <1>2

\* What is saved of a timer lost at most one rounding more.
LEMMA RecordSlips ==
  ASSUME TypeOK, ClockInv, setup.skews = {0}, synced, NEW t \in Timer, Pending(t), NEW n \in Nat,
         TimerSlipped(t, n)
  PROVE  RecordSlipped(RecordOf(t, mono, Epoch), n + 1)
<1> DEFINE x == t.dueMs - mono
           q == TruncDiv(x, MsPerSec)
           qm == q * MsPerSec
           entry == RecordOf(t, mono, Epoch)
           pm == Epoch * MsPerSec
           origin == ClockValidEpoch * MsPerSec
<1>1. /\ t.kind \in {"countdown", "alarm"} /\ t.dueMs \in Int /\ t.want \in Int /\ mono \in Nat
      /\ real \in Nat /\ x \in Int /\ Epoch \in Int /\ pm \in Int /\ origin \in Nat
  BY TimerFields, WallFacts, TimingFacts DEF TypeOK
<1>2. q \in Int /\ qm >= x - (MsPerSec - 1) /\ qm \in Int
  BY <1>1, TruncLoses, UnitsAdd
<1>3. origin + real < pm + MsPerSec
  BY WallFacts
<1>4. /\ entry.kind = t.kind /\ entry.want = t.want
      /\ t.kind = "alarm" => entry.due = t.dueEpoch
      /\ t.kind = "countdown" => entry.due = Epoch + q
  BY DEF RecordOf
<1>5. TrueTime(Epoch + q) = pm + qm - origin
  BY <1>1, <1>2, TrueTimeSum
<1>6. Slip * n \in Nat /\ Slip * (n + 1) = Slip * n + Slip /\ Slip = (MsPerSec - 1) + (MsPerSec - 1)
  BY SlipMono DEF Slip
<1> DEFINE sn == Slip * n
           sm == Slip * (n + 1)
<1>7. t.kind = "countdown" => x >= t.want - real - sn
  BY <1>1 DEF TimerSlipped
<1>8. sn \in Nat /\ sm = sn + ((MsPerSec - 1) + (MsPerSec - 1))
  BY <1>6
<1> HIDE DEF x, q, qm, entry, pm, origin, sn, sm
<1>9. t.kind = "countdown" => TrueTime(Epoch + q) >= t.want - sm
  BY <1>1, <1>2, <1>3, <1>5, <1>7, <1>8
<1> QED
  BY <1>1, <1>4, <1>9 DEF RecordSlipped, TimerSlipped, entry, sm

LEMMA SnapshotSlips ==
  ASSUME TypeOK, ClockInv, setup.skews = {0}, synced, NEW n \in Nat,
         \A i \in Slots : TimerSlipped(timers[i], n)
  PROVE  FileSlipped(Snapshot(timers, mono, Epoch), n + 1)
<1> DEFINE backup == Snapshot(timers, mono, Epoch)
<1> SUFFICES ASSUME NEW i \in Slots, backup[i] # NoLine PROVE RecordSlipped(backup[i], n + 1)
  BY DEF FileSlipped, LinesOf
<1>1. Pending(timers[i]) /\ backup[i] = RecordOf(timers[i], mono, Epoch) /\ timers[i] \in Timer
  BY DEF Snapshot, TypeOK
<1> HIDE DEF backup
<1> QED
  BY <1>1, RecordSlips

\* What is restored of a record lost nothing more.
LEMMA RestoreSlips ==
  ASSUME TypeOK, ClockInv, setup.skews = {0}, synced, NEW entry \in Record, NEW id \in Nat,
         NEW n \in Nat, RecordSlipped(entry, n)
  PROVE  TimerSlipped(Restored(entry, id, mono, Epoch), n)
<1> DEFINE t == Restored(entry, id, mono, Epoch)
           d == (entry.due - Epoch) * MsPerSec
           sn == Slip * n
<1>1. entry.due \in Int /\ entry.want \in Int /\ mono \in Nat /\ real \in Nat /\ TrueTime(entry.due) \in Int
  BY TrueTimeIs DEF Record, TypeOK
<1>2. d \in Int /\ TrueTime(entry.due) - real <= d
  BY <1>1, AlarmDistance
<1>3. sn \in Nat
  BY SlipMono
<1>4. t.kind = entry.kind /\ t.want = entry.want /\ t.dueEpoch = entry.due /\ t.dueMs = mono + d
  BY DEF Restored
<1>5. entry.kind = "countdown" => TrueTime(entry.due) >= entry.want - sn
  BY DEF RecordSlipped
<1> HIDE DEF t, d, sn
<1>6. t.kind = "countdown" => t.dueMs - mono >= t.want - real - sn
  BY <1>1, <1>2, <1>3, <1>4, <1>5
<1> QED
  BY <1>4, <1>6 DEF TimerSlipped, RecordSlipped, t, sn

\* A step that writes nothing, makes no pending timer and loses no round.
LEMMA QuietSlips ==
  ASSUME TypeOK, TypeOK', PersistInv, PersistInv', SlipInv, KeepsPending,
         UNCHANGED <<file, survivors, setup>>,
         real' - mono' = real - mono, Rounds <= Rounds', FileRounds <= FileRounds'
  PROVE  SlipInv'
<1> SUFFICES ASSUME setup.skews = {0}
             PROVE  /\ \A i \in Slots : TimerSlipped(timers[i], Rounds)'
                    /\ FileSlipped(file, FileRounds)'
                    /\ \A backup \in survivors : FileSlipped(backup, FileRounds')
  BY DEF SlipInv, FileSlipped, RecordSlipped, TrueTime
<1>1. /\ Rounds \in Nat /\ FileRounds \in Nat /\ Rounds' \in Nat /\ FileRounds' \in Nat
  BY RoundsType, RoundsTypeAfter
<1>2. FileSlipped(file, FileRounds') /\ \A backup \in survivors : FileSlipped(backup, FileRounds')
  BY <1>1, WeakerFile DEF SlipInv, TypeOK
<1>3. FileSlipped(file, FileRounds)'
  BY <1>2 DEF FileSlipped, RecordSlipped, TrueTime
<1>4. ASSUME NEW i \in Slots PROVE TimerSlipped(timers[i], Rounds)'
  <2>1. PICK t \in Timer : t = timers[i]
    BY DEF TypeOK
  <2>2. TimerSlipped(t, Rounds')
    BY <1>1, <2>1, WeakerTimer DEF SlipInv
  <2>3. t.dueMs \in Int /\ t.want \in Int /\ mono \in Nat /\ real \in Nat /\ mono' \in Nat /\ real' \in Nat
        /\ Slip * Rounds' \in Nat
    BY <1>1, TimerFields, SlipMono DEF TypeOK
  <2>4. Pending(timers'[i]) => timers'[i] = t
    BY <2>1 DEF KeepsPending
  <2> DEFINE sn == Slip * Rounds'
  <2>5. /\ Pending(t) /\ t.kind = "countdown" => t.dueMs - mono >= t.want - real - sn
        /\ Pending(t) /\ t.kind = "alarm" => t.want = TrueTime(t.dueEpoch)
    BY <2>2 DEF TimerSlipped
  <2>6. sn \in Nat
    BY <2>3
  <2> HIDE DEF sn
  <2>7. Pending(t) /\ t.kind = "countdown" => t.dueMs - mono' >= t.want - real' - sn
    <3> SUFFICES ASSUME Pending(t), t.kind = "countdown"
                 PROVE  t.dueMs - mono' >= t.want - real' - sn
      OBVIOUS
    <3>1. t.dueMs - mono >= t.want - real - sn
      BY <2>5
    <3>2. real' - mono' = real - mono
      OBVIOUS
    <3> QED
      BY <2>3, <2>6, <3>1, <3>2, StillSlipped
  <2> QED
    BY <2>4, <2>5, <2>7 DEF TimerSlipped, TrueTime, sn
<1> QED
  BY <1>2, <1>3, <1>4

\* A process ends: what it held is lost, and what it wrote is a round older.
LEMMA FreshSlips ==
  ASSUME TypeOK, TypeOK', PersistInv, PersistInv', SlipInv, FreshContext, setup' = setup,
         file' \in survivors \cup {file}, survivors' \subseteq survivors \cup {file},
         phase' \in {"down", "top"}, FileRounds <= stops'
  PROVE  SlipInv'
<1> SUFFICES ASSUME setup.skews = {0}
             PROVE  /\ \A i \in Slots : TimerSlipped(timers[i], Rounds)'
                    /\ FileSlipped(file', FileRounds')
                    /\ \A backup \in survivors' : FileSlipped(backup, FileRounds')
  BY DEF SlipInv, FileSlipped, RecordSlipped, TrueTime
<1>1. FileRounds' = stops' /\ FileRounds' \in Nat /\ FileRounds \in Nat
  BY RoundsType DEF FreshContext, FileRounds, Rounds, TypeOK
<1>2. \A backup \in survivors \cup {file} : FileSlipped(backup, FileRounds')
  BY <1>1, WeakerFile DEF SlipInv, TypeOK
<1>3. \A i \in Slots : ~ Pending(timers'[i])
  BY DEF FreshContext, Pending, FreeTimer
<1> QED
  BY <1>2, <1>3 DEF TimerSlipped

\* A save: the file is the schedule, a rounding later.
LEMMA SaveSlips ==
  ASSUME TypeOK, TypeOK', PersistInv, ClockInv, SlipInv, SaveOk \/ SaveFailed,
         UNCHANGED <<timers, loaded, mono, real, setup>>, Rounds' = Rounds
  PROVE  SlipInv'
<1> SUFFICES ASSUME setup.skews = {0}
             PROVE  /\ \A i \in Slots : TimerSlipped(timers[i], Rounds)'
                    /\ FileSlipped(file', FileRounds)
                    /\ \A backup \in survivors' : FileSlipped(backup, FileRounds)
  BY DEF SlipInv, FileSlipped, RecordSlipped, TrueTime, FileRounds
<1>1. \A i \in Slots : TimerSlipped(timers[i], Rounds)'
  BY DEF SlipInv, TimerSlipped, TrueTime
<1>2. \A backup \in survivors \cup {file} : FileSlipped(backup, FileRounds)
  BY DEF SlipInv
<1> DEFINE n == Snapshot(timers, mono, Epoch)
<1>3. SaveAllowed => FileSlipped(n, FileRounds)
  <2>1. SaveAllowed => synced /\ FileRounds = Rounds + 1
    BY WallFacts DEF SaveAllowed, FileRounds
  <2>2. Rounds \in Nat
    BY RoundsType
  <2> QED
    BY <2>1, <2>2, SnapshotSlips DEF SlipInv
<1> HIDE DEF n
<1>4. \/ file' \in survivors \cup {file} /\ survivors' \subseteq survivors \cup {file}
      \/ SaveAllowed /\ file' = n /\ survivors' \subseteq survivors \cup {file, n}
  BY DEF SaveOk, SaveFailed, SaveNotWritten, SaveNotRenamed, SaveNotDurable, AfterBackup, n
<1> QED
  BY <1>1, <1>2, <1>3, <1>4

\* A restore: what the file holds is a round old.
LEMMA LoadLineSlips ==
  ASSUME TypeOK, TypeOK', PersistInv, ClockInv, SlipInv, LoadLine, UNCHANGED setup
  PROVE  SlipInv'
<1> USE DEF clocks, ctx, disk
<1>1. /\ UNCHANGED <<mono, real, file, survivors, loaded, phase, loadFrom, stops>>
      /\ phase = "load" /\ ~ loaded
  BY DEF LoadLine, PersistInv
<1>2. Rounds' = Rounds /\ FileRounds' = FileRounds /\ FileRounds = Rounds /\ Rounds \in Nat
  BY <1>1, RoundsType DEF Rounds, FileRounds
<1> SUFFICES ASSUME setup.skews = {0}, NEW j \in Slots PROVE TimerSlipped(timers[j], Rounds)'
  BY <1>1, <1>2 DEF SlipInv, FileSlipped, RecordSlipped, TrueTime
<1> DEFINE rec == file[cursor]
           id == RestoreId(rec, nextId)
           n == Restored(rec, id, mono, Epoch)
<1>3. rec \in Record /\ rec \in LinesOf(file)
  BY DEF LoadLine, IsFile, TypeOK, FileType, LinesOf
<1>4. id \in Nat
  BY <1>3 DEF RestoreId, Record, TypeOK
<1>5. timers'[j] = timers[j] \/ (timers'[j] = n /\ RestoreInRange(rec, Epoch))
  BY DEF LoadLine, RestoreAccepted, TypeOK
<1> HIDE DEF rec, id
<1>6. RestoreInRange(rec, Epoch) => TimerSlipped(n, Rounds)
  <2>1. RecordSlipped(rec, Rounds)
    BY <1>2, <1>3 DEF SlipInv, FileSlipped
  <2>2. RestoreInRange(rec, Epoch) => synced
    BY WallFacts DEF RestoreInRange
  <2> QED
    BY <1>2, <1>3, <1>4, <2>1, <2>2, RestoreSlips
<1> HIDE DEF n
<1>7. TimerSlipped(timers[j], Rounds)
  BY DEF SlipInv
<1> QED
  BY <1>1, <1>2, <1>5, <1>6, <1>7 DEF TimerSlipped, TrueTime

\* A new timer lost nothing yet.
LEMMA AddSlips ==
  ASSUME TypeOK, TypeOK', PersistInv, PersistInv', SlipInv, Served, UNCHANGED setup,
         NEW n \in Timer,
         n.kind = "countdown" => n.dueMs - mono = n.want - real,
         n.kind = "alarm" => n.want = TrueTime(n.dueEpoch),
         \A i \in Slots : timers'[i] = timers[i] \/ timers'[i] = n
  PROVE  SlipInv'
<1> USE DEF clocks, disk
<1>1. UNCHANGED <<mono, real, file, survivors, loaded, loadFrom, stops>>
      /\ phase \in {"poll", "serve"} /\ phase' = "serve"
  BY DEF Served, CanServe
<1>2. Rounds' = Rounds /\ FileRounds' = FileRounds /\ Rounds \in Nat
  BY <1>1, RoundsType DEF Rounds, FileRounds
<1> SUFFICES ASSUME setup.skews = {0}, NEW j \in Slots PROVE TimerSlipped(timers[j], Rounds)'
  BY <1>1, <1>2 DEF SlipInv, FileSlipped, RecordSlipped, TrueTime
<1>3. TimerSlipped(timers[j], Rounds)
  BY DEF SlipInv
<1>4. TimerSlipped(n, Rounds)
  <2> DEFINE sn == Slip * Rounds
  <2>1. sn \in Nat /\ n.dueMs \in Int /\ n.want \in Int /\ mono \in Nat /\ real \in Nat
    BY <1>2, SlipMono, TimerFields DEF TypeOK
  <2> HIDE DEF sn
  <2>2. n.kind = "countdown" => n.dueMs - mono >= n.want - real - sn
    BY <2>1
  <2> QED
    BY <2>2 DEF TimerSlipped, sn
<1> QED
  BY <1>1, <1>2, <1>3, <1>4 DEF TimerSlipped, TrueTime

\* Requests: a new timer, or timers that ring, are freed or stay as they are.
LEMMA RequestSlips ==
  ASSUME TypeOK, TypeOK', PersistInv, PersistInv', SlipInv, LocalRequest, UNCHANGED setup,
         Served /\ KeepsPending => SlipInv'
  PROVE  SlipInv'
<1>1. ASSUME NEW tab \in [Slots -> Timer], NEW sel, timers' = FreeSlots(tab, sel),
             \A i \in Slots : Pending(tab[i]) => tab[i] = timers[i]
      PROVE  KeepsPending
  BY <1>1, FreeSlotsKeepsPending DEF KeepsPending
<1>2. mono \in Nat /\ real \in Nat /\ Epoch \in Int /\ nextId \in Nat
  BY EpochType DEF TypeOK
<1>3. ASSUME NEW s \in setup.durations, NEW l \in setup.labels, AddCountdown(s, l)
      PROVE  SlipInv'
  <2> DEFINE d == s * MsPerSec
             n == NewCountdown(nextId, s, l, mono, real + d)
  <2>1. s \in Int /\ l \in LabelOrNone /\ d \in Int /\ Served
    BY <1>3, SetupType, UnitsAdd DEF TypeOK, AddCountdown
  <2>2. \A i \in Slots : timers'[i] = timers[i] \/ timers'[i] = n
    BY <1>3 DEF AddCountdown, TypeOK
  <2>3. n.kind = "countdown" /\ n.dueMs = mono + d /\ n.want = real + d
    BY DEF NewCountdown
  <2>4. n \in Timer
    <3>1. mono + d \in Int /\ real + d \in Int
      BY <1>2, <2>1
    <3> QED
      BY <1>2, <2>1, <3>1 DEF NewCountdown, Timer, Kinds
  <2> HIDE DEF d, n
  <2>5. n.dueMs - mono = n.want - real
    BY <1>2, <2>1, <2>3
  <2> QED
    BY <2>1, <2>2, <2>3, <2>4, <2>5, AddSlips
<1>4. ASSUME NEW s \in setup.alarms, NEW l \in setup.labels, AddAlarm(Epoch + s, l)
      PROVE  SlipInv'
  <2> DEFINE e == Epoch + s
             n == NewAlarm(nextId, e, l, TrueTime(e))
  <2>1. s \in Int /\ l \in LabelOrNone /\ e \in Int /\ Served
    BY <1>2, <1>4, SetupType DEF TypeOK, AddAlarm
  <2>2. \A i \in Slots : timers'[i] = timers[i] \/ timers'[i] = n
    BY <1>4 DEF AddAlarm, TypeOK
  <2> HIDE DEF e
  <2>3. n.kind = "alarm" /\ n.dueEpoch = e /\ n.want = TrueTime(e)
    BY DEF NewAlarm
  <2>4. n \in Timer
    BY <1>2, <2>1, TrueTimeIs DEF NewAlarm, Timer, Kinds
  <2> HIDE DEF n
  <2> QED
    BY <2>1, <2>2, <2>3, <2>4, AddSlips
<1>5. CASE CancelAll
  BY <1>1, <1>5 DEF CancelAll, Release, TypeOK
<1>6. ASSUME NEW id, CancelAt(id) PROVE SlipInv'
  <2> DEFINE tab == StepTable(timers, mono, Epoch)
  <2>1. tab \in [Slots -> Timer]
    BY StepTableType DEF TypeOK
  <2>2. \A i \in Slots : Pending(tab[i]) => tab[i] = timers[i]
    BY StepKeepsPending DEF TypeOK
  <2>3. timers' = FreeSlots(tab, PendingWithId(tab, id)) /\ Served
    BY <1>6 DEF CancelAt, Release
  <2> HIDE DEF tab
  <2> QED
    BY <1>1, <2>1, <2>2, <2>3
<1>7. ASSUME NEW id, DismissId(id) PROVE SlipInv'
  BY <1>1, <1>7 DEF DismissId, Release, TypeOK
<1>8. CASE DismissAll
  BY <1>1, <1>8 DEF DismissAll, TypeOK
<1> QED
  BY <1>3, <1>4, <1>5, <1>6, <1>7, <1>8 DEF LocalRequest, CancelLabel

\* No step loses a timer more than its rounding.
LEMMA NextSlips ==
  ASSUME TypeOK, TypeOK', PersistInv, PersistInv', ClockInv, SlipInv, [Next]_vars
  PROVE  SlipInv'
<1> USE DEF schedule, ctx, clocks, disk
<1>0. setup' = setup /\ stops \in Nat /\ (phase # "load" => loadFrom = "top")
      /\ Rounds \in Nat /\ FileRounds \in Nat /\ FileRounds <= Rounds + 1 /\ Rounds <= stops
  BY RoundsType DEF Next, vars, TypeOK, ClockInv
<1>1. ASSUME KeepsPending, UNCHANGED <<file, survivors>>, real' - mono' = real - mono,
             Rounds' = Rounds, loaded => loaded'
      PROVE  SlipInv'
  <2>1. FileRounds <= FileRounds'
    <3>1. PICK n \in Nat : n = Rounds
      BY <1>0
    <3>2. FileRounds = IF loaded THEN n + 1 ELSE n
      BY <3>1 DEF FileRounds
    <3>3. FileRounds' = IF loaded' THEN n + 1 ELSE n
      BY <1>1, <3>1 DEF FileRounds
    <3> QED
      BY <1>1, <3>2, <3>3
  <2>2. Rounds <= Rounds'
    BY <1>0, <1>1
  <2> QED
    BY <1>0, <1>1, <2>1, <2>2, QuietSlips
<1>2. ASSUME timers' = timers, UNCHANGED <<file, survivors>>, real' - mono' = real - mono,
             Rounds' = Rounds, loaded => loaded'
      PROVE  SlipInv'
  BY <1>1, <1>2 DEF KeepsPending
<1>3. real - mono = real - mono
  OBVIOUS
<1>4. CASE LoopTop \/ LoadBeforeSave \/ CueDone \/ NothingToSave \/ LoopAgain \/ Restart
  <2>1. /\ UNCHANGED <<timers, file, survivors, real, mono, loaded, stops>>
        /\ phase \notin {"load", "exit", "gone"} /\ phase' \notin {"exit", "gone"}
        /\ loadFrom' \in {loadFrom, "step", "save"}
    BY <1>4 DEF LoopTop, LoadBeforeSave, StartLoad, CueDone, NothingToSave, EnterPoll, LoopAgain, Restart
  <2>2. Rounds' = Rounds
    BY <1>0, <2>1 DEF Rounds
  <2> QED
    BY <1>2, <2>1, <2>2
<1>5. CASE LoadNoFile \/ LoadSkip \/ LoadEnd
  <2>1. UNCHANGED <<timers, file, survivors, real, mono, stops>> /\ (loaded => loaded') /\ phase = "load"
    BY <1>5 DEF LoadNoFile, LoadSkip, LoadEnd, LoadDone
  <2>2. \/ phase' = loadFrom /\ loadFrom' = "top"
        \/ UNCHANGED <<phase, loadFrom>>
    BY <1>5 DEF LoadNoFile, LoadSkip, LoadEnd, LoadDone
  <2>3. loadFrom \in {"top", "step", "save", "exit"}
    BY DEF TypeOK
  <2>4. Rounds' = Rounds
    BY <2>1, <2>2, <2>3 DEF Rounds
  <2> QED
    BY <1>2, <2>1, <2>4
<1>6. CASE Step
  <2>1. UNCHANGED <<file, survivors, real, mono, loaded, loadFrom, stops>>
        /\ phase = "step" /\ phase' \in {"cue", "save"}
    BY <1>6 DEF Step
  <2>2. KeepsPending
    BY <1>6, StepKeepsPending DEF Step, KeepsPending, TypeOK
  <2>3. Rounds' = Rounds
    BY <1>0, <2>1 DEF Rounds
  <2> QED
    BY <1>1, <2>1, <2>2, <2>3
<1>7. CASE Tick
  <2>1. UNCHANGED <<timers, file, survivors, loaded, phase, loadFrom, stops>>
    BY <1>7 DEF Tick
  <2>2. real' - mono' = real - mono
    <3>1. real \in Nat /\ mono \in Nat /\ real' = real + 1 /\ mono' = mono + 1
      BY <1>7 DEF Tick, TypeOK
    <3> QED
      BY <3>1
  <2>3. Rounds' = Rounds
    BY <2>1 DEF Rounds
  <2> QED
    BY <1>2, <2>1, <2>2, <2>3
<1>8. ASSUME NEW k \in setup.skews, ClockSet(k) PROVE SlipInv'
  <2>1. UNCHANGED <<timers, file, survivors, real, mono, loaded, phase, loadFrom, stops>>
    BY <1>8 DEF ClockSet
  <2>2. Rounds' = Rounds
    BY <2>1 DEF Rounds
  <2> QED
    BY <1>2, <2>1, <2>2
<1>9. CASE Terminate
  <2>1. /\ UNCHANGED <<timers, file, survivors, real, mono, loaded>> /\ stops' = stops + 1
        /\ phase \in {"top", "poll"} /\ (phase' = "exit" \/ loadFrom' = "exit")
    BY <1>9 DEF Terminate, StartLoad
  <2>2. Rounds' = Rounds
    <3>1. Rounds = stops
      BY <1>0, <2>1 DEF Rounds
    <3>2. Rounds' = stops' - 1
      BY <2>1 DEF Rounds
    <3>3. stops' - 1 = stops
      BY <1>0, <2>1
    <3> QED
      BY <3>1, <3>2, <3>3
  <2> QED
    BY <1>2, <2>1, <2>2
<1>10. CASE SaveIfDirty \/ SaveOnExit
  <2>1. /\ UNCHANGED <<timers, loaded, mono, real, stops, loadFrom>> /\ (SaveOk \/ SaveFailed)
        /\ \/ phase = "save" /\ phase' = "poll"
           \/ phase = "exit" /\ phase' = "gone"
    <3>1. CASE SaveIfDirty
      <4>1. phase' = "poll"
        BY <3>1 DEF SaveIfDirty, EnterPoll
      <4> QED
        BY <3>1, <4>1 DEF SaveIfDirty
    <3>2. CASE SaveOnExit
      BY <3>2 DEF SaveOnExit
    <3> QED
      BY <1>10, <3>1, <3>2
  <2>2. Rounds' = Rounds
    BY <1>0, <2>1 DEF Rounds
  <2> QED
    BY <1>0, <2>1, <2>2, SaveSlips
<1>11. CASE Exited \/ Crash
  <2>1. FreshContext /\ UNCHANGED <<file, survivors>> /\ phase' = "down"
    BY <1>11 DEF Exited, Crash
  <2>2. FileRounds <= stops'
    <3>1. CASE Exited
      <4>1. stops' = stops /\ phase = "gone"
        BY <3>1 DEF Exited
      <4>2. Rounds + 1 = stops
        BY <1>0, <4>1 DEF Rounds
      <4> QED
        BY <1>0, <4>1, <4>2
    <3>2. CASE Crash
      <4>1. stops' = stops + 1
        BY <3>2 DEF Crash
      <4> QED
        BY <1>0, <4>1
    <3> QED
      BY <1>11, <3>1, <3>2
  <2> QED
    BY <1>0, <2>1, <2>2, FreshSlips
<1>12. CASE PowerCycle
  <2>1. FreshContext /\ file' \in survivors /\ survivors' = {file'} /\ phase' = "top"
    BY <1>12 DEF PowerCycle
  <2>2. FileRounds <= stops'
    <3>1. CASE phase = "down"
      <4>1. ~ loaded /\ stops' = stops
        BY <1>12, <3>1 DEF PowerCycle, ClockInv
      <4>2. FileRounds = Rounds
        BY <4>1 DEF FileRounds
      <4> QED
        BY <1>0, <4>1, <4>2
    <3>2. CASE phase # "down"
      <4>1. stops' = stops + 1
        BY <1>12, <3>2 DEF PowerCycle
      <4> QED
        BY <1>0, <4>1
    <3> QED
      BY <3>1, <3>2
  <2> QED
    BY <1>0, <2>1, <2>2, FreshSlips
<1>13. ASSUME Served, KeepsPending PROVE SlipInv'
  <2>1. /\ UNCHANGED <<file, survivors, real, mono, loaded, loadFrom, stops>>
        /\ phase \in {"poll", "serve"} /\ phase' = "serve"
    BY <1>13 DEF Served, CanServe
  <2>2. Rounds' = Rounds
    BY <2>1 DEF Rounds
  <2> QED
    BY <1>1, <1>13, <2>1, <2>2
<1>14. CASE RemoteRequest
  <2>1. Served /\ timers' = timers
    BY <1>14 DEF RemoteRequest, RemoteStarted, RemoteUpdated, RemoteCancelled, RemoteFinished,
                 RemoteClear, RemoteSet
  <2> QED
    BY <1>13, <2>1 DEF KeepsPending
<1>15. CASE LocalRequest
  BY <1>0, <1>13, <1>15, RequestSlips
<1>16. CASE UNCHANGED vars
  <2>1. UNCHANGED <<timers, file, survivors, real, mono, loaded, phase, loadFrom, stops>>
    BY <1>16 DEF vars
  <2>2. Rounds' = Rounds
    BY <2>1 DEF Rounds
  <2> QED
    BY <1>2, <2>1, <2>2
<1> QED
  BY <1>0, <1>4, <1>5, <1>6, <1>7, <1>8, <1>9, <1>10, <1>11, <1>12, <1>14, <1>15, <1>16, LoadLineSlips
     DEF Next, Loop, LoadSteps, Environment

-----------------------------------------------------------------------------
\* The first boot: nothing waits but the record of an older release, whose
\* time is the time asked for.
LEMMA InitTimes == Init => ClockInv /\ NearInv /\ SlipInv
<1> SUFFICES ASSUME Init PROVE ClockInv /\ NearInv /\ SlipInv
  OBVIOUS
<1>0. setup \in Setup /\ setup.maxReal \in Nat /\ setup.legacy \subseteq Int
  BY SetupType DEF Init, Setup
<1>1. ClockInv
  BY <1>0 DEF Init, ClockInv
<1>2. NearInv
  BY DEF Init, NearInv, TimerNear, RemoteNear, FreeTimer, NoRemote, Pending, Ringing
<1>3. \A i \in Slots : TimerSlipped(timers[i], Rounds)
  BY DEF Init, TimerSlipped, FreeTimer, Pending
<1>4. FileSlipped(file, FileRounds)
  <2>1. CASE file = NoFile
    BY <2>1 DEF FileSlipped, LinesOf, IsFile
  <2>2. ASSUME NEW d \in setup.legacy, file = LegacyFile(d) PROVE FileSlipped(file, FileRounds)
    <3>1. \A entry \in LinesOf(file) : entry.kind = "countdown" /\ entry.due = d /\ entry.want = TrueTime(d)
      BY <2>2 DEF LinesOf, LegacyFile
    <3>2. FileRounds = 0
      BY DEF FileRounds, Rounds, Init
    <3>3. TrueTime(d) \in Int /\ Slip * FileRounds \in Nat
      BY <1>0, <3>2, TrueTimeIs, SlipMono
    <3>4. TrueTime(d) >= TrueTime(d) - Slip * FileRounds
      BY <3>3
    <3> QED
      BY <3>1, <3>4 DEF FileSlipped, RecordSlipped
  <2> QED
    BY <2>1, <2>2 DEF Init
<1>5. SlipInv
  BY <1>3, <1>4 DEF SlipInv, Init
<1> QED
  BY <1>1, <1>2, <1>5

\* Near means in time: within the grace, and within a cue of a ring's end.
LEMMA NearIsInTime ==
  ASSUME TypeOK, ClockInv, NearInv
  PROVE  CountdownNeverMissed /\ AlarmNeverMissed /\ RingBounded
<1>0. mono \in Nat /\ real \in Nat /\ Epoch \in Nat
  BY WallFacts DEF TypeOK
<1>1. CountdownNeverMissed
  <2> SUFFICES ASSUME NEW i \in Slots, timers[i].kind = "countdown", Missed(timers[i], mono, Epoch)
               PROVE  FALSE
    BY DEF CountdownNeverMissed
  <2>1. PICK t \in Timer : t = timers[i]
    BY DEF TypeOK
  <2> DEFINE a == mono - t.dueMs
             q == a \div MsPerSec
  <2>2. t.dueMs \in Int /\ a \in Int /\ Pending(t) /\ t.kind = "countdown" /\ mono >= t.dueMs
    BY <1>0, <2>1, TimerFields DEF Missed, Due
  <2>3. MissGrace < TruncDiv(a, MsPerSec)
    BY <2>1, <2>2 DEF Missed, TooLate
  <2>4. a >= 0
    BY <1>0, <2>2
  <2>5. MissGrace < q
    BY <2>3, <2>4 DEF TruncDiv
  <2>6. Near(t.dueMs, GraceMs - 1)
    BY <2>1, <2>2 DEF NearInv, TimerNear
  <2>7. a <= GraceMs - 1
    BY <2>6 DEF Near
  <2>8. GraceMs = (MissGrace + 1) * MsPerSec /\ GraceMs \in Nat
    BY TimingFacts DEF GraceMs
  <2> HIDE DEF a
  <2>9. a < (MissGrace + 1) * MsPerSec
    BY <2>2, <2>7, <2>8
  <2>10. q < MissGrace + 1 /\ q \in Int
    BY <2>2, <2>9, UnitsBelow, UnitsDiv
  <2> HIDE DEF q
  <2> QED
    BY <2>5, <2>10
<1>2. AlarmNeverMissed
  <2> SUFFICES ASSUME setup.skews = {0}, NEW i \in Slots, timers[i].kind = "alarm",
                      Missed(timers[i], mono, Epoch)
               PROVE  FALSE
    BY DEF AlarmNeverMissed
  <2>1. PICK t \in Timer : t = timers[i]
    BY DEF TypeOK
  <2> DEFINE e == t.dueEpoch
             w == TrueTime(e)
             g == MissGrace * MsPerSec
  <2>2. e \in Int /\ w \in Int /\ Pending(t) /\ t.kind = "alarm" /\ MissGrace < Epoch - e
    BY <2>1, TimerFields DEF Missed, Due, TooLate
  <2>3. synced /\ Near(AlarmAt(t), g)
    BY <2>1, <2>2 DEF NearInv, TimerNear
  <2>4. mono - (mono - real + w + MsPerSec - 1) <= g
    BY <2>3 DEF Near, AlarmAt
  <2>5. g \in Nat /\ GraceMs = g + MsPerSec
    BY TimingFacts
  <2> HIDE DEF g, w
  <2>6. real - w < GraceMs
    BY <1>0, <2>2, <2>4, <2>5
  <2>7. Epoch - e <= MissGrace
    BY <2>2, <2>3, <2>6, AlarmDistance DEF w
  <2> HIDE DEF e
  <2> QED
    BY <1>0, <2>2, <2>7
<1>3. RingBounded
  <2>1. ASSUME NEW s \in Int, Near(s + RingMs, AudioBlock)
        PROVE  mono - s <= RingSeconds * MsPerSec + AudioBlock
    <3>1. mono - (s + RingMs) <= AudioBlock /\ RingMs \in Nat
      BY <2>1, TimingFacts DEF Near
    <3>2. mono - s <= RingMs + AudioBlock
      BY <1>0, <3>1
    <3> QED
      BY <3>2 DEF RingMs
  <2>2. ASSUME NEW i \in Slots, Ringing(timers[i])
        PROVE  timers[i].ringStart \in Int /\ Near(timers[i].ringStart + RingMs, AudioBlock)
    BY <2>2, TimerFields DEF NearInv, TimerNear, TypeOK
  <2>3. ASSUME NEW x \in RemoteIds, remote[x].state = "ringing"
        PROVE  remote[x].ringStart \in Int /\ Near(remote[x].ringStart + RingMs, AudioBlock)
    BY <2>3 DEF NearInv, RemoteNear, TypeOK, RemoteTimer
  <2> QED
    BY <2>1, <2>2, <2>3 DEF RingBounded, RingingSlots, RemoteRinging
<1> QED
  BY <1>1, <1>2, <1>3

\* What a timer lost to roundings is all it can be early by.
LEMMA SlippedIsNotEarly ==
  ASSUME TypeOK, PersistInv, ClockInv, NearInv, SlipInv
  PROVE  NotEarly
<1> SUFFICES ASSUME setup.skews = {0}, NEW i \in Slots, Fires(timers[i], mono, Epoch)
             PROVE  real >= timers[i].want - 2 * (MsPerSec - 1) * stops
  BY DEF NotEarly
<1>1. PICK t \in Timer : t = timers[i]
  BY DEF TypeOK
<1>2. /\ mono \in Nat /\ real \in Nat /\ Epoch \in Nat /\ stops \in Nat
      /\ t.dueMs \in Int /\ t.want \in Int /\ t.dueEpoch \in Int /\ t.kind \in {"countdown", "alarm"}
  BY WallFacts, TimerFields DEF TypeOK
<1>3. /\ Pending(t)
      /\ t.kind = "countdown" => mono >= t.dueMs
      /\ t.kind = "alarm" => Epoch >= t.dueEpoch
  BY <1>1 DEF Fires, Due
<1> DEFINE sr == Slip * Rounds
           ss == Slip * stops
<1>4. sr \in Nat /\ ss \in Nat /\ sr <= ss
  BY <1>2, RoundsType, SlipMono
<1>5. TimerSlipped(t, Rounds) /\ (t.kind = "alarm" => synced)
  BY <1>1, <1>3 DEF SlipInv, NearInv, TimerNear
<1>6. /\ t.kind = "countdown" => t.dueMs - mono >= t.want - real - sr
      /\ t.kind = "alarm" => t.want = TrueTime(t.dueEpoch)
  BY <1>3, <1>5 DEF TimerSlipped
<1> HIDE DEF sr, ss
<1>7. ASSUME t.kind = "countdown" PROVE real >= t.want - ss
  <2>1. t.dueMs - mono >= t.want - real - sr /\ mono >= t.dueMs
    BY <1>3, <1>6, <1>7
  <2> QED
    BY <1>2, <1>4, <2>1
<1>8. ASSUME t.kind = "alarm" PROVE real >= t.want - ss
  <2>1. TrueTime(t.dueEpoch) <= real
    BY <1>2, <1>3, <1>5, <1>8, AlarmDistance
  <2>2. t.want <= real
    BY <1>6, <1>8, <2>1
  <2> QED
    BY <1>2, <1>4, <2>2
<1>9. real >= t.want - ss
  BY <1>2, <1>7, <1>8
<1> QED
  BY <1>1, <1>9 DEF ss, Slip

\* Timers ring when they should: none is missed while the daemon runs, none
\* rings before its time by more than the roundings of its saves, and every
\* ring ends.
THEOREM AlwaysRingsInTime == Spec => []RingsInTime
<1>1. Init => PersistInv
  BY DEF Init, PersistInv, Stored, PendingSlots, Pending, FreeTimer
<1>2. Init => ClockInv /\ NearInv /\ SlipInv
  BY InitTimes
<1>3. TypeOK /\ PersistInv /\ [Next]_vars => PersistInv'
  BY NextPersists
<1>4. TypeOK /\ ClockInv /\ [Next]_vars => ClockInv'
  BY NextClock
<1>5. TypeOK /\ TypeOK' /\ ClockInv /\ NearInv /\ [Next]_vars => NearInv'
  BY NextNear
<1>6. TypeOK /\ TypeOK' /\ PersistInv /\ PersistInv' /\ ClockInv /\ SlipInv /\ [Next]_vars => SlipInv'
  BY NextSlips
<1>7. TypeOK /\ PersistInv /\ ClockInv /\ NearInv /\ SlipInv => RingsInTime
  BY NearIsInTime, SlippedIsNotEarly DEF RingsInTime
<1> QED
  BY <1>1, <1>2, <1>3, <1>4, <1>5, <1>6, <1>7, TypeCorrect, PTL DEF Spec

-----------------------------------------------------------------------------
(***************************************************************************)
(* Rings.  A slot or a remote timer that rings before and after a step     *)
(* began to ring when it did.                                              *)
(***************************************************************************)
SameRing ==
  /\ \A i \in Slots : Ringing(timers[i]) /\ Ringing(timers'[i]) => timers'[i] = timers[i]
  /\ \A x \in RemoteIds : remote[x].state = "ringing" /\ remote'[x].state = "ringing"
                            => remote'[x].ringStart = remote[x].ringStart

LEMMA RingsGoOn == TypeOK /\ [Next]_vars => SameRing
<1> SUFFICES ASSUME TypeOK, [Next]_vars PROVE SameRing
  OBVIOUS
<1> USE DEF schedule
<1>0. timers \in [Slots -> Timer] /\ remote \in [RemoteIds -> RemoteTimer]
  BY DEF TypeOK
<1>1. ASSUME UNCHANGED <<timers, remote>> PROVE SameRing
  BY <1>1 DEF SameRing
<1>2. ASSUME NEW i \in Slots, ~ Live(timers[i]), NEW v, timers' = [timers EXCEPT ![i] = v], remote' = remote
      PROVE  SameRing
  <2>1. \A j \in Slots : j # i => timers'[j] = timers[j]
    BY <1>0, <1>2
  <2>2. ~ Ringing(timers[i])
    BY <1>2 DEF Live, Ringing
  <2> QED
    BY <1>2, <2>1, <2>2 DEF SameRing
<1>3. ASSUME NEW tab, \A i \in Slots : tab[i] \in {timers[i], FreeTimer, StepTimer(timers[i], mono, Epoch)},
             \A i \in Slots : timers'[i] \in {tab[i], FreeTimer},
             \A x \in RemoteIds : remote'[x] \in {remote[x], NoRemote}
      PROVE  SameRing
  <2>1. \A i \in Slots : Ringing(timers[i]) => StepTimer(timers[i], mono, Epoch) \in {timers[i], FreeTimer}
    BY DEF StepTimer, Fires, Due, Pending, Ringing
  <2>2. ~ Ringing(FreeTimer) /\ NoRemote.state # "ringing"
    BY DEF Ringing, FreeTimer, NoRemote
  <2> QED
    BY <1>3, <2>1, <2>2 DEF SameRing
<1>4. ASSUME FreshContext PROVE SameRing
  BY <1>4 DEF FreshContext, SameRing, Ringing, FreeTimer, NoRemote
<1>5. CASE LoadLine
  <2>1. CASE timers' = timers
    BY <1>1, <1>5, <2>1 DEF LoadLine
  <2>2. CASE timers' # timers
    BY <1>2, <1>5, <2>2 DEF LoadLine, FirstFree
  <2> QED
    BY <2>1, <2>2
<1>6. CASE Step
  BY <1>3, <1>6 DEF Step, StepTable, RemoteExpired
<1>7. CASE Exited \/ Crash \/ PowerCycle
  BY <1>4, <1>7 DEF Exited, Crash, PowerCycle
<1>8. CASE LoopTop \/ LoadNoFile \/ LoadSkip \/ LoadEnd \/ CueDone \/ NothingToSave \/ LoadBeforeSave
  BY <1>1, <1>8 DEF LoopTop, LoadNoFile, LoadSkip, LoadEnd, LoadDone, CueDone, NothingToSave, LoadBeforeSave
<1>9. CASE SaveIfDirty \/ LoopAgain \/ SaveOnExit \/ Terminate \/ Restart \/ Tick \/ \E k \in setup.skews : ClockSet(k)
  BY <1>1, <1>9 DEF SaveIfDirty, LoopAgain, SaveOnExit, Terminate, Restart, Tick, ClockSet
<1>10. CASE LocalRequest
  <2>1. ASSUME NEW s, NEW l, AddCountdown(s, l) \/ AddAlarm(s, l) PROVE SameRing
    BY <1>2, <2>1 DEF AddCountdown, AddAlarm, FirstFree
  <2>2. CASE CancelAll
    BY <1>3, <2>2 DEF CancelAll, Release, FreeSlots
  <2>3. ASSUME NEW id, CancelAt(id) PROVE SameRing
    <3> DEFINE tab == StepTable(timers, mono, Epoch)
    <3>1. \A i \in Slots : tab[i] = StepTimer(timers[i], mono, Epoch)
      BY DEF StepTable
    <3>2. timers' = FreeSlots(tab, PendingWithId(tab, id)) /\ remote' = remote
      BY <2>3 DEF CancelAt, Release
    <3> HIDE DEF tab
    <3> QED
      BY <1>3, <3>1, <3>2 DEF FreeSlots
  <2>4. ASSUME NEW id, DismissId(id) PROVE SameRing
    BY <1>3, <2>4 DEF DismissId, Release, FreeSlots
  <2>5. CASE DismissAll
    BY <1>3, <2>5 DEF DismissAll, FreeSlots
  <2> QED
    BY <1>10, <2>1, <2>2, <2>3, <2>4, <2>5 DEF LocalRequest, CancelLabel
<1>11. CASE RemoteRequest
  <2>1. ASSUME NEW x \in RemoteIds, NEW v, RemoteSet(x, v),
               v.state = "ringing" /\ remote[x].state = "ringing" => v.ringStart = remote[x].ringStart
        PROVE  SameRing
    <3>1. remote' = [remote EXCEPT ![x] = v] /\ timers' = timers
      BY <2>1 DEF RemoteSet
    <3> QED
      BY <1>0, <2>1, <3>1 DEF SameRing
  <2>2. ASSUME NEW x \in RemoteIds, NEW a \in BOOLEAN, RemoteStarted(x, a) \/ RemoteUpdated(x, a)
        PROVE  SameRing
    <3>1. [remote[x] EXCEPT !.active = FALSE].ringStart = remote[x].ringStart
      BY <1>0 DEF RemoteTimer
    <3>2. RemotePending(a).state # "ringing"
      BY DEF RemotePending
    <3> QED
      BY <2>1, <2>2, <3>1, <3>2 DEF RemoteStarted, RemoteUpdated
  <2>3. ASSUME NEW x \in RemoteIds, RemoteCancelled(x) \/ RemoteFinished(x) PROVE SameRing
    BY <2>1, <2>3 DEF RemoteCancelled, RemoteFinished, NoRemote
  <2>4. CASE RemoteClear
    BY <2>4 DEF RemoteClear, SameRing, NoRemote
  <2> QED
    BY <1>11, <2>2, <2>3, <2>4, SetupType DEF RemoteRequest, TypeOK
<1>12. CASE UNCHANGED vars
  BY <1>1, <1>12 DEF vars
<1> QED
  BY <1>5, <1>6, <1>7, <1>8, <1>9, <1>10, <1>11, <1>12 DEF Next, Loop, LoadSteps, Environment

\* A repeated FINISHED, a late UPDATED or another pass of the loop never
\* extends a ring (remote_event, le_timer_step).
THEOREM RingNeverExtended == Spec => RingNotExtended
<1>1. TypeOK /\ [Next]_vars =>
        [/\ \A i \in RingingSlots(timers) \cap RingingSlots(timers') :
              timers[i].id = timers'[i].id => timers'[i].ringStart = timers[i].ringStart
         /\ \A x \in RemoteRinging(remote) \cap RemoteRinging(remote') :
              remote'[x].ringStart = remote[x].ringStart]_vars
  BY RingsGoOn DEF SameRing, RingingSlots, RemoteRinging
<1> QED
  BY <1>1, TypeCorrect, PTL DEF Spec, RingNotExtended

(***************************************************************************)
(* Internet radio.                                                         *)
(***************************************************************************)
Urls == {"none"} \cup UNION {x.urls : x \in Scenes}
Playing == {"forked", "runs"}
RadioDaemon == [up : BOOLEAN, pid : Players \cup {0}, paused : BOOLEAN, lost : BOOLEAN,
                url : Urls, title : Players \cup {0}]
Player == [st : {"none", "forked", "runs", "zombie", "gone"}, doom : {"no", "kill"},
           halt : BOOLEAN, busy : BOOLEAN, url : Urls, phase : {"opens", "asks", "plays", "waits"},
           played : BOOLEAN, barren : Int, told : BOOLEAN, passes : Int]
Fetcher == [st : {"off", "first", "segments", "waits", "exit0", "exit1"}, next : Nat, fails : Nat,
            stalled : Nat, list : SUBSET (Nat \ {0}), end : BOOLEAN, got : BOOLEAN,
            pipe : Seq(Nat), sent : Seq(Nat)]
Server == [lo : Nat \ {0}, hi : Nat \ {0}, end : BOOLEAN]

(* A player that plays may play on. *)
Whole(q) == q.passes \in {0, 1} /\ (q.passes = 1 => q.st \in {"zombie", "gone"})
(* The record d and the processes q: nobody plays whom the record does not  *)
(* name.                                                                    *)
RecordOK(d, q) ==
  /\ d \in RadioDaemon /\ q \in [Players -> Player]
  /\ ~d.up => d.pid = 0
  /\ \A i \in Players : q[i].st \in Playing /\ q[i].doom = "no" => d.pid = i
  /\ d.title \in {0, d.pid} /\ (d.pid = 0 => ~d.paused)
  /\ d.pid # 0 => d.url = q[d.pid].url
  /\ ~d.lost /\ d.pid # 0 /\ q[d.pid].st \in Playing => d.paused = q[d.pid].halt
  /\ \A i \in Players : Whole(q[i])
(* The next segment is newer than those sent. *)
FetcherOK(g) ==
  /\ g \in Fetcher
  /\ \A m \in 1..Len(g.sent) : g.sent[m] < g.next
  /\ \A m, n \in 1..Len(g.sent) : m < n => g.sent[m] < g.sent[n]
RadioInv == RecordOK(r, p) /\ FetcherOK(f) /\ srv \in Server

LEMMA LeastIs ==
  ASSUME NEW S \in SUBSET Nat, S # {}
  PROVE  Min(S) \in S /\ \A y \in S : Min(S) <= y
<1> DEFINE R == {ss \in Nat \X Nat : ss[1] < ss[2]}
<1>1. IsWellFoundedOn(R, Nat)
  BY NatLessThanWellFounded DEF OpToRel
<1>2. \A x, y \in Nat : y < x => <<y, x>> \in R
  OBVIOUS
<1> HIDE DEF R
<1>3. PICK x \in S : \A y \in S : ~(<<y, x>> \in R)
  BY <1>1, WFMin
<1>4. \A y \in S : x <= y
  <2> TAKE y \in S
  <2>1. x \in Nat /\ y \in Nat
    OBVIOUS
  <2>2. ~(y < x)
    BY <1>2, <1>3, <2>1
  <2> QED
    BY <2>1, <2>2
<1> QED
  BY <1>3, <1>4 DEF Min

(* The processes change one by one, and only for the worse. *)
LEMMA OnePlayer ==
  ASSUME RecordOK(r, p), NEW i \in Players, NEW x \in Player, Whole(x),
         x.url = p[i].url, x.halt = p[i].halt,
         x.st \in Playing => p[i].st \in Playing /\ (x.doom = "no" => p[i].doom = "no")
  PROVE  RecordOK(r, [p EXCEPT ![i] = x])
  BY DEF RecordOK

LEMMA NobodyThere == FetcherOK(NoFetcher)
<1>1. NoFetcher \in Fetcher /\ NoFetcher.sent = <<>>
  BY DEF NoFetcher, Fetcher
<1> QED
  BY <1>1 DEF FetcherOK

LEMMA FetcherLeft ==
  ASSUME FetcherOK(f), NEW q
  PROVE  FetcherOK(FetcherAfter(q))
  BY NobodyThere DEF FetcherAfter

(* What a request makes of the record before it does anything. *)
LEMMA ReapedOK ==
  ASSUME RecordOK(r, p)
  PROVE  /\ RecordOK(Reaped, Buried) /\ Reaped.up = r.up
         /\ Reaped.pid = 0 \/ (Reaped.pid = r.pid /\ Buried = p /\ p[r.pid].st # "zombie")
         /\ Reaped.paused = r.paused \/ Reaped.pid = 0
<1> DEFINE d == IF r.pid # 0 /\ p[r.pid].told THEN [r EXCEPT !.title = r.pid] ELSE r
<1>1. /\ d \in RadioDaemon /\ d.up = r.up /\ d.pid = r.pid /\ d.paused = r.paused /\ d.lost = r.lost
      /\ d.url = r.url /\ d.title \in {r.title, r.pid}
  BY DEF RecordOK, RadioDaemon
<1>2. Reaped = IF r.pid # 0 /\ p[r.pid].st = "zombie" THEN Forget(d) ELSE d
  BY DEF Reaped, Drained
<1> HIDE DEF d
<1>3. /\ Forget(d) \in RadioDaemon /\ Forget(d).up = d.up /\ Forget(d).pid = 0
      /\ Forget(d).paused = FALSE /\ Forget(d).title = 0
  BY <1>1 DEF Forget, NoPlayer, RadioDaemon, Urls
<1>4. Buried \in [Players -> Player]
  BY DEF RecordOK, Player, Buried
<1>5. \A i \in Players : /\ i # r.pid \/ p[i].st # "zombie" => Buried[i] = p[i]
                         /\ i = r.pid /\ p[i].st = "zombie" => Buried[i] = [p[i] EXCEPT !.st = "gone"]
  BY DEF Buried
<1>6. ASSUME NEW i \in Players
      PROVE  /\ Whole(Buried[i]) /\ Buried[i].url = p[i].url /\ Buried[i].halt = p[i].halt
             /\ Buried[i].st \in Playing => Buried[i] = p[i]
  <2>1. p[i] \in Player /\ Whole(p[i])
    BY DEF RecordOK
  <2> QED
    BY <1>5, <2>1 DEF Player, Whole, Playing
<1>7. CASE r.pid # 0 /\ p[r.pid].st = "zombie"
  <2>1. Reaped = Forget(d)
    BY <1>2, <1>7
  <2> HIDE DEF Reaped
  <2>2. \A i \in Players : ~(Buried[i].st \in Playing /\ Buried[i].doom = "no")
    BY <1>5, <1>6, <1>7 DEF RecordOK, Playing
  <2> QED
    BY <2>1, <2>2, <1>1, <1>3, <1>4, <1>6 DEF RecordOK
<1>8. CASE ~(r.pid # 0 /\ p[r.pid].st = "zombie")
  <2>1. Reaped = d
    BY <1>2, <1>8
  <2>2. Buried = p
    <3>1. \A i \in Players : i # 0
      BY RadioAssumption
    <3>2. \A i \in Players : Buried[i] = p[i]
      BY <1>5, <1>8, <3>1
    <3>3. Buried \in [Players -> Player] /\ p \in [Players -> Player]
      BY <1>4 DEF RecordOK
    <3> QED
      BY <3>2, <3>3
  <2> QED
    BY <2>1, <2>2, <1>1, <1>8 DEF RecordOK
<1> QED
  BY <1>7, <1>8

LEMMA StoppedOK ==
  ASSUME RecordOK(r, p), NEW late \in BOOLEAN, CanBeLate(late)
  PROVE  LET s == Stopped(late)
         IN /\ RecordOK(s.r, s.p) /\ s.r.up = r.up
            /\ s.ok => s.r.pid = 0
<1> DEFINE s == Stopped(late)
<1>1. CASE Reaped.pid = 0
  BY <1>1, ReapedOK DEF Stopped
<1>2. CASE Reaped.pid # 0 /\ late
  <2> DEFINE q == [p EXCEPT ![r.pid].doom = "kill"]
  <2>1. s = [r |-> Reaped, p |-> q, ok |-> FALSE]
    BY <1>2 DEF Stopped
  <2>2. RecordOK(Reaped, p) /\ Reaped.up = r.up /\ Reaped.pid = r.pid
    BY <1>2, ReapedOK
  <2>3. q \in [Players -> Player]
    <3>1. r.pid \in Players
      BY <1>2, <2>2 DEF RecordOK, RadioDaemon
    <3>2. p[r.pid] \in Player /\ p \in [Players -> Player]
      BY <3>1 DEF RecordOK
    <3>3. [p[r.pid] EXCEPT !.doom = "kill"] \in Player
      BY <3>2 DEF Player
    <3> QED
      BY <3>1, <3>2, <3>3
  <2>4. \A i \in Players : /\ q[i].st = p[i].st /\ q[i].url = p[i].url /\ q[i].halt = p[i].halt
                           /\ q[i].passes = p[i].passes /\ (q[i].doom = "no" => p[i].doom = "no")
    BY DEF RecordOK, Player
  <2> HIDE DEF q, s, Reaped
  <2>5. RecordOK(Reaped, q)
    BY <2>2, <2>3, <2>4 DEF RecordOK, RadioDaemon, Whole
  <2> QED
    BY <2>1, <2>2, <2>5 DEF s
<1>3. CASE Reaped.pid # 0 /\ ~late
  <2> DEFINE q == [p EXCEPT ![r.pid].st = "gone"]
  <2>1. s = [r |-> Forget(r), p |-> q, ok |-> TRUE]
    BY <1>3 DEF Stopped
  <2>2. Reaped.pid = r.pid /\ r.pid \in Players
    BY <1>3, ReapedOK DEF RecordOK, RadioDaemon
  <2>3. q \in [Players -> Player]
    BY <2>2 DEF RecordOK, Player
  <2>4. \A i \in Players : /\ i # r.pid => q[i] = p[i]
                           /\ i = r.pid => q[i].st = "gone" /\ q[i].passes = p[i].passes
    BY DEF RecordOK, Player
  <2>5. /\ Forget(r) \in RadioDaemon /\ Forget(r).up = r.up /\ Forget(r).pid = 0
        /\ Forget(r).paused = FALSE /\ Forget(r).title = 0
    BY DEF RecordOK, Forget, NoPlayer, RadioDaemon, Urls
  <2> HIDE DEF q, s, Forget
  <2>6. RecordOK(Forget(r), q)
    BY <2>2, <2>3, <2>4, <2>5 DEF RecordOK, RadioDaemon, Whole, Playing
  <2> QED
    BY <2>1, <2>5, <2>6 DEF s
<1> QED
  BY <1>1, <1>2, <1>3

(* Requests. *)
LEMMA RequestStep ==
  ASSUME RadioInv, NEW late \in BOOLEAN
  PROVE  /\ Stop(late) => RadioInv'
         /\ \A want \in BOOLEAN : SetPaused(want, late) => RadioInv'
         /\ \A url \in Urls, i \in Players : Play(late, url, i) => RadioInv'
<1> USE DEF RadioInv
<1>1. ASSUME Stop(late) PROVE RadioInv'
  <2> DEFINE s == Stopped(late)
  <2>1. r' = s.r /\ p' = s.p /\ f' = FetcherAfter(s.p) /\ srv' = srv
    BY <1>1 DEF Stop
  <2>2. RecordOK(s.r, s.p)
    BY <1>1, StoppedOK DEF Stop
  <2> QED
    BY <2>1, <2>2, FetcherLeft
<1>2. ASSUME NEW want \in BOOLEAN, SetPaused(want, late) PROVE RadioInv'
  <2>1. f' = f /\ srv' = srv
    BY <1>2 DEF SetPaused
  <2>2. CASE Reaped.pid = 0 \/ r.paused = want
    BY <1>2, <2>1, <2>2, ReapedOK DEF SetPaused
  <2>3. CASE ~(Reaped.pid = 0 \/ r.paused = want)
    <3> DEFINE d == IF late THEN [Reaped EXCEPT !.lost = TRUE] ELSE [Reaped EXCEPT !.paused = want]
               q == [p EXCEPT ![r.pid].halt = want]
    <3>1. r' = d /\ p' = q
      BY <1>2, <2>3 DEF SetPaused
    <3>2. RecordOK(Reaped, p) /\ Reaped.pid = r.pid /\ r.pid \in Players /\ r.pid # 0
      BY <2>3, ReapedOK DEF RecordOK, RadioDaemon
    <3>3. /\ d \in RadioDaemon /\ d.up = Reaped.up /\ d.pid = r.pid /\ d.url = Reaped.url
          /\ d.title = Reaped.title /\ (~d.lost => d.paused = want)
      BY <3>2 DEF RecordOK, RadioDaemon
    <3>4. p[r.pid] \in Player /\ p \in [Players -> Player]
      BY <3>2 DEF RecordOK
    <3>5. [p[r.pid] EXCEPT !.halt = want] \in Player
      BY <3>4 DEF Player
    <3>6. q \in [Players -> Player] /\ q[r.pid] = [p[r.pid] EXCEPT !.halt = want]
      BY <3>2, <3>4, <3>5
    <3>7. \A i \in Players : /\ q[i].st = p[i].st /\ q[i].url = p[i].url /\ q[i].doom = p[i].doom
                             /\ q[i].passes = p[i].passes
      BY <3>4, <3>6 DEF Player
    <3>8. q[r.pid].halt = want
      BY <3>4, <3>6 DEF Player
    <3> HIDE DEF d, q, Reaped
    <3>9. RecordOK(d, q)
      BY <3>2, <3>3, <3>6, <3>7, <3>8 DEF RecordOK, Whole
    <3> QED
      BY <2>1, <3>1, <3>9
  <2> QED
    BY <2>2, <2>3
<1>3. ASSUME NEW url \in Urls, NEW i \in Players, Play(late, url, i) PROVE RadioInv'
  <2> DEFINE s == Stopped(late)
             x == [Unborn EXCEPT !.st = "forked", !.url = url]
             d == [s.r EXCEPT !.pid = i, !.url = url]
             q == [s.p EXCEPT ![i] = x]
  <2>1. RecordOK(s.r, s.p) /\ (s.ok => s.r.pid = 0) /\ s.r.up /\ srv' = srv /\ i # 0
    <3>1. CanBeLate(late) /\ r.up /\ srv' = srv
      BY <1>3 DEF Play
    <3>2. i # 0
      BY RadioAssumption
    <3>3. RecordOK(s.r, s.p) /\ s.r.up = r.up /\ (s.ok => s.r.pid = 0)
      BY <3>1, StoppedOK
    <3> HIDE DEF s
    <3> QED
      BY <3>1, <3>2, <3>3
  <2>2. /\ x \in Player /\ x.st = "forked" /\ x.url = url /\ x.halt = FALSE /\ x.passes = 0
    <3>1. Unborn \in Player /\ Unborn.halt = FALSE /\ Unborn.passes = 0
      BY DEF Unborn, Player, Urls
    <3> QED
      BY <3>1 DEF Player
  <2>3. CASE s.ok
    <3>1. p' = q /\ r' = d /\ f' = NoFetcher
      BY <1>3, <2>3 DEF Play
    <3> HIDE DEF s
    <3>2. /\ d \in RadioDaemon /\ d.up /\ d.pid = i /\ d.url = url /\ d.title = s.r.title
          /\ d.paused = s.r.paused
      BY <2>1 DEF RecordOK, RadioDaemon
    <3>3. q \in [Players -> Player] /\ q[i] = x /\ \A j \in Players : j # i => q[j] = s.p[j]
      BY <2>1, <2>2 DEF RecordOK
    <3>4. \A j \in Players : j # 0
      BY RadioAssumption
    <3> HIDE DEF d, q, x
    <3>5. /\ s.p \in [Players -> Player] /\ \A j \in Players : Whole(s.p[j])
          /\ \A j \in Players : ~(s.p[j].st \in Playing /\ s.p[j].doom = "no")
          /\ s.r.title = 0 /\ s.r.paused = FALSE
      BY <2>1, <2>3, <3>4 DEF RecordOK, RadioDaemon
    <3>6. RecordOK(d, q)
      <4>1. \A j \in Players : Whole(q[j]) /\ (q[j].st \in Playing /\ q[j].doom = "no" => j = i)
        BY <2>2, <3>3, <3>5 DEF Whole
      <4> QED
        BY <2>2, <3>2, <3>3, <3>5, <4>1 DEF RecordOK
    <3> QED
      BY <2>1, <3>1, <3>6, NobodyThere
  <2>4. CASE ~s.ok
    BY <1>3, <2>1, <2>4 DEF Play
  <2> QED
    BY <2>3, <2>4
<1> QED
  BY <1>1, <1>2, <1>3

LEMMA QuietRequestStep ==
  ASSUME RadioInv
  PROVE  Status \/ RadiodStarts => RadioInv'
<1> USE DEF RadioInv
<1>1. Status => RadioInv'
  BY ReapedOK DEF Status
<1>2. ASSUME RadiodStarts PROVE RadioInv'
  <2>1. /\ r' = [r EXCEPT !.up = TRUE] /\ p' = p /\ f' = f /\ srv' = srv
    BY <1>2 DEF RadiodStarts
  <2>2. /\ r' \in RadioDaemon /\ r'.up /\ r'.pid = r.pid /\ r'.paused = r.paused /\ r'.lost = r.lost
        /\ r'.url = r.url /\ r'.title = r.title
    BY <2>1 DEF RecordOK, RadioDaemon
  <2>3. RecordOK(r', p)
    BY <2>2 DEF RecordOK
  <2> QED
    BY <2>1, <2>3
<1> QED
  BY <1>1, <1>2

(* radiod dies while every player already watches it. *)
LEMMA DeathStep ==
  ASSUME RadioInv, RadiodDies, \A i \in Players : p[i].st # "forked"
  PROVE  RadioInv'
<1> USE DEF RadioInv
<1> DEFINE d == [NoPlayer EXCEPT !.up = FALSE]
           q == [i \in Players |-> IF p[i].st = "zombie" THEN [p[i] EXCEPT !.st = "gone"]
                                  ELSE IF p[i].st = "runs" THEN [p[i] EXCEPT !.doom = "kill"] ELSE p[i]]
<1>1. r' = d /\ p' = q /\ f' = f /\ srv' = srv
  BY DEF RadiodDies
<1>2. d \in RadioDaemon /\ d.pid = 0 /\ d.title = 0 /\ ~d.paused
  BY DEF NoPlayer, RadioDaemon, Urls
<1>3. ASSUME NEW i \in Players
      PROVE  /\ q[i] \in Player /\ Whole(q[i])
             /\ ~(q[i].st \in Playing /\ q[i].doom = "no")
  <2>1. p[i] \in Player /\ Whole(p[i]) /\ p[i].st # "forked"
    BY DEF RecordOK
  <2>2. q[i] = IF p[i].st = "zombie" THEN [p[i] EXCEPT !.st = "gone"]
               ELSE IF p[i].st = "runs" THEN [p[i] EXCEPT !.doom = "kill"] ELSE p[i]
    OBVIOUS
  <2> HIDE DEF q
  <2> QED
    BY <2>1, <2>2 DEF Player, Whole, Playing
<1>4. q \in [Players -> Player]
  BY <1>3
<1> HIDE DEF d, q
<1>5. RecordOK(d, q)
  BY <1>2, <1>3, <1>4 DEF RecordOK
<1> QED
  BY <1>1, <1>5

(* A step of one player process that leaves radiod's record alone. *)
LEMMA PlayerStep ==
  ASSUME RadioInv, NEW i \in Players
  PROVE  /\ Guarded(i) \/ GetsStuck(i) \/ Reconnects(i) \/ Dials(i) => RadioInv'
         /\ Opens(i) \/ OpenFails(i) \/ Sounds(i) \/ Finishes(i) \/ Drops(i) => RadioInv'
         /\ ComesBack(i) \/ Killed(i) => RadioInv'
         /\ HlsSounds(i) \/ HlsEnds(i) => RadioInv'
         /\ \A broken \in BOOLEAN : HlsCut(i, broken) => RadioInv'
<1> USE DEF RadioInv
<1>p. p[i] \in Player /\ Whole(p[i]) /\ p \in [Players -> Player] /\ f \in Fetcher
  BY DEF RecordOK, FetcherOK
<1>s. ASSUME NEW x \in Player, Whole(x), x.url = p[i].url, x.halt = p[i].halt,
             x.st \in Playing => p[i].st \in Playing /\ (x.doom = "no" => p[i].doom = "no"),
             p' = [p EXCEPT ![i] = x], r' = r, srv' = srv, FetcherOK(f')
      PROVE  RadioInv'
  BY <1>s, OnePlayer
<1>o. ASSUME NEW q \in Player, q.st = "runs", q.passes \in {0, 1}, NEW complete \in BOOLEAN,
             q.passes = 1 => complete
      PROVE  LET x == Over(q, complete)
             IN /\ x \in Player /\ x.url = q.url /\ x.halt = q.halt /\ x.doom = q.doom /\ Whole(x)
                /\ x.st \in {"runs", "zombie"}
  <2>1. CASE complete \/ (~q.played /\ q.barren + 1 >= Tries)
    <3>1. Over(q, complete) = [q EXCEPT !.st = "zombie"]
      BY <2>1 DEF Over
    <3> QED
      BY <1>o, <3>1 DEF Player, Whole
  <2>2. CASE ~(complete \/ (~q.played /\ q.barren + 1 >= Tries))
    <3> DEFINE count == IF q.played THEN 0 ELSE q.barren + 1
    <3>1. Over(q, complete) = [q EXCEPT !.phase = "waits", !.barren = count]
      BY <2>2 DEF Over, Player
    <3>2. count \in Int
      BY DEF Player
    <3> HIDE DEF count
    <3> QED
      BY <1>o, <2>2, <3>1, <3>2 DEF Player, Whole
  <2> QED
    BY <2>1, <2>2
<1>1. ASSUME Guarded(i) PROVE RadioInv'
  <2> DEFINE x == [p[i] EXCEPT !.st = "runs"]
  <2>1. p' = [p EXCEPT ![i] = x] /\ r' = r /\ srv' = srv /\ f' = f /\ p[i].st = "forked"
    BY <1>1, <1>p DEF Guarded
  <2>2. x \in Player /\ Whole(x) /\ x.url = p[i].url /\ x.halt = p[i].halt /\ x.doom = p[i].doom
    BY <2>1, <1>p DEF Player, Whole
  <2> QED
    BY <1>s, <2>1, <2>2 DEF Playing
<1>2. ASSUME GetsStuck(i) PROVE RadioInv'
  <2> DEFINE x == [p[i] EXCEPT !.busy = TRUE]
  <2>1. p' = [p EXCEPT ![i] = x] /\ r' = r /\ srv' = srv /\ f' = f
    BY <1>2, <1>p DEF GetsStuck
  <2>2. /\ x \in Player /\ Whole(x) /\ x.url = p[i].url /\ x.halt = p[i].halt /\ x.doom = p[i].doom
        /\ x.st = p[i].st
    BY <1>p DEF Player, Whole
  <2> QED
    BY <1>s, <2>1, <2>2
<1>3. ASSUME Reconnects(i) PROVE RadioInv'
  <2> DEFINE x == [p[i] EXCEPT !.phase = "opens", !.played = FALSE]
  <2>1. p' = [p EXCEPT ![i] = x] /\ r' = r /\ srv' = srv /\ f' = f
    BY <1>3, <1>p DEF Reconnects
  <2>2. /\ x \in Player /\ Whole(x) /\ x.url = p[i].url /\ x.halt = p[i].halt /\ x.doom = p[i].doom
        /\ x.st = p[i].st
    BY <1>p DEF Player, Whole
  <2> QED
    BY <1>s, <2>1, <2>2
<1>4. ASSUME Dials(i) PROVE RadioInv'
  <2> DEFINE x == [p[i] EXCEPT !.phase = "asks"]
  <2>1. p' = [p EXCEPT ![i] = x] /\ r' = r /\ srv' = srv /\ f' = f
    BY <1>4, <1>p DEF Dials
  <2>2. /\ x \in Player /\ Whole(x) /\ x.url = p[i].url /\ x.halt = p[i].halt /\ x.doom = p[i].doom
        /\ x.st = p[i].st
    BY <1>p DEF Player, Whole
  <2> QED
    BY <1>s, <2>1, <2>2
<1>5. ASSUME Opens(i) PROVE RadioInv'
  <2> DEFINE x == [p[i] EXCEPT !.phase = "plays", !.told = TRUE]
  <2>1. p' = [p EXCEPT ![i] = x] /\ r' = r /\ srv' = srv
    BY <1>5, <1>p DEF Opens, Tells, Player
  <2>2. /\ x \in Player /\ Whole(x) /\ x.url = p[i].url /\ x.halt = p[i].halt /\ x.doom = p[i].doom
        /\ x.st = p[i].st
    BY <1>p DEF Player, Whole
  <2>3. FetcherOK(f')
    <3>1. NoFetcher \in Fetcher
      BY NobodyThere DEF FetcherOK
    <3>2. FetcherOK([NoFetcher EXCEPT !.st = "first"])
      BY <3>1, NobodyThere DEF FetcherOK, Fetcher
    <3> QED
      BY <1>5, <3>2 DEF Opens
  <2> QED
    BY <1>s, <2>1, <2>2, <2>3
<1>6. ASSUME OpenFails(i) PROVE RadioInv'
  <2> DEFINE x == Over(p[i], FALSE)
  <2>1. p' = [p EXCEPT ![i] = x] /\ r' = r /\ srv' = srv /\ f' = f /\ p[i].st = "runs"
    BY <1>6, <1>p DEF OpenFails, Acts, Heeds
  <2>2. p[i].passes = 0
    BY <2>1, <1>p DEF Whole
  <2>3. FALSE \in BOOLEAN /\ p[i].passes \in {0, 1} /\ p[i].passes # 1
    BY <2>2
  <2>4. /\ x \in Player /\ Whole(x) /\ x.url = p[i].url /\ x.halt = p[i].halt /\ x.doom = p[i].doom
    BY <1>o, <1>p, <2>1, <2>3
  <2> HIDE DEF x
  <2> QED
    BY <1>s, <2>1, <2>4 DEF Playing
<1>7. ASSUME Sounds(i) PROVE RadioInv'
  <2> DEFINE x == [p[i] EXCEPT !.played = TRUE]
  <2>1. p' = [p EXCEPT ![i] = x] /\ r' = r /\ srv' = srv /\ f' = f
    BY <1>7, <1>p DEF Sounds
  <2>2. /\ x \in Player /\ Whole(x) /\ x.url = p[i].url /\ x.halt = p[i].halt /\ x.doom = p[i].doom
        /\ x.st = p[i].st
    BY <1>p DEF Player, Whole
  <2> QED
    BY <1>s, <2>1, <2>2
<1>8. ASSUME Finishes(i) PROVE RadioInv'
  <2> DEFINE q == [p[i] EXCEPT !.passes = p[i].passes + 1]
             x == Over(q, TRUE)
  <2>1. p' = [p EXCEPT ![i] = x] /\ r' = r /\ srv' = srv /\ f' = f /\ p[i].st = "runs"
    <3>1. Plays(i, "file") \/ Plays(i, "opus")
      BY <1>8 DEF Finishes
    <3>2. p[i].st = "runs"
      BY <3>1 DEF Plays, Acts, Heeds
    <3>3. p' = [p EXCEPT ![i] = x] /\ r' = r /\ srv' = srv /\ f' = f
      BY <1>8, <1>p DEF Finishes
    <3> QED
      BY <3>2, <3>3
  <2>2. p[i].passes = 0
    BY <2>1, <1>p DEF Whole
  <2>3. /\ q \in Player /\ q.passes = 1 /\ q.url = p[i].url /\ q.halt = p[i].halt
        /\ q.doom = p[i].doom /\ q.st = "runs"
    BY <2>1, <2>2, <1>p DEF Player
  <2> HIDE DEF q
  <2>4. /\ x \in Player /\ Whole(x) /\ x.url = p[i].url /\ x.halt = p[i].halt /\ x.doom = p[i].doom
    BY <1>o, <2>3
  <2> HIDE DEF x
  <2> QED
    BY <1>s, <2>1, <2>4 DEF Playing
<1>9. ASSUME Drops(i) PROVE RadioInv'
  <2> DEFINE complete == p[i].url = "opus"
             x == Over(p[i], complete)
  <2>1. p' = [p EXCEPT ![i] = x] /\ r' = r /\ srv' = srv /\ f' = f /\ p[i].st = "runs"
    BY <1>9, <1>p DEF Drops, Acts, Heeds
  <2>2. p[i].passes = 0 /\ complete \in BOOLEAN
    BY <2>1, <1>p DEF Whole
  <2> HIDE DEF complete
  <2>3. /\ x \in Player /\ Whole(x) /\ x.url = p[i].url /\ x.halt = p[i].halt /\ x.doom = p[i].doom
    BY <1>o, <1>p, <2>1, <2>2
  <2> HIDE DEF x
  <2> QED
    BY <1>s, <2>1, <2>3 DEF Playing
<1>10. ASSUME ComesBack(i) PROVE RadioInv'
  <2> DEFINE now == IF p[i].doom # "kill" THEN "runs" ELSE IF r.pid = i THEN "zombie" ELSE "gone"
             x == [p[i] EXCEPT !.busy = FALSE, !.st = now]
  <2>1. p' = [p EXCEPT ![i] = x] /\ r' = r /\ srv' = srv /\ f' = FetcherAfter(p') /\ p[i].st = "runs"
    BY <1>10, <1>p DEF ComesBack
  <2>2. now \in {"runs", "zombie", "gone"}
    OBVIOUS
  <2> HIDE DEF now
  <2>3. /\ x \in Player /\ Whole(x) /\ x.url = p[i].url /\ x.halt = p[i].halt /\ x.doom = p[i].doom
    BY <2>1, <2>2, <1>p DEF Player, Whole
  <2>4. FetcherOK(f')
    BY <2>1, FetcherLeft
  <2> HIDE DEF x
  <2> QED
    BY <1>s, <2>1, <2>3, <2>4 DEF Playing
<1>11. ASSUME Killed(i) PROVE RadioInv'
  <2> DEFINE x == [p[i] EXCEPT !.st = "gone"]
  <2>1. p' = [p EXCEPT ![i] = x] /\ r' = r /\ srv' = srv /\ f' = FetcherAfter(p')
    BY <1>11, <1>p DEF Killed
  <2>2. /\ x \in Player /\ Whole(x) /\ x.url = p[i].url /\ x.halt = p[i].halt /\ x.st = "gone"
    BY <1>p DEF Player, Whole
  <2>3. FetcherOK(f')
    BY <2>1, FetcherLeft
  <2> HIDE DEF x
  <2> QED
    BY <1>s, <2>1, <2>2, <2>3 DEF Playing
<1>12. ASSUME HlsSounds(i) PROVE RadioInv'
  <2> DEFINE x == [p[i] EXCEPT !.played = TRUE]
             g == [f EXCEPT !.pipe = Tail(f.pipe)]
  <2>1. p' = [p EXCEPT ![i] = x] /\ r' = r /\ srv' = srv /\ f' = g /\ f.pipe # <<>>
    BY <1>12, <1>p DEF HlsSounds, Fetcher
  <2>2. /\ x \in Player /\ Whole(x) /\ x.url = p[i].url /\ x.halt = p[i].halt /\ x.doom = p[i].doom
        /\ x.st = p[i].st
    BY <1>p DEF Player, Whole
  <2>3. FetcherOK(g)
    <3>1. f.pipe \in Seq(Nat)
      BY <1>p DEF Fetcher
    <3>2. Tail(f.pipe) \in Seq(Nat)
      BY <2>1, <3>1
    <3>3. g \in Fetcher /\ g.sent = f.sent /\ g.next = f.next
      BY <3>2, <1>p DEF Fetcher
    <3> HIDE DEF g
    <3> QED
      BY <3>3 DEF FetcherOK
  <2> HIDE DEF g
  <2> QED
    BY <1>s, <2>1, <2>2, <2>3
<1>13. ASSUME HlsEnds(i) PROVE RadioInv'
  <2> DEFINE complete == f.st = "exit0" /\ p[i].played
             x == Over(p[i], complete)
  <2>1. p' = [p EXCEPT ![i] = x] /\ r' = r /\ srv' = srv /\ f' = NoFetcher /\ p[i].st = "runs"
    BY <1>13, <1>p DEF HlsEnds, Plays, Acts, Heeds
  <2>2. p[i].passes = 0 /\ complete \in BOOLEAN
    BY <2>1, <1>p DEF Whole
  <2> HIDE DEF complete
  <2>3. /\ x \in Player /\ Whole(x) /\ x.url = p[i].url /\ x.halt = p[i].halt /\ x.doom = p[i].doom
    BY <1>o, <1>p, <2>1, <2>2
  <2> HIDE DEF x
  <2> QED
    BY <1>s, <2>1, <2>3, NobodyThere DEF Playing
<1>14. ASSUME NEW broken \in BOOLEAN, HlsCut(i, broken) PROVE RadioInv'
  <2> DEFINE complete == (broken \/ f.st = "exit0") /\ p[i].played
             x == Over(p[i], complete)
  <2>1. p' = [p EXCEPT ![i] = x] /\ r' = r /\ srv' = srv /\ f' = NoFetcher /\ p[i].st = "runs"
    BY <1>14, <1>p DEF HlsCut, Plays, Acts, Heeds
  <2>2. p[i].passes = 0 /\ complete \in BOOLEAN
    BY <2>1, <1>p DEF Whole
  <2> HIDE DEF complete
  <2>3. /\ x \in Player /\ Whole(x) /\ x.url = p[i].url /\ x.halt = p[i].halt /\ x.doom = p[i].doom
    BY <1>o, <1>p, <2>1, <2>2
  <2> HIDE DEF x
  <2> QED
    BY <1>s, <2>1, <2>3, NobodyThere DEF Playing
<1> QED
  BY <1>1, <1>2, <1>3, <1>4, <1>5, <1>6, <1>7, <1>8, <1>9, <1>10, <1>11, <1>12, <1>13, <1>14

(* The fetcher. *)
LEMMA RoundOK ==
  ASSUME NEW g, FetcherOK(g)
  PROVE  FetcherOK(Round(g))
<1> DEFINE edge == Edge(g.list)
           least == Min(g.list)
           on == IF g.next = 0 THEN edge ELSE Max({g.next, least})
           x == [g EXCEPT !.st = "segments", !.got = FALSE, !.next = on]
<1>g. g \in Fetcher
  BY DEF FetcherOK
<1>1. CASE g.list = {}
  <2>1. Round(g) = [g EXCEPT !.st = "exit1"]
    BY <1>1 DEF Round, Exits
  <2>2. Round(g) \in Fetcher /\ Round(g).sent = g.sent /\ Round(g).next = g.next
    BY <2>1, <1>g DEF Fetcher
  <2> QED
    BY <2>2 DEF FetcherOK
<1>2. CASE g.list # {}
  <2>1. Round(g) = x
    BY <1>2 DEF Round
  <2>2. g.list \in SUBSET Nat /\ g.next \in Nat /\ g.sent \in Seq(Nat)
    BY <1>g DEF Fetcher
  <2>3. least \in g.list
    BY <1>2, <2>2, LeastIs
  <2>4. edge \in g.list
    BY <2>3 DEF Edge
  <2>5. Max({g.next, least}) \in Nat /\ Max({g.next, least}) >= g.next
    <3>1. least \in Nat
      BY <2>2, <2>3
    <3> HIDE DEF least
    <3>2. \E x_1 \in {g.next, least} : \A y \in {g.next, least} : x_1 >= y
      <4>1. CASE g.next >= least
        BY <2>2, <3>1, <4>1
      <4>2. CASE least >= g.next
        BY <2>2, <3>1, <4>2
      <4> QED
        BY <2>2, <3>1, <4>1, <4>2
    <3>3. Max({g.next, least}) \in {g.next, least} /\ \A y \in {g.next, least} : Max({g.next, least}) >= y
      BY <3>2 DEF Max
    <3> QED
      BY <2>2, <3>1, <3>3
  <2> HIDE DEF edge, least
  <2>6. on \in Nat /\ (g.next # 0 => on >= g.next)
    BY <2>2, <2>4, <2>5
  <2> HIDE DEF on
  <2>7. x \in Fetcher /\ x.sent = g.sent /\ x.next = on
    BY <1>g, <2>6 DEF Fetcher
  <2> HIDE DEF x
  <2>8. \A m \in 1..Len(g.sent) : g.sent[m] < on
    <3> TAKE m \in 1..Len(g.sent)
    <3>1. g.sent[m] < g.next /\ g.sent[m] \in Nat
      BY <2>2 DEF FetcherOK
    <3> QED
      BY <2>2, <2>6, <3>1
  <2> QED
    BY <2>1, <2>7, <2>8 DEF FetcherOK
<1> QED
  BY <1>1, <1>2

LEMMA FetcherStep ==
  ASSUME RadioInv
  PROVE  /\ \A ok \in BOOLEAN : FirstList(ok) \/ Fetches(ok) => RadioInv'
         /\ \A how \in {"ok", "lost", "unparsed"} : Refreshes(how) => RadioInv'
         /\ RoundEnds \/ ServerEnds \/ BusTurns => RadioInv'
         /\ \A drop \in BOOLEAN : ServerMoves(drop) => RadioInv'
<1> USE DEF RadioInv
<1>f. f \in Fetcher /\ srv \in Server
  BY DEF FetcherOK
<1>s. ASSUME NEW g \in Fetcher, NEW x \in Fetcher, FetcherOK(g), x.sent = g.sent, x.next = g.next
      PROVE  FetcherOK(x)
  BY <1>s DEF FetcherOK
<1>e. ASSUME NEW g, FetcherOK(g), NEW code \in {"exit0", "exit1"}
      PROVE  FetcherOK(Exits(g, code))
  <2>1. g \in Fetcher
    BY <1>e DEF FetcherOK
  <2>2. Exits(g, code) \in Fetcher /\ Exits(g, code).sent = g.sent /\ Exits(g, code).next = g.next
    BY <2>1 DEF Exits, Fetcher
  <2> QED
    BY <1>e, <1>s, <2>1, <2>2
<1>a. ASSUME NEW g, FetcherOK(g)
      PROVE  FetcherOK(Failed(g))
  <2>1. g \in Fetcher
    BY <1>a DEF FetcherOK
  <2>2. CASE g.fails + 1 >= Fails
    BY <1>a, <1>e, <2>2 DEF Failed
  <2>3. CASE ~(g.fails + 1 >= Fails)
    <3>1. Failed(g) = [g EXCEPT !.fails = g.fails + 1]
      BY <2>3, <2>1 DEF Failed, Fetcher
    <3>2. g.fails + 1 \in Nat
      BY <2>1 DEF Fetcher
    <3>3. \A n \in Nat : /\ [g EXCEPT !.fails = n] \in Fetcher /\ [g EXCEPT !.fails = n].sent = g.sent
                          /\ [g EXCEPT !.fails = n].next = g.next
      BY <2>1 DEF Fetcher
    <3>4. Failed(g) \in Fetcher /\ Failed(g).sent = g.sent /\ Failed(g).next = g.next
      BY <3>1, <3>2, <3>3
    <3> QED
      BY <1>a, <1>s, <2>1, <3>4
  <2> QED
    BY <2>2, <2>3
<1>l. FetcherOK(Listed(f))
  <2>1. Parsed \in SUBSET (Nat \ {0})
    BY <1>f DEF Parsed, Server
  <2>2. Listed(f) \in Fetcher /\ Listed(f).sent = f.sent /\ Listed(f).next = f.next
    BY <2>1, <1>f DEF Listed, Fetcher, Server
  <2> QED
    BY <1>s, <1>f, <2>2
<1>1. ASSUME NEW ok \in BOOLEAN, FirstList(ok) PROVE RadioInv'
  <2>1. FetcherOK(f')
    BY <1>1, <1>e, <1>l, RoundOK DEF FirstList
  <2> QED
    BY <1>1, <2>1 DEF FirstList
<1>2. ASSUME NEW how \in {"ok", "lost", "unparsed"}, Refreshes(how) PROVE RadioInv'
  <2> DEFINE g == Failed(f)
             x == [g EXCEPT !.list = {}, !.end = FALSE]
  <2>1. FetcherOK(g)
    BY <1>a
  <2>2. FetcherOK(x)
    <3> HIDE DEF g
    <3>1. g \in Fetcher
      BY <2>1 DEF FetcherOK
    <3>2. x \in Fetcher /\ x.sent = g.sent /\ x.next = g.next
      BY <3>1 DEF Fetcher
    <3> QED
      BY <1>s, <2>1, <3>1, <3>2
  <2>3. f' \in {Round(Listed(f)), g, Round(x), Round(g)}
    BY <1>2 DEF Refreshes
  <2> HIDE DEF g, x
  <2>4. FetcherOK(f')
    BY <1>l, <2>1, <2>2, <2>3, RoundOK
  <2> QED
    BY <1>2, <2>4 DEF Refreshes
<1>3. ASSUME NEW ok \in BOOLEAN, Fetches(ok) PROVE RadioInv'
  <2> DEFINE s == Min(Unfetched)
             g == [f EXCEPT !.next = s + 1]
             x == [g EXCEPT !.fails = 0, !.got = TRUE, !.pipe = Append(f.pipe, s), !.sent = Append(f.sent, s)]
  <2>1. f' = IF ~ok THEN Failed(g) ELSE x
    BY <1>3, <1>f DEF Fetches, Fetcher
  <2>2. /\ Unfetched \in SUBSET Nat /\ Unfetched # {} /\ \A y \in Unfetched : y >= f.next
    BY <1>3, <1>f DEF Fetches, Unfetched, Fetcher
  <2>3. s \in Nat /\ s >= f.next
    BY <2>2, LeastIs
  <2> HIDE DEF s
  <2>4. /\ f.sent \in Seq(Nat) /\ f.pipe \in Seq(Nat) /\ f.next \in Nat
        /\ \A m \in 1..Len(f.sent) : f.sent[m] < f.next
        /\ \A m, n \in 1..Len(f.sent) : m < n => f.sent[m] < f.sent[n]
    BY <1>f DEF FetcherOK, Fetcher
  <2>5. \A m \in 1..Len(f.sent) : f.sent[m] < s /\ f.sent[m] \in Nat
    <3> TAKE m \in 1..Len(f.sent)
    <3>1. f.sent[m] \in Nat /\ f.sent[m] < f.next
      BY <2>4
    <3> QED
      BY <2>3, <2>4, <3>1
  <2>6. g \in Fetcher /\ g.sent = f.sent /\ g.next = s + 1
    <3>1. s + 1 \in Nat
      BY <2>3
    <3>2. \A n \in Nat : /\ [f EXCEPT !.next = n] \in Fetcher /\ [f EXCEPT !.next = n].sent = f.sent
                          /\ [f EXCEPT !.next = n].next = n
      BY <1>f DEF Fetcher
    <3> QED
      BY <3>1, <3>2
  <2>7. FetcherOK(g)
    <3> HIDE DEF g
    <3>1. \A m \in 1..Len(f.sent) : f.sent[m] < s + 1
      BY <2>3, <2>5
    <3> QED
      BY <2>4, <2>6, <3>1 DEF FetcherOK
  <2> HIDE DEF g
  <2>8. FetcherOK(x)
    <3> DEFINE more == Append(f.sent, s)
    <3>1. /\ Append(f.pipe, s) \in Seq(Nat) /\ more \in Seq(Nat) /\ Len(more) = Len(f.sent) + 1
          /\ more[Len(f.sent) + 1] = s /\ \A m \in 1..Len(f.sent) : more[m] = f.sent[m]
          /\ Len(f.sent) \in Nat
      BY <2>3, <2>4
    <3> HIDE DEF more
    <3>2. x \in Fetcher /\ x.sent = more /\ x.next = s + 1
      BY <2>6, <3>1 DEF Fetcher, more
    <3> HIDE DEF x
    <3>3. ASSUME NEW m \in 1..Len(more) PROVE more[m] < s + 1
      <4>1. CASE m \in 1..Len(f.sent)
        <5>1. more[m] = f.sent[m] /\ f.sent[m] < s /\ f.sent[m] \in Nat
          BY <2>5, <3>1, <4>1
        <5> QED
          BY <2>3, <5>1
      <4>2. CASE m = Len(f.sent) + 1
        BY <2>3, <3>1, <4>2
      <4> QED
        BY <3>1, <4>1, <4>2
    <3>4. ASSUME NEW m \in 1..Len(more), NEW n \in 1..Len(more), m < n PROVE more[m] < more[n]
      <4>1. m \in 1..Len(f.sent)
        BY <3>1, <3>4
      <4>2. CASE n \in 1..Len(f.sent)
        BY <2>4, <3>1, <3>4, <4>1, <4>2
      <4>3. CASE n = Len(f.sent) + 1
        BY <2>5, <3>1, <4>1, <4>3
      <4> QED
        BY <3>1, <4>2, <4>3
    <3> QED
      BY <3>2, <3>3, <3>4 DEF FetcherOK
  <2> HIDE DEF x
  <2>9. FetcherOK(f')
    BY <1>a, <2>1, <2>7, <2>8
  <2> QED
    BY <1>3, <2>9 DEF Fetches
<1>4. ASSUME RoundEnds PROVE RadioInv'
  <2>1. \/ f' = Exits(f, "exit0") \/ f' = Exits(f, "exit1")
        \/ f' = [f EXCEPT !.st = "waits", !.stalled = 0]
        \/ f' = [f EXCEPT !.st = "waits", !.stalled = f.stalled + 1]
    BY <1>4, <1>f DEF RoundEnds, Fetcher
  <2>2. FetcherOK(f')
    <3>1. CASE f' \in {Exits(f, "exit0"), Exits(f, "exit1")}
      BY <1>e, <3>1
    <3>2. CASE \E n \in Nat : f' = [f EXCEPT !.st = "waits", !.stalled = n]
      <4>1. f' \in Fetcher /\ f'.sent = f.sent /\ f'.next = f.next
        BY <1>f, <3>2 DEF Fetcher
      <4> QED
        BY <1>s, <1>f, <4>1
    <3>3. f.stalled + 1 \in Nat /\ 0 \in Nat
      BY <1>f DEF Fetcher
    <3> QED
      BY <2>1, <3>1, <3>2, <3>3
  <2> QED
    BY <1>4, <2>2 DEF RoundEnds
<1>5. BusTurns => RadioInv'
  BY DEF BusTurns
<1>6. ASSUME ServerEnds \/ (\E drop \in BOOLEAN : ServerMoves(drop)) PROVE RadioInv'
  <2>1. srv' \in Server
    <3>1. /\ srv.lo \in Nat \ {0} /\ srv.hi \in Nat \ {0} /\ srv.hi + 1 \in Nat \ {0}
      BY <1>f DEF Server
    <3>2. \A lo, hi \in Nat \ {0} : [srv EXCEPT !.hi = hi, !.lo = lo] \in Server
      BY <1>f DEF Server
    <3>3. [srv EXCEPT !.end = TRUE] \in Server
      BY <1>f DEF Server
    <3>4. \A drop \in BOOLEAN : ServerMoves(drop) => srv' \in Server
      BY <3>1, <3>2 DEF ServerMoves
    <3> QED
      BY <1>6, <3>3, <3>4 DEF ServerEnds
  <2> QED
    BY <1>6, <2>1 DEF ServerEnds, ServerMoves
<1> QED
  BY <1>1, <1>2, <1>3, <1>4, <1>5, <1>6

LEMMA RadioHolds ==
  ASSUME RadioInv
  PROVE  RadioHonest
<1> USE DEF RadioInv
<1>1. Cardinality({i \in Players : Alive(i) /\ p[i].doom = "no"}) <= 1
  <2> DEFINE playing == {i \in Players : Alive(i) /\ p[i].doom = "no"}
  <2>1. playing \subseteq {r.pid}
    BY DEF RecordOK, Alive, Playing
  <2>2. IsFiniteSet({r.pid}) /\ Cardinality({r.pid}) = 1
    BY FS_Singleton
  <2> HIDE DEF playing
  <2>3. Cardinality(playing) <= Cardinality({r.pid})
    BY <2>1, <2>2, FS_Subset
  <2> QED
    BY <2>2, <2>3 DEF playing
<1>2. r.up => \A i \in Players : Alive(i) /\ p[i].doom = "no" => r.pid = i
  BY DEF RecordOK, Alive, Playing
<1>3. r.title \in {0, r.pid} /\ (r.pid # 0 => r.url = p[r.pid].url)
  BY DEF RecordOK
<1>4. ~r.lost /\ r.pid # 0 /\ Alive(r.pid) => r.paused = p[r.pid].halt
  BY DEF RecordOK, Alive, Playing
<1>5. \A i \in Players : p[i].passes <= 1
  BY DEF RecordOK, Whole
<1>6. \A m, n \in 1..Len(f.sent) : m < n => f.sent[m] < f.sent[n]
  BY DEF FetcherOK
<1> QED
  BY <1>1, <1>2, <1>3, <1>4, <1>5, <1>6 DEF RadioHonest

LEMMA RadioBegins ==
  ASSUME RadioInit
  PROVE  RadioInv
<1>1. /\ r \in RadioDaemon /\ r.up /\ r.pid = 0 /\ r.title = 0 /\ ~r.paused
  BY DEF RadioInit, NoPlayer, RadioDaemon, Urls
<1>2. Unborn \in Player /\ Unborn.st = "none" /\ Unborn.passes = 0
  BY DEF Unborn, Player, Urls
<1>3. p \in [Players -> Player] /\ \A i \in Players : p[i] = Unborn
  BY <1>2 DEF RadioInit
<1>4. RecordOK(r, p)
  BY <1>1, <1>2, <1>3 DEF RecordOK, Whole, Playing
<1>5. srv \in Server
  BY DEF RadioInit, Server
<1> QED
  BY <1>4, <1>5, NobodyThere DEF RadioInv, RadioInit

(***************************************************************************)
(* Service discovery.                                                      *)
(***************************************************************************)
Conn == [k : Owners \cup {"none", "visitor"}, run : Nat, msg : {"none", "register", "status"},
         gone : BOOLEAN, late : BOOLEAN]
Responder == [up : BOOLEAN, fail : BOOLEAN, bus : BOOLEAN, avahi : {"down", "starting", "up"}]
Program == [run : Nat, up : BOOLEAN, wants : BOOLEAN, fd : BOOLEAN,
            reply : {"none", "pending", "error", "closed"}]
DiscoveryTypes ==
  /\ md \in Responder /\ slot \in [1..Clients -> Conn] /\ queue \in Seq(Conn)
  /\ lease \in [Owners -> 0..Clients] /\ files \subseteq Owners \X Nat
  /\ own \in [Owners -> Program]
(* What each lease l and file of fs stands for: a connection of s. *)
StoodFor(l, fs, s) ==
  /\ \A service \in fs : l[service[1]] # 0 /\ s[l[service[1]]].run = service[2]
  /\ \A k \in Owners : l[k] # 0 => s[l[k]].k = k
DiscoveryInv ==
  /\ DiscoveryTypes
  /\ ~md.up => md.avahi = "down" /\ \A k \in Owners : lease[k] = 0
  /\ shown = IF md.avahi = "up" THEN files ELSE {}
  /\ md.up /\ ~md.fail => StoodFor(lease, files, slot)

LEMMA DiscoveryHolds ==
  ASSUME DiscoveryInv
  PROVE  DiscoveryHonest
  BY DEF DiscoveryInv, DiscoveryHonest, StoodFor

LEMMA FreeIs == Free \in Conn /\ Free.k = "none"
  BY DEF Free, Conn

LEMMA DiscoveryBegins ==
  ASSUME DiscoveryInit
  PROVE  DiscoveryInv
<1>1. md \in Responder /\ ~md.up /\ md.avahi = "down"
  BY DEF DiscoveryInit, Down, Responder
<1>2. slot \in [1..Clients -> Conn]
  BY FreeIs DEF DiscoveryInit
<1>3. queue \in Seq(Conn) /\ files = {} /\ shown = {}
  BY DEF DiscoveryInit
<1>4. lease \in [Owners -> 0..Clients] /\ \A k \in Owners : lease[k] = 0
  BY ClientsAssumption DEF DiscoveryInit
<1>5. own \in [Owners -> Program]
  BY DEF DiscoveryInit, Program
<1> QED
  BY <1>1, <1>2, <1>3, <1>4, <1>5 DEF DiscoveryInv, DiscoveryTypes

(* A step that leaves daemon, leases and files alone may change what is     *)
(* connected, but not whose a leased connection is.                         *)
LEMMA Quiet ==
  ASSUME DiscoveryInv, Untold, slot' \in [1..Clients -> Conn], queue' \in Seq(Conn),
         own' \in [Owners -> Program],
         \A i \in 1..Clients : slot[i].k \in Owners =>
           slot'[i].k = slot[i].k /\ slot'[i].run = slot[i].run
  PROVE  DiscoveryInv'
<1>1. /\ md' = md /\ lease' = lease /\ files' = files /\ shown' = shown
  BY DEF Untold
<1>2. ASSUME StoodFor(lease, files, slot) PROVE StoodFor(lease, files, slot')
  <2>1. \A k \in Owners : lease[k] # 0 => lease[k] \in 1..Clients /\ slot[lease[k]].k = k
    BY <1>2, ClientsAssumption DEF DiscoveryInv, DiscoveryTypes, StoodFor
  <2>2. \A k \in Owners : lease[k] # 0 => /\ slot'[lease[k]].k = k
                                          /\ slot'[lease[k]].run = slot[lease[k]].run
    BY <2>1
  <2>3. \A service \in files : service[1] \in Owners
    BY DEF DiscoveryInv, DiscoveryTypes
  <2> QED
    BY <1>2, <2>2, <2>3 DEF StoodFor
<1> QED
  BY <1>1, <1>2 DEF DiscoveryInv, DiscoveryTypes

LEMMA HangsOK ==
  ASSUME DiscoveryInv, NEW k \in Owners, Hangs(k)
  PROVE  /\ slot' \in [1..Clients -> Conn] /\ queue' \in Seq(Conn)
         /\ \A i \in 1..Clients : slot'[i].k = slot[i].k /\ slot'[i].run = slot[i].run
<1>1. ASSUME NEW x \in Conn
      PROVE  HungUp(x, k) \in Conn /\ HungUp(x, k).k = x.k /\ HungUp(x, k).run = x.run
  BY DEF HungUp, Conn
<1>2. slot \in [1..Clients -> Conn] /\ queue \in Seq(Conn)
  BY DEF DiscoveryInv, DiscoveryTypes
<1>3. slot' = [i \in 1..Clients |-> HungUp(slot[i], k)]
  BY DEF Hangs
<1>4. \A i \in 1..Clients : slot[i] \in Conn /\ slot'[i] = HungUp(slot[i], k)
  BY <1>2, <1>3
<1>5. queue' \in Seq(Conn)
  <2>1. queue' = [i \in 1..Len(queue) |-> HungUp(queue[i], k)] /\ Len(queue) \in Nat
    BY <1>2 DEF Hangs
  <2>2. \A i \in 1..Len(queue) : HungUp(queue[i], k) \in Conn
    BY <1>1, <1>2
  <2> QED
    BY <2>1, <2>2
<1> QED
  BY <1>1, <1>3, <1>4, <1>5

LEMMA AnsweredOK ==
  ASSUME DiscoveryInv, NEW conn \in Conn, NEW word \in {"pending", "error", "closed"}
  PROVE  Answered(conn, word) \in [Owners -> Program]
<1>1. own \in [Owners -> Program]
  BY DEF DiscoveryInv, DiscoveryTypes
<1>2. CASE Lives(conn) /\ own[conn.k].fd /\ ~conn.gone
  <2>1. conn.k \in Owners /\ own[conn.k] \in Program
    BY <1>1, <1>2 DEF Lives
  <2>2. [own[conn.k] EXCEPT !.reply = word] \in Program
    BY <2>1 DEF Program
  <2> QED
    BY <1>1, <1>2, <2>1, <2>2 DEF Answered
<1>3. CASE ~(Lives(conn) /\ own[conn.k].fd /\ ~conn.gone)
  BY <1>1, <1>3 DEF Answered
<1> QED
  BY <1>2, <1>3

(* The programs that want to be found, and the visitors. *)
LEMMA OwnerStep ==
  ASSUME DiscoveryInv, NEW k \in Owners
  PROVE  /\ Registers(k) => DiscoveryInv'
         /\ Receives(k) \/ Withdraws(k) \/ OwnerDies(k) => DiscoveryInv'
         /\ Wants(k) \/ OwnerStarts(k) => DiscoveryInv'
<1>t. /\ slot \in [1..Clients -> Conn] /\ queue \in Seq(Conn) /\ own \in [Owners -> Program]
      /\ own[k] \in Program
  BY DEF DiscoveryInv, DiscoveryTypes
<1>o. \A x \in Program : [own EXCEPT ![k] = x] \in [Owners -> Program]
  BY <1>t
<1>1. ASSUME Registers(k) PROVE DiscoveryInv'
  <2>1. Registration(k) \in Conn
    <3>1. own[k].run \in Nat
      BY <1>t DEF Program
    <3>2. Free \in Conn
      BY FreeIs
    <3> QED
      BY <3>1, <3>2 DEF Registration, Conn
  <2>2. queue' \in Seq(Conn)
    BY <1>1, <1>t, <2>1 DEF Registers
  <2>3. [own[k] EXCEPT !.fd = TRUE, !.reply = "none"] \in Program
    BY <1>t DEF Program
  <2>4. own' = [own EXCEPT ![k] = [own[k] EXCEPT !.fd = TRUE, !.reply = "none"]]
    BY <1>1, <1>t DEF Registers
  <2>5. own' \in [Owners -> Program]
    BY <1>o, <2>3, <2>4
  <2>6. slot' = slot /\ Untold
    BY <1>1 DEF Registers
  <2> QED
    BY <1>t, <2>2, <2>5, <2>6, Quiet
<1>2. ASSUME Receives(k) PROVE DiscoveryInv'
  <2> DEFINE x == [own[k] EXCEPT !.reply = "none", !.fd = own[k].reply = "pending"]
  <2>1. x \in Program
    BY <1>t DEF Program
  <2>2. own' = [own EXCEPT ![k] = x] /\ Untold
    BY <1>2, <1>t DEF Receives
  <2>3. own' \in [Owners -> Program]
    BY <1>o, <2>1, <2>2
  <2>4. CASE own[k].reply = "pending"
    BY <1>2, <1>t, <2>2, <2>3, <2>4, Quiet DEF Receives
  <2>5. CASE own[k].reply # "pending"
    <3>1. Hangs(k)
      BY <1>2, <2>5 DEF Receives
    <3> QED
      BY <2>2, <2>3, <3>1, HangsOK, Quiet
  <2> QED
    BY <2>4, <2>5
<1>3. ASSUME Withdraws(k) \/ OwnerDies(k) PROVE DiscoveryInv'
  <2>1. /\ [own[k] EXCEPT !.wants = FALSE, !.fd = FALSE, !.reply = "none"] \in Program
        /\ [own[k] EXCEPT !.up = FALSE, !.fd = FALSE, !.reply = "none"] \in Program
    BY <1>t DEF Program
  <2>2. /\ \/ own' = [own EXCEPT ![k] = [own[k] EXCEPT !.wants = FALSE, !.fd = FALSE, !.reply = "none"]]
           \/ own' = [own EXCEPT ![k] = [own[k] EXCEPT !.up = FALSE, !.fd = FALSE, !.reply = "none"]]
        /\ Hangs(k) /\ Untold
    BY <1>3, <1>t DEF Withdraws, OwnerDies
  <2>3. own' \in [Owners -> Program]
    BY <1>o, <2>1, <2>2
  <2> QED
    BY <2>2, <2>3, HangsOK, Quiet
<1>4. ASSUME Wants(k) \/ OwnerStarts(k) PROVE DiscoveryInv'
  <2>1. own[k].run + 1 \in Nat
    BY <1>t DEF Program
  <2>2. \A n \in Nat : [own[k] EXCEPT !.up = TRUE, !.run = n] \in Program
    BY <1>t DEF Program
  <2>3. [own[k] EXCEPT !.wants = TRUE] \in Program
    BY <1>t DEF Program
  <2>4. /\ \/ own' = [own EXCEPT ![k] = [own[k] EXCEPT !.wants = TRUE]]
           \/ own' = [own EXCEPT ![k] = [own[k] EXCEPT !.up = TRUE, !.run = own[k].run + 1]]
        /\ slot' = slot /\ queue' = queue /\ Untold
    BY <1>4, <1>t DEF Wants, OwnerStarts
  <2>5. own' \in [Owners -> Program]
    BY <1>o, <2>1, <2>2, <2>3, <2>4
  <2> QED
    BY <1>t, <2>4, <2>5, Quiet
<1> QED
  BY <1>1, <1>2, <1>3, <1>4

LEMMA VisitorStep ==
  ASSUME DiscoveryInv
  PROVE  /\ \A msg \in {"none", "status"} : Visits(msg) => DiscoveryInv'
         /\ Accepts => DiscoveryInv'
         /\ \A i \in 1..Clients : Expires(i) => DiscoveryInv'
<1>t. slot \in [1..Clients -> Conn] /\ queue \in Seq(Conn) /\ own \in [Owners -> Program]
  BY DEF DiscoveryInv, DiscoveryTypes
<1>1. ASSUME NEW msg \in {"none", "status"}, Visits(msg) PROVE DiscoveryInv'
  <2>1. [Free EXCEPT !.k = "visitor", !.msg = msg] \in Conn
    BY FreeIs DEF Conn
  <2>2. queue' = Append(queue, [Free EXCEPT !.k = "visitor", !.msg = msg]) /\ slot' = slot /\ own' = own /\ Untold
    BY <1>1 DEF Visits
  <2>3. queue' \in Seq(Conn)
    BY <1>t, <2>1, <2>2
  <2> QED
    BY <1>t, <2>2, <2>3, Quiet
<1>2. ASSUME Accepts PROVE DiscoveryInv'
  <2>1. queue' \in Seq(Conn) /\ Head(queue) \in Conn /\ Untold
    BY <1>2, <1>t DEF Accepts
  <2>2. CASE \E i \in 1..Clients : slot[i] = Free
    <3> DEFINE spare == {i \in 1..Clients : slot[i] = Free}
               n == CHOOSE i \in 1..Clients : slot[i] = Free /\ \A j \in 1..i - 1 : slot[j] # Free
    <3>1. n \in 1..Clients /\ slot[n] = Free
      <4>1. spare \in SUBSET Nat /\ spare # {}
        BY <2>2
      <4>2. Min(spare) \in spare /\ \A y \in spare : Min(spare) <= y
        BY <4>1, LeastIs
      <4>3. ASSUME NEW j \in 1..Min(spare) - 1 PROVE slot[j] # Free
        <5>1. Min(spare) \in 1..Clients /\ Clients \in Nat
          BY <4>2, ClientsAssumption
        <5>2. j \in 1..Clients /\ ~(Min(spare) <= j)
          BY <5>1
        <5> QED
          BY <4>2, <5>2
      <4>4. Min(spare) \in 1..Clients /\ slot[Min(spare)] = Free
        BY <4>2
      <4> HIDE DEF spare
      <4> QED
        BY <4>3, <4>4
    <3>2. slot' = [slot EXCEPT ![n] = Head(queue)] /\ own' = own
      BY <1>2, <2>2 DEF Accepts
    <3> HIDE DEF n
    <3>3. slot' \in [1..Clients -> Conn]
      BY <1>t, <2>1, <3>2
    <3>4. \A i \in 1..Clients : slot[i].k \in Owners => slot'[i] = slot[i]
      BY <1>t, <3>1, <3>2, FreeIs DEF Owners
    <3> QED
      BY <1>t, <2>1, <3>2, <3>3, <3>4, Quiet
  <2>3. CASE ~(\E i \in 1..Clients : slot[i] = Free)
    <3>1. slot' = slot /\ own' = Answered(Head(queue), "closed")
      BY <1>2, <2>3 DEF Accepts
    <3>2. own' \in [Owners -> Program]
      BY <2>1, <3>1, AnsweredOK
    <3> QED
      BY <1>t, <2>1, <3>1, <3>2, Quiet
  <2> QED
    BY <2>2, <2>3
<1>3. ASSUME NEW i \in 1..Clients, Expires(i) PROVE DiscoveryInv'
  <2> DEFINE x == [slot[i] EXCEPT !.late = TRUE]
  <2>1. x \in Conn /\ x.k = slot[i].k /\ x.run = slot[i].run
    BY <1>t DEF Conn
  <2>2. slot' = [slot EXCEPT ![i] = x] /\ queue' = queue /\ own' = own /\ Untold
    BY <1>3, <1>t DEF Expires
  <2> HIDE DEF x
  <2>3. slot' \in [1..Clients -> Conn]
    BY <1>t, <2>1, <2>2
  <2> QED
    BY <1>t, <2>1, <2>2, <2>3, Quiet
<1> QED
  BY <1>1, <1>2, <1>3

(* One client of a pass. *)
LEMMA ServeStep ==
  ASSUME DiscoveryInv, NEW i \in 1..Clients, NEW links \in BOOLEAN, NEW unlinks \in BOOLEAN,
         Serves(i, links, unlinks)
  PROVE  DiscoveryInv'
<1> DEFINE conn == slot[i]
           taken == Taken(conn, links)
           closes == Closes(i, conn, links)
           drops == closes /\ Owned(i, conn, links)
           service == <<conn.k, conn.run>>
<1>t. /\ md \in Responder /\ slot \in [1..Clients -> Conn] /\ queue \in Seq(Conn)
      /\ lease \in [Owners -> 0..Clients] /\ files \subseteq Owners \X Nat
      /\ own \in [Owners -> Program]
  BY DEF DiscoveryInv, DiscoveryTypes
<1>c. conn \in Conn /\ i \in 0..Clients /\ i # 0
  BY <1>t, ClientsAssumption
<1>1. md.up /\ ~md.fail /\ conn # Free /\ queue' = queue
  BY DEF Serves
<1>2. slot' = [slot EXCEPT ![i] = IF closes THEN Free ELSE [conn EXCEPT !.msg = "none"]]
  BY DEF Serves
<1>3. lease' = IF drops /\ unlinks THEN [lease EXCEPT ![conn.k] = 0]
               ELSE IF taken THEN [lease EXCEPT ![conn.k] = i] ELSE lease
  BY DEF Serves
<1>4. files' = IF drops /\ unlinks THEN files \ {service} ELSE IF taken THEN files \cup {service} ELSE files
  BY DEF Serves
<1>5. own' = IF conn.msg = "register" THEN Answered(conn, IF taken THEN "pending" ELSE "error") ELSE own
  BY DEF Serves
<1>6. \E after \in IF taken \/ drops THEN Reloads ELSE {md.avahi} :
         md' = [md EXCEPT !.avahi = after, !.fail = ~unlinks]
  BY DEF Serves
<1>7. shown' = IF (taken \/ drops) /\ md.avahi = "up" THEN files' ELSE shown
  BY DEF Serves
<1>8. ~unlinks => drops
  BY DEF Serves
<1>9. taken => conn.k \in Owners /\ lease[conn.k] = 0 /\ Owned(i, conn, links)
  BY DEF Taken, Lives, Owned
<1>10. Owned(i, conn, links) => taken \/ (conn.k \in Owners /\ lease[conn.k] = i)
  BY DEF Owned
<1>11. conn.k \in Owners /\ lease[conn.k] = i => Owned(i, conn, links)
  BY DEF Owned
<1>12. StoodFor(lease, files, slot)
  BY <1>1 DEF DiscoveryInv
<1>13. shown = IF md.avahi = "up" THEN files ELSE {}
  BY DEF DiscoveryInv
<1> DEFINE owned == Owned(i, conn, links)
<1>14. drops = (closes /\ owned)
  OBVIOUS
<1>n. Free \in Conn /\ Free.k \notin Owners
  BY FreeIs DEF Owners
<1>m. [conn EXCEPT !.msg = "none"] \in Conn /\ [conn EXCEPT !.msg = "none"].k = conn.k
      /\ [conn EXCEPT !.msg = "none"].run = conn.run
  BY <1>c DEF Conn
<1>k. conn.run \in Nat
  BY <1>c DEF Conn
<1> HIDE DEF taken, closes, drops, owned
<1>15. DiscoveryTypes'
  <2>1. md' \in Responder
    <3>1. PICK after \in IF taken \/ drops THEN Reloads ELSE {md.avahi} :
             md' = [md EXCEPT !.avahi = after, !.fail = ~unlinks]
      BY <1>6
    <3>2. after \in {"down", "starting", "up"}
      BY <1>t, <3>1 DEF Reloads, Responder
    <3> QED
      BY <1>t, <3>1, <3>2 DEF Responder
  <2>2. slot' \in [1..Clients -> Conn]
    BY <1>t, <1>2, <1>n, <1>m
  <2>3. lease' \in [Owners -> 0..Clients]
    <3>1. 0 \in 0..Clients
      BY ClientsAssumption
    <3> QED
      BY <1>t, <1>c, <1>3, <3>1
  <2>4. files' \subseteq Owners \X Nat
    <3>1. taken => service \in Owners \X Nat
      BY <1>9, <1>k
    <3> HIDE DEF service
    <3> QED
      BY <1>t, <1>4, <3>1
  <2>5. own' \in [Owners -> Program]
    <3>1. (IF taken THEN "pending" ELSE "error") \in {"pending", "error", "closed"}
      OBVIOUS
    <3> QED
      BY <1>t, <1>c, <1>5, <3>1, AnsweredOK
  <2> QED
    BY <1>t, <1>1, <2>1, <2>2, <2>3, <2>4, <2>5 DEF DiscoveryTypes
<1>16. md'.up /\ md'.fail = ~unlinks
  BY <1>1, <1>6, <1>t DEF Responder
<1>17. shown' = IF md'.avahi = "up" THEN files' ELSE {}
  <2>1. md'.avahi \in IF taken \/ drops THEN Reloads ELSE {md.avahi}
    BY <1>6, <1>t DEF Responder
  <2>2. CASE ~(taken \/ drops)
    BY <1>4, <1>7, <1>13, <2>1, <2>2
  <2>3. CASE taken \/ drops
    BY <1>7, <1>13, <2>1, <2>3 DEF Reloads
  <2> QED
    BY <2>2, <2>3
<1>18. ASSUME unlinks PROVE StoodFor(lease', files', slot')
  <2>1. \A j \in 1..Clients : j # i => slot'[j] = slot[j]
    BY <1>t, <1>2
  <2>2. /\ closes => slot'[i] = Free
        /\ ~closes => slot'[i].k = conn.k /\ slot'[i].run = conn.run
    BY <1>t, <1>2, <1>m
  <2>3. \A k \in Owners : lease[k] # 0 => lease[k] \in 1..Clients /\ slot[lease[k]].k = k
    BY <1>12, <1>t, ClientsAssumption DEF StoodFor
  <2>4. \A x \in files : x[1] \in Owners /\ x = <<x[1], x[2]>> /\ lease[x[1]] # 0 /\ slot[lease[x[1]]].run = x[2]
    BY <1>12, <1>t DEF StoodFor
  <2>5. CASE drops
    <3>1. /\ closes /\ conn.k \in Owners /\ lease' = [lease EXCEPT ![conn.k] = 0] /\ files' = files \ {service}
          /\ lease[conn.k] \in {0, i}
      BY <1>3, <1>4, <1>9, <1>10, <1>14, <1>18, <2>5 DEF owned
    <3>2. \A k \in Owners : lease'[k] # 0 => k # conn.k /\ lease'[k] = lease[k] /\ lease[k] # i
      BY <1>t, <2>3, <3>1
    <3>3. \A k \in Owners : lease'[k] # 0 => slot'[lease'[k]].k = k /\ slot'[lease'[k]] = slot[lease[k]]
      BY <2>1, <2>3, <3>2
    <3>4. ASSUME NEW x \in files' PROVE lease'[x[1]] # 0 /\ slot'[lease'[x[1]]].run = x[2]
      <4>1. x \in files /\ x # service
        BY <3>1
      <4>2. x[1] # conn.k
        BY <2>4, <3>1, <4>1
      <4>3. lease'[x[1]] = lease[x[1]] /\ lease[x[1]] # 0 /\ x[1] \in Owners
        BY <1>t, <2>4, <3>1, <4>1, <4>2
      <4> QED
        BY <2>4, <3>3, <4>1, <4>3
    <3> QED
      BY <3>3, <3>4 DEF StoodFor
  <2>6. CASE ~drops /\ taken
    <3>1. /\ ~closes /\ conn.k \in Owners /\ lease' = [lease EXCEPT ![conn.k] = i] /\ files' = files \cup {service}
          /\ lease[conn.k] = 0
      BY <1>3, <1>4, <1>9, <1>14, <2>6 DEF owned
    <3>2. \A k \in Owners : lease'[k] # 0 => slot'[lease'[k]].k = k
      <4> TAKE k \in Owners
      <4>1. CASE k = conn.k
        BY <1>t, <2>2, <3>1, <4>1
      <4>2. CASE k # conn.k
        BY <1>t, <2>1, <2>2, <2>3, <3>1, <4>2
      <4> QED
        BY <4>1, <4>2
    <3>3. ASSUME NEW x \in files' PROVE lease'[x[1]] # 0 /\ slot'[lease'[x[1]]].run = x[2]
      <4>1. CASE x = service
        BY <1>t, <1>c, <2>2, <3>1, <4>1
      <4>2. CASE x \in files
        <5>1. x[1] \in Owners /\ lease[x[1]] # 0 /\ slot[lease[x[1]]].run = x[2]
          BY <2>4, <4>2
        <5>2. lease'[x[1]] = lease[x[1]] /\ lease[x[1]] \in 1..Clients
          BY <1>t, <2>3, <3>1, <5>1
        <5> QED
          BY <2>1, <2>2, <3>1, <5>1, <5>2
      <4> QED
        BY <3>1, <4>1, <4>2
    <3> QED
      BY <3>2, <3>3 DEF StoodFor
  <2>7. CASE ~drops /\ ~taken
    <3>1. lease' = lease /\ files' = files
      BY <1>3, <1>4, <2>7
    <3>2. \A k \in Owners : lease[k] # 0 => slot'[lease[k]].k = k /\ slot'[lease[k]].run = slot[lease[k]].run
      <4> TAKE k \in Owners
      <4> HAVE lease[k] # 0
      <4>1. lease[k] \in 1..Clients /\ slot[lease[k]].k = k
        BY <2>3
      <4>2. CASE lease[k] = i
        <5>1. ~closes
          BY <1>11, <1>14, <2>7, <4>1, <4>2 DEF owned
        <5> QED
          BY <2>2, <4>1, <4>2, <5>1
      <4>3. CASE lease[k] # i
        BY <2>1, <4>1, <4>3
      <4> QED
        BY <4>2, <4>3
    <3> QED
      BY <2>4, <3>1, <3>2 DEF StoodFor
  <2> QED
    BY <2>5, <2>6, <2>7
<1> QED
  BY <1>15, <1>16, <1>17, <1>18 DEF DiscoveryInv

(* The children, and the daemon's own end and start. *)
LEMMA DaemonStep ==
  ASSUME DiscoveryInv
  PROVE  /\ BusStarts \/ AvahiStarts \/ AvahiReads => DiscoveryInv'
         /\ \A dbus \in BOOLEAN : ChildDies(dbus) => DiscoveryInv'
         /\ MdnsdDies => DiscoveryInv'
         /\ \A ok \in BOOLEAN : MdnsdExits(ok) \/ MdnsdStarts(ok) => DiscoveryInv'
<1>t. /\ md \in Responder /\ slot \in [1..Clients -> Conn] /\ queue \in Seq(Conn)
      /\ lease \in [Owners -> 0..Clients] /\ files \subseteq Owners \X Nat
      /\ own \in [Owners -> Program]
  BY DEF DiscoveryInv, DiscoveryTypes
<1>i. /\ ~md.up => md.avahi = "down" /\ \A k \in Owners : lease[k] = 0
      /\ shown = IF md.avahi = "up" THEN files ELSE {}
      /\ md.up /\ ~md.fail => StoodFor(lease, files, slot)
  BY DEF DiscoveryInv
<1>1. ASSUME md' \in Responder, md'.up = md.up, md'.fail = md.fail, ~md.up => md'.avahi = "down",
             shown' = IF md'.avahi = "up" THEN files ELSE {},
             UNCHANGED <<slot, queue, lease, files, own>>
      PROVE  DiscoveryInv'
  BY <1>1, <1>t, <1>i DEF DiscoveryInv, DiscoveryTypes
<1>2. BusStarts => DiscoveryInv'
  <2> HAVE BusStarts
  <2>1. /\ md' = [md EXCEPT !.bus = TRUE, !.avahi = "down"] /\ shown' = {}
        /\ UNCHANGED <<slot, queue, lease, files, own>>
    BY DEF BusStarts
  <2>2. md' \in Responder /\ md'.up = md.up /\ md'.fail = md.fail /\ md'.avahi = "down"
    BY <1>t, <2>1 DEF Responder
  <2> QED
    BY <1>1, <2>1, <2>2
<1>3. AvahiStarts => DiscoveryInv'
  <2> HAVE AvahiStarts
  <2>1. /\ md' = [md EXCEPT !.avahi = "starting"] /\ shown' = {} /\ md.up
        /\ UNCHANGED <<slot, queue, lease, files, own>>
    BY <1>i DEF AvahiStarts
  <2>2. md' \in Responder /\ md'.up = md.up /\ md'.fail = md.fail /\ md'.avahi = "starting"
    BY <1>t, <2>1 DEF Responder
  <2> QED
    BY <1>1, <2>1, <2>2
<1>4. AvahiReads => DiscoveryInv'
  <2> HAVE AvahiReads
  <2>1. /\ md' = [md EXCEPT !.avahi = "up"] /\ shown' = files /\ md.up
        /\ UNCHANGED <<slot, queue, lease, files, own>>
    BY <1>i DEF AvahiReads
  <2>2. md' \in Responder /\ md'.up = md.up /\ md'.fail = md.fail /\ md'.avahi = "up"
    BY <1>t, <2>1 DEF Responder
  <2> QED
    BY <1>1, <2>1, <2>2
<1>5. ASSUME NEW dbus \in BOOLEAN, ChildDies(dbus) PROVE DiscoveryInv'
  <2>1. CASE dbus
    <3>1. /\ md' = [md EXCEPT !.bus = FALSE] /\ shown' = shown
          /\ UNCHANGED <<slot, queue, lease, files, own>>
      BY <1>5, <2>1 DEF ChildDies
    <3>2. md' \in Responder /\ md'.up = md.up /\ md'.fail = md.fail /\ md'.avahi = md.avahi
      BY <1>t, <3>1 DEF Responder
    <3> QED
      BY <1>1, <1>i, <3>1, <3>2
  <2>2. CASE ~dbus
    <3>1. /\ md' = [md EXCEPT !.avahi = "down"] /\ shown' = {}
          /\ UNCHANGED <<slot, queue, lease, files, own>>
      BY <1>5, <2>2 DEF ChildDies
    <3>2. md' \in Responder /\ md'.up = md.up /\ md'.fail = md.fail /\ md'.avahi = "down"
      BY <1>t, <3>1 DEF Responder
    <3> QED
      BY <1>1, <3>1, <3>2
  <2> QED
    BY <2>1, <2>2
<1>6. ASSUME Gone, files' \in {{}, files} PROVE DiscoveryInv'
  <2>1. md' \in Responder /\ ~md'.up /\ md'.avahi = "down"
    BY <1>6 DEF Gone, Down, Responder
  <2>2. slot' \in [1..Clients -> Conn] /\ queue' \in Seq(Conn) /\ shown' = {}
    BY <1>6, FreeIs DEF Gone
  <2>3. lease' \in [Owners -> 0..Clients] /\ \A k \in Owners : lease'[k] = 0
    BY <1>6, ClientsAssumption DEF Gone
  <2>4. own' \in [Owners -> Program]
    <3>1. \A k \in Owners : own[k] \in Program /\ [own[k] EXCEPT !.reply = "closed"] \in Program
      BY <1>t DEF Program
    <3> QED
      BY <1>6, <3>1 DEF Gone
  <2> QED
    BY <1>6, <1>t, <2>1, <2>2, <2>3, <2>4 DEF DiscoveryInv, DiscoveryTypes
<1>7. MdnsdDies \/ (\E ok \in BOOLEAN : MdnsdExits(ok)) => DiscoveryInv'
  BY <1>6 DEF MdnsdDies, MdnsdExits
<1>8. ASSUME NEW ok \in BOOLEAN, MdnsdStarts(ok) PROVE DiscoveryInv'
  <2>1. ~md.up /\ UNCHANGED <<slot, queue, lease, shown, own>>
    BY <1>8 DEF MdnsdStarts
  <2>2. CASE ~ok
    <3>1. md' = md /\ files' = files
      BY <1>8, <2>2 DEF MdnsdStarts
    <3> QED
      BY <1>1, <1>t, <1>i, <2>1, <3>1
  <2>3. CASE ok
    <3>1. md' = [Down EXCEPT !.up = TRUE] /\ files' = ClearStale(files)
      BY <1>8, <2>3 DEF MdnsdStarts
    <3>2. files' = {}
      BY <1>t, <3>1 DEF ClearStale
    <3>3. md' \in Responder /\ md'.up /\ md'.avahi = "down"
      BY <3>1 DEF Down, Responder
    <3>4. StoodFor(lease, {}, slot)
      BY <1>i, <2>1 DEF StoodFor
    <3>5. shown \in {files, {}}
      BY <1>i
    <3> QED
      BY <1>t, <1>i, <2>1, <3>2, <3>3, <3>4 DEF DiscoveryInv, DiscoveryTypes
  <2> QED
    BY <2>2, <2>3
<1> QED
  BY <1>2, <1>3, <1>4, <1>5, <1>7, <1>8

(***************************************************************************)
(* The three together.                                                     *)
(***************************************************************************)
(* The bridge before its first stream. *)
SinkStill == c = Connected(Companion) /\ eng.heard = <<>>
StreamInv ==
  /\ scene \in Scenes /\ scene.part # "sendspin" /\ ~scene.orphans
  /\ RadioInv /\ DiscoveryInv /\ SinkStill

LEMMA StreamBegins ==
  ASSUME StreamInit, scene.part # "sendspin", ~scene.orphans
  PROVE  StreamInv
<1>1. SinkStill
  BY DEF StreamInit, SinkInit, Engine, SinkStill
<1> QED
  BY <1>1, RadioBegins, DiscoveryBegins DEF StreamInit, StreamInv

LEMMA RadioKept ==
  ASSUME RadioInv, UNCHANGED radioVars
  PROVE  RadioInv'
  BY DEF radioVars, RadioInv

LEMMA DiscoveryKept ==
  ASSUME DiscoveryInv, UNCHANGED discoveryVars
  PROVE  DiscoveryInv'
  BY DEF discoveryVars, DiscoveryInv, DiscoveryTypes

LEMMA RadioStep ==
  ASSUME RadioInv, scene \in Scenes, ~scene.orphans,
         RadioAsks \/ (\E i \in Players : PlayerSteps(i)) \/ FetcherSteps \/ ServerSteps \/ BusSteps
  PROVE  RadioInv'
<1>1. ASSUME RadioAsks PROVE RadioInv'
  <2>1. \A url \in scene.urls : url \in Urls
    BY DEF Urls
  <2>2. ASSUME NEW late \in BOOLEAN,
               Stop(late) \/ (\E want \in BOOLEAN : SetPaused(want, late))
                          \/ (\E url \in scene.urls, i \in Players : Play(late, url, i))
        PROVE  RadioInv'
    BY <2>1, <2>2, RequestStep
  <2>3. CASE Status \/ RadiodStarts
    BY <2>3, QuietRequestStep
  <2>4. CASE (scene.orphans \/ \A i \in Players : p[i].st # "forked") /\ RadiodDies
    BY <2>4, DeathStep
  <2> QED
    BY <1>1, <2>2, <2>3, <2>4 DEF RadioAsks
<1>2. ASSUME NEW i \in Players, PlayerSteps(i) PROVE RadioInv'
  BY <1>2, PlayerStep DEF PlayerSteps
<1>3. ASSUME FetcherSteps PROVE RadioInv'
  BY <1>3, FetcherStep DEF FetcherSteps
<1>4. ASSUME ServerSteps PROVE RadioInv'
  BY <1>4, FetcherStep DEF ServerSteps
<1>5. ASSUME BusSteps PROVE RadioInv'
  BY <1>5, FetcherStep DEF BusSteps
<1> QED
  BY <1>1, <1>2, <1>3, <1>4, <1>5

LEMMA DiscoveryStep ==
  ASSUME DiscoveryInv, DiscoverySteps
  PROVE  DiscoveryInv'
<1>1. CASE \E k \in Owners : \/ Registers(k) \/ Receives(k) \/ Wants(k) \/ OwnerStarts(k)
                             \/ Withdraws(k) \/ OwnerDies(k)
  BY <1>1, OwnerStep
<1>2. CASE \/ \E msg \in {"none", "status"} : Visits(msg)
           \/ Accepts \/ \E i \in 1..Clients : Expires(i)
  BY <1>2, VisitorStep
<1>3. CASE \E i \in 1..Clients, links, unlinks \in BOOLEAN : Serves(i, links, unlinks)
  BY <1>3, ServeStep
<1>4. CASE \/ BusStarts \/ AvahiStarts \/ AvahiReads \/ MdnsdDies \/ (\E b \in BOOLEAN : ChildDies(b))
           \/ \E ok \in BOOLEAN : MdnsdExits(ok) \/ MdnsdStarts(ok)
  BY <1>4, DaemonStep
<1> QED
  BY <1>1, <1>2, <1>3, <1>4 DEF DiscoverySteps

LEMMA StreamStep ==
  ASSUME StreamInv, [StreamNext]_streamVars
  PROVE  StreamInv'
<1>1. CASE UNCHANGED streamVars
  <2>1. UNCHANGED radioVars /\ UNCHANGED discoveryVars /\ UNCHANGED sinkVars /\ scene' = scene
    BY <1>1 DEF streamVars
  <2> QED
    BY <2>1, RadioKept, DiscoveryKept DEF StreamInv, sinkVars, SinkStill
<1>2. CASE StreamNext
  <2>1. scene' = scene
    BY <1>2 DEF StreamNext, Kept
  <2>2. Part # "sendspin"
    BY DEF StreamInv, Part
  <2>3. CASE UNCHANGED <<sinkVars, discoveryVars>> /\ (RadioAsks \/ (\E i \in Players : PlayerSteps(i))
                                                        \/ FetcherSteps \/ ServerSteps \/ BusSteps)
    <3>1. UNCHANGED discoveryVars /\ UNCHANGED sinkVars
      BY <2>3
    <3>2. RadioInv'
      BY <2>3, RadioStep DEF StreamInv
    <3> QED
      BY <2>1, <3>1, <3>2, DiscoveryKept DEF StreamInv, sinkVars, SinkStill
  <2>4. CASE UNCHANGED <<radioVars, sinkVars>> /\ DiscoverySteps
    <3>1. UNCHANGED radioVars /\ UNCHANGED sinkVars
      BY <2>4
    <3>2. DiscoveryInv'
      BY <2>4, DiscoveryStep DEF StreamInv
    <3> QED
      BY <2>1, <3>1, <3>2, RadioKept DEF StreamInv, sinkVars, SinkStill
  <2> QED
    BY <1>2, <2>2, <2>3, <2>4 DEF StreamNext
<1> QED
  BY <1>1, <1>2

LEMMA StreamHolds ==
  ASSUME StreamInv
  PROVE  StreamsHonest
<1>1. /\ c.armed = FALSE /\ c.nextgen = 1 /\ c.gen = 0 /\ eng.heard = <<>>
  BY DEF StreamInv, SinkStill, Connected, CloseSocket, Companion
<1>2. SinkHonest
  BY <1>1 DEF SinkHonest, Shared
<1> QED
  BY <1>2, RadioHolds, DiscoveryHolds DEF StreamInv, StreamsHonest

(* Internet radio and discovery keep their promises whatever is asked of    *)
(* radiod, however its players get stuck, drop or are killed, whatever the  *)
(* fetcher finds and wherever the bus goes; and whoever registers, hangs up *)
(* or dies, however often files, avahi, its bus and mdnsd fail.  Left out   *)
(* are the scenes of the Sendspin bridge, whose promise a late refusal      *)
(* breaks, and those where radiod dies before its player watches it.        *)
THEOREM StreamsAlwaysHonest ==
  StreamSpec /\ scene.part # "sendspin" /\ ~scene.orphans => []StreamsHonest
<1>1. StreamInit /\ scene.part # "sendspin" /\ ~scene.orphans => StreamInv
  BY StreamBegins
<1>2. StreamInv /\ [StreamNext]_streamVars => StreamInv'
  BY StreamStep
<1>3. StreamInv => StreamsHonest
  BY StreamHolds
<1> QED
  BY <1>1, <1>2, <1>3, PTL DEF StreamSpec
=============================================================================
