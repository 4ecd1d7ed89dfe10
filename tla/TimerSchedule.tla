--------------------------- MODULE TimerSchedule ---------------------------
(***************************************************************************)
(* The rules of timer_schedule.c: what one slot of the timer table is, and *)
(* what adding, restoring, stepping, cancelling and dismissing do to it.   *)
(* The rules are pure: every operator takes the table and the two clocks   *)
(* and returns the new table, so that TimerDaemon can apply them from its  *)
(* main loop and from its command handlers.                                *)
(*                                                                         *)
(* Two clocks, as in the code: a countdown runs on the monotonic clock     *)
(* (`ms', in units of 1/MsPerSec second), an alarm on the wall clock       *)
(* (`epoch', in whole seconds).  The unit conversions are kept, with their *)
(* rounding: C division truncates toward zero.                             *)
(***************************************************************************)
EXTENDS Integers, FiniteSets

CONSTANTS
  MaxTimers,        \* LE_TIMER_MAX: slots of the table
  MsPerSec,         \* monotonic units per second (1000 in the code)
  RingSeconds,      \* LE_TIMER_RING_SECONDS
  MissGrace,        \* LE_TIMER_MISS_GRACE_SECONDS
  MaxSeconds,       \* LE_TIMER_MAX_SECONDS
  ClockValidEpoch,  \* LE_TIMER_CLOCK_VALID_EPOCH
  Labels,           \* labels a caller may give
  NoLabel           \* the empty label

ASSUME ScheduleAssumption ==
  /\ MaxTimers \in Nat \ {0}
  /\ MsPerSec \in Nat \ {0}
  /\ RingSeconds \in Nat \ {0}
  /\ MissGrace \in Nat
  /\ MaxSeconds \in Nat \ {0}
  /\ ClockValidEpoch \in Nat \ {0}
  /\ NoLabel \notin Labels

Slots == 1 .. MaxTimers
LabelOrNone == Labels \cup {NoLabel}
Kinds == {"countdown", "alarm"}

(***************************************************************************)
(* struct le_timer.  memset(timer, 0, ...) is what frees a slot.  `want'   *)
(* is not in the code: the true time at which the caller asked to be rung, *)
(* carried along so that properties can speak of it.                       *)
(***************************************************************************)
Timer == [state : {"free", "pending", "ringing"}, kind : Kinds, id : Nat,
          dueMs : Int, dueEpoch : Int, ringStart : Int, label : LabelOrNone,
          want : Int]

FreeTimer == [state |-> "free", kind |-> "countdown", id |-> 0, dueMs |-> 0,
              dueEpoch |-> 0, ringStart |-> 0, label |-> NoLabel, want |-> 0]

Pending(t) == t.state = "pending"
Ringing(t) == t.state = "ringing"
Live(t) == t.state # "free"

ClockValid(epoch) == epoch >= ClockValidEpoch

\* C's integer division: toward zero.
TruncDiv(a, b) == IF a >= 0 THEN a \div b ELSE - ((- a) \div b)

\* free_slot: the first free slot, none when the table is full.
FirstFree(tab, i) ==
  /\ i \in Slots
  /\ ~ Live(tab[i])
  /\ \A j \in Slots : j < i => Live(tab[j])

\* le_timer_find.
HasId(tab, id) == \E i \in Slots : Live(tab[i]) /\ tab[i].id = id

(***************************************************************************)
(* le_timer_add_countdown and le_timer_add_alarm: the checks in their      *)
(* order, and the slot they fill.                                          *)
(***************************************************************************)
CountdownAccepted(seconds) == seconds >= 1 /\ seconds <= MaxSeconds

NewCountdown(id, seconds, label, ms, want) ==
  [state |-> "pending", kind |-> "countdown", id |-> id,
   dueMs |-> ms + seconds * MsPerSec, dueEpoch |-> 0, ringStart |-> 0,
   label |-> label, want |-> want]

AlarmAccepted(due, epoch) == ClockValid(epoch) /\ due > epoch

NewAlarm(id, due, label, want) ==
  [state |-> "pending", kind |-> "alarm", id |-> id, dueMs |-> 0,
   dueEpoch |-> due, ringStart |-> 0, label |-> label, want |-> want]

(***************************************************************************)
(* restore_timer: the checks on a persisted record, and the slot it fills. *)
(* Both due fields are set, whatever the kind.                             *)
(***************************************************************************)
RestoreInRange(rec, epoch) ==
  LET delta == rec.due - epoch IN
  /\ ClockValid(epoch)
  /\ delta >= - MissGrace
  /\ rec.kind = "countdown" => delta <= MaxSeconds

\* Mutant of RestoreAccepted: the id is not looked up first.
BugRestoreAnyId(tab, rec, epoch) == RestoreInRange(rec, epoch)

RestoreAccepted(tab, rec, epoch) ==
  /\ RestoreInRange(rec, epoch)
  /\ rec.id # 0 => ~ HasId(tab, rec.id)

\* A record of an older format carries no id (0) and is given the next one.
RestoreId(rec, nextId) == IF rec.id = 0 THEN nextId ELSE rec.id

Restored(rec, id, ms, epoch) ==
  [state |-> "pending", kind |-> rec.kind, id |-> id,
   dueMs |-> ms + (rec.due - epoch) * MsPerSec, dueEpoch |-> rec.due,
   ringStart |-> 0, label |-> rec.label, want |-> rec.want]

\* next_id after a restore: past the id that was just used.
NextIdAfterRestore(nextId, id) == IF id >= nextId THEN id + 1 ELSE nextId

(***************************************************************************)
(* le_timer_step, one slot at a time.                                      *)
(***************************************************************************)
Due(t, ms, epoch) ==
  /\ Pending(t)
  /\ IF t.kind = "countdown" THEN ms >= t.dueMs
                             ELSE ClockValid(epoch) /\ epoch >= t.dueEpoch

\* Mutant of TooLate: the grace is off by one.
BugLateAtGrace(t, ms, epoch) ==
  MissGrace <= IF t.kind = "countdown" THEN TruncDiv(ms - t.dueMs, MsPerSec)
                                       ELSE epoch - t.dueEpoch

TooLate(t, ms, epoch) ==
  MissGrace < IF t.kind = "countdown" THEN TruncDiv(ms - t.dueMs, MsPerSec)
                                      ELSE epoch - t.dueEpoch

RingOver(t, ms) == Ringing(t) /\ ms - t.ringStart >= RingSeconds * MsPerSec

Missed(t, ms, epoch) == Due(t, ms, epoch) /\ TooLate(t, ms, epoch)
Fires(t, ms, epoch) == Due(t, ms, epoch) /\ ~ TooLate(t, ms, epoch)

StepTimer(t, ms, epoch) ==
  IF RingOver(t, ms) \/ Missed(t, ms, epoch)
    THEN FreeTimer
    ELSE IF Fires(t, ms, epoch)
      THEN [t EXCEPT !.state = "ringing", !.ringStart = ms]
      ELSE t

StepTable(tab, ms, epoch) == [i \in Slots |-> StepTimer(tab[i], ms, epoch)]

MissedCount(tab, ms, epoch) ==
  Cardinality({i \in Slots : Missed(tab[i], ms, epoch)})

(***************************************************************************)
(* le_timer_cancel, cancel_all, le_timer_dismiss, le_timer_dismiss_all:    *)
(* free the slots that a condition selects.                                *)
(***************************************************************************)
FreeSlots(tab, sel) == [i \in Slots |-> IF i \in sel THEN FreeTimer ELSE tab[i]]

PendingSlots(tab) == {i \in Slots : Pending(tab[i])}
RingingSlots(tab) == {i \in Slots : Ringing(tab[i])}
PendingWithId(tab, id) == {i \in PendingSlots(tab) : tab[i].id = id}
RingingWithId(tab, id) == {i \in RingingSlots(tab) : tab[i].id = id}
PendingWithLabel(tab, label) == {i \in PendingSlots(tab) : tab[i].label = label}

(***************************************************************************)
(* le_timer_poll_timeout_ms: the instants on the monotonic clock at which  *)
(* the schedule next needs the loop.  An alarm that an unset clock cannot  *)
(* judge contributes nothing.                                              *)
(***************************************************************************)
NotBefore(at, ms) == IF at < ms THEN ms ELSE at

ScheduleDeadlines(tab, ms, epoch) ==
  {NotBefore(tab[i].ringStart + RingSeconds * MsPerSec, ms) :
      i \in RingingSlots(tab)}
  \cup {NotBefore(tab[i].dueMs, ms) :
      i \in {j \in PendingSlots(tab) : tab[j].kind = "countdown"}}
  \cup {NotBefore(ms + (tab[i].dueEpoch - epoch) * MsPerSec, ms) :
      i \in {j \in PendingSlots(tab) :
               tab[j].kind = "alarm" /\ ClockValid(epoch)}}

(***************************************************************************)
(* A persisted record, one line of the state file: "v3 kind id due label". *)
(* A countdown is written as the wall-clock instant it will come due.      *)
(***************************************************************************)
Record == [kind : Kinds, id : Nat, due : Int, label : LabelOrNone, want : Int]

RecordOf(t, ms, epoch) ==
  [kind |-> t.kind, id |-> t.id, label |-> t.label, want |-> t.want,
   due |-> IF t.kind = "alarm" THEN t.dueEpoch
                               ELSE epoch + TruncDiv(t.dueMs - ms, MsPerSec)]
=============================================================================
