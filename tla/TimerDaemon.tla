---------------------------- MODULE TimerDaemon ----------------------------
(***************************************************************************)
(* timerd.c: the daemon that owns the timer table, rings, answers its      *)
(* clients and persists the schedule.                                      *)
(*                                                                         *)
(* One pass of main()'s loop is: load the state file if that is still to   *)
(* do and the wall clock is credible; step the schedule; play the ring     *)
(* cue, which may block on audiod; save if dirty; poll until a client      *)
(* speaks or the next deadline.  `phase' is where in that pass the daemon  *)
(* is.  Time passes only where the code can wait: in poll (no longer than  *)
(* its timeout), in the cue, and while the daemon is down.                 *)
(*                                                                         *)
(* The device has no battery-backed clock: after a boot the wall clock     *)
(* reads near zero until NTP sets it.  `real' is true time, which the      *)
(* code cannot see; wall time follows it, off by `skew', once synced.      *)
(***************************************************************************)
EXTENDS TimerSchedule

CONSTANTS
  PollCap,          \* POLL_CAP_MS
  RestoreRetry,     \* RESTORE_RETRY_MS
  RingPeriod,       \* RING_PERIOD_MS
  AudioBlock,       \* the longest audio_cue may block (AUDIO_TIMEOUT_MS)
  RemoteIds,        \* external ids Home Assistant may use
  RemoteMax,        \* REMOTE_TIMER_MAX
  Setups            \* the situations explored, see Setup

(***************************************************************************)
(* A situation: what clients may ask for, what the device may have been    *)
(* left with, what may fail, and the bounds of the exploration.            *)
(***************************************************************************)
Setup == [durations : SUBSET Int,     \* seconds a client may ask for
          alarms : SUBSET Int,        \* how far ahead an alarm may be set
          labels : SUBSET LabelOrNone,
          remotes : SUBSET RemoteIds, \* timers Home Assistant speaks of
          legacy : SUBSET Int,        \* due times of an older release's record
          skews : SUBSET Nat,         \* errors the set wall clock may have
          faults : SUBSET {"open", "write", "backup", "rename", "finalize"},
          maxReal : Nat,              \* bound: time units explored
          maxNextId : Nat,            \* bound: ids handed out
          maxStops : Nat]             \* bound: crashes, stops and reboots

ASSUME DaemonAssumption ==
  /\ PollCap \in Nat /\ RestoreRetry \in Nat /\ RingPeriod \in Nat
  /\ AudioBlock \in Nat /\ RemoteMax \in Nat
  /\ Setups \subseteq Setup

(***************************************************************************)
(* One cue is shorter than the grace (1 s of 61), and a wall clock that is *)
(* never set does not count up to a credible date by itself.               *)
(***************************************************************************)
ASSUME TimingAssumption ==
  /\ AudioBlock < (MissGrace + 1) * MsPerSec
  /\ \A s \in Setups : s.maxReal < ClockValidEpoch * MsPerSec

VARIABLES
  timers,           \* ctx->timers.timers: the slots
  nextId,           \* ctx->timers.next_id
  missed,           \* ctx->timers.missed
  remote,           \* ctx->remote_timers, by external id
  nextRing,         \* ctx->next_ring_ms
  dirty,            \* ctx->dirty
  loaded,           \* ctx->state_loaded
  commitPending,    \* ctx->state_commit_pending
  phase,            \* where in the main loop the daemon is
  loadFrom,         \* the phase a load returns to
  cursor,           \* the next line of the state file to load
  deadline,         \* instant the blocking call in progress returns at latest
  mono,             \* CLOCK_MONOTONIC
  real,             \* true time since the run began
  synced,           \* the wall clock has been set since boot
  skew,             \* error of the wall clock
  file,             \* the state file
  survivors,        \* contents the state file may have after a power loss
  stops,            \* crashes, stops and reboots so far
  setup             \* the situation explored

schedule == <<timers, nextId, missed>>
ctx == <<nextRing, dirty, loaded, commitPending>>
clocks == <<mono, real, synced, skew>>
disk == <<file, survivors>>
vars == <<timers, nextId, missed, remote, nextRing, dirty, loaded,
          commitPending, phase, loadFrom, cursor, deadline, mono, real, synced,
          skew, file, survivors, stops, setup>>

Phases == {"top", "load", "step", "cue", "save", "poll", "serve", "exit", "gone",
           "down"}

(***************************************************************************)
(* The clocks as the code reads them: monotonic_ms() and wall_epoch().     *)
(***************************************************************************)
WallMs == IF synced THEN ClockValidEpoch * MsPerSec + real + skew ELSE mono
Epoch == WallMs \div MsPerSec

\* The true time at which a correct wall clock reads `epoch'.
TrueTime(epoch) == (epoch - ClockValidEpoch) * MsPerSec

(***************************************************************************)
(* A remote timer: Home Assistant owns its expiry, the daemon only mirrors *)
(* the state and rings.                                                    *)
(***************************************************************************)
RemoteTimer == [state : {"free", "pending", "ringing"}, active : BOOLEAN,
                ringStart : Int]
NoRemote == [state |-> "free", active |-> FALSE, ringStart |-> 0]

RemoteLive(tab) == {x \in RemoteIds : tab[x].state # "free"}
RemoteRinging(tab) == {x \in RemoteIds : tab[x].state = "ringing"}

\* remote_ring_expire.
RemoteExpired(tab, ms) ==
  [x \in RemoteIds |->
     IF /\ tab[x].state = "ringing"
        /\ ms - tab[x].ringStart >= RingSeconds * MsPerSec
     THEN NoRemote ELSE tab[x]]

\* ringing_count > 0.
AnyRinging(tab, rem) == RingingSlots(tab) # {} \/ RemoteRinging(rem) # {}

(***************************************************************************)
(* The state file: absent, or one line per pending timer, in slot order.   *)
(***************************************************************************)
NoFile == <<>>
NoLine == [kind |-> "none"]
IsFile(f) == f # NoFile
Snapshot(tab, ms, epoch) ==
  [i \in Slots |-> IF Pending(tab[i]) THEN RecordOf(tab[i], ms, epoch)
                                      ELSE NoLine]
\* A v2 line: a countdown with no id.
LegacyFile(due) ==
  [i \in Slots |->
     IF i = 1 THEN [kind |-> "countdown", id |-> 0, due |-> due,
                    label |-> NoLabel, want |-> TrueTime(due)]
              ELSE NoLine]
LinesOf(f) == {f[i] : i \in {j \in Slots : IsFile(f) /\ f[j] # NoLine}}

-----------------------------------------------------------------------------
\* What the process holds when it starts, and what is lost when it dies.
FreshContext ==
  /\ timers' = [i \in Slots |-> FreeTimer]
  /\ nextId' = 1
  /\ missed' = 0
  /\ remote' = [x \in RemoteIds |-> NoRemote]
  /\ nextRing' = 0
  /\ dirty' = FALSE
  /\ loaded' = FALSE
  /\ commitPending' = FALSE
  /\ loadFrom' = "top"
  /\ cursor' = 1
  /\ deadline' = 0

\* main(): a boot with no state file yet, or with one of an older release.
Init ==
  /\ setup \in Setups
  /\ timers = [i \in Slots |-> FreeTimer]
  /\ nextId = 1
  /\ missed = 0
  /\ remote = [x \in RemoteIds |-> NoRemote]
  /\ nextRing = 0
  /\ dirty = FALSE
  /\ loaded = FALSE
  /\ commitPending = FALSE
  /\ phase = "top"
  /\ loadFrom = "top"
  /\ cursor = 1
  /\ deadline = 0
  /\ mono = 0
  /\ real = 0
  /\ synced = FALSE
  /\ skew = 0
  /\ file \in {NoFile} \cup {LegacyFile(d) : d \in setup.legacy}
  /\ survivors = {file}
  /\ stops = 0

-----------------------------------------------------------------------------
(***************************************************************************)
(* The loop's top, and state_load_at line by line.  fopen failing, for any *)
(* reason, counts as loaded.                                               *)
(***************************************************************************)
StartLoad(from) ==
  /\ phase' = "load"
  /\ loadFrom' = from
  /\ cursor' = 1

LoopTop ==
  /\ phase = "top"
  /\ IF ~ loaded /\ ClockValid(Epoch)
       THEN StartLoad("step")
       ELSE phase' = "step" /\ UNCHANGED <<loadFrom, cursor>>
  /\ UNCHANGED <<schedule, remote, ctx, deadline, clocks, disk, stops>>

LoadDone ==
  /\ loaded' = TRUE
  /\ phase' = loadFrom
  /\ loadFrom' = "top"
  /\ cursor' = 1
  /\ UNCHANGED <<schedule, remote, nextRing, dirty, commitPending, deadline,
                 clocks, disk, stops>>

LoadNoFile ==
  /\ phase = "load" /\ cursor = 1
  /\ ~ IsFile(file) \/ "open" \in setup.faults
  /\ LoadDone

LoadSkip ==
  /\ phase = "load" /\ IsFile(file) /\ cursor \in Slots
  /\ file[cursor] = NoLine
  /\ cursor' = cursor + 1
  /\ UNCHANGED <<schedule, remote, ctx, phase, loadFrom, deadline, clocks,
                 disk, stops>>

LoadLine ==
  /\ phase = "load" /\ IsFile(file) /\ cursor \in Slots
  /\ file[cursor] # NoLine
  /\ cursor' = cursor + 1
  /\ LET rec == file[cursor]
         id == RestoreId(rec, nextId) IN
     \/ \E i \in Slots :
          /\ RestoreAccepted(timers, rec, Epoch)
          /\ FirstFree(timers, i)
          /\ timers' = [timers EXCEPT ![i] = Restored(rec, id, mono, Epoch)]
          /\ nextId' = NextIdAfterRestore(nextId, id)
          /\ UNCHANGED missed
     \/ /\ \/ ~ RestoreAccepted(timers, rec, Epoch)
           \/ \A i \in Slots : Live(timers[i])
        /\ missed' = missed + 1
        /\ UNCHANGED <<timers, nextId>>
  /\ UNCHANGED <<remote, ctx, phase, loadFrom, deadline, clocks, disk, stops>>

LoadEnd ==
  /\ phase = "load" /\ IsFile(file) /\ cursor \notin Slots
  /\ LoadDone

(***************************************************************************)
(* le_timer_step, then ring_tick up to the cue.                            *)
(***************************************************************************)
Step ==
  /\ phase = "step"
  /\ LET fired == \E i \in Slots : Fires(timers[i], mono, Epoch)
         tab == StepTable(timers, mono, Epoch)
         rem == RemoteExpired(remote, mono)
         due == IF fired THEN 0 ELSE nextRing
         cue == AnyRinging(tab, rem) /\ mono >= due IN
     /\ timers' = tab
     /\ missed' = missed + MissedCount(timers, mono, Epoch)
     /\ dirty' = (dirty \/ fired)
     /\ remote' = rem
     /\ nextRing' = IF AnyRinging(tab, rem) THEN due ELSE 0
     /\ phase' = IF cue THEN "cue" ELSE "save"
     /\ deadline' = IF cue THEN mono + AudioBlock ELSE 0
  /\ UNCHANGED <<nextId, loaded, commitPending, loadFrom, cursor, clocks, disk,
                 stops>>

\* audio_cue returns: played, refused or timed out, the daemon goes on alike.
CueDone ==
  /\ phase = "cue"
  /\ nextRing' = mono + RingPeriod
  /\ phase' = "save"
  /\ deadline' = 0
  /\ UNCHANGED <<schedule, remote, dirty, loaded, commitPending, loadFrom,
                 cursor, clocks, disk, stops>>

-----------------------------------------------------------------------------
(***************************************************************************)
(* poll's timeout: an instant that none of the deadlines precedes.         *)
(***************************************************************************)
PollDeadlines ==
  ScheduleDeadlines(timers, mono, Epoch)
  \cup {mono + PollCap}
  \cup {NotBefore(remote[x].ringStart + RingSeconds * MsPerSec, mono) :
          x \in RemoteRinging(remote)}
  \cup (IF loaded THEN {} ELSE {mono + RestoreRetry})
  \cup (IF AnyRinging(timers, remote) THEN {NotBefore(nextRing, mono)} ELSE {})

EnterPoll ==
  \E d \in PollDeadlines :
    /\ \A e \in PollDeadlines : d <= e
    /\ deadline' = d
    /\ phase' = "poll"

(***************************************************************************)
(* state_save_at, by how far it gets.  The temporary file is written and   *)
(* synced; the current file is linked as the backup, which also syncs the  *)
(* directory, unless its own commit is still pending; rename is the commit *)
(* point; the last directory sync makes it durable.  Nothing ever reads    *)
(* the backup, so its content is left out.                                 *)
(***************************************************************************)
SaveAllowed == loaded /\ ClockValid(Epoch)

NeedsBackup == ~ commitPending /\ IsFile(file)
AfterBackup == IF NeedsBackup THEN {file} ELSE survivors

SaveNotWritten ==
  /\ \/ ~ SaveAllowed
     \/ "write" \in setup.faults
     \/ NeedsBackup /\ "backup" \in setup.faults
  /\ UNCHANGED <<file, survivors, commitPending>>

SaveNotRenamed ==
  /\ SaveAllowed /\ "rename" \in setup.faults
  /\ survivors' = AfterBackup
  /\ UNCHANGED <<file, commitPending>>

SaveNotDurable ==
  /\ SaveAllowed /\ "finalize" \in setup.faults
  /\ file' = Snapshot(timers, mono, Epoch)
  /\ survivors' = AfterBackup \cup {file'}
  /\ commitPending' = TRUE

SaveOk ==
  /\ SaveAllowed
  /\ file' = Snapshot(timers, mono, Epoch)
  /\ survivors' = {file'}
  /\ commitPending' = FALSE

SaveFailed == SaveNotWritten \/ SaveNotRenamed \/ SaveNotDurable

\* save_if_dirty, then the entry to poll.
NothingToSave ==
  /\ phase = "save" /\ ~ dirty
  /\ EnterPoll
  /\ UNCHANGED <<schedule, remote, ctx, loadFrom, cursor, clocks, disk, stops>>

\* Every save path completes the deferred restoration first.
LoadBeforeSave ==
  /\ phase = "save" /\ dirty
  /\ ~ loaded /\ ClockValid(Epoch)
  /\ StartLoad("save")
  /\ UNCHANGED <<schedule, remote, ctx, deadline, clocks, disk, stops>>

\* Mutant of SaveIfDirty: a failed save counts as done.
BugSaveForgets ==
  /\ phase = "save" /\ dirty
  /\ loaded \/ ~ ClockValid(Epoch)
  /\ SaveOk \/ SaveFailed
  /\ dirty' = FALSE
  /\ EnterPoll
  /\ UNCHANGED <<schedule, remote, nextRing, loaded, loadFrom, cursor, clocks,
                 stops>>

SaveIfDirty ==
  /\ phase = "save" /\ dirty
  /\ loaded \/ ~ ClockValid(Epoch)
  /\ \/ SaveOk /\ dirty' = FALSE
     \/ SaveFailed /\ UNCHANGED dirty
  /\ EnterPoll
  /\ UNCHANGED <<schedule, remote, nextRing, loaded, loadFrom, cursor, clocks,
                 stops>>

-----------------------------------------------------------------------------
(***************************************************************************)
(* Clients.  poll returns early for a request; several may be served in    *)
(* one pass, after which, or after the timeout, the loop starts over.      *)
(***************************************************************************)
CanServe == phase \in {"poll", "serve"}

Served ==
  /\ CanServe
  /\ phase' = "serve"
  /\ deadline' = 0
  /\ UNCHANGED <<loaded, commitPending, loadFrom, cursor, clocks, disk, stops>>

LoopAgain ==
  /\ \/ phase = "poll" /\ mono >= deadline
     \/ phase = "serve"
  /\ phase' = "top"
  /\ deadline' = 0
  /\ UNCHANGED <<schedule, remote, ctx, loadFrom, cursor, clocks, disk, stops>>

AddCountdown(seconds, label) ==
  /\ CountdownAccepted(seconds)
  /\ nextId < setup.maxNextId
  /\ \E i \in Slots :
       /\ FirstFree(timers, i)
       /\ timers' = [timers EXCEPT
                       ![i] = NewCountdown(nextId, seconds, label, mono,
                                           real + seconds * MsPerSec)]
  /\ nextId' = nextId + 1
  /\ dirty' = TRUE
  /\ Served
  /\ UNCHANGED <<missed, remote, nextRing>>

AddAlarm(due, label) ==
  /\ AlarmAccepted(due, Epoch)
  /\ nextId < setup.maxNextId
  /\ \E i \in Slots :
       /\ FirstFree(timers, i)
       /\ timers' = [timers EXCEPT
                       ![i] = NewAlarm(nextId, due, label, TrueTime(due))]
  /\ nextId' = nextId + 1
  /\ dirty' = TRUE
  /\ Served
  /\ UNCHANGED <<missed, remote, nextRing>>

\* Free the selected slots; the schedule is dirty only if there were any.
Release(tab, sel) ==
  /\ timers' = FreeSlots(tab, sel)
  /\ dirty' = (dirty \/ sel # {})

CancelAll ==
  /\ Release(timers, PendingSlots(timers))
  /\ Served
  /\ UNCHANGED <<nextId, missed, remote, nextRing>>

\* le_timer_cancel_at: step the whole table, then cancel what still waits.
CancelAt(id) ==
  LET tab == StepTable(timers, mono, Epoch) IN
  /\ Release(tab, PendingWithId(tab, id))
  /\ missed' = missed + MissedCount(timers, mono, Epoch)
  /\ Served
  /\ UNCHANGED <<nextId, remote, nextRing>>

CancelLabel(label) ==
  \E i \in Slots :
    /\ PendingWithLabel(timers, label) = {i}
    /\ CancelAt(timers[i].id)

DismissId(id) ==
  /\ Release(timers, RingingWithId(timers, id))
  /\ Served
  /\ UNCHANGED <<nextId, missed, remote, nextRing>>

DismissAll ==
  LET sel == RingingSlots(timers)
      rem == RemoteRinging(remote) IN
  /\ timers' = FreeSlots(timers, sel)
  /\ remote' = [x \in RemoteIds |-> IF x \in rem THEN NoRemote ELSE remote[x]]
  /\ dirty' = (dirty \/ sel # {} \/ rem # {})
  /\ Served
  /\ UNCHANGED <<nextId, missed, nextRing>>

-----------------------------------------------------------------------------
(***************************************************************************)
(* remote_event: STARTED, UPDATED, CANCELLED, FINISHED; remote_clear.      *)
(***************************************************************************)
RemoteSet(x, v) ==
  /\ remote' = [remote EXCEPT ![x] = v]
  /\ Served
  /\ UNCHANGED <<schedule, dirty>>

RemotePending(active) ==
  [state |-> "pending", active |-> active, ringStart |-> 0]

RemoteStarted(x, active) ==
  /\ \/ remote[x].state # "free"
     \/ Cardinality(RemoteLive(remote)) < RemoteMax
  /\ RemoteSet(x, RemotePending(active))
  /\ UNCHANGED nextRing

RemoteUpdated(x, active) ==
  /\ remote[x].state # "free"
  /\ RemoteSet(x, IF remote[x].state = "ringing"
                    THEN [remote[x] EXCEPT !.active = FALSE]
                    ELSE RemotePending(active))
  /\ UNCHANGED nextRing

RemoteCancelled(x) ==
  /\ remote[x].state # "free"
  /\ RemoteSet(x, NoRemote)
  /\ UNCHANGED nextRing

\* Mutant of RemoteFinished: a repeated FINISHED restarts the ring.
BugFinishedRestarts(x) ==
  /\ remote[x].state # "free"
  /\ RemoteSet(x, [state |-> "ringing", active |-> FALSE, ringStart |-> mono])
  /\ nextRing' = 0

RemoteFinished(x) ==
  /\ remote[x].state # "free"
  /\ LET again == remote[x].state = "ringing" IN
     /\ RemoteSet(x, [state |-> "ringing", active |-> FALSE,
                      ringStart |-> IF again THEN remote[x].ringStart
                                             ELSE mono])
     /\ nextRing' = IF again THEN nextRing ELSE 0

RemoteClear ==
  /\ remote' = [x \in RemoteIds |-> NoRemote]
  /\ Served
  /\ UNCHANGED <<schedule, dirty, nextRing>>

-----------------------------------------------------------------------------
(***************************************************************************)
(* The end of the daemon, and its return.  SIGTERM leaves the loop and     *)
(* saves unconditionally; a crash saves nothing; the supervisor starts it  *)
(* again on the same boot, or the device loses power and boots.            *)
(***************************************************************************)
Terminate ==
  /\ phase \in {"top", "poll"}
  /\ stops < setup.maxStops
  /\ stops' = stops + 1
  /\ deadline' = 0
  /\ IF ~ loaded /\ ClockValid(Epoch)
       THEN StartLoad("exit")
       ELSE phase' = "exit" /\ UNCHANGED <<loadFrom, cursor>>
  /\ UNCHANGED <<schedule, remote, ctx, clocks, disk>>

SaveOnExit ==
  /\ phase = "exit"
  /\ \/ SaveOk
     \/ SaveFailed
  /\ phase' = "gone"
  /\ UNCHANGED <<schedule, remote, nextRing, dirty, loaded, loadFrom, cursor,
                 deadline, clocks, stops>>

Exited ==
  /\ phase = "gone"
  /\ phase' = "down"
  /\ FreshContext
  /\ UNCHANGED <<clocks, disk, stops>>

Crash ==
  /\ phase # "down"
  /\ stops < setup.maxStops
  /\ stops' = stops + 1
  /\ phase' = "down"
  /\ FreshContext
  /\ UNCHANGED <<clocks, disk>>

Restart ==
  /\ phase = "down"
  /\ phase' = "top"
  /\ UNCHANGED <<schedule, remote, ctx, loadFrom, cursor, deadline, clocks,
                 disk, stops>>

PowerCycle ==
  /\ stops < setup.maxStops \/ phase = "down"
  /\ stops' = IF phase = "down" THEN stops ELSE stops + 1
  /\ phase' = "top"
  /\ FreshContext
  /\ mono' = 0
  /\ synced' = FALSE
  /\ file' \in survivors
  /\ survivors' = {file'}
  /\ UNCHANGED <<real, skew>>

-----------------------------------------------------------------------------
(***************************************************************************)
(* The environment: time, NTP.                                             *)
(***************************************************************************)
Waiting ==
  \/ phase \in {"poll", "cue"} /\ mono < deadline
  \/ phase = "down"

Tick ==
  /\ Waiting
  /\ real < setup.maxReal
  /\ real' = real + 1
  /\ mono' = mono + 1
  /\ UNCHANGED <<schedule, remote, ctx, phase, loadFrom, cursor, deadline,
                 synced, skew, disk, stops>>

ClockSet(k) ==
  /\ Waiting
  /\ ~ synced \/ skew # k
  /\ synced' = TRUE
  /\ skew' = k
  /\ UNCHANGED <<schedule, remote, ctx, phase, loadFrom, cursor, deadline,
                 mono, real, disk, stops>>

-----------------------------------------------------------------------------
LoadSteps == LoadNoFile \/ LoadSkip \/ LoadLine \/ LoadEnd

Loop == LoopTop \/ LoadSteps \/ Step \/ CueDone \/ NothingToSave
        \/ LoadBeforeSave \/ SaveIfDirty \/ LoopAgain \/ SaveOnExit
        \/ Exited

LocalRequest ==
  \/ \E s \in setup.durations, l \in setup.labels : AddCountdown(s, l)
  \/ \E s \in setup.alarms, l \in setup.labels : AddAlarm(Epoch + s, l)
  \/ CancelAll
  \/ \E id \in 1 .. setup.maxNextId : CancelAt(id)
  \/ \E l \in setup.labels \ {NoLabel} : CancelLabel(l)
  \/ \E id \in 1 .. setup.maxNextId : DismissId(id)
  \/ DismissAll

RemoteRequest ==
  \/ \E x \in setup.remotes, a \in BOOLEAN : RemoteStarted(x, a) \/ RemoteUpdated(x, a)
  \/ \E x \in setup.remotes : RemoteCancelled(x) \/ RemoteFinished(x)
  \/ RemoteClear

Environment ==
  \/ Terminate \/ Crash \/ Restart \/ PowerCycle
  \/ Tick
  \/ \E k \in setup.skews : ClockSet(k)

Next ==
  /\ Loop \/ LocalRequest \/ RemoteRequest \/ Environment
  /\ UNCHANGED setup

Spec == Init /\ [][Next]_vars

\* The main loop keeps running: it waits on nothing but poll and the cue.
FairSpec == Spec /\ WF_vars(Loop /\ UNCHANGED setup)

-----------------------------------------------------------------------------
FileType == {NoFile} \cup [Slots -> Record \cup {NoLine}]

\* Types of the daemon's context, its clocks and its file.
TypeOK ==
  /\ timers \in [Slots -> Timer]
  /\ nextId \in Nat /\ missed \in Nat
  /\ remote \in [RemoteIds -> RemoteTimer]
  /\ nextRing \in Nat
  /\ dirty \in BOOLEAN /\ loaded \in BOOLEAN /\ commitPending \in BOOLEAN
  /\ phase \in Phases /\ loadFrom \in {"top", "step", "save", "exit"}
  /\ cursor \in Nat /\ deadline \in Int
  /\ mono \in Nat /\ real \in Nat /\ synced \in BOOLEAN /\ skew \in Nat
  /\ file \in FileType
  /\ survivors \in SUBSET FileType
  /\ stops \in Nat
  /\ setup \in Setups

Running == phase # "down"

\* An id names at most one timer, and is never handed out while it still
\* names one: le_timer_cancel and le_timer_dismiss act on the first match, so
\* a shared id would silence the wrong timer.  Restored records keep their
\* ids, whatever was added before the restore (restore_timer).
IdsUnique ==
  /\ \A i \in Slots : Live(timers[i]) => timers[i].id \in 1 .. nextId - 1
  /\ \A i, j \in Slots :
       Live(timers[i]) /\ Live(timers[j]) /\ timers[i].id = timers[j].id => i = j

\* While the daemon runs no countdown is dropped as missed, whatever the wall
\* clock does and however long a cue blocks: poll's timeout and the grace of
\* too_late leave enough room.
CountdownNeverMissed ==
  phase = "step" =>
    \A i \in Slots : timers[i].kind = "countdown" => ~ Missed(timers[i], mono, Epoch)

\* The same of alarms, as long as a synchronised clock is never stepped.
AlarmNeverMissed ==
  phase = "step" /\ setup.skews = {0} =>
    \A i \in Slots : timers[i].kind = "alarm" => ~ Missed(timers[i], mono, Epoch)

\* A ring ends by itself: no timer, local or remote, rings longer than
\* LE_TIMER_RING_SECONDS and one blocked cue, whatever events Home Assistant
\* repeats (le_timer_step, remote_ring_expire, poll's timeout).
RingBounded ==
  Running =>
    /\ \A i \in RingingSlots(timers) :
         mono - timers[i].ringStart <= RingSeconds * MsPerSec + AudioBlock
    /\ \A x \in RemoteRinging(remote) :
         mono - remote[x].ringStart <= RingSeconds * MsPerSec + AudioBlock

\* A ring that goes on keeps its start: a repeated FINISHED, a late UPDATED or
\* another pass of the loop never extends it (remote_event, le_timer_step).
RingNotExtended ==
  [][/\ \A i \in RingingSlots(timers) \cap RingingSlots(timers') :
          timers[i].id = timers'[i].id => timers'[i].ringStart = timers[i].ringStart
     /\ \A x \in RemoteRinging(remote) \cap RemoteRinging(remote') :
          remote'[x].ringStart = remote[x].ringStart]_vars

\* With a clock that is right once set, a timer never rings before the time
\* asked for, except that each save-and-restore may round two seconds down.
NotEarly ==
  phase = "step" /\ setup.skews = {0} =>
    \A i \in Slots : Fires(timers[i], mono, Epoch) =>
      real >= timers[i].want - 2 * (MsPerSec - 1) * stops

\* Line r of the state file stands for pending timer t.
Stands(r, t) ==
  /\ r.kind = t.kind /\ r.id \in {t.id, 0} /\ r.label = t.label
  /\ r.want = t.want
  /\ t.kind = "alarm" => r.due = t.dueEpoch

\* A daemon that sleeps with nothing to save has every pending timer in the
\* state file: a crash of the process loses none of them.
CleanMeansSaved ==
  phase = "poll" /\ loaded /\ ~ dirty =>
    \A i \in PendingSlots(timers) : \E r \in LinesOf(file) : Stands(r, timers[i])

\* The same of every content a power loss may leave, before the first stop:
\* dirty is cleared only after the directory sync
\* (STATE_SAVE_COMMITTED_DURABILITY_FAILED).  A daemon that was killed between
\* rename and sync comes back without the knowledge that a sync is owed.
CleanMeansDurable ==
  phase = "poll" /\ loaded /\ ~ dirty /\ stops = 0 =>
    \A i \in PendingSlots(timers) : \A f \in survivors :
      \E r \in LinesOf(f) : Stands(r, timers[i])

\* The loop never spins: it always comes back to a state in which it sleeps
\* (or blocks on audiod), so a zero poll timeout never repeats by itself.
NoBusyLoop == []<>Waiting

\* Timers ring when they should: none is missed while the daemon runs, none
\* rings before its time, and every ring ends, whatever the wall clock does
\* and however long audiod blocks a cue.
RingsInTime == CountdownNeverMissed /\ AlarmNeverMissed /\ NotEarly /\ RingBounded

\* A clean schedule survives: a crash or a power loss of a daemon that has
\* nothing to save loses no pending timer, whichever step of an earlier save
\* failed.
SchedulePersisted == CleanMeansSaved /\ CleanMeansDurable

\* The loop neither spins nor prolongs a ring.
LoopSettles == NoBusyLoop /\ RingNotExtended

\* timerd.c: "A ringing timer is not saved: it has already gone off, and
\* coming back from a reboot still ringing would be a surprise".  A daemon
\* that sleeps with nothing to save has no ringing timer in its state file.
RingingNotSaved ==
  phase = "poll" /\ loaded /\ ~ dirty =>
    \A i \in RingingSlots(timers) : \A r \in LinesOf(file) : r.id # timers[i].id

\* timer_schedule.h, `missed': "Timers that came due while the device was
\* down or the clock was wrong".  Loading drops, and counts as missed, only a
\* record whose time has passed.
LoadDropsOnlyLate ==
  [][missed' > missed /\ phase = "load" => file[cursor].due <= Epoch]_vars
=============================================================================
