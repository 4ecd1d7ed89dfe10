------------------------------ MODULE MCTimers ------------------------------
(***************************************************************************)
(* The situations in which the timer daemon is explored.                   *)
(***************************************************************************)
EXTENDS TimerDaemon

CONSTANTS la, x1, x2

OneLabel == {la}
TwoRemotes == {x1, x2}

\* Nothing to do, nothing failing: what the situations below change.
Quiet == [durations |-> {}, alarms |-> {}, labels |-> {NoLabel},
          remotes |-> {}, legacy |-> {}, skews |-> {0}, faults |-> {},
          maxReal |-> 0, maxNextId |-> 3, maxStops |-> 1]

\* Two timers, both kinds, on a clock that is right once it is set.
Timing == [Quiet EXCEPT !.durations = {0, 1}, !.alarms = {1}, !.maxReal = 5]

\* Every failure of a load and a save, with the record of an older release.
Failing == [Quiet EXCEPT !.durations = {1}, !.legacy = {101},
                         !.maxReal = 2,
                         !.faults = {"open", "write", "backup", "rename",
                                     "finalize"}]

\* Home Assistant's timers beside a local one, on a clock that is stepped.
Mirroring == [Quiet EXCEPT !.durations = {1}, !.labels = {la, NoLabel},
                           !.remotes = {x1, x2}, !.skews = {0, 4},
                           !.maxReal = 6, !.maxNextId = 2, !.maxStops = 0]

Explored == {Timing, Failing, Mirroring}

\* For LoadDropsOnlyLate and for RingingNotSaved, which the code does not keep.
LongCountdown == {[Timing EXCEPT !.durations = {1, 2}, !.maxReal = 6]}
=============================================================================
