---------------------------- MODULE WatchdogService ----------------------------
(***************************************************************************)
(* The watchdog's loop seen by one service of its own: a pass probes it,   *)
(* asks the policy and, when told to, runs its init script, which takes    *)
(* time.  The service may answer or not at every probe; once it is broken  *)
(* it never answers again.                                                 *)
(***************************************************************************)
EXTENDS Integers, FiniteSets, WatchdogPolicy

CONSTANTS
    Interval,    \* --interval: the sleep between two passes
    InitTimes    \* how long "stop" and "start" of the init script may take

VARIABLES
    policy,   \* services[i].state
    broken,   \* the service will never answer again
    acted,    \* what the last pass did
    streak,   \* history: failed probes since the last answer or restart
    recent    \* history: ages of the restarts of the last StormWindow

TypeOK ==
    /\ policy \in Policy
    /\ broken \in BOOLEAN
    /\ acted \in {"none", "restart", "give_up"}
    /\ streak \in 0 .. FailuresBeforeRestart
    /\ recent \subseteq 0 .. StormWindow

Init ==
    /\ policy = FreshPolicy
    /\ broken = FALSE
    /\ acted = "none"
    /\ streak = 0
    /\ recent = {}

Breaks == ~broken /\ broken' = TRUE /\ UNCHANGED <<policy, acted, streak, recent>>

Older(ages, dt) == {a \in 0 .. StormWindow : a - dt \in ages}

\* One pass and the sleep after it.  Every call is given the time at which
\* the pass began.
Pass(answers, init) ==
    LET v == Step(policy, answers)
        restarts == v.action = "restart"
        dt == Interval + IF restarts THEN init ELSE 0
    IN  /\ answers => ~broken
        /\ policy' = Elapse(IF restarts THEN Restarted(v.policy)
                                        ELSE v.policy, dt)
        /\ acted' = v.action
        /\ streak' = IF answers \/ restarts THEN 0
                     ELSE AtMost(streak + 1, FailuresBeforeRestart)
        /\ recent' = Older(recent \cup (IF restarts THEN {0} ELSE {}), dt)
        /\ UNCHANGED broken

Loop == \E answers \in BOOLEAN, init \in InitTimes : Pass(answers, init)

Next == Breaks \/ Loop

----------------------------------------------------------------------------
\* A restart follows a full run of failed probes of its own: one blip, or
\* the failures that earned the last restart, never cause one
\* (le_watchdog_step, le_watchdog_restarted).
RestartEarned ==
    acted' = "restart" /\ policy'.restarts # policy.restarts =>
        streak >= FailuresBeforeRestart - 1

\* However the fixed storm windows fall, no stretch as long as one sees more
\* restarts than two windows allow, less the one that opened the first.
StormBounded == Cardinality(recent) <= 2 * StormRestarts - 1

\* A service that never answers again is given up rather than restarted for
\* ever.
GivesUp == broken ~> policy.givenUp

=============================================================================
