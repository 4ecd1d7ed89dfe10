---------------------------- MODULE WatchdogPolicy ----------------------------
(***************************************************************************)
(* The restart policy of watchdog_policy.c for one supervised service.     *)
(*                                                                         *)
(* The functions are operators on the fields of struct                     *)
(* le_watchdog_service.  Its three time stamps are kept relative to the    *)
(* time of the current pass, which is the "now" every call is given:       *)
(*   window   now - window_started_ms, no further than just past the storm *)
(*            window                                                       *)
(*   wait     next_attempt_ms - now, at least 0                            *)
(*   healthy  now - healthy_since_ms, at most HealthyReset; None when      *)
(*            healthy_since_ms is 0                                        *)
(* Elapse moves now.  The unit of time is a parameter of the instance.     *)
(***************************************************************************)
EXTENDS Integers

CONSTANTS
    FailuresBeforeRestart,   \* LE_WATCHDOG_FAILURES_BEFORE_RESTART
    BackoffStart,            \* LE_WATCHDOG_BACKOFF_START_MS
    BackoffMax,              \* LE_WATCHDOG_BACKOFF_MAX_MS
    StormRestarts,           \* LE_WATCHDOG_STORM_RESTARTS
    StormWindow,             \* LE_WATCHDOG_STORM_WINDOW_MS
    HealthyReset             \* LE_WATCHDOG_HEALTHY_RESET_MS

ASSUME PolicyAssumption ==
    /\ FailuresBeforeRestart \in Nat \ {0}
    /\ BackoffStart \in Nat \ {0} /\ BackoffMax \in Nat
    /\ BackoffStart <= BackoffMax
    /\ StormRestarts \in Nat \ {0}
    /\ StormWindow \in Nat \ {0} /\ HealthyReset \in Nat \ {0}

None == -1

Policy == [failures : 0 .. FailuresBeforeRestart,
           restarts : 0 .. StormRestarts,
           backoff  : BackoffStart .. BackoffMax,
           wait     : Nat,
           window   : 0 .. StormWindow + 1,
           healthy  : {None} \cup (0 .. HealthyReset),
           givenUp  : BOOLEAN]

AtMost(x, bound) == IF x > bound THEN bound ELSE x

\* le_watchdog_service_init
FreshPolicy ==
    [failures |-> 0, restarts |-> 0, backoff |-> BackoffStart, wait |-> 0,
     window |-> 0, healthy |-> 0, givenUp |-> FALSE]

\* dt passes between the "now" of two passes.
Elapse(p, dt) ==
    [p EXCEPT !.wait = IF @ > dt THEN @ - dt ELSE 0,
              !.window = AtMost(@ + dt, StormWindow + 1),
              !.healthy = IF @ = None THEN None
                          ELSE AtMost(@ + dt, HealthyReset)]

\* The healthy branch of le_watchdog_step, with forgive_if_settled.
BugForgiveAtOnce(p) ==
    [p EXCEPT !.failures = 0, !.healthy = IF @ = None THEN 0 ELSE @,
              !.restarts = 0, !.backoff = BackoffStart, !.window = 0]

Answered(p) ==
    LET q == [p EXCEPT !.failures = 0,
                       !.healthy = IF @ = None THEN 0 ELSE @]
    IN  IF q.healthy < HealthyReset THEN q
        ELSE [q EXCEPT !.restarts = 0, !.backoff = BackoffStart, !.window = 0]

\* The failure branch: one more failed probe, and a new storm window when the
\* old one is over and the failures call for a restart.
Unanswered(p) ==
    LET q == [p EXCEPT !.healthy = None,
                       !.failures = AtMost(@ + 1, FailuresBeforeRestart)]
    IN  IF q.failures < FailuresBeforeRestart \/ q.window <= StormWindow
          THEN q
          ELSE [q EXCEPT !.window = 0, !.restarts = 0]

Verdict(p, action) == [policy |-> p, action |-> action]

\* le_watchdog_step
Step(p, answers) ==
    LET q == Unanswered(p)
    IN  CASE p.givenUp -> Verdict(p, "give_up")
          [] ~p.givenUp /\ answers -> Verdict(Answered(p), "none")
          [] ~p.givenUp /\ ~answers ->
               IF q.failures < FailuresBeforeRestart THEN Verdict(q, "none")
               ELSE IF q.restarts >= StormRestarts
                 THEN Verdict([q EXCEPT !.givenUp = TRUE], "give_up")
               ELSE Verdict(q, IF q.wait > 0 THEN "none" ELSE "restart")

\* le_watchdog_restarted.  Mutant: the restart is not counted.
BugRestartNotCounted(p) ==
    [p EXCEPT !.window = 0, !.failures = 0, !.healthy = None,
              !.wait = p.backoff, !.backoff = AtMost(2 * @, BackoffMax)]

Restarted(p) ==
    [p EXCEPT !.window = IF p.restarts = 0 THEN 0 ELSE @,
              !.restarts = @ + 1, !.failures = 0, !.healthy = None,
              !.wait = p.backoff, !.backoff = AtMost(2 * @, BackoffMax)]

=============================================================================
