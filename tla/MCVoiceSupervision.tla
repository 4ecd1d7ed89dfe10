-------------------------- MODULE MCVoiceSupervision --------------------------
(***************************************************************************)
(* The setups in which TLC explores VoiceSupervision.                      *)
(***************************************************************************)
EXTENDS VoiceSupervision

\* The two owners and the worker alone: every roll-back, three selections.
Switching ==
    [present |-> {"sttd", "agentd", "esphomed"}, pass |-> {1},
     faults |-> {"stop", "start", "fork"}, faultMax |-> 2, switchMax |-> 3,
     sameOwner |-> TRUE, watching |-> FALSE, alone |-> FALSE]

\* One selection beside the watchdog.
Watched ==
    [Switching EXCEPT !.pass = {1, 2}, !.faultMax = 1, !.switchMax = 1,
                      !.faults = {"read", "persist", "fork", "term"},
                      !.sameOwner = FALSE, !.watching = TRUE]

\* The capture group, with daemons that die or hang and scripts that fail.
Capturing ==
    [Switching EXCEPT !.present = {"micd", "waked"}, !.watching = TRUE,
                      !.faults = {"die", "wedge", "start", "stop", "term"},
                      !.faultMax = 3, !.switchMax = 0, !.sameOwner = FALSE]

\* One service that answers or fails in any order, on the longer time scale.
Storming == [Switching EXCEPT !.present = {"esphomed"}, !.alone = TRUE]
LongStorm == [backoffMax |-> 3, restarts |-> 3, window |-> 12, reset |-> 14,
              scripts |-> {0, 1}]

Explored == {Switching, Watched, Capturing, Storming}

(***************************************************************************)
(* Scenes in which the code departs from what its documents say; README.md *)
(* names the property that each of them violates.                          *)
(***************************************************************************)
Undisturbed == [Watched EXCEPT !.pass = {1}, !.faults = {}, !.faultMax = 0]

\* The owner switches away and back beside the watchdog: VoiceExclusive.
SwitchedBack == {[Undisturbed EXCEPT !.switchMax = 2]}

\* A selection that keeps the owner (local, custom): NoStartRace.
SameOwnerAgain == {[Undisturbed EXCEPT !.sameOwner = TRUE]}

\* Init scripts of 90 s under the code's own limits, in units of 5 s, explored
\* with the scene Storming alone: GivesUp, as part of SupervisionSettles.
SlowScripts == [backoffMax |-> 6, restarts |-> 5, window |-> 60, reset |-> 120,
                scripts |-> {18}]
StormOnly == {Storming}

\* A roll-back whose save fails: IntentSaved.
UnsavedRollback ==
    {[Undisturbed EXCEPT !.faults = {"stop", "persist"}, !.faultMax = 2,
                         !.switchMax = 2, !.watching = FALSE]}

=============================================================================
