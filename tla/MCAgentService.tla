--------------------------- MODULE MCAgentService ---------------------------
(* Bounded conversations with agentd. *)
EXTENDS AgentService

Base == [part |-> "talk", turns |-> 2, wakes |-> 1, kinds |-> {"tell"}, calls |-> 0, clears |-> 0,
         settings |-> 0, faults |-> 0, segments |-> {1}, phone |-> FALSE]
Explored ==
  { [Base EXCEPT !.turns = 3, !.wakes = 3, !.kinds = {"ask", "tell", "stop"}, !.segments = {2}],
    [Base EXCEPT !.wakes = 2, !.kinds = Kinds, !.faults = 1],
    [Base EXCEPT !.wakes = 2, !.kinds = {"ask", "timer"}, !.clears = 2],
    [Base EXCEPT !.kinds = {"tell", "stop", "timer"}, !.calls = 1, !.phone = TRUE],
    [Base EXCEPT !.wakes = 2, !.settings = 2, !.faults = 1],
    [Base EXCEPT !.segments = {3}, !.faults = 1],
    [Base EXCEPT !.part = "log"], [Base EXCEPT !.part = "stream"] }
(* A wake word and "stop" arrive while a follow-up is already asked for. *)
Interrupted == { [Base EXCEPT !.turns = 3, !.wakes = 2, !.kinds = {"ask", "stop"}] }
=============================================================================
