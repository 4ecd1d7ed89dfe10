------------------------- MODULE MCBluetoothService -------------------------
(* Bounded environments for btd. *)
EXTENDS BluetoothService

Still == [part |-> "controller", on |-> TRUE, phones |-> {}, room |-> 3, events |-> {},
          asks |-> {}, crashes |-> 0, faults |-> 0, requests |-> 0,
          moves |-> 0, callers |-> {"p"}, sliders |-> {}, levels |-> {}]
Bonds == [Still EXCEPT !.phones = {"p", "q"}, !.events = {"connected", "disconnected", "key"},
            !.asks = {"unpair"}, !.requests = 2]
Window == [Still EXCEPT !.asks = {"open", "shut", "set", "disable", "status"}, !.requests = 3]
Phoned == [Still EXCEPT !.part = "volume", !.moves = 3, !.sliders = {0, 37, 127},
             !.levels = {0, 50, 99}]
Explored ==
  { [Bonds EXCEPT !.crashes = 2], [Bonds EXCEPT !.faults = 1, !.crashes = 1],
    [Bonds EXCEPT !.room = 1, !.events = @ \union {"found"}, !.asks = @ \union {"scan"}],
    [Bonds EXCEPT !.phones = {"p"}, !.events = @ \union {"prompt", "failed"},
                  !.asks = {"unpair", "hangup", "answer"}],
    [Window EXCEPT !.faults = 2], [Window EXCEPT !.faults = 1, !.crashes = 1],
    [Window EXCEPT !.on = FALSE, !.asks = {"enable", "disable", "open", "scan", "status"},
                   !.faults = 1, !.crashes = 1, !.requests = 4],
    [Still EXCEPT !.part = "stream"], Phoned }
(* Another phone's volume, and the stale cache with no status in between. *)
TwoPhones == { [Phoned EXCEPT !.callers = {"p", "q"}] }
Unpolled == { [Window EXCEPT !.asks = {"open", "shut", "set"}] }
Crowded == { [Bonds EXCEPT !.room = 1] }
=============================================================================
