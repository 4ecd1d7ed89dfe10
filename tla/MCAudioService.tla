--------------------------- MODULE MCAudioService ---------------------------
(* Bounded environments for audiod and airplayd. *)
EXTENDS AudioService

Rest == [parts |-> {}, boot |-> 40, enabled |-> TRUE, levels |-> {20},
         sliders |-> {-144, -15}, sessions |-> 1, callbacks |-> 2, crashes |-> 1,
         faults |-> 1, presses |-> 1, fifoFails |-> FALSE, prompt |-> TRUE,
         undoFails |-> FALSE]
Quiet == [Rest EXCEPT !.sessions = 0, !.callbacks = 0, !.crashes = 0, !.faults = 0,
                      !.presses = 0]
Receiving == [Quiet EXCEPT !.parts = {"receiver"}]
Explored ==
  { Rest,
    [Rest EXCEPT !.crashes = 2, !.faults = 0],
    [Rest EXCEPT !.crashes = 0, !.faults = 2, !.undoFails = TRUE],
    [Rest EXCEPT !.sessions = 2, !.faults = 0, !.callbacks = 1, !.sliders = {-15}],
    [Rest EXCEPT !.sliders = {-15, 3}, !.crashes = 0],
    [Receiving EXCEPT !.sessions = 1, !.callbacks = 1, !.crashes = 1, !.sliders = {-15}],
    [Receiving EXCEPT !.crashes = 2],
    [Quiet EXCEPT !.parts = {"sounds"}], [Quiet EXCEPT !.parts = {"mixer"}] }
(* A request may overtake the child it is about. *)
Hasty == { [Quiet EXCEPT !.parts = {"sounds"}, !.prompt = FALSE] }
(* The undo of a failed change fails as well, and audiod dies afterwards. *)
UndoLost == { [Rest EXCEPT !.faults = 2, !.undoFails = TRUE] }
(* The metadata pipe is lost while the receiver runs. *)
PipeLost == { [Receiving EXCEPT !.fifoFails = TRUE] }
=============================================================================
