-------------------------------- MODULE MCLived --------------------------------
(***************************************************************************)
(* The setups in which TLC explores the live conversation.                 *)
(***************************************************************************)
EXTENDS LiveService

\* An undisturbed conversation that the user may interrupt.
Conversing ==
    [requests |-> {}, faults |-> {}, connect |-> 1, prompt |-> TRUE,
     barge |-> TRUE, ids |-> {}, frames |-> 3, socket |-> 3,
     turns |-> 2, wire |-> 0]

\* A user who talks for longer than the ring holds.
Dictating == [Conversing EXCEPT !.frames = 7, !.turns = 0]

\* The model delegates actions and repeats itself; sending and playing fail.
Delegating ==
    [Conversing EXCEPT !.ids = Ids, !.requests = {"stop", "disable"},
                       !.faults = {"send", "output"}, !.connect = 0,
                       !.barge = FALSE, !.frames = 1, !.turns = 1]

\* The model and waked come and go, and the owner intervenes.
Failing ==
    [Conversing EXCEPT !.requests = {"enable", "disable", "stop", "wake"},
                       !.faults = {"start", "link", "waked"},
                       !.prompt = FALSE, !.barge = FALSE, !.frames = 3,
                       !.socket = 1, !.turns = 0]

\* The connection and its frames, with the tools that delegations run.
OnTheWire == [Conversing EXCEPT !.wire = 3]

Explored == {Conversing, Dictating, Delegating, Failing, OnTheWire}

(***************************************************************************)
(* Setups in which the code departs from what its documents say; README.md *)
(* names the property that each of them violates.                          *)
(***************************************************************************)
\* Connecting takes longer than the ring holds: UploadCatchesUp.
SlowConnecting ==
    {[Conversing EXCEPT !.connect = 5, !.socket = 5, !.frames = 7,
                        !.barge = FALSE]}

\* An answer longer than the conversation timeout: SpeechNotCut.
LongAnswer == {[Conversing EXCEPT !.connect = 0, !.barge = FALSE]}
=============================================================================
