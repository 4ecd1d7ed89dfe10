---------------------------- MODULE MCWakeService ----------------------------
(* Bounded environments for the microphone and the wake word. *)
EXTENDS WakeService

OneEach == [wake |-> 1, audio |-> 1]
Nothing == [faults |-> 0, blocks |-> 0, led |-> 0, mixer |-> 0, tests |-> 0, sets |-> 0, words |-> 0,
            others |-> 0, deaths |-> 0, quits |-> 0, restarts |-> 0, raws |-> 0, leaves |-> 0,
            breaks |-> 0, micdies |-> 0, kills |-> 0, hops |-> 0]
Frame(vad, play) == [vad |-> vad, play |-> play]
Quiet == [engine |-> FALSE, agent |-> FALSE, restless |-> FALSE, supervised |-> FALSE, settles |-> FALSE,
          beams |-> FALSE, frames |-> {Frame(TRUE, FALSE)}, 
          scores |-> {0, 1, 2}, left |-> Nothing]
Supervised == [Quiet EXCEPT !.supervised = TRUE, !.settles = TRUE, !.agent = TRUE]
Explored ==
  { \* words and sensitivity over a queue that fills
    [Quiet EXCEPT !.engine = TRUE, !.left.blocks = 4,
                  !.frames = {Frame(TRUE, FALSE), Frame(TRUE, TRUE)}],
    [Quiet EXCEPT !.engine = TRUE, !.left.blocks = 3, !.left.sets = 1,
                  !.frames = {Frame(TRUE, FALSE), Frame(FALSE, FALSE)}, !.scores = Scores],
    \* the model replaced, in time and too late, with a failing engine
    [Quiet EXCEPT !.engine = TRUE, !.left.blocks = 2, !.left.words = 3, !.left.faults = 2, !.left.quits = 1],
    \* the light, and clients that come and go
    [Quiet EXCEPT !.agent = TRUE, !.restless = TRUE, !.left.tests = 2, !.left.others = 2, !.left.led = 1,
                  !.left.blocks = 1, !.left.mixer = 1],
    \* beams read while they are written, and a worker killed in between
    [Quiet EXCEPT !.beams = TRUE, !.left.hops = 2, !.left.kills = 1, !.left.breaks = 1],
    \* the pair comes back
    [Supervised EXCEPT !.left.deaths = 1, !.left.breaks = 1, !.left.mixer = 1, !.left.raws = 1,
                       !.left.others = 1],
    [Supervised EXCEPT !.left.breaks = 1, !.left.others = 1, !.left.tests = 2],
    [Supervised EXCEPT !.left.deaths = 2, !.left.raws = 2, !.left.leaves = 1],
    [Quiet EXCEPT !.supervised = TRUE, !.left.restarts = 1, !.left.micdies = 1, !.left.hops = 1] }
(* micd restarted while waked listens. *)
Restarted == { [Supervised EXCEPT !.left.restarts = 1], [Supervised EXCEPT !.left.micdies = 1] }
=============================================================================
