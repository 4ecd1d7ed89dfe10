-------------------------- MODULE MCLightAndButtons --------------------------
(* Bounded environments for the ring light and the buttons. *)
EXTENDS LightAndButtons

Nothing == [asks |-> 0, faults |-> 0, crashes |-> 0, flips |-> 0, mutes |-> 0,
            outages |-> 0, presses |-> 0, repeats |-> 0]
File == [cur |-> "red", idle |-> "always", sleep |-> "off", timed |-> FALSE]
Ask(c, k, a) == [cmd |-> c, kind |-> k, arg |-> a]
Cues == { Ask("pattern", "flash", "action"), Ask("pattern", "pulse", "wake"),
          Ask("stop", None, "wake"), Ask("pattern", "flash", Anyone), Ask("stop", None, Anyone) }
Layers == { Ask("meter", None, None), Ask("unmeter", None, None), Ask("frame", None, None),
            Ask("unframe", None, None), Ask("visualizer", None, None) }
Settings == { Ask("colour", None, "blue"), Ask("animate", None, "violet"), Ask("test", None, None),
              Ask("night", None, None) }
Resting == { Ask("idle", None, "indicator"), Ask("idle", None, "off") }
SleepAsks == { Ask("sleep", "timed", "pulse"), Ask("sleep", "timed", "solid"),
               Ask("sleep", "plain", "off") }
Quiet == [buttons |-> FALSE, settles |-> FALSE, startup |-> FALSE, restore |-> TRUE, readable |-> TRUE,
          control |-> "works", keys |-> {}, disk |-> File, asks |-> {}, deadlines |-> {},
          left |-> Nothing]
Pressed == [Quiet EXCEPT !.buttons = TRUE, !.settles = TRUE]
Explored ==
  { [Quiet EXCEPT !.asks = Cues \union {Ask("pattern", "solid", Mute), Ask("stop", None, Mute),
                                         Ask("colour", None, "blue")},
                  !.deadlines = {"flash"}, !.left.asks = 4],
    [Quiet EXCEPT !.asks = Settings \union {Ask("pattern", "pulse", "wake"), Ask("stop", None, "wake")},
                  !.deadlines = {"test"}, !.left.asks = 4, !.left.faults = 1],
    [Quiet EXCEPT !.asks = Layers \union Resting, !.startup = TRUE,
                  !.deadlines = {"ready", "music", "meter", "idle"}, !.left.asks = 3],
    [Quiet EXCEPT !.settles = TRUE, !.asks = SleepAsks \union {Ask("pattern", "pulse", "wake"), Ask("colour", None, "blue")},
                  !.deadlines = {"sleep", "owed"}, !.left.asks = 3, !.left.faults = 2,
                  !.left.crashes = 1],
    [Pressed EXCEPT !.left.flips = 2, !.left.mutes = 1, !.left.outages = 1],
    [Pressed EXCEPT !.left.mutes = 2, !.left.asks = 2, !.left.faults = 1, !.left.crashes = 1,
                    !.asks = {Ask("colour", None, "blue"), Ask("pattern", "pulse", "wake"),
                              Ask("stop", None, "wake")}],
    [Pressed EXCEPT !.readable = FALSE, !.control = "absent", !.keys = {"mute", "action"},
                    !.deadlines = {"flash"}, !.left.presses = 2, !.left.outages = 1, !.left.mutes = 1],
    [Pressed EXCEPT !.control = "busy", !.keys = {"mute", "up", "down"}, !.left.flips = 1,
                    !.deadlines = {"meter"}, !.left.presses = 2, !.left.repeats = 2],
    [Pressed EXCEPT !.control = "refused", !.left.mutes = 1] }
(* The ring's bus fails once. *)
FrameLost == { [Pressed EXCEPT !.left.mutes = 2, !.left.faults = 1] }
=============================================================================
