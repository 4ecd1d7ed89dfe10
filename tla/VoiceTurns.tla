----------------------------- MODULE VoiceTurns -----------------------------
(***************************************************************************)
(* What the voice history promises (docs/voice-history-core.md): at most    *)
(* one turn is in flight, every turn that begins ends with exactly one      *)
(* outcome, a wake word heard meanwhile is a cancelled turn of its own, and *)
(* the only outcome that may still change is "completed", once, to          *)
(* "tts_failed".                                                            *)
(***************************************************************************)
EXTENDS Naturals

CONSTANT Turns

VARIABLES
  open,      \* the turns in flight
  outcome    \* the outcome of each turn, "none" before it has one

Statuses == { "completed", "stt_failed", "assistant_failed", "tts_failed", "cancelled",
              "timed_out", "ignored" }

Init == open = {} /\ outcome = [t \in Turns |-> "none"]

Begin(t) == open = {} /\ outcome[t] = "none" /\ open' = {t} /\ UNCHANGED outcome
Refused(t) ==
  /\ open # {t} /\ outcome[t] = "none"
  /\ outcome' = [outcome EXCEPT ![t] = "cancelled"] /\ UNCHANGED open
Close(t, s) ==
  open = {t} /\ open' = {} /\ outcome' = [outcome EXCEPT ![t] = s]
SpeechFails(t) ==
  /\ outcome[t] = "completed"
  /\ outcome' = [outcome EXCEPT ![t] = "tts_failed"] /\ UNCHANGED open

Ends == \E t \in Turns, s \in Statuses : Close(t, s)
Next == Ends \/ \E t \in Turns : Begin(t) \/ Refused(t) \/ SpeechFails(t)
turnVars == <<open, outcome>>
Spec == Init /\ [][Next]_turnVars /\ WF_turnVars(Ends)
=============================================================================
