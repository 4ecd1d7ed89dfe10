---------------------------- MODULE AgentService ----------------------------
(***************************************************************************)
(* agentd: the thread that answers a spoken turn and the one that answers   *)
(* an API request take the same control mutex and run the same code; the    *)
(* playback worker and the history commands need only the metrics mutex and *)
(* run beside them.                                                         *)
(***************************************************************************)
EXTENDS VoicePipeline

CONSTANT FollowUpMaxDepth

ASSUME AgentAssumption ==
  /\ HistoryCapacity \in Nat \ {0} /\ MaxTurns \in Nat /\ Phrases \in Nat
  /\ \A x \in Setups : x.turns \in 0..MaxTurns /\ x.kinds \subseteq Kinds /\ x.segments \subseteq Nat

VARIABLES
  lock,     \* who holds control_mutex
  th,       \* each thread's place, request and what it has found out
  arm,      \* follow_up_armed and follow_up_depth
  account,  \* enabled, auth, token
  budget    \* API calls, history clears and settings still to come

agentVars == <<lock, th, arm, account, budget>>
vars == <<setup, pipelineVars, historyVars, faults, SpeechVars, agentVars, logVars, streamVars>>
Threads == { "voice", "api" }

Idle == [pc |-> "idle", kind |-> "tell", turn |-> 0, gen |-> 0, status |-> "none", left |-> 0,
         speech |-> FALSE]

Init ==
  /\ setup \in Setups
  /\ p = NoTurn /\ stt = 0 /\ h = NoHistory /\ faults = setup.faults
  /\ born = [t \in 1..setup.turns |-> 0] /\ outcome = [t \in 1..setup.turns |-> "none"]
  /\ pb = Quiet /\ tts = Silent /\ lock = "none"
  /\ th = [x \in Threads |-> Idle] /\ arm = [armed |-> FALSE, depth |-> 0]
  /\ account = [enabled |-> TRUE, auth |-> "in", token |-> TRUE]
  /\ budget = [calls |-> setup.calls, clears |-> setup.clears, settings |-> setup.settings]
  /\ LogInit /\ StreamInit

At(x, pc) == th[x].pc = pc
Owner(x) == IF x = "voice" THEN th[x].turn ELSE ApiTurn
To(x, pc) == th' = [th EXCEPT ![x].pc = pc]
Finds(x, pc, status) == th' = [th EXCEPT ![x].pc = pc, ![x].status = status]

Dispatches ==
  /\ p.pending # 0 /\ p.dispatch = 0
  /\ p' = [p EXCEPT !.dispatch = p.pending, !.pending = 0]
  /\ th' = [th EXCEPT !["voice"] = [Idle EXCEPT !.pc = "lock", !.kind = p.kind, !.turn = p.pending]]
  /\ UNCHANGED <<stt, historyVars, faults, SpeechVars, lock, arm, account, budget>>
ApiAsks ==
  /\ At("api", "idle") /\ budget.calls > 0
  /\ budget' = [budget EXCEPT !.calls = @ - 1]
  /\ \E k \in setup.kinds :
       th' = [th EXCEPT !["api"] = [Idle EXCEPT !.pc = "lock", !.kind = k]]
  /\ UNCHANGED <<pipelineVars, historyVars, faults, SpeechVars, lock, arm, account>>

Locks(x) ==
  /\ At(x, "lock") /\ lock = "none" /\ lock' = x
  /\ th' = [th EXCEPT ![x].pc = "intent", ![x].gen = h.tgen]
  /\ h' = IF x = "voice" THEN [h EXCEPT !.tid = 0, !.ttsFailed = FALSE] ELSE h
  /\ UNCHANGED <<pipelineVars, born, outcome, faults, SpeechVars, arm, account, budget>>

(* handle_timer_intent: a timer request is answered here unless timerd does *)
(* not answer; a stop request is one only while a timer rings.              *)
TimerIntent(x) ==
  /\ At(x, "intent")
  /\ \/ th[x].kind \in {"ask", "tell"} /\ To(x, "answer") /\ UNCHANGED faults
     \/ th[x].kind = "timer" /\ Finds(x, "say", "spoken") /\ UNCHANGED faults
     \/ th[x].kind = "timer" /\ Fails /\ To(x, "answer")
     \/ th[x].kind = "stop" /\ Finds(x, "record", "spoken") /\ UNCHANGED faults
     \/ th[x].kind = "stop" /\ To(x, "stop") /\ UNCHANGED faults
  /\ UNCHANGED <<pipelineVars, historyVars, SpeechVars, lock, arm, account, budget>>

(* handle_stop_intent: look, cancel the queue, then silence what speaks.    *)
(* While a phone plays, a sentence says that it must be stopped there.      *)
Stopped == IF setup.phone THEN "say" ELSE "record"
LooksAtPlayback(x) ==
  /\ At(x, "stop")
  /\ th' = [th EXCEPT ![x].pc = "cancel", ![x].speech = tts # Silent \/ Pending]
  /\ arm' = [armed |-> FALSE, depth |-> 0]
  /\ UNCHANGED <<pipelineVars, historyVars, faults, SpeechVars, lock, account, budget>>
CancelsReply(x) ==
  /\ At(x, "cancel") /\ pb' = Cancelled
  /\ IF th[x].speech THEN To(x, "silence") ELSE Finds(x, Stopped, "completed")
  /\ UNCHANGED <<pipelineVars, historyVars, faults, tts, lock, arm, account, budget>>
StopsSpeech(x) ==
  /\ At(x, "silence")
  /\ \/ tts' = Silent /\ Finds(x, Stopped, "completed") /\ UNCHANGED faults
     \/ Fails /\ UNCHANGED tts
        /\ Finds(x, IF x = "voice" THEN "say" ELSE "record", "assistant_failed")
  /\ UNCHANGED <<pipelineVars, historyVars, pb, lock, arm, account, budget>>

(* play_sentence: spoken by this thread itself, not through the queue.      *)
Says(x) ==
  /\ At(x, "say")
  /\ \/ tts' = [turn |-> Owner(x), queued |-> FALSE] /\ To(x, "saying")
        /\ UNCHANGED <<h, outcome, faults>>
     \/ Fails /\ NoteTtsFailure /\ To(x, "record") /\ UNCHANGED tts
  /\ UNCHANGED <<pipelineVars, born, pb, lock, arm, account, budget>>
HearsItself(x) ==
  /\ At(x, "saying") /\ To(x, "record")
  /\ IF tts = Silent THEN UNCHANGED <<h, outcome>> ELSE NoteTtsFailure
  /\ UNCHANGED <<pipelineVars, born, faults, SpeechVars, lock, arm, account, budget>>

(* What stands between a transcript and the model.                         *)
Barred == account.auth # "in"
Unanswered(x) == x = "voice" /\ (~account.enabled \/ Barred)
Continues(x) == p.foll /\ arm.armed
Answers(x) ==
  /\ At(x, "answer")
  /\ arm' = IF x = "api" \/ Unanswered(x) THEN arm
            ELSE [armed |-> FALSE, depth |-> IF Continues(x) THEN arm.depth ELSE 0]
  /\ \/ /\ Unanswered(x) /\ To(x, "unlock")
        /\ outcome' = [outcome EXCEPT ![th[x].turn] = "ignored"]
        /\ UNCHANGED <<pb, account, faults>>
     \/ /\ ~Unanswered(x) /\ (Barred \/ Pending) /\ Finds(x, "record", "assistant_failed")
        /\ UNCHANGED <<pb, account, faults, outcome>>
     \/ /\ ~Unanswered(x) /\ ~Barred /\ ~Pending /\ pb' = BeginTurn
        /\ \/ /\ \E n \in setup.segments :
                    th' = [th EXCEPT ![x].pc = "stream", ![x].left = n]
              /\ UNCHANGED <<account, faults>>
           \/ /\ Fails /\ account' = [account EXCEPT !.auth = "error"]
              /\ Finds(x, "record", "assistant_failed")
        /\ UNCHANGED outcome
  /\ UNCHANGED <<pipelineVars, h, born, tts, lock, budget>>
(* Segments are queued as they arrive, and spoken meanwhile; a full queue   *)
(* or a provider that fails ends the answer, not what is already queued.    *)
Streams(x) ==
  /\ At(x, "stream") /\ th[x].left > 0
  /\ \/ MayEnqueue /\ pb' = Enqueued(Owner(x)) /\ th' = [th EXCEPT ![x].left = @ - 1]
        /\ UNCHANGED faults
     \/ ~MayEnqueue /\ Finds(x, "record", "assistant_failed") /\ UNCHANGED <<pb, faults>>
     \/ Fails /\ Finds(x, "record", "assistant_failed") /\ UNCHANGED pb
  /\ UNCHANGED <<pipelineVars, historyVars, tts, lock, arm, account, budget>>
Generated(x) ==
  /\ At(x, "stream") /\ th[x].left = 0 /\ Finds(x, "record", "generated")
  /\ UNCHANGED <<pipelineVars, historyVars, faults, SpeechVars, lock, arm, account, budget>>

(* The status a finished turn is stored with.                              *)
FinalStatus(x) ==
  CASE th[x].status = "spoken" -> IF h.ttsFailed THEN "tts_failed" ELSE "completed"
    [] th[x].status = "generated" ->
         IF h.ttsFailed THEN "tts_failed" ELSE IF pb.cancelled THEN "cancelled" ELSE "completed"
    [] OTHER -> th[x].status
BugWaitOver == TRUE
WaitOver == ~Pending /\ ~pb.failed
Asks(x) == th[x].status = "generated" /\ th[x].kind = "ask" /\ arm.depth < FollowUpMaxDepth
Records(x) ==
  /\ At(x, "record")
  /\ IF x = "api" THEN To(x, "unlock") /\ UNCHANGED <<h, outcome, arm>> ELSE
     /\ RecordTurn(th[x].turn, th[x].gen, FinalStatus(x))
     /\ To(x, IF Asks(x) THEN "wait" ELSE "unlock")
     /\ arm' = IF Asks(x) \/ (th[x].status = "assistant_failed" /\ th[x].kind # "stop")
               THEN arm ELSE [armed |-> FALSE, depth |-> 0]
  /\ UNCHANGED <<pipelineVars, born, faults, SpeechVars, lock, account, budget>>

(* The reply was a question: listen again once it has been spoken.         *)
WaitsIdle(x) ==
  /\ At(x, "wait") /\ To(x, "unlock")
  /\ IF WaitOver
       THEN /\ RequestFollowUp(th[x].turn)
            /\ arm' = [armed |-> ~p.follow, depth |-> arm.depth + 1]
       ELSE p' = p /\ arm' = [armed |-> FALSE, depth |-> 0]
  /\ UNCHANGED <<stt, historyVars, faults, SpeechVars, lock, account, budget>>
Unlocks(x) ==
  /\ At(x, "unlock") /\ lock' = "none" /\ th' = [th EXCEPT ![x] = Idle]
  /\ p' = IF x = "voice" THEN [p EXCEPT !.dispatch = 0] ELSE p
  /\ UNCHANGED <<stt, historyVars, faults, SpeechVars, arm, account, budget>>

Works(x) ==
  \/ Locks(x) \/ TimerIntent(x) \/ LooksAtPlayback(x) \/ CancelsReply(x) \/ StopsSpeech(x)
  \/ Says(x) \/ HearsItself(x) \/ Answers(x) \/ Streams(x) \/ Generated(x) \/ Records(x)
  \/ WaitsIdle(x) \/ Unlocks(x)

(* voice_history_clear needs no control mutex. *)
ClearsHistory ==
  /\ budget.clears > 0 /\ budget' = [budget EXCEPT !.clears = @ - 1]
  /\ h' = Cleared(h)
  /\ UNCHANGED <<pipelineVars, born, outcome, faults, SpeechVars, lock, th, arm, account>>
Settles(a) ==
  /\ lock = "none" /\ budget.settings > 0
  /\ account' = a /\ a # account /\ budget' = [budget EXCEPT !.settings = @ - 1]
  /\ UNCHANGED <<pipelineVars, historyVars, faults, SpeechVars, lock, th, arm>>
Configure ==
  \E on \in BOOLEAN :
    Settles([account EXCEPT !.enabled = on, !.auth = IF account.token THEN "in" ELSE "out"])
AuthStart == \E a \in {"waiting", "error"} : Settles([account EXCEPT !.auth = a])
AuthPoll ==
  /\ account.auth = "waiting"
  /\ \/ Settles([account EXCEPT !.auth = "in", !.token = TRUE])
     \/ Settles([account EXCEPT !.auth = "error"])
Logout == Settles([account EXCEPT !.auth = "out", !.token = FALSE])

Conversation ==
  /\ \/ (WakedRestarts \/ WakeHeard \/ TimesOut \/ SttRefuses \/ SttEnds \/ Capture)
        /\ UNCHANGED <<SpeechVars, agentVars>>
     \/ (Worker \/ SpeechEnds) /\ UNCHANGED <<pipelineVars, born, agentVars>>
     \/ Dispatches \/ ApiAsks \/ ClearsHistory \/ Configure \/ AuthStart \/ AuthPoll \/ Logout
     \/ \E x \in Threads : Works(x)
  /\ UNCHANGED <<logVars, streamVars>>

talkVars == <<pipelineVars, historyVars, faults, SpeechVars, agentVars>>
Kept == UNCHANGED setup
Next ==
  /\ \/ setup.part = "talk" /\ Conversation
     \/ setup.part = "log" /\ LogNext /\ UNCHANGED <<talkVars, streamVars>>
     \/ setup.part = "stream" /\ StreamNext /\ UNCHANGED <<talkVars, logVars>>
  /\ Kept

Talks == Kept /\ UNCHANGED <<logVars, streamVars>>
(* Every thread keeps running and sttd comes back to its clients; nothing   *)
(* is assumed about how long a sentence takes to speak.                     *)
Fairness ==
  /\ WF_vars((Subscribes \/ SttAccepts) /\ Talks /\ UNCHANGED <<SpeechVars, agentVars>>)
  /\ SF_vars((ReadsLine \/ TimesOut) /\ Talks /\ UNCHANGED <<SpeechVars, agentVars>>)
  /\ WF_vars(SttEnds /\ Talks /\ UNCHANGED <<SpeechVars, agentVars>>)
  /\ WF_vars(Dispatches /\ Talks)
  /\ WF_vars(Worker /\ Talks /\ UNCHANGED <<pipelineVars, born, agentVars>>)
  /\ \A x \in Threads : SF_vars(Works(x) /\ Talks)

Spec == Init /\ [][Next]_vars /\ Fairness

----------------------------------------------------------------------------
(* A turn that began before the history was cleared never appears in it     *)
(* afterwards, however late its transcript, failure or reply arrives        *)
(* (record_voice_turn, voice_outcome; docs/voice-history-core.md), and the  *)
(* persisted log of a cleared history stays cleared across a restart        *)
(* (command_history_clear, load_history).                                   *)
ClearedStaysCleared ==
  /\ \A i \in DOMAIN h.ring : born[h.ring[i].turn] = h.gen
  /\ LogStaysCleared

(* What is reported of a turn is true of it: its history entry is one the   *)
(* owner has not cleared, and speech counted as spoken was heard to its end *)
(* (synthesize_and_stream).                                                 *)
TurnsTruthful == ClearedStaysCleared /\ StreamTruthful

(* The turns agentd has in hand, as its promise sees them. *)
InHand ==
  { t \in {p.turn, p.pending} : t # 0 }
  \cup IF th["voice"].pc \in {"idle", "wait", "unlock"} THEN {} ELSE {th["voice"].turn}
Promised == INSTANCE VoiceTurns WITH Turns <- 1..MaxTurns, open <- InHand,
              outcome <- [t \in 1..MaxTurns |-> IF t \in Turns THEN outcome[t] ELSE "none"]

(* agentd implements the turns of the history document: one in flight, one  *)
(* outcome each, and an outcome for every turn that begins                  *)
(* (voice_pipeline.c, voice_transcript).                                    *)
TurnsImplemented == Promised!Spec

(* A sentence of a cancelled reply does not go on sounding: cancel, the     *)
(* stop sent after it and the worker's checks before and after its own      *)
(* request leave no order in which it survives (play_sentence_internal).    *)
CancelledFallsSilent ==
  (setup.faults = 0 /\ pb.cancelled /\ tts.queued) ~> ~(pb.cancelled /\ tts.queued)

(* Automatic listening starts only when the question that asked for it has  *)
(* been spoken, so that the device does not listen to that question         *)
(* (le_voice_playback_wait_idle, le_voice_pipeline_request_follow_up).      *)
ListensAfterItsQuestion ==
  [][(p.turn # p'.turn /\ p'.pc = "begin" /\ p'.foll) =>
       /\ \A i \in DOMAIN pb.queue : pb.queue[i] # p.asked
       /\ pb.item # p.asked]_vars

(* docs/API.md: a stop "never opens a follow-up turn".                      *)
StopOpensNothing ==
  [][(p.turn # p'.turn /\ p'.pc = "begin" /\ p'.foll) => p.kind # "stop"]_vars
=============================================================================
