---------------------------- MODULE AgentProofs ----------------------------
(***************************************************************************)
(* Proofs about agentd: what a history shows after it was cleared, the     *)
(* turns its document promises, and when the device may listen again.      *)
(***************************************************************************)
EXTENDS AgentService, SequenceTheorems, TLAPS

(***************************************************************************)
(* Types.                                                                  *)
(***************************************************************************)
Statuses == Promised!Statuses
Chans == Kinds \cup {"none", "empty", "eof"}
PipelineType ==
  [subs : BOOLEAN, pc : {"loop", "begin"}, turn : Nat, foll : BOOLEAN, chan : Chans,
   pending : Nat, kind : Kinds, dispatch : Nat, follow : BOOLEAN, asked : Nat,
   turns : Nat, wakes : Nat]
Entry == [turn : Nat, status : Statuses]
HistoryType == [gen : Nat, ring : Seq(Entry), tgen : Nat, tid : Nat, ttsFailed : BOOLEAN]
Places == {"idle", "lock", "intent", "answer", "say", "saying", "record", "stop", "cancel",
           "silence", "stream", "wait", "unlock"}
Found == {"spoken", "generated", "completed", "assistant_failed"}
ThreadType == [pc : Places, kind : Kinds, turn : Nat, gen : Nat, status : Found \cup {"none"},
               left : Nat, speech : BOOLEAN]
QueueType == [queue : Seq(Nat), cancelled : BOOLEAN, failed : BOOLEAN,
              w : {"idle", "check", "speak", "poll"}, item : Nat]
TalkType ==
  /\ setup \in Setups
  /\ p \in PipelineType /\ h \in HistoryType /\ pb \in QueueType
  /\ th \in [Threads -> ThreadType]
  /\ born \in [Turns -> Nat] /\ outcome \in [Turns -> Statuses \cup {"none"}]

(***************************************************************************)
(* Turns.  One is in hand at most, on its way through the recogniser, the  *)
(* pending slot and the voice thread; it has no outcome yet, and the       *)
(* generation it is to be recorded under is the one it began in.           *)
(***************************************************************************)
Voice == th["voice"]
Numbers == /\ p.turns \in 0..setup.turns
           /\ {p.turn, p.pending, p.dispatch} \subseteq 0..p.turns
           /\ p.pc = "begin" => p.turn # 0
OneInFlight == /\ p.turn # 0 => p.pending = 0 /\ p.dispatch = 0
               /\ p.pending # 0 => p.dispatch = 0
VoiceServes == /\ Voice.pc = "idle" <=> p.dispatch = 0
               /\ Voice.pc # "idle" => Voice.turn = p.dispatch
HandOpen == \A t \in InHand : outcome[t] = "none" /\ born[t] = h.tgen
FreshOpen == \A t \in Turns : t > p.turns => outcome[t] = "none"
RingTrue == \A i \in DOMAIN h.ring : /\ h.ring[i].turn \in 1..p.turns
                                     /\ born[h.ring[i].turn] = h.gen
                                     /\ outcome[h.ring[i].turn] = h.ring[i].status
VoiceKnows == /\ Voice.pc \notin {"idle", "lock", "wait", "unlock"} => Voice.gen = h.tgen
              /\ Voice.pc \in {"say", "saying", "record"} => Voice.status \in Found
TurnInv == Numbers /\ OneInFlight /\ VoiceServes /\ HandOpen /\ FreshOpen /\ RingTrue /\ VoiceKnows

(***************************************************************************)
(* A follow-up that is asked for: nothing of its question is left to say.  *)
(***************************************************************************)
SpokenOut(t) == /\ \A i \in DOMAIN pb.queue : pb.queue[i] # t
                /\ pb.item # t
FollowInv ==
  /\ th["api"].pc # "wait"
  /\ pb.w = "idle" => pb.item = 0
  /\ p.follow => /\ p.asked \in 1..p.turns /\ p.asked \notin {p.turn, p.pending}
                 /\ Voice.pc \notin {"idle", "unlock"} => Voice.turn # p.asked
                 /\ SpokenOut(p.asked)

TalkInv == TalkType /\ TurnInv /\ FollowInv

(***************************************************************************)
(* The saved log: what any power cut leaves holds nothing that was         *)
(* cleared, and what is being saved neither.                               *)
(***************************************************************************)
Fresher(d) == /\ d.main = Absent \/ (0 \notin d.main /\ d.main \cap gone = {})
              /\ d.bak = Absent \/ 0 \notin d.bak
              /\ d.main = Absent /\ d.bak # Absent => d.bak \cap gone = {}
LogType == /\ log \in [recs : SUBSET Nat, next : Nat \ {0}]
           /\ trail \subseteq [main : SUBSET Nat, bak : SUBSET Nat]
           /\ save \in [pc : {"none", "written", "aside", "moved"}, recs : SUBSET Nat, clear : BOOLEAN]
LogInv ==
  /\ LogType /\ gone \subseteq 1..(log.next - 1)
  /\ 0 \notin log.recs /\ log.recs \cap gone = {}
  /\ disk \in trail /\ \A d \in trail : Fresher(d)
  /\ 0 \notin save.recs /\ save.recs \cap gone = {} /\ (save.clear => save.recs = {})
  /\ save.pc = "aside" => disk.main = Absent
  /\ save.pc = "moved" => disk.main = save.recs

(***************************************************************************)
(* The streamed speech: no phrase is lost but by a failure.                *)
(***************************************************************************)
StreamType == s \in [made : Nat, queued : Nat, written : Nat, closed : BOOLEAN, failed : BOOLEAN,
                     gaps : Nat, pc : {"make", "push", "close", "join", "end"}, done : BOOLEAN,
                     result : {0, 1}]
StreamInv ==
  /\ StreamType /\ s.made <= Phrases
  /\ ~ s.failed /\ s.pc = "push" => s.made = s.written + s.queued + 1
  /\ ~ s.failed /\ (s.pc = "make" \/ s.result = 0) => s.made = s.written + s.queued
  /\ s.result = 0 => s.pc \in {"join", "end"} /\ (s.made = Phrases \/ s.failed)
  /\ s.done /\ ~ s.failed => s.queued = 0 /\ s.closed
  /\ s.closed <=> s.pc \in {"join", "end"}
  /\ s.pc = "end" => s.done /\ (s.failed => s.result = 1)

-----------------------------------------------------------------------------
\* The log, step by step of a save, a crash or a power cut.
LEMMA LogStep == LogInv /\ LogNext => LogInv'
<1> SUFFICES ASSUME LogInv, LogNext PROVE LogInv'
  OBVIOUS
<1> USE DEF LogInv, LogType, NoSave, Absent
<1>1. CASE LogsTurn
  BY <1>1 DEF LogsTurn, Saves, Fresher
<1>2. CASE AsksClear
  BY <1>2 DEF AsksClear, Saves, Fresher
<1>3. CASE MovesAside
  <2> DEFINE d == IF disk.main = Absent THEN disk ELSE [main |-> Absent, bak |-> disk.main]
  <2>1. Fresher(d) /\ d.main = Absent
    BY DEF Fresher
  <2>2. disk' = d /\ trail' = trail \cup {d} /\ UNCHANGED <<log, gone>> /\ save' = [save EXCEPT !.pc = "aside"]
    BY <1>3 DEF MovesAside, Shows
  <2>3. d \in [main : SUBSET Nat, bak : SUBSET Nat]
    OBVIOUS
  <2> HIDE DEF d
  <2>4. LogType' /\ save'.recs = save.recs /\ save'.clear = save.clear /\ save'.pc = "aside"
    BY <2>2, <2>3
  <2>5. \A x : Fresher(x)' <=> Fresher(x)
    BY <2>2 DEF Fresher
  <2> QED
    BY <2>1, <2>2, <2>4, <2>5
<1>4. CASE MovesIn
  BY <1>4 DEF MovesIn, Shows, Fresher
<1>5. CASE MovesBack
  BY <1>5 DEF MovesBack, Shows, Fresher
<1>6. CASE Synced
  BY <1>6 DEF Synced, Fresher
<1>7. CASE SaveFails
  BY <1>7 DEF SaveFails, Fresher
<1>8. CASE Restarts
  <2>1. PICK d \in trail : disk' = d /\ log' = [log EXCEPT !.recs = Loaded(d)]
    BY <1>8 DEF Restarts
  <2>2. Fresher(d)
    OBVIOUS
  <2>3. 0 \notin Loaded(d) /\ Loaded(d) \cap gone = {}
    BY <2>2 DEF Loaded, Fresher
  <2>4. log'.recs = Loaded(d) /\ log'.next = log.next /\ LogType'
    BY <1>8, <2>1 DEF Restarts, Loaded
  <2>5. trail' = {d} /\ gone' = gone /\ save' = NoSave
    BY <1>8, <2>1 DEF Restarts
  <2>6. Fresher(d)'
    BY <2>2, <2>5 DEF Fresher
  <2> QED
    BY <2>1, <2>3, <2>4, <2>5, <2>6
<1> QED
  BY <1>1, <1>2, <1>3, <1>4, <1>5, <1>6, <1>7, <1>8 DEF LogNext

\* The stream, step by step of its two threads.
LEMMA StreamStep == StreamInv /\ StreamNext => StreamInv'
<1> SUFFICES ASSUME StreamInv, StreamNext PROVE StreamInv'
  OBVIOUS
<1> USE AgentAssumption
<1>0. StreamType
  BY DEF StreamInv
<1>1. CASE Makes
  <2>1. CASE s' = [s EXCEPT !.pc = "close"]
    <3>1. /\ s'.pc = "close" /\ s'.made = s.made /\ s'.queued = s.queued /\ s'.written = s.written
          /\ s'.result = s.result /\ (s'.closed <=> s.closed) /\ (s'.failed <=> s.failed) /\ (s'.done <=> s.done)
          /\ StreamType'
      BY <1>0, <2>1 DEF StreamType
    <3> QED
      BY <1>1, <3>1 DEF Makes, StreamInv
  <2>2. CASE ~ s.failed /\ s' = [s EXCEPT !.made = @ + 1, !.pc = "push"]
    <3> DEFINE n == s.made + 1
    <3>0. n \in Nat /\ n = s.made + 1 /\ s' = [s EXCEPT !.made = n, !.pc = "push"]
      BY <1>0, <2>2 DEF StreamType
    <3> HIDE DEF n
    <3>1. /\ s'.pc = "push" /\ s'.made = s.made + 1 /\ s'.queued = s.queued /\ s'.written = s.written
          /\ s'.result = s.result /\ (s'.closed <=> s.closed) /\ (s'.failed <=> s.failed) /\ (s'.done <=> s.done)
          /\ StreamType'
      BY <1>0, <3>0 DEF StreamType
    <3>2. s.made \in Nat /\ s.queued \in Nat /\ s.written \in Nat
      BY <1>0 DEF StreamType
    <3> QED
      BY <1>1, <2>2, <3>1, <3>2 DEF Makes, StreamInv
  <2> QED
    BY <1>1, <2>1, <2>2 DEF Makes
<1>2. CASE Pushes
  <2>1. CASE s' = [s EXCEPT !.pc = "close"] /\ s.failed
    <3>1. /\ s'.pc = "close" /\ s'.made = s.made /\ s'.queued = s.queued /\ s'.written = s.written
          /\ s'.result = s.result /\ (s'.closed <=> s.closed) /\ (s'.failed <=> s.failed) /\ (s'.done <=> s.done)
          /\ StreamType'
      BY <1>0, <2>1 DEF StreamType
    <3> QED
      BY <1>2, <2>1, <3>1 DEF Pushes, StreamInv
  <2>2. CASE ~ s.failed /\ s' = [s EXCEPT !.queued = @ + 1, !.pc = "make"]
    <3> DEFINE n == s.queued + 1
    <3>0. n \in Nat /\ n = s.queued + 1 /\ s' = [s EXCEPT !.queued = n, !.pc = "make"]
      BY <1>0, <2>2 DEF StreamType
    <3> HIDE DEF n
    <3>1. /\ s'.pc = "make" /\ s'.made = s.made /\ s'.queued = s.queued + 1 /\ s'.written = s.written
          /\ s'.result = s.result /\ (s'.closed <=> s.closed) /\ (s'.failed <=> s.failed) /\ (s'.done <=> s.done)
          /\ StreamType'
      BY <1>0, <3>0 DEF StreamType
    <3>2. s.made \in Nat /\ s.queued \in Nat /\ s.written \in Nat
      BY <1>0 DEF StreamType
    <3> QED
      BY <1>2, <2>2, <3>1, <3>2 DEF Pushes, StreamInv
  <2> QED
    BY <1>2, <2>1, <2>2 DEF Pushes
<1>3. CASE Closes
  BY <1>3 DEF Closes, StreamInv, StreamType
<1>4. CASE Joins
  BY <1>4 DEF Joins, StreamInv, StreamType
<1>5. CASE Writes
  <2>1. CASE s' = [s EXCEPT !.queued = @ - 1, !.written = @ + 1, !.gaps = 0]
    <3> DEFINE n == s.queued - 1
               m == s.written + 1
    <3>0. /\ n \in Nat /\ n = s.queued - 1 /\ m \in Nat /\ m = s.written + 1
          /\ s' = [s EXCEPT !.queued = n, !.written = m, !.gaps = 0]
      BY <1>0, <1>5, <2>1 DEF StreamType, Writes
    <3> HIDE DEF n, m
    <3>1. /\ s'.pc = s.pc /\ s'.made = s.made /\ s'.queued = s.queued - 1 /\ s'.written = s.written + 1
          /\ s'.result = s.result /\ (s'.closed <=> s.closed) /\ (s'.failed <=> s.failed) /\ (s'.done <=> s.done)
          /\ StreamType'
      BY <1>0, <3>0 DEF StreamType
    <3>2. s.made \in Nat /\ s.queued \in Nat /\ s.written \in Nat
      BY <1>0 DEF StreamType
    <3> QED
      BY <1>5, <3>1, <3>2 DEF Writes, StreamInv
  <2>2. CASE s' = [s EXCEPT !.queued = @ - 1, !.failed = TRUE, !.done = TRUE]
    <3> DEFINE n == s.queued - 1
    <3>0. n \in Nat /\ s' = [s EXCEPT !.queued = n, !.failed = TRUE, !.done = TRUE]
      BY <1>0, <1>5, <2>2 DEF StreamType, Writes
    <3> HIDE DEF n
    <3>1. /\ s'.pc = s.pc /\ s'.made = s.made /\ s'.result = s.result /\ (s'.closed <=> s.closed)
          /\ s'.failed /\ s'.done /\ StreamType'
      BY <1>0, <3>0 DEF StreamType
    <3> QED
      BY <1>5, <3>1 DEF Writes, StreamInv
  <2> QED
    BY <1>5, <2>1, <2>2 DEF Writes
<1>6. CASE Pauses
  <2>1. CASE s' = [s EXCEPT !.failed = TRUE, !.done = TRUE]
    <3>1. /\ s'.pc = s.pc /\ s'.made = s.made /\ s'.result = s.result /\ (s'.closed <=> s.closed)
          /\ s'.failed /\ s'.done /\ StreamType'
      BY <1>0, <2>1 DEF StreamType
    <3> QED
      BY <1>6, <3>1 DEF Pauses, StreamInv
  <2>2. CASE s' = [s EXCEPT !.gaps = @ + 1]
    <3>1. /\ s'.pc = s.pc /\ s'.made = s.made /\ s'.queued = s.queued /\ s'.written = s.written
          /\ s'.result = s.result /\ (s'.closed <=> s.closed) /\ (s'.failed <=> s.failed) /\ (s'.done <=> s.done)
          /\ StreamType'
      BY <1>0, <2>2 DEF StreamType
    <3> QED
      BY <3>1 DEF StreamInv
  <2> QED
    BY <1>6, <2>1, <2>2 DEF Pauses
<1>7. CASE WriterEnds
  BY <1>7 DEF WriterEnds, StreamInv, StreamType
<1> QED
  BY <1>1, <1>2, <1>3, <1>4, <1>5, <1>6, <1>7 DEF StreamNext

-----------------------------------------------------------------------------
\* What the operators of the conversation yield.
Others(x) == \A y \in Threads : y # x => th'[y] = th[y]
Carries(x, pc, status) ==
  /\ th' \in [Threads -> ThreadType]
  /\ th'[x].pc = pc /\ th'[x].status = status
  /\ th'[x].turn = th[x].turn /\ th'[x].gen = th[x].gen
  /\ Others(x)

LEMMA ToIs ==
  ASSUME TalkType, NEW x \in Threads, NEW pc \in Places, To(x, pc)
  PROVE  Carries(x, pc, th[x].status)
<1> DEFINE r == [th[x] EXCEPT !.pc = pc]
<1>1. th[x] \in ThreadType
  BY DEF TalkType
<1>2. /\ r \in ThreadType /\ r.pc = pc /\ r.status = th[x].status
      /\ r.turn = th[x].turn /\ r.gen = th[x].gen
  BY <1>1 DEF ThreadType
<1>3. th' = [th EXCEPT ![x] = r]
  BY DEF To, TalkType
<1> HIDE DEF r
<1> QED
  BY <1>2, <1>3 DEF Carries, TalkType, Others

LEMMA FindsIs ==
  ASSUME TalkType, NEW x \in Threads, NEW pc \in Places, NEW st \in Found, Finds(x, pc, st)
  PROVE  Carries(x, pc, st)
<1> DEFINE r == [th[x] EXCEPT !.pc = pc, !.status = st]
<1>1. th[x] \in ThreadType
  BY DEF TalkType
<1>2. /\ r \in ThreadType /\ r.pc = pc /\ r.status = st
      /\ r.turn = th[x].turn /\ r.gen = th[x].gen
  BY <1>1 DEF ThreadType
<1>3. th' = [th EXCEPT ![x] = r]
  BY DEF Finds, TalkType
<1> HIDE DEF r
<1> QED
  BY <1>2, <1>3 DEF Carries, TalkType, Others

\* The ring after a record: what was in it, and perhaps the new one.
LEMMA NewestIs ==
  ASSUME NEW r \in Seq(Entry), NEW e \in Entry
  PROVE  /\ Newest(Append(r, e)) \in Seq(Entry)
         /\ \A i \in DOMAIN Newest(Append(r, e)) :
              Newest(Append(r, e))[i] = e \/ \E j \in DOMAIN r : Newest(Append(r, e))[i] = r[j]
<1> DEFINE a == Append(r, e)
<1>1. /\ a \in Seq(Entry) /\ Len(a) = Len(r) + 1 /\ Len(r) \in Nat
      /\ \A i \in 1..Len(a) : a[i] = e \/ (i \in 1..Len(r) /\ a[i] = r[i])
  OBVIOUS
<1>2. a # <<>>
  BY AppendProperties
<1> HIDE DEF a
<1>3. /\ Tail(a) \in Seq(Entry) /\ Len(Tail(a)) = Len(a) - 1
      /\ \A i \in 1..Len(Tail(a)) : Tail(a)[i] = a[i + 1]
  BY <1>1, <1>2, HeadTailProperties
<1>4. \A i \in DOMAIN Tail(a) : i + 1 \in 1..Len(a) /\ Tail(a)[i] = a[i + 1]
  BY <1>1, <1>3
<1>5. Newest(a) \in {a, Tail(a)}
  BY DEF Newest
<1>6. DOMAIN a = 1..Len(a) /\ DOMAIN r = 1..Len(r)
  BY <1>1
<1>7. \A i \in DOMAIN a : a[i] = e \/ \E j \in DOMAIN r : a[i] = r[j]
  BY <1>1, <1>6
<1>8. \A i \in DOMAIN Tail(a) : Tail(a)[i] = e \/ \E j \in DOMAIN r : Tail(a)[i] = r[j]
  BY <1>4, <1>6, <1>7
<1> DEFINE n == Newest(a)
<1>9. n \in Seq(Entry) /\ \A i \in DOMAIN n : n[i] = e \/ \E j \in DOMAIN r : n[i] = r[j]
  <2> HIDE DEF n
  <2>1. n \in {a, Tail(a)}
    BY <1>5 DEF n
  <2> QED
    BY <1>1, <1>3, <1>7, <1>8, <2>1
<1> QED
  BY <1>9 DEF a

LEMMA AddIs ==
  ASSUME NEW hh \in HistoryType, NEW gen \in Nat, NEW t \in Nat, NEW st \in Statuses
  PROVE  LET n == Add(hh, gen, t, st) IN
         /\ n \in HistoryType /\ n.gen = hh.gen /\ n.tgen = hh.tgen /\ n.tid = hh.tid
         /\ n.ttsFailed = hh.ttsFailed
         /\ \A i \in DOMAIN n.ring : \/ \E j \in DOMAIN hh.ring : n.ring[i] = hh.ring[j]
                                     \/ gen = hh.gen /\ n.ring[i] = [turn |-> t, status |-> st]
<1> DEFINE e == [turn |-> t, status |-> st]
           r == Newest(Append(hh.ring, e))
<1>1. e \in Entry /\ hh.ring \in Seq(Entry)
  BY DEF Entry, HistoryType
<1>2. /\ r \in Seq(Entry)
      /\ \A i \in DOMAIN r : r[i] = e \/ \E j \in DOMAIN hh.ring : r[i] = hh.ring[j]
  BY <1>1, NewestIs
<1>3. Add(hh, gen, t, st) = IF gen # hh.gen THEN hh ELSE [hh EXCEPT !.ring = r]
  BY DEF Add
<1> HIDE DEF r, e
<1>4. CASE gen # hh.gen
  BY <1>3, <1>4
<1>5. CASE gen = hh.gen
  <2> DEFINE n == [hh EXCEPT !.ring = r]
  <2>1. /\ n \in HistoryType /\ n.gen = hh.gen /\ n.tgen = hh.tgen /\ n.tid = hh.tid
        /\ n.ttsFailed = hh.ttsFailed /\ n.ring = r
    BY <1>2 DEF HistoryType
  <2>2. Add(hh, gen, t, st) = n
    BY <1>3, <1>5
  <2> HIDE DEF n
  <2> QED
    BY <1>2, <1>5, <2>1, <2>2 DEF e
<1> QED
  BY <1>4, <1>5

LEMMA AddKeeps ==
  ASSUME NEW hh \in HistoryType, NEW gen \in Nat, NEW t \in Nat, NEW st \in Statuses,
         NEW n, n = Add(hh, gen, t, st)
  PROVE  n \in HistoryType /\ n.gen = hh.gen /\ n.tgen = hh.tgen
  BY ZenonT(60), AddIs

-----------------------------------------------------------------------------
\* The turns in hand, and the history they go to.
LEMMA TurnNumbers ==
  ASSUME TalkType, TurnInv
  PROVE  /\ setup.turns \in Nat /\ setup.turns <= MaxTurns /\ p.turns \in Nat /\ MaxTurns \in Nat
         /\ \A t \in Nat : t # 0 /\ t <= p.turns => t \in Turns
         /\ {p.turn, p.pending, p.dispatch} \subseteq 0..p.turns
  BY AgentAssumption DEF TalkType, TurnInv, Numbers, Turns, PipelineType

LEMMA InHandIs ==
  TalkType /\ TurnInv =>
    /\ p.turn # 0 => InHand = {p.turn}
    /\ p.pending # 0 => InHand = {p.pending}
    /\ p.dispatch # 0 => InHand = IF Voice.pc \in {"wait", "unlock"} THEN {} ELSE {p.dispatch}
    /\ p.turn = 0 /\ p.pending = 0 /\ p.dispatch = 0 => InHand = {}
  BY DEF TurnInv, OneInFlight, VoiceServes, InHand, Voice

LEMMA InHandIn ==
  ASSUME TalkType, TurnInv
  PROVE  InHand \subseteq 1..p.turns /\ InHand \subseteq Turns
<1>1. InHand \subseteq {p.turn, p.pending, p.dispatch} \ {0}
  BY InHandIs
<1> QED
  BY <1>1, TurnNumbers

\* A turn that gets its outcome has no entry yet.
LEMMA RingRecords ==
  ASSUME TalkType, TurnInv, setup' = setup,
         NEW t \in Turns, NEW gen \in Nat, NEW st \in Statuses, outcome[t] = "none",
         h'.gen = h.gen, h'.ring = Add(h, gen, t, st).ring,
         outcome' = [outcome EXCEPT ![t] = st],
         \A u \in Turns : u # t => born'[u] = born[u],
         gen = h.gen => born'[t] = h.gen,
         p'.turns \in Nat, p.turns <= p'.turns, t <= p'.turns
  PROVE  RingTrue'
<1> DEFINE n == Add(h, gen, t, st)
<1>1. \A i \in DOMAIN n.ring : \/ \E j \in DOMAIN h.ring : n.ring[i] = h.ring[j]
                               \/ gen = h.gen /\ n.ring[i] = [turn |-> t, status |-> st]
  <2>1. h \in HistoryType /\ t \in Nat
    BY DEF TalkType, Turns
  <2> QED
    BY <2>1, AddIs
<1>2. \A j \in DOMAIN h.ring : /\ h.ring[j] \in Entry /\ h.ring[j].turn \in 1..p.turns
                               /\ born[h.ring[j].turn] = h.gen
                               /\ outcome[h.ring[j].turn] = h.ring[j].status
  BY DEF TurnInv, RingTrue, TalkType, HistoryType
<1>3. \A j \in DOMAIN h.ring : h.ring[j].turn # t /\ h.ring[j].turn \in Turns
  <2>1. "none" \notin Statuses
    BY DEF Statuses, Promised!Statuses
  <2> QED
    BY <1>2, <2>1, TurnNumbers DEF Entry
<1> HIDE DEF n
<1>4. ASSUME NEW i \in DOMAIN n.ring
      PROVE  /\ n.ring[i].turn \in 1..p'.turns /\ born'[n.ring[i].turn] = h.gen
             /\ outcome'[n.ring[i].turn] = n.ring[i].status
  <2>1. CASE gen = h.gen /\ n.ring[i] = [turn |-> t, status |-> st]
    BY <2>1 DEF TalkType, Turns
  <2>2. CASE \E j \in DOMAIN h.ring : n.ring[i] = h.ring[j]
    <3>1. PICK j \in DOMAIN h.ring : n.ring[i] = h.ring[j]
      BY <2>2
    <3>2. /\ h.ring[j].turn \in 1..p.turns /\ h.ring[j].turn \in Turns /\ h.ring[j].turn # t
          /\ born[h.ring[j].turn] = h.gen /\ outcome[h.ring[j].turn] = h.ring[j].status
      BY <1>2, <1>3
    <3>3. outcome'[h.ring[j].turn] = outcome[h.ring[j].turn]
      BY <3>2 DEF TalkType
    <3> QED
      BY <3>1, <3>2, <3>3, TurnNumbers
  <2> QED
    BY <1>1, <2>1, <2>2
<1> QED
  BY <1>4 DEF RingTrue, n

\* The upgrade of a spoken entry: its turn is not in hand.
LEMMA UpgradeKeeps ==
  ASSUME TalkType, TurnInv, NoteTtsFailure, UNCHANGED <<setup, born>>
  PROVE  /\ h' \in HistoryType /\ h'.gen = h.gen /\ h'.tgen = h.tgen
         /\ outcome' \in [Turns -> Statuses \cup {"none"}]
         /\ \A t \in Turns : outcome[t] = "none" => outcome'[t] = "none"
         /\ \A i \in DOMAIN h'.ring : /\ h'.ring[i].turn \in 1..p.turns
                                      /\ born[h'.ring[i].turn] = h.gen
                                      /\ outcome'[h'.ring[i].turn] = h'.ring[i].status
         /\ \/ outcome' = outcome
            \/ \E t \in Turns : outcome[t] = "completed"
                                /\ outcome' = [outcome EXCEPT ![t] = "tts_failed"]
<1> DEFINE r == IF Upgradable THEN Upgraded ELSE h.ring
<1>0. h \in HistoryType /\ h.ring \in Seq(Entry) /\ outcome \in [Turns -> Statuses \cup {"none"}]
  BY DEF TalkType, HistoryType
<1>1. \A j \in DOMAIN h.ring : /\ h.ring[j] \in Entry /\ h.ring[j].turn \in 1..p.turns
                               /\ born[h.ring[j].turn] = h.gen
                               /\ outcome[h.ring[j].turn] = h.ring[j].status
                               /\ h.ring[j].turn \in Turns
  BY <1>0, TurnNumbers DEF TurnInv, RingTrue
<1>2. h' = [h EXCEPT !.ttsFailed = TRUE, !.ring = r]
  BY <1>0 DEF NoteTtsFailure, HistoryType
<1>3. CASE ~ Upgradable
  <2>1. r = h.ring /\ outcome' = outcome
    BY <1>3 DEF NoteTtsFailure
  <2> HIDE DEF r
  <2>2. h' \in HistoryType /\ h'.gen = h.gen /\ h'.tgen = h.tgen /\ h'.ring = h.ring
    BY <1>0, <1>2, <2>1 DEF HistoryType
  <2> QED
    BY <1>0, <1>1, <2>1, <2>2
<1>4. CASE Upgradable
  <2>1. r = Upgraded /\ outcome' = [outcome EXCEPT ![h.tid] = "tts_failed"]
    BY <1>4 DEF NoteTtsFailure
  <2>2. PICK k \in DOMAIN h.ring : h.ring[k] = [turn |-> h.tid, status |-> "completed"]
    BY <1>4 DEF Upgradable
  <2>3. h.tid \in Turns /\ outcome[h.tid] = "completed"
    BY <1>1, <2>2
  <2>4. /\ DOMAIN r = DOMAIN h.ring
        /\ \A i \in DOMAIN h.ring :
             /\ r[i] \in Entry /\ r[i].turn = h.ring[i].turn
             /\ r[i].status = IF h.ring[i].turn = h.tid THEN "tts_failed" ELSE h.ring[i].status
    BY <1>1, <2>1 DEF Upgraded, Entry, Statuses, Promised!Statuses
  <2>5. r \in Seq(Entry)
    <3>1. Len(h.ring) \in Nat /\ DOMAIN h.ring = 1..Len(h.ring)
      BY <1>0
    <3>2. r = [i \in 1..Len(h.ring) |-> r[i]]
      BY <2>1, <3>1 DEF Upgraded
    <3> HIDE DEF r
    <3>3. r \in [1..Len(h.ring) -> Entry]
      BY <2>4, <3>1, <3>2
    <3> QED
      BY <3>1, <3>3
  <2> HIDE DEF r
  <2>6. h' \in HistoryType /\ h'.gen = h.gen /\ h'.tgen = h.tgen /\ h'.ring = r
    BY <1>0, <1>2, <2>5 DEF HistoryType
  <2>7. outcome' \in [Turns -> Statuses \cup {"none"}]
    BY <1>0, <2>1 DEF Statuses, Promised!Statuses
  <2>8. \A t \in Turns : outcome'[t] = IF t = h.tid THEN "tts_failed" ELSE outcome[t]
    BY <1>0, <2>1
  <2>9. ASSUME NEW i \in DOMAIN h'.ring
        PROVE  /\ h'.ring[i].turn \in 1..p.turns /\ born[h'.ring[i].turn] = h.gen
               /\ outcome'[h'.ring[i].turn] = h'.ring[i].status
    <3>1. i \in DOMAIN h.ring /\ h'.ring[i].turn = h.ring[i].turn
      BY <2>4, <2>6
    <3>2. h.ring[i].turn \in Turns /\ outcome[h.ring[i].turn] = h.ring[i].status
      BY <1>1, <3>1
    <3> QED
      BY <1>1, <2>4, <2>6, <2>8, <3>1, <3>2
  <2>10. \A t \in Turns : outcome[t] = "none" => outcome'[t] = "none"
    BY <2>3, <2>8
  <2> QED
    BY <2>1, <2>3, <2>6, <2>7, <2>9, <2>10
<1> QED
  BY <1>3, <1>4

-----------------------------------------------------------------------------
(***************************************************************************)
(* What one step does: it keeps the invariant, moves the promised turns as *)
(* their document says, and listens for a follow-up only when the question *)
(* has been spoken.                                                        *)
(***************************************************************************)
TurnStep ==
  \/ InHand' = InHand /\ outcome' = outcome
  \/ \E t \in Turns :
       \/ InHand = {} /\ outcome[t] = "none" /\ InHand' = {t} /\ outcome' = outcome
       \/ /\ t \notin InHand /\ outcome[t] = "none" /\ InHand' = InHand
          /\ outcome' = [outcome EXCEPT ![t] = "cancelled"]
       \/ /\ outcome[t] = "completed" /\ InHand' = InHand
          /\ outcome' = [outcome EXCEPT ![t] = "tts_failed"]
       \/ \E st \in Statuses :
            InHand = {t} /\ InHand' = {} /\ outcome' = [outcome EXCEPT ![t] = st]
ListenStep == p.turn # p'.turn /\ p'.pc = "begin" /\ p'.foll => SpokenOut(p.asked)
TalkStep == TalkInv' /\ TurnStep /\ ListenStep

\* Nothing the invariant is about moves but the pipeline's own fields.
LEMMA PipelineIdles ==
  ASSUME TalkInv, UNCHANGED <<setup, h, born, outcome, pb, th>>, p' \in PipelineType,
         p'.turn = p.turn, p'.pending = p.pending, p'.dispatch = p.dispatch,
         p'.turns = p.turns, p'.follow <=> p.follow, p'.asked = p.asked,
         p'.pc \in {p.pc, "loop"}
  PROVE  TalkStep
<1>1. InHand' = InHand
  BY DEF InHand
<1>2. TalkType'
  BY DEF TalkInv, TalkType, Turns
<1>3. TurnInv'
  BY <1>1 DEF TalkInv, TurnInv, Numbers, OneInFlight, VoiceServes, HandOpen, FreshOpen, RingTrue,
              VoiceKnows, Voice, Turns
<1>4. FollowInv'
  BY DEF TalkInv, FollowInv, SpokenOut, Voice
<1> QED
  BY <1>1, <1>2, <1>3, <1>4 DEF TalkInv, TalkStep, TurnStep, ListenStep

\* A turn begins, by a wake word or as a follow-up.
LEMMA StartsSound ==
  ASSUME TalkInv, NEW foll \in BOOLEAN, Starts(Fresh, foll), Fresh \in Turns, ~ InFlight,
         foll => p.follow, UNCHANGED <<setup, pb, th>>
  PROVE  TalkStep
<1> DEFINE f == p.follow /\ ~ foll
           w == IF foll THEN p.wakes ELSE p.wakes + 1
<1> USE DEF TalkInv
<1>1. /\ p \in PipelineType /\ h \in HistoryType /\ born \in [Turns -> Nat]
      /\ p.turns \in Nat /\ Fresh = p.turns + 1 /\ Fresh \in Nat /\ Turns' = Turns
  BY DEF TalkType, Fresh, Turns, PipelineType
<1>2. f \in BOOLEAN /\ w \in Nat
  BY <1>1 DEF PipelineType
<1>3. p' = [p EXCEPT !.pc = "begin", !.turn = Fresh, !.foll = foll, !.chan = "none",
                     !.turns = Fresh, !.follow = f, !.wakes = w]
  BY <1>1 DEF Starts, PipelineType
<1> HIDE DEF f, w
<1>4. /\ p' \in PipelineType /\ p'.turn = Fresh /\ p'.turns = Fresh /\ p'.pending = p.pending
      /\ p'.dispatch = p.dispatch /\ (p'.follow <=> f) /\ p'.asked = p.asked /\ p'.pc = "begin"
      /\ (p'.foll <=> foll)
  BY <1>1, <1>2, <1>3 DEF PipelineType, Chans
<1>5. /\ h' \in HistoryType /\ h'.tgen = h.gen /\ h'.gen = h.gen /\ h'.ring = h.ring
      /\ born' \in [Turns -> Nat] /\ born'[Fresh] = h.gen /\ outcome' = outcome
      /\ \A u \in Turns : u # Fresh => born'[u] = born[u]
  BY <1>1 DEF Starts, TurnBegins, HistoryType
<1>6. p.turn = 0 /\ p.pending = 0 /\ p.dispatch = 0 /\ Voice.pc = "idle"
  BY <1>1 DEF InFlight, TurnInv, VoiceServes
<1>7. InHand = {} /\ InHand' = {Fresh} /\ outcome[Fresh] = "none"
  BY <1>1, <1>4, <1>6 DEF InHand, Voice, TurnInv, FreshOpen
<1>8. TalkType'
  BY <1>1, <1>4, <1>5 DEF TalkType
<1>9. TurnInv'
  <2>1. Numbers'
    BY <1>1, <1>4, <1>6, TurnNumbers DEF Numbers, Turns
  <2>2. OneInFlight' /\ VoiceServes' /\ VoiceKnows'
    BY <1>4, <1>6, <1>1 DEF OneInFlight, VoiceServes, VoiceKnows, Voice
  <2>3. HandOpen'
    BY <1>5, <1>7 DEF HandOpen
  <2>4. FreshOpen'
    BY <1>1, <1>4, <1>5, TurnNumbers DEF FreshOpen, TurnInv, Turns
  <2>5. RingTrue'
    <3>1. \A i \in DOMAIN h.ring : /\ h.ring[i].turn \in 1..p.turns
                                   /\ born[h.ring[i].turn] = h.gen
                                   /\ outcome[h.ring[i].turn] = h.ring[i].status
      BY DEF TurnInv, RingTrue
    <3>2. \A t \in 1..p.turns : t \in 1..p'.turns /\ t \in Turns /\ t # Fresh
      BY <1>1, <1>4, TurnNumbers
    <3> QED
      BY <1>5, <3>1, <3>2 DEF RingTrue
  <2> QED
    BY <2>1, <2>2, <2>3, <2>4, <2>5 DEF TurnInv
<1>10. FollowInv'
  <2>1. p.follow => p.asked # Fresh /\ p.asked \in 1..Fresh
    BY <1>1 DEF FollowInv
  <2> QED
    BY <1>4, <1>6, <2>1 DEF FollowInv, SpokenOut, Voice, f
<1>11. ListenStep
  BY <1>4 DEF ListenStep, FollowInv
<1>12. TurnStep
  BY <1>5, <1>7 DEF TurnStep
<1> QED
  BY <1>8, <1>9, <1>10, <1>11, <1>12 DEF TalkStep

\* A wake word while a turn is in flight: a cancelled turn of its own.
LEMMA RefusedSound ==
  ASSUME TalkInv, WakeHeard, InFlight, UNCHANGED <<setup, pb, th>>
  PROVE  TalkStep
<1> DEFINE w == p.wakes + 1
<1> USE DEF TalkInv
<1>1. /\ p \in PipelineType /\ h \in HistoryType /\ born \in [Turns -> Nat]
      /\ outcome \in [Turns -> Statuses \cup {"none"}]
      /\ p.turns \in Nat /\ Fresh = p.turns + 1 /\ Fresh \in Nat /\ Turns' = Turns
      /\ Fresh \in Turns /\ "cancelled" \in Statuses /\ h.tgen \in Nat /\ h.gen \in Nat
  BY DEF TalkType, Fresh, Turns, PipelineType, HistoryType, WakeHeard, Statuses, Promised!Statuses
<1>2. w \in Nat
  BY <1>1 DEF PipelineType
<1>3. p' = [p EXCEPT !.turns = Fresh, !.wakes = w]
  BY <1>1 DEF WakeHeard, PipelineType
<1> HIDE DEF w
<1>4. /\ p' \in PipelineType /\ p'.turn = p.turn /\ p'.turns = Fresh /\ p'.pending = p.pending
      /\ p'.dispatch = p.dispatch /\ (p'.follow <=> p.follow) /\ p'.asked = p.asked /\ p'.pc = p.pc
  BY <1>1, <1>2, <1>3 DEF PipelineType
<1>5. /\ h' = Add(h, h.tgen, Fresh, "cancelled")
      /\ outcome' = [outcome EXCEPT ![Fresh] = "cancelled"]
      /\ born' = [born EXCEPT ![Fresh] = h.gen]
  BY DEF WakeHeard, Outcome
<1>6. h' \in HistoryType /\ h'.gen = h.gen /\ h'.tgen = h.tgen
  <2>1. h \in HistoryType /\ h.tgen \in Nat /\ Fresh \in Nat /\ "cancelled" \in Statuses
    BY <1>1
  <2>2. Add(h, h.tgen, Fresh, "cancelled") \in HistoryType
    BY <2>1, AddKeeps
  <2>3. \A n : n = Add(h, h.tgen, Fresh, "cancelled") => n.gen = h.gen /\ n.tgen = h.tgen
    BY <2>1, AddKeeps
  <2> QED
    BY <1>5, <2>2, <2>3
<1>7. /\ outcome' \in [Turns -> Statuses \cup {"none"}] /\ born' \in [Turns -> Nat]
      /\ born'[Fresh] = h.gen
      /\ \A u \in Turns : u # Fresh => born'[u] = born[u] /\ outcome'[u] = outcome[u]
  BY <1>1, <1>5
<1>8. outcome[Fresh] = "none" /\ Fresh \notin InHand /\ InHand' = InHand /\ InHand \subseteq Turns
  <2>1. InHand \subseteq 1..p.turns /\ InHand \subseteq Turns
    BY InHandIn
  <2>2. outcome[Fresh] = "none"
    BY <1>1 DEF TurnInv, FreshOpen
  <2> QED
    BY <1>1, <1>4, <2>1, <2>2 DEF InHand
<1>9. TalkType'
  BY <1>1, <1>4, <1>6, <1>7 DEF TalkType
<1>10. TurnInv'
  <2>1. Numbers'
    BY <1>1, <1>4, TurnNumbers DEF TurnInv, Numbers, Turns
  <2>2. OneInFlight' /\ VoiceServes' /\ VoiceKnows'
    BY <1>4, <1>6 DEF TurnInv, OneInFlight, VoiceServes, VoiceKnows, Voice
  <2>3. HandOpen'
    BY <1>6, <1>7, <1>8 DEF TurnInv, HandOpen
  <2>4. FreshOpen'
    BY SMTT(60), <1>1, <1>4, <1>7, TurnNumbers DEF FreshOpen, TurnInv, Turns
  <2>5. RingTrue'
    <3>1. h'.ring = Add(h, h.tgen, Fresh, "cancelled").ring /\ p'.turns \in Nat
          /\ p.turns <= p'.turns /\ Fresh <= p'.turns
      BY <1>1, <1>4, <1>5
    <3> QED
      BY <1>1, <1>5, <1>6, <1>7, <1>8, <3>1, RingRecords
  <2> QED
    BY <2>1, <2>2, <2>3, <2>4, <2>5 DEF TurnInv
<1>11. FollowInv'
  <2>1. p.follow => p.asked \in 1..Fresh
    BY <1>1 DEF FollowInv
  <2> QED
    BY <1>4, <2>1 DEF FollowInv, SpokenOut, Voice
<1>12. ListenStep
  BY <1>4 DEF ListenStep
<1>13. TurnStep
  BY <1>1, <1>5, <1>8 DEF TurnStep
<1> QED
  BY <1>9, <1>10, <1>11, <1>12, <1>13 DEF TalkStep

\* A turn that ends before it has a transcript.
LEMMA ClosedSound ==
  ASSUME TalkInv, p.turn # 0, p' = Closed, NEW st \in Statuses, Outcome(p.turn, st),
         UNCHANGED <<setup, born, pb, th>>
  PROVE  TalkStep
<1> DEFINE t == p.turn
<1> USE DEF TalkInv
<1>1. /\ p \in PipelineType /\ h \in HistoryType /\ born \in [Turns -> Nat]
      /\ outcome \in [Turns -> Statuses \cup {"none"}] /\ Turns' = Turns
      /\ p.turns \in Nat /\ t \in Turns /\ t \in Nat /\ t <= p.turns /\ h.tgen \in Nat
  BY TurnNumbers DEF TalkType, Turns, PipelineType, HistoryType
<1>2. /\ p' \in PipelineType /\ p'.turn = 0 /\ p'.turns = p.turns /\ p'.pending = p.pending
      /\ p'.dispatch = p.dispatch /\ (p'.follow <=> p.follow) /\ p'.asked = p.asked /\ p'.pc = "loop"
  BY <1>1 DEF PipelineType, Closed, Chans
<1>3. InHand = {t} /\ InHand' = {} /\ outcome[t] = "none" /\ born[t] = h.tgen
  <2>1. p.pending = 0 /\ p.dispatch = 0 /\ Voice.pc = "idle" /\ InHand = {t}
    BY InHandIs DEF TurnInv, OneInFlight, VoiceServes
  <2>2. outcome[t] = "none" /\ born[t] = h.tgen
    BY <2>1 DEF TurnInv, HandOpen
  <2> QED
    BY <1>2, <2>1, <2>2 DEF InHand, Voice
<1>4. h' = Add(h, h.tgen, t, st) /\ outcome' = [outcome EXCEPT ![t] = st]
  BY DEF Outcome
<1>5. h' \in HistoryType /\ h'.gen = h.gen /\ h'.tgen = h.tgen
  <2>1. h \in HistoryType /\ h.tgen \in Nat /\ t \in Nat /\ st \in Statuses
    BY <1>1
  <2>2. Add(h, h.tgen, t, st) \in HistoryType
    BY <2>1, AddKeeps
  <2>3. \A n : n = Add(h, h.tgen, t, st) => n.gen = h.gen /\ n.tgen = h.tgen
    BY <2>1, AddKeeps
  <2> QED
    BY <1>4, <2>2, <2>3
<1>6. /\ outcome' \in [Turns -> Statuses \cup {"none"}]
      /\ \A u \in Turns : u # t => outcome'[u] = outcome[u]
  BY <1>1, <1>4
<1>7. TalkType'
  BY <1>1, <1>2, <1>5, <1>6 DEF TalkType
<1>8. TurnInv'
  <2>1. Numbers' /\ OneInFlight' /\ VoiceServes' /\ VoiceKnows'
    BY <1>1, <1>2, <1>5 DEF TurnInv, Numbers, OneInFlight, VoiceServes, VoiceKnows, Voice
  <2>2. HandOpen'
    BY <1>3 DEF HandOpen
  <2>3. FreshOpen'
    BY <1>1, <1>2, <1>6 DEF FreshOpen, TurnInv, Turns
  <2>4. RingTrue'
    <3>1. h'.ring = Add(h, h.tgen, t, st).ring /\ p'.turns \in Nat
          /\ p.turns <= p'.turns /\ t <= p'.turns /\ (h.tgen = h.gen => born'[t] = h.gen)
      BY <1>1, <1>2, <1>3, <1>4
    <3> HIDE DEF t
    <3> QED
      BY <1>1, <1>3, <1>4, <1>5, <3>1, RingRecords
  <2> QED
    BY <2>1, <2>2, <2>3, <2>4 DEF TurnInv
<1>9. FollowInv'
  BY <1>2 DEF FollowInv, SpokenOut, Voice
<1>10. ListenStep
  BY <1>2 DEF ListenStep
<1>11. TurnStep
  BY <1>1, <1>3, <1>4 DEF TurnStep
<1> QED
  BY <1>7, <1>8, <1>9, <1>10, <1>11 DEF TalkStep

\* A transcript goes to the pending slot.
LEMMA QueuedSound ==
  ASSUME TalkInv, p.turn # 0, p.chan \in Kinds,
         p' = [Closed EXCEPT !.pending = p.turn, !.kind = p.chan],
         UNCHANGED <<setup, h, born, outcome, pb, th>>
  PROVE  TalkStep
<1> USE DEF TalkInv
<1>1. p \in PipelineType /\ Turns' = Turns
  BY DEF TalkType, Turns
<1>2. /\ p' \in PipelineType /\ p'.turn = 0 /\ p'.turns = p.turns /\ p'.pending = p.turn
      /\ p'.dispatch = p.dispatch /\ (p'.follow <=> p.follow) /\ p'.asked = p.asked /\ p'.pc = "loop"
  BY <1>1 DEF PipelineType, Closed, Chans
<1>3. p.pending = 0 /\ p.dispatch = 0 /\ Voice.pc = "idle" /\ InHand = {p.turn}
  BY InHandIs DEF TurnInv, OneInFlight, VoiceServes
<1>4. InHand' = InHand
  BY <1>2, <1>3 DEF InHand, Voice
<1>5. TalkType'
  BY <1>1, <1>2 DEF TalkType
<1>6. TurnInv'
  BY <1>1, <1>2, <1>3, <1>4 DEF TurnInv, Numbers, OneInFlight, VoiceServes, HandOpen, FreshOpen,
                                RingTrue, VoiceKnows, Voice
<1>7. FollowInv'
  BY <1>2, <1>3 DEF FollowInv, SpokenOut, Voice
<1> QED
  BY <1>2, <1>4, <1>5, <1>6, <1>7 DEF TalkStep, TurnStep, ListenStep

\* The capture thread and the recogniser.
LEMMA CaptureSound ==
  ASSUME TalkInv, UNCHANGED <<setup, pb, th>>,
         WakedRestarts \/ WakeHeard \/ TimesOut \/ SttRefuses \/ SttEnds \/ Capture
  PROVE  TalkStep
<1> USE DEF TalkInv
<1>0. p \in PipelineType
  BY DEF TalkType
<1>1. CASE WakedRestarts \/ Subscribes \/ SttAccepts
  <2>1. \/ p' = [p EXCEPT !.subs = FALSE]
        \/ p' = [p EXCEPT !.subs = TRUE]
        \/ p' = [p EXCEPT !.pc = "loop"]
    BY <1>1 DEF WakedRestarts, Subscribes, SttAccepts
  <2>2. /\ p' \in PipelineType /\ p'.turn = p.turn /\ p'.turns = p.turns /\ p'.pending = p.pending
        /\ p'.dispatch = p.dispatch /\ (p'.follow <=> p.follow) /\ p'.asked = p.asked
        /\ p'.pc \in {p.pc, "loop"}
    BY <1>0, <2>1 DEF PipelineType
  <2>3. UNCHANGED <<h, born, outcome>>
    BY <1>1 DEF WakedRestarts, Subscribes, SttAccepts, historyVars
  <2> QED
    BY <2>2, <2>3, PipelineIdles
<1>2. CASE SttEnds
  <2>1. PICK out \in setup.kinds \cup {"empty", "eof"} :
          p' = [p EXCEPT !.chan = IF stt = p.turn /\ p.pc = "loop" THEN out ELSE @]
    BY <1>2 DEF SttEnds
  <2> DEFINE c == IF stt = p.turn /\ p.pc = "loop" THEN out ELSE p.chan
  <2>2. out \in Chans
    BY AgentAssumption DEF TalkType, Chans
  <2>3. c \in Chans /\ p' = [p EXCEPT !.chan = c]
    BY <1>0, <2>1, <2>2 DEF PipelineType
  <2> HIDE DEF c
  <2>4. /\ p' \in PipelineType /\ p'.turn = p.turn /\ p'.turns = p.turns /\ p'.pending = p.pending
        /\ p'.dispatch = p.dispatch /\ (p'.follow <=> p.follow) /\ p'.asked = p.asked
        /\ p'.pc \in {p.pc, "loop"}
    BY <1>0, <2>3 DEF PipelineType
  <2>5. UNCHANGED <<h, born, outcome>>
    BY <1>2 DEF SttEnds, historyVars
  <2> QED
    BY <2>4, <2>5, PipelineIdles
<1>3. CASE WakeHeard
  <2>1. CASE InFlight
    BY <1>3, <2>1, RefusedSound
  <2>2. CASE ~ InFlight
    <3>1. Starts(Fresh, FALSE) /\ Fresh \in Turns
      BY <1>3, <2>2 DEF WakeHeard
    <3> QED
      BY <2>2, <3>1, StartsSound
  <2> QED
    BY <2>1, <2>2
<1>4. CASE FollowsUp
  <2>1. Starts(Fresh, TRUE) /\ Fresh \in Turns /\ p.follow /\ ~ InFlight
    BY <1>4 DEF FollowsUp, InFlight
  <2> QED
    BY <2>1, StartsSound
<1>5. CASE TimesOut
  <2>1. p.turn # 0 /\ p' = Closed /\ Outcome(p.turn, "timed_out") /\ born' = born /\ "timed_out" \in Statuses
    BY <1>5 DEF TimesOut, Statuses, Promised!Statuses
  <2> QED
    BY <2>1, ClosedSound
<1>6. CASE SttRefuses
  <2>1. p' = Closed /\ Outcome(p.turn, "stt_failed") /\ born' = born /\ "stt_failed" \in Statuses
    BY <1>6 DEF SttRefuses, Statuses, Promised!Statuses
  <2>2. p.turn # 0
    BY <1>6 DEF SttRefuses, FollowInv, TurnInv, Numbers
  <2> QED
    BY <2>1, <2>2, ClosedSound
<1>7. CASE ReadsLine
  <2>1. p.turn # 0 /\ born' = born
    BY <1>7 DEF ReadsLine
  <2>2. CASE p.chan \notin Kinds
    <3>1. p' = Closed /\ Outcome(p.turn, "stt_failed") /\ "stt_failed" \in Statuses
      BY <1>7, <2>2 DEF ReadsLine, Statuses, Promised!Statuses
    <3> QED
      BY <2>1, <3>1, ClosedSound
  <2>3. CASE p.chan \in Kinds
    <3>1. p.pending = 0 /\ p.dispatch = 0
      BY <2>1 DEF TurnInv, OneInFlight
    <3>2. /\ p' = [Closed EXCEPT !.pending = p.turn, !.kind = p.chan]
          /\ UNCHANGED <<h, outcome>>
      BY <1>7, <2>3, <3>1 DEF ReadsLine, QueueTranscript
    <3> QED
      BY <2>1, <2>3, <3>2, QueuedSound
  <2> QED
    BY <2>2, <2>3
<1> QED
  BY <1>1, <1>2, <1>3, <1>4, <1>5, <1>6, <1>7 DEF Capture

-----------------------------------------------------------------------------
\* The voice thread goes from place to place with the same turn in hand.
Outside == {"idle", "wait", "unlock"}
VoicePath ==
  \/ Voice' = Voice
  \/ /\ Voice.pc \notin Outside /\ Voice'.pc \notin Outside /\ Voice'.turn = Voice.turn
     /\ Voice'.pc # "lock" => Voice'.gen = h.tgen
     /\ Voice'.pc \in {"say", "saying", "record"} => Voice'.status \in Found

\* A step of a thread or of the worker that leaves the pipeline alone.
LEMMA TalkOn ==
  ASSUME TalkInv, UNCHANGED <<setup, p, born>>, UNCHANGED <<h, outcome>> \/ NoteTtsFailure,
         th' \in [Threads -> ThreadType], th'["api"].pc # "wait", VoicePath,
         pb' \in QueueType, pb'.w = "idle" => pb'.item = 0,
         p.follow => SpokenOut(p.asked)'
  PROVE  TalkStep
<1> USE DEF TalkInv
<1>1. /\ h' \in HistoryType /\ h'.gen = h.gen /\ h'.tgen = h.tgen
      /\ outcome' \in [Turns -> Statuses \cup {"none"}]
      /\ \A t \in Turns : outcome[t] = "none" => outcome'[t] = "none"
      /\ RingTrue'
      /\ \/ outcome' = outcome
         \/ \E t \in Turns : outcome[t] = "completed"
                             /\ outcome' = [outcome EXCEPT ![t] = "tts_failed"]
  <2>1. CASE UNCHANGED <<h, outcome>>
    BY <2>1 DEF TalkType, TurnInv, RingTrue
  <2>2. CASE NoteTtsFailure
    BY <2>2, UpgradeKeeps DEF RingTrue
  <2> QED
    BY <2>1, <2>2
<1>2. InHand' = InHand
  BY DEF VoicePath, Outside, InHand, Voice
<1>3. TalkType'
  BY <1>1 DEF TalkType, Turns
<1>4. TurnInv'
  <2>1. Numbers' /\ OneInFlight'
    BY DEF TurnInv, Numbers, OneInFlight
  <2>2. VoiceServes'
    BY DEF TurnInv, VoiceServes, VoicePath, Outside, Voice
  <2>3. VoiceKnows'
    <3>1. CASE Voice' = Voice
      BY <1>1, <3>1 DEF TurnInv, VoiceKnows
    <3>2. CASE Voice' # Voice
      BY <1>1, <3>2 DEF VoiceKnows, VoicePath, Outside
    <3> QED
      BY <3>1, <3>2
  <2>4. HandOpen'
    BY <1>1, <1>2, InHandIn DEF TurnInv, HandOpen
  <2>5. FreshOpen'
    BY <1>1 DEF TurnInv, FreshOpen, Turns
  <2> QED
    BY <1>1, <2>1, <2>2, <2>3, <2>4, <2>5 DEF TurnInv
<1>5. FollowInv'
  <2>1. Voice'.pc \notin {"idle", "unlock"} =>
          Voice.pc \notin {"idle", "unlock"} /\ Voice'.turn = Voice.turn
    BY DEF VoicePath, Outside
  <2> QED
    BY <2>1 DEF FollowInv
<1>6. TurnStep
  BY <1>1, <1>2 DEF TurnStep
<1>7. ListenStep
  BY DEF ListenStep
<1> QED
  BY <1>3, <1>4, <1>5, <1>6, <1>7 DEF TalkStep

\* What the worker has left of the queue.
LEMMA DoneIs ==
  ASSUME TalkType, NEW failed \in BOOLEAN, Done(failed)
  PROVE  pb' \in QueueType /\ pb'.w = "idle" /\ pb'.item = 0 /\ pb'.queue = pb.queue
<1> DEFINE f == pb.failed \/ (failed /\ ~ pb.cancelled)
<1>1. pb \in QueueType /\ f \in BOOLEAN
  BY DEF TalkType, QueueType
<1>2. pb' = [pb EXCEPT !.w = "idle", !.item = 0, !.failed = f]
  BY <1>1 DEF Done, QueueType
<1> HIDE DEF f
<1> QED
  BY <1>1, <1>2 DEF QueueType

LEMMA WorkerSound ==
  ASSUME TalkInv, UNCHANGED <<setup, p, born, th>>, Worker \/ SpeechEnds
  PROVE  TalkStep
<1> USE DEF TalkInv
<1>1. /\ pb \in QueueType /\ pb.queue \in Seq(Nat) /\ th \in [Threads -> ThreadType]
      /\ th["api"].pc # "wait" /\ VoicePath
      /\ p.follow => SpokenOut(p.asked) /\ p.asked # 0
      /\ pb.w = "idle" => pb.item = 0
  BY DEF TalkType, QueueType, FollowInv, VoicePath, Voice
<1>2. CASE \E failed \in BOOLEAN : Done(failed) /\ (UNCHANGED <<h, outcome>> \/ NoteTtsFailure)
  <2>1. pb' \in QueueType /\ pb'.w = "idle" /\ pb'.item = 0 /\ pb'.queue = pb.queue
    BY <1>2, DoneIs
  <2>2. p.follow => SpokenOut(p.asked)'
    BY <1>1, <2>1 DEF SpokenOut
  <2> QED
    BY <1>1, <1>2, <2>1, <2>2, TalkOn
<1>3. CASE Dequeues
  <2> DEFINE i == Head(pb.queue)
             q == Tail(pb.queue)
  <2>1. pb.queue # <<>> /\ pb' = [pb EXCEPT !.w = "check", !.item = i, !.queue = q]
        /\ UNCHANGED <<h, outcome>>
    BY <1>1, <1>3 DEF Dequeues, QueueType
  <2>2. /\ i \in Nat /\ q \in Seq(Nat) /\ 1 \in DOMAIN pb.queue /\ i = pb.queue[1]
        /\ \A k \in DOMAIN q : k + 1 \in DOMAIN pb.queue /\ q[k] = pb.queue[k + 1]
    <3>1. i \in Nat /\ q \in Seq(Nat) /\ Len(q) = Len(pb.queue) - 1
          /\ \A k \in 1..Len(q) : q[k] = pb.queue[k + 1]
      BY <1>1, <2>1, HeadTailProperties
    <3> HIDE DEF q
    <3>2. DOMAIN q = 1..Len(q) /\ DOMAIN pb.queue = 1..Len(pb.queue) /\ Len(q) \in Nat
          /\ Len(pb.queue) \in Nat
      BY <1>1, <3>1
    <3>3. i = pb.queue[1]
      OBVIOUS
    <3> HIDE DEF i
    <3> QED
      BY <3>1, <3>2, <3>3
  <2> HIDE DEF i, q
  <2>3. pb' \in QueueType /\ pb'.w = "check" /\ pb'.item = i /\ pb'.queue = q
    BY <1>1, <2>1, <2>2 DEF QueueType
  <2>4. p.follow => SpokenOut(p.asked)'
    BY <1>1, <2>2, <2>3 DEF SpokenOut
  <2> QED
    BY <1>1, <2>1, <2>3, <2>4, TalkOn
<1>4. CASE pb' = pb /\ UNCHANGED <<h, outcome>>
  <2>1. p.follow => SpokenOut(p.asked)'
    BY <1>1, <1>4 DEF SpokenOut
  <2> QED
    BY <1>1, <1>4, <2>1, TalkOn
<1>5. CASE /\ UNCHANGED <<h, outcome>>
           /\ pb' = [pb EXCEPT !.w = "speak"] \/ pb' = [pb EXCEPT !.w = "poll"]
  <2>1. pb' \in QueueType /\ pb'.w # "idle" /\ pb'.item = pb.item /\ pb'.queue = pb.queue
    BY <1>1, <1>5 DEF QueueType
  <2>2. p.follow => SpokenOut(p.asked)'
    BY <1>1, <2>1 DEF SpokenOut
  <2> QED
    BY <1>1, <1>5, <2>1, <2>2, TalkOn
<1>6. CASE SpeakFails \/ GivesUp
  BY <1>2, <1>6 DEF SpeakFails, GivesUp
<1>7. CASE StopsCancelled \/ SeesIdle
  BY <1>2, <1>7 DEF StopsCancelled, SeesIdle
<1>8. CASE ChecksCancelled
  BY <1>2, <1>5, <1>8 DEF ChecksCancelled
<1>9. CASE Speaks
  BY <1>5, <1>9 DEF Speaks
<1>10. CASE SpeechEnds
  BY <1>4, <1>10 DEF SpeechEnds
<1> QED
  BY <1>3, <1>6, <1>7, <1>8, <1>9, <1>10 DEF Worker

-----------------------------------------------------------------------------
\* A thread at work goes on to its next place.
Resting == Outside \cup {"lock"}
LEMMA GoesOn ==
  ASSUME TalkInv, NEW x \in Threads, th[x].pc \notin Resting,
         NEW pc \in Places \ Resting, NEW st, Carries(x, pc, st),
         x = "voice" /\ pc \in {"say", "saying", "record"} => st \in Found
  PROVE  th' \in [Threads -> ThreadType] /\ th'["api"].pc # "wait" /\ VoicePath
<1>1. th' \in [Threads -> ThreadType] /\ th'["api"].pc # "wait"
  BY DEF Carries, Others, Resting, Outside, Threads, TalkInv, FollowInv
<1>2. CASE x = "api"
  <2>1. th'["voice"] = th["voice"]
    BY <1>2 DEF Carries, Others, Threads
  <2> QED
    BY <1>1, <2>1 DEF VoicePath, Voice
<1>3. CASE x = "voice"
  <2>1. Voice.gen = h.tgen
    BY <1>3 DEF TalkInv, TurnInv, VoiceKnows, Voice, Resting, Outside
  <2>2. /\ th'["voice"].pc = pc /\ th'["voice"].turn = th["voice"].turn
        /\ th'["voice"].gen = th["voice"].gen /\ th'["voice"].status = st
        /\ pc \notin Outside /\ th["voice"].pc \notin Outside
    BY <1>3 DEF Carries, Resting
  <2>3. pc \in {"say", "saying", "record"} => st \in Found
    BY <1>3
  <2> QED
    BY <1>1, <2>1, <2>2, <2>3 DEF VoicePath, Voice
<1> QED
  BY <1>1, <1>2, <1>3 DEF Threads

\* Places that touch neither the queue nor the history.
LEMMA PlaceSound ==
  ASSUME TalkInv, NEW x \in Threads, th[x].pc \notin Resting,
         NEW pc \in Places \ Resting, NEW st, Carries(x, pc, st),
         x = "voice" /\ pc \in {"say", "saying", "record"} => st \in Found,
         UNCHANGED <<setup, p, born, pb>>, UNCHANGED <<h, outcome>> \/ NoteTtsFailure
  PROVE  TalkStep
<1>1. th' \in [Threads -> ThreadType] /\ th'["api"].pc # "wait" /\ VoicePath
  BY GoesOn
<1>2. pb' \in QueueType /\ (pb'.w = "idle" => pb'.item = 0)
      /\ (p.follow => SpokenOut(p.asked)')
  BY DEF TalkInv, TalkType, FollowInv, SpokenOut
<1> QED
  BY <1>1, <1>2, TalkOn

\* Places that change the queue.
LEMMA QueueSound ==
  ASSUME TalkInv, NEW x \in Threads, th[x].pc \notin Resting,
         NEW pc \in Places \ Resting, NEW st, Carries(x, pc, st),
         x = "voice" /\ pc \in {"say", "saying", "record"} => st \in Found,
         UNCHANGED <<setup, p, born, h, outcome>>,
         \/ pb' \in {Cancelled, BeginTurn}
         \/ pb' = Enqueued(Owner(x))
  PROVE  TalkStep
<1> USE DEF TalkInv
<1>1. th' \in [Threads -> ThreadType] /\ th'["api"].pc # "wait" /\ VoicePath
  BY GoesOn
<1>2. pb \in QueueType /\ pb.queue \in Seq(Nat) /\ th[x] \in ThreadType
      /\ (pb.w = "idle" => pb.item = 0)
      /\ (p.follow => SpokenOut(p.asked) /\ p.asked \in 1..p.turns)
  BY DEF TalkType, QueueType, FollowInv
<1>3. CASE pb' \in {Cancelled, BeginTurn}
  <2>1. /\ pb' \in QueueType /\ pb'.w = pb.w /\ pb'.item = pb.item
        /\ pb'.queue = pb.queue \/ pb'.queue = <<>>
    <3>1. CASE pb' = Cancelled
      <4> DEFINE e == <<>>
      <4>1. e \in Seq(Nat) /\ pb' = [pb EXCEPT !.cancelled = TRUE, !.queue = e]
        BY <3>1 DEF Cancelled
      <4>2. pb'.queue = e
        BY <1>2, <4>1 DEF QueueType
      <4>3. pb' \in QueueType /\ pb'.w = pb.w /\ pb'.item = pb.item
        <5> HIDE DEF e
        <5> QED
          BY <1>2, <4>1 DEF QueueType
      <4> QED
        BY <4>2, <4>3
    <3>2. CASE pb' = BeginTurn
      BY <1>2, <3>2 DEF BeginTurn, QueueType
    <3> QED
      BY <1>3, <3>1, <3>2
  <2>2. p.follow => SpokenOut(p.asked)'
    BY <1>2, <2>1 DEF SpokenOut
  <2> QED
    BY <1>1, <1>2, <2>1, <2>2, TalkOn
<1>4. CASE pb' = Enqueued(Owner(x))
  <2> DEFINE o == Owner(x)
             q == Append(pb.queue, o)
  <2>1. o \in Nat /\ (p.follow => o # p.asked)
    <3>1. CASE x = "voice"
      BY <1>2, <3>1 DEF Owner, FollowInv, Voice, Resting, Outside, ThreadType
    <3>2. CASE x # "voice"
      BY <1>2, <3>2, TurnNumbers, AgentAssumption DEF Owner, ApiTurn, TurnInv, Numbers
    <3> QED
      BY <3>1, <3>2
  <2> HIDE DEF o
  <2>2. q \in Seq(Nat) /\ \A i \in DOMAIN q : q[i] = o \/ (i \in DOMAIN pb.queue /\ q[i] = pb.queue[i])
    BY <1>2, <2>1
  <2>3. pb' = [pb EXCEPT !.queue = q]
    BY <1>2, <1>4 DEF Enqueued, QueueType, o
  <2> HIDE DEF q
  <2>4. pb' \in QueueType /\ pb'.w = pb.w /\ pb'.item = pb.item /\ pb'.queue = q
    BY <1>2, <2>2, <2>3 DEF QueueType
  <2>5. p.follow => SpokenOut(p.asked)'
    BY <1>2, <2>1, <2>2, <2>4 DEF SpokenOut
  <2> QED
    BY <1>1, <1>2, <2>4, <2>5, TalkOn
<1> QED
  BY <1>3, <1>4

\* A stop request and a sentence of its own.
LEMMA StopSound ==
  ASSUME TalkInv, UNCHANGED setup, NEW x \in Threads,
         TimerIntent(x) \/ LooksAtPlayback(x) \/ CancelsReply(x) \/ StopsSpeech(x)
         \/ Says(x) \/ HearsItself(x) \/ Generated(x)
  PROVE  TalkStep
<1> USE DEF TalkInv
<1>0. TalkType /\ th[x] \in ThreadType
  BY DEF TalkType
<1>a. /\ {"spoken", "generated", "completed", "assistant_failed"} \subseteq Found
      /\ {"intent", "answer", "say", "saying", "record", "stop", "cancel", "silence", "stream"}
           \subseteq Places \ Resting
      /\ Stopped \in {"say", "record"}
  BY DEF Found, Places, Resting, Outside, Stopped
<1>b. ASSUME NEW pc \in Places \ Resting, To(x, pc)
      PROVE  Carries(x, pc, th[x].status)
  BY <1>0, <1>b, ToIs
<1>c. ASSUME NEW pc \in Places \ Resting, NEW st \in Found, Finds(x, pc, st)
      PROVE  Carries(x, pc, st)
  BY <1>0, <1>c, FindsIs
<1>1. CASE TimerIntent(x)
  <2>1. UNCHANGED <<p, born, h, outcome, pb>> /\ th[x].pc = "intent" /\ "intent" \in Places \ Resting
    BY <1>1, <1>a DEF TimerIntent, At, pipelineVars, historyVars, SpeechVars
  <2>2. \/ To(x, "answer") \/ To(x, "stop")
        \/ Finds(x, "say", "spoken") \/ Finds(x, "record", "spoken")
    BY <1>1 DEF TimerIntent
  <2>3. CASE To(x, "answer")
    <3>1. Carries(x, "answer", th[x].status)
      BY <1>a, <1>b, <2>3
    <3> QED
      BY <1>a, <2>1, <3>1, PlaceSound
  <2>4. CASE To(x, "stop")
    <3>1. Carries(x, "stop", th[x].status)
      BY <1>a, <1>b, <2>4
    <3> QED
      BY <1>a, <2>1, <3>1, PlaceSound
  <2>5. CASE Finds(x, "say", "spoken")
    <3>1. Carries(x, "say", "spoken")
      BY <1>a, <1>c, <2>5
    <3> QED
      BY <1>a, <2>1, <3>1, PlaceSound
  <2>6. CASE Finds(x, "record", "spoken")
    <3>1. Carries(x, "record", "spoken")
      BY <1>a, <1>c, <2>6
    <3> QED
      BY <1>a, <2>1, <3>1, PlaceSound
  <2> QED
    BY <2>2, <2>3, <2>4, <2>5, <2>6
<1>2. CASE LooksAtPlayback(x)
  <2> DEFINE b == tts # Silent \/ Pending
             r == [th[x] EXCEPT !.pc = "cancel", !.speech = b]
  <2>1. b \in BOOLEAN
    OBVIOUS
  <2>2. th' = [th EXCEPT ![x] = r] /\ th[x].pc = "stop" /\ UNCHANGED <<p, born, h, outcome, pb>>
    BY <1>0, <1>2 DEF LooksAtPlayback, At, TalkType, pipelineVars, historyVars, SpeechVars
  <2> HIDE DEF b
  <2>3. r \in ThreadType /\ r.pc = "cancel" /\ r.status = th[x].status /\ r.turn = th[x].turn
        /\ r.gen = th[x].gen
    BY <1>0, <2>1 DEF ThreadType, Places
  <2> HIDE DEF r
  <2>4. Carries(x, "cancel", th[x].status)
    BY <2>2, <2>3 DEF Carries, Others, TalkType
  <2> QED
    BY <1>a, <2>2, <2>4, PlaceSound
<1>3. CASE CancelsReply(x)
  <2>1. UNCHANGED <<p, born, h, outcome>> /\ th[x].pc = "cancel" /\ pb' = Cancelled
    BY <1>3 DEF CancelsReply, At, pipelineVars, historyVars
  <2>2. CASE To(x, "silence")
    <3>1. Carries(x, "silence", th[x].status)
      BY <1>a, <1>b, <2>2
    <3> QED
      BY <1>a, <2>1, <3>1, QueueSound
  <2>3. CASE Finds(x, Stopped, "completed")
    <3>1. Carries(x, Stopped, "completed") /\ Stopped \in Places \ Resting
      BY <1>a, <1>c, <2>3
    <3> QED
      BY <1>a, <2>1, <3>1, QueueSound
  <2> QED
    BY <1>3, <2>2, <2>3 DEF CancelsReply
<1>4. CASE StopsSpeech(x)
  <2>1. UNCHANGED <<p, born, h, outcome, pb>> /\ th[x].pc = "silence"
    BY <1>4 DEF StopsSpeech, At, pipelineVars, historyVars
  <2>2. PICK pc \in {"say", "record"}, st \in Found : Finds(x, pc, st)
    BY <1>4, <1>a DEF StopsSpeech
  <2>3. Carries(x, pc, st) /\ pc \in Places \ Resting
    BY <1>a, <1>c, <2>2
  <2> QED
    BY <1>a, <2>1, <2>3, PlaceSound
<1>5. CASE Says(x)
  <2>1. /\ UNCHANGED <<p, born, pb>> /\ th[x].pc = "say"
        /\ UNCHANGED <<h, outcome>> \/ NoteTtsFailure
        /\ To(x, "saying") \/ To(x, "record")
    BY <1>5 DEF Says, At, pipelineVars
  <2>2. PICK pc \in {"saying", "record"} : To(x, pc)
    BY <2>1
  <2>3. Carries(x, pc, th[x].status) /\ pc \in Places \ Resting
    BY <1>a, <1>b, <2>2
  <2>4. x = "voice" => th[x].status \in Found
    BY <2>1 DEF TurnInv, VoiceKnows, Voice
  <2> QED
    BY <1>a, <2>1, <2>3, <2>4, PlaceSound
<1>6. CASE HearsItself(x)
  <2>1. /\ UNCHANGED <<p, born, pb>> /\ th[x].pc = "saying" /\ To(x, "record")
        /\ UNCHANGED <<h, outcome>> \/ NoteTtsFailure
    BY <1>6 DEF HearsItself, At, pipelineVars, SpeechVars
  <2>2. Carries(x, "record", th[x].status)
    BY <1>a, <1>b, <2>1
  <2>3. x = "voice" => th[x].status \in Found
    BY <2>1 DEF TurnInv, VoiceKnows, Voice
  <2> QED
    BY <1>a, <2>1, <2>2, <2>3, PlaceSound
<1>7. CASE Generated(x)
  <2>1. /\ UNCHANGED <<p, born, h, outcome, pb>> /\ th[x].pc = "stream"
        /\ Finds(x, "record", "generated")
    BY <1>7 DEF Generated, At, pipelineVars, historyVars, SpeechVars
  <2>2. Carries(x, "record", "generated")
    BY <1>a, <1>c, <2>1
  <2> QED
    BY <1>a, <2>1, <2>2, PlaceSound
<1> QED
  BY <1>1, <1>2, <1>3, <1>4, <1>5, <1>6, <1>7

\* The voice thread reports what became of its turn.
LEMMA ReportsSound ==
  ASSUME TalkInv, Voice.pc \notin Resting, UNCHANGED <<setup, p, born, pb>>,
         NEW pc \in {"wait", "unlock"}, NEW st \in Statuses, NEW found, Carries("voice", pc, found),
         outcome' = [outcome EXCEPT ![Voice.turn] = st],
         h' \in HistoryType, h'.gen = h.gen,
         h'.ring \in {h.ring, Add(h, h.tgen, Voice.turn, st).ring}
  PROVE  TalkStep
<1> DEFINE t == Voice.turn
<1> USE DEF TalkInv
<1>1. /\ p \in PipelineType /\ h \in HistoryType /\ Turns' = Turns
      /\ outcome \in [Turns -> Statuses \cup {"none"}] /\ p.turns \in Nat /\ h.tgen \in Nat
  BY TurnNumbers DEF TalkType, Turns, HistoryType
<1>2. /\ p.dispatch # 0 /\ p.turn = 0 /\ p.pending = 0 /\ t = p.dispatch /\ InHand = {t}
  <2>1. Voice.pc \notin {"idle", "wait", "unlock"}
    BY DEF Resting, Outside
  <2>2. p.dispatch # 0 /\ t = p.dispatch
    BY <2>1 DEF TurnInv, VoiceServes
  <2>3. p.turn = 0 /\ p.pending = 0
    BY <2>2 DEF TurnInv, OneInFlight
  <2> QED
    BY <2>1, <2>2, <2>3, InHandIs
<1>3. /\ t \in Turns /\ t \in Nat /\ t <= p.turns
      /\ outcome[t] = "none" /\ born[t] = h.tgen
  <2>1. t \in Turns /\ t \in 1..p.turns
    BY <1>2, InHandIn
  <2>2. outcome[t] = "none" /\ born[t] = h.tgen
    BY <1>2 DEF TurnInv, HandOpen
  <2> QED
    BY <1>1, <2>1, <2>2
<1>4. /\ th' \in [Threads -> ThreadType] /\ Voice'.pc = pc /\ Voice'.turn = t
      /\ th'["api"] = th["api"]
  BY DEF Carries, Others, Threads, Voice
<1>5. InHand' = {}
  BY <1>2, <1>4 DEF InHand, Voice
<1>6. /\ outcome' \in [Turns -> Statuses \cup {"none"}]
      /\ \A u \in Turns : u # t => outcome'[u] = outcome[u]
  BY <1>1
<1>7. TalkType'
  BY <1>1, <1>4, <1>6 DEF TalkType
<1>8. TurnInv'
  <2>1. Numbers' /\ OneInFlight'
    BY DEF TurnInv, Numbers, OneInFlight
  <2>2. VoiceServes' /\ VoiceKnows'
    BY <1>2, <1>4 DEF VoiceServes, VoiceKnows
  <2>3. HandOpen'
    BY <1>5 DEF HandOpen
  <2>4. FreshOpen'
    BY <1>1, <1>3, <1>6 DEF FreshOpen, TurnInv, Turns
  <2>5. RingTrue'
    <3>1. CASE h'.ring = h.ring
      <4>1. \A i \in DOMAIN h.ring : /\ h.ring[i].turn \in 1..p.turns
                                     /\ born[h.ring[i].turn] = h.gen
                                     /\ outcome[h.ring[i].turn] = h.ring[i].status
                                     /\ h.ring[i] \in Entry
        BY <1>1 DEF TurnInv, RingTrue, HistoryType
      <4>2. \A i \in DOMAIN h.ring : h.ring[i].turn # t /\ h.ring[i].turn \in Turns
        BY <1>3, <4>1, TurnNumbers DEF Entry, Statuses, Promised!Statuses
      <4> QED
        BY <1>6, <3>1, <4>1, <4>2 DEF RingTrue
    <3>2. CASE h'.ring = Add(h, h.tgen, t, st).ring
      <4>1. (h.tgen = h.gen => born'[t] = h.gen) /\ p'.turns \in Nat /\ p.turns <= p'.turns
            /\ t <= p'.turns /\ outcome' = [outcome EXCEPT ![t] = st]
            /\ \A u \in Turns : u # t => born'[u] = born[u]
        BY <1>1, <1>3
      <4> HIDE DEF t
      <4> QED
        BY <1>1, <1>3, <3>2, <4>1, RingRecords
    <3> QED
      BY <3>1, <3>2
  <2> QED
    BY <2>1, <2>2, <2>3, <2>4, <2>5 DEF TurnInv
<1>9. FollowInv'
  <2>1. Voice.pc \notin {"idle", "unlock"}
    BY DEF Resting, Outside
  <2> QED
    BY <1>4, <2>1 DEF FollowInv, SpokenOut
<1>10. ListenStep
  BY DEF ListenStep
<1>11. TurnStep
  BY <1>2, <1>3, <1>5 DEF TurnStep
<1> QED
  BY <1>7, <1>8, <1>9, <1>10, <1>11 DEF TalkStep

LEMMA AnswersSound ==
  ASSUME TalkInv, UNCHANGED setup, NEW x \in Threads, Answers(x) \/ Streams(x)
  PROVE  TalkStep
<1> USE DEF TalkInv
<1>0. TalkType /\ th[x] \in ThreadType /\ th \in [Threads -> ThreadType]
  BY DEF TalkType
<1>a. /\ {"record", "stream"} \subseteq Places \ Resting /\ "assistant_failed" \in Found
      /\ {"answer", "stream"} \cap Resting = {} /\ "unlock" \in Places /\ "ignored" \in Statuses
  BY DEF Found, Places, Resting, Outside, Statuses, Promised!Statuses
<1>b. ASSUME Finds(x, "record", "assistant_failed")
      PROVE  Carries(x, "record", "assistant_failed")
  BY <1>0, <1>a, <1>b, FindsIs
<1>c. ASSUME NEW n \in Nat, th[x].pc \notin Resting,
             th' = [th EXCEPT ![x].pc = "stream", ![x].left = n]
      PROVE  Carries(x, "stream", th[x].status)
  <2> DEFINE r == [th[x] EXCEPT !.pc = "stream", !.left = n]
  <2>1. th' = [th EXCEPT ![x] = r]
    BY <1>0, <1>c
  <2>2. r \in ThreadType /\ r.pc = "stream" /\ r.status = th[x].status /\ r.turn = th[x].turn
        /\ r.gen = th[x].gen
    BY <1>0, <1>a DEF ThreadType
  <2> HIDE DEF r
  <2> QED
    BY <1>0, <2>1, <2>2 DEF Carries, Others
<1>1. CASE Answers(x)
  <2>1. th[x].pc \notin Resting /\ UNCHANGED <<p, born, h>>
    BY <1>1, <1>a DEF Answers, At, pipelineVars
  <2>2. CASE Unanswered(x)
    <3>1. /\ x = "voice" /\ To(x, "unlock") /\ pb' = pb
          /\ outcome' = [outcome EXCEPT ![Voice.turn] = "ignored"]
      BY <1>1, <2>2 DEF Answers, Unanswered, Voice
    <3>2. Carries("voice", "unlock", th["voice"].status)
      BY <1>0, <1>a, <3>1, ToIs
    <3>3. h' \in HistoryType /\ h'.gen = h.gen /\ Voice.pc \notin Resting
      BY <2>1, <3>1 DEF TalkType, Voice
    <3> QED
      BY <1>a, <2>1, <3>1, <3>2, <3>3, ReportsSound
  <2>3. CASE ~ Unanswered(x)
    <3>1. outcome' = outcome
      BY <1>1, <2>3 DEF Answers
    <3>2. CASE pb' = pb /\ Finds(x, "record", "assistant_failed")
      BY <1>a, <1>b, <2>1, <3>1, <3>2, PlaceSound
    <3>3. CASE ~ Barred /\ ~ Pending /\ pb' = BeginTurn
               /\ ~ (pb' = pb /\ Finds(x, "record", "assistant_failed"))
      <4>1. /\ pb' = BeginTurn
            /\ \/ \E n \in setup.segments :
                    th' = [th EXCEPT ![x].pc = "stream", ![x].left = n]
               \/ Finds(x, "record", "assistant_failed")
        BY <1>1, <2>3, <3>3 DEF Answers
      <4>2. CASE Finds(x, "record", "assistant_failed")
        BY <1>a, <1>b, <2>1, <3>1, <4>1, <4>2, QueueSound
      <4>3. CASE \E n \in setup.segments :
                   th' = [th EXCEPT ![x].pc = "stream", ![x].left = n]
        <5>1. setup.segments \subseteq Nat
          BY AgentAssumption DEF TalkType
        <5>2. Carries(x, "stream", th[x].status)
          BY <1>c, <2>1, <4>3, <5>1
        <5> QED
          BY <1>a, <2>1, <3>1, <4>1, <5>2, QueueSound
      <4> QED
        BY <4>1, <4>2, <4>3
    <3> QED
      BY <1>1, <2>3, <3>2, <3>3 DEF Answers
  <2> QED
    BY <2>2, <2>3
<1>2. CASE Streams(x)
  <2>1. th[x].pc \notin Resting /\ UNCHANGED <<p, born, h, outcome>> /\ th[x].left > 0
        /\ th[x].pc = "stream"
    BY <1>2, <1>a DEF Streams, At, pipelineVars, historyVars
  <2>2. CASE Finds(x, "record", "assistant_failed") /\ pb' = pb
    BY <1>a, <1>b, <2>1, <2>2, PlaceSound
  <2>3. CASE pb' = Enqueued(Owner(x)) /\ th' = [th EXCEPT ![x].left = @ - 1]
    <3> DEFINE n == th[x].left - 1
               r == [th[x] EXCEPT !.left = n]
    <3>1. n \in Nat
      BY <1>0, <2>1 DEF ThreadType
    <3>2. th' = [th EXCEPT ![x] = r]
      BY <1>0, <2>3 DEF ThreadType
    <3> HIDE DEF n
    <3>3. r \in ThreadType /\ r.pc = "stream" /\ r.status = th[x].status
          /\ r.turn = th[x].turn /\ r.gen = th[x].gen
      BY <1>0, <2>1, <3>1 DEF ThreadType
    <3> HIDE DEF r
    <3>4. Carries(x, "stream", th[x].status)
      BY <1>0, <3>2, <3>3 DEF Carries, Others
    <3> QED
      BY <1>a, <2>1, <2>3, <3>4, QueueSound
  <2> QED
    BY <1>2, <2>2, <2>3 DEF Streams
<1> QED
  BY <1>1, <1>2

LEMMA FinalStatusIn ==
  ASSUME NEW x \in Threads, th[x].status \in Found
  PROVE  FinalStatus(x) \in Statuses
  BY DEF FinalStatus, Found, Statuses, Promised!Statuses

LEMMA RecordsSound ==
  ASSUME TalkInv, UNCHANGED setup, NEW x \in Threads, Records(x)
  PROVE  TalkStep
<1> USE DEF TalkInv
<1>0. TalkType /\ th[x] \in ThreadType /\ h \in HistoryType /\ th[x].pc = "record"
  BY DEF TalkType, Records, At
<1>1. UNCHANGED <<p, born, pb>>
  BY DEF Records, pipelineVars, SpeechVars
<1>2. CASE x = "api"
  <2>1. To(x, "unlock") /\ UNCHANGED <<h, outcome>>
    BY <1>2 DEF Records
  <2>2. Carries(x, "unlock", th[x].status)
    BY <1>0, <2>1, ToIs DEF Places
  <2>3. th' \in [Threads -> ThreadType] /\ th'["api"].pc # "wait" /\ Voice' = Voice
    BY <1>2, <2>2 DEF Carries, Others, Threads, Voice
  <2>4. pb' \in QueueType /\ (pb'.w = "idle" => pb'.item = 0)
        /\ (p.follow => SpokenOut(p.asked)')
    BY <1>1 DEF TalkType, FollowInv, SpokenOut
  <2> QED
    BY <1>1, <2>1, <2>3, <2>4, TalkOn DEF VoicePath
<1>3. CASE x = "voice"
  <2> DEFINE t == Voice.turn
             st == FinalStatus(x)
             pc == IF Asks(x) THEN "wait" ELSE "unlock"
             a == Add(h, h.tgen, t, st)
             i == IF h.tgen = h.gen THEN t ELSE 0
  <2>1. Voice.status \in Found /\ Voice.gen = h.tgen /\ Voice.pc \notin Resting
    BY <1>0, <1>3 DEF TurnInv, VoiceKnows, Voice, Resting, Outside
  <2>2. st \in Statuses /\ t \in Nat /\ h.tgen \in Nat
    <3>1. st \in Statuses
      BY <1>3, <2>1, FinalStatusIn DEF Voice
    <3> QED
      BY <1>0, <1>3, <3>1 DEF Voice, ThreadType, HistoryType
  <2>3. RecordTurn(t, h.tgen, st) /\ To(x, pc)
    BY <1>3, <2>1 DEF Records, Voice
  <2>4. outcome' = [outcome EXCEPT ![t] = st] /\ h' = [a EXCEPT !.tgen = h.tgen, !.tid = i]
    BY <2>3 DEF RecordTurn
  <2>5. a \in HistoryType /\ a.gen = h.gen
    <3> HIDE DEF st, t
    <3>1. \A n : n = a => n.gen = h.gen
      BY <1>0, <2>2, AddKeeps
    <3> QED
      BY <1>0, <2>2, <3>1, AddKeeps
  <2>6. pc \in {"wait", "unlock"} /\ pc \in Places /\ i \in Nat
    BY <2>2 DEF Places
  <2> HIDE DEF pc, i, a
  <2>7. h' \in HistoryType /\ h'.gen = h.gen /\ h'.ring = a.ring
    BY <2>2, <2>4, <2>5, <2>6 DEF HistoryType
  <2>8. Carries("voice", pc, th["voice"].status)
    BY <1>0, <1>3, <2>3, <2>6, ToIs
  <2>9. h'.ring \in {h.ring, Add(h, h.tgen, t, st).ring}
    BY <2>7 DEF a
  <2> QED
    BY <1>1, <2>1, <2>2, <2>4, <2>6, <2>7, <2>8, <2>9, ReportsSound
<1> QED
  BY <1>2, <1>3 DEF Threads

\* The reply has been spoken, and the thread leaves.
LEMMA LeavesSound ==
  ASSUME TalkInv, UNCHANGED setup, NEW x \in Threads, WaitsIdle(x) \/ Unlocks(x)
  PROVE  TalkStep
<1> USE DEF TalkInv
<1>0. TalkType /\ p \in PipelineType /\ th \in [Threads -> ThreadType] /\ th[x] \in ThreadType
      /\ pb \in QueueType /\ Turns' = Turns
  BY DEF TalkType, Turns
<1>1. UNCHANGED <<h, born, outcome, pb>>
  BY DEF WaitsIdle, Unlocks, historyVars, SpeechVars
<1>2. CASE WaitsIdle(x)
  <2>1. x = "voice" /\ To(x, "unlock") /\ Voice.pc = "wait"
    BY <1>2 DEF WaitsIdle, At, FollowInv, Threads, Voice
  <2>2. Carries("voice", "unlock", th["voice"].status)
    BY <1>0, <2>1, ToIs DEF Places
  <2>3. /\ th' \in [Threads -> ThreadType] /\ Voice'.pc = "unlock" /\ Voice'.turn = Voice.turn
        /\ th'["api"] = th["api"]
    BY <2>2 DEF Carries, Others, Threads, Voice
  <2>4. p.dispatch # 0 /\ Voice.turn = p.dispatch /\ p.turn = 0 /\ p.pending = 0
        /\ p.dispatch \in 1..p.turns
    <3>1. p.dispatch # 0 /\ Voice.turn = p.dispatch
      BY <2>1 DEF TurnInv, VoiceServes
    <3>2. p.turn = 0 /\ p.pending = 0
      BY <3>1 DEF TurnInv, OneInFlight
    <3> QED
      BY <3>1, <3>2, TurnNumbers
  <2>5. /\ p' \in PipelineType /\ p'.turn = p.turn /\ p'.turns = p.turns /\ p'.pending = p.pending
        /\ p'.dispatch = p.dispatch /\ p'.pc = p.pc
        /\ \/ (p'.follow <=> p.follow) /\ p'.asked = p.asked
           \/ p'.asked = p.dispatch /\ pb.w = "idle" /\ pb.queue = <<>>
    <3>1. CASE p' = p
      BY <1>0, <3>1
    <3>2. CASE p' # p
      <4>1. p' = [p EXCEPT !.follow = TRUE, !.asked = p.dispatch] /\ ~ Pending
        BY <1>2, <2>1, <2>4, <3>2 DEF WaitsIdle, WaitOver, RequestFollowUp, Voice
      <4> QED
        BY <1>0, <2>4, <4>1 DEF PipelineType, Pending
    <3> QED
      BY <3>1, <3>2
  <2>6. InHand = {} /\ InHand' = {}
    BY <2>1, <2>3, <2>4, <2>5 DEF InHand, Voice
  <2>7. TalkType'
    BY <1>0, <1>1, <2>3, <2>5 DEF TalkType
  <2>8. TurnInv'
    BY <1>0, <1>1, <2>1, <2>3, <2>4, <2>5, <2>6 DEF TurnInv, Numbers, OneInFlight, VoiceServes, HandOpen,
                                             FreshOpen, RingTrue, VoiceKnows
  <2>9. FollowInv'
    <3>1. CASE (p'.follow <=> p.follow) /\ p'.asked = p.asked
      BY <1>1, <2>3, <2>5, <3>1 DEF FollowInv, SpokenOut
    <3>2. CASE p'.asked = p.dispatch /\ pb.w = "idle" /\ pb.queue = <<>>
      <4>1. pb.item = 0 /\ pb'.queue = <<>> /\ pb'.item = 0
        BY <1>1, <3>2 DEF FollowInv
      <4>2. SpokenOut(p.asked)'
        <5>1. p'.asked # 0 /\ DOMAIN pb'.queue = {}
          BY <2>4, <3>2, <4>1
        <5> QED
          BY <4>1, <5>1 DEF SpokenOut
      <4>3. p'.asked \in 1..p'.turns /\ p'.asked \notin {p'.turn, p'.pending}
        BY <2>4, <2>5, <3>2
      <4> QED
        BY <1>1, <2>3, <4>1, <4>2, <4>3 DEF FollowInv
    <3> QED
      BY <2>5, <3>1, <3>2
  <2>10. ListenStep
    BY <2>5 DEF ListenStep
  <2> QED
    BY <1>1, <2>6, <2>7, <2>8, <2>9, <2>10 DEF TalkStep, TurnStep
<1>3. CASE Unlocks(x)
  <2>1. th' = [th EXCEPT ![x] = Idle] /\ th[x].pc = "unlock" /\ Idle \in ThreadType
        /\ Idle.pc = "idle"
    BY <1>3 DEF Unlocks, At, Idle, ThreadType, Places, Kinds
  <2>2. th' \in [Threads -> ThreadType] /\ th'[x].pc = "idle" /\ Others(x)
    BY <1>0, <2>1 DEF Others
  <2>3. CASE x = "api"
    <3>1. p' = p /\ th'["api"].pc # "wait" /\ Voice' = Voice
      BY <1>3, <2>2, <2>3 DEF Unlocks, Others, Threads, Voice
    <3>2. pb' \in QueueType /\ (pb'.w = "idle" => pb'.item = 0)
          /\ (p.follow => SpokenOut(p.asked)')
      BY <1>0, <1>1, <3>1 DEF FollowInv, SpokenOut
    <3> QED
      BY <1>1, <2>2, <3>1, <3>2, TalkOn DEF VoicePath
  <2>4. CASE x = "voice"
    <3>1. p' = [p EXCEPT !.dispatch = 0] /\ Voice.pc = "unlock" /\ Voice'.pc = "idle"
          /\ th'["api"] = th["api"]
      BY <1>3, <2>1, <2>2, <2>4 DEF Unlocks, Others, Threads, Voice
    <3>2. /\ p' \in PipelineType /\ p'.turn = p.turn /\ p'.turns = p.turns /\ p'.pending = p.pending
          /\ p'.dispatch = 0 /\ (p'.follow <=> p.follow) /\ p'.asked = p.asked /\ p'.pc = p.pc
      BY <1>0, <3>1 DEF PipelineType
    <3>3. p.dispatch # 0 /\ p.turn = 0 /\ p.pending = 0
      <4>1. p.dispatch # 0
        BY <3>1 DEF TurnInv, VoiceServes
      <4> QED
        BY <4>1 DEF TurnInv, OneInFlight
    <3>4. InHand = {} /\ InHand' = {}
      BY <3>1, <3>2, <3>3 DEF InHand, Voice
    <3>5. TalkType'
      BY <1>0, <1>1, <2>2, <3>2 DEF TalkType
    <3>6. TurnInv'
      BY <1>0, <1>1, <3>1, <3>2, <3>3, <3>4 DEF TurnInv, Numbers, OneInFlight, VoiceServes, HandOpen,
                                               FreshOpen, RingTrue, VoiceKnows
    <3>7. FollowInv'
      BY <1>1, <3>1, <3>2 DEF FollowInv, SpokenOut
    <3>8. ListenStep
      BY <3>2 DEF ListenStep
    <3> QED
      BY <1>1, <3>4, <3>5, <3>6, <3>7, <3>8 DEF TalkStep, TurnStep
  <2> QED
    BY <2>3, <2>4 DEF Threads
<1> QED
  BY <1>2, <1>3

\* A thread takes the control mutex, and the voice thread its generation.
LEMMA LocksSound ==
  ASSUME TalkInv, UNCHANGED setup, NEW x \in Threads, Locks(x)
  PROVE  TalkStep
<1> USE DEF TalkInv
<1> DEFINE r == [th[x] EXCEPT !.pc = "intent", !.gen = h.tgen]
<1>0. TalkType /\ th \in [Threads -> ThreadType] /\ th[x] \in ThreadType /\ h \in HistoryType
      /\ h.tgen \in Nat /\ pb \in QueueType /\ Turns' = Turns
  BY DEF TalkType, HistoryType, Turns
<1>1. UNCHANGED <<p, born, outcome, pb>> /\ th' = [th EXCEPT ![x] = r] /\ th[x].pc = "lock"
  BY <1>0 DEF Locks, At, pipelineVars, SpeechVars
<1>2. r \in ThreadType /\ r.pc = "intent" /\ r.turn = th[x].turn /\ r.gen = h.tgen
  BY <1>0 DEF ThreadType, Places
<1> HIDE DEF r
<1>3. th' \in [Threads -> ThreadType] /\ th'[x] = r /\ Others(x)
  BY <1>0, <1>1, <1>2 DEF Others
<1>4. pb' \in QueueType /\ (pb'.w = "idle" => pb'.item = 0)
      /\ (p.follow => SpokenOut(p.asked)')
  BY <1>0, <1>1 DEF FollowInv, SpokenOut
<1>5. CASE x = "api"
  <2>1. h' = h /\ th'["api"].pc # "wait" /\ Voice' = Voice
    BY <1>2, <1>3, <1>5 DEF Locks, Others, Threads, Voice
  <2> QED
    BY <1>1, <1>3, <1>4, <2>1, TalkOn DEF VoicePath
<1>6. CASE x = "voice"
  <2>1. /\ Voice.pc = "lock" /\ Voice'.pc = "intent" /\ Voice'.turn = Voice.turn
        /\ Voice'.gen = h.tgen /\ th'["api"] = th["api"]
    BY <1>1, <1>2, <1>3, <1>6 DEF Others, Threads, Voice
  <2>2. h' \in HistoryType /\ h'.gen = h.gen /\ h'.tgen = h.tgen /\ h'.ring = h.ring
    BY <1>0, <1>6 DEF Locks, HistoryType
  <2>3. InHand' = InHand
    BY <1>1, <2>1 DEF InHand, Voice
  <2>4. TalkType'
    BY <1>0, <1>1, <1>3, <2>2 DEF TalkType
  <2>5. TurnInv'
    BY <1>0, <1>1, <2>1, <2>2, <2>3 DEF TurnInv, Numbers, OneInFlight, VoiceServes, HandOpen, FreshOpen,
                                 RingTrue, VoiceKnows
  <2>6. FollowInv'
    BY <1>1, <2>1 DEF FollowInv, SpokenOut
  <2> QED
    BY <1>1, <2>3, <2>4, <2>5, <2>6 DEF TalkStep, TurnStep, ListenStep
<1> QED
  BY <1>5, <1>6 DEF Threads

\* The pending turn goes to the voice thread.
LEMMA DispatchesSound ==
  ASSUME TalkInv, UNCHANGED setup, Dispatches
  PROVE  TalkStep
<1> USE DEF TalkInv
<1> DEFINE r == [Idle EXCEPT !.pc = "lock", !.kind = p.kind, !.turn = p.pending]
<1>0. TalkType /\ th \in [Threads -> ThreadType] /\ p \in PipelineType /\ Turns' = Turns
  BY DEF TalkType, Turns
<1>1. UNCHANGED <<h, born, outcome, pb>> /\ th' = [th EXCEPT !["voice"] = r]
      /\ p.pending # 0 /\ p.dispatch = 0 /\ p' = [p EXCEPT !.dispatch = p.pending, !.pending = 0]
  BY DEF Dispatches, historyVars, SpeechVars
<1>2. r \in ThreadType /\ r.pc = "lock" /\ r.turn = p.pending
  BY <1>0 DEF ThreadType, Places, Idle, PipelineType
<1> HIDE DEF r
<1>3. th' \in [Threads -> ThreadType] /\ Voice' = r /\ th'["api"] = th["api"]
  BY <1>0, <1>1, <1>2 DEF Threads, Voice
<1>4. /\ p' \in PipelineType /\ p'.turn = p.turn /\ p'.turns = p.turns /\ p'.pending = 0
      /\ p'.dispatch = p.pending /\ (p'.follow <=> p.follow) /\ p'.asked = p.asked /\ p'.pc = p.pc
  BY <1>0, <1>1 DEF PipelineType
<1>5. p.turn = 0 /\ Voice.pc = "idle" /\ InHand = {p.pending}
  BY <1>0, <1>1, InHandIs DEF TurnInv, OneInFlight, VoiceServes
<1>6. InHand' = InHand
  BY <1>1, <1>2, <1>3, <1>4, <1>5 DEF InHand, Voice
<1>7. TalkType'
  BY <1>0, <1>1, <1>3, <1>4 DEF TalkType
<1>8. TurnInv'
  BY <1>0, <1>1, <1>2, <1>3, <1>4, <1>5, <1>6 DEF TurnInv, Numbers, OneInFlight, VoiceServes, HandOpen,
                                                   FreshOpen, RingTrue, VoiceKnows
<1>9. FollowInv'
  BY <1>1, <1>2, <1>3, <1>4, <1>5 DEF FollowInv, SpokenOut
<1> QED
  BY <1>1, <1>4, <1>6, <1>7, <1>8, <1>9 DEF TalkStep, TurnStep, ListenStep

\* The history is cleared: what is in hand belongs to a generation of the past.
LEMMA ClearsSound ==
  ASSUME TalkInv, UNCHANGED setup, ClearsHistory
  PROVE  TalkStep
<1> USE DEF TalkInv
<1>0. TalkType /\ h \in HistoryType /\ Turns' = Turns
  BY DEF TalkType, Turns
<1>1. UNCHANGED <<p, born, outcome, pb, th>> /\ h' = Cleared(h)
  BY DEF ClearsHistory, pipelineVars, SpeechVars
<1> DEFINE g == h.gen + 1
           e == <<>>
<1>2. g \in Nat /\ e \in Seq(Entry) /\ h' = [h EXCEPT !.gen = g, !.ring = e, !.tid = 0]
  BY <1>0, <1>1 DEF Cleared, HistoryType
<1>3. DOMAIN e = {}
  OBVIOUS
<1> HIDE DEF g, e
<1>4. h' \in HistoryType /\ h'.tgen = h.tgen /\ h'.ring = e
  BY <1>0, <1>2 DEF HistoryType
<1>5. InHand' = InHand
  BY <1>1 DEF InHand
<1>6. TalkType'
  BY <1>0, <1>1, <1>4 DEF TalkType
<1>7. TurnInv'
  BY <1>0, <1>1, <1>3, <1>4, <1>5 DEF TurnInv, Numbers, OneInFlight, VoiceServes, HandOpen, FreshOpen,
                               RingTrue, VoiceKnows, Voice
<1>8. FollowInv'
  BY <1>1 DEF FollowInv, SpokenOut, Voice
<1> QED
  BY <1>1, <1>5, <1>6, <1>7, <1>8 DEF TalkStep, TurnStep, ListenStep

\* Nothing of the conversation moves.
LEMMA StillSound ==
  ASSUME TalkInv, UNCHANGED <<setup, p, h, born, outcome, pb, th>>
  PROVE  TalkStep
  BY PipelineIdles DEF TalkInv, TalkType

LEMMA ApiAsksSound ==
  ASSUME TalkInv, UNCHANGED setup, ApiAsks
  PROVE  TalkStep
<1> USE DEF TalkInv
<1>0. TalkType /\ th \in [Threads -> ThreadType]
  BY DEF TalkType
<1>1. PICK k \in setup.kinds :
        th' = [th EXCEPT !["api"] = [Idle EXCEPT !.pc = "lock", !.kind = k]]
  BY DEF ApiAsks
<1> DEFINE r == [Idle EXCEPT !.pc = "lock", !.kind = k]
<1>2. k \in Kinds
  BY <1>0, AgentAssumption DEF TalkType
<1>3. r \in ThreadType /\ r.pc = "lock" /\ th' = [th EXCEPT !["api"] = r]
  BY <1>1, <1>2 DEF ThreadType, Idle, Places
<1> HIDE DEF r
<1>4. th' \in [Threads -> ThreadType] /\ th'["api"].pc # "wait" /\ Voice' = Voice
  BY <1>0, <1>3 DEF Threads, Voice
<1>5. UNCHANGED <<p, born, h, outcome, pb>>
  BY DEF ApiAsks, pipelineVars, historyVars, SpeechVars
<1>6. pb' \in QueueType /\ (pb'.w = "idle" => pb'.item = 0)
      /\ (p.follow => SpokenOut(p.asked)')
  BY <1>5 DEF TalkType, FollowInv, SpokenOut
<1> QED
  BY <1>4, <1>5, <1>6, TalkOn DEF VoicePath

LEMMA TalkSound == TalkInv /\ UNCHANGED setup /\ Conversation => TalkStep
<1> SUFFICES ASSUME TalkInv, UNCHANGED setup, Conversation PROVE TalkStep
  OBVIOUS
<1>1. CASE /\ WakedRestarts \/ WakeHeard \/ TimesOut \/ SttRefuses \/ SttEnds \/ Capture
           /\ UNCHANGED <<SpeechVars, agentVars>>
  BY <1>1, CaptureSound DEF SpeechVars, agentVars
<1>2. CASE (Worker \/ SpeechEnds) /\ UNCHANGED <<pipelineVars, born, agentVars>>
  BY <1>2, WorkerSound DEF pipelineVars, agentVars
<1>3. CASE Dispatches \/ ApiAsks \/ ClearsHistory
  BY <1>3, DispatchesSound, ApiAsksSound, ClearsSound
<1>4. CASE Configure \/ AuthStart \/ AuthPoll \/ Logout
  <2>1. UNCHANGED <<p, h, born, outcome, pb, th>>
    BY <1>4 DEF Configure, AuthStart, AuthPoll, Logout, Settles, pipelineVars, historyVars, SpeechVars
  <2> QED
    BY <2>1, StillSound
<1>5. CASE \E x \in Threads : Works(x)
  <2>1. PICK x \in Threads : Works(x)
    BY <1>5
  <2> QED
    BY <2>1, LocksSound, StopSound, AnswersSound, RecordsSound, LeavesSound DEF Works
<1> QED
  BY <1>1, <1>2, <1>3, <1>4, <1>5 DEF Conversation

-----------------------------------------------------------------------------
\* All of agentd: the conversation, the log of its turns and the stream.
AgentInv == TalkInv /\ LogInv /\ StreamInv

LEMMA AgentStarts == Init => AgentInv /\ InHand = {}
<1> SUFFICES ASSUME Init PROVE AgentInv /\ InHand = {}
  OBVIOUS
<1>0. setup.turns \in Nat /\ setup \in Setups
  BY AgentAssumption DEF Init
<1>1. TalkType
  <2>1. p \in PipelineType
    BY DEF Init, NoTurn, PipelineType, Chans, Kinds
  <2>2. h \in HistoryType
    BY DEF Init, NoHistory, HistoryType
  <2>3. pb \in QueueType
    BY DEF Init, Quiet, QueueType
  <2>4. th \in [Threads -> ThreadType]
    BY DEF Init, Idle, ThreadType, Places, Kinds
  <2>5. born \in [Turns -> Nat] /\ outcome \in [Turns -> Statuses \cup {"none"}]
    BY DEF Init, Turns
  <2> QED
    BY <1>0, <2>1, <2>2, <2>3, <2>4, <2>5 DEF TalkType
<1>2. p = NoTurn /\ h.ring = <<>> /\ Voice = Idle /\ th["api"] = Idle /\ pb = Quiet
  BY DEF Init, NoHistory, Voice, Threads
<1>3. InHand = {}
  BY <1>2 DEF InHand, NoTurn, Idle, Voice
<1>4. TurnInv
  <2>1. Numbers /\ OneInFlight /\ VoiceServes /\ VoiceKnows
    BY <1>0, <1>2 DEF Numbers, OneInFlight, VoiceServes, VoiceKnows, NoTurn, Idle
  <2>2. HandOpen /\ RingTrue
    BY <1>2, <1>3 DEF HandOpen, RingTrue
  <2>3. FreshOpen
    BY DEF Init, FreshOpen, Turns
  <2> QED
    BY <2>1, <2>2, <2>3 DEF TurnInv
<1>5. FollowInv
  BY <1>2 DEF FollowInv, NoTurn, Idle, Quiet
<1>6. LogInv
  BY DEF Init, LogInit, LogInv, LogType, NoSave, Absent, Fresher
<1>7. StreamInv
  BY AgentAssumption DEF Init, StreamInit, StreamInv, StreamType
<1> QED
  BY <1>1, <1>3, <1>4, <1>5, <1>6, <1>7 DEF AgentInv, TalkInv

LEMMA AgentStep == AgentInv /\ [Next]_vars => AgentInv' /\ TurnStep /\ ListenStep /\ Turns' = Turns
<1> SUFFICES ASSUME AgentInv, [Next]_vars
             PROVE  AgentInv' /\ TurnStep /\ ListenStep /\ Turns' = Turns
  OBVIOUS
<1> USE DEF AgentInv
<1>0. setup' = setup /\ Turns' = Turns
  BY DEF Next, Kept, vars, Turns
<1>1. UNCHANGED logVars => LogInv'
  BY DEF logVars, LogInv, LogType, Fresher
<1>2. UNCHANGED streamVars => StreamInv'
  BY DEF streamVars, StreamInv, StreamType
<1>3. UNCHANGED talkVars => TalkStep
  BY <1>0, StillSound DEF talkVars, pipelineVars, historyVars, SpeechVars, agentVars
<1>4. CASE Conversation
  BY <1>0, <1>1, <1>2, <1>4, TalkSound DEF Conversation, TalkStep
<1>5. CASE LogNext /\ UNCHANGED <<talkVars, streamVars>>
  BY <1>0, <1>2, <1>3, <1>5, LogStep DEF TalkStep
<1>6. CASE StreamNext /\ UNCHANGED <<talkVars, logVars>>
  BY <1>0, <1>1, <1>3, <1>6, StreamStep DEF TalkStep
<1>7. CASE UNCHANGED vars
  <2>1. UNCHANGED <<talkVars, logVars, streamVars>>
    BY <1>7 DEF vars, talkVars
  <2> QED
    BY <1>0, <1>1, <1>2, <1>3, <2>1 DEF TalkStep
<1> QED
  BY <1>4, <1>5, <1>6, <1>7 DEF Next

LEMMA AgentAlways == Spec => []AgentInv
<1>1. Init => AgentInv
  BY AgentStarts
<1>2. AgentInv /\ [Next]_vars => AgentInv'
  BY AgentStep
<1> QED
  BY <1>1, <1>2, PTL DEF Spec

\* Whatever is reported of a turn is true of it: the history shows no turn that
\* began before it was cleared, the saved log none either, and speech is counted
\* as spoken only when it was heard to its end (record_voice_turn,
\* command_history_clear, load_history, synthesize_and_stream).
THEOREM TurnsAlwaysTruthful == Spec => []TurnsTruthful
<1>1. AgentInv => TurnsTruthful
  <2>1. AgentInv => ClearedStaysCleared
    BY DEF AgentInv, TalkInv, TurnInv, RingTrue, LogInv, ClearedStaysCleared, LogStaysCleared
  <2>2. AgentInv => StreamTruthful
    BY AgentAssumption DEF AgentInv, StreamInv, StreamType, StreamTruthful
  <2> QED
    BY <2>1, <2>2 DEF TurnsTruthful
<1> QED
  BY <1>1, AgentAlways, PTL

\* A follow-up begins to listen only when nothing of the question that asked for
\* it is queued or being spoken (le_voice_playback_wait_idle,
\* le_voice_pipeline_request_follow_up).
THEOREM AlwaysListensAfter == Spec => ListensAfterItsQuestion
<1>1. AgentInv /\ [Next]_vars =>
        [(p.turn # p'.turn /\ p'.pc = "begin" /\ p'.foll) =>
           /\ \A i \in DOMAIN pb.queue : pb.queue[i] # p.asked
           /\ pb.item # p.asked]_vars
  BY AgentStep DEF ListenStep, SpokenOut
<1> QED
  BY <1>1, AgentAlways, PTL DEF Spec, ListensAfterItsQuestion

\* agentd's turns are those of the history document, step by step: one in
\* flight, one outcome each, and none that changes but from completed to
\* tts_failed (voice_pipeline.c, voice_transcript; docs/voice-history-core.md).
THEOREM TurnsKeepTheirPromise == Spec => Promised!Init /\ [][Promised!Next]_(Promised!turnVars)
<1> DEFINE Shown == [t \in 1..MaxTurns |-> IF t \in Turns THEN outcome[t] ELSE "none"]
<1>1. Init => Promised!Init
  <2> SUFFICES ASSUME Init PROVE Promised!Init
    OBVIOUS
  <2>1. InHand = {}
    BY AgentStarts
  <2>2. Shown = [t \in 1..MaxTurns |-> "none"]
    BY DEF Init, Turns
  <2> QED
    BY <2>1, <2>2 DEF Promised!Init
<1>2. AgentInv /\ [Next]_vars => [Promised!Next]_(Promised!turnVars)
  <2> SUFFICES ASSUME AgentInv, [Next]_vars
               PROVE  Promised!Next \/ (InHand' = InHand /\ Shown' = Shown)
    BY DEF Promised!turnVars
  <2>1. TurnStep /\ Turns' = Turns
    BY AgentStep
  <2>2. Turns \subseteq 1..MaxTurns /\ outcome \in [Turns -> Statuses \cup {"none"}]
    BY TurnNumbers DEF AgentInv, TalkInv, TalkType, Turns
  <2>3. \A t \in Turns : Shown[t] = outcome[t]
    BY <2>2
  <2>4. ASSUME NEW t \in Turns, NEW st, outcome' = [outcome EXCEPT ![t] = st]
        PROVE  Shown' = [Shown EXCEPT ![t] = st]
    BY <2>1, <2>2, <2>4
  <2>5. outcome' = outcome => Shown' = Shown
    BY <2>1
  <2> HIDE DEF Shown
  <2>6. CASE InHand' = InHand /\ outcome' = outcome
    BY <2>5, <2>6
  <2>7. ASSUME NEW t \in Turns,
               InHand = {} /\ outcome[t] = "none" /\ InHand' = {t} /\ outcome' = outcome
        PROVE  Promised!Begin(t)
    BY <2>3, <2>5, <2>7 DEF Promised!Begin, Shown
  <2>8. ASSUME NEW t \in Turns, t \notin InHand, outcome[t] = "none", InHand' = InHand,
               outcome' = [outcome EXCEPT ![t] = "cancelled"]
        PROVE  Promised!Refused(t)
    BY <2>3, <2>4, <2>8 DEF Promised!Refused, Shown
  <2>9. ASSUME NEW t \in Turns, outcome[t] = "completed", InHand' = InHand,
               outcome' = [outcome EXCEPT ![t] = "tts_failed"]
        PROVE  Promised!SpeechFails(t)
    BY <2>3, <2>4, <2>9 DEF Promised!SpeechFails, Shown
  <2>10. ASSUME NEW t \in Turns, NEW st \in Statuses,
                InHand = {t} /\ InHand' = {} /\ outcome' = [outcome EXCEPT ![t] = st]
         PROVE  Promised!Close(t, st)
    BY <2>4, <2>10 DEF Promised!Close, Shown
  <2> QED
    BY <2>1, <2>2, <2>6, <2>7, <2>8, <2>9, <2>10
       DEF TurnStep, Promised!Next, Promised!Ends, Statuses
<1> QED
  BY <1>1, <1>2, AgentAlways, PTL DEF Spec
=============================================================================
