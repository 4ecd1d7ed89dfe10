----------------------------- MODULE AudioProofs -----------------------------
(***************************************************************************)
(* What audiod promises of its children, airplayd of its own, and both of   *)
(* the one speaker level, for every setup, any number of sessions,          *)
(* callbacks, presses, deaths and faults, and any number of children.       *)
(***************************************************************************)
EXTENDS AudioService, FiniteSetTheorems, SequenceTheorems, TLAPS

USE AudioAssumption, SoundsAssumption

-----------------------------------------------------------------------------
(* audiod's sounds.  A child that has not exited is the one its slot names, *)
(* so a slot whose process is gone has nobody at its bus.                   *)
ProcRec == [kind : Kinds, st : {"forked", "playing", "fading", "exited"}]
SoundType ==
  /\ procs \in Seq(ProcRec)
  /\ slot \in [Kinds -> 0..Len(procs)]
  /\ blocked = NotBlocked \/ blocked \in [pid : 1..Len(procs), restart : BOOLEAN]
Slotted == \A p \in 1..Len(procs) : procs[p].st # "exited" => slot[procs[p].kind] = p
Blocking == ~Free => blocked.pid = slot["noise"]
SoundInv == SoundType /\ Slotted /\ Blocking

LEMMA OneWriter == SoundInv => WritersExclusive
<1> SUFFICES ASSUME SoundInv, NEW k \in Kinds PROVE Cardinality(Sounding(k)) <= 1
  BY DEF WritersExclusive
<1>1. DOMAIN procs = 1..Len(procs)
  BY LenProperties DEF SoundInv, SoundType
<1>2. Sounding(k) \subseteq {slot[k]}
  BY <1>1 DEF Sounding, SoundInv, Slotted
<1>3. IsFiniteSet({slot[k]}) /\ Cardinality({slot[k]}) = 1
  BY Zenon, FS_Singleton
<1>4. Cardinality(Sounding(k)) <= Cardinality({slot[k]})
  BY <1>2, <1>3, FS_Subset
<1> QED
  BY <1>3, <1>4

(* A child is forked into a slot whose process is gone.                     *)
LEMMA ForkKeeps ==
  ASSUME SoundInv, NEW kind \in Kinds, Gone(slot[kind]),
         procs' = Forked(kind), slot' = [slot EXCEPT ![kind] = Len(procs) + 1],
         blocked' = NotBlocked
  PROVE  SoundInv'
<1> DEFINE child == [kind |-> kind, st |-> "forked"]
<1>1. child \in ProcRec
  BY DEF ProcRec
<1>2. /\ procs' \in Seq(ProcRec) /\ Len(procs') = Len(procs) + 1
      /\ procs'[Len(procs) + 1] = child
      /\ \A p \in 1..Len(procs) : procs'[p] = procs[p]
  BY <1>1, AppendProperties DEF Forked, SoundInv, SoundType
<1>3. Len(procs) \in Nat
  BY LenProperties DEF SoundInv, SoundType
<1>4. SoundType'
  BY <1>2, <1>3 DEF SoundType, SoundInv
<1>5. ASSUME NEW p \in 1..Len(procs'), procs'[p].st # "exited"
      PROVE  slot'[procs'[p].kind] = p
  <2>1. CASE p = Len(procs) + 1
    BY <2>1, <1>2 DEF SoundInv, SoundType
  <2>2. CASE p # Len(procs) + 1
    <3>1. p \in 1..Len(procs) /\ procs'[p] = procs[p] /\ procs[p] \in ProcRec
      BY <2>2, <1>2, <1>3, ElementOfSeq DEF SoundInv, SoundType
    <3>2. slot[procs[p].kind] = p /\ p # 0
      BY <3>1, <1>5 DEF SoundInv, Slotted
    <3>3. procs[p].kind # kind
      BY <3>1, <3>2, <1>5 DEF Gone
    <3> QED
      BY <3>1, <3>2, <3>3 DEF ProcRec, SoundInv, SoundType
  <2> QED
    BY <2>1, <2>2
<1> QED
  BY <1>4, <1>5 DEF SoundInv, Slotted, Blocking, Free

(* A child that goes on to another state, and is not born again.            *)
LEMMA MoveKeeps ==
  ASSUME SoundInv, NEW p \in 1..Len(procs), NEW st \in {"playing", "fading", "exited"},
         procs[p].st # "exited" \/ st = "exited",
         procs' = [procs EXCEPT ![p].st = st], slot' = slot,
         \/ blocked' = blocked
         \/ Free /\ blocked' \in [pid : {p}, restart : BOOLEAN] /\ slot["noise"] = p
  PROVE  SoundInv'
<1>1. procs[p] \in ProcRec /\ Len(procs) \in Nat /\ DOMAIN procs = 1..Len(procs)
  BY ElementOfSeq, LenProperties DEF SoundInv, SoundType
<1> DEFINE child == [procs[p] EXCEPT !.st = st]
<1>2. child \in ProcRec /\ child.kind = procs[p].kind /\ child.st = st
  BY <1>1 DEF ProcRec
<1>3. procs' = [procs EXCEPT ![p] = child]
  BY <1>1
<1> HIDE DEF child
<1>0. procs \in Seq(ProcRec)
  BY DEF SoundInv, SoundType
<1>4. /\ procs' \in Seq(ProcRec) /\ Len(procs') = Len(procs)
      /\ \A q \in 1..Len(procs) : procs'[q] = IF q = p THEN child ELSE procs[q]
  <2>1. /\ [procs EXCEPT ![p] = child] \in Seq(ProcRec)
        /\ Len([procs EXCEPT ![p] = child]) = Len(procs)
        /\ \A q \in 1..Len(procs) : [procs EXCEPT ![p] = child][q] = IF q = p THEN child ELSE procs[q]
    BY ONLY <1>0, <1>2, p \in 1..Len(procs), ExceptSeq
  <2> QED
    BY ONLY <2>1, <1>3
<1>5. SoundType'
  BY <1>4, <1>1 DEF SoundType, SoundInv
<1>6. ASSUME NEW q \in 1..Len(procs'), procs'[q].st # "exited"
      PROVE  slot'[procs'[q].kind] = q
  <2>1. q \in 1..Len(procs) /\ procs'[q] = IF q = p THEN child ELSE procs[q]
    BY <1>4
  <2>2. procs[q].st # "exited" /\ procs'[q].kind = procs[q].kind
    BY <2>1, <1>2, <1>6
  <2> QED
    BY <2>1, <2>2 DEF SoundInv, Slotted
<1>7. Blocking'
  BY <1>5 DEF SoundInv, Blocking, Free, SoundType
<1> QED
  BY <1>5, <1>6, <1>7 DEF SoundInv, Slotted

(* A slot whose process is gone is given up.                                *)
LEMMA GiveUpKeeps ==
  ASSUME SoundInv, procs' = procs, slot' \in [Kinds -> 0..Len(procs)],
         \A k \in Kinds : slot'[k] = slot[k] \/ (slot'[k] = 0 /\ Gone(slot[k])),
         blocked' = NotBlocked
  PROVE  SoundInv'
<1>1. SoundType'
  BY DEF SoundInv, SoundType
<1>2. ASSUME NEW p \in 1..Len(procs), procs[p].st # "exited"
      PROVE  slot'[procs[p].kind] = p
  <2>1. procs[p] \in ProcRec /\ p # 0
    BY ElementOfSeq, LenProperties DEF SoundInv, SoundType
  <2>2. slot[procs[p].kind] = p /\ procs[p].kind \in Kinds
    BY <2>1, <1>2 DEF SoundInv, Slotted, ProcRec
  <2> QED
    BY <2>1, <2>2, <1>2 DEF Gone
<1> QED
  BY <1>1, <1>2 DEF SoundInv, Slotted, Blocking, Free

LEMMA SoundStepKeeps == SoundInv /\ (PlayNext \/ MixerNext \/ RefreshState) => SoundInv'
<1> SUFFICES ASSUME SoundInv, PlayNext \/ MixerNext \/ RefreshState PROVE SoundInv'
  OBVIOUS
<1> USE DEF Kinds
<1>a. /\ procs \in Seq(ProcRec) /\ Len(procs) \in Nat /\ DOMAIN procs = 1..Len(procs)
      /\ slot \in [Kinds -> 0..Len(procs)]
      /\ \A p \in 1..Len(procs) : procs[p] \in ProcRec
  BY ElementOfSeq, LenProperties DEF SoundInv, SoundType
<1>b. ASSUME UNCHANGED <<procs, slot, blocked>> PROVE SoundInv'
  BY <1>b DEF SoundInv, SoundType, Slotted, Blocking, Free
<1>1. CASE NoiseReaped
  <2>1. Gone(slot["noise"]) /\ blocked' = NotBlocked
    BY <1>1 DEF NoiseReaped, SoundInv, Blocking
  <2>2. CASE blocked.restart /\ CanFork
    <3>1. procs' = Forked("noise") /\ slot' = [slot EXCEPT !["noise"] = Len(procs) + 1]
      BY <1>1, <2>2 DEF NoiseReaped, BeginNoise
    <3> QED
      BY <2>1, <3>1, ForkKeeps
  <2>3. CASE ~(blocked.restart /\ CanFork)
    <3>1. slot' = [slot EXCEPT !["noise"] = 0] /\ procs' = procs
      BY <1>1, <2>3 DEF NoiseReaped
    <3>2. slot' \in [Kinds -> 0..Len(procs)]
      BY <3>1, <1>a
    <3>3. \A k \in Kinds : slot'[k] = slot[k] \/ (slot'[k] = 0 /\ Gone(slot[k]))
      BY <3>1, <2>1, <1>a
    <3> QED
      BY <2>1, <3>1, <3>2, <3>3, GiveUpKeeps
  <2> QED
    BY <2>2, <2>3
<1>2. CASE ReapChildren
  <2>1. /\ procs' = procs /\ blocked' = NotBlocked
        /\ slot' = [k \in Kinds |-> IF Gone(slot[k]) THEN 0 ELSE slot[k]]
    BY <1>2 DEF ReapChildren, Free
  <2>2. slot' \in [Kinds -> 0..Len(procs)]
    BY <2>1, <1>a
  <2>3. \A k \in Kinds : slot'[k] = slot[k] \/ (slot'[k] = 0 /\ Gone(slot[k]))
    BY <2>1, <1>a
  <2> QED
    BY <2>1, <2>2, <2>3, GiveUpKeeps
<1>c. ASSUME NEW restart \in BOOLEAN, Free, ~Gone(slot["noise"]),
             procs' = Terminated(slot["noise"]), slot' = slot,
             blocked' = [pid |-> slot["noise"], restart |-> restart]
      PROVE  SoundInv'
  <2> DEFINE p == slot["noise"]
  <2>1. p \in 1..Len(procs) /\ procs[p] \in ProcRec /\ procs[p].st # "exited"
    BY <1>a, <1>c DEF Gone
  <2>2. blocked' \in [pid : {p}, restart : BOOLEAN]
    BY <1>c
  <2>3. CASE procs[p].st = "playing"
    <3>1. procs' = [procs EXCEPT ![p].st = "fading"]
      BY <1>c, <2>3, <2>1, <1>a DEF Terminated
    <3> HIDE DEF p
    <3> QED
      BY Zenon, <2>1, <2>2, <3>1, <1>c, MoveKeeps DEF p
  <2>4. CASE procs[p].st # "playing"
    <3>1. procs' = procs
      BY <1>c, <2>4, <2>1, <1>a DEF Terminated, ProcRec
    <3>2. blocked' \in [pid : 1..Len(procs), restart : BOOLEAN] /\ blocked'.pid = slot["noise"]
      BY <2>1, <2>2
    <3> QED
      BY <3>1, <3>2, <1>c DEF SoundInv, SoundType, Slotted, Blocking
  <2> QED
    BY <2>3, <2>4
<1>3. CASE NoiseStart
  <2>1. CASE Gone(slot["noise"])
    <3>1. /\ procs' = Forked("noise") /\ slot' = [slot EXCEPT !["noise"] = Len(procs) + 1]
          /\ blocked' = NotBlocked
      BY <1>3, <2>1 DEF NoiseStart, BeginNoise, Free
    <3> QED
      BY <2>1, <3>1, ForkKeeps
  <2>2. CASE ~Gone(slot["noise"])
    BY Zenon, <1>3, <2>2, <1>c DEF NoiseStart
  <2> QED
    BY <2>1, <2>2
<1>4. CASE NoiseStop
  <2>1. CASE Gone(slot["noise"])
    <3>1. slot' = [slot EXCEPT !["noise"] = 0] /\ procs' = procs /\ blocked' = NotBlocked
      BY <1>4, <2>1 DEF NoiseStop, Free
    <3>2. slot' \in [Kinds -> 0..Len(procs)]
      BY <3>1, <1>a
    <3>3. \A k \in Kinds : slot'[k] = slot[k] \/ (slot'[k] = 0 /\ Gone(slot[k]))
      BY <3>1, <2>1, <1>a
    <3> QED
      BY <3>1, <3>2, <3>3, GiveUpKeeps
  <2>2. CASE ~Gone(slot["noise"])
    BY Zenon, <1>4, <2>2, <1>c DEF NoiseStop
  <2> QED
    BY <2>1, <2>2
<1>5. CASE Cue
  BY <1>5, ForkKeeps DEF Cue, CueMayStart, Free
<1>6. CASE Sample
  BY <1>6, ForkKeeps DEF Sample, Free
<1>7. CASE Tick \/ ReconcileLeveling \/ MixerMoved \/ CodecToggles \/ FlagLost
           \/ (\E on \in BOOLEAN : SetLeveling(on)) \/ RefreshState
  BY Zenon, <1>7, <1>b DEF Tick, ReconcileLeveling, MixerMoved, CodecToggles, FlagLost, SetLeveling,
     RefreshState
<1>8. CASE \E p \in DOMAIN procs : ChildBegins(p) \/ ChildEnds(p)
  <2>1. PICK p \in 1..Len(procs) : ChildBegins(p) \/ ChildEnds(p)
    BY <1>8, <1>a
  <2>2. CASE ChildBegins(p)
    <3>1. /\ procs[p].st # "exited" /\ procs' = [procs EXCEPT ![p].st = "playing"]
          /\ slot' = slot /\ blocked' = blocked
      BY <2>2 DEF ChildBegins
    <3> QED
      BY Zenon, <3>1, MoveKeeps
  <2>3. CASE ChildEnds(p)
    <3>1. /\ procs' = [procs EXCEPT ![p].st = "exited"]
          /\ slot' = slot /\ blocked' = blocked
      BY <2>3 DEF ChildEnds
    <3> QED
      BY Zenon, <3>1, MoveKeeps
  <2> QED
    BY <2>1, <2>2, <2>3
<1> QED
  BY <1>1, <1>2, <1>3, <1>4, <1>5, <1>6, <1>7, <1>8 DEF PlayNext, MixerNext

-----------------------------------------------------------------------------
(* airplayd's processes.  Enabled means a whole receiver with its pipe; not *)
(* enabled, none of it but what an enable in progress has started; and a    *)
(* Sendspin player belongs to the engine that runs.                         *)
(* Acknowledgements and what airplayd holds for confirmed.                  *)
Claims == {None} \union (Nat \X Nat)
Levels == 0..100
States == {"live", "zombie", "none"}
ReceiverType ==
  r \in [child : [Children -> States], enabling : {"no", "clock", "sound", "watch"},
         fifo : BOOLEAN, wanted : BOOLEAN, epoch : Nat, bound : Nat, strays : Nat]
Begun == CASE r.enabling = "no"    -> {}
           [] r.enabling = "clock" -> {"nqptp"}
           [] r.enabling = "sound" -> {"nqptp", "bridge"}
           [] r.enabling = "watch" -> Trio
Whole ==
  /\ c.enabled => r.enabling = "no" /\ r.fifo /\ \A k \in Trio : Alive(k)
  /\ ~c.enabled => \A k \in Trio \ Begun : ~Running(k)
  /\ r.enabling = "watch" => r.fifo /\ \A k \in Trio : Alive(k)
  /\ r.enabling = "clock" => Alive("nqptp")
  /\ r.enabling = "sound" => Alive("nqptp") /\ Alive("bridge")
Bound == Alive("sendspin") => r.bound = r.epoch
PipeHeld == ~setup.fifoFails
ClientRec ==
  [up : BOOLEAN, enabled : BOOLEAN, sess : Nat, confirmed : Claims, applied : BOOLEAN,
   pc : {"idle", "call", "end", "status", "ack"}, m : Nat, v : Nat, level : Levels]
ReceiverInv ==
  /\ ReceiverType /\ c.enabled \in BOOLEAN
  /\ PipeHeld => Whole /\ NoStrays
  /\ Bound

LEMMA ReceiverBegins == setup \in Setups /\ c.enabled = setup.enabled /\ ReceiverInit => ReceiverInv
<1> SUFFICES ASSUME setup \in Setups, c.enabled = setup.enabled, ReceiverInit PROVE ReceiverInv
  OBVIOUS
<1>1. setup.enabled \in BOOLEAN
  OBVIOUS
<1> USE DEF ReceiverInit, Children, Trio
<1>2. ReceiverType
  BY <1>1 DEF ReceiverType, States
<1> QED
  BY <1>1, <1>2 DEF ReceiverInv, Whole, NoStrays, Bound, Begun, Alive, Running

(* An enable starts with nothing of the receiver running, and a spawn over  *)
(* a pid that is not running strays nobody.                                 *)
LEMMA SpawnKeeps ==
  ASSUME ReceiverType, NEW k \in Children
  PROVE  /\ Spawned(k) \in [child : [Children -> States], enabling : {"no", "clock", "sound", "watch"},
                            fifo : BOOLEAN, wanted : BOOLEAN, epoch : Nat, bound : Nat, strays : Nat]
         /\ Spawned(k).child = [r.child EXCEPT ![k] = "live"]
         /\ ~Running(k) => Spawned(k).strays = r.strays
         /\ Spawned(k).enabling = r.enabling /\ (Spawned(k).fifo <=> r.fifo)
         /\ Spawned(k).epoch = r.epoch /\ Spawned(k).bound = r.bound
<1> DEFINE more == IF Running(k) THEN 1 ELSE 0
<1>1. r.child \in [Children -> States] /\ r.strays + more \in Nat /\ (~Running(k) => r.strays + more = r.strays)
  BY DEF ReceiverType
<1>2. Spawned(k) = [r EXCEPT !.child[k] = "live", !.strays = @ + more]
  BY DEF Spawned
<1>3. [r.child EXCEPT ![k] = "live"] \in [Children -> States]
  BY <1>1 DEF States
<1> HIDE DEF more
<1> QED
  BY ZenonT(60), <1>1, <1>2, <1>3 DEF ReceiverType

LEMMA ReceiverStepKeeps ==
  ReceiverInv /\ "receiver" \in setup.parts /\ UNCHANGED setup /\ c \in ClientRec /\ ReceiverNext => ReceiverInv'
<1> SUFFICES ASSUME ReceiverInv, "receiver" \in setup.parts, UNCHANGED setup, c \in ClientRec, ReceiverNext
             PROVE  ReceiverInv'
  OBVIOUS
<1> DEFINE Shape == [child : [Children -> States], enabling : {"no", "clock", "sound", "watch"},
                     fifo : BOOLEAN, wanted : BOOLEAN, epoch : Nat, bound : Nat, strays : Nat]
<1>a. r \in Shape /\ c.enabled \in BOOLEAN /\ r.child \in [Children -> States]
  BY DEF ReceiverInv, ReceiverType
<1>b. PipeHeld' <=> PipeHeld
  BY DEF PipeHeld
(* Stopping the receiver's children leaves none of them. *)
<1>c. ASSUME NEW ks \in SUBSET Children
      PROVE  /\ Stopped(r.child, ks) \in [Children -> States]
             /\ \A k \in Children : Stopped(r.child, ks)[k] = IF k \in ks THEN "none" ELSE r.child[k]
  BY <1>a DEF Stopped, States
<1>d. Trio \subseteq Children /\ "engine" \in Children /\ "sendspin" \in Children
      /\ "nqptp" \in Trio /\ "bridge" \in Trio /\ "shairport" \in Trio
      /\ "engine" \notin Trio /\ "sendspin" \notin Trio
      /\ \A k \in Trio : k \in {"nqptp", "bridge", "shairport"}
  BY DEF Children, Trio
<1>e. ASSUME r' = [r EXCEPT !.child = Stopped(@, Trio), !.fifo = FALSE, !.enabling = "no"],
             ~c'.enabled, c'.enabled \in BOOLEAN
      PROVE  ReceiverInv'
  <2>1. r'.child = Stopped(r.child, Trio) /\ r'.enabling = "no" /\ r' \in Shape
        /\ r'.strays = r.strays /\ r'.epoch = r.epoch /\ r'.bound = r.bound
    BY Zenon, <1>a, <1>c, <1>d, <1>e
  <2>2. Bound'
    BY <2>1, <1>c, <1>d DEF ReceiverInv, Bound, Alive
  <2>3. PipeHeld => Whole' /\ NoStrays'
    BY <2>1, <1>c, <1>d, <1>e DEF ReceiverInv, Whole, Begun, Running, Alive, NoStrays
  <2> QED
    BY <2>1, <2>2, <2>3, <1>b, <1>e DEF ReceiverInv, ReceiverType
<1>1. CASE Pass
  <2> DEFINE a == AfterReap
             left == [k \in Children |-> IF r.child[k] = "zombie" THEN "none" ELSE r.child[k]]
             torn == (\E k \in Children \ {"sendspin"} : r.child[k] = "zombie") /\ c.enabled
             down == IF torn THEN Stopped(left, Trio) ELSE left
             base == IF down["engine"] = "none" THEN Stopped(down, {"sendspin"}) ELSE down
  <2>1. a.child = [base EXCEPT !["engine"] = "live"] /\ (a.torn <=> torn)
        /\ a.epoch = IF base["engine"] = "none" THEN r.epoch + 1 ELSE r.epoch
    BY Zenon DEF AfterReap, TearDown
  <2>2. /\ r' = [r EXCEPT !.child = a.child, !.epoch = a.epoch,
                          !.fifo = IF a.torn THEN FALSE ELSE @ \/ c.enabled]
        /\ c' = [c EXCEPT !.enabled = @ /\ ~a.torn]
        /\ r.enabling = "no"
    BY <1>1 DEF Pass, Waiting
  <2>3. left \in [Children -> {"live", "none"}]
    BY <1>a DEF States
  <2>4. down \in [Children -> {"live", "none"}] /\ base \in [Children -> {"live", "none"}]
    BY <2>3, <1>d DEF Stopped
  <2>5. /\ \A k \in Trio : base[k] = IF torn THEN "none" ELSE left[k]
        /\ base["engine"] = left["engine"]
        /\ base["engine"] = "none" => base["sendspin"] = "none"
        /\ base["sendspin"] = "none" \/ base["sendspin"] = left["sendspin"]
    BY <2>3, <2>4, <1>d DEF Stopped
  <2> HIDE DEF base, down
  <2>6. /\ a.child \in [Children -> States] /\ a.epoch \in Nat
        /\ \A k \in Trio \union {"sendspin"} : a.child[k] = base[k]
    BY <2>1, <2>4, <1>a, <1>d DEF States
  <2> HIDE DEF a
  <2>7. /\ r' \in Shape /\ r'.child = a.child /\ r'.epoch = a.epoch
        /\ (r'.fifo <=> IF torn THEN FALSE ELSE r.fifo \/ c.enabled)
        /\ r'.enabling = "no" /\ r'.bound = r.bound /\ r'.strays = r.strays
        /\ (c'.enabled <=> c.enabled /\ ~torn) /\ c'.enabled \in BOOLEAN
    <3>1. (IF a.torn THEN FALSE ELSE r.fifo \/ c.enabled) \in BOOLEAN /\ (c.enabled /\ ~a.torn) \in BOOLEAN
      BY Zenon, <1>a
    <3>2. r' \in Shape /\ r'.child = a.child /\ r'.epoch = a.epoch
      BY ZenonT(60), <2>2, <2>6, <1>a, <3>1
    <3>3. r'.enabling = "no" /\ r'.bound = r.bound /\ r'.strays = r.strays
      BY <2>2, <1>a
    <3>4. r'.fifo = (IF a.torn THEN FALSE ELSE r.fifo \/ c.enabled)
      BY <2>2, <1>a
    <3>5. c'.enabled = (c.enabled /\ ~a.torn)
      BY <2>2 DEF ClientRec
    <3> HIDE DEF torn
    <3> QED
      BY Zenon, <3>1, <3>2, <3>3, <3>4, <3>5, <2>1
  <2>8. Bound'
    BY <2>7, <2>6, <2>5, <2>1, <1>d, <1>a DEF Bound, Alive, ReceiverInv
  <2>9. ASSUME PipeHeld PROVE Whole'
    <3>0. \A k \in Trio : left[k] = IF r.child[k] = "zombie" THEN "none" ELSE r.child[k]
      BY <1>d
    <3>1. ASSUME c.enabled, ~torn PROVE r'.fifo /\ \A k \in Trio : r'.child[k] # "none"
      <4>1. \A k \in Trio : r.child[k] # "zombie"
        BY <3>1, <1>d
      <4>2. r.fifo /\ \A k \in Trio : r.child[k] # "none"
        BY <3>1, <2>9 DEF ReceiverInv, Whole, Alive
      <4> HIDE DEF left, torn
      <4> QED
        BY <4>1, <4>2, <3>0, <3>1, <2>7, <2>6, <2>5
    <3>2. ASSUME ~(c.enabled /\ ~torn) PROVE \A k \in Trio : r'.child[k] # "live"
      <4>1. CASE torn
        <5> HIDE DEF left, torn
        <5> QED
          BY <4>1, <2>7, <2>6, <2>5
      <4>2. CASE ~torn
        <5>1. ~c.enabled
          BY <4>2, <3>2
        <5>2. \A k \in Trio : r.child[k] # "live"
          BY <5>1, <2>9, <2>2 DEF ReceiverInv, Whole, Begun, Running
        <5> HIDE DEF left, torn
        <5> QED
          BY <5>2, <4>2, <3>0, <2>7, <2>6, <2>5
      <4> QED
        BY <4>1, <4>2
    <3> HIDE DEF left
    <3> HIDE DEF torn
    <3> QED
      BY <3>1, <3>2, <2>7, <1>d DEF Whole, Begun, Running, Alive
  <2> HIDE DEF torn
  <2> QED
    BY <2>7, <2>8, <2>9, <1>b DEF ReceiverInv, ReceiverType, NoStrays
<1>2. CASE SendspinPoll
  <2>1. c' = c /\ r.enabling = "no"
    BY <1>2 DEF SendspinPoll, Waiting
  <2>2. CASE r' = [r EXCEPT !.child["sendspin"] = "none"]
    <3>1. r' \in Shape /\ r'.child = [r.child EXCEPT !["sendspin"] = "none"] /\ r'.strays = r.strays
          /\ r'.enabling = r.enabling /\ (r'.fifo <=> r.fifo) /\ r'.epoch = r.epoch /\ r'.bound = r.bound
      BY <2>2, <1>a, <1>d DEF States
    <3> QED
      BY <3>1, <2>1, <1>a, <1>b, <1>d DEF ReceiverInv, ReceiverType, Whole, NoStrays, Bound,
         Begun, Running, Alive
  <2>3. CASE ~Alive("sendspin") /\ r' = [Spawned("sendspin") EXCEPT !.bound = r.epoch]
    <3>1. ~Running("sendspin")
      BY <2>3 DEF Alive, Running
    <3>2. r' \in Shape /\ r'.child = [r.child EXCEPT !["sendspin"] = "live"] /\ r'.strays = r.strays
          /\ r'.enabling = r.enabling /\ (r'.fifo <=> r.fifo) /\ r'.epoch = r.epoch /\ r'.bound = r.epoch
      BY <2>3, <3>1, <1>a, <1>d, SpawnKeeps DEF ReceiverType
    <3> QED
      BY <3>2, <2>1, <1>a, <1>b, <1>d DEF ReceiverInv, ReceiverType, Whole, NoStrays, Bound,
         Begun, Running, Alive
  <2> QED
    BY <1>2, <2>2, <2>3 DEF SendspinPoll
<1>3. CASE \E on \in BOOLEAN : SetSendspin(on)
  <2>1. PICK on \in BOOLEAN : r' = [r EXCEPT !.wanted = on] /\ c' = c
    BY <1>3 DEF SetSendspin
  <2>2. r' \in Shape /\ r'.child = r.child /\ r'.strays = r.strays
        /\ r'.enabling = r.enabling /\ (r'.fifo <=> r.fifo) /\ r'.epoch = r.epoch /\ r'.bound = r.bound
    BY <2>1, <1>a
  <2> QED
    BY <2>1, <2>2, <1>a, <1>b DEF ReceiverInv, ReceiverType, Whole, NoStrays, Bound, Begun,
       Running, Alive
<1>4. CASE ResetPairing
  <2>1. r' = [r EXCEPT !.child["sendspin"] = "none"] /\ c' = c
    BY <1>4 DEF ResetPairing
  <2>2. r' \in Shape /\ r'.child = [r.child EXCEPT !["sendspin"] = "none"] /\ r'.strays = r.strays
        /\ r'.enabling = r.enabling /\ (r'.fifo <=> r.fifo) /\ r'.epoch = r.epoch /\ r'.bound = r.bound
    BY <2>1, <1>a, <1>d DEF States
  <2> QED
    BY <2>2, <2>1, <1>a, <1>b, <1>d DEF ReceiverInv, ReceiverType, Whole, NoStrays, Bound, Begun,
       Running, Alive
<1>5. CASE Disable
  <2>1. r.enabling = "no" /\ r' = [r EXCEPT !.child = Stopped(@, Trio), !.fifo = FALSE]
        /\ c' = [c EXCEPT !.enabled = FALSE]
    BY <1>5 DEF Disable, Waiting
  <2>2. r' = [r EXCEPT !.child = Stopped(@, Trio), !.fifo = FALSE, !.enabling = "no"]
    BY Zenon, <2>1, <1>a
  <2>3. c'.enabled = FALSE
    BY <2>1 DEF ClientRec
  <2> QED
    BY Zenon, <2>2, <2>3, <1>e
<1>6. CASE Enable
  <2>1. /\ r.enabling = "no" /\ Alive("engine") /\ c' = c
        /\ ~(c.enabled /\ (\A k \in Trio \union {"engine"} : Alive(k)) /\ r.fifo)
        /\ r' = [Spawned("nqptp") EXCEPT !.enabling = "clock"]
    BY <1>6 DEF Enable, Waiting
  <2>2. PipeHeld => ~c.enabled
    BY <2>1, <1>d DEF ReceiverInv, Whole
  <2>3. r' \in Shape /\ r'.child = [r.child EXCEPT !["nqptp"] = "live"] /\ r'.enabling = "clock"
        /\ (~Running("nqptp") => r'.strays = r.strays) /\ r'.epoch = r.epoch /\ r'.bound = r.bound
    BY <2>1, <1>a, <1>d, SpawnKeeps DEF ReceiverType
  <2>4. Bound'
    BY <2>3, <1>a, <1>d DEF ReceiverInv, Bound, Alive
  <2>5. PipeHeld => Whole' /\ NoStrays'
    BY <2>1, <2>2, <2>3, <1>a, <1>d DEF ReceiverInv, Whole, NoStrays, Begun, Running, Alive
  <2> QED
    BY <2>1, <2>3, <2>4, <2>5, <1>a, <1>b DEF ReceiverInv, ReceiverType
<1>7. CASE EnableStep
  <2>1. ASSUME r.enabling # "no", EnableFails PROVE ReceiverInv'
    <3>1. CASE ~c.enabled
      BY <2>1, <3>1, <1>e, <1>a DEF EnableFails
    <3>2. CASE c.enabled
      <4>1. ~PipeHeld /\ c' = c
        BY <3>2, <2>1 DEF ReceiverInv, Whole, EnableFails
      <4>2. r'.child = Stopped(r.child, Trio) /\ r' \in Shape /\ r'.epoch = r.epoch /\ r'.bound = r.bound
        BY ZenonT(60), <2>1, <1>a, <1>c, <1>d DEF EnableFails
      <4>3. Bound'
        BY <4>2, <1>c, <1>d DEF ReceiverInv, Bound, Alive
      <4> QED
        BY <4>1, <4>2, <4>3, <1>a, <1>b DEF ReceiverInv, ReceiverType
    <3> QED
      BY <3>1, <3>2
  <2>2. ASSUME r.enabling = "clock", r' = [Spawned("bridge") EXCEPT !.enabling = "sound"], c' = c
        PROVE  ReceiverInv'
    <3>1. r' \in Shape /\ r'.child = [r.child EXCEPT !["bridge"] = "live"] /\ r'.enabling = "sound"
          /\ (~Running("bridge") => r'.strays = r.strays) /\ r'.epoch = r.epoch /\ r'.bound = r.bound
      BY <2>2, <1>a, <1>d, SpawnKeeps DEF ReceiverType
    <3>2. Bound'
      BY <3>1, <1>a, <1>d DEF ReceiverInv, Bound, Alive
    <3>3. PipeHeld => Whole' /\ NoStrays'
      BY <3>1, <2>2, <1>a, <1>d DEF ReceiverInv, Whole, NoStrays, Begun, Running, Alive
    <3> QED
      BY <2>2, <3>1, <3>2, <3>3, <1>a, <1>b DEF ReceiverInv, ReceiverType
  <2>3. ASSUME r.enabling = "sound", c' = c,
               r' = [Spawned("shairport") EXCEPT !.enabling = "watch", !.fifo = TRUE]
        PROVE  ReceiverInv'
    <3>1. r' \in Shape /\ r'.child = [r.child EXCEPT !["shairport"] = "live"] /\ r'.enabling = "watch"
          /\ r'.fifo = TRUE
          /\ (~Running("shairport") => r'.strays = r.strays) /\ r'.epoch = r.epoch /\ r'.bound = r.bound
      BY ZenonT(60), <2>3, <1>a, <1>d, SpawnKeeps DEF ReceiverType
    <3>2. Bound'
      BY <3>1, <1>a, <1>d DEF ReceiverInv, Bound, Alive
    <3>3. PipeHeld => Whole' /\ NoStrays'
      BY <3>1, <2>3, <1>a, <1>d DEF ReceiverInv, Whole, NoStrays, Begun, Running, Alive
    <3> QED
      BY <2>3, <3>1, <3>2, <3>3, <1>a, <1>b DEF ReceiverInv, ReceiverType
  <2>4. ASSUME r.enabling = "watch", r' = [r EXCEPT !.enabling = "no"], c' = [c EXCEPT !.enabled = TRUE]
        PROVE  ReceiverInv'
    <3>1. r' \in Shape /\ r'.child = r.child /\ r'.enabling = "no" /\ (r'.fifo <=> r.fifo)
          /\ r'.strays = r.strays /\ r'.epoch = r.epoch /\ r'.bound = r.bound
      BY <2>4, <1>a
    <3>2. c'.enabled = TRUE
      BY <2>4 DEF ClientRec
    <3> QED
      BY <3>1, <3>2, <2>4, <1>a, <1>b DEF ReceiverInv, ReceiverType, Whole, NoStrays, Bound,
         Begun, Running, Alive
  <2> QED
    BY <1>7, <2>1, <2>2, <2>3, <2>4 DEF EnableStep
<1>8. CASE \E k \in Children : ChildDies(k)
  <2>1. PICK k \in Children : r.child[k] = "live" /\ r' = [r EXCEPT !.child[k] = "zombie"] /\ c' = c
    BY Zenon, <1>8 DEF ChildDies
  <2>2. r' \in Shape /\ r'.child = [r.child EXCEPT ![k] = "zombie"] /\ r'.enabling = r.enabling
        /\ (r'.fifo <=> r.fifo) /\ r'.strays = r.strays /\ r'.epoch = r.epoch /\ r'.bound = r.bound
    BY <2>1, <1>a DEF States
  <2>3. \A j \in Children : (r'.child[j] # "none" <=> r.child[j] # "none")
                            /\ (r'.child[j] = "live" => r.child[j] = "live")
    BY <2>1, <2>2, <1>a
  <2> QED
    BY <2>1, <2>2, <2>3, <1>a, <1>b, <1>d DEF ReceiverInv, ReceiverType, Whole, NoStrays, Bound,
       Begun, Running, Alive
<1>9. CASE FifoLost
  <2>1. ~PipeHeld /\ r' = [r EXCEPT !.fifo = FALSE] /\ c' = c
    BY <1>9 DEF FifoLost, PipeHeld
  <2>2. r' \in Shape /\ r'.child = r.child /\ r'.epoch = r.epoch /\ r'.bound = r.bound
    BY Zenon, <2>1, <1>a
  <2> QED
    BY <2>1, <2>2, <1>a, <1>b DEF ReceiverInv, ReceiverType, Bound, Alive
<1> QED
  BY <1>1, <1>2, <1>3, <1>4, <1>5, <1>6, <1>7, <1>8, <1>9 DEF ReceiverNext, ReceiverWorks

-----------------------------------------------------------------------------
(* The level.  What the two daemons and their files hold. *)
SessRec == [sess : Nat, cb : Nat, base : Levels, sender : Levels, override : BOOLEAN]
Stages == {"idle", "saveV", "setV", "undoV", "saveO", "setO", "undoO", "tomb", "tomb0",
           "restore", "final", "publish", "resume"}
HwRec == [up : BOOLEAN, s : SessRec, prev : SessRec, newest : Nat, ended : BOOLEAN,
          pending : BOOLEAN, publish : BOOLEAN, volume : Levels, requested : -1..100,
          missing : BOOLEAN, op : Stages, target : Nat, from : {"none", "airplayd"}]
EndRec == {"ended"} \X Nat \X Levels \X BOOLEAN
SessionRecords == {"session"} \X SessRec
FilesRec == [master : -1..100, record : {None} \union SessionRecords \union EndRec, marker : Nat,
             cb : Nat, db : Int, ack : Claims, left : Nat]
SpentRec == [sessions : Nat, presses : Nat, crashes : Nat, faults : Nat]
(* A choice is the level of a session, or one to publish. *)
Aimed ==
  /\ d.op = "saveO" => d.s.sess # 0
  /\ d.op = "setO" => d.s.sess # 0 \/ d.target \in Levels
VolumeType ==
  /\ Aimed
  /\ setup \in Setups /\ d \in HwRec /\ c \in ClientRec /\ files \in FilesRec
  /\ asked \in SUBSET Levels /\ pressed \in Claims /\ spent \in SpentRec

(* A change whose undo is certain, or one that no death of audiod follows.  *)
Undoable == setup.undoFails => setup.crashes = 0

(* The session that stands: a change in progress does not count before it   *)
(* has reached the speaker.                                                  *)
Changing == d.op \in {"saveV", "setV", "saveO"} \/ (d.op = "setO" /\ d.s.sess # 0)
Standing == IF Changing THEN d.prev ELSE d.s
LevelOf(s) == IF s.override THEN s.base ELSE s.sender
(* The level a start of audiod would take. *)
Taken == IF files.master >= 0 THEN files.master ELSE setup.boot

(* Where audiod is in a change or a restoration. *)
Staged ==
  /\ ~d.up => d = Down
  /\ d.pending => d.s.sess = 0 /\ d.op \in {"idle", "restore", "final"}
  /\ d.op \in {"restore", "final"} => d.pending
  /\ d.op = "final" => ~d.publish /\ files.master = d.s.base
                       /\ d.volume = d.s.base /\ d.requested = d.s.base
  /\ d.op \in {"saveV", "setV"} => d.s.sess # 0 /\ d.s.cb # 0 /\ ~d.s.override
  /\ d.op \in {"saveO", "setO"} /\ d.s.sess # 0 =>
       /\ d.s.override /\ d.prev.sess = d.s.sess /\ d.prev.cb = d.s.cb /\ d.prev.sender = d.s.sender
  /\ d.op \in {"undoO", "tomb", "resume"} => d.s.sess # 0
  /\ d.op = "tomb0" => d.s.sess = 0
  /\ d.op \in {"tomb", "tomb0"} => d.target # 0
  /\ d.op \in {"publish", "resume"} => d.publish

(* Sessions and callbacks are numbered as they come; the newest session     *)
(* audiod knows stands or has ended.                                        *)
Numbered(s) == s.sess <= spent.sessions /\ s.cb <= files.cb /\ (s.sess # 0 => s.cb # 0)
(* The level of the newest callback is what the slider says. *)
Slid(s) == s.sess # 0 /\ s.cb = files.cb => s.sender = DbToPercent(files.db)
Ordered ==
  /\ files.marker \in {0, spent.sessions} /\ files.left <= spent.sessions
  /\ d.newest <= spent.sessions
  /\ Numbered(Standing) /\ Slid(Standing)
  /\ Standing.sess # 0 => Standing.sess = d.newest /\ ~d.ended
  /\ Standing.sess = 0 => d.newest = 0 \/ d.ended
  /\ d.ended => d.newest # 0
  /\ d.op \in {"saveV", "setV"} =>
       /\ Numbered(d.s) /\ Slid(d.s) /\ d.s.sess >= d.newest
       /\ d.s.sess = d.newest => ~d.ended
       /\ d.s.sess = d.prev.sess => d.s.cb > d.prev.cb
  /\ d.op \in {"tomb", "tomb0"} => d.target >= d.newest /\ d.target <= spent.sessions

(* What airplayd believes, and on which answer it waits. *)
Believed(x) == x # None => x[1] <= spent.sessions /\ x[2] <= files.cb
Beliefs ==
  /\ Believed(c.confirmed) /\ Believed(files.ack)
  /\ c.sess <= spent.sessions /\ c.m <= spent.sessions /\ c.v <= files.cb
  /\ ~c.up => c.pc = "idle" /\ c.confirmed = None /\ c.sess = 0
  /\ c.pc = "call" => c.m # 0 /\ c.v # 0 /\ (c.v = files.cb => c.level = DbToPercent(files.db))
  /\ c.pc = "end" => c.sess # 0
  /\ "receiver" \notin setup.parts => (c.enabled <=> setup.enabled)
  /\ d.op = "idle" => d.from = "none"
  /\ d.from = "airplayd" => \/ c.pc = "call" /\ d.op \in {"saveV", "setV", "undoV"}
                            \/ c.pc = "end" /\ d.op \in {"tomb", "tomb0", "restore", "final"}
  /\ d.from = "airplayd" /\ d.op \in {"saveV", "setV"} => d.s.sess = c.m /\ d.s.cb = c.v

(* The record on disk, as long as it can be relied on. *)
Relied == ~d.up \/ ~setup.undoFails
Saved == files.record
Session == Saved # None /\ Saved[1] = "session"
Ended == Saved # None /\ Saved[1] = "ended"
Recorded ==
  /\ Session => Numbered(Saved[2]) /\ Slid(Saved[2]) /\ Saved[2].sess # 0 /\ Saved[2].base \in asked
  /\ Ended => Saved[2] # 0 /\ Saved[2] <= spent.sessions
  /\ Ended /\ Saved[4] => Saved[3] \in asked
  /\ ~Session /\ ~(Ended /\ Saved[4]) => Taken \in asked
Written ==
  /\ Standing.sess # 0 => Saved = SessionRecord(Standing)
  /\ d.pending => Saved = EndedRecord(d.newest, d.s.base, TRUE)
  /\ Standing.sess = 0 /\ ~d.pending =>
       \/ Ended /\ ~Saved[4] /\ Saved[2] = d.newest /\ d.ended
       \/ Saved = None /\ (d.ended => d.newest < spent.sessions)
Matches ==
  CASE d.op = "setV" \/ (d.op = "setO" /\ d.s.sess # 0) -> Saved = SessionRecord(d.s)
    [] d.op = "undoV" ->
         /\ Session /\ Saved[2].sess >= d.newest
         /\ Saved[2].sess = d.newest => ~d.ended
         /\ Saved[2].sess = d.s.sess => Saved[2].cb > d.s.cb
    [] d.op = "undoO" ->
         /\ Session /\ Saved[2].sess = d.s.sess /\ Saved[2].cb = d.s.cb
         /\ Saved[2].sender = d.s.sender
    [] OTHER -> Written
Durable == Relied => Recorded /\ (d.up => Matches)

(* The owner's levels. *)
Owned ==
  /\ d.up /\ Standing.sess = 0 /\ ~d.pending =>
       /\ Taken \in asked /\ d.volume \in asked /\ d.requested \in asked
       /\ ~d.publish => files.master \in asked
  /\ d.up /\ Standing.sess # 0 => Standing.base \in asked
  /\ d.op \in {"saveV", "setV"} \/ (d.op = "setO" /\ d.s.sess # 0) => d.s.base \in asked
  /\ d.pending => d.s.base \in asked

(* The level that is heard is the one of the session that plays. *)
Heard ==
  /\ d.up /\ Standing.sess # 0 /\ Standing.sess = files.marker =>
       IF d.publish THEN d.op = "resume" \/ d.volume = LevelOf(Standing)
       ELSE /\ files.master = LevelOf(Standing)
            /\ Standing.override => pressed = <<Standing.sess, Standing.cb>>
  /\ d.up /\ Standing.sess # 0 /\ d.publish =>
       d.op = "resume" \/ d.volume \in {Taken, LevelOf(Standing)}

(* What airplayd and the engine take for acknowledged is the standing one.  *)
Playable == files.marker \notin {0, files.left}
Claim ==
  \/ files.ack = Current \/ c.confirmed = Current
  \/ c.pc \in {"status", "ack"} /\ <<c.m, c.v>> = Current
Claimed ==
  /\ ~c.enabled => ~Playable
  /\ c.pc = "end" /\ Playable => c.sess # files.marker
  /\ d.op = "tomb" /\ Playable /\ d.s.sess = files.marker => ~Claim
  /\ Playable /\ Claim => IF d.up THEN <<Standing.sess, Standing.cb>> = Current
                          ELSE Session /\ <<Saved[2].sess, Saved[2].cb>> = Current

(* A callback the owner has overridden stays so: only a newer one counts.   *)
Overrides(s) == s.sess = pressed[1] => s.cb > pressed[2] \/ (s.cb = pressed[2] /\ s.override)
Pressed ==
  pressed # None =>
    /\ pressed[1] # 0 /\ pressed[1] <= spent.sessions /\ pressed[2] <= files.cb
    /\ files.master >= 0
    /\ d.up => /\ Overrides(Standing)
               /\ pressed[1] = files.marker =>
                    Standing.sess = files.marker \/ (d.ended /\ d.newest = files.marker)
    /\ d.op \in {"saveV", "setV"} /\ d.s.sess = pressed[1] => d.s.cb > pressed[2]
    /\ Relied /\ Session => Overrides(Saved[2])
    /\ ~d.up /\ pressed[1] = files.marker =>
         \/ Session /\ Saved[2].sess = files.marker
         \/ Ended /\ Saved[2] = files.marker

Sound == Staged /\ Ordered /\ Beliefs /\ Durable /\ Owned /\ Heard /\ Claimed /\ Pressed
VolumeInv == VolumeType /\ (Undoable => Sound)

-----------------------------------------------------------------------------
LEMMA PercentIsLevel == \A db \in Int : DbValid(db) => DbToPercent(db) \in Levels
BY DEF DbValid, DbToPercent, Levels

LEMMA SetupTypes ==
  ASSUME setup \in Setups
  PROVE  /\ setup.boot \in Levels /\ setup.levels \subseteq Levels /\ setup.sliders \subseteq Int
         /\ setup.sessions \in Nat /\ setup.callbacks \in Nat /\ setup.crashes \in Nat
         /\ setup.faults \in Nat /\ setup.presses \in Nat
         /\ setup.enabled \in BOOLEAN /\ setup.fifoFails \in BOOLEAN /\ setup.undoFails \in BOOLEAN
BY DEF Levels

(* What a step that uses up a bound, and an answer to airplayd, leave alone. *)
LEMMA Spent ==
  ASSUME VolumeType, NEW w \in {"sessions", "presses", "crashes", "faults"}, Spend(w)
  PROVE  /\ spent' \in SpentRec /\ spent[w] < setup[w]
         /\ spent'.sessions = IF w = "sessions" THEN spent.sessions + 1 ELSE spent.sessions
         /\ spent'.crashes = IF w = "crashes" THEN spent.crashes + 1 ELSE spent.crashes
BY DEF Spend, VolumeType, SpentRec

LEMMA AnswerTo ==
  ASSUME c \in ClientRec, NEW ok \in BOOLEAN
  PROVE  /\ Answered(ok) \in ClientRec
         /\ (Answered(ok).up <=> c.up) /\ (Answered(ok).enabled <=> c.enabled)
         /\ Answered(ok).m = c.m /\ Answered(ok).v = c.v /\ Answered(ok).level = c.level
         /\ \/ Answered(ok) = c
            \/ d.from = "airplayd" /\ Answered(ok).pc = "idle"
               /\ Answered(ok).sess = c.sess /\ Answered(ok).confirmed = c.confirmed
            \/ d.from = "airplayd" /\ ok /\ c.pc = "call" /\ Answered(ok).pc = "status"
               /\ Answered(ok).sess = c.sess /\ Answered(ok).confirmed = <<c.m, c.v>>
            \/ d.from = "airplayd" /\ ok /\ c.pc = "end" /\ Answered(ok).pc = "idle"
               /\ Answered(ok).sess = 0 /\ Answered(ok).confirmed = None
<1>1. CASE d.from # "airplayd"
  <2>1. Answered(ok) = c
    BY <1>1 DEF Answered
  <2> QED
    BY <2>1
<1>2. CASE d.from = "airplayd" /\ ok /\ c.pc = "call"
  <2>1. Answered(ok) = [c EXCEPT !.pc = "status", !.applied = FALSE, !.confirmed = <<c.m, c.v>>]
    BY <1>2 DEF Answered, Told
  <2>2. <<c.m, c.v>> \in Claims
    BY DEF ClientRec, Claims
  <2> QED
    BY ZenonT(60), <1>2, <2>1, <2>2 DEF ClientRec
<1>3. CASE d.from = "airplayd" /\ ok /\ c.pc = "end"
  <2>1. Answered(ok) = [c EXCEPT !.pc = "idle", !.sess = 0, !.applied = FALSE, !.confirmed = None]
    BY <1>3 DEF Answered, Told
  <2>2. None \in Claims
    BY DEF Claims
  <2>3. Answered(ok) \in ClientRec
    <3>1. [c EXCEPT !.pc = "idle", !.sess = 0] \in ClientRec
      BY Zenon DEF ClientRec
    <3>2. \A x \in ClientRec : [x EXCEPT !.applied = FALSE, !.confirmed = None] \in ClientRec
      BY ZenonT(60), <2>2 DEF ClientRec
    <3>3. Answered(ok) = [[c EXCEPT !.pc = "idle", !.sess = 0] EXCEPT !.applied = FALSE, !.confirmed = None]
      BY <2>1
    <3> QED
      BY Zenon, <3>1, <3>2, <3>3
  <2>4. (Answered(ok).up <=> c.up) /\ (Answered(ok).enabled <=> c.enabled)
    BY <2>1 DEF ClientRec
  <2>5. Answered(ok).m = c.m /\ Answered(ok).v = c.v /\ Answered(ok).level = c.level
    BY <2>1 DEF ClientRec
  <2>6. Answered(ok).pc = "idle" /\ Answered(ok).sess = 0 /\ Answered(ok).confirmed = None
    BY <2>1 DEF ClientRec
  <2> QED
    BY Zenon, <1>3, <2>3, <2>4, <2>5, <2>6
<1>4. CASE d.from = "airplayd" /\ ~(ok /\ c.pc \in {"call", "end"})
  <2>1. Answered(ok) = [c EXCEPT !.pc = "idle"]
    BY <1>4 DEF Answered, Told
  <2> QED
    BY <1>4, <2>1 DEF ClientRec
<1> QED
  BY <1>1, <1>2, <1>3, <1>4

(* What an accepted request tells airplayd.                                 *)
LEMMA Accepted ==
  ASSUME c \in ClientRec, c' = Answered(TRUE)
  PROVE  /\ (c'.up <=> c.up) /\ (c'.enabled <=> c.enabled) /\ c'.m = c.m /\ c'.v = c.v /\ c'.level = c.level
         /\ \/ c'.pc \in {c.pc, "idle"} /\ c'.sess = c.sess /\ c'.confirmed = c.confirmed
            \/ d.from = "airplayd" /\ c.pc = "call" /\ c'.pc = "status"
               /\ c'.sess = c.sess /\ c'.confirmed = <<c.m, c.v>>
            \/ d.from = "airplayd" /\ c.pc = "end" /\ c'.pc = "idle" /\ c'.sess = 0 /\ c'.confirmed = None
<1>1. TRUE \in BOOLEAN
  OBVIOUS
<1> DEFINE a == Answered(TRUE)
<1>2. /\ (a.up <=> c.up) /\ (a.enabled <=> c.enabled)
      /\ a.m = c.m /\ a.v = c.v /\ a.level = c.level
      /\ \/ a = c
         \/ d.from = "airplayd" /\ a.pc = "idle"
            /\ a.sess = c.sess /\ a.confirmed = c.confirmed
         \/ d.from = "airplayd" /\ c.pc = "call" /\ a.pc = "status"
            /\ a.sess = c.sess /\ a.confirmed = <<c.m, c.v>>
         \/ d.from = "airplayd" /\ c.pc = "end" /\ a.pc = "idle"
            /\ a.sess = 0 /\ a.confirmed = None
  BY Zenon, <1>1, AnswerTo
<1>3. a = c'
  OBVIOUS
<1> HIDE DEF a
<1> QED
  BY Zenon, <1>2, <1>3

(* Updates of audiod's memory that leave it well formed. *)
LEMMA HwUpdates ==
  /\ \A x \in HwRec, v \in Levels : [x EXCEPT !.volume = v] \in HwRec
  /\ \A x \in HwRec, v \in Levels : [x EXCEPT !.requested = v] \in HwRec
  /\ \A x \in HwRec, b \in BOOLEAN : [x EXCEPT !.publish = b] \in HwRec
  /\ \A x \in HwRec, b \in BOOLEAN : [x EXCEPT !.ended = b] \in HwRec
  /\ \A x \in HwRec, b \in BOOLEAN : [x EXCEPT !.pending = b] \in HwRec
  /\ \A x \in HwRec, n \in Nat : [x EXCEPT !.newest = n] \in HwRec
  /\ \A x \in HwRec, n \in Nat : [x EXCEPT !.target = n] \in HwRec
  /\ \A x \in HwRec, b \in BOOLEAN : [x EXCEPT !.missing = b] \in HwRec
  /\ \A x \in HwRec, s \in SessRec : [x EXCEPT !.s = s] \in HwRec
<1>1. \A x \in HwRec, v \in Levels : [x EXCEPT !.volume = v] \in HwRec
  BY DEF HwRec
<1>2. \A x \in HwRec, v \in Levels : [x EXCEPT !.requested = v] \in HwRec
  BY DEF HwRec, Levels
<1>3. \A x \in HwRec, b \in BOOLEAN : [x EXCEPT !.publish = b] \in HwRec
  BY DEF HwRec
<1>4. \A x \in HwRec, b \in BOOLEAN : [x EXCEPT !.ended = b] \in HwRec
  BY DEF HwRec
<1>5. \A x \in HwRec, b \in BOOLEAN : [x EXCEPT !.pending = b] \in HwRec
  BY DEF HwRec
<1>6. \A x \in HwRec, n \in Nat : [x EXCEPT !.newest = n] \in HwRec
  BY DEF HwRec
<1>7. \A x \in HwRec, s \in SessRec : [x EXCEPT !.s = s] \in HwRec
  BY DEF HwRec
<1>8. \A x \in HwRec, n \in Nat : [x EXCEPT !.target = n] \in HwRec
  BY DEF HwRec
<1>9. \A x \in HwRec, b \in BOOLEAN : [x EXCEPT !.missing = b] \in HwRec
  BY DEF HwRec
<1> QED
  BY <1>1, <1>2, <1>3, <1>4, <1>5, <1>6, <1>7, <1>8, <1>9

(* What a start of audiod makes of the level file and the record. *)
Fresh == [Down EXCEPT !.up = TRUE, !.volume = Taken, !.requested = Taken, !.publish = TRUE]
LEMMA LoadedType == VolumeType => Fresh \in HwRec /\ Loaded \in HwRec
<1> SUFFICES ASSUME VolumeType PROVE Fresh \in HwRec /\ Loaded \in HwRec
  OBVIOUS
<1> DEFINE v == IF files.master >= 0 THEN files.master ELSE setup.boot
           fresh == [Down EXCEPT !.up = TRUE, !.volume = v, !.requested = v, !.publish = TRUE]
           saved == files.record
<1>1. v \in Levels
  BY SetupTypes DEF FilesRec, Levels, VolumeType
<1>2. fresh \in HwRec
  <2>1. Down \in HwRec
    BY DEF Down, HwRec, NoSession, SessRec, Stages, Levels
  <2>2. [[[[Down EXCEPT !.up = TRUE] EXCEPT !.volume = v] EXCEPT !.requested = v] EXCEPT !.publish = TRUE] \in HwRec
    <3>1. [Down EXCEPT !.up = TRUE] \in HwRec
      BY Zenon, <2>1 DEF HwRec
    <3> DEFINE x == [Down EXCEPT !.up = TRUE]
    <3>2. [x EXCEPT !.volume = v] \in HwRec
      BY Zenon, <3>1, <1>1, HwUpdates
    <3>3. [[x EXCEPT !.volume = v] EXCEPT !.requested = v] \in HwRec
      BY Zenon, <3>2, <1>1, HwUpdates
    <3> QED
      BY Zenon, <3>3, HwUpdates
  <2>3. fresh = [[[[Down EXCEPT !.up = TRUE] EXCEPT !.volume = v] EXCEPT !.requested = v] EXCEPT !.publish = TRUE]
    BY DEF Down
  <2> QED
    BY <2>2, <2>3
<1>3. saved \in {None} \union SessionRecords \union EndRec
  BY DEF FilesRec, VolumeType
<1> DEFINE mem == IF saved = None THEN fresh
                  ELSE IF saved[1] = "ended"
                  THEN [fresh EXCEPT !.newest = saved[2], !.ended = TRUE, !.s.base = saved[3], !.pending = saved[4]]
                  ELSE [fresh EXCEPT !.s = saved[2], !.newest = saved[2].sess, !.requested = saved[2].base]
<1>4. mem = Loaded
  BY DEF Loaded
<1> HIDE DEF fresh, saved
<1>5. mem \in HwRec
  <2>1. CASE saved = None
    BY <2>1, <1>2
  <2>2. CASE saved # None /\ saved[1] = "ended"
    <3>1. saved \in EndRec
      BY <1>3, <2>2 DEF SessionRecords
    <3>2. saved[2] \in Nat /\ saved[3] \in Levels /\ saved[4] \in BOOLEAN
      BY <3>1 DEF EndRec
    <3>3. [[fresh EXCEPT !.newest = saved[2]] EXCEPT !.ended = TRUE] \in HwRec
      <4>1. [fresh EXCEPT !.newest = saved[2]] \in HwRec
        BY <1>2, <3>2, HwUpdates
      <4> QED
        BY Zenon, <4>1, HwUpdates
    <3>4. [fresh.s EXCEPT !.base = saved[3]] \in SessRec
      BY <1>2, <3>2 DEF HwRec, SessRec
    <3> DEFINE x == [[fresh EXCEPT !.newest = saved[2]] EXCEPT !.ended = TRUE]
               s == [fresh.s EXCEPT !.base = saved[3]]
    <3>5. [x EXCEPT !.s = s] \in HwRec
      <4> HIDE DEF x, s
      <4> QED
        BY Zenon, <3>3, <3>4, HwUpdates DEF x, s
    <3>6. [[x EXCEPT !.s = s] EXCEPT !.pending = saved[4]] \in HwRec
      <4> DEFINE y == [x EXCEPT !.s = s]
      <4> HIDE DEF y
      <4>1. \A z \in HwRec, b \in BOOLEAN : [z EXCEPT !.pending = b] \in HwRec
        BY DEF HwRec
      <4> QED
        BY Zenon, <3>5, <3>2, <4>1 DEF y
    <3>7. mem = [[x EXCEPT !.s = s] EXCEPT !.pending = saved[4]]
      BY <2>2, <1>2 DEF HwRec
    <3> QED
      BY <3>6, <3>7
  <2>3. CASE saved # None /\ saved[1] # "ended"
    <3>1. saved[2] \in SessRec
      BY <1>3, <2>3 DEF SessionRecords, EndRec
    <3>2. saved[2].sess \in Nat /\ saved[2].base \in Levels
      BY <3>1 DEF SessRec
    <3>3. [fresh EXCEPT !.s = saved[2]] \in HwRec
      BY <1>2, <3>1, HwUpdates
    <3>4. [[fresh EXCEPT !.s = saved[2]] EXCEPT !.newest = saved[2].sess] \in HwRec
      BY Zenon, <3>3, <3>2, HwUpdates
    <3>5. [[[fresh EXCEPT !.s = saved[2]] EXCEPT !.newest = saved[2].sess] EXCEPT !.requested = saved[2].base] \in HwRec
      BY Zenon, <3>4, <3>2, HwUpdates
    <3> QED
      BY <2>3, <3>5
  <2> QED
    BY <2>1, <2>2, <2>3
<1>6. fresh = Fresh
  BY DEF fresh, Fresh, Taken
<1> QED
  BY <1>2, <1>4, <1>5, <1>6

LEMMA TypeKeeps == VolumeType /\ VolumeNext /\ UNCHANGED setup => VolumeType'
<1> SUFFICES ASSUME VolumeType, VolumeNext, UNCHANGED setup PROVE VolumeType'
  OBVIOUS
<1>t. /\ setup \in Setups /\ d \in HwRec /\ c \in ClientRec /\ files \in FilesRec
      /\ asked \in SUBSET Levels /\ pressed \in Claims /\ spent \in SpentRec
  BY DEF VolumeType
<1>u. /\ d.s \in SessRec /\ d.prev \in SessRec /\ d.op \in Stages /\ d.target \in Nat /\ d.newest \in Nat
      /\ d.volume \in Levels /\ d.requested \in -1..100
  BY <1>t DEF HwRec
<1>v. /\ d.s.sess \in Nat /\ d.s.cb \in Nat /\ d.s.base \in Levels /\ d.s.sender \in Levels /\ d.s.override \in BOOLEAN
  BY <1>u DEF SessRec
(* How audiod's memory changes. *)
<1>w. \A x \in HwRec, o \in Stages : [x EXCEPT !.op = o] \in HwRec
  BY DEF HwRec
<1>x. \A x \in HwRec : [x EXCEPT !.from = "none"] \in HwRec
  BY DEF HwRec
<1>y. \A x \in HwRec, s \in SessRec : [x EXCEPT !.s = s] \in HwRec
  BY DEF HwRec
<1>k. \A x \in HwRec, v \in Levels : [x EXCEPT !.volume = v] \in HwRec
  BY DEF HwRec
<1>l. \A x \in HwRec, v \in Levels : [x EXCEPT !.requested = v] \in HwRec
  BY DEF HwRec, Levels
<1>m. \A x \in HwRec, b \in BOOLEAN : [x EXCEPT !.publish = b] \in HwRec
  BY DEF HwRec
<1>n. \A x \in HwRec, n \in Nat : [x EXCEPT !.newest = n] \in HwRec
  BY DEF HwRec
<1>d. \A x \in HwRec, b \in BOOLEAN : [x EXCEPT !.ended = b] \in HwRec
  BY DEF HwRec
<1>z. \A v \in Levels : Published(v) \in HwRec
  <2> SUFFICES ASSUME NEW v \in Levels PROVE Published(v) \in HwRec
    OBVIOUS
  <2>1. [d EXCEPT !.volume = v] \in HwRec
    BY <1>t, <1>k
  <2>2. [[d EXCEPT !.volume = v] EXCEPT !.requested = v] \in HwRec
    BY Zenon, <2>1, <1>l
  <2>3. [[[d EXCEPT !.volume = v] EXCEPT !.requested = v] EXCEPT !.publish = FALSE] \in HwRec
    BY Zenon, <2>2, <1>m
  <2> QED
    BY <2>3 DEF Published
<1>G. ASSUME NEW mem \in HwRec, NEW o \in Stages, Goto(mem, o) 
      PROVE  d' \in HwRec /\ c' \in ClientRec /\ d'.op = o /\ d'.s = mem.s /\ d'.target = mem.target
  <2>1. d' = [mem EXCEPT !.op = o] /\ d' \in HwRec /\ c' \in ClientRec
    BY <1>G, <1>w, <1>t DEF Goto
  <2> QED
    BY <2>1 DEF HwRec
<1>F. ASSUME NEW mem \in HwRec, NEW ok \in BOOLEAN, Finish(mem, ok)
      PROVE  d' \in HwRec /\ c' \in ClientRec /\ d'.op = "idle"
  <2>1. [mem EXCEPT !.op = "idle"] \in HwRec
    BY Zenon, <1>w DEF Stages
  <2>2. d' = [[mem EXCEPT !.op = "idle"] EXCEPT !.from = "none"]
    BY <1>F DEF Finish
  <2> QED
    <3>1. d' \in HwRec
      BY Zenon, <2>1, <2>2, <1>x
    <3>2. d'.op = "idle"
      BY <2>2 DEF HwRec
    <3>3. c' \in ClientRec
      BY <1>F, <1>t, AnswerTo DEF Finish
    <3> QED
      BY <3>1, <3>2, <3>3
<1>S. ASSUME NEW w \in {"sessions", "presses", "crashes", "faults"}, Spend(w) PROVE spent' \in SpentRec
  BY <1>S, Spent
<1>P. ASSUME NEW v \in Levels, Publish(v) PROVE files' \in FilesRec
  BY <1>P, <1>t DEF Publish, FilesRec, Levels
<1>R. ASSUME NEW rec \in {None} \union SessionRecords \union EndRec, SaveRecord(rec) PROVE files' \in FilesRec
  BY <1>R, <1>t DEF SaveRecord, FilesRec
<1>A. ASSUME Revoke PROVE files' \in FilesRec
  BY <1>A, <1>t DEF Revoke, FilesRec, Claims
<1>r. \A s \in SessRec : SessionRecord(s) \in SessionRecords
  BY DEF SessionRecord, SessionRecords
<1>e. \A n \in Nat, b \in Levels, p \in BOOLEAN : EndedRecord(n, b, p) \in EndRec
  BY DEF EndedRecord, EndRec
<1>f. ASSUME UNCHANGED files PROVE files' \in FilesRec
  BY <1>f, <1>t
<1>s. ASSUME UNCHANGED spent PROVE spent' \in SpentRec
  BY <1>s, <1>t
<1>q. ASSUME files' \in FilesRec, d' \in HwRec, c' \in ClientRec, spent' \in SpentRec,
             asked' \in SUBSET Levels, pressed' \in Claims, d'.op \notin {"saveO", "setO"}
      PROVE  VolumeType'
  BY <1>q, <1>t DEF VolumeType, Aimed
<1>p. [d EXCEPT !.s = d.prev] \in HwRec
  BY <1>u, <1>t, <1>y
<1> USE DEF Fault
<1>1. CASE SaveSender
  <2>1. asked' \in SUBSET Levels /\ pressed' \in Claims
    BY <1>1, <1>t DEF SaveSender
  <2>2. CASE SaveRecord(SessionRecord(d.s)) /\ Goto(d, "setV") /\ UNCHANGED spent
    BY <2>1, <2>2, <1>G, <1>R, <1>r, <1>u, <1>s, <1>q, <1>t DEF Stages
  <2>3. CASE Fault /\ Finish([d EXCEPT !.s = d.prev], FALSE) /\ UNCHANGED files
    BY Zenon, <2>1, <2>3, <1>F, <1>S, <1>f, <1>p, <1>q
  <2> QED
    BY Zenon, <1>1, <2>2, <2>3 DEF SaveSender
<1>2. CASE SetSender
  <2>1. asked' \in SUBSET Levels /\ pressed' \in Claims
    BY <1>2, <1>t DEF SetSender
  <2> DEFINE mem == [Published(d.s.sender) EXCEPT !.newest = d.s.sess, !.ended = FALSE, !.requested = d.s.base]
  <2>2. CASE Publish(d.s.sender) /\ Finish(mem, TRUE) /\ UNCHANGED spent
    <3>1. mem \in HwRec
      <4>1. [Published(d.s.sender) EXCEPT !.newest = d.s.sess] \in HwRec
        BY <1>v, <1>z, <1>n
      <4>2. [[Published(d.s.sender) EXCEPT !.newest = d.s.sess] EXCEPT !.ended = FALSE] \in HwRec
        BY Zenon, <4>1, <1>d
      <4>3. [[[Published(d.s.sender) EXCEPT !.newest = d.s.sess] EXCEPT !.ended = FALSE]
               EXCEPT !.requested = d.s.base] \in HwRec
        BY Zenon, <4>2, <1>v, <1>l
      <4> QED
        BY <4>3
    <3> HIDE DEF mem
    <3> QED
      BY Zenon, <2>1, <2>2, <3>1, <1>F, <1>P, <1>v, <1>s, <1>q
  <2>3. CASE Fault /\ Goto([d EXCEPT !.s = d.prev], "undoV") /\ UNCHANGED files
    BY <2>1, <2>3, <1>G, <1>S, <1>f, <1>p, <1>q DEF Stages
  <2> QED
    BY Zenon, <1>2, <2>2, <2>3 DEF SetSender
<1>3. CASE UndoSender
  <2>1. asked' \in SUBSET Levels /\ pressed' \in Claims
    BY <1>3, <1>t DEF UndoSender
  <2>2. d' \in HwRec /\ c' \in ClientRec /\ d'.op = "idle"
    BY Zenon, <1>3, <1>F, <1>t DEF UndoSender
  <2>3. files' \in FilesRec
    <3>1. (IF d.s.sess # 0 THEN SessionRecord(d.s) ELSE None) \in {None} \union SessionRecords \union EndRec
      BY <1>r, <1>u
    <3> QED
      BY <3>1, <1>3, <1>R, <1>f DEF UndoSender
  <2>4. spent' \in SpentRec
    BY <1>3, <1>s, <1>S DEF UndoSender
  <2> QED
    BY <2>1, <2>2, <2>3, <2>4, <1>q
<1>4. CASE SaveOwner
  <2>1. asked' \in SUBSET Levels /\ pressed' \in Claims
    BY Zenon, <1>4, <1>t, <1>v DEF SaveOwner
  <2>2. CASE SaveRecord(SessionRecord(d.s)) /\ Goto(d, "setO") /\ UNCHANGED spent
    <3>1. d' \in HwRec /\ c' \in ClientRec /\ d'.op = "setO" /\ d'.s = d.s /\ d.op = "saveO"
      BY <1>4, <2>2, <1>G, <1>t DEF Stages, SaveOwner, At
    <3>2. files' \in FilesRec /\ spent' \in SpentRec
      BY <2>2, <1>R, <1>r, <1>u, <1>s
    <3> QED
      BY <2>1, <3>1, <3>2, <1>t DEF VolumeType, Aimed
  <2>3. CASE Fault /\ Finish([d EXCEPT !.s = d.prev], FALSE) /\ UNCHANGED files
    BY Zenon, <2>1, <2>3, <1>F, <1>S, <1>f, <1>p, <1>q
  <2> QED
    BY Zenon, <1>4, <2>2, <2>3 DEF SaveOwner
<1>5. CASE SetOwner
  <2> DEFINE v == IF d.s.sess # 0 THEN d.s.base ELSE d.target
  <2>0. <<d.s.sess, d.s.cb>> \in Claims /\ None \in Claims
    BY <1>v DEF Claims
  <2>1. CASE Publish(v) /\ Finish(Published(v), TRUE) /\ asked' = {v} /\ UNCHANGED spent /\ v \in Levels
                /\ pressed' = IF d.s.sess # 0 THEN <<d.s.sess, d.s.cb>> ELSE None
    <3> HIDE DEF v
    <3> QED
      BY Zenon, <2>1, <2>0, <1>z, <1>F, <1>P, <1>s, <1>q
  <2>2. CASE Fault /\ UNCHANGED <<files, asked, pressed>>
             /\ IF d.s.sess # 0 THEN Goto([d EXCEPT !.s = d.prev], "undoO") ELSE Finish(d, FALSE)
    <3>1. d' \in HwRec /\ c' \in ClientRec /\ d'.op \notin {"saveO", "setO"}
      BY Zenon, <2>2, <1>G, <1>F, <1>p, <1>t DEF Stages
    <3> QED
      BY <2>2, <3>1, <1>S, <1>f, <1>q, <1>t
  <2> QED
    <3>1. d.s.sess # 0 \/ d.target \in Levels
      BY <1>5 DEF SetOwner, At, VolumeType, Aimed
    <3> QED
      BY Zenon, <1>5, <2>1, <2>2, <3>1, <1>v DEF SetOwner
<1>6. CASE UndoOwner
  <2>1. asked' \in SUBSET Levels /\ pressed' \in Claims
    BY <1>6, <1>t DEF UndoOwner
  <2>2. d' \in HwRec /\ c' \in ClientRec /\ d'.op = "idle"
    BY Zenon, <1>6, <1>F, <1>t DEF UndoOwner
  <2>3. files' \in FilesRec /\ spent' \in SpentRec
    BY <1>6, <1>R, <1>r, <1>u, <1>f, <1>s, <1>S DEF UndoOwner
  <2> QED
    BY <2>1, <2>2, <2>3, <1>q
(* A step that may fail and then only gives up. *)
<1>o. ASSUME Fault, Finish(d, FALSE), UNCHANGED <<files, asked, pressed>> PROVE VolumeType'
  BY Zenon, <1>o, <1>F, <1>S, <1>f, <1>q, <1>t
<1>E. ASSUME NEW p \in BOOLEAN PROVE SetEnded(d, p) \in HwRec
  <2>1. [d EXCEPT !.newest = d.target, !.ended = TRUE] \in HwRec
    <3>1. [d EXCEPT !.newest = d.target] \in HwRec
      BY <1>t, <1>u, <1>n
    <3>2. [[d EXCEPT !.newest = d.target] EXCEPT !.ended = TRUE] \in HwRec
      BY Zenon, <3>1, <1>d
    <3> QED
      BY <3>2
  <2>2. \A x \in HwRec : [x EXCEPT !.pending = p, !.missing = FALSE] \in HwRec
    BY ZenonT(60) DEF HwRec
  <2>3. [d.s EXCEPT !.sess = 0, !.cb = 0] \in SessRec
    BY Zenon, <1>u DEF SessRec
  <2>4. SetEnded(d, p) = [[[d EXCEPT !.newest = d.target, !.ended = TRUE]
                              EXCEPT !.pending = p, !.missing = FALSE]
                              EXCEPT !.s = [d.s EXCEPT !.sess = 0, !.cb = 0]]
    BY Zenon, <1>t DEF SetEnded, HwRec
  <2> DEFINE x == [d EXCEPT !.newest = d.target, !.ended = TRUE]
             y == [x EXCEPT !.pending = p, !.missing = FALSE]
             s == [d.s EXCEPT !.sess = 0, !.cb = 0]
  <2>5. y \in HwRec
    BY Zenon, <2>1, <2>2
  <2>6. [y EXCEPT !.s = s] \in HwRec
    <3> HIDE DEF y, s
    <3> QED
      BY <2>5, <2>3, <1>y DEF s
  <2> QED
    BY <2>4, <2>6
<1>7. CASE Tombstone
  <2>1. CASE SaveRecord(EndedRecord(d.target, d.s.base, TRUE)) /\ Goto(SetEnded(d, TRUE), "restore")
             /\ UNCHANGED spent
    BY Zenon, <2>1, <1>7, <1>E, <1>G, <1>R, <1>e, <1>u, <1>v, <1>s, <1>q, <1>t DEF Stages, Tombstone
  <2> QED
    BY Zenon, <1>7, <2>1, <1>o DEF Tombstone
<1>8. CASE EndUnheard
  <2>1. CASE SaveRecord(EndedRecord(d.target, d.s.base, FALSE)) /\ Finish(SetEnded(d, FALSE), TRUE)
             /\ UNCHANGED spent
    BY Zenon, <2>1, <1>8, <1>E, <1>F, <1>R, <1>e, <1>u, <1>v, <1>s, <1>q, <1>t DEF EndUnheard
  <2> QED
    BY Zenon, <1>8, <2>1, <1>o DEF EndUnheard
<1>9. CASE Restore
  <2>1. CASE Publish(d.s.base) /\ Goto(Published(d.s.base), "final") /\ UNCHANGED spent
    BY <2>1, <1>9, <1>z, <1>G, <1>P, <1>v, <1>s, <1>q, <1>t DEF Stages, Restore
  <2> QED
    BY Zenon, <1>9, <2>1, <1>o DEF Restore
<1>10. CASE SettleEnded
  <2>1. CASE SaveRecord(EndedRecord(d.newest, d.s.base, FALSE))
             /\ Finish([d EXCEPT !.pending = FALSE], TRUE) /\ UNCHANGED spent
    <3>1. [d EXCEPT !.pending = FALSE] \in HwRec
      BY ZenonT(60), <1>t DEF HwRec
    <3> QED
      BY Zenon, <2>1, <3>1, <1>10, <1>F, <1>R, <1>e, <1>u, <1>v, <1>s, <1>q, <1>t DEF SettleEnded
  <2> QED
    BY Zenon, <1>10, <2>1, <1>o DEF SettleEnded
<1>c. Chosen \in Claims
  BY <1>v, <1>t DEF Chosen, Claims
<1>11. CASE PublishStartup
  <2>1. CASE Publish(d.volume) /\ Finish(Published(d.volume), TRUE) /\ pressed' = Chosen /\ UNCHANGED spent
    BY Zenon, <2>1, <1>11, <1>c, <1>z, <1>F, <1>P, <1>u, <1>s, <1>q, <1>t DEF PublishStartup
  <2> QED
    BY Zenon, <1>11, <2>1, <1>o DEF PublishStartup
<1>12. CASE Resume
  <2> DEFINE v == IF d.s.override THEN d.s.base ELSE d.s.sender
  <2>0. v \in Levels
    BY <1>v
  <2> HIDE DEF v
  <2>1. CASE /\ Publish(v) /\ Finish([Published(v) EXCEPT !.requested = d.s.base], TRUE)
             /\ pressed' = Chosen /\ UNCHANGED spent
    <3>1. [Published(v) EXCEPT !.requested = d.s.base] \in HwRec
      BY <2>0, <1>z, <1>v, <1>l
    <3> QED
      BY Zenon, <2>0, <2>1, <3>1, <1>12, <1>c, <1>F, <1>P, <1>s, <1>q, <1>t DEF Resume
  <2>2. CASE Fault /\ Finish([d EXCEPT !.volume = v, !.publish = TRUE], FALSE) /\ UNCHANGED <<files, pressed>>
    <3>1. [d EXCEPT !.volume = v, !.publish = TRUE] \in HwRec
      BY Zenon, <2>0, <1>t DEF HwRec
    <3> QED
      BY Zenon, <2>2, <3>1, <1>12, <1>F, <1>S, <1>f, <1>q, <1>t DEF Resume
  <2> QED
    BY Zenon, <1>12, <2>1, <2>2 DEF Resume, v
(* Where audiod takes a step of its loop. *)
<1>g. ASSUME NEW mem \in HwRec, NEW o \in Stages \ {"saveO", "setO"}, Goto(mem, o), files' \in FilesRec,
             UNCHANGED <<asked, pressed, spent>>
      PROVE  VolumeType'
  BY <1>g, <1>G, <1>t, <1>q
<1>h. {"idle", "publish", "tomb", "tomb0", "restore", "resume", "saveV"} \subseteq Stages \ {"saveO", "setO"}
      /\ {"saveO", "setO"} \subseteq Stages
  BY DEF Stages
<1>13. CASE Poll
  <2>1. files' \in FilesRec /\ UNCHANGED <<asked, pressed, spent>>
    BY <1>13, <1>A, <1>f DEF Poll, PollSession
  <2>2. \A b \in BOOLEAN : [d EXCEPT !.missing = b] \in HwRec
    BY <1>t DEF HwRec
  <2>3. [d EXCEPT !.target = d.s.sess] \in HwRec
    BY <1>t, <1>v DEF HwRec
  <2>4. PICK mem \in HwRec, o \in {"idle", "publish", "tomb", "restore"} : Goto(mem, o)
    <3>1. CASE Goto(d, "restore") \/ Goto(d, "publish")
      BY <3>1, <1>t
    <3>2. CASE PollSession(d)
      <4>1. CASE \E b \in BOOLEAN : Goto([d EXCEPT !.missing = b], IF d.publish THEN "publish" ELSE "idle")
        BY <4>1, <2>2
      <4>2. CASE Goto([d EXCEPT !.target = d.s.sess], "tomb")
        BY <4>2, <2>3
      <4> QED
        BY Zenon, <3>2, <4>1, <4>2 DEF PollSession
    <3> QED
      BY <1>13, <3>1, <3>2 DEF Poll
  <2> QED
    BY <2>1, <2>4, <1>g, <1>h
<1>14. CASE AudiodStarts
  <2>1. Loaded \in HwRec
    BY <1>t, LoadedType DEF VolumeType
  <2>2. [Loaded EXCEPT !.target = Loaded.s.sess] \in HwRec /\ [Loaded EXCEPT !.missing = ~c.up] \in HwRec
    <3>1. Loaded.s.sess \in Nat /\ (~c.up) \in BOOLEAN
      BY <2>1, <1>t DEF HwRec, SessRec
    <3> QED
      BY Zenon, <2>1, <3>1, HwUpdates
  <2>3. files' \in FilesRec /\ UNCHANGED <<asked, pressed, spent>>
    BY <1>14, <1>A, <1>f DEF AudiodStarts
  <2>4. \E x \in HwRec, o \in {"restore", "publish", "tomb", "resume"} : Goto(x, o)
    BY <1>14, <2>1, <2>2 DEF AudiodStarts
  <2> QED
    BY <2>3, <2>4, <1>g, <1>h
<1>15. CASE AudiodDies
  <2>1. Down \in HwRec /\ Down.op = "idle"
    BY DEF Down, HwRec, NoSession, SessRec, Stages, Levels
  <2>2. c' \in ClientRec
    BY <1>15, <1>t DEF AudiodDies, ClientRec
  <2> QED
    BY <1>15, <2>1, <2>2, <1>S, <1>f, <1>t, <1>q DEF AudiodDies
<1>16. CASE \E v \in setup.levels : OwnerSets(v)
  <2>1. PICK v \in Levels : OwnerSets(v)
    BY <1>16, <1>t, SetupTypes
  <2>2. files' \in FilesRec /\ UNCHANGED <<asked, pressed>> /\ spent' \in SpentRec
    BY <2>1, <1>f, <1>S DEF OwnerSets
  <2>3. CASE d.s.sess # 0
    <3> DEFINE s == [d.s EXCEPT !.base = v, !.override = TRUE]
               x == [d EXCEPT !.prev = d.s]
    <3>1. s \in SessRec /\ s.sess = d.s.sess
      BY Zenon, <1>u DEF SessRec
    <3>2. x \in HwRec
      BY <1>t, <1>u DEF HwRec
    <3>3. [d EXCEPT !.prev = d.s, !.s.base = v, !.s.override = TRUE] = [x EXCEPT !.s = s]
      BY Zenon, <1>t, <1>u DEF HwRec, SessRec
    <3>4. Goto([x EXCEPT !.s = s], "saveO")
      BY <3>3, <2>1, <2>3 DEF OwnerSets
    <3>5. [x EXCEPT !.s = s].s = s
      BY <3>2 DEF HwRec
    <3> HIDE DEF s, x
    <3>6. [x EXCEPT !.s = s] \in HwRec
      BY <3>1, <3>2, <1>y
    <3>7. d' \in HwRec /\ c' \in ClientRec /\ d'.op = "saveO" /\ d'.s = s
      BY Zenon, <3>4, <3>5, <3>6, <1>G, <1>h
    <3> QED
      BY <3>7, <3>1, <2>2, <2>3, <1>t DEF VolumeType, Aimed
  <2>4. CASE d.s.sess = 0
    <3> DEFINE x == [d EXCEPT !.target = v]
    <3>1. x \in HwRec /\ x.target = v
      BY <1>t DEF HwRec, Levels
    <3>2. Goto(x, "setO")
      BY <2>1, <2>4 DEF OwnerSets
    <3> HIDE DEF x
    <3>3. d' \in HwRec /\ c' \in ClientRec /\ d'.op = "setO" /\ d'.target = v
      BY <3>1, <3>2, <1>G, <1>h
    <3> QED
      BY <3>3, <2>2, <1>t DEF VolumeType, Aimed
  <2> QED
    BY <2>3, <2>4
<1>17. CASE RefusePending
  <2>1. c' \in ClientRec
    BY <1>17, <1>t DEF RefusePending, ClientRec
  <2>2. d.op = "idle"
    BY <1>17 DEF RefusePending, Serving, At
  <2> QED
    BY <1>17, <2>1, <2>2, <1>A, <1>S, <1>q, <1>t DEF RefusePending
<1>a. ASSUME NEW ok \in BOOLEAN PROVE Told(ok) \in ClientRec
  <2>1. (c.pc \in {"call", "end"} /\ ok) \/ Told(ok) = [c EXCEPT !.pc = "idle"]
    BY DEF Told
  <2>2. CASE c.pc = "call" /\ ok
    <3>1. <<c.m, c.v>> \in Claims
      BY <1>t DEF ClientRec, Claims
    <3>2. Told(ok) = [c EXCEPT !.pc = "status", !.applied = FALSE, !.confirmed = <<c.m, c.v>>]
      BY <2>2 DEF Told
    <3> QED
      BY ZenonT(60), <3>1, <3>2, <1>t DEF ClientRec
  <2>3. CASE c.pc = "end" /\ ok
    <3>1. [c EXCEPT !.pc = "idle", !.sess = 0] \in ClientRec
      BY Zenon, <1>t DEF ClientRec
    <3>2. \A x \in ClientRec : [x EXCEPT !.applied = FALSE, !.confirmed = None] \in ClientRec
      BY ZenonT(60) DEF ClientRec, Claims
    <3>3. Told(ok) = [[c EXCEPT !.pc = "idle", !.sess = 0] EXCEPT !.applied = FALSE, !.confirmed = None]
      BY <2>3 DEF Told
    <3> QED
      BY Zenon, <3>1, <3>2, <3>3
  <2>4. CASE Told(ok) = [c EXCEPT !.pc = "idle"]
    BY <2>4, <1>t DEF ClientRec
  <2> QED
    BY <2>1, <2>2, <2>3, <2>4
<1>b. ASSUME NEW ok \in BOOLEAN, ReplyNow(ok), files' \in FilesRec, UNCHANGED <<asked, pressed, spent>>, At("idle")
      PROVE  VolumeType'
  BY <1>b, <1>a, <1>t, <1>q DEF ReplyNow, At
<1>18. CASE ServeEnd
  <2>1. files' \in FilesRec /\ UNCHANGED <<asked, pressed, spent>> /\ At("idle")
    BY Zenon, <1>18, <1>A, <1>f DEF ServeEnd, Serving
  <2>2. [d EXCEPT !.target = c.sess, !.from = "airplayd"] \in HwRec
    BY Zenon, <1>t DEF HwRec, ClientRec
  <2>3. \/ ReplyNow(TRUE)
        \/ \E o \in {"tomb", "tomb0"} : Goto([d EXCEPT !.target = c.sess, !.from = "airplayd"], o)
    BY Zenon, <1>18 DEF ServeEnd
  <2> QED
    BY Zenon, <2>1, <2>2, <2>3, <1>b, <1>g, <1>h
<1>19. CASE ServeVolume
  <2>1. files' \in FilesRec /\ UNCHANGED <<asked, pressed, spent>> /\ At("idle")
    BY <1>19, <1>f DEF ServeVolume, Serving
  <2> DEFINE s == [sess |-> c.m, cb |-> c.v, sender |-> c.level, override |-> FALSE, base |-> Baseline]
             x == [d EXCEPT !.prev = d.s, !.target = c.m, !.from = "airplayd"]
  <2>2. Baseline \in Levels
    BY <1>u, <1>v DEF Baseline, Levels
  <2>3. s \in SessRec
    BY <2>2, <1>t DEF ClientRec, SessRec
  <2>4. x \in HwRec
    BY Zenon, <1>t, <1>u DEF HwRec, ClientRec
  <2>5. \/ ReplyNow(FALSE) \/ ReplyNow(TRUE)
        \/ Goto([d EXCEPT !.prev = d.s, !.target = c.m, !.from = "airplayd", !.s = s], "saveV")
    BY Zenon, <1>19 DEF ServeVolume
  <2>6. [d EXCEPT !.prev = d.s, !.target = c.m, !.from = "airplayd", !.s = s] = [x EXCEPT !.s = s]
    OBVIOUS
  <2> HIDE DEF s, x
  <2> QED
    BY Zenon, <2>1, <2>3, <2>4, <2>5, <2>6, <1>b, <1>g, <1>h, <1>y
(* airplayd's own steps, and the sender's. *)
<1>C. ASSUME c' \in ClientRec, UNCHANGED <<d, asked, pressed>>, files' \in FilesRec, spent' \in SpentRec
      PROVE  VolumeType'
  BY <1>C, <1>t DEF VolumeType, Aimed
<1>i. \A p \in {"idle", "call", "end", "status", "ack"} : [c EXCEPT !.pc = p] \in ClientRec
  BY <1>t DEF ClientRec
<1>20. CASE AsksEnd \/ ReadsBack
  BY <1>20, <1>i, <1>f, <1>s, <1>C DEF AsksEnd, ReadsBack
<1>21. CASE AsksVolume
  <2> DEFINE same == c.confirmed = Current /\ ~c.applied
             kept == IF same THEN c ELSE [c EXCEPT !.confirmed = None, !.applied = FALSE]
             pc == IF same THEN "status" ELSE "call"
  <2>1. kept \in ClientRec
    BY ZenonT(60), <1>t DEF ClientRec, Claims
  <2>2. DbToPercent(files.db) \in Levels /\ files.marker \in Nat /\ files.cb \in Nat
    BY <1>21, <1>t, PercentIsLevel DEF AsksVolume, FilesRec
  <2>3. c' = IF d.up THEN [kept EXCEPT !.pc = pc, !.sess = files.marker, !.m = files.marker, !.v = files.cb,
                                       !.level = DbToPercent(files.db)]
             ELSE kept
    BY <1>21 DEF AsksVolume
  <2>4. pc \in {"idle", "call", "end", "status", "ack"}
    OBVIOUS
  <2> HIDE DEF kept, pc, same
  <2>5. c' \in ClientRec
    <3>1. [kept EXCEPT !.pc = pc, !.sess = files.marker] \in ClientRec
      BY Zenon, <2>1, <2>2, <2>4 DEF ClientRec
    <3>2. \A x \in ClientRec : [x EXCEPT !.m = files.marker, !.v = files.cb, !.level = DbToPercent(files.db)] \in ClientRec
      BY Zenon, <2>2 DEF ClientRec
    <3>3. [kept EXCEPT !.pc = pc, !.sess = files.marker, !.m = files.marker, !.v = files.cb,
                       !.level = DbToPercent(files.db)]
            = [[kept EXCEPT !.pc = pc, !.sess = files.marker]
                 EXCEPT !.m = files.marker, !.v = files.cb, !.level = DbToPercent(files.db)]
      OBVIOUS
    <3> QED
      BY Zenon, <2>1, <2>3, <3>1, <3>2, <3>3
  <2> QED
    BY <1>21, <2>5, <1>f, <1>s, <1>C DEF AsksVolume
<1>22. CASE Acknowledges
  <2>1. <<c.m, c.v>> \in Claims
    BY <1>t DEF ClientRec, Claims
  <2>2. [files EXCEPT !.ack = <<c.m, c.v>>] \in FilesRec
    BY <2>1, <1>t DEF FilesRec
  <2>3. [c EXCEPT !.pc = "idle", !.applied = TRUE, !.confirmed = <<c.m, c.v>>] \in ClientRec
    BY Zenon, <2>1, <1>t DEF ClientRec
  <2> QED
    BY <1>22, <2>2, <2>3, <1>i, <1>f, <1>s, <1>S, <1>C DEF Acknowledges
<1>23. CASE TimesOut
  <2>1. d' \in HwRec /\ d'.op = d.op /\ d'.s = d.s /\ d'.target = d.target
    BY <1>23, <1>t DEF TimesOut, HwRec
  <2> QED
    BY <1>23, <2>1, <1>i, <1>f, <1>S, <1>t DEF TimesOut, VolumeType, Aimed
<1>24. CASE AirplaydDies
  <2>1. d' \in HwRec /\ d'.op = d.op /\ d'.s = d.s /\ d'.target = d.target
    BY <1>24, <1>t DEF AirplaydDies, HwRec
  <2>2. Dead \in ClientRec
    <3>1. Idle \in ClientRec
      BY DEF Idle, ClientRec, Claims, Levels
    <3> QED
      BY Zenon, <3>1 DEF Dead, ClientRec
  <2>3. [Dead EXCEPT !.enabled = setup.enabled] \in ClientRec
    BY <1>t, <2>2, SetupTypes DEF ClientRec
  <2> QED
    BY <1>24, <2>1, <2>3, <1>f, <1>S, <1>t DEF AirplaydDies, VolumeType, Aimed
<1>25. CASE AirplaydStarts
  <2>1. [c EXCEPT !.up = TRUE] \in ClientRec
    BY Zenon, <1>t DEF ClientRec
  <2> QED
    BY <1>25, <2>1, <1>f, <1>s, <1>C DEF AirplaydStarts
<1>26. CASE SenderStarts \/ SenderStops
  <2>1. files' \in FilesRec
    BY <1>26, <1>t DEF SenderStarts, SenderStops, FilesRec, SpentRec
  <2> QED
    BY <1>26, <2>1, <1>s, <1>S, <1>t, <1>C DEF SenderStarts, SenderStops
<1>27. CASE \E db \in setup.sliders : SenderSlides(db)
  <2>1. PICK db \in Int : SenderSlides(db)
    BY <1>27, <1>t, SetupTypes
  <2>2. files' \in FilesRec
    <3>1. files.cb + 1 \in Nat
      BY <1>t DEF FilesRec
    <3>2. [files EXCEPT !.cb = files.cb + 1] \in FilesRec
      BY <3>1, <1>t DEF FilesRec
    <3>3. \A x \in FilesRec : [x EXCEPT !.db = db] \in FilesRec
      BY DEF FilesRec
    <3>4. files' = [[files EXCEPT !.cb = files.cb + 1] EXCEPT !.db = db]
      BY <2>1 DEF SenderSlides
    <3> QED
      BY Zenon, <3>2, <3>3, <3>4
  <2> QED
    BY <2>1, <2>2, <1>s, <1>t, <1>C DEF SenderSlides
<1> HIDE DEF Fault
<1> QED
  BY <1>1, <1>2, <1>3, <1>4, <1>5, <1>6, <1>7, <1>8, <1>9, <1>10, <1>11, <1>12, <1>13, <1>14,
     <1>15, <1>16,
     <1>17, <1>18, <1>19, <1>20, <1>21, <1>22, <1>23, <1>24, <1>25, <1>26, <1>27
     DEF VolumeNext, AudiodWorks, AirplaydWorks

(* The numbers the invariant compares. *)
Numerals ==
  /\ d.s.sess \in Nat /\ d.s.cb \in Nat /\ d.prev.sess \in Nat /\ d.prev.cb \in Nat
  /\ d.newest \in Nat /\ d.target \in Nat /\ spent.sessions \in Nat
  /\ files.cb \in Nat /\ files.marker \in Nat /\ files.left \in Nat /\ files.master \in Int
  /\ c.sess \in Nat /\ c.m \in Nat /\ c.v \in Nat
  /\ Session => Saved[2].sess \in Nat /\ Saved[2].cb \in Nat
  /\ Ended => Saved[2] \in Nat
  /\ pressed # None => pressed[1] \in Nat /\ pressed[2] \in Nat
  /\ d.s.sender \in 0..100 /\ d.s.base \in 0..100 /\ d.volume \in 0..100

LEMMA Numbers == VolumeType => Numerals
<1> SUFFICES ASSUME VolumeType PROVE Numerals
  OBVIOUS
<1>1. d.s \in SessRec /\ d.prev \in SessRec /\ d.newest \in Nat /\ d.target \in Nat /\ d.volume \in Levels
  BY DEF VolumeType, HwRec
<1>2. files.cb \in Nat /\ files.marker \in Nat /\ files.left \in Nat /\ files.master \in Int
      /\ files.record \in {None} \union SessionRecords \union EndRec
  BY DEF VolumeType, FilesRec
<1>3. c.sess \in Nat /\ c.m \in Nat /\ c.v \in Nat /\ spent.sessions \in Nat
  BY DEF VolumeType, ClientRec, SpentRec
<1>4. Session => Saved[2] \in SessRec
  BY <1>2 DEF Session, Saved, SessionRecords, EndRec
<1>5. Ended => Saved[2] \in Nat
  BY <1>2 DEF Ended, Saved, SessionRecords, EndRec
<1>6. pressed # None => pressed[1] \in Nat /\ pressed[2] \in Nat
  BY DEF VolumeType, Claims
<1> QED
  BY <1>1, <1>2, <1>3, <1>4, <1>5, <1>6 DEF SessRec, Numerals, Levels

(* The record a start finds: none, a session that was playing, or one ended. *)
LEMMA RecordShapes ==
  ASSUME VolumeType
  PROVE  /\ Saved = None \/ Session \/ Ended
         /\ ~(Session /\ Ended) /\ (Session \/ Ended => Saved # None)
         /\ Session => Saved = SessionRecord(Saved[2]) /\ Saved[2] \in SessRec
         /\ Ended => /\ Saved = EndedRecord(Saved[2], Saved[3], Saved[4])
                     /\ Saved[2] \in Nat /\ Saved[3] \in Levels /\ Saved[4] \in BOOLEAN
BY DEF VolumeType, FilesRec, Session, Ended, Saved, SessionRecords, EndRec, SessionRecord,
   EndedRecord, None

LEMMA FreshFields ==
  ASSUME VolumeType
  PROVE  /\ Fresh.up /\ Fresh.s = NoSession /\ Fresh.prev = NoSession
         /\ Fresh.newest = 0 /\ ~Fresh.ended /\ ~Fresh.pending
         /\ Fresh.publish /\ Fresh.volume = Taken /\ Fresh.requested = Taken
         /\ Fresh.op = "idle" /\ Fresh.target = 0 /\ Fresh.from = "none"
<1>1. Fresh.up /\ Fresh.s = NoSession /\ Fresh.prev = NoSession
  BY DEF Fresh, Down
<1>2. Fresh.newest = 0 /\ ~Fresh.ended /\ ~Fresh.pending
  BY DEF Fresh, Down
<1>3. Fresh.publish /\ Fresh.volume = Taken /\ Fresh.requested = Taken
  BY DEF Fresh, Down
<1>4. Fresh.op = "idle" /\ Fresh.target = 0 /\ Fresh.from = "none"
  BY DEF Fresh, Down
<1> QED
  BY <1>1, <1>2, <1>3, <1>4

LEMMA LoadedFields ==
  ASSUME VolumeType
  PROVE  /\ Loaded \in HwRec
         /\ Loaded.up /\ Loaded.prev = NoSession /\ Loaded.publish /\ Loaded.volume = Taken
         /\ Loaded.op = "idle" /\ Loaded.target = 0 /\ Loaded.from = "none"
         /\ Saved = None => /\ Loaded.s = NoSession /\ Loaded.newest = 0 /\ ~Loaded.ended
                            /\ ~Loaded.pending /\ Loaded.requested = Taken
         /\ Ended => /\ Loaded.s = [NoSession EXCEPT !.base = Saved[3]] /\ Loaded.newest = Saved[2]
                     /\ Loaded.ended /\ (Loaded.pending <=> Saved[4]) /\ Loaded.requested = Taken
         /\ Session => /\ Loaded.s = Saved[2] /\ Loaded.newest = Saved[2].sess
                       /\ ~Loaded.ended /\ ~Loaded.pending /\ Loaded.requested = Saved[2].base
<1>1. Fresh \in HwRec /\ Loaded \in HwRec
  BY LoadedType
<1>2. /\ Fresh.up /\ Fresh.s = NoSession /\ Fresh.prev = NoSession
      /\ Fresh.newest = 0 /\ ~Fresh.ended /\ ~Fresh.pending
      /\ Fresh.publish /\ Fresh.volume = Taken /\ Fresh.requested = Taken
      /\ Fresh.op = "idle" /\ Fresh.target = 0 /\ Fresh.from = "none"
  BY FreshFields
<1>3. Loaded = IF Saved = None THEN Fresh
               ELSE IF Saved[1] = "ended"
               THEN [Fresh EXCEPT !.newest = Saved[2], !.ended = TRUE, !.s.base = Saved[3], !.pending = Saved[4]]
               ELSE [Fresh EXCEPT !.s = Saved[2], !.newest = Saved[2].sess, !.requested = Saved[2].base]
  BY DEF Loaded, Fresh, Taken, Saved
<1>4. CASE Saved = None
  <2>1. Loaded = Fresh /\ ~Ended /\ ~Session
    BY <1>3, <1>4, RecordShapes
  <2> QED
    BY <2>1, <1>1, <1>2, <1>4
<1>5. CASE Ended
  <2>1. Loaded = [Fresh EXCEPT !.newest = Saved[2], !.ended = TRUE, !.s.base = Saved[3], !.pending = Saved[4]]
        /\ ~Session /\ Saved # None
    BY <1>3, <1>5, RecordShapes DEF Ended
  <2>2. Saved[4] \in BOOLEAN
    BY <1>5, RecordShapes
  <2>3. Loaded.up /\ Loaded.prev = NoSession /\ Loaded.publish /\ Loaded.volume = Taken
    BY <2>1, <1>1, <1>2 DEF HwRec
  <2>4. Loaded.op = "idle" /\ Loaded.target = 0 /\ Loaded.from = "none"
    BY <2>1, <1>1, <1>2 DEF HwRec
  <2>5. Loaded.s = [NoSession EXCEPT !.base = Saved[3]] /\ Loaded.newest = Saved[2]
    BY <2>1, <1>1, <1>2 DEF HwRec
  <2>6. Loaded.ended /\ Loaded.requested = Taken
    BY <2>1, <1>1, <1>2 DEF HwRec
  <2>7. Loaded.pending <=> Saved[4]
    BY <2>1, <2>2, <1>1 DEF HwRec
  <2> QED
    BY <1>1, <1>5, <2>1, <2>3, <2>4, <2>5, <2>6, <2>7
<1>6. CASE Session
  <2>1. Loaded = [Fresh EXCEPT !.s = Saved[2], !.newest = Saved[2].sess, !.requested = Saved[2].base]
        /\ ~Ended /\ Saved # None
    BY <1>3, <1>6, RecordShapes DEF Session
  <2>2. Loaded.up /\ Loaded.prev = NoSession /\ Loaded.publish /\ Loaded.volume = Taken
    BY <2>1, <1>1, <1>2 DEF HwRec
  <2>3. Loaded.op = "idle" /\ Loaded.target = 0 /\ Loaded.from = "none"
    BY <2>1, <1>1, <1>2 DEF HwRec
  <2>4. Loaded.s = Saved[2] /\ Loaded.newest = Saved[2].sess
    BY <2>1, <1>1, <1>2 DEF HwRec
  <2>5. ~Loaded.ended /\ ~Loaded.pending /\ Loaded.requested = Saved[2].base
    BY <2>1, <1>1, <1>2 DEF HwRec
  <2> QED
    BY <1>1, <1>6, <2>1, <2>2, <2>3, <2>4, <2>5
<1> QED
  BY <1>4, <1>5, <1>6, RecordShapes

(* A start's own memory is Loaded with one or two fields set. *)
LEMMA FromLoaded ==
  ASSUME VolumeType, NEW o \in Stages, NEW t \in Nat, NEW b \in BOOLEAN,
         NEW mem, mem \in {Loaded, [Loaded EXCEPT !.target = t], [Loaded EXCEPT !.missing = b]},
         Goto(mem, o)
  PROVE  /\ d'.up /\ d'.prev = NoSession /\ d'.publish /\ d'.volume = Taken
         /\ d'.op = o /\ d'.from = "none" /\ d'.s = Loaded.s /\ d'.newest = Loaded.newest
         /\ (d'.ended <=> Loaded.ended) /\ (d'.pending <=> Loaded.pending)
         /\ d'.requested = Loaded.requested
         /\ d'.target = IF mem = [Loaded EXCEPT !.target = t] THEN t ELSE 0
<1>1. Loaded \in HwRec /\ Loaded.up /\ Loaded.prev = NoSession /\ Loaded.publish /\ Loaded.volume = Taken
      /\ Loaded.target = 0 /\ Loaded.from = "none"
  BY LoadedFields
<1>2. mem \in HwRec
  BY <1>1, HwUpdates
<1>3. /\ mem.up /\ mem.prev = NoSession /\ mem.publish /\ mem.volume = Taken
      /\ mem.from = "none" /\ mem.s = Loaded.s
  BY <1>1 DEF HwRec
<1>4. /\ (mem.ended <=> Loaded.ended) /\ (mem.pending <=> Loaded.pending)
      /\ mem.requested = Loaded.requested /\ mem.newest = Loaded.newest
  BY <1>1 DEF HwRec
<1>5. mem.target = IF mem = [Loaded EXCEPT !.target = t] THEN t ELSE 0
  BY <1>1 DEF HwRec
<1>6. d' = [mem EXCEPT !.op = o]
  BY DEF Goto
<1>7. d'.op = o /\ d'.up /\ d'.prev = NoSession /\ d'.publish /\ d'.volume = Taken
  BY <1>2, <1>3, <1>6 DEF HwRec
<1>8. d'.from = "none" /\ d'.s = Loaded.s /\ d'.newest = Loaded.newest /\ d'.target = mem.target
  BY <1>2, <1>3, <1>4, <1>6 DEF HwRec
<1>9. (d'.ended <=> Loaded.ended) /\ (d'.pending <=> Loaded.pending) /\ d'.requested = Loaded.requested
  BY <1>2, <1>4, <1>6 DEF HwRec
<1> QED
  BY <1>5, <1>7, <1>8, <1>9

(* A step that leaves audiod and the files alone keeps all that is said of  *)
(* them.                                                                    *)
LEMMA Untouched ==
  ASSUME Staged, Ordered, Durable, Owned, Heard, Pressed, setup' = setup,
         d' = d, files' = files, asked' = asked, pressed' = pressed,
         spent'.sessions = spent.sessions
  PROVE  Staged' /\ Ordered' /\ Durable' /\ Owned' /\ Heard' /\ Pressed'
<1>s. Standing' = Standing /\ Taken' = Taken
  BY DEF Standing, Changing, Taken
<1>r. Saved' = Saved /\ (Session' <=> Session) /\ (Ended' <=> Ended) /\ (Relied' <=> Relied)
  BY DEF Saved, Session, Ended, Relied
<1>1. Staged'
  BY DEF Staged
<1>2. Ordered'
  BY <1>s DEF Ordered, Numbered, Slid
<1>3. Recorded' <=> Recorded
  BY <1>s, <1>r DEF Recorded, Numbered, Slid
<1>4. Written' <=> Written
  BY <1>s, <1>r DEF Written
<1>5. Matches' <=> Matches
  BY Zenon, <1>4, <1>r DEF Matches
<1>6. Durable'
  BY <1>3, <1>5, <1>r DEF Durable
<1>7. Owned'
  BY <1>s DEF Owned
<1>8. Heard'
  BY <1>s DEF Heard
<1>9. Pressed'
  BY <1>s, <1>r DEF Pressed, Overrides
<1> QED
  BY <1>1, <1>2, <1>6, <1>7, <1>8, <1>9

(* What audiod leaves behind: the record names the newest session, and its  *)
(* newest callback when that has been heard.                                *)
LEMMA LastWords ==
  ASSUME VolumeType, Staged, Ordered, Durable, d.up, Relied, files.marker # 0
  PROVE  /\ <<Standing.sess, Standing.cb>> = Current
              => Session /\ <<Saved[2].sess, Saved[2].cb>> = Current
         /\ Standing.sess = files.marker \/ (d.ended /\ d.newest = files.marker)
              => \/ Session /\ Saved[2].sess = files.marker
                 \/ Ended /\ Saved[2] = files.marker
<1>n. Numerals
  BY Numbers
<1>r. /\ \A s : Session /\ Saved = SessionRecord(s) => Saved[2] = s
      /\ \A s : Saved = SessionRecord(s) => Session
      /\ \A e, b, p : Saved = EndedRecord(e, b, p) => Ended /\ Saved[2] = e
  <2>1. \A s : Session /\ Saved = SessionRecord(s) => Saved[2] = s
    BY DEF SessionRecord
  <2>2. \A s : Saved = SessionRecord(s) => Session
    BY DEF SessionRecord, Session, Saved, None
  <2>3. \A e, b, p : Saved = EndedRecord(e, b, p) => Ended /\ Saved[2] = e
    BY DEF EndedRecord, Ended, Saved, None
  <2> QED
    BY <2>1, <2>2, <2>3
<1>m. Recorded /\ Matches /\ files.marker = spent.sessions
  BY DEF Durable, Ordered
<1>1. CASE d.op = "setV"
  <2>1. Standing = d.prev /\ Saved = SessionRecord(d.s) /\ Session /\ Saved[2] = d.s
    BY <1>1, <1>m, <1>r DEF Standing, Changing, Matches
  <2>2. Numbered(d.s) /\ d.s.sess >= d.newest /\ (d.s.sess = d.newest => ~d.ended)
        /\ (d.s.sess = d.prev.sess => d.s.cb > d.prev.cb)
    BY <1>1 DEF Ordered
  <2>3. Standing.sess # 0 => Standing.sess = d.newest /\ ~d.ended
    BY DEF Ordered
  <2> QED
    BY <2>1, <2>2, <2>3, <1>m, <1>n DEF Numbered, Current, Numerals
<1>2. CASE d.op = "setO" /\ d.s.sess # 0
  <2>1. Standing = d.prev /\ Saved = SessionRecord(d.s) /\ Session /\ Saved[2] = d.s
    BY <1>2, <1>m, <1>r DEF Standing, Changing, Matches
  <2>2. d.prev.sess = d.s.sess /\ d.prev.cb = d.s.cb
    BY <1>2 DEF Staged
  <2>3. Standing.sess # 0 => Standing.sess = d.newest /\ ~d.ended
    BY DEF Ordered
  <2> QED
    BY <1>2, <2>1, <2>2, <2>3 DEF Current
<1>3. CASE d.op = "undoV"
  <2>1. Standing = d.s
    BY <1>3 DEF Standing, Changing
  <2>2. Session /\ Saved[2].sess >= d.newest /\ (Saved[2].sess = d.newest => ~d.ended)
        /\ (Saved[2].sess = d.s.sess => Saved[2].cb > d.s.cb)
    BY <1>3, <1>m DEF Matches
  <2>3. Standing.sess # 0 => Standing.sess = d.newest /\ ~d.ended
    BY DEF Ordered
  <2> QED
    BY <2>1, <2>2, <2>3, <1>m, <1>n DEF Numbered, Current, Numerals, Recorded
<1>4. CASE d.op = "undoO"
  <2>1. Standing = d.s /\ d.s.sess # 0
    BY <1>4 DEF Standing, Changing, Staged
  <2>2. Session /\ Saved[2].sess = d.s.sess /\ Saved[2].cb = d.s.cb
    BY <1>4, <1>m DEF Matches
  <2>3. Standing.sess # 0 => Standing.sess = d.newest /\ ~d.ended
    BY DEF Ordered
  <2> QED
    BY <2>1, <2>2, <2>3 DEF Current
<1>5. CASE ~(d.op = "setV" \/ (d.op = "setO" /\ d.s.sess # 0)) /\ d.op \notin {"undoV", "undoO"}
  <2>1. Written
    BY <1>5, <1>m DEF Matches
  <2>2. Standing.sess # 0 => Session /\ Saved[2] = Standing /\ Standing.sess = d.newest /\ ~d.ended
    BY <2>1, <1>r DEF Written, Ordered
  <2>3. d.pending => Ended /\ Saved[2] = d.newest
    BY Zenon, <2>1, <1>r, <1>n DEF Written, Numerals
  <2>4. Standing.sess = 0 /\ ~d.pending /\ d.ended /\ d.newest = files.marker => Ended /\ Saved[2] = d.newest
    BY <2>1, <1>m, <1>n DEF Written, Numerals
  <2> QED
    BY <2>2, <2>3, <2>4 DEF Current
<1> QED
  BY <1>1, <1>2, <1>3, <1>4, <1>5
-----------------------------------------------------------------------------
(* One lemma for each step of the level.  A branch of a step says first     *)
(* what it does to audiod's memory (d), airplayd's (c), the files (f), the  *)
(* history (x) and the session that stands (s), then that every part of the *)
(* invariant survives it.  <1>b holds the invariant before the step, <1>m   *)
(* what is on disk for as long as it can be relied on.                      *)

(* The record names the callback before the speaker has it: until it is heard *)
(* the session before it stands.                                            *)
LEMMA SaveSenderKeeps ==
  ASSUME VolumeType, VolumeType', Sound, Undoable, UNCHANGED setup, SaveSender
  PROVE  Sound'
<1>t. VolumeType /\ VolumeType' /\ setup' = setup
  OBVIOUS
<1>n. Numerals /\ setup' = setup
  BY Numbers
<1>b. /\ d.up /\ d.op = "saveV"
      /\ Undoable /\ Staged /\ Ordered /\ Beliefs /\ Durable /\ Owned /\ Heard /\ Claimed /\ Pressed
  BY DEF Sound, SaveSender, At, Serving, Ready, VolumeType, Aimed
<1>m. Relied => Recorded /\ Written
  BY <1>b DEF Durable, Matches
<1>1. CASE SaveRecord(SessionRecord(d.s)) /\ Goto(d, "setV") /\ UNCHANGED spent
  <2>d. /\ (d'.up <=> d.up) /\ d'.s = d.s /\ d'.prev = d.prev /\ d'.newest = d.newest
        /\ (d'.ended <=> d.ended) /\ (d'.pending <=> d.pending) /\ (d'.publish <=> d.publish)
        /\ d'.volume = d.volume /\ d'.requested = d.requested /\ d'.op = "setV" /\ d'.target = d.target
        /\ d'.from = d.from
    BY <1>1, <1>t DEF SaveSender, VolumeType, HwRec, Goto, Finish, Published, SetEnded
  <2>c. c' = c
    BY <1>1 DEF SaveSender, Goto, ReplyNow
  <2>f. /\ files'.master = files.master /\ files'.record = SessionRecord(d.s)
        /\ files'.marker = files.marker /\ files'.cb = files.cb /\ files'.db = files.db
        /\ files'.ack = files.ack /\ files'.left = files.left
    BY <1>1, <1>t DEF SaveSender, VolumeType, FilesRec, SaveRecord, Publish, Revoke
  <2>x. asked' = asked /\ pressed' = pressed /\ spent' = spent
    BY <1>1, <1>t, Spent DEF SaveSender, Fault
  <2>s. Standing = d.prev /\ Standing' = d.prev
    BY <1>1, <2>d, <1>b DEF Standing, Changing
  <2>1. Staged'
    BY <1>1, <2>d, <2>c, <2>f, <2>x, <2>s, <1>n, <1>b DEF Numerals, Staged
  <2>2. Ordered'
    BY <1>1, <2>d, <2>c, <2>f, <2>x, <2>s, <1>n, <1>b DEF Numerals, Ordered, Numbered, Slid, Staged
  <2>3. Beliefs'
    BY <1>1, <2>d, <2>c, <2>f, <2>x, <2>s, <1>n, <1>b DEF Numerals, Beliefs, Believed
  <2>4. Durable'
    <3> SUFFICES ASSUME Relied' PROVE Recorded' /\ (d'.up => Matches')
      BY DEF Durable
    <3>1. Recorded /\ Written
      BY <1>1, <2>d, <2>c, <2>f, <2>x, <2>s, <1>n, <1>b, <1>m DEF Relied
    <3>2. Recorded'
      BY <1>1, <2>d, <2>c, <2>f, <2>x, <2>s, <1>n, <1>b, <3>1 DEF Numerals, Levels, None,
         Recorded, Session, Ended, Saved, Numbered, Slid, Taken, Staged, Ordered, Owned,
         SessionRecord
    <3>3. Matches'
      BY <1>1, <2>d, <2>c, <2>f, <2>x, <2>s, <1>n, <1>b, <3>1 DEF Numerals, None, Matches,
         Written, Saved, Session, Ended, Staged, Ordered, Numbered, Slid, SessionRecord
    <3> QED
      BY <3>2, <3>3
  <2>5. Owned'
    BY <1>1, <2>d, <2>c, <2>f, <2>x, <2>s, <1>n, <1>b DEF Numerals, Owned, Taken, Staged
  <2>6. Heard'
    BY <1>1, <2>d, <2>c, <2>f, <2>x, <2>s, <1>n, <1>b DEF Numerals, Heard, Taken, LevelOf, Staged,
       Ordered, Numbered, Slid
  <2>7. Claimed'
    BY <1>1, <2>d, <2>c, <2>f, <2>x, <2>s, <1>n, <1>b DEF Numerals, Claimed, None, Beliefs,
       Believed, Claim, Playable, Current, Session, Saved, Staged, Ordered, Numbered, Slid,
       SessionRecord
  <2>8. Pressed'
    BY <1>1, <2>d, <2>c, <2>f, <2>x, <2>s, <1>n, <1>b, <1>m DEF Numerals, Levels, None, Pressed,
       Overrides, Session, Saved, Ended, Relied, Staged, Ordered, Numbered, Slid, SessionRecord
  <2> QED
    BY <2>1, <2>2, <2>3, <2>4, <2>5, <2>6, <2>7, <2>8 DEF Sound
<1>2. CASE Fault /\ Finish([d EXCEPT !.s = d.prev], FALSE) /\ UNCHANGED files
  <2>d. /\ (d'.up <=> d.up) /\ d'.s = d.prev /\ d'.prev = d.prev /\ d'.newest = d.newest
        /\ (d'.ended <=> d.ended) /\ (d'.pending <=> d.pending) /\ (d'.publish <=> d.publish)
        /\ d'.volume = d.volume /\ d'.requested = d.requested /\ d'.op = "idle" /\ d'.target = d.target
        /\ d'.from = "none"
    BY <1>2, <1>t DEF SaveSender, VolumeType, HwRec, Goto, Finish, Published, SetEnded
  <2>c. /\ (c'.up <=> c.up) /\ (c'.enabled <=> c.enabled) /\ c'.m = c.m /\ c'.v = c.v /\ c'.level = c.level
        /\ c'.sess = c.sess /\ c'.confirmed = c.confirmed /\ c'.pc \in {c.pc, "idle"}
    BY Zenon, <1>2, <1>t, AnswerTo DEF SaveSender, Finish, VolumeType
  <2>f. files' = files
    BY <1>2, <1>t DEF SaveSender
  <2>x. asked' = asked /\ pressed' = pressed /\ spent'.sessions = spent.sessions
    BY <1>2, <1>t, Spent DEF SaveSender, Fault
  <2>s. Standing = d.prev /\ Standing' = d.prev
    BY <1>2, <2>d, <1>b DEF Standing, Changing
  <2>1. Staged'
    BY <1>2, <2>d, <2>c, <2>f, <2>x, <2>s, <1>n, <1>b DEF Numerals, Staged
  <2>2. Ordered'
    BY <1>2, <2>d, <2>c, <2>f, <2>x, <2>s, <1>n, <1>b DEF Numerals, Ordered, Numbered, Slid, Staged
  <2>3. Beliefs'
    BY <1>2, <2>d, <2>c, <2>f, <2>x, <2>s, <1>n, <1>b DEF Numerals, Beliefs, Believed
  <2>4. Durable'
    <3> SUFFICES ASSUME Relied' PROVE Recorded' /\ (d'.up => Matches')
      BY DEF Durable
    <3>1. Recorded /\ Written
      BY <1>2, <2>d, <2>c, <2>f, <2>x, <2>s, <1>n, <1>b, <1>m DEF Relied
    <3>2. Recorded'
      BY <1>2, <2>d, <2>c, <2>f, <2>x, <2>s, <1>n, <1>b, <3>1 DEF Numerals, Levels, None,
         Recorded, Session, Ended, Saved, Numbered, Slid, Taken, Staged, Ordered, Owned
    <3>3. Matches'
      BY ZenonT(60), <1>2, <2>d, <2>c, <2>f, <2>x, <2>s, <1>n, <1>b, <3>1 DEF Numerals, None, Matches,
         Written, Saved, Session, Ended, Staged, Ordered, Numbered, Slid
    <3> QED
      BY <3>2, <3>3
  <2>5. Owned'
    BY <1>2, <2>d, <2>c, <2>f, <2>x, <2>s, <1>n, <1>b DEF Numerals, Owned, Taken, Staged
  <2>6. Heard'
    BY <1>2, <2>d, <2>c, <2>f, <2>x, <2>s, <1>n, <1>b DEF Numerals, Heard, Taken, LevelOf, Staged,
       Ordered, Numbered, Slid
  <2>7. Claimed'
    BY SMTT(60), <1>2, <2>d, <2>c, <2>f, <2>x, <2>s, <1>n, <1>b DEF Numerals, Claimed, None, Beliefs,
       Believed, Claim, Playable, Current, Session, Saved, Staged, Ordered, Numbered, Slid
  <2>8. Pressed'
    BY SMTT(60), <1>2, <2>d, <2>c, <2>f, <2>x, <2>s, <1>n, <1>b, <1>m DEF Numerals, Levels, None, Pressed,
       Overrides, Session, Saved, Ended, Relied, Staged, Ordered, Numbered, Slid
  <2> QED
    BY <2>1, <2>2, <2>3, <2>4, <2>5, <2>6, <2>7, <2>8 DEF Sound
<1> QED
  BY Zenon, <1>1, <1>2 DEF SaveSender

(* The callback is heard: it becomes the session that stands.               *)
LEMMA SetSenderKeeps ==
  ASSUME VolumeType, VolumeType', Sound, Undoable, UNCHANGED setup, SetSender
  PROVE  Sound'
<1>t. VolumeType /\ VolumeType' /\ setup' = setup
  OBVIOUS
<1>n. Numerals /\ setup' = setup
  BY Numbers
<1>b. /\ d.up /\ d.op = "setV"
      /\ Undoable /\ Staged /\ Ordered /\ Beliefs /\ Durable /\ Owned /\ Heard /\ Claimed /\ Pressed
  BY DEF Sound, SetSender, At, Serving, Ready, VolumeType, Aimed
<1>m. Relied => Recorded /\ (Saved = SessionRecord(d.s))
  BY <1>b DEF Durable, Matches
<1>1. CASE Publish(d.s.sender) /\ UNCHANGED spent
        /\ Finish([Published(d.s.sender) EXCEPT !.newest = d.s.sess, !.ended = FALSE, !.requested = d.s.base], TRUE)
  <2>d. /\ (d'.up <=> d.up) /\ d'.s = d.s /\ d'.prev = d.prev /\ d'.newest = d.s.sess
        /\ (d'.ended <=> FALSE) /\ (d'.pending <=> d.pending) /\ (d'.publish <=> FALSE)
        /\ d'.volume = d.s.sender /\ d'.requested = d.s.base /\ d'.op = "idle" /\ d'.target = d.target
        /\ d'.from = "none"
    BY <1>1, <1>t DEF SetSender, VolumeType, HwRec, Goto, Finish, Published, SetEnded
  <2>c. /\ (c'.up <=> c.up) /\ (c'.enabled <=> c.enabled) /\ c'.m = c.m /\ c'.v = c.v /\ c'.level = c.level
        /\ \/ c'.pc \in {c.pc, "idle"} /\ c'.sess = c.sess /\ c'.confirmed = c.confirmed
           \/ d.from = "airplayd" /\ c.pc = "call" /\ c'.pc = "status"
              /\ c'.sess = c.sess /\ c'.confirmed = <<c.m, c.v>>
           \/ d.from = "airplayd" /\ c.pc = "end" /\ c'.pc = "idle" /\ c'.sess = 0 /\ c'.confirmed = None
    BY Zenon, <1>1, <1>t, Accepted DEF SetSender, Finish, VolumeType
  <2>f. /\ files'.master = d.s.sender /\ files'.record = files.record /\ files'.marker = files.marker
        /\ files'.cb = files.cb /\ files'.db = files.db /\ files'.ack = files.ack
        /\ files'.left = files.left
    BY <1>1, <1>t DEF SetSender, VolumeType, FilesRec, SaveRecord, Publish, Revoke
  <2>x. asked' = asked /\ pressed' = pressed /\ spent' = spent
    BY <1>1, <1>t, Spent DEF SetSender, Fault
  <2>s. Standing = d.prev /\ Standing' = d.s
    BY <1>1, <2>d, <1>b DEF Standing, Changing
  <2>v. files'.master \in 0..100 /\ files'.master >= 0
    <3>1. d.s.sender \in 0..100
      BY <1>1, <1>n, <1>b DEF Numerals, Levels
    <3>2. files'.master \in 0..100
      BY <3>1, <2>f
    <3> QED
      BY <3>2
  <2>1. Staged'
    BY SMTT(60), <1>1, <2>d, <2>c, <2>f, <2>x, <2>s, <1>n, <1>b, <2>v DEF Numerals, Staged
  <2>2. Ordered'
    BY <1>1, <2>d, <2>c, <2>f, <2>x, <2>s, <1>n, <1>b, <2>v DEF Numerals, Ordered, Numbered, Slid,
       Staged
  <2>3. Beliefs'
    BY <1>1, <2>d, <2>c, <2>f, <2>x, <2>s, <1>n, <1>b, <2>v DEF Numerals, Beliefs, Believed
  <2>4. Durable'
    <3> SUFFICES ASSUME Relied' PROVE Recorded' /\ (d'.up => Matches')
      BY DEF Durable
    <3>1. Recorded /\ (Saved = SessionRecord(d.s))
      BY SMTT(60), <1>1, <2>d, <2>c, <2>f, <2>x, <2>s, <1>n, <1>b, <2>v, <1>m DEF Relied
    <3>2. Recorded'
      BY <1>1, <2>d, <2>c, <2>f, <2>x, <2>s, <1>n, <1>b, <2>v, <3>1 DEF Numerals, Levels, None,
         Recorded, Session, Ended, Saved, Numbered, Slid, Taken, Staged, Ordered, Owned,
         SessionRecord
    <3>3. Matches'
      BY ZenonT(60), <1>1, <2>d, <2>c, <2>f, <2>x, <2>s, <1>n, <1>b, <2>v, <3>1 DEF Numerals, None, Matches,
         Written, Saved, Session, Ended, Staged, Ordered, Numbered, Slid, SessionRecord
    <3> QED
      BY <3>2, <3>3
  <2>5. Owned'
    BY <1>1, <2>d, <2>c, <2>f, <2>x, <2>s, <1>n, <1>b, <2>v DEF Numerals, Owned, Taken, Staged
  <2>6. Heard'
    BY <1>1, <2>d, <2>c, <2>f, <2>x, <2>s, <1>n, <1>b, <2>v DEF Numerals, Heard, Taken, LevelOf,
       Staged, Ordered, Numbered, Slid
  <2>7. Claimed'
    BY SMTT(60), <1>1, <2>d, <2>c, <2>f, <2>x, <2>s, <1>n, <1>b, <2>v DEF Numerals, Claimed, None, Beliefs,
       Believed, Claim, Playable, Current, Session, Saved, Staged, Ordered, Numbered, Slid
  <2>8. Pressed'
    <3>1. pressed' # None => pressed'[1] # 0 /\ pressed'[1] <= spent'.sessions /\ pressed'[2] <= files'.cb /\ files'.master >= 0
      BY <1>1, <2>d, <2>c, <2>f, <2>x, <2>s, <1>n, <1>b, <2>v, <1>m DEF Numerals, Levels, None,
         Pressed, Overrides, Session, Saved, Ended, Relied, Staged, Ordered, Numbered, Slid,
         SessionRecord
    <3>2. pressed' # None /\ d'.up => Overrides(Standing)'
      BY <1>1, <2>d, <2>c, <2>f, <2>x, <2>s, <1>n, <1>b, <2>v, <1>m DEF Numerals, Levels, None,
         Pressed, Overrides, Session, Saved, Ended, Relied, Staged, Ordered, Numbered, Slid,
         SessionRecord
    <3>3. pressed' # None /\ d'.up /\ pressed'[1] = files'.marker =>
          Standing'.sess = files'.marker \/ (d'.ended /\ d'.newest = files'.marker)
      BY <1>1, <2>d, <2>c, <2>f, <2>x, <2>s, <1>n, <1>b, <2>v, <1>m DEF Numerals, Levels, None,
         Pressed, Overrides, Session, Saved, Ended, Relied, Staged, Ordered, Numbered, Slid,
         SessionRecord
    <3>4. pressed' # None /\ d'.op \in {"saveV", "setV"} /\ d'.s.sess = pressed'[1] => d'.s.cb > pressed'[2]
      BY <1>1, <2>d, <2>c, <2>f, <2>x, <2>s, <1>n, <1>b, <2>v, <1>m DEF Numerals, Levels, None,
         Pressed, Overrides, Session, Saved, Ended, Relied, Staged, Ordered, Numbered, Slid,
         SessionRecord
    <3>5. pressed' # None /\ Relied' /\ Session' => Overrides(Saved[2])'
      BY SMTT(60), <1>1, <2>d, <2>c, <2>f, <2>x, <2>s, <1>n, <1>b, <2>v, <1>m DEF Numerals, Levels, None,
         Pressed, Overrides, Session, Saved, Ended, Relied, Staged, Ordered, Numbered, Slid,
         SessionRecord
    <3>6. d'.up
      BY <1>1, <2>d, <2>c, <2>f, <2>x, <2>s, <1>n, <1>b, <2>v, <1>m DEF Numerals, Levels, None,
         Pressed, Overrides, Session, Saved, Ended, Relied, Staged, Ordered, Numbered, Slid,
         SessionRecord
    <3> QED
      BY <3>1, <3>2, <3>3, <3>4, <3>5, <3>6 DEF Pressed
  <2> QED
    BY <2>1, <2>2, <2>3, <2>4, <2>5, <2>6, <2>7, <2>8 DEF Sound
<1>2. CASE Fault /\ Goto([d EXCEPT !.s = d.prev], "undoV") /\ UNCHANGED files
  <2>d. /\ (d'.up <=> d.up) /\ d'.s = d.prev /\ d'.prev = d.prev /\ d'.newest = d.newest
        /\ (d'.ended <=> d.ended) /\ (d'.pending <=> d.pending) /\ (d'.publish <=> d.publish)
        /\ d'.volume = d.volume /\ d'.requested = d.requested /\ d'.op = "undoV"
        /\ d'.target = d.target /\ d'.from = d.from
    BY <1>2, <1>t DEF SetSender, VolumeType, HwRec, Goto, Finish, Published, SetEnded
  <2>c. c' = c
    BY <1>2 DEF SetSender, Goto, ReplyNow
  <2>f. files' = files
    BY <1>2, <1>t DEF SetSender
  <2>x. asked' = asked /\ pressed' = pressed /\ spent'.sessions = spent.sessions
    BY <1>2, <1>t, Spent DEF SetSender, Fault
  <2>s. Standing = d.prev /\ Standing' = d.prev
    BY <1>2, <2>d, <1>b DEF Standing, Changing
  <2>1. Staged'
    BY <1>2, <2>d, <2>c, <2>f, <2>x, <2>s, <1>n, <1>b DEF Numerals, Staged
  <2>2. Ordered'
    BY <1>2, <2>d, <2>c, <2>f, <2>x, <2>s, <1>n, <1>b DEF Numerals, Ordered, Numbered, Slid, Staged
  <2>3. Beliefs'
    BY <1>2, <2>d, <2>c, <2>f, <2>x, <2>s, <1>n, <1>b DEF Numerals, Beliefs, Believed
  <2>4. Durable'
    <3> SUFFICES ASSUME Relied' PROVE Recorded' /\ (d'.up => Matches')
      BY DEF Durable
    <3>1. Recorded /\ (Saved = SessionRecord(d.s))
      BY <1>2, <2>d, <2>c, <2>f, <2>x, <2>s, <1>n, <1>b, <1>m DEF Relied
    <3>2. Recorded'
      BY <1>2, <2>d, <2>c, <2>f, <2>x, <2>s, <1>n, <1>b, <3>1 DEF Numerals, Levels, None,
         Recorded, Session, Ended, Saved, Numbered, Slid, Taken, Staged, Ordered, Owned,
         SessionRecord
    <3>3. Matches'
      BY SMTT(60), <1>2, <2>d, <2>c, <2>f, <2>x, <2>s, <1>n, <1>b, <3>1 DEF Numerals, None, Matches,
         Written, Saved, Session, Ended, Staged, Ordered, Numbered, Slid, SessionRecord
    <3> QED
      BY <3>2, <3>3
  <2>5. Owned'
    BY <1>2, <2>d, <2>c, <2>f, <2>x, <2>s, <1>n, <1>b DEF Numerals, Owned, Taken, Staged
  <2>6. Heard'
    BY <1>2, <2>d, <2>c, <2>f, <2>x, <2>s, <1>n, <1>b DEF Numerals, Heard, Taken, LevelOf, Staged,
       Ordered, Numbered, Slid
  <2>7. Claimed'
    BY <1>2, <2>d, <2>c, <2>f, <2>x, <2>s, <1>n, <1>b DEF Numerals, Claimed, None, Beliefs,
       Believed, Claim, Playable, Current, Session, Saved, Staged, Ordered, Numbered, Slid
  <2>8. Pressed'
    BY SMTT(60), <1>2, <2>d, <2>c, <2>f, <2>x, <2>s, <1>n, <1>b, <1>m DEF Numerals, Levels, None, Pressed,
       Overrides, Session, Saved, Ended, Relied, Staged, Ordered, Numbered, Slid, SessionRecord
  <2> QED
    BY <2>1, <2>2, <2>3, <2>4, <2>5, <2>6, <2>7, <2>8 DEF Sound
<1> QED
  BY Zenon, <1>1, <1>2 DEF SetSender

(* The session before the failed callback gets its record back, and where the *)
(* undo may fail no death of audiod follows.                                *)
LEMMA UndoSenderKeeps ==
  ASSUME VolumeType, VolumeType', Sound, Undoable, UNCHANGED setup, UndoSender
  PROVE  Sound'
<1>t. VolumeType /\ VolumeType' /\ setup' = setup
  OBVIOUS
<1>n. Numerals /\ setup' = setup
  BY Numbers
<1>b. /\ d.up /\ d.op = "undoV"
      /\ Undoable /\ Staged /\ Ordered /\ Beliefs /\ Durable /\ Owned /\ Heard /\ Claimed /\ Pressed
  BY DEF Sound, UndoSender, At, Serving, Ready, VolumeType, Aimed
<1>m. Relied => Recorded /\ (Session /\ Saved[2].sess >= d.newest /\ (Saved[2].sess = d.newest => ~d.ended))
  BY <1>b DEF Durable, Matches
<1>1. CASE SaveRecord(IF d.s.sess # 0 THEN SessionRecord(d.s) ELSE None) /\ UNCHANGED spent
  <2>d. /\ (d'.up <=> d.up) /\ d'.s = d.s /\ d'.prev = d.prev /\ d'.newest = d.newest
        /\ (d'.ended <=> d.ended) /\ (d'.pending <=> d.pending) /\ (d'.publish <=> d.publish)
        /\ d'.volume = d.volume /\ d'.requested = d.requested /\ d'.op = "idle" /\ d'.target = d.target
        /\ d'.from = "none"
    BY <1>1, <1>t DEF UndoSender, VolumeType, HwRec, Goto, Finish, Published, SetEnded
  <2>c. /\ (c'.up <=> c.up) /\ (c'.enabled <=> c.enabled) /\ c'.m = c.m /\ c'.v = c.v /\ c'.level = c.level
        /\ c'.sess = c.sess /\ c'.confirmed = c.confirmed /\ c'.pc \in {c.pc, "idle"}
    BY Zenon, <1>1, <1>t, AnswerTo DEF UndoSender, Finish, VolumeType
  <2>f. /\ files'.master = files.master
        /\ files'.record = IF d.s.sess # 0 THEN SessionRecord(d.s) ELSE None
        /\ files'.marker = files.marker /\ files'.cb = files.cb /\ files'.db = files.db
        /\ files'.ack = files.ack /\ files'.left = files.left
    BY <1>1, <1>t DEF UndoSender, VolumeType, FilesRec, SaveRecord, Publish, Revoke
  <2>x. asked' = asked /\ pressed' = pressed /\ spent' = spent
    BY <1>1, <1>t, Spent DEF UndoSender, Fault
  <2>s. Standing = d.s /\ Standing' = d.s
    BY <1>1, <2>d, <1>b DEF Standing, Changing
  <2>1. Staged'
    BY <1>1, <2>d, <2>c, <2>f, <2>x, <2>s, <1>n, <1>b DEF Numerals, Staged
  <2>2. Ordered'
    BY <1>1, <2>d, <2>c, <2>f, <2>x, <2>s, <1>n, <1>b DEF Numerals, Ordered, Numbered, Slid, Staged
  <2>3. Beliefs'
    BY <1>1, <2>d, <2>c, <2>f, <2>x, <2>s, <1>n, <1>b DEF Numerals, Beliefs, Believed
  <2>4. Durable'
    <3> SUFFICES ASSUME Relied' PROVE Recorded' /\ (d'.up => Matches')
      BY DEF Durable
    <3>1. Recorded /\ (Session /\ Saved[2].sess >= d.newest /\ (Saved[2].sess = d.newest => ~d.ended))
      BY <1>1, <2>d, <2>c, <2>f, <2>x, <2>s, <1>n, <1>b, <1>m DEF Relied
    <3>2. Recorded'
      BY <1>1, <2>d, <2>c, <2>f, <2>x, <2>s, <1>n, <1>b, <3>1 DEF Numerals, Levels, None,
         Recorded, Session, Ended, Saved, Numbered, Slid, Taken, Staged, Ordered, Owned,
         SessionRecord
    <3>3. Matches'
      <4>1. Standing'.sess # 0 => Saved' = SessionRecord(Standing)'
        BY <1>1, <2>d, <2>c, <2>f, <2>x, <2>s, <1>n, <1>b, <3>1 DEF Numerals, None, Matches,
           Written, Saved, Session, Ended, Staged, Ordered, Numbered, Slid, SessionRecord,
           Recorded
      <4>2. d'.pending => Saved' = EndedRecord(d.newest, d.s.base, TRUE)'
        BY <1>1, <2>d, <2>c, <2>f, <2>x, <2>s, <1>n, <1>b, <3>1 DEF Numerals, None, Matches,
           Written, Saved, Session, Ended, Staged, Ordered, Numbered, Slid, SessionRecord,
           Recorded
      <4>3. Standing'.sess = 0 /\ ~d'.pending =>
           \/ Ended' /\ ~Saved'[4] /\ Saved'[2] = d'.newest /\ d'.ended
           \/ Saved' = None /\ (d'.ended => d'.newest < spent'.sessions)
        BY SMTT(60), <1>1, <2>d, <2>c, <2>f, <2>x, <2>s, <1>n, <1>b, <3>1 DEF Numerals, None, Matches,
           Written, Saved, Session, Ended, Staged, Ordered, Numbered, Slid, SessionRecord,
           Recorded
      <4>4. d'.op \notin {"setV", "setO", "undoV", "undoO"}
        BY <1>1, <2>d, <2>c, <2>f, <2>x, <2>s, <1>n, <1>b, <3>1 DEF Numerals, None, Matches,
           Written, Saved, Session, Ended, Staged, Ordered, Numbered, Slid, SessionRecord,
           Recorded
      <4> QED
        BY Zenon, <4>1, <4>2, <4>3, <4>4 DEF Matches, Written
    <3> QED
      BY <3>2, <3>3
  <2>5. Owned'
    BY <1>1, <2>d, <2>c, <2>f, <2>x, <2>s, <1>n, <1>b DEF Numerals, Owned, Taken, Staged
  <2>6. Heard'
    BY <1>1, <2>d, <2>c, <2>f, <2>x, <2>s, <1>n, <1>b DEF Numerals, Heard, Taken, LevelOf, Staged,
       Ordered, Numbered, Slid
  <2>7. Claimed'
    BY SMTT(60), <1>1, <2>d, <2>c, <2>f, <2>x, <2>s, <1>n, <1>b DEF Numerals, Claimed, None, Beliefs,
       Believed, Claim, Playable, Current, Session, Saved, Staged, Ordered, Numbered, Slid
  <2>8. Pressed'
    BY SMTT(60), <1>1, <2>d, <2>c, <2>f, <2>x, <2>s, <1>n, <1>b, <1>m DEF Numerals, Levels, None, Pressed,
       Overrides, Session, Saved, Ended, Relied, Staged, Ordered, Numbered, Slid, SessionRecord
  <2> QED
    BY <2>1, <2>2, <2>3, <2>4, <2>5, <2>6, <2>7, <2>8 DEF Sound
<1>2. CASE setup.undoFails /\ Fault /\ UNCHANGED files
  <2>d. /\ (d'.up <=> d.up) /\ d'.s = d.s /\ d'.prev = d.prev /\ d'.newest = d.newest
        /\ (d'.ended <=> d.ended) /\ (d'.pending <=> d.pending) /\ (d'.publish <=> d.publish)
        /\ d'.volume = d.volume /\ d'.requested = d.requested /\ d'.op = "idle" /\ d'.target = d.target
        /\ d'.from = "none"
    BY <1>2, <1>t DEF UndoSender, VolumeType, HwRec, Goto, Finish, Published, SetEnded
  <2>c. /\ (c'.up <=> c.up) /\ (c'.enabled <=> c.enabled) /\ c'.m = c.m /\ c'.v = c.v /\ c'.level = c.level
        /\ c'.sess = c.sess /\ c'.confirmed = c.confirmed /\ c'.pc \in {c.pc, "idle"}
    BY Zenon, <1>2, <1>t, AnswerTo DEF UndoSender, Finish, VolumeType
  <2>f. files' = files
    BY <1>2, <1>t DEF UndoSender
  <2>x. asked' = asked /\ pressed' = pressed /\ spent'.sessions = spent.sessions
    BY <1>2, <1>t, Spent DEF UndoSender, Fault
  <2>s. Standing = d.s /\ Standing' = d.s
    BY <1>2, <2>d, <1>b DEF Standing, Changing
  <2>1. Staged'
    BY <1>2, <2>d, <2>c, <2>f, <2>x, <2>s, <1>n, <1>b DEF Numerals, Staged
  <2>2. Ordered'
    BY <1>2, <2>d, <2>c, <2>f, <2>x, <2>s, <1>n, <1>b DEF Numerals, Ordered, Numbered, Slid, Staged
  <2>3. Beliefs'
    BY <1>2, <2>d, <2>c, <2>f, <2>x, <2>s, <1>n, <1>b DEF Numerals, Beliefs, Believed
  <2>4. Durable'
    <3> SUFFICES ASSUME Relied' PROVE Recorded' /\ (d'.up => Matches')
      BY DEF Durable
    <3>1. Recorded /\ (Session /\ Saved[2].sess >= d.newest /\ (Saved[2].sess = d.newest => ~d.ended))
      BY <1>2, <2>d, <2>c, <2>f, <2>x, <2>s, <1>n, <1>b, <1>m DEF Relied
    <3>2. Recorded'
      BY <1>2, <2>d, <2>c, <2>f, <2>x, <2>s, <1>n, <1>b, <3>1 DEF Numerals, Levels, None,
         Recorded, Session, Ended, Saved, Numbered, Slid, Taken, Staged, Ordered, Owned, Relied
    <3>3. Matches'
      BY Zenon, <1>2, <2>d, <2>c, <2>f, <2>x, <2>s, <1>n, <1>b, <3>1 DEF Numerals, None, Matches,
         Written, Saved, Session, Ended, Staged, Ordered, Numbered, Slid, Relied
    <3> QED
      BY <3>2, <3>3
  <2>5. Owned'
    BY <1>2, <2>d, <2>c, <2>f, <2>x, <2>s, <1>n, <1>b DEF Numerals, Owned, Taken, Staged
  <2>6. Heard'
    BY <1>2, <2>d, <2>c, <2>f, <2>x, <2>s, <1>n, <1>b DEF Numerals, Heard, Taken, LevelOf, Staged,
       Ordered, Numbered, Slid
  <2>7. Claimed'
    BY SMTT(60), <1>2, <2>d, <2>c, <2>f, <2>x, <2>s, <1>n, <1>b DEF Numerals, Claimed, None, Beliefs,
       Believed, Claim, Playable, Current, Session, Saved, Staged, Ordered, Numbered, Slid
  <2>8. Pressed'
    BY <1>2, <2>d, <2>c, <2>f, <2>x, <2>s, <1>n, <1>b, <1>m DEF Numerals, Levels, None, Pressed,
       Overrides, Session, Saved, Ended, Relied, Staged, Ordered, Numbered, Slid
  <2> QED
    BY <2>1, <2>2, <2>3, <2>4, <2>5, <2>6, <2>7, <2>8 DEF Sound
<1> QED
  BY <1>1, <1>2 DEF UndoSender

(* From here the owner's choice may rightly be found restored.              *)
LEMMA SaveOwnerKeeps ==
  ASSUME VolumeType, VolumeType', Sound, Undoable, UNCHANGED setup, SaveOwner
  PROVE  Sound'
<1>t. VolumeType /\ VolumeType' /\ setup' = setup
  OBVIOUS
<1>n. Numerals /\ setup' = setup
  BY Numbers
<1>b. /\ d.up /\ d.op = "saveO" /\ d.s.sess # 0
      /\ Undoable /\ Staged /\ Ordered /\ Beliefs /\ Durable /\ Owned /\ Heard /\ Claimed /\ Pressed
  BY DEF Sound, SaveOwner, At, Serving, Ready, VolumeType, Aimed
<1>m. Relied => Recorded /\ Written
  BY <1>b DEF Durable, Matches
<1>1. CASE SaveRecord(SessionRecord(d.s)) /\ Goto(d, "setO") /\ asked' = asked \union {d.s.base} /\ UNCHANGED spent
  <2>d. /\ (d'.up <=> d.up) /\ d'.s = d.s /\ d'.prev = d.prev /\ d'.newest = d.newest
        /\ (d'.ended <=> d.ended) /\ (d'.pending <=> d.pending) /\ (d'.publish <=> d.publish)
        /\ d'.volume = d.volume /\ d'.requested = d.requested /\ d'.op = "setO" /\ d'.target = d.target
        /\ d'.from = d.from
    BY <1>1, <1>t DEF SaveOwner, VolumeType, HwRec, Goto, Finish, Published, SetEnded
  <2>c. c' = c
    BY <1>1 DEF SaveOwner, Goto, ReplyNow
  <2>f. /\ files'.master = files.master /\ files'.record = SessionRecord(d.s)
        /\ files'.marker = files.marker /\ files'.cb = files.cb /\ files'.db = files.db
        /\ files'.ack = files.ack /\ files'.left = files.left
    BY <1>1, <1>t DEF SaveOwner, VolumeType, FilesRec, SaveRecord, Publish, Revoke
  <2>x. asked' = asked \union {d.s.base} /\ pressed' = pressed /\ spent' = spent
    BY <1>1, <1>t, Spent DEF SaveOwner, Fault
  <2>s. Standing = d.prev /\ Standing' = d.prev
    BY <1>1, <2>d, <1>b DEF Standing, Changing
  <2>1. Staged'
    BY <1>1, <2>d, <2>c, <2>f, <2>x, <2>s, <1>n, <1>b DEF Numerals, Staged
  <2>2. Ordered'
    BY <1>1, <2>d, <2>c, <2>f, <2>x, <2>s, <1>n, <1>b DEF Numerals, Ordered, Numbered, Slid, Staged
  <2>3. Beliefs'
    BY <1>1, <2>d, <2>c, <2>f, <2>x, <2>s, <1>n, <1>b DEF Numerals, Beliefs, Believed
  <2>4. Durable'
    <3> SUFFICES ASSUME Relied' PROVE Recorded' /\ (d'.up => Matches')
      BY DEF Durable
    <3>1. Recorded /\ Written
      BY <1>1, <2>d, <2>c, <2>f, <2>x, <2>s, <1>n, <1>b, <1>m DEF Relied
    <3>2. Recorded'
      BY <1>1, <2>d, <2>c, <2>f, <2>x, <2>s, <1>n, <1>b, <3>1 DEF Numerals, Levels, None,
         Recorded, Session, Ended, Saved, Numbered, Slid, Taken, Staged, Ordered, Owned,
         SessionRecord
    <3>3. Matches'
      BY <1>1, <2>d, <2>c, <2>f, <2>x, <2>s, <1>n, <1>b, <3>1 DEF Numerals, None, Matches,
         Written, Saved, Session, Ended, Staged, Ordered, Numbered, Slid, SessionRecord
    <3> QED
      BY <3>2, <3>3
  <2>5. Owned'
    BY <1>1, <2>d, <2>c, <2>f, <2>x, <2>s, <1>n, <1>b DEF Numerals, Owned, Taken, Staged
  <2>6. Heard'
    BY <1>1, <2>d, <2>c, <2>f, <2>x, <2>s, <1>n, <1>b DEF Numerals, Heard, Taken, LevelOf, Staged,
       Ordered, Numbered, Slid
  <2>7. Claimed'
    BY <1>1, <2>d, <2>c, <2>f, <2>x, <2>s, <1>n, <1>b DEF Numerals, Claimed, None, Beliefs,
       Believed, Claim, Playable, Current, Session, Saved, Staged, Ordered, Numbered, Slid
  <2>8. Pressed'
    BY <1>1, <2>d, <2>c, <2>f, <2>x, <2>s, <1>n, <1>b, <1>m DEF Numerals, Levels, None, Pressed,
       Overrides, Session, Saved, Ended, Relied, Staged, Ordered, Numbered, Slid, SessionRecord
  <2> QED
    BY <2>1, <2>2, <2>3, <2>4, <2>5, <2>6, <2>7, <2>8 DEF Sound
<1>2. CASE Fault /\ Finish([d EXCEPT !.s = d.prev], FALSE) /\ UNCHANGED <<files, asked>>
  <2>d. /\ (d'.up <=> d.up) /\ d'.s = d.prev /\ d'.prev = d.prev /\ d'.newest = d.newest
        /\ (d'.ended <=> d.ended) /\ (d'.pending <=> d.pending) /\ (d'.publish <=> d.publish)
        /\ d'.volume = d.volume /\ d'.requested = d.requested /\ d'.op = "idle" /\ d'.target = d.target
        /\ d'.from = "none"
    BY <1>2, <1>t DEF SaveOwner, VolumeType, HwRec, Goto, Finish, Published, SetEnded
  <2>c. /\ (c'.up <=> c.up) /\ (c'.enabled <=> c.enabled) /\ c'.m = c.m /\ c'.v = c.v /\ c'.level = c.level
        /\ c'.sess = c.sess /\ c'.confirmed = c.confirmed /\ c'.pc \in {c.pc, "idle"}
    BY Zenon, <1>2, <1>t, AnswerTo DEF SaveOwner, Finish, VolumeType
  <2>f. files' = files
    BY <1>2, <1>t DEF SaveOwner
  <2>x. asked' = asked /\ pressed' = pressed /\ spent'.sessions = spent.sessions
    BY <1>2, <1>t, Spent DEF SaveOwner, Fault
  <2>s. Standing = d.prev /\ Standing' = d.prev
    BY <1>2, <2>d, <1>b DEF Standing, Changing
  <2>1. Staged'
    BY <1>2, <2>d, <2>c, <2>f, <2>x, <2>s, <1>n, <1>b DEF Numerals, Staged
  <2>2. Ordered'
    BY <1>2, <2>d, <2>c, <2>f, <2>x, <2>s, <1>n, <1>b DEF Numerals, Ordered, Numbered, Slid, Staged
  <2>3. Beliefs'
    BY <1>2, <2>d, <2>c, <2>f, <2>x, <2>s, <1>n, <1>b DEF Numerals, Beliefs, Believed
  <2>4. Durable'
    <3> SUFFICES ASSUME Relied' PROVE Recorded' /\ (d'.up => Matches')
      BY DEF Durable
    <3>1. Recorded /\ Written
      BY <1>2, <2>d, <2>c, <2>f, <2>x, <2>s, <1>n, <1>b, <1>m DEF Relied
    <3>2. Recorded'
      BY <1>2, <2>d, <2>c, <2>f, <2>x, <2>s, <1>n, <1>b, <3>1 DEF Numerals, Levels, None,
         Recorded, Session, Ended, Saved, Numbered, Slid, Taken, Staged, Ordered, Owned
    <3>3. Matches'
      BY ZenonT(60), <1>2, <2>d, <2>c, <2>f, <2>x, <2>s, <1>n, <1>b, <3>1 DEF Numerals, None, Matches,
         Written, Saved, Session, Ended, Staged, Ordered, Numbered, Slid
    <3> QED
      BY <3>2, <3>3
  <2>5. Owned'
    BY <1>2, <2>d, <2>c, <2>f, <2>x, <2>s, <1>n, <1>b DEF Numerals, Owned, Taken, Staged
  <2>6. Heard'
    BY <1>2, <2>d, <2>c, <2>f, <2>x, <2>s, <1>n, <1>b DEF Numerals, Heard, Taken, LevelOf, Staged,
       Ordered, Numbered, Slid
  <2>7. Claimed'
    BY SMTT(60), <1>2, <2>d, <2>c, <2>f, <2>x, <2>s, <1>n, <1>b DEF Numerals, Claimed, None, Beliefs,
       Believed, Claim, Playable, Current, Session, Saved, Staged, Ordered, Numbered, Slid
  <2>8. Pressed'
    BY SMTT(60), <1>2, <2>d, <2>c, <2>f, <2>x, <2>s, <1>n, <1>b, <1>m DEF Numerals, Levels, None, Pressed,
       Overrides, Session, Saved, Ended, Relied, Staged, Ordered, Numbered, Slid
  <2> QED
    BY <2>1, <2>2, <2>3, <2>4, <2>5, <2>6, <2>7, <2>8 DEF Sound
<1> QED
  BY Zenon, <1>1, <1>2 DEF SaveOwner

(* The owner's choice is heard, in a session or without one.                *)
LEMMA SetOwnerKeeps ==
  ASSUME VolumeType, VolumeType', Sound, Undoable, UNCHANGED setup, SetOwner
  PROVE  Sound'
<1>t. VolumeType /\ VolumeType' /\ setup' = setup
  OBVIOUS
<1>n. Numerals /\ setup' = setup
  BY Numbers
<1>b. /\ d.up /\ d.op = "setO" /\ (d.s.sess # 0 \/ d.target \in Levels)
      /\ Undoable /\ Staged /\ Ordered /\ Beliefs /\ Durable /\ Owned /\ Heard /\ Claimed /\ Pressed
  BY DEF Sound, SetOwner, At, Serving, Ready, VolumeType, Aimed
<1>m. Relied => Recorded /\ (IF d.s.sess # 0 THEN Saved = SessionRecord(d.s) ELSE Written)
  BY <1>b DEF Durable, Matches
<1>1. CASE d.s.sess # 0 /\ Publish(d.s.base) /\ Finish(Published(d.s.base), TRUE)
        /\ asked' = {d.s.base} /\ pressed' = <<d.s.sess, d.s.cb>> /\ UNCHANGED spent
  <2>d. /\ (d'.up <=> d.up) /\ d'.s = d.s /\ d'.prev = d.prev /\ d'.newest = d.newest
        /\ (d'.ended <=> d.ended) /\ (d'.pending <=> d.pending) /\ (d'.publish <=> FALSE)
        /\ d'.volume = d.s.base /\ d'.requested = d.s.base /\ d'.op = "idle" /\ d'.target = d.target
        /\ d'.from = "none"
    BY <1>1, <1>t DEF SetOwner, VolumeType, HwRec, Goto, Finish, Published, SetEnded
  <2>c. /\ (c'.up <=> c.up) /\ (c'.enabled <=> c.enabled) /\ c'.m = c.m /\ c'.v = c.v /\ c'.level = c.level
        /\ \/ c'.pc \in {c.pc, "idle"} /\ c'.sess = c.sess /\ c'.confirmed = c.confirmed
           \/ d.from = "airplayd" /\ c.pc = "call" /\ c'.pc = "status"
              /\ c'.sess = c.sess /\ c'.confirmed = <<c.m, c.v>>
           \/ d.from = "airplayd" /\ c.pc = "end" /\ c'.pc = "idle" /\ c'.sess = 0 /\ c'.confirmed = None
    BY Zenon, <1>1, <1>t, Accepted DEF SetOwner, Finish, VolumeType
  <2>f. /\ files'.master = d.s.base /\ files'.record = files.record /\ files'.marker = files.marker
        /\ files'.cb = files.cb /\ files'.db = files.db /\ files'.ack = files.ack
        /\ files'.left = files.left
    BY <1>1, <1>t DEF SetOwner, VolumeType, FilesRec, SaveRecord, Publish, Revoke
  <2>x. asked' = {d.s.base} /\ pressed' = <<d.s.sess, d.s.cb>> /\ spent' = spent
    BY <1>1, <1>t, Spent DEF SetOwner, Fault
  <2>s. Standing = d.prev /\ Standing' = d.s
    BY <1>1, <2>d, <1>b DEF Standing, Changing
  <2>v. files'.master \in 0..100 /\ files'.master >= 0
    <3>1. d.s.base \in 0..100
      BY <1>1, <1>n, <1>b DEF Numerals, Levels
    <3>2. files'.master \in 0..100
      BY <3>1, <2>f
    <3> QED
      BY <3>2
  <2>1. Staged'
    BY <1>1, <2>d, <2>c, <2>f, <2>x, <2>s, <1>n, <1>b, <2>v DEF Numerals, Staged
  <2>2. Ordered'
    BY <1>1, <2>d, <2>c, <2>f, <2>x, <2>s, <1>n, <1>b, <2>v DEF Numerals, Ordered, Numbered, Slid,
       Staged
  <2>3. Beliefs'
    BY <1>1, <2>d, <2>c, <2>f, <2>x, <2>s, <1>n, <1>b, <2>v DEF Numerals, Beliefs, Believed
  <2>4. Durable'
    <3> SUFFICES ASSUME Relied' PROVE Recorded' /\ (d'.up => Matches')
      BY DEF Durable
    <3>1. Recorded /\ (Saved = SessionRecord(d.s))
      BY <1>1, <2>d, <2>c, <2>f, <2>x, <2>s, <1>n, <1>b, <2>v, <1>m DEF Relied
    <3>2. Recorded'
      BY <1>1, <2>d, <2>c, <2>f, <2>x, <2>s, <1>n, <1>b, <2>v, <3>1 DEF Numerals, Levels, None,
         Recorded, Session, Ended, Saved, Numbered, Slid, Taken, Staged, Ordered, Owned,
         SessionRecord
    <3>3. Matches'
      BY ZenonT(60), <1>1, <2>d, <2>c, <2>f, <2>x, <2>s, <1>n, <1>b, <2>v, <3>1 DEF Numerals, None, Matches,
         Written, Saved, Session, Ended, Staged, Ordered, Numbered, Slid, SessionRecord
    <3> QED
      BY <3>2, <3>3
  <2>5. Owned'
    BY <1>1, <2>d, <2>c, <2>f, <2>x, <2>s, <1>n, <1>b, <2>v DEF Numerals, Owned, Taken, Staged
  <2>6. Heard'
    BY <1>1, <2>d, <2>c, <2>f, <2>x, <2>s, <1>n, <1>b, <2>v DEF Numerals, Heard, Taken, LevelOf,
       Staged, Ordered, Numbered, Slid
  <2>7. Claimed'
    BY SMTT(60), <1>1, <2>d, <2>c, <2>f, <2>x, <2>s, <1>n, <1>b, <2>v DEF Numerals, Claimed, None, Beliefs,
       Believed, Claim, Playable, Current, Session, Saved, Staged, Ordered, Numbered, Slid
  <2>8. Pressed'
    BY SMTT(60), <1>1, <2>d, <2>c, <2>f, <2>x, <2>s, <1>n, <1>b, <2>v, <1>m DEF Numerals, Levels, None,
       Pressed, Overrides, Session, Saved, Ended, Relied, Staged, Ordered, Numbered, Slid,
       SessionRecord
  <2> QED
    BY <2>1, <2>2, <2>3, <2>4, <2>5, <2>6, <2>7, <2>8 DEF Sound
<1>2. CASE d.s.sess = 0 /\ Publish(d.target) /\ Finish(Published(d.target), TRUE)
        /\ asked' = {d.target} /\ pressed' = None /\ UNCHANGED spent
  <2>d. /\ (d'.up <=> d.up) /\ d'.s = d.s /\ d'.prev = d.prev /\ d'.newest = d.newest
        /\ (d'.ended <=> d.ended) /\ (d'.pending <=> d.pending) /\ (d'.publish <=> FALSE)
        /\ d'.volume = d.target /\ d'.requested = d.target /\ d'.op = "idle" /\ d'.target = d.target
        /\ d'.from = "none"
    BY <1>2, <1>t DEF SetOwner, VolumeType, HwRec, Goto, Finish, Published, SetEnded
  <2>c. /\ (c'.up <=> c.up) /\ (c'.enabled <=> c.enabled) /\ c'.m = c.m /\ c'.v = c.v /\ c'.level = c.level
        /\ \/ c'.pc \in {c.pc, "idle"} /\ c'.sess = c.sess /\ c'.confirmed = c.confirmed
           \/ d.from = "airplayd" /\ c.pc = "call" /\ c'.pc = "status"
              /\ c'.sess = c.sess /\ c'.confirmed = <<c.m, c.v>>
           \/ d.from = "airplayd" /\ c.pc = "end" /\ c'.pc = "idle" /\ c'.sess = 0 /\ c'.confirmed = None
    BY Zenon, <1>2, <1>t, Accepted DEF SetOwner, Finish, VolumeType
  <2>f. /\ files'.master = d.target /\ files'.record = files.record /\ files'.marker = files.marker
        /\ files'.cb = files.cb /\ files'.db = files.db /\ files'.ack = files.ack
        /\ files'.left = files.left
    BY <1>2, <1>t DEF SetOwner, VolumeType, FilesRec, SaveRecord, Publish, Revoke
  <2>x. asked' = {d.target} /\ pressed' = None /\ spent' = spent
    BY <1>2, <1>t, Spent DEF SetOwner, Fault
  <2>s. Standing = d.s /\ Standing' = d.s
    BY <1>2, <2>d, <1>b DEF Standing, Changing
  <2>v. files'.master \in 0..100 /\ files'.master >= 0
    <3>1. d.target \in 0..100
      BY <1>2, <1>n, <1>b DEF Numerals, Levels
    <3>2. files'.master \in 0..100
      BY <3>1, <2>f
    <3> QED
      BY <3>2
  <2>1. Staged'
    BY <1>2, <2>d, <2>c, <2>f, <2>x, <2>s, <1>n, <1>b, <2>v DEF Numerals, Staged
  <2>2. Ordered'
    BY <1>2, <2>d, <2>c, <2>f, <2>x, <2>s, <1>n, <1>b, <2>v DEF Numerals, Ordered, Numbered, Slid,
       Staged
  <2>3. Beliefs'
    BY <1>2, <2>d, <2>c, <2>f, <2>x, <2>s, <1>n, <1>b, <2>v DEF Numerals, Beliefs, Believed
  <2>4. Durable'
    <3> SUFFICES ASSUME Relied' PROVE Recorded' /\ (d'.up => Matches')
      BY DEF Durable
    <3>1. Recorded /\ Written
      BY <1>2, <2>d, <2>c, <2>f, <2>x, <2>s, <1>n, <1>b, <2>v, <1>m DEF Relied
    <3>2. Recorded'
      BY SMTT(60), <1>2, <2>d, <2>c, <2>f, <2>x, <2>s, <1>n, <1>b, <2>v, <3>1 DEF Numerals, Levels, None,
         Recorded, Session, Ended, Saved, Numbered, Slid, Taken, Staged, Ordered, Owned, Written
    <3>3. Matches'
      <4>1. Standing'.sess # 0 => Saved' = SessionRecord(Standing)'
        BY <1>2, <2>d, <2>c, <2>f, <2>x, <2>s, <1>n, <1>b, <2>v, <3>1 DEF Numerals, None, Matches,
           Written, Saved, Session, Ended, Staged, Ordered, Numbered, Slid
      <4>2. d'.pending => Saved' = EndedRecord(d.newest, d.s.base, TRUE)'
        BY <1>2, <2>d, <2>c, <2>f, <2>x, <2>s, <1>n, <1>b, <2>v, <3>1 DEF Numerals, None, Matches,
           Written, Saved, Session, Ended, Staged, Ordered, Numbered, Slid
      <4>3. Standing'.sess = 0 /\ ~d'.pending =>
           \/ Ended' /\ ~Saved'[4] /\ Saved'[2] = d'.newest /\ d'.ended
           \/ Saved' = None /\ (d'.ended => d'.newest < spent'.sessions)
        BY <1>2, <2>d, <2>c, <2>f, <2>x, <2>s, <1>n, <1>b, <2>v, <3>1 DEF Numerals, None, Matches,
           Written, Saved, Session, Ended, Staged, Ordered, Numbered, Slid
      <4>4. d'.op \notin {"setV", "setO", "undoV", "undoO"}
        BY <1>2, <2>d, <2>c, <2>f, <2>x, <2>s, <1>n, <1>b, <2>v, <3>1 DEF Numerals, None, Matches,
           Written, Saved, Session, Ended, Staged, Ordered, Numbered, Slid
      <4> QED
        BY Zenon, <4>1, <4>2, <4>3, <4>4 DEF Matches, Written
    <3> QED
      BY <3>2, <3>3
  <2>5. Owned'
    BY <1>2, <2>d, <2>c, <2>f, <2>x, <2>s, <1>n, <1>b, <2>v DEF Numerals, Owned, Taken, Staged
  <2>6. Heard'
    BY <1>2, <2>d, <2>c, <2>f, <2>x, <2>s, <1>n, <1>b, <2>v DEF Numerals, Heard, Taken, LevelOf,
       Staged, Ordered, Numbered, Slid
  <2>7. Claimed'
    BY SMTT(60), <1>2, <2>d, <2>c, <2>f, <2>x, <2>s, <1>n, <1>b, <2>v DEF Numerals, Claimed, None, Beliefs,
       Believed, Claim, Playable, Current, Session, Saved, Staged, Ordered, Numbered, Slid
  <2>8. Pressed'
    BY <1>2, <2>d, <2>c, <2>f, <2>x, <2>s, <1>n, <1>b, <2>v, <1>m DEF Numerals, Levels, None,
       Pressed, Overrides, Session, Saved, Ended, Relied, Staged, Ordered, Numbered, Slid
  <2> QED
    BY <2>1, <2>2, <2>3, <2>4, <2>5, <2>6, <2>7, <2>8 DEF Sound
<1>3. CASE d.s.sess # 0 /\ Fault /\ Goto([d EXCEPT !.s = d.prev], "undoO") /\ UNCHANGED <<files, asked, pressed>>
  <2>d. /\ (d'.up <=> d.up) /\ d'.s = d.prev /\ d'.prev = d.prev /\ d'.newest = d.newest
        /\ (d'.ended <=> d.ended) /\ (d'.pending <=> d.pending) /\ (d'.publish <=> d.publish)
        /\ d'.volume = d.volume /\ d'.requested = d.requested /\ d'.op = "undoO"
        /\ d'.target = d.target /\ d'.from = d.from
    BY <1>3, <1>t DEF SetOwner, VolumeType, HwRec, Goto, Finish, Published, SetEnded
  <2>c. c' = c
    BY <1>3 DEF SetOwner, Goto, ReplyNow
  <2>f. files' = files
    BY <1>3, <1>t DEF SetOwner
  <2>x. asked' = asked /\ pressed' = pressed /\ spent'.sessions = spent.sessions
    BY <1>3, <1>t, Spent DEF SetOwner, Fault
  <2>s. Standing = d.prev /\ Standing' = d.prev
    BY <1>3, <2>d, <1>b DEF Standing, Changing
  <2>1. Staged'
    BY <1>3, <2>d, <2>c, <2>f, <2>x, <2>s, <1>n, <1>b DEF Numerals, Staged
  <2>2. Ordered'
    BY <1>3, <2>d, <2>c, <2>f, <2>x, <2>s, <1>n, <1>b DEF Numerals, Ordered, Numbered, Slid, Staged
  <2>3. Beliefs'
    BY <1>3, <2>d, <2>c, <2>f, <2>x, <2>s, <1>n, <1>b DEF Numerals, Beliefs, Believed
  <2>4. Durable'
    <3> SUFFICES ASSUME Relied' PROVE Recorded' /\ (d'.up => Matches')
      BY DEF Durable
    <3>1. Recorded /\ (Saved = SessionRecord(d.s))
      BY <1>3, <2>d, <2>c, <2>f, <2>x, <2>s, <1>n, <1>b, <1>m DEF Relied
    <3>2. Recorded'
      BY <1>3, <2>d, <2>c, <2>f, <2>x, <2>s, <1>n, <1>b, <3>1 DEF Numerals, Levels, None,
         Recorded, Session, Ended, Saved, Numbered, Slid, Taken, Staged, Ordered, Owned,
         SessionRecord
    <3>3. Matches'
      BY <1>3, <2>d, <2>c, <2>f, <2>x, <2>s, <1>n, <1>b, <3>1 DEF Numerals, None, Matches,
         Written, Saved, Session, Ended, Staged, Ordered, Numbered, Slid, SessionRecord
    <3> QED
      BY <3>2, <3>3
  <2>5. Owned'
    BY <1>3, <2>d, <2>c, <2>f, <2>x, <2>s, <1>n, <1>b DEF Numerals, Owned, Taken, Staged
  <2>6. Heard'
    BY <1>3, <2>d, <2>c, <2>f, <2>x, <2>s, <1>n, <1>b DEF Numerals, Heard, Taken, LevelOf, Staged,
       Ordered, Numbered, Slid
  <2>7. Claimed'
    BY <1>3, <2>d, <2>c, <2>f, <2>x, <2>s, <1>n, <1>b DEF Numerals, Claimed, None, Beliefs,
       Believed, Claim, Playable, Current, Session, Saved, Staged, Ordered, Numbered, Slid
  <2>8. Pressed'
    BY <1>3, <2>d, <2>c, <2>f, <2>x, <2>s, <1>n, <1>b, <1>m DEF Numerals, Levels, None, Pressed,
       Overrides, Session, Saved, Ended, Relied, Staged, Ordered, Numbered, Slid, SessionRecord
  <2> QED
    BY <2>1, <2>2, <2>3, <2>4, <2>5, <2>6, <2>7, <2>8 DEF Sound
<1>4. CASE d.s.sess = 0 /\ Fault /\ Finish(d, FALSE) /\ UNCHANGED <<files, asked, pressed>>
  <2>d. /\ (d'.up <=> d.up) /\ d'.s = d.s /\ d'.prev = d.prev /\ d'.newest = d.newest
        /\ (d'.ended <=> d.ended) /\ (d'.pending <=> d.pending) /\ (d'.publish <=> d.publish)
        /\ d'.volume = d.volume /\ d'.requested = d.requested /\ d'.op = "idle" /\ d'.target = d.target
        /\ d'.from = "none"
    BY <1>4, <1>t DEF SetOwner, VolumeType, HwRec, Goto, Finish, Published, SetEnded
  <2>c. /\ (c'.up <=> c.up) /\ (c'.enabled <=> c.enabled) /\ c'.m = c.m /\ c'.v = c.v /\ c'.level = c.level
        /\ c'.sess = c.sess /\ c'.confirmed = c.confirmed /\ c'.pc \in {c.pc, "idle"}
    BY Zenon, <1>4, <1>t, AnswerTo DEF SetOwner, Finish, VolumeType
  <2>f. files' = files
    BY <1>4, <1>t DEF SetOwner
  <2>x. asked' = asked /\ pressed' = pressed /\ spent'.sessions = spent.sessions
    BY <1>4, <1>t, Spent DEF SetOwner, Fault
  <2>s. Standing = d.s /\ Standing' = d.s
    BY <1>4, <2>d, <1>b DEF Standing, Changing
  <2>1. Staged'
    BY <1>4, <2>d, <2>c, <2>f, <2>x, <2>s, <1>n, <1>b DEF Numerals, Staged
  <2>2. Ordered'
    BY <1>4, <2>d, <2>c, <2>f, <2>x, <2>s, <1>n, <1>b DEF Numerals, Ordered, Numbered, Slid, Staged
  <2>3. Beliefs'
    BY <1>4, <2>d, <2>c, <2>f, <2>x, <2>s, <1>n, <1>b DEF Numerals, Beliefs, Believed
  <2>4. Durable'
    <3> SUFFICES ASSUME Relied' PROVE Recorded' /\ (d'.up => Matches')
      BY DEF Durable
    <3>1. Recorded /\ Written
      BY <1>4, <2>d, <2>c, <2>f, <2>x, <2>s, <1>n, <1>b, <1>m DEF Relied
    <3>2. Recorded'
      BY <1>4, <2>d, <2>c, <2>f, <2>x, <2>s, <1>n, <1>b, <3>1 DEF Numerals, Levels, None,
         Recorded, Session, Ended, Saved, Numbered, Slid, Taken, Staged, Ordered, Owned
    <3>3. Matches'
      <4>1. Standing'.sess # 0 => Saved' = SessionRecord(Standing)'
        BY <1>4, <2>d, <2>c, <2>f, <2>x, <2>s, <1>n, <1>b, <3>1 DEF Numerals, None, Matches,
           Written, Saved, Session, Ended, Staged, Ordered, Numbered, Slid
      <4>2. d'.pending => Saved' = EndedRecord(d.newest, d.s.base, TRUE)'
        BY <1>4, <2>d, <2>c, <2>f, <2>x, <2>s, <1>n, <1>b, <3>1 DEF Numerals, None, Matches,
           Written, Saved, Session, Ended, Staged, Ordered, Numbered, Slid
      <4>3. Standing'.sess = 0 /\ ~d'.pending =>
           \/ Ended' /\ ~Saved'[4] /\ Saved'[2] = d'.newest /\ d'.ended
           \/ Saved' = None /\ (d'.ended => d'.newest < spent'.sessions)
        BY <1>4, <2>d, <2>c, <2>f, <2>x, <2>s, <1>n, <1>b, <3>1 DEF Numerals, None, Matches,
           Written, Saved, Session, Ended, Staged, Ordered, Numbered, Slid
      <4>4. d'.op \notin {"setV", "setO", "undoV", "undoO"}
        BY <1>4, <2>d, <2>c, <2>f, <2>x, <2>s, <1>n, <1>b, <3>1 DEF Numerals, None, Matches,
           Written, Saved, Session, Ended, Staged, Ordered, Numbered, Slid
      <4> QED
        BY Zenon, <4>1, <4>2, <4>3, <4>4 DEF Matches, Written
    <3> QED
      BY <3>2, <3>3
  <2>5. Owned'
    BY <1>4, <2>d, <2>c, <2>f, <2>x, <2>s, <1>n, <1>b DEF Numerals, Owned, Taken, Staged
  <2>6. Heard'
    BY <1>4, <2>d, <2>c, <2>f, <2>x, <2>s, <1>n, <1>b DEF Numerals, Heard, Taken, LevelOf, Staged,
       Ordered, Numbered, Slid
  <2>7. Claimed'
    BY SMTT(60), <1>4, <2>d, <2>c, <2>f, <2>x, <2>s, <1>n, <1>b DEF Numerals, Claimed, None, Beliefs,
       Believed, Claim, Playable, Current, Session, Saved, Staged, Ordered, Numbered, Slid
  <2>8. Pressed'
    BY <1>4, <2>d, <2>c, <2>f, <2>x, <2>s, <1>n, <1>b, <1>m DEF Numerals, Levels, None, Pressed,
       Overrides, Session, Saved, Ended, Relied, Staged, Ordered, Numbered, Slid
  <2> QED
    BY <2>1, <2>2, <2>3, <2>4, <2>5, <2>6, <2>7, <2>8 DEF Sound
<1> QED
  BY ZenonT(60), <1>1, <1>2, <1>3, <1>4 DEF SetOwner

(* As for a callback, a failed choice leaves the session as it stood.       *)
LEMMA UndoOwnerKeeps ==
  ASSUME VolumeType, VolumeType', Sound, Undoable, UNCHANGED setup, UndoOwner
  PROVE  Sound'
<1>t. VolumeType /\ VolumeType' /\ setup' = setup
  OBVIOUS
<1>n. Numerals /\ setup' = setup
  BY Numbers
<1>b. /\ d.up /\ d.op = "undoO"
      /\ Undoable /\ Staged /\ Ordered /\ Beliefs /\ Durable /\ Owned /\ Heard /\ Claimed /\ Pressed
  BY DEF Sound, UndoOwner, At, Serving, Ready, VolumeType, Aimed
<1>m. Relied => Recorded /\ (Session /\ Saved[2].sess = d.s.sess /\ Saved[2].cb = d.s.cb)
  BY <1>b DEF Durable, Matches
<1>1. CASE SaveRecord(SessionRecord(d.s)) /\ asked' = asked \intersect {d.s.base} /\ UNCHANGED spent
  <2>d. /\ (d'.up <=> d.up) /\ d'.s = d.s /\ d'.prev = d.prev /\ d'.newest = d.newest
        /\ (d'.ended <=> d.ended) /\ (d'.pending <=> d.pending) /\ (d'.publish <=> d.publish)
        /\ d'.volume = d.volume /\ d'.requested = d.requested /\ d'.op = "idle" /\ d'.target = d.target
        /\ d'.from = "none"
    BY <1>1, <1>t DEF UndoOwner, VolumeType, HwRec, Goto, Finish, Published, SetEnded
  <2>c. /\ (c'.up <=> c.up) /\ (c'.enabled <=> c.enabled) /\ c'.m = c.m /\ c'.v = c.v /\ c'.level = c.level
        /\ c'.sess = c.sess /\ c'.confirmed = c.confirmed /\ c'.pc \in {c.pc, "idle"}
    BY Zenon, <1>1, <1>t, AnswerTo DEF UndoOwner, Finish, VolumeType
  <2>f. /\ files'.master = files.master /\ files'.record = SessionRecord(d.s)
        /\ files'.marker = files.marker /\ files'.cb = files.cb /\ files'.db = files.db
        /\ files'.ack = files.ack /\ files'.left = files.left
    BY <1>1, <1>t DEF UndoOwner, VolumeType, FilesRec, SaveRecord, Publish, Revoke
  <2>x. asked' = asked \intersect {d.s.base} /\ pressed' = pressed /\ spent' = spent
    BY <1>1, <1>t, Spent DEF UndoOwner, Fault
  <2>s. Standing = d.s /\ Standing' = d.s
    BY <1>1, <2>d, <1>b DEF Standing, Changing
  <2>1. Staged'
    BY <1>1, <2>d, <2>c, <2>f, <2>x, <2>s, <1>n, <1>b DEF Numerals, Staged
  <2>2. Ordered'
    BY <1>1, <2>d, <2>c, <2>f, <2>x, <2>s, <1>n, <1>b DEF Numerals, Ordered, Numbered, Slid, Staged
  <2>3. Beliefs'
    BY <1>1, <2>d, <2>c, <2>f, <2>x, <2>s, <1>n, <1>b DEF Numerals, Beliefs, Believed
  <2>4. Durable'
    <3> SUFFICES ASSUME Relied' PROVE Recorded' /\ (d'.up => Matches')
      BY DEF Durable
    <3>1. Recorded /\ (Session /\ Saved[2].sess = d.s.sess /\ Saved[2].cb = d.s.cb)
      BY <1>1, <2>d, <2>c, <2>f, <2>x, <2>s, <1>n, <1>b, <1>m DEF Relied
    <3>2. Recorded'
      BY <1>1, <2>d, <2>c, <2>f, <2>x, <2>s, <1>n, <1>b, <3>1 DEF Numerals, Levels, None,
         Recorded, Session, Ended, Saved, Numbered, Slid, Taken, Staged, Ordered, Owned,
         SessionRecord
    <3>3. Matches'
      BY Zenon, <1>1, <2>d, <2>c, <2>f, <2>x, <2>s, <1>n, <1>b, <3>1 DEF Numerals, None, Matches,
         Written, Saved, Session, Ended, Staged, Ordered, Numbered, Slid, SessionRecord
    <3> QED
      BY <3>2, <3>3
  <2>5. Owned'
    BY <1>1, <2>d, <2>c, <2>f, <2>x, <2>s, <1>n, <1>b DEF Numerals, Owned, Taken, Staged
  <2>6. Heard'
    BY <1>1, <2>d, <2>c, <2>f, <2>x, <2>s, <1>n, <1>b DEF Numerals, Heard, Taken, LevelOf, Staged,
       Ordered, Numbered, Slid
  <2>7. Claimed'
    BY <1>1, <2>d, <2>c, <2>f, <2>x, <2>s, <1>n, <1>b DEF Numerals, Claimed, None, Beliefs,
       Believed, Claim, Playable, Current, Session, Saved, Staged, Ordered, Numbered, Slid
  <2>8. Pressed'
    BY <1>1, <2>d, <2>c, <2>f, <2>x, <2>s, <1>n, <1>b, <1>m DEF Numerals, Levels, None, Pressed,
       Overrides, Session, Saved, Ended, Relied, Staged, Ordered, Numbered, Slid, SessionRecord
  <2> QED
    BY <2>1, <2>2, <2>3, <2>4, <2>5, <2>6, <2>7, <2>8 DEF Sound
<1>2. CASE setup.undoFails /\ Fault /\ UNCHANGED <<files, asked>>
  <2>d. /\ (d'.up <=> d.up) /\ d'.s = d.s /\ d'.prev = d.prev /\ d'.newest = d.newest
        /\ (d'.ended <=> d.ended) /\ (d'.pending <=> d.pending) /\ (d'.publish <=> d.publish)
        /\ d'.volume = d.volume /\ d'.requested = d.requested /\ d'.op = "idle" /\ d'.target = d.target
        /\ d'.from = "none"
    BY <1>2, <1>t DEF UndoOwner, VolumeType, HwRec, Goto, Finish, Published, SetEnded
  <2>c. /\ (c'.up <=> c.up) /\ (c'.enabled <=> c.enabled) /\ c'.m = c.m /\ c'.v = c.v /\ c'.level = c.level
        /\ c'.sess = c.sess /\ c'.confirmed = c.confirmed /\ c'.pc \in {c.pc, "idle"}
    BY Zenon, <1>2, <1>t, AnswerTo DEF UndoOwner, Finish, VolumeType
  <2>f. files' = files
    BY <1>2, <1>t DEF UndoOwner
  <2>x. asked' = asked /\ pressed' = pressed /\ spent'.sessions = spent.sessions
    BY <1>2, <1>t, Spent DEF UndoOwner, Fault
  <2>s. Standing = d.s /\ Standing' = d.s
    BY <1>2, <2>d, <1>b DEF Standing, Changing
  <2>1. Staged'
    BY <1>2, <2>d, <2>c, <2>f, <2>x, <2>s, <1>n, <1>b DEF Numerals, Staged
  <2>2. Ordered'
    BY <1>2, <2>d, <2>c, <2>f, <2>x, <2>s, <1>n, <1>b DEF Numerals, Ordered, Numbered, Slid, Staged
  <2>3. Beliefs'
    BY <1>2, <2>d, <2>c, <2>f, <2>x, <2>s, <1>n, <1>b DEF Numerals, Beliefs, Believed
  <2>4. Durable'
    <3> SUFFICES ASSUME Relied' PROVE Recorded' /\ (d'.up => Matches')
      BY DEF Durable
    <3>1. Recorded /\ (Session /\ Saved[2].sess = d.s.sess /\ Saved[2].cb = d.s.cb)
      BY <1>2, <2>d, <2>c, <2>f, <2>x, <2>s, <1>n, <1>b, <1>m DEF Relied
    <3>2. Recorded'
      BY <1>2, <2>d, <2>c, <2>f, <2>x, <2>s, <1>n, <1>b, <3>1 DEF Numerals, Levels, None,
         Recorded, Session, Ended, Saved, Numbered, Slid, Taken, Staged, Ordered, Owned, Relied
    <3>3. Matches'
      BY ZenonT(60), <1>2, <2>d, <2>c, <2>f, <2>x, <2>s, <1>n, <1>b, <3>1 DEF Numerals, None, Matches,
         Written, Saved, Session, Ended, Staged, Ordered, Numbered, Slid, Relied
    <3> QED
      BY <3>2, <3>3
  <2>5. Owned'
    BY <1>2, <2>d, <2>c, <2>f, <2>x, <2>s, <1>n, <1>b DEF Numerals, Owned, Taken, Staged
  <2>6. Heard'
    BY <1>2, <2>d, <2>c, <2>f, <2>x, <2>s, <1>n, <1>b DEF Numerals, Heard, Taken, LevelOf, Staged,
       Ordered, Numbered, Slid
  <2>7. Claimed'
    BY SMTT(60), <1>2, <2>d, <2>c, <2>f, <2>x, <2>s, <1>n, <1>b DEF Numerals, Claimed, None, Beliefs,
       Believed, Claim, Playable, Current, Session, Saved, Staged, Ordered, Numbered, Slid
  <2>8. Pressed'
    BY <1>2, <2>d, <2>c, <2>f, <2>x, <2>s, <1>n, <1>b, <1>m DEF Numerals, Levels, None, Pressed,
       Overrides, Session, Saved, Ended, Relied, Staged, Ordered, Numbered, Slid
  <2> QED
    BY <2>1, <2>2, <2>3, <2>4, <2>5, <2>6, <2>7, <2>8 DEF Sound
<1> QED
  BY <1>1, <1>2 DEF UndoOwner

(* From the tombstone on the baseline is owed, whoever dies.                *)
LEMMA TombstoneKeeps ==
  ASSUME VolumeType, VolumeType', Sound, Undoable, UNCHANGED setup, Tombstone
  PROVE  Sound'
<1>t. VolumeType /\ VolumeType' /\ setup' = setup
  OBVIOUS
<1>n. Numerals /\ setup' = setup
  BY Numbers
<1>b. /\ d.up /\ d.op = "tomb"
      /\ Undoable /\ Staged /\ Ordered /\ Beliefs /\ Durable /\ Owned /\ Heard /\ Claimed /\ Pressed
  BY DEF Sound, Tombstone, At, Serving, Ready, VolumeType, Aimed
<1>m. Relied => Recorded /\ Written
  BY SMTT(60), <1>b DEF Durable, Matches
<1>1. CASE SaveRecord(EndedRecord(d.target, d.s.base, TRUE)) /\ Goto(SetEnded(d, TRUE), "restore") /\ UNCHANGED spent
  <2>d. /\ (d'.up <=> d.up) /\ d'.s = [d.s EXCEPT !.sess = 0, !.cb = 0] /\ d'.prev = d.prev
        /\ d'.newest = d.target /\ (d'.ended <=> TRUE) /\ (d'.pending <=> TRUE)
        /\ (d'.publish <=> d.publish) /\ d'.volume = d.volume /\ d'.requested = d.requested
        /\ d'.op = "restore" /\ d'.target = d.target /\ d'.from = d.from
    BY <1>1, <1>t DEF Tombstone, VolumeType, HwRec, Goto, Finish, Published, SetEnded
  <2>c. c' = c
    BY <1>1 DEF Tombstone, Goto, ReplyNow
  <2>f. /\ files'.master = files.master /\ files'.record = EndedRecord(d.target, d.s.base, TRUE)
        /\ files'.marker = files.marker /\ files'.cb = files.cb /\ files'.db = files.db
        /\ files'.ack = files.ack /\ files'.left = files.left
    BY <1>1, <1>t DEF Tombstone, VolumeType, FilesRec, SaveRecord, Publish, Revoke
  <2>x. asked' = asked /\ pressed' = pressed /\ spent' = spent
    BY <1>1, <1>t, Spent DEF Tombstone, Fault
  <2>s. Standing = d.s /\ Standing' = [d.s EXCEPT !.sess = 0, !.cb = 0]
    BY <1>1, <2>d, <1>b DEF Standing, Changing
  <2>e. Standing'.sess = 0 /\ Standing'.cb = 0 /\ d'.s.sess = 0 /\ d'.s.cb = 0 /\ d'.s.base = d.s.base /\ d'.s = Standing'
    BY <2>d, <2>s, <1>t DEF VolumeType, HwRec, SessRec
  <2>1. Staged'
    BY <1>1, <2>d, <2>c, <2>f, <2>x, <2>s, <1>n, <1>b, <2>e DEF Numerals, Staged
  <2>2. Ordered'
    BY <1>1, <2>d, <2>c, <2>f, <2>x, <2>s, <1>n, <1>b, <2>e DEF Numerals, Ordered, Numbered, Slid,
       Staged
  <2>3. Beliefs'
    BY <1>1, <2>d, <2>c, <2>f, <2>x, <2>s, <1>n, <1>b, <2>e DEF Numerals, Beliefs, Believed
  <2>4. Durable'
    <3> SUFFICES ASSUME Relied' PROVE Recorded' /\ (d'.up => Matches')
      BY DEF Durable
    <3>1. Recorded /\ Written
      BY <1>1, <2>d, <2>c, <2>f, <2>x, <2>s, <1>n, <1>b, <2>e, <1>m DEF Relied
    <3>2. Recorded'
      BY <1>1, <2>d, <2>c, <2>f, <2>x, <2>s, <1>n, <1>b, <2>e, <3>1 DEF Numerals, Levels, None,
         Recorded, Session, Ended, Saved, Numbered, Slid, Taken, Staged, Ordered, Owned,
         EndedRecord
    <3>3. Matches'
      BY SMTT(60), <1>1, <2>d, <2>c, <2>f, <2>x, <2>s, <1>n, <1>b, <2>e, <3>1 DEF Numerals, None, Matches,
         Written, Saved, Session, Ended, Staged, Ordered, Numbered, Slid, EndedRecord
    <3> QED
      BY <3>2, <3>3
  <2>5. Owned'
    BY <1>1, <2>d, <2>c, <2>f, <2>x, <2>s, <1>n, <1>b, <2>e DEF Numerals, Owned, Taken, Staged
  <2>6. Heard'
    BY <1>1, <2>d, <2>c, <2>f, <2>x, <2>s, <1>n, <1>b, <2>e DEF Numerals, Heard, Taken, LevelOf,
       Staged, Ordered, Numbered, Slid
  <2>7. Claimed'
    <3>1. ~c'.enabled => ~Playable'
      BY <1>1, <2>d, <2>c, <2>f, <2>x, <2>s, <1>n, <1>b, <2>e DEF Numerals, Claimed, None,
         Beliefs, Believed, Claim, Playable, Current, Session, Saved, Staged, Ordered, Numbered,
         Slid
    <3>2. c'.pc = "end" /\ Playable' => c'.sess # files'.marker
      BY <1>1, <2>d, <2>c, <2>f, <2>x, <2>s, <1>n, <1>b, <2>e DEF Numerals, Claimed, None,
         Beliefs, Believed, Claim, Playable, Current, Session, Saved, Staged, Ordered, Numbered,
         Slid
    <3>3. d'.op = "tomb" /\ Playable' /\ d'.s.sess = files'.marker => ~Claim'
      BY <1>1, <2>d, <2>c, <2>f, <2>x, <2>s, <1>n, <1>b, <2>e DEF Numerals, Claimed, None,
         Beliefs, Believed, Claim, Playable, Current, Session, Saved, Staged, Ordered, Numbered,
         Slid
    <3>4. Playable' /\ Claim' => <<Standing'.sess, Standing'.cb>> = Current'
      BY <1>1, <2>d, <2>c, <2>f, <2>x, <2>s, <1>n, <1>b, <2>e DEF Numerals, Claimed, None,
         Beliefs, Believed, Claim, Playable, Current, Session, Saved, Staged, Ordered, Numbered,
         Slid
    <3>5. d'.up
      BY <1>1, <2>d, <2>c, <2>f, <2>x, <2>s, <1>n, <1>b, <2>e DEF Numerals, Claimed, None,
         Beliefs, Believed, Claim, Playable, Current, Session, Saved, Staged, Ordered, Numbered,
         Slid
    <3> QED
      BY <3>1, <3>2, <3>3, <3>4, <3>5 DEF Claimed
  <2>8. Pressed'
    BY SMTT(60), <1>1, <2>d, <2>c, <2>f, <2>x, <2>s, <1>n, <1>b, <2>e, <1>m DEF Numerals, Levels, None,
       Pressed, Overrides, Session, Saved, Ended, Relied, Staged, Ordered, Numbered, Slid,
       EndedRecord
  <2> QED
    BY <2>1, <2>2, <2>3, <2>4, <2>5, <2>6, <2>7, <2>8 DEF Sound
<1>2. CASE Fault /\ Finish(d, FALSE) /\ UNCHANGED files
  <2>d. /\ (d'.up <=> d.up) /\ d'.s = d.s /\ d'.prev = d.prev /\ d'.newest = d.newest
        /\ (d'.ended <=> d.ended) /\ (d'.pending <=> d.pending) /\ (d'.publish <=> d.publish)
        /\ d'.volume = d.volume /\ d'.requested = d.requested /\ d'.op = "idle" /\ d'.target = d.target
        /\ d'.from = "none"
    BY <1>2, <1>t DEF Tombstone, VolumeType, HwRec, Goto, Finish, Published, SetEnded
  <2>c. /\ (c'.up <=> c.up) /\ (c'.enabled <=> c.enabled) /\ c'.m = c.m /\ c'.v = c.v /\ c'.level = c.level
        /\ c'.sess = c.sess /\ c'.confirmed = c.confirmed /\ c'.pc \in {c.pc, "idle"}
    BY Zenon, <1>2, <1>t, AnswerTo DEF Tombstone, Finish, VolumeType
  <2>f. files' = files
    BY <1>2, <1>t DEF Tombstone
  <2>x. asked' = asked /\ pressed' = pressed /\ spent'.sessions = spent.sessions
    BY <1>2, <1>t, Spent DEF Tombstone, Fault
  <2>s. Standing = d.s /\ Standing' = d.s
    BY <1>2, <2>d, <1>b DEF Standing, Changing
  <2>1. Staged'
    BY <1>2, <2>d, <2>c, <2>f, <2>x, <2>s, <1>n, <1>b DEF Numerals, Staged
  <2>2. Ordered'
    BY <1>2, <2>d, <2>c, <2>f, <2>x, <2>s, <1>n, <1>b DEF Numerals, Ordered, Numbered, Slid, Staged
  <2>3. Beliefs'
    BY <1>2, <2>d, <2>c, <2>f, <2>x, <2>s, <1>n, <1>b DEF Numerals, Beliefs, Believed
  <2>4. Durable'
    <3> SUFFICES ASSUME Relied' PROVE Recorded' /\ (d'.up => Matches')
      BY DEF Durable
    <3>1. Recorded /\ Written
      BY <1>2, <2>d, <2>c, <2>f, <2>x, <2>s, <1>n, <1>b, <1>m DEF Relied
    <3>2. Recorded'
      BY <1>2, <2>d, <2>c, <2>f, <2>x, <2>s, <1>n, <1>b, <3>1 DEF Numerals, Levels, None,
         Recorded, Session, Ended, Saved, Numbered, Slid, Taken, Staged, Ordered, Owned
    <3>3. Matches'
      BY ZenonT(60), <1>2, <2>d, <2>c, <2>f, <2>x, <2>s, <1>n, <1>b, <3>1 DEF Numerals, None, Matches,
         Written, Saved, Session, Ended, Staged, Ordered, Numbered, Slid
    <3> QED
      BY <3>2, <3>3
  <2>5. Owned'
    BY <1>2, <2>d, <2>c, <2>f, <2>x, <2>s, <1>n, <1>b DEF Numerals, Owned, Taken, Staged
  <2>6. Heard'
    BY <1>2, <2>d, <2>c, <2>f, <2>x, <2>s, <1>n, <1>b DEF Numerals, Heard, Taken, LevelOf, Staged,
       Ordered, Numbered, Slid
  <2>7. Claimed'
    BY SMTT(60), <1>2, <2>d, <2>c, <2>f, <2>x, <2>s, <1>n, <1>b DEF Numerals, Claimed, None, Beliefs,
       Believed, Claim, Playable, Current, Session, Saved, Staged, Ordered, Numbered, Slid
  <2>8. Pressed'
    BY <1>2, <2>d, <2>c, <2>f, <2>x, <2>s, <1>n, <1>b, <1>m DEF Numerals, Levels, None, Pressed,
       Overrides, Session, Saved, Ended, Relied, Staged, Ordered, Numbered, Slid
  <2> QED
    BY <2>1, <2>2, <2>3, <2>4, <2>5, <2>6, <2>7, <2>8 DEF Sound
<1> QED
  BY Zenon, <1>1, <1>2 DEF Tombstone

(* The session ended had never been heard, so nothing is owed.              *)
LEMMA EndUnheardKeeps ==
  ASSUME VolumeType, VolumeType', Sound, Undoable, UNCHANGED setup, EndUnheard
  PROVE  Sound'
<1>t. VolumeType /\ VolumeType' /\ setup' = setup
  OBVIOUS
<1>n. Numerals /\ setup' = setup
  BY Numbers
<1>b. /\ d.up /\ d.op = "tomb0"
      /\ Undoable /\ Staged /\ Ordered /\ Beliefs /\ Durable /\ Owned /\ Heard /\ Claimed /\ Pressed
  BY DEF Sound, EndUnheard, At, Serving, Ready, VolumeType, Aimed
<1>m. Relied => Recorded /\ Written
  BY SMTT(60), <1>b DEF Durable, Matches
<1>1. CASE SaveRecord(EndedRecord(d.target, d.s.base, FALSE)) /\ Finish(SetEnded(d, FALSE), TRUE) /\ UNCHANGED spent
  <2>d. /\ (d'.up <=> d.up) /\ d'.s = [d.s EXCEPT !.sess = 0, !.cb = 0] /\ d'.prev = d.prev
        /\ d'.newest = d.target /\ (d'.ended <=> TRUE) /\ (d'.pending <=> FALSE)
        /\ (d'.publish <=> d.publish) /\ d'.volume = d.volume /\ d'.requested = d.requested
        /\ d'.op = "idle" /\ d'.target = d.target /\ d'.from = "none"
    BY <1>1, <1>t DEF EndUnheard, VolumeType, HwRec, Goto, Finish, Published, SetEnded
  <2>c. /\ (c'.up <=> c.up) /\ (c'.enabled <=> c.enabled) /\ c'.m = c.m /\ c'.v = c.v /\ c'.level = c.level
        /\ \/ c'.pc \in {c.pc, "idle"} /\ c'.sess = c.sess /\ c'.confirmed = c.confirmed
           \/ d.from = "airplayd" /\ c.pc = "call" /\ c'.pc = "status"
              /\ c'.sess = c.sess /\ c'.confirmed = <<c.m, c.v>>
           \/ d.from = "airplayd" /\ c.pc = "end" /\ c'.pc = "idle" /\ c'.sess = 0 /\ c'.confirmed = None
    BY Zenon, <1>1, <1>t, Accepted DEF EndUnheard, Finish, VolumeType
  <2>f. /\ files'.master = files.master /\ files'.record = EndedRecord(d.target, d.s.base, FALSE)
        /\ files'.marker = files.marker /\ files'.cb = files.cb /\ files'.db = files.db
        /\ files'.ack = files.ack /\ files'.left = files.left
    BY <1>1, <1>t DEF EndUnheard, VolumeType, FilesRec, SaveRecord, Publish, Revoke
  <2>x. asked' = asked /\ pressed' = pressed /\ spent' = spent
    BY <1>1, <1>t, Spent DEF EndUnheard, Fault
  <2>s. Standing = d.s /\ Standing' = [d.s EXCEPT !.sess = 0, !.cb = 0]
    BY <1>1, <2>d, <1>b DEF Standing, Changing
  <2>e. Standing'.sess = 0 /\ Standing'.cb = 0 /\ d'.s.sess = 0 /\ d'.s.cb = 0 /\ d'.s.base = d.s.base /\ d'.s = Standing'
    BY <2>d, <2>s, <1>t DEF VolumeType, HwRec, SessRec
  <2>1. Staged'
    BY <1>1, <2>d, <2>c, <2>f, <2>x, <2>s, <1>n, <1>b, <2>e DEF Numerals, Staged
  <2>2. Ordered'
    BY <1>1, <2>d, <2>c, <2>f, <2>x, <2>s, <1>n, <1>b, <2>e DEF Numerals, Ordered, Numbered, Slid,
       Staged
  <2>3. Beliefs'
    BY <1>1, <2>d, <2>c, <2>f, <2>x, <2>s, <1>n, <1>b, <2>e DEF Numerals, Beliefs, Believed
  <2>4. Durable'
    <3> SUFFICES ASSUME Relied' PROVE Recorded' /\ (d'.up => Matches')
      BY DEF Durable
    <3>1. Recorded /\ Written
      BY <1>1, <2>d, <2>c, <2>f, <2>x, <2>s, <1>n, <1>b, <2>e, <1>m DEF Relied
    <3>2. Recorded'
      BY <1>1, <2>d, <2>c, <2>f, <2>x, <2>s, <1>n, <1>b, <2>e, <3>1 DEF Numerals, Levels, None,
         Recorded, Session, Ended, Saved, Numbered, Slid, Taken, Staged, Ordered, Owned,
         EndedRecord
    <3>3. Matches'
      BY SMTT(60), <1>1, <2>d, <2>c, <2>f, <2>x, <2>s, <1>n, <1>b, <2>e, <3>1 DEF Numerals, None, Matches,
         Written, Saved, Session, Ended, Staged, Ordered, Numbered, Slid, EndedRecord
    <3> QED
      BY <3>2, <3>3
  <2>5. Owned'
    BY <1>1, <2>d, <2>c, <2>f, <2>x, <2>s, <1>n, <1>b, <2>e DEF Numerals, Owned, Taken, Staged
  <2>6. Heard'
    BY <1>1, <2>d, <2>c, <2>f, <2>x, <2>s, <1>n, <1>b, <2>e DEF Numerals, Heard, Taken, LevelOf,
       Staged, Ordered, Numbered, Slid
  <2>7. Claimed'
    <3>1. ~c'.enabled => ~Playable'
      BY Zenon, <1>1, <2>d, <2>c, <2>f, <2>x, <2>s, <1>n, <1>b, <2>e DEF Numerals, Claimed, None,
         Beliefs, Believed, Claim, Playable, Current, Session, Saved, Staged, Ordered, Numbered,
         Slid
    <3>2. c'.pc = "end" /\ Playable' => c'.sess # files'.marker
      BY <1>1, <2>d, <2>c, <2>f, <2>x, <2>s, <1>n, <1>b, <2>e DEF Numerals, Claimed, None,
         Beliefs, Believed, Claim, Playable, Current, Session, Saved, Staged, Ordered, Numbered,
         Slid
    <3>3. d'.op = "tomb" /\ Playable' /\ d'.s.sess = files'.marker => ~Claim'
      BY <1>1, <2>d, <2>c, <2>f, <2>x, <2>s, <1>n, <1>b, <2>e DEF Numerals, Claimed, None,
         Beliefs, Believed, Claim, Playable, Current, Session, Saved, Staged, Ordered, Numbered,
         Slid
    <3>4. Playable' /\ Claim' => <<Standing'.sess, Standing'.cb>> = Current'
      <4> SUFFICES ASSUME Playable', Claim' PROVE FALSE
        OBVIOUS
      <4>1. Playable
        BY <2>f DEF Playable
      <4>2. Claim
        <5>1. c'.pc \in {c.pc, "idle"} /\ c'.confirmed \in {c.confirmed, None}
          BY <2>c, <1>b DEF Beliefs
        <5>2. Current' = Current /\ Current # None /\ files'.ack = files.ack
          BY <2>f DEF Current, None
        <5> QED
          BY <5>1, <5>2, <2>c DEF Claim
      <4>3. <<Standing.sess, Standing.cb>> = <<files.marker, files.cb>>
        BY <4>1, <4>2, <1>b DEF Claimed, Current
      <4>4. d.s.sess = 0
        BY <1>b DEF Staged
      <4> QED
        BY <4>1, <4>3, <4>4, <2>s DEF Playable
    <3>5. d'.up
      BY <1>1, <2>d, <2>c, <2>f, <2>x, <2>s, <1>n, <1>b, <2>e DEF Numerals, Claimed, None,
         Beliefs, Believed, Claim, Playable, Current, Session, Saved, Staged, Ordered, Numbered,
         Slid
    <3> QED
      BY <3>1, <3>2, <3>3, <3>4, <3>5 DEF Claimed
  <2>8. Pressed'
    BY SMTT(60), <1>1, <2>d, <2>c, <2>f, <2>x, <2>s, <1>n, <1>b, <2>e, <1>m DEF Numerals, Levels, None,
       Pressed, Overrides, Session, Saved, Ended, Relied, Staged, Ordered, Numbered, Slid,
       EndedRecord
  <2> QED
    BY <2>1, <2>2, <2>3, <2>4, <2>5, <2>6, <2>7, <2>8 DEF Sound
<1>2. CASE Fault /\ Finish(d, FALSE) /\ UNCHANGED files
  <2>d. /\ (d'.up <=> d.up) /\ d'.s = d.s /\ d'.prev = d.prev /\ d'.newest = d.newest
        /\ (d'.ended <=> d.ended) /\ (d'.pending <=> d.pending) /\ (d'.publish <=> d.publish)
        /\ d'.volume = d.volume /\ d'.requested = d.requested /\ d'.op = "idle" /\ d'.target = d.target
        /\ d'.from = "none"
    BY <1>2, <1>t DEF EndUnheard, VolumeType, HwRec, Goto, Finish, Published, SetEnded
  <2>c. /\ (c'.up <=> c.up) /\ (c'.enabled <=> c.enabled) /\ c'.m = c.m /\ c'.v = c.v /\ c'.level = c.level
        /\ c'.sess = c.sess /\ c'.confirmed = c.confirmed /\ c'.pc \in {c.pc, "idle"}
    BY Zenon, <1>2, <1>t, AnswerTo DEF EndUnheard, Finish, VolumeType
  <2>f. files' = files
    BY <1>2, <1>t DEF EndUnheard
  <2>x. asked' = asked /\ pressed' = pressed /\ spent'.sessions = spent.sessions
    BY <1>2, <1>t, Spent DEF EndUnheard, Fault
  <2>s. Standing = d.s /\ Standing' = d.s
    BY <1>2, <2>d, <1>b DEF Standing, Changing
  <2>1. Staged'
    BY <1>2, <2>d, <2>c, <2>f, <2>x, <2>s, <1>n, <1>b DEF Numerals, Staged
  <2>2. Ordered'
    BY <1>2, <2>d, <2>c, <2>f, <2>x, <2>s, <1>n, <1>b DEF Numerals, Ordered, Numbered, Slid, Staged
  <2>3. Beliefs'
    BY <1>2, <2>d, <2>c, <2>f, <2>x, <2>s, <1>n, <1>b DEF Numerals, Beliefs, Believed
  <2>4. Durable'
    <3> SUFFICES ASSUME Relied' PROVE Recorded' /\ (d'.up => Matches')
      BY DEF Durable
    <3>1. Recorded /\ Written
      BY <1>2, <2>d, <2>c, <2>f, <2>x, <2>s, <1>n, <1>b, <1>m DEF Relied
    <3>2. Recorded'
      BY <1>2, <2>d, <2>c, <2>f, <2>x, <2>s, <1>n, <1>b, <3>1 DEF Numerals, Levels, None,
         Recorded, Session, Ended, Saved, Numbered, Slid, Taken, Staged, Ordered, Owned
    <3>3. Matches'
      BY ZenonT(60), <1>2, <2>d, <2>c, <2>f, <2>x, <2>s, <1>n, <1>b, <3>1 DEF Numerals, None, Matches,
         Written, Saved, Session, Ended, Staged, Ordered, Numbered, Slid
    <3> QED
      BY <3>2, <3>3
  <2>5. Owned'
    BY <1>2, <2>d, <2>c, <2>f, <2>x, <2>s, <1>n, <1>b DEF Numerals, Owned, Taken, Staged
  <2>6. Heard'
    BY <1>2, <2>d, <2>c, <2>f, <2>x, <2>s, <1>n, <1>b DEF Numerals, Heard, Taken, LevelOf, Staged,
       Ordered, Numbered, Slid
  <2>7. Claimed'
    BY SMTT(60), <1>2, <2>d, <2>c, <2>f, <2>x, <2>s, <1>n, <1>b DEF Numerals, Claimed, None, Beliefs,
       Believed, Claim, Playable, Current, Session, Saved, Staged, Ordered, Numbered, Slid
  <2>8. Pressed'
    BY <1>2, <2>d, <2>c, <2>f, <2>x, <2>s, <1>n, <1>b, <1>m DEF Numerals, Levels, None, Pressed,
       Overrides, Session, Saved, Ended, Relied, Staged, Ordered, Numbered, Slid
  <2> QED
    BY <2>1, <2>2, <2>3, <2>4, <2>5, <2>6, <2>7, <2>8 DEF Sound
<1> QED
  BY Zenon, <1>1, <1>2 DEF EndUnheard

(* The baseline is back, but the debt stays until the next step settles it. *)
LEMMA RestoreKeeps ==
  ASSUME VolumeType, VolumeType', Sound, Undoable, UNCHANGED setup, Restore
  PROVE  Sound'
<1>t. VolumeType /\ VolumeType' /\ setup' = setup
  OBVIOUS
<1>n. Numerals /\ setup' = setup
  BY Numbers
<1>b. /\ d.up /\ d.op = "restore"
      /\ Undoable /\ Staged /\ Ordered /\ Beliefs /\ Durable /\ Owned /\ Heard /\ Claimed /\ Pressed
  BY DEF Sound, Restore, At, Serving, Ready, VolumeType, Aimed
<1>m. Relied => Recorded /\ Written
  BY <1>b DEF Durable, Matches
<1>1. CASE Publish(d.s.base) /\ Goto(Published(d.s.base), "final") /\ UNCHANGED spent
  <2>d. /\ (d'.up <=> d.up) /\ d'.s = d.s /\ d'.prev = d.prev /\ d'.newest = d.newest
        /\ (d'.ended <=> d.ended) /\ (d'.pending <=> d.pending) /\ (d'.publish <=> FALSE)
        /\ d'.volume = d.s.base /\ d'.requested = d.s.base /\ d'.op = "final" /\ d'.target = d.target
        /\ d'.from = d.from
    BY <1>1, <1>t DEF Restore, VolumeType, HwRec, Goto, Finish, Published, SetEnded
  <2>c. c' = c
    BY <1>1 DEF Restore, Goto, ReplyNow
  <2>f. /\ files'.master = d.s.base /\ files'.record = files.record /\ files'.marker = files.marker
        /\ files'.cb = files.cb /\ files'.db = files.db /\ files'.ack = files.ack
        /\ files'.left = files.left
    BY <1>1, <1>t DEF Restore, VolumeType, FilesRec, SaveRecord, Publish, Revoke
  <2>x. asked' = asked /\ pressed' = pressed /\ spent' = spent
    BY <1>1, <1>t, Spent DEF Restore, Fault
  <2>s. Standing = d.s /\ Standing' = d.s
    BY <1>1, <2>d, <1>b DEF Standing, Changing
  <2>v. files'.master \in 0..100 /\ files'.master >= 0
    <3>1. d.s.base \in 0..100
      BY <1>1, <1>n, <1>b DEF Numerals, Levels
    <3>2. files'.master \in 0..100
      BY <3>1, <2>f
    <3> QED
      BY <3>2
  <2>1. Staged'
    BY <1>1, <2>d, <2>c, <2>f, <2>x, <2>s, <1>n, <1>b, <2>v DEF Numerals, Staged
  <2>2. Ordered'
    BY <1>1, <2>d, <2>c, <2>f, <2>x, <2>s, <1>n, <1>b, <2>v DEF Numerals, Ordered, Numbered, Slid,
       Staged
  <2>3. Beliefs'
    BY <1>1, <2>d, <2>c, <2>f, <2>x, <2>s, <1>n, <1>b, <2>v DEF Numerals, Beliefs, Believed
  <2>4. Durable'
    <3> SUFFICES ASSUME Relied' PROVE Recorded' /\ (d'.up => Matches')
      BY DEF Durable
    <3>1. Recorded /\ Written
      BY <1>1, <2>d, <2>c, <2>f, <2>x, <2>s, <1>n, <1>b, <2>v, <1>m DEF Relied
    <3>2. Recorded'
      <4>1. Saved' = Saved /\ (Session' <=> Session) /\ (Ended' <=> Ended)
        BY <2>f DEF Saved, Session, Ended
      <4>2. Ended /\ Saved[4]
        <5>1. Saved = EndedRecord(d.newest, d.s.base, TRUE)
          BY <3>1, <1>b DEF Written, Staged
        <5> QED
          BY <5>1 DEF EndedRecord, Ended, Saved, None
      <4>3. Recorded
        BY <3>1
      <4>4. asked' = asked /\ spent' = spent /\ files'.cb = files.cb /\ files'.db = files.db
        BY <2>x, <2>f
      <4> QED
        BY <4>1, <4>2, <4>3, <4>4 DEF Recorded, Numbered, Slid
    <3>3. Matches'
      BY ZenonT(60), <1>1, <2>d, <2>c, <2>f, <2>x, <2>s, <1>n, <1>b, <2>v, <3>1 DEF Numerals, None, Matches,
         Written, Saved, Session, Ended, Staged, Ordered, Numbered, Slid
    <3> QED
      BY <3>2, <3>3
  <2>5. Owned'
    BY <1>1, <2>d, <2>c, <2>f, <2>x, <2>s, <1>n, <1>b, <2>v DEF Numerals, Owned, Taken, Staged
  <2>6. Heard'
    BY <1>1, <2>d, <2>c, <2>f, <2>x, <2>s, <1>n, <1>b, <2>v DEF Numerals, Heard, Taken, LevelOf,
       Staged, Ordered, Numbered, Slid
  <2>7. Claimed'
    BY <1>1, <2>d, <2>c, <2>f, <2>x, <2>s, <1>n, <1>b, <2>v DEF Numerals, Claimed, None, Beliefs,
       Believed, Claim, Playable, Current, Session, Saved, Staged, Ordered, Numbered, Slid
  <2>8. Pressed'
    BY SMTT(60), <1>1, <2>d, <2>c, <2>f, <2>x, <2>s, <1>n, <1>b, <2>v, <1>m DEF Numerals, Levels, None,
       Pressed, Overrides, Session, Saved, Ended, Relied, Staged, Ordered, Numbered, Slid
  <2> QED
    BY <2>1, <2>2, <2>3, <2>4, <2>5, <2>6, <2>7, <2>8 DEF Sound
<1>2. CASE Fault /\ Finish(d, FALSE) /\ UNCHANGED files
  <2>d. /\ (d'.up <=> d.up) /\ d'.s = d.s /\ d'.prev = d.prev /\ d'.newest = d.newest
        /\ (d'.ended <=> d.ended) /\ (d'.pending <=> d.pending) /\ (d'.publish <=> d.publish)
        /\ d'.volume = d.volume /\ d'.requested = d.requested /\ d'.op = "idle" /\ d'.target = d.target
        /\ d'.from = "none"
    BY <1>2, <1>t DEF Restore, VolumeType, HwRec, Goto, Finish, Published, SetEnded
  <2>c. /\ (c'.up <=> c.up) /\ (c'.enabled <=> c.enabled) /\ c'.m = c.m /\ c'.v = c.v /\ c'.level = c.level
        /\ c'.sess = c.sess /\ c'.confirmed = c.confirmed /\ c'.pc \in {c.pc, "idle"}
    BY Zenon, <1>2, <1>t, AnswerTo DEF Restore, Finish, VolumeType
  <2>f. files' = files
    BY <1>2, <1>t DEF Restore
  <2>x. asked' = asked /\ pressed' = pressed /\ spent'.sessions = spent.sessions
    BY <1>2, <1>t, Spent DEF Restore, Fault
  <2>s. Standing = d.s /\ Standing' = d.s
    BY <1>2, <2>d, <1>b DEF Standing, Changing
  <2>1. Staged'
    BY <1>2, <2>d, <2>c, <2>f, <2>x, <2>s, <1>n, <1>b DEF Numerals, Staged
  <2>2. Ordered'
    BY <1>2, <2>d, <2>c, <2>f, <2>x, <2>s, <1>n, <1>b DEF Numerals, Ordered, Numbered, Slid, Staged
  <2>3. Beliefs'
    BY <1>2, <2>d, <2>c, <2>f, <2>x, <2>s, <1>n, <1>b DEF Numerals, Beliefs, Believed
  <2>4. Durable'
    <3> SUFFICES ASSUME Relied' PROVE Recorded' /\ (d'.up => Matches')
      BY DEF Durable
    <3>1. Recorded /\ Written
      BY <1>2, <2>d, <2>c, <2>f, <2>x, <2>s, <1>n, <1>b, <1>m DEF Relied
    <3>2. Recorded'
      BY <1>2, <2>d, <2>c, <2>f, <2>x, <2>s, <1>n, <1>b, <3>1 DEF Numerals, Levels, None,
         Recorded, Session, Ended, Saved, Numbered, Slid, Taken, Staged, Ordered, Owned
    <3>3. Matches'
      BY ZenonT(60), <1>2, <2>d, <2>c, <2>f, <2>x, <2>s, <1>n, <1>b, <3>1 DEF Numerals, None, Matches,
         Written, Saved, Session, Ended, Staged, Ordered, Numbered, Slid
    <3> QED
      BY <3>2, <3>3
  <2>5. Owned'
    BY <1>2, <2>d, <2>c, <2>f, <2>x, <2>s, <1>n, <1>b DEF Numerals, Owned, Taken, Staged
  <2>6. Heard'
    BY <1>2, <2>d, <2>c, <2>f, <2>x, <2>s, <1>n, <1>b DEF Numerals, Heard, Taken, LevelOf, Staged,
       Ordered, Numbered, Slid
  <2>7. Claimed'
    BY SMTT(60), <1>2, <2>d, <2>c, <2>f, <2>x, <2>s, <1>n, <1>b DEF Numerals, Claimed, None, Beliefs,
       Believed, Claim, Playable, Current, Session, Saved, Staged, Ordered, Numbered, Slid
  <2>8. Pressed'
    BY <1>2, <2>d, <2>c, <2>f, <2>x, <2>s, <1>n, <1>b, <1>m DEF Numerals, Levels, None, Pressed,
       Overrides, Session, Saved, Ended, Relied, Staged, Ordered, Numbered, Slid
  <2> QED
    BY <2>1, <2>2, <2>3, <2>4, <2>5, <2>6, <2>7, <2>8 DEF Sound
<1> QED
  BY Zenon, <1>1, <1>2 DEF Restore

(* The debt is settled only after the level file holds the baseline.        *)
LEMMA SettleEndedKeeps ==
  ASSUME VolumeType, VolumeType', Sound, Undoable, UNCHANGED setup, SettleEnded
  PROVE  Sound'
<1>t. VolumeType /\ VolumeType' /\ setup' = setup
  OBVIOUS
<1>n. Numerals /\ setup' = setup
  BY Numbers
<1>b. /\ d.up /\ d.op = "final"
      /\ Undoable /\ Staged /\ Ordered /\ Beliefs /\ Durable /\ Owned /\ Heard /\ Claimed /\ Pressed
  BY DEF Sound, SettleEnded, At, Serving, Ready, VolumeType, Aimed
<1>m. Relied => Recorded /\ Written
  BY <1>b DEF Durable, Matches
<1>1. CASE SaveRecord(EndedRecord(d.newest, d.s.base, FALSE)) /\ Finish([d EXCEPT !.pending = FALSE], TRUE) /\ UNCHANGED spent
  <2>d. /\ (d'.up <=> d.up) /\ d'.s = d.s /\ d'.prev = d.prev /\ d'.newest = d.newest
        /\ (d'.ended <=> d.ended) /\ (d'.pending <=> FALSE) /\ (d'.publish <=> d.publish)
        /\ d'.volume = d.volume /\ d'.requested = d.requested /\ d'.op = "idle" /\ d'.target = d.target
        /\ d'.from = "none"
    BY <1>1, <1>t DEF SettleEnded, VolumeType, HwRec, Goto, Finish, Published, SetEnded
  <2>c. /\ (c'.up <=> c.up) /\ (c'.enabled <=> c.enabled) /\ c'.m = c.m /\ c'.v = c.v /\ c'.level = c.level
        /\ \/ c'.pc \in {c.pc, "idle"} /\ c'.sess = c.sess /\ c'.confirmed = c.confirmed
           \/ d.from = "airplayd" /\ c.pc = "call" /\ c'.pc = "status"
              /\ c'.sess = c.sess /\ c'.confirmed = <<c.m, c.v>>
           \/ d.from = "airplayd" /\ c.pc = "end" /\ c'.pc = "idle" /\ c'.sess = 0 /\ c'.confirmed = None
    BY Zenon, <1>1, <1>t, Accepted DEF SettleEnded, Finish, VolumeType
  <2>f. /\ files'.master = files.master /\ files'.record = EndedRecord(d.newest, d.s.base, FALSE)
        /\ files'.marker = files.marker /\ files'.cb = files.cb /\ files'.db = files.db
        /\ files'.ack = files.ack /\ files'.left = files.left
    BY <1>1, <1>t DEF SettleEnded, VolumeType, FilesRec, SaveRecord, Publish, Revoke
  <2>x. asked' = asked /\ pressed' = pressed /\ spent' = spent
    BY <1>1, <1>t, Spent DEF SettleEnded, Fault
  <2>s. Standing = d.s /\ Standing' = d.s
    BY <1>1, <2>d, <1>b DEF Standing, Changing
  <2>1. Staged'
    BY <1>1, <2>d, <2>c, <2>f, <2>x, <2>s, <1>n, <1>b DEF Numerals, Staged
  <2>2. Ordered'
    BY <1>1, <2>d, <2>c, <2>f, <2>x, <2>s, <1>n, <1>b DEF Numerals, Ordered, Numbered, Slid, Staged
  <2>3. Beliefs'
    BY <1>1, <2>d, <2>c, <2>f, <2>x, <2>s, <1>n, <1>b DEF Numerals, Beliefs, Believed
  <2>4. Durable'
    <3> SUFFICES ASSUME Relied' PROVE Recorded' /\ (d'.up => Matches')
      BY DEF Durable
    <3>1. Recorded /\ Written
      BY <1>1, <2>d, <2>c, <2>f, <2>x, <2>s, <1>n, <1>b, <1>m DEF Relied
    <3>2. Recorded'
      <4>1. Session' => Numbered(Saved[2])' /\ Slid(Saved[2])' /\ Saved'[2].sess # 0 /\ Saved'[2].base \in asked'
        BY <1>1, <2>d, <2>c, <2>f, <2>x, <2>s, <1>n, <1>b, <3>1 DEF Numerals, Levels, None,
           Recorded, Session, Ended, Saved, Numbered, Slid, Taken, Staged, Ordered, Owned,
           EndedRecord, Written
      <4>2. Ended' => Saved'[2] # 0 /\ Saved'[2] <= spent'.sessions
        <5>1. d.pending /\ Saved = EndedRecord(d.newest, d.s.base, TRUE)
          BY Zenon, <3>1, <1>b DEF Staged, Written
        <5>2. d.newest # 0 /\ d.newest <= spent.sessions
          BY <5>1, <3>1 DEF Recorded, Ended, Saved, EndedRecord, None
        <5> QED
          BY <5>2, <2>f, <2>x DEF Ended, Saved, EndedRecord
      <4>3. Ended' /\ Saved'[4] => Saved'[3] \in asked'
        BY <1>1, <2>d, <2>c, <2>f, <2>x, <2>s, <1>n, <1>b, <3>1 DEF Numerals, Levels, None,
           Recorded, Session, Ended, Saved, Numbered, Slid, Taken, Staged, Ordered, Owned,
           EndedRecord, Written
      <4>4. ~Session' /\ ~(Ended' /\ Saved'[4]) => Taken' \in asked'
        <5>1. files.master = d.s.base /\ d.s.base \in asked
          BY <1>b DEF Staged, Owned
        <5>2. files.master >= 0
          <6>1. d.s.base \in 0..100
            BY <1>n DEF Numerals
          <6> QED
            BY <6>1, <5>1
        <5> QED
          BY <5>1, <5>2, <2>f, <2>x DEF Taken
      <4> QED
        BY <4>1, <4>2, <4>3, <4>4 DEF Recorded
    <3>3. Matches'
      <4>1. Standing'.sess # 0 => Saved' = SessionRecord(Standing)'
        BY <1>1, <2>d, <2>c, <2>f, <2>x, <2>s, <1>n, <1>b, <3>1 DEF Numerals, None, Matches,
           Written, Saved, Session, Ended, Staged, Ordered, Numbered, Slid, EndedRecord, Recorded
      <4>2. d'.pending => Saved' = EndedRecord(d.newest, d.s.base, TRUE)'
        BY <1>1, <2>d, <2>c, <2>f, <2>x, <2>s, <1>n, <1>b, <3>1 DEF Numerals, None, Matches,
           Written, Saved, Session, Ended, Staged, Ordered, Numbered, Slid, EndedRecord, Recorded
      <4>3. Standing'.sess = 0 /\ ~d'.pending =>
           \/ Ended' /\ ~Saved'[4] /\ Saved'[2] = d'.newest /\ d'.ended
           \/ Saved' = None /\ (d'.ended => d'.newest < spent'.sessions)
        <5>1. d.pending /\ Saved = EndedRecord(d.newest, d.s.base, TRUE)
          BY Zenon, <3>1, <1>b DEF Staged, Written
        <5>2. d.newest # 0
          BY <5>1, <3>1 DEF Recorded, Ended, Saved, EndedRecord, None
        <5>3. d.ended
          BY <5>1, <5>2, <1>b, <2>s DEF Staged, Ordered
        <5> QED
          BY <5>3, <2>f, <2>d DEF Ended, Saved, EndedRecord, None
      <4>4. d'.op \notin {"setV", "setO", "undoV", "undoO"}
        BY <1>1, <2>d, <2>c, <2>f, <2>x, <2>s, <1>n, <1>b, <3>1 DEF Numerals, None, Matches,
           Written, Saved, Session, Ended, Staged, Ordered, Numbered, Slid, EndedRecord, Recorded
      <4> QED
        BY Zenon, <4>1, <4>2, <4>3, <4>4 DEF Matches, Written
    <3> QED
      BY <3>2, <3>3
  <2>5. Owned'
    BY <1>1, <2>d, <2>c, <2>f, <2>x, <2>s, <1>n, <1>b DEF Numerals, Owned, Taken, Staged, Levels
  <2>6. Heard'
    BY <1>1, <2>d, <2>c, <2>f, <2>x, <2>s, <1>n, <1>b DEF Numerals, Heard, Taken, LevelOf, Staged,
       Ordered, Numbered, Slid
  <2>7. Claimed'
    <3>1. ~c'.enabled => ~Playable'
      BY Zenon, <1>1, <2>d, <2>c, <2>f, <2>x, <2>s, <1>n, <1>b DEF Numerals, Claimed, None, Beliefs,
         Believed, Claim, Playable, Current, Session, Saved, Staged, Ordered, Numbered, Slid
    <3>2. c'.pc = "end" /\ Playable' => c'.sess # files'.marker
      BY <1>1, <2>d, <2>c, <2>f, <2>x, <2>s, <1>n, <1>b DEF Numerals, Claimed, None, Beliefs,
         Believed, Claim, Playable, Current, Session, Saved, Staged, Ordered, Numbered, Slid
    <3>3. d'.op = "tomb" /\ Playable' /\ d'.s.sess = files'.marker => ~Claim'
      BY <1>1, <2>d, <2>c, <2>f, <2>x, <2>s, <1>n, <1>b DEF Numerals, Claimed, None, Beliefs,
         Believed, Claim, Playable, Current, Session, Saved, Staged, Ordered, Numbered, Slid
    <3>4. Playable' /\ Claim' => <<Standing'.sess, Standing'.cb>> = Current'
      <4> SUFFICES ASSUME Playable', Claim' PROVE FALSE
        OBVIOUS
      <4>1. Playable
        BY <2>f DEF Playable
      <4>2. Claim
        <5>1. c'.pc \in {c.pc, "idle"} /\ c'.confirmed \in {c.confirmed, None}
          BY <2>c, <1>b DEF Beliefs
        <5>2. Current' = Current /\ Current # None /\ files'.ack = files.ack
          BY <2>f DEF Current, None
        <5> QED
          BY <5>1, <5>2, <2>c DEF Claim
      <4>3. <<Standing.sess, Standing.cb>> = <<files.marker, files.cb>>
        BY <4>1, <4>2, <1>b DEF Claimed, Current
      <4>4. d.s.sess = 0
        BY <1>b DEF Staged
      <4> QED
        BY <4>1, <4>3, <4>4, <2>s DEF Playable
    <3>5. d'.up
      BY <1>1, <2>d, <2>c, <2>f, <2>x, <2>s, <1>n, <1>b DEF Numerals, Claimed, None, Beliefs,
         Believed, Claim, Playable, Current, Session, Saved, Staged, Ordered, Numbered, Slid
    <3> QED
      BY <3>1, <3>2, <3>3, <3>4, <3>5 DEF Claimed
  <2>8. Pressed'
    BY <1>1, <2>d, <2>c, <2>f, <2>x, <2>s, <1>n, <1>b, <1>m DEF Numerals, Levels, None, Pressed,
       Overrides, Session, Saved, Ended, Relied, Staged, Ordered, Numbered, Slid, EndedRecord
  <2> QED
    BY <2>1, <2>2, <2>3, <2>4, <2>5, <2>6, <2>7, <2>8 DEF Sound
<1>2. CASE Fault /\ Finish(d, FALSE) /\ UNCHANGED files
  <2>d. /\ (d'.up <=> d.up) /\ d'.s = d.s /\ d'.prev = d.prev /\ d'.newest = d.newest
        /\ (d'.ended <=> d.ended) /\ (d'.pending <=> d.pending) /\ (d'.publish <=> d.publish)
        /\ d'.volume = d.volume /\ d'.requested = d.requested /\ d'.op = "idle" /\ d'.target = d.target
        /\ d'.from = "none"
    BY <1>2, <1>t DEF SettleEnded, VolumeType, HwRec, Goto, Finish, Published, SetEnded
  <2>c. /\ (c'.up <=> c.up) /\ (c'.enabled <=> c.enabled) /\ c'.m = c.m /\ c'.v = c.v /\ c'.level = c.level
        /\ c'.sess = c.sess /\ c'.confirmed = c.confirmed /\ c'.pc \in {c.pc, "idle"}
    BY Zenon, <1>2, <1>t, AnswerTo DEF SettleEnded, Finish, VolumeType
  <2>f. files' = files
    BY <1>2, <1>t DEF SettleEnded
  <2>x. asked' = asked /\ pressed' = pressed /\ spent'.sessions = spent.sessions
    BY <1>2, <1>t, Spent DEF SettleEnded, Fault
  <2>s. Standing = d.s /\ Standing' = d.s
    BY <1>2, <2>d, <1>b DEF Standing, Changing
  <2>1. Staged'
    BY <1>2, <2>d, <2>c, <2>f, <2>x, <2>s, <1>n, <1>b DEF Numerals, Staged
  <2>2. Ordered'
    BY <1>2, <2>d, <2>c, <2>f, <2>x, <2>s, <1>n, <1>b DEF Numerals, Ordered, Numbered, Slid, Staged
  <2>3. Beliefs'
    BY <1>2, <2>d, <2>c, <2>f, <2>x, <2>s, <1>n, <1>b DEF Numerals, Beliefs, Believed
  <2>4. Durable'
    <3> SUFFICES ASSUME Relied' PROVE Recorded' /\ (d'.up => Matches')
      BY DEF Durable
    <3>1. Recorded /\ Written
      BY <1>2, <2>d, <2>c, <2>f, <2>x, <2>s, <1>n, <1>b, <1>m DEF Relied
    <3>2. Recorded'
      BY <1>2, <2>d, <2>c, <2>f, <2>x, <2>s, <1>n, <1>b, <3>1 DEF Numerals, Levels, None,
         Recorded, Session, Ended, Saved, Numbered, Slid, Taken, Staged, Ordered, Owned
    <3>3. Matches'
      BY ZenonT(60), <1>2, <2>d, <2>c, <2>f, <2>x, <2>s, <1>n, <1>b, <3>1 DEF Numerals, None, Matches,
         Written, Saved, Session, Ended, Staged, Ordered, Numbered, Slid
    <3> QED
      BY <3>2, <3>3
  <2>5. Owned'
    BY <1>2, <2>d, <2>c, <2>f, <2>x, <2>s, <1>n, <1>b DEF Numerals, Owned, Taken, Staged
  <2>6. Heard'
    BY <1>2, <2>d, <2>c, <2>f, <2>x, <2>s, <1>n, <1>b DEF Numerals, Heard, Taken, LevelOf, Staged,
       Ordered, Numbered, Slid
  <2>7. Claimed'
    BY SMTT(60), <1>2, <2>d, <2>c, <2>f, <2>x, <2>s, <1>n, <1>b DEF Numerals, Claimed, None, Beliefs,
       Believed, Claim, Playable, Current, Session, Saved, Staged, Ordered, Numbered, Slid
  <2>8. Pressed'
    BY <1>2, <2>d, <2>c, <2>f, <2>x, <2>s, <1>n, <1>b, <1>m DEF Numerals, Levels, None, Pressed,
       Overrides, Session, Saved, Ended, Relied, Staged, Ordered, Numbered, Slid
  <2> QED
    BY <2>1, <2>2, <2>3, <2>4, <2>5, <2>6, <2>7, <2>8 DEF Sound
<1> QED
  BY Zenon, <1>1, <1>2 DEF SettleEnded

(* The level a start found, or a session's, is in the level file.           *)
LEMMA PublishStartupKeeps ==
  ASSUME VolumeType, VolumeType', Sound, Undoable, UNCHANGED setup, PublishStartup
  PROVE  Sound'
<1>t. VolumeType /\ VolumeType' /\ setup' = setup
  OBVIOUS
<1>n. Numerals /\ setup' = setup
  BY Numbers
<1>b. /\ d.up /\ d.op = "publish"
      /\ Undoable /\ Staged /\ Ordered /\ Beliefs /\ Durable /\ Owned /\ Heard /\ Claimed /\ Pressed
  BY DEF Sound, PublishStartup, At, Serving, Ready, VolumeType, Aimed
<1>m. Relied => Recorded /\ Written
  BY <1>b DEF Durable, Matches
<1>1. CASE Publish(d.volume) /\ Finish(Published(d.volume), TRUE) /\ pressed' = Chosen /\ UNCHANGED spent
  <2>d. /\ (d'.up <=> d.up) /\ d'.s = d.s /\ d'.prev = d.prev /\ d'.newest = d.newest
        /\ (d'.ended <=> d.ended) /\ (d'.pending <=> d.pending) /\ (d'.publish <=> FALSE)
        /\ d'.volume = d.volume /\ d'.requested = d.volume /\ d'.op = "idle" /\ d'.target = d.target
        /\ d'.from = "none"
    BY <1>1, <1>t DEF PublishStartup, VolumeType, HwRec, Goto, Finish, Published, SetEnded
  <2>c. /\ (c'.up <=> c.up) /\ (c'.enabled <=> c.enabled) /\ c'.m = c.m /\ c'.v = c.v /\ c'.level = c.level
        /\ \/ c'.pc \in {c.pc, "idle"} /\ c'.sess = c.sess /\ c'.confirmed = c.confirmed
           \/ d.from = "airplayd" /\ c.pc = "call" /\ c'.pc = "status"
              /\ c'.sess = c.sess /\ c'.confirmed = <<c.m, c.v>>
           \/ d.from = "airplayd" /\ c.pc = "end" /\ c'.pc = "idle" /\ c'.sess = 0 /\ c'.confirmed = None
    BY Zenon, <1>1, <1>t, Accepted DEF PublishStartup, Finish, VolumeType
  <2>f. /\ files'.master = d.volume /\ files'.record = files.record /\ files'.marker = files.marker
        /\ files'.cb = files.cb /\ files'.db = files.db /\ files'.ack = files.ack
        /\ files'.left = files.left
    BY <1>1, <1>t DEF PublishStartup, VolumeType, FilesRec, SaveRecord, Publish, Revoke
  <2>x. asked' = asked /\ pressed' = Chosen /\ spent' = spent
    BY <1>1, <1>t, Spent DEF PublishStartup, Fault
  <2>s. Standing = d.s /\ Standing' = d.s
    BY <1>1, <2>d, <1>b DEF Standing, Changing
  <2>v. files'.master \in 0..100 /\ files'.master >= 0
    <3>1. d.volume \in 0..100
      BY <1>1, <1>n, <1>b DEF Numerals, Levels
    <3>2. files'.master \in 0..100
      BY <3>1, <2>f
    <3> QED
      BY <3>2
  <2>1. Staged'
    BY <1>1, <2>d, <2>c, <2>f, <2>x, <2>s, <1>n, <1>b, <2>v DEF Numerals, Staged
  <2>2. Ordered'
    BY <1>1, <2>d, <2>c, <2>f, <2>x, <2>s, <1>n, <1>b, <2>v DEF Numerals, Ordered, Numbered, Slid,
       Staged
  <2>3. Beliefs'
    BY <1>1, <2>d, <2>c, <2>f, <2>x, <2>s, <1>n, <1>b, <2>v DEF Numerals, Beliefs, Believed
  <2>4. Durable'
    <3> SUFFICES ASSUME Relied' PROVE Recorded' /\ (d'.up => Matches')
      BY DEF Durable
    <3>1. Recorded /\ Written
      BY <1>1, <2>d, <2>c, <2>f, <2>x, <2>s, <1>n, <1>b, <2>v, <1>m DEF Relied
    <3>2. Recorded'
      <4>1. Session' => Numbered(Saved[2])' /\ Slid(Saved[2])' /\ Saved'[2].sess # 0 /\ Saved'[2].base \in asked'
        BY <1>1, <2>d, <2>c, <2>f, <2>x, <2>s, <1>n, <1>b, <2>v, <3>1 DEF Numerals, Levels, None,
           Recorded, Session, Ended, Saved, Numbered, Slid, Taken, Staged, Ordered, Owned,
           Written, SessionRecord
      <4>2. Ended' => Saved'[2] # 0 /\ Saved'[2] <= spent'.sessions
        BY <1>1, <2>d, <2>c, <2>f, <2>x, <2>s, <1>n, <1>b, <2>v, <3>1 DEF Numerals, Levels, None,
           Recorded, Session, Ended, Saved, Numbered, Slid, Taken, Staged, Ordered, Owned,
           Written, SessionRecord
      <4>3. Ended' /\ Saved'[4] => Saved'[3] \in asked'
        BY <1>1, <2>d, <2>c, <2>f, <2>x, <2>s, <1>n, <1>b, <2>v, <3>1 DEF Numerals, Levels, None,
           Recorded, Session, Ended, Saved, Numbered, Slid, Taken, Staged, Ordered, Owned,
           Written, SessionRecord
      <4>4. ~Session' /\ ~(Ended' /\ Saved'[4]) => Taken' \in asked'
        <5> SUFFICES ASSUME ~Session' PROVE Taken' \in asked'
          OBVIOUS
        <5>1. d.s.sess = 0
          <6>1. d.s.sess # 0 => files'.record = SessionRecord(d.s)
            BY <3>1, <2>f, <2>s DEF Written, Saved
          <6>2. SessionRecord(d.s) # None /\ SessionRecord(d.s)[1] = "session"
            BY DEF SessionRecord, None
          <6> QED
            BY <6>1, <6>2 DEF Session, Saved
        <5>2. d.volume \in asked
          BY <5>1, <2>s, <1>b DEF Owned, Staged
        <5> QED
          BY <5>2, <2>f, <2>v, <2>x DEF Taken
      <4> QED
        BY <4>1, <4>2, <4>3, <4>4 DEF Recorded
    <3>3. Matches'
      <4>1. Standing'.sess # 0 => Saved' = SessionRecord(Standing)'
        BY <1>1, <2>d, <2>c, <2>f, <2>x, <2>s, <1>n, <1>b, <2>v, <3>1 DEF Numerals, None, Matches,
           Written, Saved, Session, Ended, Staged, Ordered, Numbered, Slid, SessionRecord
      <4>2. d'.pending => Saved' = EndedRecord(d.newest, d.s.base, TRUE)'
        BY <1>1, <2>d, <2>c, <2>f, <2>x, <2>s, <1>n, <1>b, <2>v, <3>1 DEF Numerals, None, Matches,
           Written, Saved, Session, Ended, Staged, Ordered, Numbered, Slid, SessionRecord
      <4>3. Standing'.sess = 0 /\ ~d'.pending =>
           \/ Ended' /\ ~Saved'[4] /\ Saved'[2] = d'.newest /\ d'.ended
           \/ Saved' = None /\ (d'.ended => d'.newest < spent'.sessions)
        BY <1>1, <2>d, <2>c, <2>f, <2>x, <2>s, <1>n, <1>b, <2>v, <3>1 DEF Numerals, None, Matches,
           Written, Saved, Session, Ended, Staged, Ordered, Numbered, Slid, SessionRecord
      <4>4. d'.op \notin {"setV", "setO", "undoV", "undoO"}
        BY <1>1, <2>d, <2>c, <2>f, <2>x, <2>s, <1>n, <1>b, <2>v, <3>1 DEF Numerals, None, Matches,
           Written, Saved, Session, Ended, Staged, Ordered, Numbered, Slid, SessionRecord
      <4> QED
        BY Zenon, <4>1, <4>2, <4>3, <4>4 DEF Matches, Written
    <3> QED
      BY <3>2, <3>3
  <2>5. Owned'
    BY <1>1, <2>d, <2>c, <2>f, <2>x, <2>s, <1>n, <1>b, <2>v DEF Numerals, Owned, Taken, Staged,
       Levels
  <2>6. Heard'
    BY <1>1, <2>d, <2>c, <2>f, <2>x, <2>s, <1>n, <1>b, <2>v DEF Numerals, Heard, Taken, LevelOf,
       Staged, Ordered, Numbered, Slid, Chosen
  <2>7. Claimed'
    BY SMTT(60), <1>1, <2>d, <2>c, <2>f, <2>x, <2>s, <1>n, <1>b, <2>v DEF Numerals, Claimed, None, Beliefs,
       Believed, Claim, Playable, Current, Session, Saved, Staged, Ordered, Numbered, Slid
  <2>8. Pressed'
    <3>1. pressed' # None => pressed'[1] # 0 /\ pressed'[1] <= spent'.sessions /\ pressed'[2] <= files'.cb /\ files'.master >= 0
      BY SMTT(60), <1>1, <2>d, <2>c, <2>f, <2>x, <2>s, <1>n, <1>b, <2>v, <1>m DEF Numerals, Levels, None,
         Pressed, Overrides, Session, Saved, Ended, Relied, Staged, Ordered, Numbered, Slid,
         Chosen, Written, SessionRecord
    <3>2. pressed' # None /\ d'.up => Overrides(Standing)'
      BY <1>1, <2>d, <2>c, <2>f, <2>x, <2>s, <1>n, <1>b, <2>v, <1>m DEF Numerals, Levels, None,
         Pressed, Overrides, Session, Saved, Ended, Relied, Staged, Ordered, Numbered, Slid,
         Chosen, Written, SessionRecord
    <3>3. pressed' # None /\ d'.up /\ pressed'[1] = files'.marker =>
          Standing'.sess = files'.marker \/ (d'.ended /\ d'.newest = files'.marker)
      BY SMTT(60), <1>1, <2>d, <2>c, <2>f, <2>x, <2>s, <1>n, <1>b, <2>v, <1>m DEF Numerals, Levels, None,
         Pressed, Overrides, Session, Saved, Ended, Relied, Staged, Ordered, Numbered, Slid,
         Chosen, Written, SessionRecord
    <3>4. pressed' # None /\ d'.op \in {"saveV", "setV"} /\ d'.s.sess = pressed'[1] => d'.s.cb > pressed'[2]
      BY <1>1, <2>d, <2>c, <2>f, <2>x, <2>s, <1>n, <1>b, <2>v, <1>m DEF Numerals, Levels, None,
         Pressed, Overrides, Session, Saved, Ended, Relied, Staged, Ordered, Numbered, Slid,
         Chosen, Written, SessionRecord
    <3>5. pressed' # None /\ Relied' /\ Session' => Overrides(Saved[2])'
      <4> SUFFICES ASSUME pressed' # None, Relied', Session' PROVE Overrides(Saved[2])'
        OBVIOUS
      <4>1. Recorded /\ Written
        BY <1>b, <1>m, <1>n, <2>d DEF Relied
      <4>2. d.s.sess # 0 /\ Saved' = SessionRecord(d.s)
        BY <4>1, <2>f, <2>s, <1>b DEF Written, Session, Saved, Ended, Staged, EndedRecord, None
      <4>3. Saved'[2] = d.s
        BY <4>2 DEF SessionRecord
      <4>4. CASE d.s.override
        BY <4>2, <4>3, <4>4, <2>x DEF Overrides, Chosen
      <4>5. CASE ~d.s.override
        BY <4>2, <4>3, <4>5, <2>x, <2>s, <1>b DEF Overrides, Chosen, Pressed
      <4> QED
        BY <4>4, <4>5
    <3>6. d'.up
      BY <1>1, <2>d, <2>c, <2>f, <2>x, <2>s, <1>n, <1>b, <2>v, <1>m DEF Numerals, Levels, None,
         Pressed, Overrides, Session, Saved, Ended, Relied, Staged, Ordered, Numbered, Slid,
         Chosen, Written, SessionRecord
    <3> QED
      BY <3>1, <3>2, <3>3, <3>4, <3>5, <3>6 DEF Pressed
  <2> QED
    BY <2>1, <2>2, <2>3, <2>4, <2>5, <2>6, <2>7, <2>8 DEF Sound
<1>2. CASE Fault /\ Finish(d, FALSE) /\ UNCHANGED <<files, pressed>>
  <2>d. /\ (d'.up <=> d.up) /\ d'.s = d.s /\ d'.prev = d.prev /\ d'.newest = d.newest
        /\ (d'.ended <=> d.ended) /\ (d'.pending <=> d.pending) /\ (d'.publish <=> d.publish)
        /\ d'.volume = d.volume /\ d'.requested = d.requested /\ d'.op = "idle" /\ d'.target = d.target
        /\ d'.from = "none"
    BY <1>2, <1>t DEF PublishStartup, VolumeType, HwRec, Goto, Finish, Published, SetEnded
  <2>c. /\ (c'.up <=> c.up) /\ (c'.enabled <=> c.enabled) /\ c'.m = c.m /\ c'.v = c.v /\ c'.level = c.level
        /\ c'.sess = c.sess /\ c'.confirmed = c.confirmed /\ c'.pc \in {c.pc, "idle"}
    BY Zenon, <1>2, <1>t, AnswerTo DEF PublishStartup, Finish, VolumeType
  <2>f. files' = files
    BY <1>2, <1>t DEF PublishStartup
  <2>x. asked' = asked /\ pressed' = pressed /\ spent'.sessions = spent.sessions
    BY <1>2, <1>t, Spent DEF PublishStartup, Fault
  <2>s. Standing = d.s /\ Standing' = d.s
    BY <1>2, <2>d, <1>b DEF Standing, Changing
  <2>1. Staged'
    BY <1>2, <2>d, <2>c, <2>f, <2>x, <2>s, <1>n, <1>b DEF Numerals, Staged
  <2>2. Ordered'
    BY <1>2, <2>d, <2>c, <2>f, <2>x, <2>s, <1>n, <1>b DEF Numerals, Ordered, Numbered, Slid, Staged
  <2>3. Beliefs'
    BY <1>2, <2>d, <2>c, <2>f, <2>x, <2>s, <1>n, <1>b DEF Numerals, Beliefs, Believed
  <2>4. Durable'
    <3> SUFFICES ASSUME Relied' PROVE Recorded' /\ (d'.up => Matches')
      BY DEF Durable
    <3>1. Recorded /\ Written
      BY <1>2, <2>d, <2>c, <2>f, <2>x, <2>s, <1>n, <1>b, <1>m DEF Relied
    <3>2. Recorded'
      BY <1>2, <2>d, <2>c, <2>f, <2>x, <2>s, <1>n, <1>b, <3>1 DEF Numerals, Levels, None,
         Recorded, Session, Ended, Saved, Numbered, Slid, Taken, Staged, Ordered, Owned
    <3>3. Matches'
      BY ZenonT(60), <1>2, <2>d, <2>c, <2>f, <2>x, <2>s, <1>n, <1>b, <3>1 DEF Numerals, None, Matches,
         Written, Saved, Session, Ended, Staged, Ordered, Numbered, Slid
    <3> QED
      BY <3>2, <3>3
  <2>5. Owned'
    BY <1>2, <2>d, <2>c, <2>f, <2>x, <2>s, <1>n, <1>b DEF Numerals, Owned, Taken, Staged
  <2>6. Heard'
    BY <1>2, <2>d, <2>c, <2>f, <2>x, <2>s, <1>n, <1>b DEF Numerals, Heard, Taken, LevelOf, Staged,
       Ordered, Numbered, Slid
  <2>7. Claimed'
    BY <1>2, <2>d, <2>c, <2>f, <2>x, <2>s, <1>n, <1>b DEF Numerals, Claimed, None, Beliefs,
       Believed, Claim, Playable, Current, Session, Saved, Staged, Ordered, Numbered, Slid
  <2>8. Pressed'
    BY <1>2, <2>d, <2>c, <2>f, <2>x, <2>s, <1>n, <1>b, <1>m DEF Numerals, Levels, None, Pressed,
       Overrides, Session, Saved, Ended, Relied, Staged, Ordered, Numbered, Slid
  <2> QED
    BY <2>1, <2>2, <2>3, <2>4, <2>5, <2>6, <2>7, <2>8 DEF Sound
<1> QED
  BY Zenon, <1>1, <1>2 DEF PublishStartup

(* A session found in the record is heard again, at the owner's level if it *)
(* was overridden.                                                          *)
LEMMA ResumeKeeps ==
  ASSUME VolumeType, VolumeType', Sound, Undoable, UNCHANGED setup, Resume
  PROVE  Sound'
<1>t. VolumeType /\ VolumeType' /\ setup' = setup
  OBVIOUS
<1>n. Numerals /\ setup' = setup
  BY Numbers
<1>b. /\ d.up /\ d.op = "resume"
      /\ Undoable /\ Staged /\ Ordered /\ Beliefs /\ Durable /\ Owned /\ Heard /\ Claimed /\ Pressed
  BY DEF Sound, Resume, At, Serving, Ready, VolumeType, Aimed
<1>m. Relied => Recorded /\ Written
  BY <1>b DEF Durable, Matches
<1>1. CASE Publish(IF d.s.override THEN d.s.base ELSE d.s.sender) /\ pressed' = Chosen /\ UNCHANGED spent
        /\ Finish([Published(IF d.s.override THEN d.s.base ELSE d.s.sender) EXCEPT !.requested = d.s.base], TRUE)
  <2>d. /\ (d'.up <=> d.up) /\ d'.s = d.s /\ d'.prev = d.prev /\ d'.newest = d.newest
        /\ (d'.ended <=> d.ended) /\ (d'.pending <=> d.pending) /\ (d'.publish <=> FALSE)
        /\ d'.volume = (IF d.s.override THEN d.s.base ELSE d.s.sender) /\ d'.requested = d.s.base
        /\ d'.op = "idle" /\ d'.target = d.target /\ d'.from = "none"
    BY SMTT(60), <1>1, <1>t DEF Resume, VolumeType, HwRec, Goto, Finish, Published, SetEnded
  <2>c. /\ (c'.up <=> c.up) /\ (c'.enabled <=> c.enabled) /\ c'.m = c.m /\ c'.v = c.v /\ c'.level = c.level
        /\ \/ c'.pc \in {c.pc, "idle"} /\ c'.sess = c.sess /\ c'.confirmed = c.confirmed
           \/ d.from = "airplayd" /\ c.pc = "call" /\ c'.pc = "status"
              /\ c'.sess = c.sess /\ c'.confirmed = <<c.m, c.v>>
           \/ d.from = "airplayd" /\ c.pc = "end" /\ c'.pc = "idle" /\ c'.sess = 0 /\ c'.confirmed = None
    BY ZenonT(60), <1>1, <1>t, Accepted DEF Resume, Finish, VolumeType
  <2>f. /\ files'.master = (IF d.s.override THEN d.s.base ELSE d.s.sender)
        /\ files'.record = files.record /\ files'.marker = files.marker /\ files'.cb = files.cb
        /\ files'.db = files.db /\ files'.ack = files.ack /\ files'.left = files.left
    BY <1>1, <1>t DEF Resume, VolumeType, FilesRec, SaveRecord, Publish, Revoke
  <2>x. asked' = asked /\ pressed' = Chosen /\ spent' = spent
    BY <1>1, <1>t, Spent DEF Resume, Fault
  <2>s. Standing = d.s /\ Standing' = d.s
    BY <1>1, <2>d, <1>b DEF Standing, Changing
  <2>v. files'.master \in 0..100 /\ files'.master >= 0
    <3>1. (IF d.s.override THEN d.s.base ELSE d.s.sender) \in 0..100
      BY <1>1, <1>n, <1>b DEF Numerals, Levels
    <3>2. files'.master \in 0..100
      BY <3>1, <2>f
    <3> QED
      BY <3>2
  <2>1. Staged'
    BY <1>1, <2>d, <2>c, <2>f, <2>x, <2>s, <1>n, <1>b, <2>v DEF Numerals, Staged
  <2>2. Ordered'
    BY <1>1, <2>d, <2>c, <2>f, <2>x, <2>s, <1>n, <1>b, <2>v DEF Numerals, Ordered, Numbered, Slid,
       Staged
  <2>3. Beliefs'
    BY <1>1, <2>d, <2>c, <2>f, <2>x, <2>s, <1>n, <1>b, <2>v DEF Numerals, Beliefs, Believed
  <2>4. Durable'
    <3> SUFFICES ASSUME Relied' PROVE Recorded' /\ (d'.up => Matches')
      BY DEF Durable
    <3>1. Recorded /\ Written
      BY <1>1, <2>d, <2>c, <2>f, <2>x, <2>s, <1>n, <1>b, <2>v, <1>m DEF Relied
    <3>2. Recorded'
      BY <1>1, <2>d, <2>c, <2>f, <2>x, <2>s, <1>n, <1>b, <2>v, <3>1 DEF Numerals, Levels, None,
         Recorded, Session, Ended, Saved, Numbered, Slid, Taken, Staged, Ordered, Owned, Written,
         SessionRecord
    <3>3. Matches'
      BY ZenonT(60), <1>1, <2>d, <2>c, <2>f, <2>x, <2>s, <1>n, <1>b, <2>v, <3>1 DEF Numerals, None, Matches,
         Written, Saved, Session, Ended, Staged, Ordered, Numbered, Slid
    <3> QED
      BY <3>2, <3>3
  <2>5. Owned'
    BY <1>1, <2>d, <2>c, <2>f, <2>x, <2>s, <1>n, <1>b, <2>v DEF Numerals, Owned, Taken, Staged,
       Levels
  <2>6. Heard'
    BY <1>1, <2>d, <2>c, <2>f, <2>x, <2>s, <1>n, <1>b, <2>v DEF Numerals, Heard, Taken, LevelOf,
       Staged, Ordered, Numbered, Slid, Chosen
  <2>7. Claimed'
    BY <1>1, <2>d, <2>c, <2>f, <2>x, <2>s, <1>n, <1>b, <2>v DEF Numerals, Claimed, None, Beliefs,
       Believed, Claim, Playable, Current, Session, Saved, Staged, Ordered, Numbered, Slid
  <2>8. Pressed'
    <3>1. pressed' # None => pressed'[1] # 0 /\ pressed'[1] <= spent'.sessions /\ pressed'[2] <= files'.cb /\ files'.master >= 0
      BY SMTT(60), <1>1, <2>d, <2>c, <2>f, <2>x, <2>s, <1>n, <1>b, <2>v, <1>m DEF Numerals, Levels, None,
         Pressed, Overrides, Session, Saved, Ended, Relied, Staged, Ordered, Numbered, Slid,
         Chosen, Written, SessionRecord
    <3>2. pressed' # None /\ d'.up => Overrides(Standing)'
      BY <1>1, <2>d, <2>c, <2>f, <2>x, <2>s, <1>n, <1>b, <2>v, <1>m DEF Numerals, Levels, None,
         Pressed, Overrides, Session, Saved, Ended, Relied, Staged, Ordered, Numbered, Slid,
         Chosen, Written, SessionRecord
    <3>3. pressed' # None /\ d'.up /\ pressed'[1] = files'.marker =>
          Standing'.sess = files'.marker \/ (d'.ended /\ d'.newest = files'.marker)
      BY SMTT(60), <1>1, <2>d, <2>c, <2>f, <2>x, <2>s, <1>n, <1>b, <2>v, <1>m DEF Numerals, Levels, None,
         Pressed, Overrides, Session, Saved, Ended, Relied, Staged, Ordered, Numbered, Slid,
         Chosen, Written, SessionRecord
    <3>4. pressed' # None /\ d'.op \in {"saveV", "setV"} /\ d'.s.sess = pressed'[1] => d'.s.cb > pressed'[2]
      BY <1>1, <2>d, <2>c, <2>f, <2>x, <2>s, <1>n, <1>b, <2>v, <1>m DEF Numerals, Levels, None,
         Pressed, Overrides, Session, Saved, Ended, Relied, Staged, Ordered, Numbered, Slid,
         Chosen, Written, SessionRecord
    <3>5. pressed' # None /\ Relied' /\ Session' => Overrides(Saved[2])'
      <4> SUFFICES ASSUME pressed' # None, Relied', Session' PROVE Overrides(Saved[2])'
        OBVIOUS
      <4>1. Recorded /\ Written
        BY <1>b, <1>m, <1>n, <2>d DEF Relied
      <4>2. d.s.sess # 0 /\ Saved' = SessionRecord(d.s)
        BY <4>1, <2>f, <2>s, <1>b DEF Written, Session, Saved, Ended, Staged, EndedRecord, None
      <4>3. Saved'[2] = d.s
        BY <4>2 DEF SessionRecord
      <4>4. CASE d.s.override
        BY <4>2, <4>3, <4>4, <2>x DEF Overrides, Chosen
      <4>5. CASE ~d.s.override
        BY <4>2, <4>3, <4>5, <2>x, <2>s, <1>b DEF Overrides, Chosen, Pressed
      <4> QED
        BY <4>4, <4>5
    <3>6. d'.up
      BY SMTT(60), <1>1, <2>d, <2>c, <2>f, <2>x, <2>s, <1>n, <1>b, <2>v, <1>m DEF Numerals, Levels, None,
         Pressed, Overrides, Session, Saved, Ended, Relied, Staged, Ordered, Numbered, Slid,
         Chosen, Written, SessionRecord
    <3> QED
      BY <3>1, <3>2, <3>3, <3>4, <3>5, <3>6 DEF Pressed
  <2> QED
    BY <2>1, <2>2, <2>3, <2>4, <2>5, <2>6, <2>7, <2>8 DEF Sound
<1>2. CASE Fault /\ Finish([d EXCEPT !.volume = (IF d.s.override THEN d.s.base ELSE d.s.sender), !.publish = TRUE], FALSE) /\ UNCHANGED <<files, pressed>>
  <2>d. /\ (d'.up <=> d.up) /\ d'.s = d.s /\ d'.prev = d.prev /\ d'.newest = d.newest
        /\ (d'.ended <=> d.ended) /\ (d'.pending <=> d.pending) /\ (d'.publish <=> TRUE)
        /\ d'.volume = (IF d.s.override THEN d.s.base ELSE d.s.sender) /\ d'.requested = d.requested
        /\ d'.op = "idle" /\ d'.target = d.target /\ d'.from = "none"
    BY <1>2, <1>t DEF Resume, VolumeType, HwRec, Goto, Finish, Published, SetEnded
  <2>c. /\ (c'.up <=> c.up) /\ (c'.enabled <=> c.enabled) /\ c'.m = c.m /\ c'.v = c.v /\ c'.level = c.level
        /\ c'.sess = c.sess /\ c'.confirmed = c.confirmed /\ c'.pc \in {c.pc, "idle"}
    BY Zenon, <1>2, <1>t, AnswerTo DEF Resume, Finish, VolumeType
  <2>f. files' = files
    BY <1>2, <1>t DEF Resume
  <2>x. asked' = asked /\ pressed' = pressed /\ spent'.sessions = spent.sessions
    BY <1>2, <1>t, Spent DEF Resume, Fault
  <2>s. Standing = d.s /\ Standing' = d.s
    BY <1>2, <2>d, <1>b DEF Standing, Changing
  <2>1. Staged'
    BY <1>2, <2>d, <2>c, <2>f, <2>x, <2>s, <1>n, <1>b DEF Numerals, Staged
  <2>2. Ordered'
    BY <1>2, <2>d, <2>c, <2>f, <2>x, <2>s, <1>n, <1>b DEF Numerals, Ordered, Numbered, Slid, Staged
  <2>3. Beliefs'
    BY <1>2, <2>d, <2>c, <2>f, <2>x, <2>s, <1>n, <1>b DEF Numerals, Beliefs, Believed
  <2>4. Durable'
    <3> SUFFICES ASSUME Relied' PROVE Recorded' /\ (d'.up => Matches')
      BY DEF Durable
    <3>1. Recorded /\ Written
      BY <1>2, <2>d, <2>c, <2>f, <2>x, <2>s, <1>n, <1>b, <1>m DEF Relied
    <3>2. Recorded'
      BY <1>2, <2>d, <2>c, <2>f, <2>x, <2>s, <1>n, <1>b, <3>1 DEF Numerals, Levels, None,
         Recorded, Session, Ended, Saved, Numbered, Slid, Taken, Staged, Ordered, Owned
    <3>3. Matches'
      BY ZenonT(60), <1>2, <2>d, <2>c, <2>f, <2>x, <2>s, <1>n, <1>b, <3>1 DEF Numerals, None, Matches,
         Written, Saved, Session, Ended, Staged, Ordered, Numbered, Slid
    <3> QED
      BY <3>2, <3>3
  <2>5. Owned'
    BY <1>2, <2>d, <2>c, <2>f, <2>x, <2>s, <1>n, <1>b DEF Numerals, Owned, Taken, Staged
  <2>6. Heard'
    BY <1>2, <2>d, <2>c, <2>f, <2>x, <2>s, <1>n, <1>b DEF Numerals, Heard, Taken, LevelOf, Staged,
       Ordered, Numbered, Slid
  <2>7. Claimed'
    BY SMTT(60), <1>2, <2>d, <2>c, <2>f, <2>x, <2>s, <1>n, <1>b DEF Numerals, Claimed, None, Beliefs,
       Believed, Claim, Playable, Current, Session, Saved, Staged, Ordered, Numbered, Slid
  <2>8. Pressed'
    BY <1>2, <2>d, <2>c, <2>f, <2>x, <2>s, <1>n, <1>b, <1>m DEF Numerals, Levels, None, Pressed,
       Overrides, Session, Saved, Ended, Relied, Staged, Ordered, Numbered, Slid
  <2> QED
    BY <2>1, <2>2, <2>3, <2>4, <2>5, <2>6, <2>7, <2>8 DEF Sound
<1> QED
  BY Zenon, <1>1, <1>2 DEF Resume
(* The loop: a restoration owed, a start-up level, or a session whose marker *)
(* may have gone.                                                           *)
LEMMA PollKeeps ==
  ASSUME VolumeType, VolumeType', Sound, Undoable, UNCHANGED setup, Poll
  PROVE  Sound'
<1>t. VolumeType /\ VolumeType' /\ setup' = setup
  OBVIOUS
<1>n. Numerals /\ setup' = setup
  BY Numbers
<1>b. /\ d.up /\ d.op = "idle"
      /\ Undoable /\ Staged /\ Ordered /\ Beliefs /\ Durable /\ Owned /\ Heard /\ Claimed /\ Pressed
  BY DEF Sound, Poll, At, Serving, Ready, VolumeType, Aimed
<1>m. Relied => Recorded /\ Written
  BY <1>b DEF Durable, Matches
<1>1. CASE d.pending /\ Revoke /\ Goto(d, "restore")
  <2>d. /\ (d'.up <=> d.up) /\ d'.s = d.s /\ d'.prev = d.prev /\ d'.newest = d.newest
        /\ (d'.ended <=> d.ended) /\ (d'.pending <=> d.pending) /\ (d'.publish <=> d.publish)
        /\ d'.volume = d.volume /\ d'.requested = d.requested /\ d'.op = "restore"
        /\ d'.target = d.target /\ d'.from = d.from
    BY <1>1, <1>t DEF Poll, VolumeType, HwRec, Goto, Finish, Published, SetEnded
  <2>c. c' = c
    BY <1>1 DEF Poll, Goto, ReplyNow
  <2>f. /\ files'.master = files.master /\ files'.record = files.record /\ files'.marker = files.marker
        /\ files'.cb = files.cb /\ files'.db = files.db /\ files'.ack = None
        /\ files'.left = files.left
    BY <1>1, <1>t DEF Poll, VolumeType, FilesRec, SaveRecord, Publish, Revoke
  <2>x. asked' = asked /\ pressed' = pressed /\ spent' = spent
    BY <1>1, <1>t, Spent DEF Poll, Fault
  <2>s. Standing = d.s /\ Standing' = d.s
    BY <1>1, <2>d, <1>b DEF Standing, Changing
  <2>1. Staged'
    BY <1>1, <2>d, <2>c, <2>f, <2>x, <2>s, <1>n, <1>b DEF Numerals, Staged
  <2>2. Ordered'
    BY <1>1, <2>d, <2>c, <2>f, <2>x, <2>s, <1>n, <1>b DEF Numerals, Ordered, Numbered, Slid, Staged
  <2>3. Beliefs'
    BY <1>1, <2>d, <2>c, <2>f, <2>x, <2>s, <1>n, <1>b DEF Numerals, Beliefs, Believed
  <2>4. Durable'
    <3> SUFFICES ASSUME Relied' PROVE Recorded' /\ (d'.up => Matches')
      BY DEF Durable
    <3>1. Recorded /\ Written
      BY <1>1, <2>d, <2>c, <2>f, <2>x, <2>s, <1>n, <1>b, <1>m DEF Relied
    <3>2. Recorded'
      BY <1>1, <2>d, <2>c, <2>f, <2>x, <2>s, <1>n, <1>b, <3>1 DEF Numerals, Levels, None,
         Recorded, Session, Ended, Saved, Numbered, Slid, Taken, Staged, Ordered, Owned
    <3>3. Matches'
      BY ZenonT(60), <1>1, <2>d, <2>c, <2>f, <2>x, <2>s, <1>n, <1>b, <3>1 DEF Numerals, None, Matches,
         Written, Saved, Session, Ended, Staged, Ordered, Numbered, Slid
    <3> QED
      BY <3>2, <3>3
  <2>5. Owned'
    BY <1>1, <2>d, <2>c, <2>f, <2>x, <2>s, <1>n, <1>b DEF Numerals, Owned, Taken, Staged
  <2>6. Heard'
    BY <1>1, <2>d, <2>c, <2>f, <2>x, <2>s, <1>n, <1>b DEF Numerals, Heard, Taken, LevelOf, Staged,
       Ordered, Numbered, Slid
  <2>7. Claimed'
    BY <1>1, <2>d, <2>c, <2>f, <2>x, <2>s, <1>n, <1>b DEF Numerals, Claimed, None, Beliefs,
       Believed, Claim, Playable, Current, Session, Saved, Staged, Ordered, Numbered, Slid
  <2>8. Pressed'
    BY <1>1, <2>d, <2>c, <2>f, <2>x, <2>s, <1>n, <1>b, <1>m DEF Numerals, Levels, None, Pressed,
       Overrides, Session, Saved, Ended, Relied, Staged, Ordered, Numbered, Slid
  <2> QED
    BY <2>1, <2>2, <2>3, <2>4, <2>5, <2>6, <2>7, <2>8 DEF Sound
<1>2. CASE ~d.pending /\ d.s.sess = 0 /\ d.publish /\ Goto(d, "publish") /\ UNCHANGED files
  <2>d. /\ (d'.up <=> d.up) /\ d'.s = d.s /\ d'.prev = d.prev /\ d'.newest = d.newest
        /\ (d'.ended <=> d.ended) /\ (d'.pending <=> d.pending) /\ (d'.publish <=> d.publish)
        /\ d'.volume = d.volume /\ d'.requested = d.requested /\ d'.op = "publish"
        /\ d'.target = d.target /\ d'.from = d.from
    BY <1>2, <1>t DEF Poll, VolumeType, HwRec, Goto, Finish, Published, SetEnded
  <2>c. c' = c
    BY <1>2 DEF Poll, Goto, ReplyNow
  <2>f. files' = files
    BY <1>2, <1>t DEF Poll
  <2>x. asked' = asked /\ pressed' = pressed /\ spent' = spent
    BY <1>2, <1>t, Spent DEF Poll, Fault
  <2>s. Standing = d.s /\ Standing' = d.s
    BY <1>2, <2>d, <1>b DEF Standing, Changing
  <2>1. Staged'
    BY <1>2, <2>d, <2>c, <2>f, <2>x, <2>s, <1>n, <1>b DEF Numerals, Staged
  <2>2. Ordered'
    BY <1>2, <2>d, <2>c, <2>f, <2>x, <2>s, <1>n, <1>b DEF Numerals, Ordered, Numbered, Slid, Staged
  <2>3. Beliefs'
    BY <1>2, <2>d, <2>c, <2>f, <2>x, <2>s, <1>n, <1>b DEF Numerals, Beliefs, Believed
  <2>4. Durable'
    <3> SUFFICES ASSUME Relied' PROVE Recorded' /\ (d'.up => Matches')
      BY DEF Durable
    <3>1. Recorded /\ Written
      BY <1>2, <2>d, <2>c, <2>f, <2>x, <2>s, <1>n, <1>b, <1>m DEF Relied
    <3>2. Recorded'
      BY <1>2, <2>d, <2>c, <2>f, <2>x, <2>s, <1>n, <1>b, <3>1 DEF Numerals, Levels, None,
         Recorded, Session, Ended, Saved, Numbered, Slid, Taken, Staged, Ordered, Owned
    <3>3. Matches'
      BY ZenonT(60), <1>2, <2>d, <2>c, <2>f, <2>x, <2>s, <1>n, <1>b, <3>1 DEF Numerals, None, Matches,
         Written, Saved, Session, Ended, Staged, Ordered, Numbered, Slid
    <3> QED
      BY <3>2, <3>3
  <2>5. Owned'
    BY <1>2, <2>d, <2>c, <2>f, <2>x, <2>s, <1>n, <1>b DEF Numerals, Owned, Taken, Staged
  <2>6. Heard'
    BY <1>2, <2>d, <2>c, <2>f, <2>x, <2>s, <1>n, <1>b DEF Numerals, Heard, Taken, LevelOf, Staged,
       Ordered, Numbered, Slid
  <2>7. Claimed'
    BY <1>2, <2>d, <2>c, <2>f, <2>x, <2>s, <1>n, <1>b DEF Numerals, Claimed, None, Beliefs,
       Believed, Claim, Playable, Current, Session, Saved, Staged, Ordered, Numbered, Slid
  <2>8. Pressed'
    BY <1>2, <2>d, <2>c, <2>f, <2>x, <2>s, <1>n, <1>b, <1>m DEF Numerals, Levels, None, Pressed,
       Overrides, Session, Saved, Ended, Relied, Staged, Ordered, Numbered, Slid
  <2> QED
    BY <2>1, <2>2, <2>3, <2>4, <2>5, <2>6, <2>7, <2>8 DEF Sound
<1>3. CASE ~d.pending /\ d.s.sess # 0 /\ UNCHANGED files /\ files.marker # 0
        /\ Goto([d EXCEPT !.missing = FALSE], IF d.publish THEN "publish" ELSE "idle")
  <2>d. /\ (d'.up <=> d.up) /\ d'.s = d.s /\ d'.prev = d.prev /\ d'.newest = d.newest
        /\ (d'.ended <=> d.ended) /\ (d'.pending <=> d.pending) /\ (d'.publish <=> d.publish)
        /\ d'.volume = d.volume /\ d'.requested = d.requested
        /\ d'.op = (IF d.publish THEN "publish" ELSE "idle") /\ d'.target = d.target
        /\ d'.from = d.from
    BY <1>3, <1>t DEF Poll, VolumeType, HwRec, Goto, Finish, Published, SetEnded
  <2>c. c' = c
    BY <1>3 DEF Poll, Goto, ReplyNow
  <2>f. files' = files
    BY <1>3, <1>t DEF Poll
  <2>x. asked' = asked /\ pressed' = pressed /\ spent' = spent
    BY <1>3, <1>t, Spent DEF Poll, Fault
  <2>s. Standing = d.s /\ Standing' = d.s
    BY <1>3, <2>d, <1>b DEF Standing, Changing
  <2>1. Staged'
    BY <1>3, <2>d, <2>c, <2>f, <2>x, <2>s, <1>n, <1>b DEF Numerals, Staged
  <2>2. Ordered'
    BY <1>3, <2>d, <2>c, <2>f, <2>x, <2>s, <1>n, <1>b DEF Numerals, Ordered, Numbered, Slid, Staged
  <2>3. Beliefs'
    BY <1>3, <2>d, <2>c, <2>f, <2>x, <2>s, <1>n, <1>b DEF Numerals, Beliefs, Believed
  <2>4. Durable'
    <3> SUFFICES ASSUME Relied' PROVE Recorded' /\ (d'.up => Matches')
      BY DEF Durable
    <3>1. Recorded /\ Written
      BY <1>3, <2>d, <2>c, <2>f, <2>x, <2>s, <1>n, <1>b, <1>m DEF Relied
    <3>2. Recorded'
      BY <1>3, <2>d, <2>c, <2>f, <2>x, <2>s, <1>n, <1>b, <3>1 DEF Numerals, Levels, None,
         Recorded, Session, Ended, Saved, Numbered, Slid, Taken, Staged, Ordered, Owned
    <3>3. Matches'
      BY Zenon, <1>3, <2>d, <2>c, <2>f, <2>x, <2>s, <1>n, <1>b, <3>1 DEF Numerals, None, Matches,
         Written, Saved, Session, Ended, Staged, Ordered, Numbered, Slid
    <3> QED
      BY <3>2, <3>3
  <2>5. Owned'
    BY <1>3, <2>d, <2>c, <2>f, <2>x, <2>s, <1>n, <1>b DEF Numerals, Owned, Taken, Staged
  <2>6. Heard'
    BY <1>3, <2>d, <2>c, <2>f, <2>x, <2>s, <1>n, <1>b DEF Numerals, Heard, Taken, LevelOf, Staged,
       Ordered, Numbered, Slid
  <2>7. Claimed'
    BY <1>3, <2>d, <2>c, <2>f, <2>x, <2>s, <1>n, <1>b DEF Numerals, Claimed, None, Beliefs,
       Believed, Claim, Playable, Current, Session, Saved, Staged, Ordered, Numbered, Slid
  <2>8. Pressed'
    BY SMTT(60), <1>3, <2>d, <2>c, <2>f, <2>x, <2>s, <1>n, <1>b, <1>m DEF Numerals, Levels, None, Pressed,
       Overrides, Session, Saved, Ended, Relied, Staged, Ordered, Numbered, Slid
  <2> QED
    BY <2>1, <2>2, <2>3, <2>4, <2>5, <2>6, <2>7, <2>8 DEF Sound
<1>4. CASE ~d.pending /\ d.s.sess # 0 /\ Revoke /\ files.marker # 0
        /\ Goto([d EXCEPT !.missing = TRUE], IF d.publish THEN "publish" ELSE "idle")
  <2>d. /\ (d'.up <=> d.up) /\ d'.s = d.s /\ d'.prev = d.prev /\ d'.newest = d.newest
        /\ (d'.ended <=> d.ended) /\ (d'.pending <=> d.pending) /\ (d'.publish <=> d.publish)
        /\ d'.volume = d.volume /\ d'.requested = d.requested
        /\ d'.op = (IF d.publish THEN "publish" ELSE "idle") /\ d'.target = d.target
        /\ d'.from = d.from
    BY <1>4, <1>t DEF Poll, VolumeType, HwRec, Goto, Finish, Published, SetEnded
  <2>c. c' = c
    BY <1>4 DEF Poll, Goto, ReplyNow
  <2>f. /\ files'.master = files.master /\ files'.record = files.record /\ files'.marker = files.marker
        /\ files'.cb = files.cb /\ files'.db = files.db /\ files'.ack = None
        /\ files'.left = files.left
    BY <1>4, <1>t DEF Poll, VolumeType, FilesRec, SaveRecord, Publish, Revoke
  <2>x. asked' = asked /\ pressed' = pressed /\ spent' = spent
    BY <1>4, <1>t, Spent DEF Poll, Fault
  <2>s. Standing = d.s /\ Standing' = d.s
    BY <1>4, <2>d, <1>b DEF Standing, Changing
  <2>1. Staged'
    BY <1>4, <2>d, <2>c, <2>f, <2>x, <2>s, <1>n, <1>b DEF Numerals, Staged
  <2>2. Ordered'
    BY <1>4, <2>d, <2>c, <2>f, <2>x, <2>s, <1>n, <1>b DEF Numerals, Ordered, Numbered, Slid, Staged
  <2>3. Beliefs'
    BY <1>4, <2>d, <2>c, <2>f, <2>x, <2>s, <1>n, <1>b DEF Numerals, Beliefs, Believed
  <2>4. Durable'
    <3> SUFFICES ASSUME Relied' PROVE Recorded' /\ (d'.up => Matches')
      BY DEF Durable
    <3>1. Recorded /\ Written
      BY <1>4, <2>d, <2>c, <2>f, <2>x, <2>s, <1>n, <1>b, <1>m DEF Relied
    <3>2. Recorded'
      BY <1>4, <2>d, <2>c, <2>f, <2>x, <2>s, <1>n, <1>b, <3>1 DEF Numerals, Levels, None,
         Recorded, Session, Ended, Saved, Numbered, Slid, Taken, Staged, Ordered, Owned
    <3>3. Matches'
      BY Zenon, <1>4, <2>d, <2>c, <2>f, <2>x, <2>s, <1>n, <1>b, <3>1 DEF Numerals, None, Matches,
         Written, Saved, Session, Ended, Staged, Ordered, Numbered, Slid
    <3> QED
      BY <3>2, <3>3
  <2>5. Owned'
    BY <1>4, <2>d, <2>c, <2>f, <2>x, <2>s, <1>n, <1>b DEF Numerals, Owned, Taken, Staged
  <2>6. Heard'
    BY <1>4, <2>d, <2>c, <2>f, <2>x, <2>s, <1>n, <1>b DEF Numerals, Heard, Taken, LevelOf, Staged,
       Ordered, Numbered, Slid
  <2>7. Claimed'
    BY <1>4, <2>d, <2>c, <2>f, <2>x, <2>s, <1>n, <1>b DEF Numerals, Claimed, None, Beliefs,
       Believed, Claim, Playable, Current, Session, Saved, Staged, Ordered, Numbered, Slid
  <2>8. Pressed'
    BY SMTT(60), <1>4, <2>d, <2>c, <2>f, <2>x, <2>s, <1>n, <1>b, <1>m DEF Numerals, Levels, None, Pressed,
       Overrides, Session, Saved, Ended, Relied, Staged, Ordered, Numbered, Slid
  <2> QED
    BY <2>1, <2>2, <2>3, <2>4, <2>5, <2>6, <2>7, <2>8 DEF Sound
<1>5. CASE ~d.pending /\ d.s.sess # 0 /\ Revoke /\ (files.marker = 0 \/ ~c.up)
        /\ Goto([d EXCEPT !.target = d.s.sess], "tomb")
  <2>d. /\ (d'.up <=> d.up) /\ d'.s = d.s /\ d'.prev = d.prev /\ d'.newest = d.newest
        /\ (d'.ended <=> d.ended) /\ (d'.pending <=> d.pending) /\ (d'.publish <=> d.publish)
        /\ d'.volume = d.volume /\ d'.requested = d.requested /\ d'.op = "tomb" /\ d'.target = d.s.sess
        /\ d'.from = d.from
    BY <1>5, <1>t DEF Poll, VolumeType, HwRec, Goto, Finish, Published, SetEnded
  <2>c. c' = c
    BY <1>5 DEF Poll, Goto, ReplyNow
  <2>f. /\ files'.master = files.master /\ files'.record = files.record /\ files'.marker = files.marker
        /\ files'.cb = files.cb /\ files'.db = files.db /\ files'.ack = None
        /\ files'.left = files.left
    BY <1>5, <1>t DEF Poll, VolumeType, FilesRec, SaveRecord, Publish, Revoke
  <2>x. asked' = asked /\ pressed' = pressed /\ spent' = spent
    BY <1>5, <1>t, Spent DEF Poll, Fault
  <2>s. Standing = d.s /\ Standing' = d.s
    BY <1>5, <2>d, <1>b DEF Standing, Changing
  <2>1. Staged'
    BY <1>5, <2>d, <2>c, <2>f, <2>x, <2>s, <1>n, <1>b DEF Numerals, Staged
  <2>2. Ordered'
    BY <1>5, <2>d, <2>c, <2>f, <2>x, <2>s, <1>n, <1>b DEF Numerals, Ordered, Numbered, Slid, Staged
  <2>3. Beliefs'
    BY <1>5, <2>d, <2>c, <2>f, <2>x, <2>s, <1>n, <1>b DEF Numerals, Beliefs, Believed
  <2>4. Durable'
    <3> SUFFICES ASSUME Relied' PROVE Recorded' /\ (d'.up => Matches')
      BY DEF Durable
    <3>1. Recorded /\ Written
      BY <1>5, <2>d, <2>c, <2>f, <2>x, <2>s, <1>n, <1>b, <1>m DEF Relied
    <3>2. Recorded'
      BY <1>5, <2>d, <2>c, <2>f, <2>x, <2>s, <1>n, <1>b, <3>1 DEF Numerals, Levels, None,
         Recorded, Session, Ended, Saved, Numbered, Slid, Taken, Staged, Ordered, Owned
    <3>3. Matches'
      BY ZenonT(60), <1>5, <2>d, <2>c, <2>f, <2>x, <2>s, <1>n, <1>b, <3>1 DEF Numerals, None, Matches,
         Written, Saved, Session, Ended, Staged, Ordered, Numbered, Slid
    <3> QED
      BY <3>2, <3>3
  <2>5. Owned'
    BY <1>5, <2>d, <2>c, <2>f, <2>x, <2>s, <1>n, <1>b DEF Numerals, Owned, Taken, Staged
  <2>6. Heard'
    BY <1>5, <2>d, <2>c, <2>f, <2>x, <2>s, <1>n, <1>b DEF Numerals, Heard, Taken, LevelOf, Staged,
       Ordered, Numbered, Slid
  <2>7. Claimed'
    <3>1. ~c'.enabled => ~Playable'
      BY <1>5, <2>d, <2>c, <2>f, <2>x, <2>s, <1>n, <1>b DEF Numerals, Claimed, None, Beliefs,
         Believed, Claim, Playable, Current, Session, Saved, Staged, Ordered, Numbered, Slid
    <3>2. c'.pc = "end" /\ Playable' => c'.sess # files'.marker
      BY <1>5, <2>d, <2>c, <2>f, <2>x, <2>s, <1>n, <1>b DEF Numerals, Claimed, None, Beliefs,
         Believed, Claim, Playable, Current, Session, Saved, Staged, Ordered, Numbered, Slid
    <3>3. d'.op = "tomb" /\ Playable' /\ d'.s.sess = files'.marker => ~Claim'
      <4> SUFFICES ASSUME Playable' PROVE ~Claim'
        OBVIOUS
      <4>1. ~c.up
        BY <1>5, <2>f DEF Playable
      <4>2. c.pc = "idle" /\ c.confirmed = None
        BY <4>1, <1>b DEF Beliefs
      <4>3. files'.ack = None /\ Current' # None
        BY <2>f DEF Current, None
      <4> QED
        BY <4>2, <4>3, <2>c DEF Claim
    <3>4. Playable' /\ Claim' => <<Standing'.sess, Standing'.cb>> = Current'
      BY <1>5, <2>d, <2>c, <2>f, <2>x, <2>s, <1>n, <1>b DEF Numerals, Claimed, None, Beliefs,
         Believed, Claim, Playable, Current, Session, Saved, Staged, Ordered, Numbered, Slid
    <3>5. d'.up
      BY <1>5, <2>d, <2>c, <2>f, <2>x, <2>s, <1>n, <1>b DEF Numerals, Claimed, None, Beliefs,
         Believed, Claim, Playable, Current, Session, Saved, Staged, Ordered, Numbered, Slid
    <3> QED
      BY <3>1, <3>2, <3>3, <3>4, <3>5 DEF Claimed
  <2>8. Pressed'
    BY <1>5, <2>d, <2>c, <2>f, <2>x, <2>s, <1>n, <1>b, <1>m DEF Numerals, Levels, None, Pressed,
       Overrides, Session, Saved, Ended, Relied, Staged, Ordered, Numbered, Slid
  <2> QED
    BY <2>1, <2>2, <2>3, <2>4, <2>5, <2>6, <2>7, <2>8 DEF Sound
<1> QED
  BY <1>1, <1>2, <1>3, <1>4, <1>5 DEF Poll, PollSession

(* The owner asks; the session before stands until the choice is heard.     *)
LEMMA OwnerSetsKeeps ==
  ASSUME VolumeType, VolumeType', Sound, Undoable, UNCHANGED setup, NEW v \in setup.levels, OwnerSets(v)
  PROVE  Sound'
<1>t. VolumeType /\ VolumeType' /\ setup' = setup
  OBVIOUS
<1>n. Numerals /\ setup' = setup
  BY Numbers
<1>b. /\ d.up /\ d.op = "idle" /\ ~d.pending
      /\ Undoable /\ Staged /\ Ordered /\ Beliefs /\ Durable /\ Owned /\ Heard /\ Claimed /\ Pressed
  BY DEF Sound, OwnerSets, At, Serving, Ready, VolumeType, Aimed
<1>m. Relied => Recorded /\ Written
  BY <1>b DEF Durable, Matches
<1>1. CASE d.s.sess # 0 /\ Goto([d EXCEPT !.prev = d.s, !.s.base = v, !.s.override = TRUE], "saveO")
  <2>d. /\ (d'.up <=> d.up) /\ d'.s = [d.s EXCEPT !.base = v, !.override = TRUE] /\ d'.prev = d.s
        /\ d'.newest = d.newest /\ (d'.ended <=> d.ended) /\ (d'.pending <=> d.pending)
        /\ (d'.publish <=> d.publish) /\ d'.volume = d.volume /\ d'.requested = d.requested
        /\ d'.op = "saveO" /\ d'.target = d.target /\ d'.from = d.from
    BY <1>1, <1>t DEF OwnerSets, VolumeType, HwRec, Goto, Finish, Published, SetEnded
  <2>c. c' = c
    BY <1>1 DEF OwnerSets, Goto, ReplyNow
  <2>f. files' = files
    BY <1>1, <1>t DEF OwnerSets
  <2>x. asked' = asked /\ pressed' = pressed /\ spent'.sessions = spent.sessions
    BY <1>1, <1>t, Spent DEF OwnerSets, Fault
  <2>s. Standing = d.s /\ Standing' = d.s
    BY <1>1, <2>d, <1>b DEF Standing, Changing
  <2>e. d'.s.sess = d.s.sess /\ d'.s.cb = d.s.cb /\ d'.s.sender = d.s.sender /\ d'.s.override = TRUE
    BY <2>d, <1>t DEF VolumeType, HwRec, SessRec
  <2>1. Staged'
    BY <1>1, <2>d, <2>c, <2>f, <2>x, <2>s, <1>n, <1>b, <2>e DEF Numerals, Staged
  <2>2. Ordered'
    BY <1>1, <2>d, <2>c, <2>f, <2>x, <2>s, <1>n, <1>b, <2>e DEF Numerals, Ordered, Numbered, Slid,
       Staged
  <2>3. Beliefs'
    BY <1>1, <2>d, <2>c, <2>f, <2>x, <2>s, <1>n, <1>b, <2>e DEF Numerals, Beliefs, Believed
  <2>4. Durable'
    <3> SUFFICES ASSUME Relied' PROVE Recorded' /\ (d'.up => Matches')
      BY DEF Durable
    <3>1. Recorded /\ Written
      BY <1>1, <2>d, <2>c, <2>f, <2>x, <2>s, <1>n, <1>b, <2>e, <1>m DEF Relied
    <3>2. Recorded'
      BY <1>1, <2>d, <2>c, <2>f, <2>x, <2>s, <1>n, <1>b, <2>e, <3>1 DEF Numerals, Levels, None,
         Recorded, Session, Ended, Saved, Numbered, Slid, Taken, Staged, Ordered, Owned
    <3>3. Matches'
      BY Zenon, <1>1, <2>d, <2>c, <2>f, <2>x, <2>s, <1>n, <1>b, <2>e, <3>1 DEF Numerals, None, Matches,
         Written, Saved, Session, Ended, Staged, Ordered, Numbered, Slid
    <3> QED
      BY <3>2, <3>3
  <2>5. Owned'
    BY <1>1, <2>d, <2>c, <2>f, <2>x, <2>s, <1>n, <1>b, <2>e DEF Numerals, Owned, Taken, Staged
  <2>6. Heard'
    BY <1>1, <2>d, <2>c, <2>f, <2>x, <2>s, <1>n, <1>b, <2>e DEF Numerals, Heard, Taken, LevelOf,
       Staged, Ordered, Numbered, Slid
  <2>7. Claimed'
    BY <1>1, <2>d, <2>c, <2>f, <2>x, <2>s, <1>n, <1>b, <2>e DEF Numerals, Claimed, None, Beliefs,
       Believed, Claim, Playable, Current, Session, Saved, Staged, Ordered, Numbered, Slid
  <2>8. Pressed'
    BY <1>1, <2>d, <2>c, <2>f, <2>x, <2>s, <1>n, <1>b, <2>e, <1>m DEF Numerals, Levels, None,
       Pressed, Overrides, Session, Saved, Ended, Relied, Staged, Ordered, Numbered, Slid
  <2> QED
    BY <2>1, <2>2, <2>3, <2>4, <2>5, <2>6, <2>7, <2>8 DEF Sound
<1>2. CASE d.s.sess = 0 /\ Goto([d EXCEPT !.target = v], "setO")
  <2>d. /\ (d'.up <=> d.up) /\ d'.s = d.s /\ d'.prev = d.prev /\ d'.newest = d.newest
        /\ (d'.ended <=> d.ended) /\ (d'.pending <=> d.pending) /\ (d'.publish <=> d.publish)
        /\ d'.volume = d.volume /\ d'.requested = d.requested /\ d'.op = "setO" /\ d'.target = v
        /\ d'.from = d.from
    BY <1>2, <1>t DEF OwnerSets, VolumeType, HwRec, Goto, Finish, Published, SetEnded
  <2>c. c' = c
    BY <1>2 DEF OwnerSets, Goto, ReplyNow
  <2>f. files' = files
    BY <1>2, <1>t DEF OwnerSets
  <2>x. asked' = asked /\ pressed' = pressed /\ spent'.sessions = spent.sessions
    BY <1>2, <1>t, Spent DEF OwnerSets, Fault
  <2>s. Standing = d.s /\ Standing' = d.s
    BY <1>2, <2>d, <1>b DEF Standing, Changing
  <2>1. Staged'
    BY <1>2, <2>d, <2>c, <2>f, <2>x, <2>s, <1>n, <1>b DEF Numerals, Staged
  <2>2. Ordered'
    BY <1>2, <2>d, <2>c, <2>f, <2>x, <2>s, <1>n, <1>b DEF Numerals, Ordered, Numbered, Slid, Staged
  <2>3. Beliefs'
    BY <1>2, <2>d, <2>c, <2>f, <2>x, <2>s, <1>n, <1>b DEF Numerals, Beliefs, Believed
  <2>4. Durable'
    <3> SUFFICES ASSUME Relied' PROVE Recorded' /\ (d'.up => Matches')
      BY DEF Durable
    <3>1. Recorded /\ Written
      BY <1>2, <2>d, <2>c, <2>f, <2>x, <2>s, <1>n, <1>b, <1>m DEF Relied
    <3>2. Recorded'
      BY <1>2, <2>d, <2>c, <2>f, <2>x, <2>s, <1>n, <1>b, <3>1 DEF Numerals, Levels, None,
         Recorded, Session, Ended, Saved, Numbered, Slid, Taken, Staged, Ordered, Owned
    <3>3. Matches'
      BY ZenonT(60), <1>2, <2>d, <2>c, <2>f, <2>x, <2>s, <1>n, <1>b, <3>1 DEF Numerals, None, Matches,
         Written, Saved, Session, Ended, Staged, Ordered, Numbered, Slid
    <3> QED
      BY <3>2, <3>3
  <2>5. Owned'
    BY <1>2, <2>d, <2>c, <2>f, <2>x, <2>s, <1>n, <1>b DEF Numerals, Owned, Taken, Staged
  <2>6. Heard'
    BY <1>2, <2>d, <2>c, <2>f, <2>x, <2>s, <1>n, <1>b DEF Numerals, Heard, Taken, LevelOf, Staged,
       Ordered, Numbered, Slid
  <2>7. Claimed'
    BY <1>2, <2>d, <2>c, <2>f, <2>x, <2>s, <1>n, <1>b DEF Numerals, Claimed, None, Beliefs,
       Believed, Claim, Playable, Current, Session, Saved, Staged, Ordered, Numbered, Slid
  <2>8. Pressed'
    BY ZenonT(60), <1>2, <2>d, <2>c, <2>f, <2>x, <2>s, <1>n, <1>b, <1>m DEF Numerals, Levels, None, Pressed,
       Overrides, Session, Saved, Ended, Relied, Staged, Ordered, Numbered, Slid
  <2> QED
    BY <2>1, <2>2, <2>3, <2>4, <2>5, <2>6, <2>7, <2>8 DEF Sound
<1> QED
  BY <1>1, <1>2 DEF OwnerSets

(* A request is refused, and the acknowledgement revoked, while a restoration *)
(* is owed.                                                                 *)
LEMMA RefusePendingKeeps ==
  ASSUME VolumeType, VolumeType', Sound, Undoable, UNCHANGED setup, RefusePending
  PROVE  Sound'
<1>t. VolumeType /\ VolumeType' /\ setup' = setup
  OBVIOUS
<1>n. Numerals /\ setup' = setup
  BY Numbers
<1>b. /\ d.up /\ d.op = "idle" /\ d.pending
      /\ Undoable /\ Staged /\ Ordered /\ Beliefs /\ Durable /\ Owned /\ Heard /\ Claimed /\ Pressed
  BY DEF Sound, RefusePending, At, Serving, Ready, VolumeType, Aimed
<1>m. Relied => Recorded /\ Written
  BY <1>b DEF Durable, Matches
<1>1. CASE Revoke
  <2>d. d' = d
    BY <1>1 DEF RefusePending, ReplyNow
  <2>c. /\ (c'.up <=> c.up) /\ (c'.enabled <=> c.enabled) /\ c'.sess = c.sess
        /\ c'.confirmed = c.confirmed /\ c'.pc = "idle" /\ c'.m = c.m /\ c'.v = c.v
        /\ c'.level = c.level
    BY <1>1, <1>t DEF RefusePending, VolumeType, ClientRec, ReplyNow, Told
  <2>f. /\ files'.master = files.master /\ files'.record = files.record /\ files'.marker = files.marker
        /\ files'.cb = files.cb /\ files'.db = files.db /\ files'.ack = None
        /\ files'.left = files.left
    BY <1>1, <1>t DEF RefusePending, VolumeType, FilesRec, SaveRecord, Publish, Revoke
  <2>x. asked' = asked /\ pressed' = pressed /\ spent'.sessions = spent.sessions
    BY <1>1, <1>t, Spent DEF RefusePending, Fault
  <2>s. Standing' = Standing
    BY <1>1, <2>d, <1>b DEF Standing, Changing
  <2>1. Staged'
    BY <1>1, <2>d, <2>c, <2>f, <2>x, <2>s, <1>n, <1>b DEF Numerals, Staged
  <2>2. Ordered'
    BY <1>1, <2>d, <2>c, <2>f, <2>x, <2>s, <1>n, <1>b DEF Numerals, Ordered, Numbered, Slid, Staged
  <2>3. Beliefs'
    BY <1>1, <2>d, <2>c, <2>f, <2>x, <2>s, <1>n, <1>b DEF Numerals, Beliefs, Believed
  <2>4. Durable'
    <3> SUFFICES ASSUME Relied' PROVE Recorded' /\ (d'.up => Matches')
      BY DEF Durable
    <3>1. Recorded /\ Written
      BY <1>1, <2>d, <2>c, <2>f, <2>x, <2>s, <1>n, <1>b, <1>m DEF Relied
    <3>2. Recorded'
      BY <1>1, <2>d, <2>c, <2>f, <2>x, <2>s, <1>n, <1>b, <3>1 DEF Numerals, Levels, None,
         Recorded, Session, Ended, Saved, Numbered, Slid, Taken, Staged, Ordered, Owned
    <3>3. Matches'
      BY ZenonT(60), <1>1, <2>d, <2>c, <2>f, <2>x, <2>s, <1>n, <1>b, <3>1 DEF Numerals, None, Matches,
         Written, Saved, Session, Ended, Staged, Ordered, Numbered, Slid
    <3> QED
      BY <3>2, <3>3
  <2>5. Owned'
    BY <1>1, <2>d, <2>c, <2>f, <2>x, <2>s, <1>n, <1>b DEF Numerals, Owned, Taken, Staged
  <2>6. Heard'
    BY <1>1, <2>d, <2>c, <2>f, <2>x, <2>s, <1>n, <1>b DEF Numerals, Heard, Taken, LevelOf, Staged,
       Ordered, Numbered, Slid
  <2>7. Claimed'
    BY <1>1, <2>d, <2>c, <2>f, <2>x, <2>s, <1>n, <1>b DEF Numerals, Claimed, None, Beliefs,
       Believed, Claim, Playable, Current, Session, Saved, Staged, Ordered, Numbered, Slid
  <2>8. Pressed'
    BY <1>1, <2>d, <2>c, <2>f, <2>x, <2>s, <1>n, <1>b, <1>m DEF Numerals, Levels, None, Pressed,
       Overrides, Session, Saved, Ended, Relied, Staged, Ordered, Numbered, Slid
  <2> QED
    BY <2>1, <2>2, <2>3, <2>4, <2>5, <2>6, <2>7, <2>8 DEF Sound
<1> QED
  BY <1>1 DEF RefusePending

(* An end of an older or an ended session changes nothing.                  *)
LEMMA ServeEndKeeps ==
  ASSUME VolumeType, VolumeType', Sound, Undoable, UNCHANGED setup, ServeEnd
  PROVE  Sound'
<1>t. VolumeType /\ VolumeType' /\ setup' = setup
  OBVIOUS
<1>n. Numerals /\ setup' = setup
  BY Numbers
<1>b. /\ d.up /\ d.op = "idle" /\ ~d.pending /\ c.pc = "end"
      /\ Undoable /\ Staged /\ Ordered /\ Beliefs /\ Durable /\ Owned /\ Heard /\ Claimed /\ Pressed
  BY DEF Sound, ServeEnd, At, Serving, Ready, VolumeType, Aimed
<1>m. Relied => Recorded /\ Written
  BY <1>b DEF Durable, Matches
<1>1. CASE (c.sess < d.newest \/ (c.sess = d.newest /\ d.ended)) /\ ReplyNow(TRUE) /\ UNCHANGED files
  <2>d. d' = d
    BY <1>1 DEF ServeEnd, ReplyNow
  <2>c. /\ (c'.up <=> c.up) /\ (c'.enabled <=> c.enabled) /\ c'.sess = 0 /\ c'.confirmed = None
        /\ c'.pc = "idle" /\ c'.m = c.m /\ c'.v = c.v /\ c'.level = c.level
    BY ZenonT(60), <1>1, <1>t DEF ServeEnd, VolumeType, ClientRec, ReplyNow, Told
  <2>f. files' = files
    BY <1>1, <1>t DEF ServeEnd
  <2>x. asked' = asked /\ pressed' = pressed /\ spent' = spent
    BY <1>1, <1>t, Spent DEF ServeEnd, Fault
  <2>s. Standing' = Standing
    BY <1>1, <2>d, <1>b DEF Standing, Changing
  <2>1. Staged' /\ Ordered' /\ Durable' /\ Owned' /\ Heard' /\ Pressed'
    BY <2>d, <2>f, <2>x, <1>b, <1>n, Untouched
  <2>3. Beliefs'
    BY <1>1, <2>d, <2>c, <2>f, <2>x, <2>s, <1>n, <1>b DEF Numerals, Beliefs, Believed
  <2>7. Claimed'
    <3>1. Claimed
      BY <1>b
    <3>2. (Session' <=> Session) /\ Saved' = Saved /\ (Playable' <=> Playable)
      BY <2>f DEF Session, Saved, Playable
    <3>3. Current' = Current /\ Current # None
      BY <2>f DEF Current, None
    <3>4. Claim' => Claim
      BY <2>c, <2>f, <3>3 DEF Claim
    <3>5. (c'.pc = "end" => c.pc = "end" /\ c'.sess = c.sess) /\ (c'.enabled <=> c.enabled)
      BY <2>c
    <3> QED
      BY <3>1, <3>2, <3>3, <3>4, <3>5, <2>d, <2>f, <2>s DEF Claimed
  <2> QED
    BY <2>1, <2>3, <2>7 DEF Sound
<1>2. CASE ~(c.sess < d.newest \/ (c.sess = d.newest /\ d.ended)) /\ Revoke /\ d.s.sess # 0
        /\ Goto([d EXCEPT !.target = c.sess, !.from = "airplayd"], "tomb")
  <2>d. /\ (d'.up <=> d.up) /\ d'.s = d.s /\ d'.prev = d.prev /\ d'.newest = d.newest
        /\ (d'.ended <=> d.ended) /\ (d'.pending <=> d.pending) /\ (d'.publish <=> d.publish)
        /\ d'.volume = d.volume /\ d'.requested = d.requested /\ d'.op = "tomb" /\ d'.target = c.sess
        /\ d'.from = "airplayd"
    BY <1>2, <1>t DEF ServeEnd, VolumeType, HwRec, Goto, Finish, Published, SetEnded
  <2>c. c' = c
    BY <1>2 DEF ServeEnd, Goto, ReplyNow
  <2>f. /\ files'.master = files.master /\ files'.record = files.record /\ files'.marker = files.marker
        /\ files'.cb = files.cb /\ files'.db = files.db /\ files'.ack = None
        /\ files'.left = files.left
    BY <1>2, <1>t DEF ServeEnd, VolumeType, FilesRec, SaveRecord, Publish, Revoke
  <2>x. asked' = asked /\ pressed' = pressed /\ spent' = spent
    BY <1>2, <1>t, Spent DEF ServeEnd, Fault
  <2>s. Standing = d.s /\ Standing' = d.s
    BY <1>2, <2>d, <1>b DEF Standing, Changing
  <2>1. Staged'
    BY <1>2, <2>d, <2>c, <2>f, <2>x, <2>s, <1>n, <1>b DEF Numerals, Staged, Beliefs, Believed
  <2>2. Ordered'
    BY <1>2, <2>d, <2>c, <2>f, <2>x, <2>s, <1>n, <1>b DEF Numerals, Ordered, Numbered, Slid,
       Staged, Beliefs, Believed
  <2>3. Beliefs'
    BY <1>2, <2>d, <2>c, <2>f, <2>x, <2>s, <1>n, <1>b DEF Numerals, Beliefs, Believed
  <2>4. Durable'
    <3> SUFFICES ASSUME Relied' PROVE Recorded' /\ (d'.up => Matches')
      BY DEF Durable
    <3>1. Recorded /\ Written
      BY <1>2, <2>d, <2>c, <2>f, <2>x, <2>s, <1>n, <1>b, <1>m DEF Relied
    <3>2. Recorded'
      BY <1>2, <2>d, <2>c, <2>f, <2>x, <2>s, <1>n, <1>b, <3>1 DEF Numerals, Levels, None,
         Recorded, Session, Ended, Saved, Numbered, Slid, Taken, Staged, Ordered, Owned
    <3>3. Matches'
      BY ZenonT(60), <1>2, <2>d, <2>c, <2>f, <2>x, <2>s, <1>n, <1>b, <3>1 DEF Numerals, None, Matches,
         Written, Saved, Session, Ended, Staged, Ordered, Numbered, Slid
    <3> QED
      BY <3>2, <3>3
  <2>5. Owned'
    BY <1>2, <2>d, <2>c, <2>f, <2>x, <2>s, <1>n, <1>b DEF Numerals, Owned, Taken, Staged
  <2>6. Heard'
    BY <1>2, <2>d, <2>c, <2>f, <2>x, <2>s, <1>n, <1>b DEF Numerals, Heard, Taken, LevelOf, Staged,
       Ordered, Numbered, Slid
  <2>7. Claimed'
    BY <1>2, <2>d, <2>c, <2>f, <2>x, <2>s, <1>n, <1>b DEF Numerals, Claimed, None, Beliefs,
       Believed, Claim, Playable, Current, Session, Saved, Staged, Ordered, Numbered, Slid
  <2>8. Pressed'
    BY <1>2, <2>d, <2>c, <2>f, <2>x, <2>s, <1>n, <1>b, <1>m DEF Numerals, Levels, None, Pressed,
       Overrides, Session, Saved, Ended, Relied, Staged, Ordered, Numbered, Slid
  <2> QED
    BY <2>1, <2>2, <2>3, <2>4, <2>5, <2>6, <2>7, <2>8 DEF Sound
<1>3. CASE ~(c.sess < d.newest \/ (c.sess = d.newest /\ d.ended)) /\ Revoke /\ d.s.sess = 0
        /\ Goto([d EXCEPT !.target = c.sess, !.from = "airplayd"], "tomb0")
  <2>d. /\ (d'.up <=> d.up) /\ d'.s = d.s /\ d'.prev = d.prev /\ d'.newest = d.newest
        /\ (d'.ended <=> d.ended) /\ (d'.pending <=> d.pending) /\ (d'.publish <=> d.publish)
        /\ d'.volume = d.volume /\ d'.requested = d.requested /\ d'.op = "tomb0" /\ d'.target = c.sess
        /\ d'.from = "airplayd"
    BY <1>3, <1>t DEF ServeEnd, VolumeType, HwRec, Goto, Finish, Published, SetEnded
  <2>c. c' = c
    BY <1>3 DEF ServeEnd, Goto, ReplyNow
  <2>f. /\ files'.master = files.master /\ files'.record = files.record /\ files'.marker = files.marker
        /\ files'.cb = files.cb /\ files'.db = files.db /\ files'.ack = None
        /\ files'.left = files.left
    BY <1>3, <1>t DEF ServeEnd, VolumeType, FilesRec, SaveRecord, Publish, Revoke
  <2>x. asked' = asked /\ pressed' = pressed /\ spent' = spent
    BY <1>3, <1>t, Spent DEF ServeEnd, Fault
  <2>s. Standing = d.s /\ Standing' = d.s
    BY <1>3, <2>d, <1>b DEF Standing, Changing
  <2>1. Staged'
    BY <1>3, <2>d, <2>c, <2>f, <2>x, <2>s, <1>n, <1>b DEF Numerals, Staged, Beliefs, Believed
  <2>2. Ordered'
    BY <1>3, <2>d, <2>c, <2>f, <2>x, <2>s, <1>n, <1>b DEF Numerals, Ordered, Numbered, Slid,
       Staged, Beliefs, Believed
  <2>3. Beliefs'
    BY <1>3, <2>d, <2>c, <2>f, <2>x, <2>s, <1>n, <1>b DEF Numerals, Beliefs, Believed
  <2>4. Durable'
    <3> SUFFICES ASSUME Relied' PROVE Recorded' /\ (d'.up => Matches')
      BY DEF Durable
    <3>1. Recorded /\ Written
      BY <1>3, <2>d, <2>c, <2>f, <2>x, <2>s, <1>n, <1>b, <1>m DEF Relied
    <3>2. Recorded'
      BY <1>3, <2>d, <2>c, <2>f, <2>x, <2>s, <1>n, <1>b, <3>1 DEF Numerals, Levels, None,
         Recorded, Session, Ended, Saved, Numbered, Slid, Taken, Staged, Ordered, Owned
    <3>3. Matches'
      BY ZenonT(60), <1>3, <2>d, <2>c, <2>f, <2>x, <2>s, <1>n, <1>b, <3>1 DEF Numerals, None, Matches,
         Written, Saved, Session, Ended, Staged, Ordered, Numbered, Slid
    <3> QED
      BY <3>2, <3>3
  <2>5. Owned'
    BY <1>3, <2>d, <2>c, <2>f, <2>x, <2>s, <1>n, <1>b DEF Numerals, Owned, Taken, Staged
  <2>6. Heard'
    BY <1>3, <2>d, <2>c, <2>f, <2>x, <2>s, <1>n, <1>b DEF Numerals, Heard, Taken, LevelOf, Staged,
       Ordered, Numbered, Slid
  <2>7. Claimed'
    BY <1>3, <2>d, <2>c, <2>f, <2>x, <2>s, <1>n, <1>b DEF Numerals, Claimed, None, Beliefs,
       Believed, Claim, Playable, Current, Session, Saved, Staged, Ordered, Numbered, Slid
  <2>8. Pressed'
    BY SMTT(60), <1>3, <2>d, <2>c, <2>f, <2>x, <2>s, <1>n, <1>b, <1>m DEF Numerals, Levels, None, Pressed,
       Overrides, Session, Saved, Ended, Relied, Staged, Ordered, Numbered, Slid
  <2> QED
    BY <2>1, <2>2, <2>3, <2>4, <2>5, <2>6, <2>7, <2>8 DEF Sound
<1> QED
  BY ZenonT(60), <1>1, <1>2, <1>3 DEF ServeEnd

(* A callback accepted is newer than the one that stands; a repeated one is *)
(* answered from what stands.                                               *)
LEMMA ServeVolumeKeeps ==
  ASSUME VolumeType, VolumeType', Sound, Undoable, UNCHANGED setup, ServeVolume
  PROVE  Sound'
<1>t. VolumeType /\ VolumeType' /\ setup' = setup
  OBVIOUS
<1>n. Numerals /\ setup' = setup
  BY Numbers
<1>b. /\ d.up /\ d.op = "idle" /\ ~d.pending /\ c.pc = "call"
      /\ Undoable /\ Staged /\ Ordered /\ Beliefs /\ Durable /\ Owned /\ Heard /\ Claimed /\ Pressed
  BY DEF Sound, ServeVolume, At, Serving, Ready, VolumeType, Aimed
<1>m. Relied => Recorded /\ Written
  BY <1>b DEF Durable, Matches
<1>1. CASE ReplyNow(FALSE)
  <2>d. d' = d
    BY <1>1 DEF ServeVolume, ReplyNow
  <2>c. /\ (c'.up <=> c.up) /\ (c'.enabled <=> c.enabled) /\ c'.sess = c.sess
        /\ c'.confirmed = c.confirmed /\ c'.pc = "idle" /\ c'.m = c.m /\ c'.v = c.v
        /\ c'.level = c.level
    BY <1>1, <1>t DEF ServeVolume, VolumeType, ClientRec, ReplyNow, Told
  <2>f. files' = files
    BY <1>1, <1>t DEF ServeVolume
  <2>x. asked' = asked /\ pressed' = pressed /\ spent' = spent
    BY <1>1, <1>t, Spent DEF ServeVolume, Fault
  <2>s. Standing' = Standing
    BY <1>1, <2>d, <1>b DEF Standing, Changing
  <2>1. Staged' /\ Ordered' /\ Durable' /\ Owned' /\ Heard' /\ Pressed'
    BY <2>d, <2>f, <2>x, <1>b, <1>n, Untouched
  <2>3. Beliefs'
    BY <1>1, <2>d, <2>c, <2>f, <2>x, <2>s, <1>n, <1>b DEF Numerals, Beliefs, Believed
  <2>7. Claimed'
    <3>1. Claimed
      BY <1>b
    <3>2. (Session' <=> Session) /\ Saved' = Saved /\ (Playable' <=> Playable)
      BY <2>f DEF Session, Saved, Playable
    <3>3. Current' = Current /\ Current # None
      BY <2>f DEF Current, None
    <3>4. Claim' => Claim
      BY <2>c, <2>f, <3>3 DEF Claim
    <3>5. (c'.pc = "end" => c.pc = "end" /\ c'.sess = c.sess) /\ (c'.enabled <=> c.enabled)
      BY <2>c
    <3> QED
      BY <3>1, <3>2, <3>3, <3>4, <3>5, <2>d, <2>f, <2>s DEF Claimed
  <2> QED
    BY <2>1, <2>3, <2>7 DEF Sound
<1>2. CASE Repeated(c.m, c.v) /\ ReplyNow(TRUE)
  <2>d. d' = d
    BY <1>2 DEF ServeVolume, ReplyNow
  <2>c. /\ (c'.up <=> c.up) /\ (c'.enabled <=> c.enabled) /\ c'.sess = c.sess
        /\ c'.confirmed = <<c.m, c.v>> /\ c'.pc = "status" /\ c'.m = c.m /\ c'.v = c.v
        /\ c'.level = c.level
    BY ZenonT(60), <1>2, <1>t DEF ServeVolume, VolumeType, ClientRec, ReplyNow, Told
  <2>f. files' = files
    BY <1>2, <1>t DEF ServeVolume
  <2>x. asked' = asked /\ pressed' = pressed /\ spent' = spent
    BY <1>2, <1>t, Spent DEF ServeVolume, Fault
  <2>s. Standing' = Standing
    BY <1>2, <2>d, <1>b DEF Standing, Changing
  <2>e. Standing.sess = c.m /\ Standing.cb = c.v
    BY <1>2, <1>b DEF Standing, Changing, Repeated
  <2>1. Staged' /\ Ordered' /\ Durable' /\ Owned' /\ Heard' /\ Pressed'
    BY <2>d, <2>f, <2>x, <1>b, <1>n, Untouched
  <2>3. Beliefs'
    BY <1>2, <2>d, <2>c, <2>f, <2>x, <2>s, <1>n, <1>b, <2>e DEF Numerals, Beliefs, Believed
  <2>7. Claimed'
    <3>1. ~c'.enabled => ~Playable'
      BY Zenon, <1>2, <2>d, <2>c, <2>f, <2>x, <2>s, <1>n, <1>b, <2>e DEF Numerals, Claimed, None,
         Beliefs, Believed, Claim, Playable, Current, Session, Saved, Staged, Ordered, Numbered,
         Slid
    <3>2. c'.pc = "end" /\ Playable' => c'.sess # files'.marker
      BY <1>2, <2>d, <2>c, <2>f, <2>x, <2>s, <1>n, <1>b, <2>e DEF Numerals, Claimed, None,
         Beliefs, Believed, Claim, Playable, Current, Session, Saved, Staged, Ordered, Numbered,
         Slid
    <3>3. d'.op = "tomb" /\ Playable' /\ d'.s.sess = files'.marker => ~Claim'
      BY <1>2, <2>d, <2>c, <2>f, <2>x, <2>s, <1>n, <1>b, <2>e DEF Numerals, Claimed, None,
         Beliefs, Believed, Claim, Playable, Current, Session, Saved, Staged, Ordered, Numbered,
         Slid
    <3>4. Playable' /\ Claim' => <<Standing'.sess, Standing'.cb>> = Current'
      BY <1>2, <2>d, <2>c, <2>f, <2>x, <2>s, <1>n, <1>b, <2>e DEF Numerals, Claimed, None,
         Beliefs, Believed, Claim, Playable, Current, Session, Saved, Staged, Ordered, Numbered,
         Slid
    <3>5. d'.up
      BY SMTT(60), <1>2, <2>d, <2>c, <2>f, <2>x, <2>s, <1>n, <1>b, <2>e DEF Numerals, Claimed, None,
         Beliefs, Believed, Claim, Playable, Current, Session, Saved, Staged, Ordered, Numbered,
         Slid
    <3> QED
      BY <3>1, <3>2, <3>3, <3>4, <3>5 DEF Claimed
  <2> QED
    BY <2>1, <2>3, <2>7 DEF Sound
<1>3. CASE ~Stale(c.m, c.v) /\ ~Repeated(c.m, c.v)
        /\ Goto([d EXCEPT !.prev = d.s, !.target = c.m, !.from = "airplayd",
                       !.s = [sess |-> c.m, cb |-> c.v, sender |-> c.level, override |-> FALSE, base |-> Baseline]], "saveV")
  <2>d. /\ (d'.up <=> d.up)
        /\ d'.s = [sess |-> c.m, cb |-> c.v, sender |-> c.level, override |-> FALSE, base |-> Baseline]
        /\ d'.prev = d.s /\ d'.newest = d.newest /\ (d'.ended <=> d.ended)
        /\ (d'.pending <=> d.pending) /\ (d'.publish <=> d.publish) /\ d'.volume = d.volume
        /\ d'.requested = d.requested /\ d'.op = "saveV" /\ d'.target = c.m /\ d'.from = "airplayd"
    BY <1>3, <1>t DEF ServeVolume, VolumeType, HwRec, Goto, Finish, Published, SetEnded
  <2>c. c' = c
    BY <1>3 DEF ServeVolume, Goto, ReplyNow
  <2>f. files' = files
    BY <1>3, <1>t DEF ServeVolume
  <2>x. asked' = asked /\ pressed' = pressed /\ spent' = spent
    BY <1>3, <1>t, Spent DEF ServeVolume, Fault
  <2>s. Standing = d.s /\ Standing' = d.s
    BY <1>3, <2>d, <1>b DEF Standing, Changing
  <2>e. d'.s.sess = c.m /\ d'.s.cb = c.v /\ d'.s.sender = c.level /\ d'.s.base = Baseline /\ ~d'.s.override
    BY <2>d
  <2>1. Staged'
    BY <1>3, <2>d, <2>c, <2>f, <2>x, <2>s, <1>n, <1>b, <2>e DEF Numerals, Staged, Beliefs, Believed
  <2>2. Ordered'
    BY <1>3, <2>d, <2>c, <2>f, <2>x, <2>s, <1>n, <1>b, <2>e DEF Numerals, Ordered, Numbered, Slid,
       Staged, Stale, Repeated, Beliefs, Believed
  <2>3. Beliefs'
    BY <1>3, <2>d, <2>c, <2>f, <2>x, <2>s, <1>n, <1>b, <2>e DEF Numerals, Beliefs, Believed
  <2>4. Durable'
    <3> SUFFICES ASSUME Relied' PROVE Recorded' /\ (d'.up => Matches')
      BY DEF Durable
    <3>1. Recorded /\ Written
      BY <1>3, <2>d, <2>c, <2>f, <2>x, <2>s, <1>n, <1>b, <2>e, <1>m DEF Relied
    <3>2. Recorded'
      BY <1>3, <2>d, <2>c, <2>f, <2>x, <2>s, <1>n, <1>b, <2>e, <3>1 DEF Numerals, Levels, None,
         Recorded, Session, Ended, Saved, Numbered, Slid, Taken, Staged, Ordered, Owned
    <3>3. Matches'
      BY ZenonT(60), <1>3, <2>d, <2>c, <2>f, <2>x, <2>s, <1>n, <1>b, <2>e, <3>1 DEF Numerals, None, Matches,
         Written, Saved, Session, Ended, Staged, Ordered, Numbered, Slid
    <3> QED
      BY <3>2, <3>3
  <2>5. Owned'
    BY <1>3, <2>d, <2>c, <2>f, <2>x, <2>s, <1>n, <1>b, <2>e DEF Numerals, Owned, Taken, Staged,
       Baseline
  <2>6. Heard'
    BY <1>3, <2>d, <2>c, <2>f, <2>x, <2>s, <1>n, <1>b, <2>e DEF Numerals, Heard, Taken, LevelOf,
       Staged, Ordered, Numbered, Slid
  <2>7. Claimed'
    <3>1. ~c'.enabled => ~Playable'
      BY <1>3, <2>d, <2>c, <2>f, <2>x, <2>s, <1>n, <1>b, <2>e DEF Numerals, Claimed, None,
         Beliefs, Believed, Claim, Playable, Current, Session, Saved, Staged, Ordered, Numbered,
         Slid
    <3>2. c'.pc = "end" /\ Playable' => c'.sess # files'.marker
      BY <1>3, <2>d, <2>c, <2>f, <2>x, <2>s, <1>n, <1>b, <2>e DEF Numerals, Claimed, None,
         Beliefs, Believed, Claim, Playable, Current, Session, Saved, Staged, Ordered, Numbered,
         Slid
    <3>3. d'.op = "tomb" /\ Playable' /\ d'.s.sess = files'.marker => ~Claim'
      BY <1>3, <2>d, <2>c, <2>f, <2>x, <2>s, <1>n, <1>b, <2>e DEF Numerals, Claimed, None,
         Beliefs, Believed, Claim, Playable, Current, Session, Saved, Staged, Ordered, Numbered,
         Slid
    <3>4. Playable' /\ Claim' => <<Standing'.sess, Standing'.cb>> = Current'
      BY <1>3, <2>d, <2>c, <2>f, <2>x, <2>s, <1>n, <1>b, <2>e DEF Numerals, Claimed, None,
         Beliefs, Believed, Claim, Playable, Current, Session, Saved, Staged, Ordered, Numbered,
         Slid
    <3>5. d'.up
      BY <1>3, <2>d, <2>c, <2>f, <2>x, <2>s, <1>n, <1>b, <2>e DEF Numerals, Claimed, None,
         Beliefs, Believed, Claim, Playable, Current, Session, Saved, Staged, Ordered, Numbered,
         Slid
    <3> QED
      BY <3>1, <3>2, <3>3, <3>4, <3>5 DEF Claimed
  <2>8. Pressed'
    BY SMTT(60), <1>3, <2>d, <2>c, <2>f, <2>x, <2>s, <1>n, <1>b, <2>e, <1>m DEF Numerals, Levels, None,
       Pressed, Overrides, Session, Saved, Ended, Relied, Staged, Ordered, Numbered, Slid, Stale,
       Repeated
  <2> QED
    BY <2>1, <2>2, <2>3, <2>4, <2>5, <2>6, <2>7, <2>8 DEF Sound
<1> QED
  BY Zenon, <1>1, <1>2, <1>3 DEF ServeVolume

(* What a start reads back is what the last process left, in each of the    *)
(* three shapes of the record.                                              *)
LEMMA AudiodStartsKeeps ==
  ASSUME VolumeType, VolumeType', Sound, Undoable, UNCHANGED setup, AudiodStarts
  PROVE  Sound'
<1>t. VolumeType /\ VolumeType' /\ setup' = setup
  OBVIOUS
<1>n. Numerals /\ setup' = setup
  BY Numbers
<1>b. /\ ~d.up /\ d = Down /\ d.s = NoSession /\ d.op = "idle"
      /\ Undoable /\ Staged /\ Ordered /\ Beliefs /\ Durable /\ Owned /\ Heard /\ Claimed /\ Pressed
  BY DEF Sound, AudiodStarts, At, Serving, Ready, VolumeType, Aimed, Staged, Down
<1>r. /\ Saved = None \/ Session \/ Ended
      /\ ~(Session /\ Ended) /\ (Session \/ Ended => Saved # None)
      /\ Session => Saved = SessionRecord(Saved[2])
      /\ Ended => Saved = EndedRecord(Saved[2], Saved[3], Saved[4]) /\ Saved[4] \in BOOLEAN
  BY <1>t, RecordShapes
<1>h. Taken \in 0..100 /\ Taken \in Int /\ (files.master >= 0 => Taken = files.master)
  BY <1>t, SetupTypes DEF VolumeType, FilesRec, Taken, Levels
<1>l. /\ Loaded \in HwRec
      /\ Saved = None => /\ Loaded.s = NoSession /\ Loaded.newest = 0 /\ ~Loaded.ended
                         /\ ~Loaded.pending /\ Loaded.requested = Taken
      /\ Ended => /\ Loaded.s = [NoSession EXCEPT !.base = Saved[3]] /\ Loaded.newest = Saved[2]
                  /\ Loaded.ended /\ (Loaded.pending <=> Saved[4]) /\ Loaded.requested = Taken
      /\ Session => /\ Loaded.s = Saved[2] /\ Loaded.newest = Saved[2].sess
                    /\ ~Loaded.ended /\ ~Loaded.pending /\ Loaded.requested = Saved[2].base
  BY <1>t, LoadedFields
<1>q. Session => Loaded.s.sess # 0
  BY <1>l, <1>b DEF Durable, Relied, Recorded
<1>z. Loaded.s.sess = 0 \/ Session
  BY <1>l, <1>r DEF NoSession
<1>o. Loaded.s.sess \in Nat /\ (~c.up) \in BOOLEAN /\ {"publish", "restore", "tomb", "resume"} \subseteq Stages
  BY <1>l DEF HwRec, SessRec, Stages
<1>m. Relied => Recorded
  BY <1>b DEF Durable, Matches
<1>1. CASE Saved = None /\ Goto(Loaded, "publish") /\ UNCHANGED files
  <2>d. /\ (d'.up <=> TRUE) /\ d'.s = NoSession /\ d'.prev = NoSession /\ d'.newest = 0
        /\ (d'.ended <=> FALSE) /\ (d'.pending <=> FALSE) /\ (d'.publish <=> TRUE) /\ d'.volume = Taken
        /\ d'.requested = Taken /\ d'.op = "publish" /\ d'.target = 0 /\ d'.from = "none"
    <3>1. 0 \in Nat /\ TRUE \in BOOLEAN
      OBVIOUS
    <3> QED
      BY ZenonT(60), <3>1, <1>1, <1>t, <1>o, <1>l, FromLoaded
  <2>c. c' = c
    BY <1>1 DEF AudiodStarts, Goto, ReplyNow
  <2>f. files' = files
    BY <1>1, <1>t DEF AudiodStarts
  <2>x. asked' = asked /\ pressed' = pressed /\ spent' = spent
    BY <1>1, <1>t, Spent DEF AudiodStarts, Fault
  <2>s. Standing = NoSession /\ Standing' = d'.s
    BY <1>1, <2>d, <1>b DEF Standing, Changing
  <2>k. Recorded /\ Relied
    BY <1>m, <1>b DEF Relied
  <2>n. NoSession.sess = 0 /\ NoSession.cb = 0
    BY DEF NoSession
  <2>g. Saved' = Saved /\ (Session' <=> Session) /\ (Ended' <=> Ended)
    BY <2>f DEF Saved, Session, Ended
  <2>e. ~Session /\ ~Ended
    BY <1>1 DEF Session, Ended, None
  <2>1. Staged'
    BY <1>1, <2>d, <2>c, <2>f, <2>x, <2>s, <1>n, <1>b, <2>k, <2>n, <2>g, <2>e DEF Numerals,
       Staged, Recorded, Session, Saved
  <2>2. Ordered'
    BY <1>1, <2>d, <2>c, <2>f, <2>x, <2>s, <1>n, <1>b, <2>k, <2>n, <2>g, <2>e DEF Numerals,
       Ordered, Numbered, Slid, Staged, Recorded, Session, Ended, Saved
  <2>3. Beliefs'
    BY <1>1, <2>d, <2>c, <2>f, <2>x, <2>s, <1>n, <1>b, <2>k, <2>n, <2>g, <2>e DEF Numerals,
       Beliefs, Believed
  <2>4. Durable'
    <3> SUFFICES ASSUME Relied' PROVE Recorded' /\ (d'.up => Matches')
      BY DEF Durable
    <3>1. Recorded
      BY <1>1, <2>d, <2>c, <2>f, <2>x, <2>s, <1>n, <1>b, <2>k, <2>n, <2>g, <2>e, <1>m DEF Relied
    <3>2. Recorded'
      BY <1>1, <2>d, <2>c, <2>f, <2>x, <2>s, <1>n, <1>b, <2>k, <2>n, <2>g, <2>e, <3>1
         DEF Numerals, Levels, None, Recorded, Session, Ended, Saved, Numbered, Slid, Taken,
         Staged, Ordered, Owned
    <3>3. Matches'
      BY Zenon, <1>1, <1>r, <1>l, <2>d, <2>g, <2>s, <2>n, <2>k, <2>e DEF Matches, Written, Recorded
    <3> QED
      BY <3>2, <3>3
  <2>5. Owned'
    BY <1>1, <2>d, <2>c, <2>f, <2>x, <2>s, <1>n, <1>b, <2>k, <2>n, <2>g, <2>e DEF Numerals, Owned,
       Taken, Staged, Recorded, Session, Ended, Saved
  <2>6. Heard'
    BY <1>1, <2>d, <2>c, <2>f, <2>x, <2>s, <1>n, <1>b, <2>k, <2>n, <2>g, <2>e DEF Numerals, Heard,
       Taken, LevelOf, Staged, Ordered, Numbered, Slid, Session, Ended, Saved
  <2>7. Claimed'
    BY <1>1, <2>d, <2>c, <2>f, <2>x, <2>s, <1>n, <1>b, <2>k, <2>n, <2>g, <2>e DEF Numerals,
       Claimed, None, Beliefs, Believed, Claim, Playable, Current, Session, Saved, Staged,
       Ordered, Numbered, Slid, Recorded, Ended
  <2>8. Pressed'
    BY <1>1, <2>d, <2>c, <2>f, <2>x, <2>s, <1>n, <1>b, <2>k, <2>n, <2>g, <2>e, <1>m DEF Numerals,
       Levels, None, Pressed, Overrides, Session, Saved, Ended, Relied, Staged, Ordered, Numbered,
       Slid, Recorded
  <2> QED
    BY <2>1, <2>2, <2>3, <2>4, <2>5, <2>6, <2>7, <2>8 DEF Sound
<1>2. CASE Ended /\ Saved[4] /\ Revoke /\ Goto(Loaded, "restore")
  <2>d. /\ (d'.up <=> TRUE) /\ d'.s = [NoSession EXCEPT !.base = Saved[3]] /\ d'.prev = NoSession
        /\ d'.newest = Saved[2] /\ (d'.ended <=> TRUE) /\ (d'.pending <=> TRUE)
        /\ (d'.publish <=> TRUE) /\ d'.volume = Taken /\ d'.requested = Taken /\ d'.op = "restore"
        /\ d'.target = 0 /\ d'.from = "none"
    <3>1. 0 \in Nat /\ TRUE \in BOOLEAN
      OBVIOUS
    <3> QED
      BY ZenonT(60), <3>1, <1>2, <1>t, <1>o, <1>l, FromLoaded
  <2>c. c' = c
    BY <1>2 DEF AudiodStarts, Goto, ReplyNow
  <2>f. /\ files'.master = files.master /\ files'.record = files.record /\ files'.marker = files.marker
        /\ files'.cb = files.cb /\ files'.db = files.db /\ files'.ack = None
        /\ files'.left = files.left
    BY <1>2, <1>t DEF AudiodStarts, VolumeType, FilesRec, SaveRecord, Publish, Revoke
  <2>x. asked' = asked /\ pressed' = pressed /\ spent' = spent
    BY <1>2, <1>t, Spent DEF AudiodStarts, Fault
  <2>s. Standing = NoSession /\ Standing' = d'.s
    BY <1>2, <2>d, <1>b DEF Standing, Changing
  <2>k. Recorded /\ Relied
    BY <1>m, <1>b DEF Relied
  <2>n. NoSession.sess = 0 /\ NoSession.cb = 0
    BY DEF NoSession
  <2>g. Saved' = Saved /\ (Session' <=> Session) /\ (Ended' <=> Ended)
    BY <2>f DEF Saved, Session, Ended
  <2>e. d'.s.sess = 0 /\ d'.s.cb = 0 /\ d'.s.base = Saved[3]
    BY <2>d DEF NoSession
  <2>1. Staged'
    BY <1>2, <2>d, <2>c, <2>f, <2>x, <2>s, <1>n, <1>b, <2>k, <2>n, <2>g, <2>e DEF Numerals,
       Staged, Recorded, Session, Saved
  <2>2. Ordered'
    BY <1>2, <2>d, <2>c, <2>f, <2>x, <2>s, <1>n, <1>b, <2>k, <2>n, <2>g, <2>e DEF Numerals,
       Ordered, Numbered, Slid, Staged, Recorded, Session, Ended, Saved
  <2>3. Beliefs'
    BY <1>2, <2>d, <2>c, <2>f, <2>x, <2>s, <1>n, <1>b, <2>k, <2>n, <2>g, <2>e DEF Numerals,
       Beliefs, Believed
  <2>4. Durable'
    <3> SUFFICES ASSUME Relied' PROVE Recorded' /\ (d'.up => Matches')
      BY DEF Durable
    <3>1. Recorded
      BY <1>2, <2>d, <2>c, <2>f, <2>x, <2>s, <1>n, <1>b, <2>k, <2>n, <2>g, <2>e, <1>m DEF Relied
    <3>2. Recorded'
      BY <1>2, <2>d, <2>c, <2>f, <2>x, <2>s, <1>n, <1>b, <2>k, <2>n, <2>g, <2>e, <3>1
         DEF Numerals, Levels, None, Recorded, Session, Ended, Saved, Numbered, Slid, Taken,
         Staged, Ordered, Owned
    <3>3. Matches'
      BY Zenon, <1>2, <1>r, <1>l, <2>d, <2>g, <2>s, <2>n, <2>k, <2>e DEF Matches, Written, Recorded
    <3> QED
      BY <3>2, <3>3
  <2>5. Owned'
    BY <1>2, <2>d, <2>c, <2>f, <2>x, <2>s, <1>n, <1>b, <2>k, <2>n, <2>g, <2>e DEF Numerals, Owned,
       Taken, Staged, Recorded, Session, Ended, Saved
  <2>6. Heard'
    BY <1>2, <2>d, <2>c, <2>f, <2>x, <2>s, <1>n, <1>b, <2>k, <2>n, <2>g, <2>e DEF Numerals, Heard,
       Taken, LevelOf, Staged, Ordered, Numbered, Slid, Session, Ended, Saved
  <2>7. Claimed'
    BY <1>2, <2>d, <2>c, <2>f, <2>x, <2>s, <1>n, <1>b, <2>k, <2>n, <2>g, <2>e DEF Numerals,
       Claimed, None, Beliefs, Believed, Claim, Playable, Current, Session, Saved, Staged,
       Ordered, Numbered, Slid, Recorded, Ended
  <2>8. Pressed'
    BY <1>2, <2>d, <2>c, <2>f, <2>x, <2>s, <1>n, <1>b, <2>k, <2>n, <2>g, <2>e, <1>m DEF Numerals,
       Levels, None, Pressed, Overrides, Session, Saved, Ended, Relied, Staged, Ordered, Numbered,
       Slid, Recorded
  <2> QED
    BY <2>1, <2>2, <2>3, <2>4, <2>5, <2>6, <2>7, <2>8 DEF Sound
<1>3. CASE Ended /\ ~Saved[4] /\ Goto(Loaded, "publish") /\ UNCHANGED files
  <2>d. /\ (d'.up <=> TRUE) /\ d'.s = [NoSession EXCEPT !.base = Saved[3]] /\ d'.prev = NoSession
        /\ d'.newest = Saved[2] /\ (d'.ended <=> TRUE) /\ (d'.pending <=> FALSE)
        /\ (d'.publish <=> TRUE) /\ d'.volume = Taken /\ d'.requested = Taken /\ d'.op = "publish"
        /\ d'.target = 0 /\ d'.from = "none"
    <3>1. 0 \in Nat /\ TRUE \in BOOLEAN
      OBVIOUS
    <3> QED
      BY ZenonT(60), <3>1, <1>3, <1>t, <1>o, <1>l, FromLoaded
  <2>c. c' = c
    BY <1>3 DEF AudiodStarts, Goto, ReplyNow
  <2>f. files' = files
    BY <1>3, <1>t DEF AudiodStarts
  <2>x. asked' = asked /\ pressed' = pressed /\ spent' = spent
    BY <1>3, <1>t, Spent DEF AudiodStarts, Fault
  <2>s. Standing = NoSession /\ Standing' = d'.s
    BY <1>3, <2>d, <1>b DEF Standing, Changing
  <2>k. Recorded /\ Relied
    BY <1>m, <1>b DEF Relied
  <2>n. NoSession.sess = 0 /\ NoSession.cb = 0
    BY DEF NoSession
  <2>g. Saved' = Saved /\ (Session' <=> Session) /\ (Ended' <=> Ended)
    BY <2>f DEF Saved, Session, Ended
  <2>e. d'.s.sess = 0 /\ d'.s.cb = 0 /\ d'.s.base = Saved[3]
    BY <2>d DEF NoSession
  <2>1. Staged'
    BY <1>3, <2>d, <2>c, <2>f, <2>x, <2>s, <1>n, <1>b, <2>k, <2>n, <2>g, <2>e DEF Numerals,
       Staged, Recorded, Session, Saved
  <2>2. Ordered'
    BY <1>3, <2>d, <2>c, <2>f, <2>x, <2>s, <1>n, <1>b, <2>k, <2>n, <2>g, <2>e DEF Numerals,
       Ordered, Numbered, Slid, Staged, Recorded, Session, Ended, Saved
  <2>3. Beliefs'
    BY <1>3, <2>d, <2>c, <2>f, <2>x, <2>s, <1>n, <1>b, <2>k, <2>n, <2>g, <2>e DEF Numerals,
       Beliefs, Believed
  <2>4. Durable'
    <3> SUFFICES ASSUME Relied' PROVE Recorded' /\ (d'.up => Matches')
      BY DEF Durable
    <3>1. Recorded
      BY <1>3, <2>d, <2>c, <2>f, <2>x, <2>s, <1>n, <1>b, <2>k, <2>n, <2>g, <2>e, <1>m DEF Relied
    <3>2. Recorded'
      BY <1>3, <2>d, <2>c, <2>f, <2>x, <2>s, <1>n, <1>b, <2>k, <2>n, <2>g, <2>e, <3>1
         DEF Numerals, Levels, None, Recorded, Session, Ended, Saved, Numbered, Slid, Taken,
         Staged, Ordered, Owned
    <3>3. Matches'
      BY Zenon, <1>3, <1>r, <1>l, <2>d, <2>g, <2>s, <2>n, <2>k, <2>e DEF Matches, Written, Recorded
    <3> QED
      BY <3>2, <3>3
  <2>5. Owned'
    BY <1>3, <2>d, <2>c, <2>f, <2>x, <2>s, <1>n, <1>b, <2>k, <2>n, <2>g, <2>e DEF Numerals, Owned,
       Taken, Staged, Recorded, Session, Ended, Saved
  <2>6. Heard'
    BY <1>3, <2>d, <2>c, <2>f, <2>x, <2>s, <1>n, <1>b, <2>k, <2>n, <2>g, <2>e DEF Numerals, Heard,
       Taken, LevelOf, Staged, Ordered, Numbered, Slid, Session, Ended, Saved
  <2>7. Claimed'
    BY <1>3, <2>d, <2>c, <2>f, <2>x, <2>s, <1>n, <1>b, <2>k, <2>n, <2>g, <2>e DEF Numerals,
       Claimed, None, Beliefs, Believed, Claim, Playable, Current, Session, Saved, Staged,
       Ordered, Numbered, Slid, Recorded, Ended
  <2>8. Pressed'
    BY <1>3, <2>d, <2>c, <2>f, <2>x, <2>s, <1>n, <1>b, <2>k, <2>n, <2>g, <2>e, <1>m DEF Numerals,
       Levels, None, Pressed, Overrides, Session, Saved, Ended, Relied, Staged, Ordered, Numbered,
       Slid, Recorded
  <2> QED
    BY <2>1, <2>2, <2>3, <2>4, <2>5, <2>6, <2>7, <2>8 DEF Sound
<1>4. CASE Session /\ files.marker = 0 /\ Revoke /\ Goto([Loaded EXCEPT !.target = Loaded.s.sess], "tomb")
  <2>d. /\ (d'.up <=> TRUE) /\ d'.s = Saved[2] /\ d'.prev = NoSession /\ d'.newest = Saved[2].sess
        /\ (d'.ended <=> FALSE) /\ (d'.pending <=> FALSE) /\ (d'.publish <=> TRUE) /\ d'.volume = Taken
        /\ d'.requested = Saved[2].base /\ d'.op = "tomb" /\ d'.target = Saved[2].sess
        /\ d'.from = "none"
    <3>1. 0 \in Nat /\ TRUE \in BOOLEAN
      OBVIOUS
    <3> QED
      BY ZenonT(60), <3>1, <1>4, <1>t, <1>o, <1>l, FromLoaded
  <2>c. c' = c
    BY <1>4 DEF AudiodStarts, Goto, ReplyNow
  <2>f. /\ files'.master = files.master /\ files'.record = files.record /\ files'.marker = files.marker
        /\ files'.cb = files.cb /\ files'.db = files.db /\ files'.ack = None
        /\ files'.left = files.left
    BY <1>4, <1>t DEF AudiodStarts, VolumeType, FilesRec, SaveRecord, Publish, Revoke
  <2>x. asked' = asked /\ pressed' = pressed /\ spent' = spent
    BY <1>4, <1>t, Spent DEF AudiodStarts, Fault
  <2>s. Standing = NoSession /\ Standing' = d'.s
    BY <1>4, <2>d, <1>b DEF Standing, Changing
  <2>k. Recorded /\ Relied
    BY <1>m, <1>b DEF Relied
  <2>n. NoSession.sess = 0 /\ NoSession.cb = 0
    BY DEF NoSession
  <2>g. Saved' = Saved /\ (Session' <=> Session) /\ (Ended' <=> Ended)
    BY <2>f DEF Saved, Session, Ended
  <2>1. Staged'
    BY <1>4, <2>d, <2>c, <2>f, <2>x, <2>s, <1>n, <1>b, <2>k, <2>n, <2>g DEF Numerals, Staged,
       Recorded, Session, Saved
  <2>2. Ordered'
    BY <1>4, <2>d, <2>c, <2>f, <2>x, <2>s, <1>n, <1>b, <2>k, <2>n, <2>g DEF Numerals, Ordered,
       Numbered, Slid, Staged, Recorded, Session, Ended, Saved
  <2>3. Beliefs'
    BY <1>4, <2>d, <2>c, <2>f, <2>x, <2>s, <1>n, <1>b, <2>k, <2>n, <2>g DEF Numerals, Beliefs,
       Believed
  <2>4. Durable'
    <3> SUFFICES ASSUME Relied' PROVE Recorded' /\ (d'.up => Matches')
      BY DEF Durable
    <3>1. Recorded
      BY <1>4, <2>d, <2>c, <2>f, <2>x, <2>s, <1>n, <1>b, <2>k, <2>n, <2>g, <1>m DEF Relied
    <3>2. Recorded'
      BY <1>4, <2>d, <2>c, <2>f, <2>x, <2>s, <1>n, <1>b, <2>k, <2>n, <2>g, <3>1 DEF Numerals,
         Levels, None, Recorded, Session, Ended, Saved, Numbered, Slid, Taken, Staged, Ordered,
         Owned
    <3>3. Matches'
      BY Zenon, <1>4, <1>r, <1>l, <2>d, <2>g, <2>s, <2>n, <2>k DEF Matches, Written, Recorded
    <3> QED
      BY <3>2, <3>3
  <2>5. Owned'
    BY <1>4, <2>d, <2>c, <2>f, <2>x, <2>s, <1>n, <1>b, <2>k, <2>n, <2>g DEF Numerals, Owned,
       Taken, Staged, Recorded, Session, Ended, Saved
  <2>6. Heard'
    BY <1>4, <2>d, <2>c, <2>f, <2>x, <2>s, <1>n, <1>b, <2>k, <2>n, <2>g DEF Numerals, Heard,
       Taken, LevelOf, Staged, Ordered, Numbered, Slid, Session, Ended, Saved
  <2>7. Claimed'
    BY <1>4, <2>d, <2>c, <2>f, <2>x, <2>s, <1>n, <1>b, <2>k, <2>n, <2>g DEF Numerals, Claimed,
       None, Beliefs, Believed, Claim, Playable, Current, Session, Saved, Staged, Ordered,
       Numbered, Slid, Recorded, Ended
  <2>8. Pressed'
    BY <1>4, <2>d, <2>c, <2>f, <2>x, <2>s, <1>n, <1>b, <2>k, <2>n, <2>g, <1>m DEF Numerals,
       Levels, None, Pressed, Overrides, Session, Saved, Ended, Relied, Staged, Ordered, Numbered,
       Slid, Recorded
  <2> QED
    BY <2>1, <2>2, <2>3, <2>4, <2>5, <2>6, <2>7, <2>8 DEF Sound
<1>5. CASE Session /\ files.marker # 0 /\ c.up /\ UNCHANGED files
        /\ Goto([Loaded EXCEPT !.missing = ~c.up], "resume")
  <2>d. /\ (d'.up <=> TRUE) /\ d'.s = Saved[2] /\ d'.prev = NoSession /\ d'.newest = Saved[2].sess
        /\ (d'.ended <=> FALSE) /\ (d'.pending <=> FALSE) /\ (d'.publish <=> TRUE) /\ d'.volume = Taken
        /\ d'.requested = Saved[2].base /\ d'.op = "resume" /\ d'.target = 0 /\ d'.from = "none"
    <3>1. 0 \in Nat /\ TRUE \in BOOLEAN
      OBVIOUS
    <3> QED
      BY ZenonT(60), <3>1, <1>5, <1>t, <1>o, <1>l, FromLoaded
  <2>c. c' = c
    BY <1>5 DEF AudiodStarts, Goto, ReplyNow
  <2>f. files' = files
    BY <1>5, <1>t DEF AudiodStarts
  <2>x. asked' = asked /\ pressed' = pressed /\ spent' = spent
    BY <1>5, <1>t, Spent DEF AudiodStarts, Fault
  <2>s. Standing = NoSession /\ Standing' = d'.s
    BY <1>5, <2>d, <1>b DEF Standing, Changing
  <2>k. Recorded /\ Relied
    BY <1>m, <1>b DEF Relied
  <2>n. NoSession.sess = 0 /\ NoSession.cb = 0
    BY DEF NoSession
  <2>g. Saved' = Saved /\ (Session' <=> Session) /\ (Ended' <=> Ended)
    BY <2>f DEF Saved, Session, Ended
  <2>1. Staged'
    BY <1>5, <2>d, <2>c, <2>f, <2>x, <2>s, <1>n, <1>b, <2>k, <2>n, <2>g DEF Numerals, Staged,
       Recorded, Session, Saved
  <2>2. Ordered'
    BY <1>5, <2>d, <2>c, <2>f, <2>x, <2>s, <1>n, <1>b, <2>k, <2>n, <2>g DEF Numerals, Ordered,
       Numbered, Slid, Staged, Recorded, Session, Ended, Saved
  <2>3. Beliefs'
    BY <1>5, <2>d, <2>c, <2>f, <2>x, <2>s, <1>n, <1>b, <2>k, <2>n, <2>g DEF Numerals, Beliefs,
       Believed
  <2>4. Durable'
    <3> SUFFICES ASSUME Relied' PROVE Recorded' /\ (d'.up => Matches')
      BY DEF Durable
    <3>1. Recorded
      BY <1>5, <2>d, <2>c, <2>f, <2>x, <2>s, <1>n, <1>b, <2>k, <2>n, <2>g, <1>m DEF Relied
    <3>2. Recorded'
      BY <1>5, <2>d, <2>c, <2>f, <2>x, <2>s, <1>n, <1>b, <2>k, <2>n, <2>g, <3>1 DEF Numerals,
         Levels, None, Recorded, Session, Ended, Saved, Numbered, Slid, Taken, Staged, Ordered,
         Owned
    <3>3. Matches'
      BY ZenonT(60), <1>5, <1>r, <1>l, <2>d, <2>g, <2>s, <2>n, <2>k DEF Matches, Written, Recorded
    <3> QED
      BY <3>2, <3>3
  <2>5. Owned'
    BY <1>5, <2>d, <2>c, <2>f, <2>x, <2>s, <1>n, <1>b, <2>k, <2>n, <2>g DEF Numerals, Owned,
       Taken, Staged, Recorded, Session, Ended, Saved
  <2>6. Heard'
    BY <1>5, <2>d, <2>c, <2>f, <2>x, <2>s, <1>n, <1>b, <2>k, <2>n, <2>g DEF Numerals, Heard,
       Taken, LevelOf, Staged, Ordered, Numbered, Slid, Session, Ended, Saved
  <2>7. Claimed'
    BY <1>5, <2>d, <2>c, <2>f, <2>x, <2>s, <1>n, <1>b, <2>k, <2>n, <2>g DEF Numerals, Claimed,
       None, Beliefs, Believed, Claim, Playable, Current, Session, Saved, Staged, Ordered,
       Numbered, Slid, Recorded, Ended
  <2>8. Pressed'
    BY <1>5, <2>d, <2>c, <2>f, <2>x, <2>s, <1>n, <1>b, <2>k, <2>n, <2>g, <1>m DEF Numerals,
       Levels, None, Pressed, Overrides, Session, Saved, Ended, Relied, Staged, Ordered, Numbered,
       Slid, Recorded
  <2> QED
    BY <2>1, <2>2, <2>3, <2>4, <2>5, <2>6, <2>7, <2>8 DEF Sound
<1>6. CASE Session /\ files.marker # 0 /\ ~c.up /\ Revoke
        /\ Goto([Loaded EXCEPT !.missing = ~c.up], "resume")
  <2>d. /\ (d'.up <=> TRUE) /\ d'.s = Saved[2] /\ d'.prev = NoSession /\ d'.newest = Saved[2].sess
        /\ (d'.ended <=> FALSE) /\ (d'.pending <=> FALSE) /\ (d'.publish <=> TRUE) /\ d'.volume = Taken
        /\ d'.requested = Saved[2].base /\ d'.op = "resume" /\ d'.target = 0 /\ d'.from = "none"
    <3>1. 0 \in Nat /\ TRUE \in BOOLEAN
      OBVIOUS
    <3> QED
      BY ZenonT(60), <3>1, <1>6, <1>t, <1>o, <1>l, FromLoaded
  <2>c. c' = c
    BY <1>6 DEF AudiodStarts, Goto, ReplyNow
  <2>f. /\ files'.master = files.master /\ files'.record = files.record /\ files'.marker = files.marker
        /\ files'.cb = files.cb /\ files'.db = files.db /\ files'.ack = None
        /\ files'.left = files.left
    BY <1>6, <1>t DEF AudiodStarts, VolumeType, FilesRec, SaveRecord, Publish, Revoke
  <2>x. asked' = asked /\ pressed' = pressed /\ spent' = spent
    BY <1>6, <1>t, Spent DEF AudiodStarts, Fault
  <2>s. Standing = NoSession /\ Standing' = d'.s
    BY <1>6, <2>d, <1>b DEF Standing, Changing
  <2>k. Recorded /\ Relied
    BY <1>m, <1>b DEF Relied
  <2>n. NoSession.sess = 0 /\ NoSession.cb = 0
    BY DEF NoSession
  <2>g. Saved' = Saved /\ (Session' <=> Session) /\ (Ended' <=> Ended)
    BY <2>f DEF Saved, Session, Ended
  <2>1. Staged'
    BY <1>6, <2>d, <2>c, <2>f, <2>x, <2>s, <1>n, <1>b, <2>k, <2>n, <2>g DEF Numerals, Staged,
       Recorded, Session, Saved
  <2>2. Ordered'
    BY <1>6, <2>d, <2>c, <2>f, <2>x, <2>s, <1>n, <1>b, <2>k, <2>n, <2>g DEF Numerals, Ordered,
       Numbered, Slid, Staged, Recorded, Session, Ended, Saved
  <2>3. Beliefs'
    BY <1>6, <2>d, <2>c, <2>f, <2>x, <2>s, <1>n, <1>b, <2>k, <2>n, <2>g DEF Numerals, Beliefs,
       Believed
  <2>4. Durable'
    <3> SUFFICES ASSUME Relied' PROVE Recorded' /\ (d'.up => Matches')
      BY DEF Durable
    <3>1. Recorded
      BY <1>6, <2>d, <2>c, <2>f, <2>x, <2>s, <1>n, <1>b, <2>k, <2>n, <2>g, <1>m DEF Relied
    <3>2. Recorded'
      BY <1>6, <2>d, <2>c, <2>f, <2>x, <2>s, <1>n, <1>b, <2>k, <2>n, <2>g, <3>1 DEF Numerals,
         Levels, None, Recorded, Session, Ended, Saved, Numbered, Slid, Taken, Staged, Ordered,
         Owned
    <3>3. Matches'
      BY Zenon, <1>6, <1>r, <1>l, <2>d, <2>g, <2>s, <2>n, <2>k DEF Matches, Written, Recorded
    <3> QED
      BY <3>2, <3>3
  <2>5. Owned'
    BY <1>6, <2>d, <2>c, <2>f, <2>x, <2>s, <1>n, <1>b, <2>k, <2>n, <2>g DEF Numerals, Owned,
       Taken, Staged, Recorded, Session, Ended, Saved
  <2>6. Heard'
    BY <1>6, <2>d, <2>c, <2>f, <2>x, <2>s, <1>n, <1>b, <2>k, <2>n, <2>g DEF Numerals, Heard,
       Taken, LevelOf, Staged, Ordered, Numbered, Slid, Session, Ended, Saved
  <2>7. Claimed'
    BY <1>6, <2>d, <2>c, <2>f, <2>x, <2>s, <1>n, <1>b, <2>k, <2>n, <2>g DEF Numerals, Claimed,
       None, Beliefs, Believed, Claim, Playable, Current, Session, Saved, Staged, Ordered,
       Numbered, Slid, Recorded, Ended
  <2>8. Pressed'
    BY <1>6, <2>d, <2>c, <2>f, <2>x, <2>s, <1>n, <1>b, <2>k, <2>n, <2>g, <1>m DEF Numerals,
       Levels, None, Pressed, Overrides, Session, Saved, Ended, Relied, Staged, Ordered, Numbered,
       Slid, Recorded
  <2> QED
    BY <2>1, <2>2, <2>3, <2>4, <2>5, <2>6, <2>7, <2>8 DEF Sound
<1> QED
  BY <1>1, <1>2, <1>3, <1>4, <1>5, <1>6, <1>r, <1>q, <1>l, <1>z DEF AudiodStarts
(* What a death leaves is on disk (LastWords).                              *)
LEMMA AudiodDiesKeeps ==
  ASSUME VolumeType, VolumeType', Sound, Undoable, UNCHANGED setup, AudiodDies
  PROVE  Sound'
<1>t. VolumeType /\ VolumeType' /\ setup' = setup
  OBVIOUS
<1>n. Numerals /\ setup' = setup
  BY Numbers
<1>b. /\ d.up
      /\ Undoable /\ Staged /\ Ordered /\ Beliefs /\ Durable /\ Owned /\ Heard /\ Claimed /\ Pressed
  BY DEF Sound, AudiodDies, At, Serving, Ready, VolumeType, Aimed
<1>w. setup.crashes # 0
  BY <1>t DEF AudiodDies, Spend, VolumeType, SpentRec
<1>m. Relied => Recorded
  BY <1>b DEF Durable, Matches
<1>1. CASE d' = Down /\ c' = c
  <2>d. /\ (d'.up <=> FALSE) /\ d'.s = NoSession /\ d'.prev = NoSession /\ d'.newest = 0
        /\ (d'.ended <=> FALSE) /\ (d'.pending <=> FALSE) /\ (d'.publish <=> FALSE) /\ d'.volume = 50
        /\ d'.requested = -1 /\ d'.op = "idle" /\ d'.target = 0 /\ d'.from = "none"
    <3>1. d' = Down
      BY <1>1
    <3>2. ~Down.up /\ Down.s = NoSession /\ Down.prev = NoSession /\ Down.newest = 0
      BY DEF Down
    <3>3. ~Down.ended /\ ~Down.pending /\ ~Down.publish /\ Down.volume = 50
      BY DEF Down
    <3>4. Down.requested = -1 /\ Down.op = "idle" /\ Down.target = 0 /\ Down.from = "none"
      BY DEF Down
    <3> QED
      BY <3>1, <3>2, <3>3, <3>4
  <2>c. c' = c
    BY <1>1 DEF AudiodDies, Goto, ReplyNow
  <2>f. files' = files
    BY <1>1, <1>t DEF AudiodDies
  <2>x. asked' = asked /\ pressed' = pressed /\ spent'.sessions = spent.sessions
    BY <1>1, <1>t, Spent DEF AudiodDies, Fault
  <2>s. Standing = Standing /\ Standing' = d'.s
    BY <1>1, <2>d, <1>b DEF Standing, Changing
  <2>g. Saved' = Saved /\ (Session' <=> Session) /\ (Ended' <=> Ended) /\ Current' = Current
    BY <2>f DEF Saved, Session, Ended, Current
  <2>k. Relied
    BY <1>b, <1>w DEF Undoable, Relied
  <2>n. NoSession.sess = 0 /\ NoSession.cb = 0 /\ d' = Down
    BY <1>1 DEF NoSession
  <2>w. Recorded
    BY <1>m, <2>k
  <2>1. Staged'
    BY <1>1, <2>d, <2>c, <2>f, <2>x, <2>s, <1>n, <1>b, <2>g, <2>k, <2>n, <2>w DEF Numerals, Staged
  <2>2. Ordered'
    BY <1>1, <2>d, <2>c, <2>f, <2>x, <2>s, <1>n, <1>b, <2>g, <2>k, <2>n, <2>w DEF Numerals,
       Ordered, Numbered, Slid, Staged
  <2>3. Beliefs'
    BY <1>1, <2>d, <2>c, <2>f, <2>x, <2>s, <1>n, <1>b, <2>g, <2>k, <2>n, <2>w DEF Numerals,
       Beliefs, Believed
  <2>4. Durable'
    <3>1. Recorded'
      BY <2>w, <2>f, <2>x, <2>g, <1>t DEF Recorded, Numbered, Slid, Taken, Saved
    <3> QED
      BY <3>1, <2>d DEF Durable
  <2>5. Owned'
    BY <1>1, <2>d, <2>c, <2>f, <2>x, <2>s, <1>n, <1>b, <2>g, <2>k, <2>n, <2>w DEF Numerals, Owned,
       Taken, Staged
  <2>6. Heard'
    BY <1>1, <2>d, <2>c, <2>f, <2>x, <2>s, <1>n, <1>b, <2>g, <2>k, <2>n, <2>w DEF Numerals, Heard,
       Taken, LevelOf, Staged, Ordered, Numbered, Slid
  <2>7. Claimed'
    <3>1. ~c'.enabled => ~Playable'
      BY <1>1, <2>d, <2>c, <2>f, <2>x, <2>s, <1>n, <1>b, <2>g, <2>k, <2>n, <2>w DEF Numerals,
         Claimed, None, Beliefs, Believed, Claim, Playable, Current, Session, Saved, Staged,
         Ordered, Numbered, Slid
    <3>2. c'.pc = "end" /\ Playable' => c'.sess # files'.marker
      BY <1>1, <2>d, <2>c, <2>f, <2>x, <2>s, <1>n, <1>b, <2>g, <2>k, <2>n, <2>w DEF Numerals,
         Claimed, None, Beliefs, Believed, Claim, Playable, Current, Session, Saved, Staged,
         Ordered, Numbered, Slid
    <3>3. d'.op = "tomb" /\ Playable' /\ d'.s.sess = files'.marker => ~Claim'
      BY <1>1, <2>d, <2>c, <2>f, <2>x, <2>s, <1>n, <1>b, <2>g, <2>k, <2>n, <2>w DEF Numerals,
         Claimed, None, Beliefs, Believed, Claim, Playable, Current, Session, Saved, Staged,
         Ordered, Numbered, Slid
    <3>4. Playable' /\ Claim' => Session' /\ <<Saved'[2].sess, Saved'[2].cb>> = Current'
      <4>1. Claim' /\ Playable' => Claim /\ Playable /\ files.marker # 0
        BY <1>1, <2>f, <2>c, <2>g DEF Claim, Playable
      <4>2. Claim /\ Playable => <<Standing.sess, Standing.cb>> = Current
        BY <1>b DEF Claimed
      <4> QED
        BY <4>1, <4>2, <2>k, <2>g, <1>b, <1>t, LastWords
    <3>5. ~d'.up
      BY <2>d
    <3> QED
      BY <3>1, <3>2, <3>3, <3>4, <3>5 DEF Claimed
  <2>8. Pressed'
    <3>1. pressed' # None => pressed'[1] # 0 /\ pressed'[1] <= spent'.sessions /\ pressed'[2] <= files'.cb /\ files'.master >= 0
      BY <1>1, <2>d, <2>c, <2>f, <2>x, <2>s, <1>n, <1>b, <2>g, <2>k, <2>n, <2>w, <1>m
         DEF Numerals, Levels, None, Pressed, Overrides, Session, Saved, Ended, Relied, Staged,
         Ordered, Numbered, Slid
    <3>2. pressed' # None /\ d'.up => Overrides(Standing)'
      BY <1>1, <2>d, <2>c, <2>f, <2>x, <2>s, <1>n, <1>b, <2>g, <2>k, <2>n, <2>w, <1>m
         DEF Numerals, Levels, None, Pressed, Overrides, Session, Saved, Ended, Relied, Staged,
         Ordered, Numbered, Slid
    <3>3. pressed' # None /\ d'.up /\ pressed'[1] = files'.marker =>
          Standing'.sess = files'.marker \/ (d'.ended /\ d'.newest = files'.marker)
      BY <1>1, <2>d, <2>c, <2>f, <2>x, <2>s, <1>n, <1>b, <2>g, <2>k, <2>n, <2>w, <1>m
         DEF Numerals, Levels, None, Pressed, Overrides, Session, Saved, Ended, Relied, Staged,
         Ordered, Numbered, Slid
    <3>4. pressed' # None /\ d'.op \in {"saveV", "setV"} /\ d'.s.sess = pressed'[1] => d'.s.cb > pressed'[2]
      BY <1>1, <2>d, <2>c, <2>f, <2>x, <2>s, <1>n, <1>b, <2>g, <2>k, <2>n, <2>w, <1>m
         DEF Numerals, Levels, None, Pressed, Overrides, Session, Saved, Ended, Relied, Staged,
         Ordered, Numbered, Slid
    <3>5. pressed' # None /\ Relied' /\ Session' => Overrides(Saved[2])'
      BY <1>1, <2>d, <2>c, <2>f, <2>x, <2>s, <1>n, <1>b, <2>g, <2>k, <2>n, <2>w, <1>m
         DEF Numerals, Levels, None, Pressed, Overrides, Session, Saved, Ended, Relied, Staged,
         Ordered, Numbered, Slid
    <3>6. pressed' # None /\ pressed'[1] = files'.marker =>
          \/ Session' /\ Saved'[2].sess = files'.marker
          \/ Ended' /\ Saved'[2] = files'.marker
      <4>1. pressed # None /\ pressed[1] = files.marker =>
               files.marker # 0 /\ (Standing.sess = files.marker \/ (d.ended /\ d.newest = files.marker))
        BY <1>b DEF Pressed
      <4>2. pressed # None /\ pressed[1] = files.marker =>
               (Session /\ Saved[2].sess = files.marker) \/ (Ended /\ Saved[2] = files.marker)
        BY <4>1, <2>k, <1>b, <1>t, LastWords
      <4> QED
        BY <4>2, <2>g, <2>x, <2>f
    <3> QED
      BY <3>1, <3>2, <3>3, <3>4, <3>5, <3>6 DEF Pressed
  <2> QED
    BY <2>1, <2>2, <2>3, <2>4, <2>5, <2>6, <2>7, <2>8 DEF Sound
<1>2. CASE d' = Down /\ c' = [c EXCEPT !.pc = "idle"]
  <2>d. /\ (d'.up <=> FALSE) /\ d'.s = NoSession /\ d'.prev = NoSession /\ d'.newest = 0
        /\ (d'.ended <=> FALSE) /\ (d'.pending <=> FALSE) /\ (d'.publish <=> FALSE) /\ d'.volume = 50
        /\ d'.requested = -1 /\ d'.op = "idle" /\ d'.target = 0 /\ d'.from = "none"
    <3>1. d' = Down
      BY <1>2
    <3>2. ~Down.up /\ Down.s = NoSession /\ Down.prev = NoSession /\ Down.newest = 0
      BY DEF Down
    <3>3. ~Down.ended /\ ~Down.pending /\ ~Down.publish /\ Down.volume = 50
      BY DEF Down
    <3>4. Down.requested = -1 /\ Down.op = "idle" /\ Down.target = 0 /\ Down.from = "none"
      BY DEF Down
    <3> QED
      BY <3>1, <3>2, <3>3, <3>4
  <2>c. /\ (c'.up <=> c.up) /\ (c'.enabled <=> c.enabled) /\ c'.sess = c.sess
        /\ c'.confirmed = c.confirmed /\ c'.pc = "idle" /\ c'.m = c.m /\ c'.v = c.v
        /\ c'.level = c.level
    BY <1>2, <1>t DEF AudiodDies, VolumeType, ClientRec, ReplyNow, Told
  <2>f. files' = files
    BY <1>2, <1>t DEF AudiodDies
  <2>x. asked' = asked /\ pressed' = pressed /\ spent'.sessions = spent.sessions
    BY <1>2, <1>t, Spent DEF AudiodDies, Fault
  <2>s. Standing = Standing /\ Standing' = d'.s
    BY <1>2, <2>d, <1>b DEF Standing, Changing
  <2>g. Saved' = Saved /\ (Session' <=> Session) /\ (Ended' <=> Ended) /\ Current' = Current
    BY <2>f DEF Saved, Session, Ended, Current
  <2>k. Relied
    BY <1>b, <1>w DEF Undoable, Relied
  <2>n. NoSession.sess = 0 /\ NoSession.cb = 0 /\ d' = Down
    BY <1>2 DEF NoSession
  <2>w. Recorded
    BY <1>m, <2>k
  <2>1. Staged'
    BY <1>2, <2>d, <2>c, <2>f, <2>x, <2>s, <1>n, <1>b, <2>g, <2>k, <2>n, <2>w DEF Numerals, Staged
  <2>2. Ordered'
    BY <1>2, <2>d, <2>c, <2>f, <2>x, <2>s, <1>n, <1>b, <2>g, <2>k, <2>n, <2>w DEF Numerals,
       Ordered, Numbered, Slid, Staged
  <2>3. Beliefs'
    BY <1>2, <2>d, <2>c, <2>f, <2>x, <2>s, <1>n, <1>b, <2>g, <2>k, <2>n, <2>w DEF Numerals,
       Beliefs, Believed
  <2>4. Durable'
    <3>1. Recorded'
      BY <2>w, <2>f, <2>x, <2>g, <1>t DEF Recorded, Numbered, Slid, Taken, Saved
    <3> QED
      BY <3>1, <2>d DEF Durable
  <2>5. Owned'
    BY <1>2, <2>d, <2>c, <2>f, <2>x, <2>s, <1>n, <1>b, <2>g, <2>k, <2>n, <2>w DEF Numerals, Owned,
       Taken, Staged
  <2>6. Heard'
    BY <1>2, <2>d, <2>c, <2>f, <2>x, <2>s, <1>n, <1>b, <2>g, <2>k, <2>n, <2>w DEF Numerals, Heard,
       Taken, LevelOf, Staged, Ordered, Numbered, Slid
  <2>7. Claimed'
    <3>1. ~c'.enabled => ~Playable'
      BY <1>2, <2>d, <2>c, <2>f, <2>x, <2>s, <1>n, <1>b, <2>g, <2>k, <2>n, <2>w DEF Numerals,
         Claimed, None, Beliefs, Believed, Claim, Playable, Current, Session, Saved, Staged,
         Ordered, Numbered, Slid
    <3>2. c'.pc = "end" /\ Playable' => c'.sess # files'.marker
      BY <1>2, <2>d, <2>c, <2>f, <2>x, <2>s, <1>n, <1>b, <2>g, <2>k, <2>n, <2>w DEF Numerals,
         Claimed, None, Beliefs, Believed, Claim, Playable, Current, Session, Saved, Staged,
         Ordered, Numbered, Slid
    <3>3. d'.op = "tomb" /\ Playable' /\ d'.s.sess = files'.marker => ~Claim'
      BY <1>2, <2>d, <2>c, <2>f, <2>x, <2>s, <1>n, <1>b, <2>g, <2>k, <2>n, <2>w DEF Numerals,
         Claimed, None, Beliefs, Believed, Claim, Playable, Current, Session, Saved, Staged,
         Ordered, Numbered, Slid
    <3>4. Playable' /\ Claim' => Session' /\ <<Saved'[2].sess, Saved'[2].cb>> = Current'
      <4>1. Claim' /\ Playable' => Claim /\ Playable /\ files.marker # 0
        BY <1>2, <2>f, <2>c, <2>g DEF Claim, Playable
      <4>2. Claim /\ Playable => <<Standing.sess, Standing.cb>> = Current
        BY <1>b DEF Claimed
      <4> QED
        BY <4>1, <4>2, <2>k, <2>g, <1>b, <1>t, LastWords
    <3>5. ~d'.up
      BY <2>d
    <3> QED
      BY <3>1, <3>2, <3>3, <3>4, <3>5 DEF Claimed
  <2>8. Pressed'
    <3>1. pressed' # None => pressed'[1] # 0 /\ pressed'[1] <= spent'.sessions /\ pressed'[2] <= files'.cb /\ files'.master >= 0
      BY <1>2, <2>d, <2>c, <2>f, <2>x, <2>s, <1>n, <1>b, <2>g, <2>k, <2>n, <2>w, <1>m
         DEF Numerals, Levels, None, Pressed, Overrides, Session, Saved, Ended, Relied, Staged,
         Ordered, Numbered, Slid
    <3>2. pressed' # None /\ d'.up => Overrides(Standing)'
      BY <1>2, <2>d, <2>c, <2>f, <2>x, <2>s, <1>n, <1>b, <2>g, <2>k, <2>n, <2>w, <1>m
         DEF Numerals, Levels, None, Pressed, Overrides, Session, Saved, Ended, Relied, Staged,
         Ordered, Numbered, Slid
    <3>3. pressed' # None /\ d'.up /\ pressed'[1] = files'.marker =>
          Standing'.sess = files'.marker \/ (d'.ended /\ d'.newest = files'.marker)
      BY <1>2, <2>d, <2>c, <2>f, <2>x, <2>s, <1>n, <1>b, <2>g, <2>k, <2>n, <2>w, <1>m
         DEF Numerals, Levels, None, Pressed, Overrides, Session, Saved, Ended, Relied, Staged,
         Ordered, Numbered, Slid
    <3>4. pressed' # None /\ d'.op \in {"saveV", "setV"} /\ d'.s.sess = pressed'[1] => d'.s.cb > pressed'[2]
      BY <1>2, <2>d, <2>c, <2>f, <2>x, <2>s, <1>n, <1>b, <2>g, <2>k, <2>n, <2>w, <1>m
         DEF Numerals, Levels, None, Pressed, Overrides, Session, Saved, Ended, Relied, Staged,
         Ordered, Numbered, Slid
    <3>5. pressed' # None /\ Relied' /\ Session' => Overrides(Saved[2])'
      BY <1>2, <2>d, <2>c, <2>f, <2>x, <2>s, <1>n, <1>b, <2>g, <2>k, <2>n, <2>w, <1>m
         DEF Numerals, Levels, None, Pressed, Overrides, Session, Saved, Ended, Relied, Staged,
         Ordered, Numbered, Slid
    <3>6. pressed' # None /\ pressed'[1] = files'.marker =>
          \/ Session' /\ Saved'[2].sess = files'.marker
          \/ Ended' /\ Saved'[2] = files'.marker
      <4>1. pressed # None /\ pressed[1] = files.marker =>
               files.marker # 0 /\ (Standing.sess = files.marker \/ (d.ended /\ d.newest = files.marker))
        BY <1>b DEF Pressed
      <4>2. pressed # None /\ pressed[1] = files.marker =>
               (Session /\ Saved[2].sess = files.marker) \/ (Ended /\ Saved[2] = files.marker)
        BY <4>1, <2>k, <1>b, <1>t, LastWords
      <4> QED
        BY <4>2, <2>g, <2>x, <2>f
    <3> QED
      BY <3>1, <3>2, <3>3, <3>4, <3>5, <3>6 DEF Pressed
  <2> QED
    BY <2>1, <2>2, <2>3, <2>4, <2>5, <2>6, <2>7, <2>8 DEF Sound
<1> QED
  BY <1>1, <1>2 DEF AudiodDies
(* airplayd ends only a session whose sender is not playing.                *)
LEMMA AsksEndKeeps ==
  ASSUME VolumeType, VolumeType', Sound, Undoable, UNCHANGED setup, AsksEnd
  PROVE  Sound'
<1>t. VolumeType /\ VolumeType' /\ setup' = setup
  OBVIOUS
<1>n. Numerals /\ setup' = setup
  BY Numbers
<1>b. /\ c.up /\ c.pc = "idle"
      /\ Undoable /\ Staged /\ Ordered /\ Beliefs /\ Durable /\ Owned /\ Heard /\ Claimed /\ Pressed
  BY DEF Sound, AsksEnd, At, Serving, Ready, VolumeType, Aimed
<1>m. Relied => Recorded /\ (d.up => Matches)
  BY <1>b DEF Durable, Matches
<1>1. CASE AsksEnd
  <2>d. d' = d
    BY <1>1 DEF AsksEnd, ReplyNow
  <2>c. /\ (c'.up <=> c.up) /\ (c'.enabled <=> c.enabled) /\ c'.sess = c.sess
        /\ c'.confirmed = c.confirmed /\ c'.pc = "end" /\ c'.m = c.m /\ c'.v = c.v
        /\ c'.level = c.level
    BY <1>1, <1>t DEF AsksEnd, VolumeType, ClientRec, ReplyNow, Told
  <2>f. files' = files
    BY <1>1, <1>t DEF AsksEnd
  <2>x. asked' = asked /\ pressed' = pressed /\ spent' = spent
    BY <1>1, <1>t, Spent DEF AsksEnd, Fault
  <2>s. Standing' = Standing
    BY <1>1, <2>d, <1>b DEF Standing, Changing
  <2>y. /\ Standing.sess \in Nat /\ Standing.cb \in Nat
        /\ c.confirmed # None => c.confirmed[1] \in Nat /\ c.confirmed[2] \in Nat
        /\ files.ack # None => files.ack[1] \in Nat /\ files.ack[2] \in Nat
    BY <1>t DEF Standing, VolumeType, HwRec, SessRec, ClientRec, FilesRec, Claims
  <2>1. Staged' /\ Ordered' /\ Durable' /\ Owned' /\ Heard' /\ Pressed'
    BY <2>d, <2>f, <2>x, <1>b, <1>n, Untouched
  <2>3. Beliefs'
    BY <1>1, <2>d, <2>c, <2>f, <2>x, <2>s, <1>n, <1>b, <2>y DEF Numerals, Beliefs, Believed,
       AsksEnd, Ordered, Numbered, Slid
  <2>7. Claimed'
    BY SMTT(60), <1>1, <2>d, <2>c, <2>f, <2>x, <2>s, <1>n, <1>b, <2>y DEF Numerals, Claimed, None, Beliefs,
       Believed, Claim, Playable, Current, Session, Saved, Staged, Ordered, Numbered, Slid,
       AsksEnd
  <2> QED
    BY <2>1, <2>3, <2>7 DEF Sound
<1> QED
  BY <1>1

(* airplayd asks for the callback that is current now.                      *)
LEMMA AsksVolumeKeeps ==
  ASSUME VolumeType, VolumeType', Sound, Undoable, UNCHANGED setup, AsksVolume
  PROVE  Sound'
<1>t. VolumeType /\ VolumeType' /\ setup' = setup
  OBVIOUS
<1>n. Numerals /\ setup' = setup
  BY Numbers
<1>b. /\ c.up /\ c.pc = "idle" /\ c.enabled /\ files.marker # 0 /\ files.cb # 0
      /\ Undoable /\ Staged /\ Ordered /\ Beliefs /\ Durable /\ Owned /\ Heard /\ Claimed /\ Pressed
  BY DEF Sound, AsksVolume, At, Serving, Ready, VolumeType, Aimed
<1>m. Relied => Recorded /\ (d.up => Matches)
  BY <1>b DEF Durable, Matches
<1>1. CASE c.confirmed = Current /\ ~c.applied /\ d.up /\ c' = [c EXCEPT !.pc = "status", !.sess = files.marker, !.m = files.marker,
              !.v = files.cb, !.level = DbToPercent(files.db)]
  <2>d. d' = d
    BY <1>1 DEF AsksVolume, ReplyNow
  <2>c. /\ (c'.up <=> c.up) /\ (c'.enabled <=> c.enabled) /\ c'.sess = files.marker
        /\ c'.confirmed = c.confirmed /\ c'.pc = "status" /\ c'.m = files.marker /\ c'.v = files.cb
        /\ c'.level = DbToPercent(files.db)
    BY <1>1, <1>t DEF AsksVolume, VolumeType, ClientRec, ReplyNow, Told
  <2>f. files' = files
    BY <1>1, <1>t DEF AsksVolume
  <2>x. asked' = asked /\ pressed' = pressed /\ spent' = spent
    BY <1>1, <1>t, Spent DEF AsksVolume, Fault
  <2>s. Standing' = Standing
    BY <1>1, <2>d, <1>b DEF Standing, Changing
  <2>y. /\ Standing.sess \in Nat /\ Standing.cb \in Nat
        /\ c.confirmed # None => c.confirmed[1] \in Nat /\ c.confirmed[2] \in Nat
        /\ files.ack # None => files.ack[1] \in Nat /\ files.ack[2] \in Nat
    BY <1>t DEF Standing, VolumeType, HwRec, SessRec, ClientRec, FilesRec, Claims
  <2>1. Staged' /\ Ordered' /\ Durable' /\ Owned' /\ Heard' /\ Pressed'
    BY <2>d, <2>f, <2>x, <1>b, <1>n, Untouched
  <2>3. Beliefs'
    BY <1>1, <2>d, <2>c, <2>f, <2>x, <2>s, <1>n, <1>b, <2>y DEF Numerals, Beliefs, Believed,
       Ordered, Numbered, Slid
  <2>7. Claimed'
    BY Zenon, <1>1, <2>d, <2>c, <2>f, <2>x, <2>s, <1>n, <1>b, <2>y DEF Numerals, Claimed, None, Beliefs,
       Believed, Claim, Playable, Current, Session, Saved, Staged, Ordered, Numbered, Slid
  <2> QED
    BY <2>1, <2>3, <2>7 DEF Sound
<1>2. CASE ~(c.confirmed = Current /\ ~c.applied) /\ d.up /\ c' = [[c EXCEPT !.confirmed = None, !.applied = FALSE]
              EXCEPT !.pc = "call", !.sess = files.marker, !.m = files.marker,
                     !.v = files.cb, !.level = DbToPercent(files.db)]
  <2>d. d' = d
    BY <1>2 DEF AsksVolume, ReplyNow
  <2>c. /\ (c'.up <=> c.up) /\ (c'.enabled <=> c.enabled) /\ c'.sess = files.marker
        /\ c'.confirmed = None /\ c'.pc = "call" /\ c'.m = files.marker /\ c'.v = files.cb
        /\ c'.level = DbToPercent(files.db)
    BY <1>2, <1>t DEF AsksVolume, VolumeType, ClientRec, ReplyNow, Told
  <2>f. files' = files
    BY <1>2, <1>t DEF AsksVolume
  <2>x. asked' = asked /\ pressed' = pressed /\ spent' = spent
    BY <1>2, <1>t, Spent DEF AsksVolume, Fault
  <2>s. Standing' = Standing
    BY <1>2, <2>d, <1>b DEF Standing, Changing
  <2>y. /\ Standing.sess \in Nat /\ Standing.cb \in Nat
        /\ c.confirmed # None => c.confirmed[1] \in Nat /\ c.confirmed[2] \in Nat
        /\ files.ack # None => files.ack[1] \in Nat /\ files.ack[2] \in Nat
    BY <1>t DEF Standing, VolumeType, HwRec, SessRec, ClientRec, FilesRec, Claims
  <2>1. Staged' /\ Ordered' /\ Durable' /\ Owned' /\ Heard' /\ Pressed'
    BY <2>d, <2>f, <2>x, <1>b, <1>n, Untouched
  <2>3. Beliefs'
    BY <1>2, <2>d, <2>c, <2>f, <2>x, <2>s, <1>n, <1>b, <2>y DEF Numerals, Beliefs, Believed,
       Ordered, Numbered, Slid
  <2>7. Claimed'
    <3>1. Claimed
      BY <1>b
    <3>2. (Session' <=> Session) /\ Saved' = Saved /\ (Playable' <=> Playable)
      BY <2>f DEF Session, Saved, Playable
    <3>3. Current' = Current /\ Current # None
      BY <2>f DEF Current, None
    <3>4. Claim' => Claim
      BY <2>c, <2>f, <3>3 DEF Claim
    <3>5. (c'.pc = "end" => c.pc = "end" /\ c'.sess = c.sess) /\ (c'.enabled <=> c.enabled)
      BY <2>c
    <3> QED
      BY <3>1, <3>2, <3>3, <3>4, <3>5, <2>d, <2>f, <2>s DEF Claimed
  <2> QED
    BY <2>1, <2>3, <2>7 DEF Sound
<1>3. CASE ~d.up /\ c' = c
  <2>d. d' = d
    BY <1>3 DEF AsksVolume, ReplyNow
  <2>c. c' = c
    BY <1>3 DEF AsksVolume, Goto, ReplyNow
  <2>f. files' = files
    BY <1>3, <1>t DEF AsksVolume
  <2>x. asked' = asked /\ pressed' = pressed /\ spent' = spent
    BY <1>3, <1>t, Spent DEF AsksVolume, Fault
  <2>s. Standing' = Standing
    BY <1>3, <2>d, <1>b DEF Standing, Changing
  <2>y. /\ Standing.sess \in Nat /\ Standing.cb \in Nat
        /\ c.confirmed # None => c.confirmed[1] \in Nat /\ c.confirmed[2] \in Nat
        /\ files.ack # None => files.ack[1] \in Nat /\ files.ack[2] \in Nat
    BY <1>t DEF Standing, VolumeType, HwRec, SessRec, ClientRec, FilesRec, Claims
  <2>1. Staged' /\ Ordered' /\ Durable' /\ Owned' /\ Heard' /\ Pressed'
    BY <2>d, <2>f, <2>x, <1>b, <1>n, Untouched
  <2>3. Beliefs'
    BY <1>3, <2>d, <2>c, <2>f, <2>x, <2>s, <1>n, <1>b, <2>y DEF Numerals, Beliefs, Believed,
       Ordered, Numbered, Slid
  <2>7. Claimed'
    <3>1. Claimed
      BY <1>b
    <3>2. (Session' <=> Session) /\ Saved' = Saved /\ (Playable' <=> Playable)
      BY <2>f DEF Session, Saved, Playable
    <3>3. Current' = Current /\ Current # None
      BY <2>f DEF Current, None
    <3>4. Claim' => Claim
      BY <2>c, <2>f, <3>3 DEF Claim
    <3>5. (c'.pc = "end" => c.pc = "end" /\ c'.sess = c.sess) /\ (c'.enabled <=> c.enabled)
      BY <2>c
    <3> QED
      BY <3>1, <3>2, <3>3, <3>4, <3>5, <2>d, <2>f, <2>s DEF Claimed
  <2> QED
    BY <2>1, <2>3, <2>7 DEF Sound
<1>4. CASE ~d.up /\ c' = [c EXCEPT !.confirmed = None, !.applied = FALSE]
  <2>d. d' = d
    BY <1>4 DEF AsksVolume, ReplyNow
  <2>c. /\ (c'.up <=> c.up) /\ (c'.enabled <=> c.enabled) /\ c'.sess = c.sess /\ c'.confirmed = None
        /\ c'.pc = c.pc /\ c'.m = c.m /\ c'.v = c.v /\ c'.level = c.level
    BY ZenonT(60), <1>4, <1>t DEF AsksVolume, VolumeType, ClientRec, ReplyNow, Told
  <2>f. files' = files
    BY <1>4, <1>t DEF AsksVolume
  <2>x. asked' = asked /\ pressed' = pressed /\ spent' = spent
    BY <1>4, <1>t, Spent DEF AsksVolume, Fault
  <2>s. Standing' = Standing
    BY <1>4, <2>d, <1>b DEF Standing, Changing
  <2>y. /\ Standing.sess \in Nat /\ Standing.cb \in Nat
        /\ c.confirmed # None => c.confirmed[1] \in Nat /\ c.confirmed[2] \in Nat
        /\ files.ack # None => files.ack[1] \in Nat /\ files.ack[2] \in Nat
    BY <1>t DEF Standing, VolumeType, HwRec, SessRec, ClientRec, FilesRec, Claims
  <2>1. Staged' /\ Ordered' /\ Durable' /\ Owned' /\ Heard' /\ Pressed'
    BY <2>d, <2>f, <2>x, <1>b, <1>n, Untouched
  <2>3. Beliefs'
    BY <1>4, <2>d, <2>c, <2>f, <2>x, <2>s, <1>n, <1>b, <2>y DEF Numerals, Beliefs, Believed,
       Ordered, Numbered, Slid
  <2>7. Claimed'
    <3>1. Claimed
      BY <1>b
    <3>2. (Session' <=> Session) /\ Saved' = Saved /\ (Playable' <=> Playable)
      BY <2>f DEF Session, Saved, Playable
    <3>3. Current' = Current /\ Current # None
      BY <2>f DEF Current, None
    <3>4. Claim' => Claim
      BY <2>c, <2>f, <3>3 DEF Claim
    <3>5. (c'.pc = "end" => c.pc = "end" /\ c'.sess = c.sess) /\ (c'.enabled <=> c.enabled)
      BY <2>c
    <3> QED
      BY <3>1, <3>2, <3>3, <3>4, <3>5, <2>d, <2>f, <2>s DEF Claimed
  <2> QED
    BY <2>1, <2>3, <2>7 DEF Sound
<1> QED
  BY Zenon, <1>1, <1>2, <1>3, <1>4 DEF AsksVolume

(* What is acknowledged next is current when it is read back.               *)
LEMMA ReadsBackKeeps ==
  ASSUME VolumeType, VolumeType', Sound, Undoable, UNCHANGED setup, ReadsBack
  PROVE  Sound'
<1>t. VolumeType /\ VolumeType' /\ setup' = setup
  OBVIOUS
<1>n. Numerals /\ setup' = setup
  BY Numbers
<1>b. /\ c.up /\ c.pc = "status"
      /\ Undoable /\ Staged /\ Ordered /\ Beliefs /\ Durable /\ Owned /\ Heard /\ Claimed /\ Pressed
  BY DEF Sound, ReadsBack, At, Serving, Ready, VolumeType, Aimed
<1>m. Relied => Recorded /\ (d.up => Matches)
  BY <1>b DEF Durable, Matches
<1>1. CASE Current = <<c.m, c.v>> /\ c' = [c EXCEPT !.pc = "ack"]
  <2>d. d' = d
    BY <1>1 DEF ReadsBack, ReplyNow
  <2>c. /\ (c'.up <=> c.up) /\ (c'.enabled <=> c.enabled) /\ c'.sess = c.sess
        /\ c'.confirmed = c.confirmed /\ c'.pc = "ack" /\ c'.m = c.m /\ c'.v = c.v
        /\ c'.level = c.level
    BY <1>1, <1>t DEF ReadsBack, VolumeType, ClientRec, ReplyNow, Told
  <2>f. files' = files
    BY <1>1, <1>t DEF ReadsBack
  <2>x. asked' = asked /\ pressed' = pressed /\ spent' = spent
    BY <1>1, <1>t, Spent DEF ReadsBack, Fault
  <2>s. Standing' = Standing
    BY <1>1, <2>d, <1>b DEF Standing, Changing
  <2>y. /\ Standing.sess \in Nat /\ Standing.cb \in Nat
        /\ c.confirmed # None => c.confirmed[1] \in Nat /\ c.confirmed[2] \in Nat
        /\ files.ack # None => files.ack[1] \in Nat /\ files.ack[2] \in Nat
    BY <1>t DEF Standing, VolumeType, HwRec, SessRec, ClientRec, FilesRec, Claims
  <2>1. Staged' /\ Ordered' /\ Durable' /\ Owned' /\ Heard' /\ Pressed'
    BY <2>d, <2>f, <2>x, <1>b, <1>n, Untouched
  <2>3. Beliefs'
    BY <1>1, <2>d, <2>c, <2>f, <2>x, <2>s, <1>n, <1>b, <2>y DEF Numerals, Beliefs, Believed,
       Ordered, Numbered, Slid
  <2>7. Claimed'
    BY <1>1, <2>d, <2>c, <2>f, <2>x, <2>s, <1>n, <1>b, <2>y DEF Numerals, Claimed, None, Beliefs,
       Believed, Claim, Playable, Current, Session, Saved, Staged, Ordered, Numbered, Slid
  <2> QED
    BY <2>1, <2>3, <2>7 DEF Sound
<1>2. CASE c' = [c EXCEPT !.pc = "idle"]
  <2>d. d' = d
    BY <1>2 DEF ReadsBack, ReplyNow
  <2>c. /\ (c'.up <=> c.up) /\ (c'.enabled <=> c.enabled) /\ c'.sess = c.sess
        /\ c'.confirmed = c.confirmed /\ c'.pc = "idle" /\ c'.m = c.m /\ c'.v = c.v
        /\ c'.level = c.level
    BY <1>2, <1>t DEF ReadsBack, VolumeType, ClientRec, ReplyNow, Told
  <2>f. files' = files
    BY <1>2, <1>t DEF ReadsBack
  <2>x. asked' = asked /\ pressed' = pressed /\ spent' = spent
    BY <1>2, <1>t, Spent DEF ReadsBack, Fault
  <2>s. Standing' = Standing
    BY <1>2, <2>d, <1>b DEF Standing, Changing
  <2>y. /\ Standing.sess \in Nat /\ Standing.cb \in Nat
        /\ c.confirmed # None => c.confirmed[1] \in Nat /\ c.confirmed[2] \in Nat
        /\ files.ack # None => files.ack[1] \in Nat /\ files.ack[2] \in Nat
    BY <1>t DEF Standing, VolumeType, HwRec, SessRec, ClientRec, FilesRec, Claims
  <2>1. Staged' /\ Ordered' /\ Durable' /\ Owned' /\ Heard' /\ Pressed'
    BY <2>d, <2>f, <2>x, <1>b, <1>n, Untouched
  <2>3. Beliefs'
    BY <1>2, <2>d, <2>c, <2>f, <2>x, <2>s, <1>n, <1>b, <2>y DEF Numerals, Beliefs, Believed,
       Ordered, Numbered, Slid
  <2>7. Claimed'
    <3>1. Claimed
      BY <1>b
    <3>2. (Session' <=> Session) /\ Saved' = Saved /\ (Playable' <=> Playable)
      BY <2>f DEF Session, Saved, Playable
    <3>3. Current' = Current /\ Current # None
      BY <2>f DEF Current, None
    <3>4. Claim' => Claim
      BY <2>c, <2>f, <3>3 DEF Claim
    <3>5. (c'.pc = "end" => c.pc = "end" /\ c'.sess = c.sess) /\ (c'.enabled <=> c.enabled)
      BY <2>c
    <3> QED
      BY <3>1, <3>2, <3>3, <3>4, <3>5, <2>d, <2>f, <2>s DEF Claimed
  <2> QED
    BY <2>1, <2>3, <2>7 DEF Sound
<1> QED
  BY <1>1, <1>2 DEF ReadsBack

(* What was acknowledged stands, or is not current any more.                *)
LEMMA AcknowledgesKeeps ==
  ASSUME VolumeType, VolumeType', Sound, Undoable, UNCHANGED setup, Acknowledges
  PROVE  Sound'
<1>t. VolumeType /\ VolumeType' /\ setup' = setup
  OBVIOUS
<1>n. Numerals /\ setup' = setup
  BY Numbers
<1>b. /\ c.up /\ c.pc = "ack"
      /\ Undoable /\ Staged /\ Ordered /\ Beliefs /\ Durable /\ Owned /\ Heard /\ Claimed /\ Pressed
  BY DEF Sound, Acknowledges, At, Serving, Ready, VolumeType, Aimed
<1>m. Relied => Recorded /\ (d.up => Matches)
  BY <1>b DEF Durable, Matches
<1>1. CASE files' = [files EXCEPT !.ack = <<c.m, c.v>>] /\ UNCHANGED spent
        /\ c' = [c EXCEPT !.pc = "idle", !.applied = TRUE, !.confirmed = <<c.m, c.v>>]
  <2>d. d' = d
    BY <1>1 DEF Acknowledges, ReplyNow
  <2>c. /\ (c'.up <=> c.up) /\ (c'.enabled <=> c.enabled) /\ c'.sess = c.sess
        /\ c'.confirmed = <<c.m, c.v>> /\ c'.pc = "idle" /\ c'.m = c.m /\ c'.v = c.v
        /\ c'.level = c.level
    BY <1>1, <1>t DEF Acknowledges, VolumeType, ClientRec, ReplyNow, Told
  <2>f. /\ files'.master = files.master /\ files'.record = files.record /\ files'.marker = files.marker
        /\ files'.cb = files.cb /\ files'.db = files.db /\ files'.ack = <<c.m, c.v>>
        /\ files'.left = files.left
    BY <1>1, <1>t DEF Acknowledges, VolumeType, FilesRec, SaveRecord, Publish, Revoke
  <2>x. asked' = asked /\ pressed' = pressed /\ spent' = spent
    BY <1>1, <1>t, Spent DEF Acknowledges, Fault
  <2>s. Standing' = Standing
    BY <1>1, <2>d, <1>b DEF Standing, Changing
  <2>y. /\ Standing.sess \in Nat /\ Standing.cb \in Nat
        /\ c.confirmed # None => c.confirmed[1] \in Nat /\ c.confirmed[2] \in Nat
        /\ files.ack # None => files.ack[1] \in Nat /\ files.ack[2] \in Nat
    BY <1>t DEF Standing, VolumeType, HwRec, SessRec, ClientRec, FilesRec, Claims
  <2>1. Staged'
    BY <1>1, <2>d, <2>c, <2>f, <2>x, <2>s, <1>n, <1>b, <2>y DEF Numerals, Staged
  <2>2. Ordered'
    BY <1>1, <2>d, <2>c, <2>f, <2>x, <2>s, <1>n, <1>b, <2>y DEF Numerals, Ordered, Numbered, Slid,
       Staged
  <2>3. Beliefs'
    BY <1>1, <2>d, <2>c, <2>f, <2>x, <2>s, <1>n, <1>b, <2>y DEF Numerals, Beliefs, Believed,
       Ordered, Numbered, Slid
  <2>4. Durable'
    <3> SUFFICES ASSUME Relied' PROVE Recorded' /\ (d'.up => Matches')
      BY DEF Durable
    <3>1. Recorded /\ (d.up => Matches)
      BY <1>1, <2>d, <2>c, <2>f, <2>x, <2>s, <1>n, <1>b, <2>y, <1>m DEF Relied
    <3>2. Recorded'
      BY <1>1, <2>d, <2>c, <2>f, <2>x, <2>s, <1>n, <1>b, <2>y, <3>1 DEF Numerals, Levels, None,
         Recorded, Session, Ended, Saved, Numbered, Slid, Taken
    <3>3. Saved' = Saved /\ (Session' <=> Session) /\ (Ended' <=> Ended)
      BY <1>1, <2>d, <2>c, <2>f, <2>x, <2>s, <1>n, <1>b, <2>y DEF Saved, Session, Ended
    <3>4. d'.up => Matches'
      BY Zenon, <2>d, <2>s, <2>x, <3>1, <3>3 DEF Matches, Written
    <3> QED
      BY <3>2, <3>4
  <2>5. Owned'
    BY <1>1, <2>d, <2>c, <2>f, <2>x, <2>s, <1>n, <1>b, <2>y DEF Numerals, Owned, Taken, Staged
  <2>6. Heard'
    BY <1>1, <2>d, <2>c, <2>f, <2>x, <2>s, <1>n, <1>b, <2>y DEF Numerals, Heard, Taken, LevelOf,
       Staged, Ordered, Numbered, Slid
  <2>7. Claimed'
    BY SMTT(60), <1>1, <2>d, <2>c, <2>f, <2>x, <2>s, <1>n, <1>b, <2>y DEF Numerals, Claimed, None, Beliefs,
       Believed, Claim, Playable, Current, Session, Saved, Staged, Ordered, Numbered, Slid
  <2>8. Pressed'
    BY <1>1, <2>d, <2>c, <2>f, <2>x, <2>s, <1>n, <1>b, <2>y, <1>m DEF Numerals, Levels, None,
       Pressed, Overrides, Session, Saved, Ended, Relied, Staged, Ordered, Numbered, Slid
  <2> QED
    BY <2>1, <2>2, <2>3, <2>4, <2>5, <2>6, <2>7, <2>8 DEF Sound
<1>2. CASE Fault /\ UNCHANGED files /\ c' = [c EXCEPT !.pc = "idle"]
  <2>d. d' = d
    BY <1>2 DEF Acknowledges, ReplyNow
  <2>c. /\ (c'.up <=> c.up) /\ (c'.enabled <=> c.enabled) /\ c'.sess = c.sess
        /\ c'.confirmed = c.confirmed /\ c'.pc = "idle" /\ c'.m = c.m /\ c'.v = c.v
        /\ c'.level = c.level
    BY <1>2, <1>t DEF Acknowledges, VolumeType, ClientRec, ReplyNow, Told
  <2>f. files' = files
    BY <1>2, <1>t DEF Acknowledges
  <2>x. asked' = asked /\ pressed' = pressed /\ spent'.sessions = spent.sessions
    BY <1>2, <1>t, Spent DEF Acknowledges, Fault
  <2>s. Standing' = Standing
    BY <1>2, <2>d, <1>b DEF Standing, Changing
  <2>y. /\ Standing.sess \in Nat /\ Standing.cb \in Nat
        /\ c.confirmed # None => c.confirmed[1] \in Nat /\ c.confirmed[2] \in Nat
        /\ files.ack # None => files.ack[1] \in Nat /\ files.ack[2] \in Nat
    BY <1>t DEF Standing, VolumeType, HwRec, SessRec, ClientRec, FilesRec, Claims
  <2>1. Staged' /\ Ordered' /\ Durable' /\ Owned' /\ Heard' /\ Pressed'
    BY <2>d, <2>f, <2>x, <1>b, <1>n, Untouched
  <2>3. Beliefs'
    BY <1>2, <2>d, <2>c, <2>f, <2>x, <2>s, <1>n, <1>b, <2>y DEF Numerals, Beliefs, Believed,
       Ordered, Numbered, Slid
  <2>7. Claimed'
    <3>1. Claimed
      BY <1>b
    <3>2. (Session' <=> Session) /\ Saved' = Saved /\ (Playable' <=> Playable)
      BY <2>f DEF Session, Saved, Playable
    <3>3. Current' = Current /\ Current # None
      BY <2>f DEF Current, None
    <3>4. Claim' => Claim
      BY <2>c, <2>f, <3>3 DEF Claim
    <3>5. (c'.pc = "end" => c.pc = "end" /\ c'.sess = c.sess) /\ (c'.enabled <=> c.enabled)
      BY <2>c
    <3> QED
      BY <3>1, <3>2, <3>3, <3>4, <3>5, <2>d, <2>f, <2>s DEF Claimed
  <2> QED
    BY <2>1, <2>3, <2>7 DEF Sound
<1> QED
  BY <1>1, <1>2 DEF Acknowledges

(* A request given up keeps running; its answer has nobody to go to.        *)
LEMMA TimesOutKeeps ==
  ASSUME VolumeType, VolumeType', Sound, Undoable, UNCHANGED setup, TimesOut
  PROVE  Sound'
<1>t. VolumeType /\ VolumeType' /\ setup' = setup
  OBVIOUS
<1>n. Numerals /\ setup' = setup
  BY Numbers
<1>b. /\ c.up
      /\ Undoable /\ Staged /\ Ordered /\ Beliefs /\ Durable /\ Owned /\ Heard /\ Claimed /\ Pressed
  BY DEF Sound, TimesOut, At, Serving, Ready, VolumeType, Aimed
<1>m. Relied => Recorded /\ (d.up => Matches)
  BY <1>b DEF Durable, Matches
<1>1. CASE TimesOut
  <2>d. /\ (d'.up <=> d.up) /\ d'.s = d.s /\ d'.prev = d.prev /\ d'.newest = d.newest
        /\ (d'.ended <=> d.ended) /\ (d'.pending <=> d.pending) /\ (d'.publish <=> d.publish)
        /\ d'.volume = d.volume /\ d'.requested = d.requested /\ d'.op = d.op /\ d'.target = d.target
        /\ d'.from = "none"
    BY <1>1, <1>t DEF TimesOut, VolumeType, HwRec, Goto, Finish, Published, SetEnded
  <2>c. /\ (c'.up <=> c.up) /\ (c'.enabled <=> c.enabled) /\ c'.sess = c.sess
        /\ c'.confirmed = c.confirmed /\ c'.pc = "idle" /\ c'.m = c.m /\ c'.v = c.v
        /\ c'.level = c.level
    BY <1>1, <1>t DEF TimesOut, VolumeType, ClientRec, ReplyNow, Told
  <2>f. files' = files
    BY <1>1, <1>t DEF TimesOut
  <2>x. asked' = asked /\ pressed' = pressed /\ spent'.sessions = spent.sessions
    BY <1>1, <1>t, Spent DEF TimesOut, Fault
  <2>s. Standing' = Standing
    BY <1>1, <2>d, <1>b DEF Standing, Changing
  <2>y. /\ Standing.sess \in Nat /\ Standing.cb \in Nat
        /\ c.confirmed # None => c.confirmed[1] \in Nat /\ c.confirmed[2] \in Nat
        /\ files.ack # None => files.ack[1] \in Nat /\ files.ack[2] \in Nat
    BY <1>t DEF Standing, VolumeType, HwRec, SessRec, ClientRec, FilesRec, Claims
  <2>i. ~d.up => d = Down /\ d.from = "none"
    BY <1>b DEF Staged, Down
  <2>z. ~d.up => d' = Down
    BY <1>1, <1>t, <2>i DEF TimesOut, VolumeType, HwRec
  <2>1. Staged'
    BY <1>1, <2>d, <2>c, <2>f, <2>x, <2>s, <1>n, <1>b, <2>y, <2>i, <2>z DEF Numerals, Staged
  <2>2. Ordered'
    BY <1>1, <2>d, <2>c, <2>f, <2>x, <2>s, <1>n, <1>b, <2>y, <2>i, <2>z DEF Numerals, Ordered,
       Numbered, Slid, Staged
  <2>3. Beliefs'
    BY <1>1, <2>d, <2>c, <2>f, <2>x, <2>s, <1>n, <1>b, <2>y, <2>i, <2>z DEF Numerals, Beliefs,
       Believed, Ordered, Numbered, Slid
  <2>4. Durable'
    <3> SUFFICES ASSUME Relied' PROVE Recorded' /\ (d'.up => Matches')
      BY DEF Durable
    <3>1. Recorded /\ (d.up => Matches)
      BY <1>1, <2>d, <2>c, <2>f, <2>x, <2>s, <1>n, <1>b, <2>y, <2>i, <2>z, <1>m DEF Relied
    <3>2. Recorded'
      BY <1>1, <2>d, <2>c, <2>f, <2>x, <2>s, <1>n, <1>b, <2>y, <2>i, <2>z, <3>1 DEF Numerals,
         Levels, None, Recorded, Session, Ended, Saved, Numbered, Slid, Taken
    <3>3. Saved' = Saved /\ (Session' <=> Session) /\ (Ended' <=> Ended)
      BY <1>1, <2>d, <2>c, <2>f, <2>x, <2>s, <1>n, <1>b, <2>y, <2>i, <2>z DEF Saved, Session, Ended
    <3>4. d'.up => Matches'
      BY ZenonT(60), <2>d, <2>s, <2>x, <3>1, <3>3 DEF Matches, Written
    <3> QED
      BY <3>2, <3>4
  <2>5. Owned'
    BY <1>1, <2>d, <2>c, <2>f, <2>x, <2>s, <1>n, <1>b, <2>y, <2>i, <2>z DEF Numerals, Owned,
       Taken, Staged
  <2>6. Heard'
    BY <1>1, <2>d, <2>c, <2>f, <2>x, <2>s, <1>n, <1>b, <2>y, <2>i, <2>z DEF Numerals, Heard,
       Taken, LevelOf, Staged, Ordered, Numbered, Slid
  <2>7. Claimed'
    BY SMTT(60), <1>1, <2>d, <2>c, <2>f, <2>x, <2>s, <1>n, <1>b, <2>y, <2>i, <2>z DEF Numerals, Claimed,
       None, Beliefs, Believed, Claim, Playable, Current, Session, Saved, Staged, Ordered,
       Numbered, Slid
  <2>8. Pressed'
    BY ZenonT(60), <1>1, <2>d, <2>c, <2>f, <2>x, <2>s, <1>n, <1>b, <2>y, <2>i, <2>z, <1>m DEF Numerals,
       Levels, None, Pressed, Overrides, Session, Saved, Ended, Relied, Staged, Ordered, Numbered,
       Slid
  <2> QED
    BY <2>1, <2>2, <2>3, <2>4, <2>5, <2>6, <2>7, <2>8 DEF Sound
<1> QED
  BY <1>1

(* A death forgets what airplayd believed, and its answer.                  *)
LEMMA AirplaydDiesKeeps ==
  ASSUME VolumeType, VolumeType', Sound, Undoable, UNCHANGED setup, "receiver" \notin setup.parts, AirplaydDies
  PROVE  Sound'
<1>t. VolumeType /\ VolumeType' /\ setup' = setup
  OBVIOUS
<1>n. Numerals /\ setup' = setup
  BY Numbers
<1>b. /\ c.up /\ (c.enabled <=> setup.enabled)
      /\ Undoable /\ Staged /\ Ordered /\ Beliefs /\ Durable /\ Owned /\ Heard /\ Claimed /\ Pressed
  BY DEF Sound, AirplaydDies, At, Serving, Ready, VolumeType, Aimed, Beliefs
<1>m. Relied => Recorded /\ (d.up => Matches)
  BY <1>b DEF Durable, Matches
<1>1. CASE AirplaydDies
  <2>d. /\ (d'.up <=> d.up) /\ d'.s = d.s /\ d'.prev = d.prev /\ d'.newest = d.newest
        /\ (d'.ended <=> d.ended) /\ (d'.pending <=> d.pending) /\ (d'.publish <=> d.publish)
        /\ d'.volume = d.volume /\ d'.requested = d.requested /\ d'.op = d.op /\ d'.target = d.target
        /\ d'.from = "none"
    BY <1>1, <1>t DEF AirplaydDies, VolumeType, HwRec, Goto, Finish, Published, SetEnded
  <2>c. /\ (c'.up <=> FALSE) /\ (c'.enabled <=> setup.enabled) /\ c'.sess = 0 /\ c'.confirmed = None
        /\ c'.pc = "idle" /\ c'.m = 0 /\ c'.v = 0 /\ c'.level = 0
    <3>1. c' = [[Idle EXCEPT !.up = FALSE] EXCEPT !.enabled = setup.enabled] /\ setup.enabled \in BOOLEAN
      BY <1>1, <1>t, SetupTypes DEF AirplaydDies, Dead, VolumeType
    <3>2. (c'.up <=> FALSE) /\ (c'.enabled <=> setup.enabled) /\ c'.sess = 0
      BY <3>1 DEF Idle
    <3>3. c'.confirmed = None /\ c'.pc = "idle"
      BY <3>1 DEF Idle
    <3>4. c'.m = 0 /\ c'.v = 0 /\ c'.level = 0
      BY <3>1 DEF Idle
    <3> QED
      BY <3>2, <3>3, <3>4
  <2>f. files' = files
    BY <1>1, <1>t DEF AirplaydDies
  <2>x. asked' = asked /\ pressed' = pressed /\ spent'.sessions = spent.sessions
    BY <1>1, <1>t, Spent DEF AirplaydDies, Fault
  <2>s. Standing' = Standing
    BY <1>1, <2>d, <1>b DEF Standing, Changing
  <2>y. /\ Standing.sess \in Nat /\ Standing.cb \in Nat
        /\ c.confirmed # None => c.confirmed[1] \in Nat /\ c.confirmed[2] \in Nat
        /\ files.ack # None => files.ack[1] \in Nat /\ files.ack[2] \in Nat
    BY <1>t DEF Standing, VolumeType, HwRec, SessRec, ClientRec, FilesRec, Claims
  <2>i. ~d.up => d = Down /\ d.from = "none"
    BY <1>b DEF Staged, Down
  <2>z. ~d.up => d' = Down
    BY <1>1, <1>t, <2>i DEF AirplaydDies, VolumeType, HwRec
  <2>1. Staged'
    BY <1>1, <2>d, <2>c, <2>f, <2>x, <2>s, <1>n, <1>b, <2>y, <2>i, <2>z DEF Numerals, Staged
  <2>2. Ordered'
    BY <1>1, <2>d, <2>c, <2>f, <2>x, <2>s, <1>n, <1>b, <2>y, <2>i, <2>z DEF Numerals, Ordered,
       Numbered, Slid, Staged
  <2>3. Beliefs'
    BY <1>1, <2>d, <2>c, <2>f, <2>x, <2>s, <1>n, <1>b, <2>y, <2>i, <2>z DEF Numerals, Beliefs,
       Believed, Ordered, Numbered, Slid
  <2>4. Durable'
    <3> SUFFICES ASSUME Relied' PROVE Recorded' /\ (d'.up => Matches')
      BY DEF Durable
    <3>1. Recorded /\ (d.up => Matches)
      BY <1>1, <2>d, <2>c, <2>f, <2>x, <2>s, <1>n, <1>b, <2>y, <2>i, <2>z, <1>m DEF Relied
    <3>2. Recorded'
      BY <1>1, <2>d, <2>c, <2>f, <2>x, <2>s, <1>n, <1>b, <2>y, <2>i, <2>z, <3>1 DEF Numerals,
         Levels, None, Recorded, Session, Ended, Saved, Numbered, Slid, Taken
    <3>3. Saved' = Saved /\ (Session' <=> Session) /\ (Ended' <=> Ended)
      BY <1>1, <2>d, <2>c, <2>f, <2>x, <2>s, <1>n, <1>b, <2>y, <2>i, <2>z DEF Saved, Session, Ended
    <3>4. d'.up => Matches'
      BY ZenonT(60), <2>d, <2>s, <2>x, <3>1, <3>3 DEF Matches, Written
    <3> QED
      BY <3>2, <3>4
  <2>5. Owned'
    BY <1>1, <2>d, <2>c, <2>f, <2>x, <2>s, <1>n, <1>b, <2>y, <2>i, <2>z DEF Numerals, Owned,
       Taken, Staged
  <2>6. Heard'
    BY <1>1, <2>d, <2>c, <2>f, <2>x, <2>s, <1>n, <1>b, <2>y, <2>i, <2>z DEF Numerals, Heard,
       Taken, LevelOf, Staged, Ordered, Numbered, Slid
  <2>7. Claimed'
    BY SMTT(60), <1>1, <2>d, <2>c, <2>f, <2>x, <2>s, <1>n, <1>b, <2>y, <2>i, <2>z DEF Numerals, Claimed,
       None, Beliefs, Believed, Claim, Playable, Current, Session, Saved, Staged, Ordered,
       Numbered, Slid
  <2>8. Pressed'
    BY ZenonT(60), <1>1, <2>d, <2>c, <2>f, <2>x, <2>s, <1>n, <1>b, <2>y, <2>i, <2>z, <1>m DEF Numerals,
       Levels, None, Pressed, Overrides, Session, Saved, Ended, Relied, Staged, Ordered, Numbered,
       Slid
  <2> QED
    BY <2>1, <2>2, <2>3, <2>4, <2>5, <2>6, <2>7, <2>8 DEF Sound
<1> QED
  BY <1>1

(* A start of airplayd changes no level.                                    *)
LEMMA AirplaydStartsKeeps ==
  ASSUME VolumeType, VolumeType', Sound, Undoable, UNCHANGED setup, AirplaydStarts
  PROVE  Sound'
<1>t. VolumeType /\ VolumeType' /\ setup' = setup
  OBVIOUS
<1>n. Numerals /\ setup' = setup
  BY Numbers
<1>b. /\ ~c.up
      /\ Undoable /\ Staged /\ Ordered /\ Beliefs /\ Durable /\ Owned /\ Heard /\ Claimed /\ Pressed
  BY DEF Sound, AirplaydStarts, At, Serving, Ready, VolumeType, Aimed
<1>m. Relied => Recorded /\ (d.up => Matches)
  BY <1>b DEF Durable, Matches
<1>1. CASE AirplaydStarts
  <2>d. d' = d
    BY <1>1 DEF AirplaydStarts, ReplyNow
  <2>c. /\ (c'.up <=> TRUE) /\ (c'.enabled <=> c.enabled) /\ c'.sess = c.sess
        /\ c'.confirmed = c.confirmed /\ c'.pc = c.pc /\ c'.m = c.m /\ c'.v = c.v /\ c'.level = c.level
    BY <1>1, <1>t DEF AirplaydStarts, VolumeType, ClientRec, ReplyNow, Told
  <2>f. files' = files
    BY <1>1, <1>t DEF AirplaydStarts
  <2>x. asked' = asked /\ pressed' = pressed /\ spent' = spent
    BY <1>1, <1>t, Spent DEF AirplaydStarts, Fault
  <2>s. Standing' = Standing
    BY <1>1, <2>d, <1>b DEF Standing, Changing
  <2>y. /\ Standing.sess \in Nat /\ Standing.cb \in Nat
        /\ c.confirmed # None => c.confirmed[1] \in Nat /\ c.confirmed[2] \in Nat
        /\ files.ack # None => files.ack[1] \in Nat /\ files.ack[2] \in Nat
    BY <1>t DEF Standing, VolumeType, HwRec, SessRec, ClientRec, FilesRec, Claims
  <2>1. Staged' /\ Ordered' /\ Durable' /\ Owned' /\ Heard' /\ Pressed'
    BY <2>d, <2>f, <2>x, <1>b, <1>n, Untouched
  <2>3. Beliefs'
    BY <1>1, <2>d, <2>c, <2>f, <2>x, <2>s, <1>n, <1>b, <2>y DEF Numerals, Beliefs, Believed,
       Ordered, Numbered, Slid
  <2>7. Claimed'
    <3>1. Claimed
      BY <1>b
    <3>2. (Session' <=> Session) /\ Saved' = Saved /\ (Playable' <=> Playable)
      BY <2>f DEF Session, Saved, Playable
    <3>3. Current' = Current /\ Current # None
      BY <2>f DEF Current, None
    <3>4. Claim' => Claim
      BY <2>c, <2>f, <3>3 DEF Claim
    <3>5. (c'.pc = "end" => c.pc = "end" /\ c'.sess = c.sess) /\ (c'.enabled <=> c.enabled)
      BY <2>c
    <3> QED
      BY <3>1, <3>2, <3>3, <3>4, <3>5, <2>d, <2>f, <2>s DEF Claimed
  <2> QED
    BY <2>1, <2>3, <2>7 DEF Sound
<1> QED
  BY <1>1

(* A new session is newer than all that anyone holds.                       *)
LEMMA SenderStartsKeeps ==
  ASSUME VolumeType, VolumeType', Sound, Undoable, UNCHANGED setup, SenderStarts
  PROVE  Sound'
<1>t. VolumeType /\ VolumeType' /\ setup' = setup
  OBVIOUS
<1>n. Numerals /\ setup' = setup
  BY Numbers
<1>b. /\ files.marker = 0 /\ c.enabled
      /\ Undoable /\ Staged /\ Ordered /\ Beliefs /\ Durable /\ Owned /\ Heard /\ Claimed /\ Pressed
  BY DEF Sound, SenderStarts, At, Serving, Ready, VolumeType, Aimed
<1>m. Relied => Recorded /\ (d.up => Matches)
  BY <1>b DEF Durable, Matches
<1>1. CASE SenderStarts
  <2>d. d' = d
    BY <1>1 DEF SenderStarts, ReplyNow
  <2>c. c' = c
    BY <1>1 DEF SenderStarts, Goto, ReplyNow
  <2>f. /\ files'.master = files.master /\ files'.record = files.record
        /\ files'.marker = spent.sessions + 1 /\ files'.cb = files.cb /\ files'.db = files.db
        /\ files'.ack = files.ack /\ files'.left = files.left
    BY <1>1, <1>t DEF SenderStarts, VolumeType, FilesRec, SaveRecord, Publish, Revoke
  <2>x. asked' = asked /\ pressed' = pressed /\ spent'.sessions = spent.sessions + 1
    BY <1>1, <1>t, Spent DEF SenderStarts, Fault
  <2>s. Standing' = Standing
    BY <1>1, <2>d, <1>b DEF Standing, Changing
  <2>j. \A s \in SessRec : Numbered(s) => /\ s.sess <= spent'.sessions /\ s.cb <= files'.cb
                                          /\ s.sess # 0 => s.cb # 0
                                          /\ s.sess # files'.marker
    BY <2>f, <2>x, <1>n DEF Numbered, Numerals, SessRec
  <2>o. Standing \in SessRec /\ d.s \in SessRec /\ c.confirmed \in Claims /\ files.ack \in Claims
    BY <1>t DEF Standing, VolumeType, HwRec, ClientRec, FilesRec
  <2>k. (files.ack # None => files.ack[1] <= spent'.sessions /\ files.ack[2] <= files'.cb) /\ files.ack # Current'
    <3>0. files.ack \in Claims /\ Believed(files.ack)
      BY <2>o, <1>b DEF Beliefs
    <3>1. CASE files.ack = None
      BY <3>1 DEF Current, None
    <3>2. CASE files.ack # None
      <4>1. files.ack[1] \in Nat /\ files.ack[2] \in Nat /\ files.ack[1] <= spent.sessions /\ files.ack[2] <= files.cb
        BY <3>0, <3>2 DEF Claims, Believed
      <4>2. spent.sessions \in Nat /\ files.cb \in Nat
        BY <1>n DEF Numerals
      <4>3. files.ack[1] <= spent'.sessions /\ files.ack[2] <= files'.cb /\ (files.ack[1] # files'.marker \/ files.ack[2] # files'.cb)
        BY <4>1, <4>2, <2>f, <2>x
      <4> QED
        BY <4>3 DEF Current
    <3> QED
      BY <3>1, <3>2
  <2>u. (c.confirmed # None => c.confirmed[1] <= spent'.sessions /\ c.confirmed[2] <= files'.cb) /\ c.confirmed # Current'
    <3>0. c.confirmed \in Claims /\ Believed(c.confirmed)
      BY <2>o, <1>b DEF Beliefs
    <3>1. CASE c.confirmed = None
      BY <3>1 DEF Current, None
    <3>2. CASE c.confirmed # None
      <4>1. c.confirmed[1] \in Nat /\ c.confirmed[2] \in Nat /\ c.confirmed[1] <= spent.sessions /\ c.confirmed[2] <= files.cb
        BY <3>0, <3>2 DEF Claims, Believed
      <4>2. spent.sessions \in Nat /\ files.cb \in Nat
        BY <1>n DEF Numerals
      <4>3. c.confirmed[1] <= spent'.sessions /\ c.confirmed[2] <= files'.cb /\ (c.confirmed[1] # files'.marker \/ c.confirmed[2] # files'.cb)
        BY <4>1, <4>2, <2>f, <2>x
      <4> QED
        BY <4>3 DEF Current
    <3> QED
      BY <3>1, <3>2
  <2>l. /\ c.sess <= spent'.sessions /\ c.m <= spent'.sessions /\ c.v <= files'.cb
        /\ <<c.m, c.v>> # Current'
    BY <2>f, <2>x, <1>n, <1>b DEF Beliefs, Numerals, Current
  <2>q. /\ files'.marker \in {0, spent'.sessions} /\ files'.left <= spent'.sessions /\ files'.marker # 0
        /\ d.newest <= spent'.sessions /\ (d.op \in {"tomb", "tomb0"} => d.target <= spent'.sessions)
        /\ c.sess # files'.marker /\ d.newest # files'.marker /\ d.newest < spent'.sessions
        /\ c.sess # files'.marker
    BY <2>f, <2>x, <1>n, <1>b DEF Ordered, Beliefs, Numerals
  <2>y. /\ Standing.sess \in Nat /\ Standing.cb \in Nat
        /\ c.confirmed # None => c.confirmed[1] \in Nat /\ c.confirmed[2] \in Nat
        /\ files.ack # None => files.ack[1] \in Nat /\ files.ack[2] \in Nat
    BY <1>t DEF Standing, VolumeType, HwRec, SessRec, ClientRec, FilesRec, Claims
  <2>1. Staged'
    BY <1>1, <2>d, <2>c, <2>f, <2>x, <2>s, <1>n, <1>b, <2>j, <2>o, <2>k, <2>u, <2>l, <2>q, <2>y
       DEF Numerals, Staged
  <2>2. Ordered'
    <3>1. Numbered(Standing)' /\ Slid(Standing)'
      <4>1. Numbered(Standing) /\ Slid(Standing)
        BY <1>b DEF Ordered
      <4>2. /\ Standing.sess <= spent'.sessions /\ Standing.cb <= files'.cb
            /\ Standing.sess # 0 => Standing.cb # 0
        BY <4>1, <2>j, <2>o DEF Numbered
      <4>3. Numbered(Standing)'
        BY <4>2, <2>s DEF Numbered
      <4>4. Slid(Standing)'
        BY <4>1, <2>s, <2>f DEF Slid
      <4> QED
        BY <4>3, <4>4
    <3>2. d.op \in {"saveV", "setV"} => Numbered(d.s)' /\ Slid(d.s)'
      <4> SUFFICES ASSUME d.op \in {"saveV", "setV"} PROVE Numbered(d.s)' /\ Slid(d.s)'
        OBVIOUS
      <4>1. Numbered(d.s) /\ Slid(d.s)
        BY <1>b DEF Ordered
      <4>2. /\ d.s.sess <= spent'.sessions /\ d.s.cb <= files'.cb
            /\ d.s.sess # 0 => d.s.cb # 0
        BY <4>1, <2>j, <2>o DEF Numbered
      <4>3. Numbered(d.s)'
        BY <4>2, <2>d DEF Numbered
      <4>4. Slid(d.s)'
        BY <4>1, <2>d, <2>f DEF Slid
      <4> QED
        BY <4>3, <4>4
    <3>3. d.newest <= spent'.sessions /\ (d.op \in {"tomb", "tomb0"} => d.target <= spent'.sessions)
      BY <2>d, <2>c, <2>f, <2>x, <2>s, <1>b, <2>j, <2>k, <2>u, <2>l, <2>o, <2>q, <1>n DEF Ordered,
         Numerals
    <3>4. files'.marker \in {0, spent'.sessions} /\ files'.left <= spent'.sessions
      BY <2>d, <2>c, <2>f, <2>x, <2>s, <1>b, <2>j, <2>k, <2>u, <2>l, <2>o, <2>q, <1>n DEF Ordered,
         Numerals
    <3> QED
      BY <3>1, <3>2, <3>3, <3>4, <2>d, <2>s, <1>b DEF Ordered
  <2>3. Beliefs'
    BY <2>d, <2>c, <2>f, <2>x, <2>s, <1>b, <2>j, <2>k, <2>u, <2>l, <2>o, <2>q, <1>n DEF Beliefs,
       Believed
  <2>4. Durable'
    <3> SUFFICES ASSUME Relied' PROVE Recorded' /\ (d'.up => Matches')
      BY DEF Durable
    <3>1. Recorded /\ (d.up => Matches)
      BY <1>1, <2>d, <2>c, <2>f, <2>x, <2>s, <1>n, <1>b, <2>j, <2>o, <2>k, <2>u, <2>l, <2>q, <2>y,
         <1>m DEF Relied
    <3>2. Recorded'
      BY SMTT(60), <1>1, <2>d, <2>c, <2>f, <2>x, <2>s, <1>n, <1>b, <2>j, <2>o, <2>k, <2>u, <2>l, <2>q, <2>y,
         <3>1 DEF Numerals, Levels, None, Recorded, Session, Ended, Saved, Numbered, Slid, Taken
    <3>3. Saved' = Saved /\ (Session' <=> Session) /\ (Ended' <=> Ended)
      BY <1>1, <2>d, <2>c, <2>f, <2>x, <2>s, <1>n, <1>b, <2>j, <2>o, <2>k, <2>u, <2>l, <2>q, <2>y
         DEF Saved, Session, Ended
    <3>4. d'.up => Matches'
      BY Zenon, <2>d, <2>s, <2>x, <3>1, <3>3, <2>q DEF Matches, Written
    <3> QED
      BY <3>2, <3>4
  <2>5. Owned'
    BY <1>1, <2>d, <2>c, <2>f, <2>x, <2>s, <1>n, <1>b, <2>j, <2>o, <2>k, <2>u, <2>l, <2>q, <2>y
       DEF Numerals, Owned, Taken, Staged
  <2>6. Heard'
    BY <1>1, <2>d, <2>c, <2>f, <2>x, <2>s, <1>n, <1>b, <2>j, <2>o, <2>k, <2>u, <2>l, <2>q, <2>y
       DEF Numerals, Heard, Taken, LevelOf, Staged, Ordered, Numbered, Slid
  <2>7. Claimed'
    <3>1. ~Claim'
      <4>1. files'.ack # Current' /\ c'.confirmed # Current'
        BY <2>k, <2>u, <2>f, <2>c
      <4> QED
        BY <4>1, <2>l, <2>c DEF Claim
    <3>2. ~c'.enabled => ~Playable'
      BY <2>d, <2>c, <2>f, <2>x, <2>s, <1>b, <2>j, <2>k, <2>u, <2>l, <2>o, <2>q DEF Claimed,
         Playable
    <3>3. c'.pc = "end" /\ Playable' => c'.sess # files'.marker
      BY <2>d, <2>c, <2>f, <2>x, <2>s, <1>b, <2>j, <2>k, <2>u, <2>l, <2>o, <2>q DEF Claimed,
         Playable
    <3>4. d'.op = "tomb" /\ Playable' /\ d'.s.sess = files'.marker => ~Claim'
      BY <3>1
    <3> QED
      BY <3>1, <3>2, <3>3, <3>4 DEF Claimed
  <2>8. Pressed'
    BY SMTT(60), <1>1, <2>d, <2>c, <2>f, <2>x, <2>s, <1>n, <1>b, <2>j, <2>o, <2>k, <2>u, <2>l, <2>q, <2>y,
       <1>m DEF Numerals, Levels, None, Pressed, Overrides, Session, Saved, Ended, Relied, Staged,
       Ordered, Numbered, Slid
  <2> QED
    BY <2>1, <2>2, <2>3, <2>4, <2>5, <2>6, <2>7, <2>8 DEF Sound
<1> QED
  BY <1>1

(* Nobody plays: nothing is claimed.                                        *)
LEMMA SenderStopsKeeps ==
  ASSUME VolumeType, VolumeType', Sound, Undoable, UNCHANGED setup, SenderStops
  PROVE  Sound'
<1>t. VolumeType /\ VolumeType' /\ setup' = setup
  OBVIOUS
<1>n. Numerals /\ setup' = setup
  BY Numbers
<1>b. /\ files.marker # 0
      /\ Undoable /\ Staged /\ Ordered /\ Beliefs /\ Durable /\ Owned /\ Heard /\ Claimed /\ Pressed
  BY DEF Sound, SenderStops, At, Serving, Ready, VolumeType, Aimed
<1>m. Relied => Recorded /\ (d.up => Matches)
  BY <1>b DEF Durable, Matches
<1>1. CASE SenderStops
  <2>d. d' = d
    BY <1>1 DEF SenderStops, ReplyNow
  <2>c. c' = c
    BY <1>1 DEF SenderStops, Goto, ReplyNow
  <2>f. /\ files'.master = files.master /\ files'.record = files.record /\ files'.marker = 0
        /\ files'.cb = files.cb /\ files'.db = files.db /\ files'.ack = files.ack
        /\ files'.left = files.left
    BY <1>1, <1>t DEF SenderStops, VolumeType, FilesRec, SaveRecord, Publish, Revoke
  <2>x. asked' = asked /\ pressed' = pressed /\ spent' = spent
    BY <1>1, <1>t, Spent DEF SenderStops, Fault
  <2>s. Standing' = Standing
    BY <1>1, <2>d, <1>b DEF Standing, Changing
  <2>y. /\ Standing.sess \in Nat /\ Standing.cb \in Nat
        /\ c.confirmed # None => c.confirmed[1] \in Nat /\ c.confirmed[2] \in Nat
        /\ files.ack # None => files.ack[1] \in Nat /\ files.ack[2] \in Nat
    BY <1>t DEF Standing, VolumeType, HwRec, SessRec, ClientRec, FilesRec, Claims
  <2>1. Staged'
    BY <1>1, <2>d, <2>c, <2>f, <2>x, <2>s, <1>n, <1>b, <2>y DEF Numerals, Staged
  <2>2. Ordered'
    BY <1>1, <2>d, <2>c, <2>f, <2>x, <2>s, <1>n, <1>b, <2>y DEF Numerals, Ordered, Numbered, Slid,
       Staged
  <2>3. Beliefs'
    BY <1>1, <2>d, <2>c, <2>f, <2>x, <2>s, <1>n, <1>b, <2>y DEF Numerals, Beliefs, Believed,
       Ordered, Numbered, Slid
  <2>4. Durable'
    <3> SUFFICES ASSUME Relied' PROVE Recorded' /\ (d'.up => Matches')
      BY DEF Durable
    <3>1. Recorded /\ (d.up => Matches)
      BY <1>1, <2>d, <2>c, <2>f, <2>x, <2>s, <1>n, <1>b, <2>y, <1>m DEF Relied
    <3>2. Recorded'
      BY <1>1, <2>d, <2>c, <2>f, <2>x, <2>s, <1>n, <1>b, <2>y, <3>1 DEF Numerals, Levels, None,
         Recorded, Session, Ended, Saved, Numbered, Slid, Taken
    <3>3. Saved' = Saved /\ (Session' <=> Session) /\ (Ended' <=> Ended)
      BY <1>1, <2>d, <2>c, <2>f, <2>x, <2>s, <1>n, <1>b, <2>y DEF Saved, Session, Ended
    <3>4. d'.up => Matches'
      BY Zenon, <2>d, <2>s, <2>x, <3>1, <3>3 DEF Matches, Written
    <3> QED
      BY <3>2, <3>4
  <2>5. Owned'
    BY <1>1, <2>d, <2>c, <2>f, <2>x, <2>s, <1>n, <1>b, <2>y DEF Numerals, Owned, Taken, Staged
  <2>6. Heard'
    BY <1>1, <2>d, <2>c, <2>f, <2>x, <2>s, <1>n, <1>b, <2>y DEF Numerals, Heard, Taken, LevelOf,
       Staged, Ordered, Numbered, Slid
  <2>7. Claimed'
    BY <1>1, <2>d, <2>c, <2>f, <2>x, <2>s, <1>n, <1>b, <2>y DEF Numerals, Claimed, None, Beliefs,
       Believed, Claim, Playable, Current, Session, Saved, Staged, Ordered, Numbered, Slid
  <2>8. Pressed'
    BY SMTT(60), <1>1, <2>d, <2>c, <2>f, <2>x, <2>s, <1>n, <1>b, <2>y, <1>m DEF Numerals, Levels, None,
       Pressed, Overrides, Session, Saved, Ended, Relied, Staged, Ordered, Numbered, Slid
  <2> QED
    BY <2>1, <2>2, <2>3, <2>4, <2>5, <2>6, <2>7, <2>8 DEF Sound
<1> QED
  BY <1>1

(* A new callback is newer than all that anyone holds.                      *)
LEMMA SenderSlidesKeeps ==
  ASSUME VolumeType, VolumeType', Sound, Undoable, UNCHANGED setup, NEW db \in setup.sliders, SenderSlides(db)
  PROVE  Sound'
<1>t. VolumeType /\ VolumeType' /\ setup' = setup
  OBVIOUS
<1>n. Numerals /\ setup' = setup
  BY Numbers
<1>b. Undoable /\ Staged /\ Ordered /\ Beliefs /\ Durable /\ Owned /\ Heard /\ Claimed /\ Pressed
  BY DEF Sound, SenderSlides, At, Serving, Ready, VolumeType, Aimed
<1>m. Relied => Recorded /\ (d.up => Matches)
  BY <1>b DEF Durable, Matches
<1>1. CASE SenderSlides(db)
  <2>d. d' = d
    BY <1>1 DEF SenderSlides, ReplyNow
  <2>c. c' = c
    BY <1>1 DEF SenderSlides, Goto, ReplyNow
  <2>f. /\ files'.master = files.master /\ files'.record = files.record /\ files'.marker = files.marker
        /\ files'.cb = files.cb + 1 /\ files'.db = db /\ files'.ack = files.ack
        /\ files'.left = files.left
    BY <1>1, <1>t DEF SenderSlides, VolumeType, FilesRec, SaveRecord, Publish, Revoke
  <2>x. asked' = asked /\ pressed' = pressed /\ spent' = spent
    BY <1>1, <1>t, Spent DEF SenderSlides, Fault
  <2>s. Standing' = Standing
    BY <1>1, <2>d, <1>b DEF Standing, Changing
  <2>j. \A s \in SessRec : Numbered(s) => /\ s.sess <= spent'.sessions /\ s.cb <= files'.cb
                                          /\ s.sess # 0 => s.cb # 0
                                          /\ s.cb # files'.cb
    BY <2>f, <2>x, <1>n DEF Numbered, Numerals, SessRec
  <2>o. Standing \in SessRec /\ d.s \in SessRec /\ c.confirmed \in Claims /\ files.ack \in Claims
    BY <1>t DEF Standing, VolumeType, HwRec, ClientRec, FilesRec
  <2>k. (files.ack # None => files.ack[1] <= spent'.sessions /\ files.ack[2] <= files'.cb) /\ files.ack # Current'
    <3>0. files.ack \in Claims /\ Believed(files.ack)
      BY <2>o, <1>b DEF Beliefs
    <3>1. CASE files.ack = None
      BY <3>1 DEF Current, None
    <3>2. CASE files.ack # None
      <4>1. files.ack[1] \in Nat /\ files.ack[2] \in Nat /\ files.ack[1] <= spent.sessions /\ files.ack[2] <= files.cb
        BY <3>0, <3>2 DEF Claims, Believed
      <4>2. spent.sessions \in Nat /\ files.cb \in Nat
        BY <1>n DEF Numerals
      <4>3. files.ack[1] <= spent'.sessions /\ files.ack[2] <= files'.cb /\ (files.ack[1] # files'.marker \/ files.ack[2] # files'.cb)
        BY <4>1, <4>2, <2>f, <2>x
      <4> QED
        BY <4>3 DEF Current
    <3> QED
      BY <3>1, <3>2
  <2>u. (c.confirmed # None => c.confirmed[1] <= spent'.sessions /\ c.confirmed[2] <= files'.cb) /\ c.confirmed # Current'
    <3>0. c.confirmed \in Claims /\ Believed(c.confirmed)
      BY <2>o, <1>b DEF Beliefs
    <3>1. CASE c.confirmed = None
      BY <3>1 DEF Current, None
    <3>2. CASE c.confirmed # None
      <4>1. c.confirmed[1] \in Nat /\ c.confirmed[2] \in Nat /\ c.confirmed[1] <= spent.sessions /\ c.confirmed[2] <= files.cb
        BY <3>0, <3>2 DEF Claims, Believed
      <4>2. spent.sessions \in Nat /\ files.cb \in Nat
        BY <1>n DEF Numerals
      <4>3. c.confirmed[1] <= spent'.sessions /\ c.confirmed[2] <= files'.cb /\ (c.confirmed[1] # files'.marker \/ c.confirmed[2] # files'.cb)
        BY <4>1, <4>2, <2>f, <2>x
      <4> QED
        BY <4>3 DEF Current
    <3> QED
      BY <3>1, <3>2
  <2>l. /\ c.sess <= spent'.sessions /\ c.m <= spent'.sessions /\ c.v <= files'.cb
        /\ <<c.m, c.v>> # Current'
    BY <2>f, <2>x, <1>n, <1>b DEF Beliefs, Numerals, Current
  <2>q. c.v # files'.cb
    BY <2>f, <1>n, <1>b DEF Beliefs, Numerals
  <2>y. /\ Standing.sess \in Nat /\ Standing.cb \in Nat
        /\ c.confirmed # None => c.confirmed[1] \in Nat /\ c.confirmed[2] \in Nat
        /\ files.ack # None => files.ack[1] \in Nat /\ files.ack[2] \in Nat
    BY <1>t DEF Standing, VolumeType, HwRec, SessRec, ClientRec, FilesRec, Claims
  <2>1. Staged'
    BY <1>1, <2>d, <2>c, <2>f, <2>x, <2>s, <1>n, <1>b, <2>j, <2>o, <2>k, <2>u, <2>l, <2>q, <2>y
       DEF Numerals, Staged
  <2>2. Ordered'
    <3>1. Numbered(Standing)' /\ Slid(Standing)'
      <4>1. Numbered(Standing) /\ Slid(Standing)
        BY <1>b DEF Ordered
      <4>2. /\ Standing.sess <= spent'.sessions /\ Standing.cb <= files'.cb
            /\ Standing.sess # 0 => Standing.cb # 0
        BY <4>1, <2>j, <2>o DEF Numbered
      <4>3. Numbered(Standing)'
        BY <4>2, <2>s DEF Numbered
      <4>4. Slid(Standing)'
        BY <4>1, <2>s, <2>j, <2>o, <4>1 DEF Numbered, Slid
      <4> QED
        BY <4>3, <4>4
    <3>2. d.op \in {"saveV", "setV"} => Numbered(d.s)' /\ Slid(d.s)'
      <4> SUFFICES ASSUME d.op \in {"saveV", "setV"} PROVE Numbered(d.s)' /\ Slid(d.s)'
        OBVIOUS
      <4>1. Numbered(d.s) /\ Slid(d.s)
        BY <1>b DEF Ordered
      <4>2. /\ d.s.sess <= spent'.sessions /\ d.s.cb <= files'.cb
            /\ d.s.sess # 0 => d.s.cb # 0
        BY <4>1, <2>j, <2>o DEF Numbered
      <4>3. Numbered(d.s)'
        BY <4>2, <2>d DEF Numbered
      <4>4. Slid(d.s)'
        BY <4>1, <2>d, <2>j, <2>o, <4>1 DEF Numbered, Slid
      <4> QED
        BY <4>3, <4>4
    <3>3. d.newest <= spent'.sessions /\ (d.op \in {"tomb", "tomb0"} => d.target <= spent'.sessions)
      BY SMTT(60), <2>d, <2>c, <2>f, <2>x, <2>s, <1>b, <2>j, <2>k, <2>u, <2>l, <2>o, <2>q, <1>n DEF Ordered,
         Numerals
    <3>4. files'.marker \in {0, spent'.sessions} /\ files'.left <= spent'.sessions
      BY <2>d, <2>c, <2>f, <2>x, <2>s, <1>b, <2>j, <2>k, <2>u, <2>l, <2>o, <2>q, <1>n DEF Ordered,
         Numerals
    <3> QED
      BY <3>1, <3>2, <3>3, <3>4, <2>d, <2>s, <1>b DEF Ordered
  <2>3. Beliefs'
    BY <2>d, <2>c, <2>f, <2>x, <2>s, <1>b, <2>j, <2>k, <2>u, <2>l, <2>o, <2>q, <1>n DEF Beliefs,
       Believed
  <2>4. Durable'
    <3> SUFFICES ASSUME Relied' PROVE Recorded' /\ (d'.up => Matches')
      BY DEF Durable
    <3>1. Recorded /\ (d.up => Matches)
      BY <1>1, <2>d, <2>c, <2>f, <2>x, <2>s, <1>n, <1>b, <2>j, <2>o, <2>k, <2>u, <2>l, <2>q, <2>y,
         <1>m DEF Relied
    <3>2. Recorded'
      BY SMTT(60), <1>1, <2>d, <2>c, <2>f, <2>x, <2>s, <1>n, <1>b, <2>j, <2>o, <2>k, <2>u, <2>l, <2>q, <2>y,
         <3>1 DEF Numerals, Levels, None, Recorded, Session, Ended, Saved, Numbered, Slid, Taken
    <3>3. Saved' = Saved /\ (Session' <=> Session) /\ (Ended' <=> Ended)
      BY <1>1, <2>d, <2>c, <2>f, <2>x, <2>s, <1>n, <1>b, <2>j, <2>o, <2>k, <2>u, <2>l, <2>q, <2>y
         DEF Saved, Session, Ended
    <3>4. d'.up => Matches'
      BY Zenon, <2>d, <2>s, <2>x, <3>1, <3>3 DEF Matches, Written
    <3> QED
      BY <3>2, <3>4
  <2>5. Owned'
    BY <1>1, <2>d, <2>c, <2>f, <2>x, <2>s, <1>n, <1>b, <2>j, <2>o, <2>k, <2>u, <2>l, <2>q, <2>y
       DEF Numerals, Owned, Taken, Staged
  <2>6. Heard'
    BY <1>1, <2>d, <2>c, <2>f, <2>x, <2>s, <1>n, <1>b, <2>j, <2>o, <2>k, <2>u, <2>l, <2>q, <2>y
       DEF Numerals, Heard, Taken, LevelOf, Staged, Ordered, Numbered, Slid
  <2>7. Claimed'
    <3>1. ~Claim'
      <4>1. files'.ack # Current' /\ c'.confirmed # Current'
        BY <2>k, <2>u, <2>f, <2>c
      <4> QED
        BY <4>1, <2>l, <2>c DEF Claim
    <3>2. ~c'.enabled => ~Playable'
      BY <2>d, <2>c, <2>f, <2>x, <2>s, <1>b, <2>j, <2>k, <2>u, <2>l, <2>o, <2>q DEF Claimed,
         Playable
    <3>3. c'.pc = "end" /\ Playable' => c'.sess # files'.marker
      BY <2>d, <2>c, <2>f, <2>x, <2>s, <1>b, <2>j, <2>k, <2>u, <2>l, <2>o, <2>q DEF Claimed,
         Playable
    <3>4. d'.op = "tomb" /\ Playable' /\ d'.s.sess = files'.marker => ~Claim'
      BY <3>1
    <3> QED
      BY <3>1, <3>2, <3>3, <3>4 DEF Claimed
  <2>8. Pressed'
    BY SMTT(60), <1>1, <2>d, <2>c, <2>f, <2>x, <2>s, <1>n, <1>b, <2>j, <2>o, <2>k, <2>u, <2>l, <2>q, <2>y,
       <1>m DEF Numerals, Levels, None, Pressed, Overrides, Session, Saved, Ended, Relied, Staged,
       Ordered, Numbered, Slid
  <2> QED
    BY <2>1, <2>2, <2>3, <2>4, <2>5, <2>6, <2>7, <2>8 DEF Sound
<1> QED
  BY <1>1
(* All that a step of the receiver's processes does to the level's state.   *)
ReceiverTouches ==
  /\ d' = d /\ asked' = asked /\ pressed' = pressed /\ spent'.sessions = spent.sessions
  /\ files'.master = files.master /\ files'.record = files.record /\ files'.cb = files.cb
  /\ files'.db = files.db /\ files'.ack = files.ack
  /\ (c'.up <=> c.up) /\ c'.sess = c.sess /\ c'.confirmed = c.confirmed /\ c'.pc = c.pc
  /\ c'.m = c.m /\ c'.v = c.v /\ c'.level = c.level
  /\ files'.marker \in {0, files.marker} /\ files'.left \in {files.left, files'.marker}
  /\ \/ ~Playable'
     \/ files'.marker = files.marker /\ files'.left = files.left /\ (c.enabled => c'.enabled)

LEMMA ReceiverTouch ==
  ASSUME VolumeType, UNCHANGED setup, ReceiverNext
  PROVE  VolumeType' /\ ReceiverTouches
<1>t. d \in HwRec /\ c \in ClientRec /\ files \in FilesRec /\ spent \in SpentRec
  BY DEF VolumeType
<1>1. d' = d /\ asked' = asked /\ pressed' = pressed
  BY DEF ReceiverNext, ReceiverWorks, Pass, SendspinPoll, EnableStep, Enable, Disable, ResetPairing,
         FifoLost, SetSendspin, ChildDies, Alone
<1>2. spent' \in SpentRec /\ spent'.sessions = spent.sessions
  <2>1. CASE \E k \in Children : ChildDies(k)
    BY <2>1, Spent DEF ChildDies
  <2>2. CASE ~\E k \in Children : ChildDies(k)
    <3>1. spent' = spent
      BY <2>2 DEF ReceiverNext, ReceiverWorks, Pass, SendspinPoll, EnableStep, Enable, Disable,
                  ResetPairing, FifoLost, SetSendspin, Alone
    <3> QED
      BY <3>1, <1>t
  <2> QED
    BY <2>1, <2>2
<1>3. \E b \in BOOLEAN : c' = [c EXCEPT !.enabled = b] /\ (b \/ (c.enabled => BridgeStops))
  <2>1. c.enabled \in BOOLEAN /\ c = [c EXCEPT !.enabled = c.enabled]
    BY <1>t DEF ClientRec
  <2>2. CASE Pass
    <3>1. PICK t \in BOOLEAN : /\ c' = [c EXCEPT !.enabled = @ /\ ~t]
                               /\ IF t THEN BridgeStops ELSE UNCHANGED files
      <4>1. AfterReap.torn \in BOOLEAN
        BY DEF AfterReap
      <4> QED
        BY <2>2, <4>1 DEF Pass
    <3>2. (c.enabled /\ ~t) \in BOOLEAN
      OBVIOUS
    <3> QED
      BY Zenon, <3>1, <3>2, <2>1
  <2>3. CASE Disable
    BY Zenon, <2>3 DEF Disable
  <2>4. CASE EnableStep
    <3>1. c' = c \/ c' = [c EXCEPT !.enabled = TRUE]
      BY <2>4 DEF EnableStep, EnableFails
    <3>2. c' = c => c' = [c EXCEPT !.enabled = c.enabled]
      BY <2>1
    <3>3. (c.enabled /\ c' = c) \/ c' = [c EXCEPT !.enabled = TRUE] \/ (~c.enabled /\ c' = [c EXCEPT !.enabled = FALSE])
      BY <3>1, <2>1
    <3> QED
      BY Zenon, <3>3, <2>1
  <2>5. CASE c' = c
    <3>1. c.enabled \/ ~c.enabled
      OBVIOUS
    <3> QED
      BY <2>5, <2>1
  <2> QED
    BY <2>2, <2>3, <2>4, <2>5
       DEF ReceiverNext, ReceiverWorks, SendspinPoll, Enable, ResetPairing, FifoLost, SetSendspin, ChildDies
<1>4. files' = files \/ BridgeStops \/ files' = [files EXCEPT !.marker = 0]
  <2>1. \A k : ChildDies(k) => files' = files \/ files' = [files EXCEPT !.marker = 0]
    <3>1. [files EXCEPT !.marker = files.marker] = files
      BY <1>t DEF FilesRec
    <3> QED
      BY <3>1 DEF ChildDies
  <2> QED
    BY <2>1 DEF ReceiverNext, ReceiverWorks, Pass, SendspinPoll, EnableStep, EnableFails, Enable,
       Disable,
            ResetPairing, FifoLost, SetSendspin
<1>5. /\ files' \in FilesRec
      /\ files'.master = files.master /\ files'.record = files.record /\ files'.cb = files.cb
      /\ files'.db = files.db /\ files'.ack = files.ack
      /\ files'.marker \in {0, files.marker} /\ files'.left \in {files.left, files'.marker}
      /\ BridgeStops => ~Playable'
      /\ ~Playable' \/ (files'.marker = files.marker /\ files'.left = files.left)
  <2>1. CASE files' = files
    <3>1. BridgeStops => ~Playable'
      BY <1>t DEF BridgeStops, Playable, FilesRec
    <3> QED
      BY <2>1, <3>1, <1>t
  <2>2. CASE BridgeStops
    <3>1. PICK m \in {0, files.marker} : files' = [files EXCEPT !.marker = m, !.left = m]
      BY Zenon, <2>2 DEF BridgeStops
    <3>2. m \in Nat
      BY <1>t DEF FilesRec
    <3>3. files'.marker = m /\ files'.left = m
      BY <3>1, <1>t DEF FilesRec
    <3>4. files' \in FilesRec
      BY Zenon, <3>1, <3>2, <1>t DEF FilesRec
    <3>5. /\ files'.master = files.master /\ files'.record = files.record /\ files'.cb = files.cb
          /\ files'.db = files.db /\ files'.ack = files.ack
      BY <3>1, <1>t DEF FilesRec
    <3>6. ~Playable'
      BY <3>3 DEF Playable
    <3> QED
      BY <3>3, <3>4, <3>5, <3>6
  <2>3. CASE files' = [files EXCEPT !.marker = 0]
    <3>1. files'.marker = 0 /\ files'.left = files.left
      BY <2>3, <1>t DEF FilesRec
    <3>2. files' \in FilesRec
      BY <2>3, <1>t DEF FilesRec
    <3>3. /\ files'.master = files.master /\ files'.record = files.record /\ files'.cb = files.cb
          /\ files'.db = files.db /\ files'.ack = files.ack
      BY <2>3, <1>t DEF FilesRec
    <3>4. ~Playable'
      BY <3>1 DEF Playable
    <3> QED
      BY <3>1, <3>2, <3>3, <3>4
  <2> QED
    BY <1>4, <2>1, <2>2, <2>3
<1>6. /\ c' \in ClientRec
      /\ (c'.up <=> c.up) /\ c'.sess = c.sess /\ c'.confirmed = c.confirmed /\ c'.pc = c.pc
      /\ c'.m = c.m /\ c'.v = c.v /\ c'.level = c.level
      /\ c'.enabled \/ (c.enabled => BridgeStops)
  <2>1. PICK b \in BOOLEAN : c' = [c EXCEPT !.enabled = b] /\ (b \/ (c.enabled => BridgeStops))
    BY <1>3
  <2>2. c' \in ClientRec
    BY <2>1, <1>t DEF ClientRec
  <2>3. (c'.up <=> c.up) /\ c'.sess = c.sess /\ c'.confirmed = c.confirmed /\ c'.pc = c.pc
    BY <2>1, <1>t DEF ClientRec
  <2>4. c'.m = c.m /\ c'.v = c.v /\ c'.level = c.level /\ (c'.enabled <=> b)
    BY <2>1, <1>t DEF ClientRec
  <2> QED
    BY <2>1, <2>2, <2>3, <2>4
<1>7. VolumeType'
  <2>1. Aimed'
    BY <1>1 DEF VolumeType, Aimed
  <2> QED
    BY <1>1, <1>2, <1>5, <1>6, <2>1 DEF VolumeType
<1> QED
  BY <1>1, <1>2, <1>5, <1>6, <1>7 DEF ReceiverTouches
(* A step of the receiver's processes may take the sender away, no more.    *)
LEMMA ReceiverTouchKeeps ==
  ASSUME VolumeType, VolumeType', Sound, Undoable, UNCHANGED setup, "receiver" \in setup.parts, ReceiverTouches
  PROVE  Sound'
<1>t. VolumeType /\ VolumeType' /\ setup' = setup
  OBVIOUS
<1>n. Numerals /\ setup' = setup
  BY Numbers
<1>b. Undoable /\ Staged /\ Ordered /\ Beliefs /\ Durable /\ Owned /\ Heard /\ Claimed /\ Pressed
  BY DEF Sound, At, Serving, Ready, VolumeType, Aimed
<1>m. Relied => Recorded /\ (d.up => Matches)
  BY <1>b DEF Durable, Matches
<1>1. CASE ReceiverTouches
  <2>d. d' = d
    BY <1>1 DEF ReceiverTouches, ReplyNow
  <2>c. /\ (c'.up <=> c.up) /\ (c'.enabled <=> c'.enabled) /\ c'.sess = c.sess
        /\ c'.confirmed = c.confirmed /\ c'.pc = c.pc /\ c'.m = c.m /\ c'.v = c.v /\ c'.level = c.level
    BY <1>1, <1>t DEF ReceiverTouches, VolumeType, ClientRec, ReplyNow, Told
  <2>f. /\ files'.master = files.master /\ files'.record = files.record
        /\ files'.marker = files'.marker /\ files'.cb = files.cb /\ files'.db = files.db
        /\ files'.ack = files.ack /\ files'.left = files'.left
    BY <1>1, <1>t DEF ReceiverTouches, VolumeType, FilesRec, SaveRecord, Publish, Revoke
  <2>x. asked' = asked /\ pressed' = pressed /\ spent'.sessions = spent.sessions
    BY <1>1, <1>t, Spent DEF ReceiverTouches, Fault
  <2>s. Standing' = Standing
    BY <1>1, <2>d, <1>b DEF Standing, Changing
  <2>i. Saved' = Saved /\ (Session' <=> Session) /\ (Ended' <=> Ended)
    BY <2>f DEF Saved, Session, Ended
  <2>w. files'.marker \in {0, files.marker} /\ files'.left \in {files.left, files'.marker}
    BY <1>1 DEF ReceiverTouches
  <2>k. ~Playable' \/ (files'.marker = files.marker /\ Current' = Current /\ Playable /\ (c.enabled => c'.enabled))
    BY <1>1, <2>f DEF ReceiverTouches, Playable, Current
  <2>y. /\ Standing.sess \in Nat /\ Standing.cb \in Nat
        /\ c.confirmed # None => c.confirmed[1] \in Nat /\ c.confirmed[2] \in Nat
        /\ files.ack # None => files.ack[1] \in Nat /\ files.ack[2] \in Nat
    BY <1>t DEF Standing, VolumeType, HwRec, SessRec, ClientRec, FilesRec, Claims
  <2>1. Staged'
    BY <1>1, <2>d, <2>c, <2>f, <2>x, <2>s, <1>n, <1>b, <2>i, <2>w, <2>k, <2>y DEF Numerals, Staged
  <2>2. Ordered'
    BY <1>1, <2>d, <2>c, <2>f, <2>x, <2>s, <1>n, <1>b, <2>i, <2>w, <2>k, <2>y DEF Numerals,
       Ordered, Numbered, Slid, Staged
  <2>3. Beliefs'
    BY <1>1, <2>d, <2>c, <2>f, <2>x, <2>s, <1>n, <1>b, <2>i, <2>w, <2>k, <2>y DEF Numerals,
       Beliefs, Believed, Ordered, Numbered, Slid
  <2>4. Durable'
    <3> SUFFICES ASSUME Relied' PROVE Recorded' /\ (d'.up => Matches')
      BY DEF Durable
    <3>1. Recorded /\ (d.up => Matches)
      BY <1>1, <2>d, <2>c, <2>f, <2>x, <2>s, <1>n, <1>b, <2>i, <2>w, <2>k, <2>y, <1>m DEF Relied
    <3>2. Recorded'
      BY <1>1, <2>d, <2>c, <2>f, <2>x, <2>s, <1>n, <1>b, <2>i, <2>w, <2>k, <2>y, <3>1
         DEF Numerals, Levels, None, Recorded, Session, Ended, Saved, Numbered, Slid, Taken
    <3>3. Saved' = Saved /\ (Session' <=> Session) /\ (Ended' <=> Ended)
      BY <1>1, <2>d, <2>c, <2>f, <2>x, <2>s, <1>n, <1>b, <2>i, <2>w, <2>k, <2>y DEF Saved,
         Session, Ended
    <3>4. d'.up => Matches'
      BY Zenon, <2>d, <2>s, <2>x, <3>1, <3>3 DEF Matches, Written
    <3> QED
      BY <3>2, <3>4
  <2>5. Owned'
    BY <1>1, <2>d, <2>c, <2>f, <2>x, <2>s, <1>n, <1>b, <2>i, <2>w, <2>k, <2>y DEF Numerals, Owned,
       Taken, Staged
  <2>6. Heard'
    BY <1>1, <2>d, <2>c, <2>f, <2>x, <2>s, <1>n, <1>b, <2>i, <2>w, <2>k, <2>y DEF Numerals, Heard,
       Taken, LevelOf, Staged, Ordered, Numbered, Slid
  <2>7. Claimed'
    <3>1. ~c'.enabled => ~Playable'
      BY <1>1, <2>d, <2>c, <2>f, <2>x, <2>s, <1>n, <1>b, <2>i, <2>w, <2>k, <2>y DEF Numerals,
         Claimed, None, Beliefs, Believed, Claim, Playable, Current, Session, Saved, Staged,
         Ordered, Numbered, Slid
    <3>2. c'.pc = "end" /\ Playable' => c'.sess # files'.marker
      BY <1>1, <2>d, <2>c, <2>f, <2>x, <2>s, <1>n, <1>b, <2>i, <2>w, <2>k, <2>y DEF Numerals,
         Claimed, None, Beliefs, Believed, Claim, Playable, Current, Session, Saved, Staged,
         Ordered, Numbered, Slid
    <3>3. d'.op = "tomb" /\ Playable' /\ d'.s.sess = files'.marker => ~Claim'
      BY <1>1, <2>d, <2>c, <2>f, <2>x, <2>s, <1>n, <1>b, <2>i, <2>w, <2>k, <2>y DEF Numerals,
         Claimed, None, Beliefs, Believed, Claim, Playable, Current, Session, Saved, Staged,
         Ordered, Numbered, Slid
    <3>4. Playable' /\ Claim' => IF d'.up THEN <<Standing'.sess, Standing'.cb>> = Current'
                                   ELSE Session' /\ <<Saved'[2].sess, Saved'[2].cb>> = Current'
      BY SMTT(60), <1>1, <2>d, <2>c, <2>f, <2>x, <2>s, <1>n, <1>b, <2>i, <2>w, <2>k, <2>y DEF Numerals,
         Claimed, None, Beliefs, Believed, Claim, Playable, Current, Session, Saved, Staged,
         Ordered, Numbered, Slid
    <3> QED
      BY <3>1, <3>2, <3>3, <3>4 DEF Claimed
  <2>8. Pressed'
    BY <1>1, <2>d, <2>c, <2>f, <2>x, <2>s, <1>n, <1>b, <2>i, <2>w, <2>k, <2>y, <1>m DEF Numerals,
       Levels, None, Pressed, Overrides, Session, Saved, Ended, Relied, Staged, Ordered, Numbered,
       Slid
  <2> QED
    BY <2>1, <2>2, <2>3, <2>4, <2>5, <2>6, <2>7, <2>8 DEF Sound
<1> QED
  BY <1>1
(* A step of the level's two daemons leaves AirPlay as enabled as it was,   *)
(* unless airplayd dies.                                                    *)
LEMMA EnabledKept ==
  ASSUME VolumeType, VolumeNext, c'.up
  PROVE  c'.enabled <=> c.enabled
<1>t. c \in ClientRec
  BY DEF VolumeType
<1>a. \A ok \in BOOLEAN : Answered(ok).enabled <=> c.enabled
  BY <1>t, AnswerTo
<1>f. ASSUME NEW mem, NEW ok \in BOOLEAN, Finish(mem, ok) PROVE c'.enabled <=> c.enabled
  BY <1>f, <1>a DEF Finish
<1>1. CASE SaveSender \/ SetSender \/ UndoSender
  BY Zenon, <1>1, <1>f DEF SaveSender, SetSender, UndoSender, Goto
<1>2. CASE SaveOwner \/ SetOwner \/ UndoOwner
  BY Zenon, <1>2, <1>f DEF SaveOwner, SetOwner, UndoOwner, Goto
<1>3. CASE Tombstone \/ EndUnheard \/ Restore
  BY Zenon, <1>3, <1>f DEF Tombstone, EndUnheard, Restore, Goto
<1>4. CASE SettleEnded \/ PublishStartup \/ Resume
  BY Zenon, <1>4, <1>f DEF SettleEnded, PublishStartup, Resume, Goto
<1>5. CASE Poll \/ AudiodStarts \/ (\E v \in setup.levels : OwnerSets(v))
  BY Zenon, <1>5 DEF Poll, PollSession, AudiodStarts, OwnerSets, Goto
<1>6. CASE ServeEnd \/ ServeVolume
  <2>1. \A ok \in BOOLEAN : Told(ok).enabled <=> c.enabled
    BY <1>t DEF Told, ClientRec
  <2> QED
    BY ZenonT(60), <1>6, <2>1 DEF ServeEnd, ServeVolume, ReplyNow, Goto
<1>7. CASE RefusePending \/ TimesOut \/ AudiodDies
  BY <1>7, <1>t DEF RefusePending, TimesOut, AudiodDies, ClientRec
<1>8. CASE AsksEnd \/ ReadsBack \/ AirplaydStarts
  BY <1>8, <1>t DEF AsksEnd, ReadsBack, AirplaydStarts, ClientRec
<1>9. CASE Acknowledges
  <2>1. \/ c' = [c EXCEPT !.pc = "idle", !.applied = TRUE, !.confirmed = <<c.m, c.v>>]
        \/ c' = [c EXCEPT !.pc = "idle"]
    BY <1>9 DEF Acknowledges
  <2> QED
    BY ZenonT(60), <2>1, <1>t DEF ClientRec
<1>10. CASE AsksVolume
  <2> DEFINE same == c.confirmed = Current /\ ~c.applied
             kept == IF same THEN c ELSE [c EXCEPT !.confirmed = None, !.applied = FALSE]
             pc == IF same THEN "status" ELSE "call"
  <2>1. kept.enabled <=> c.enabled
    BY <1>t DEF ClientRec
  <2>2. \/ c' = kept
        \/ c' = [kept EXCEPT !.pc = pc, !.sess = files.marker, !.m = files.marker, !.v = files.cb,
                             !.level = DbToPercent(files.db)]
    BY <1>10 DEF AsksVolume
  <2>3. kept = c \/ kept = [c EXCEPT !.confirmed = None, !.applied = FALSE]
    OBVIOUS
  <2> HIDE DEF kept, pc
  <2>4. ASSUME NEW x, x = c \/ x = [c EXCEPT !.confirmed = None, !.applied = FALSE],
               c' = [x EXCEPT !.pc = pc, !.sess = files.marker, !.m = files.marker, !.v = files.cb,
                              !.level = DbToPercent(files.db)]
        PROVE  c'.enabled <=> x.enabled
    BY <2>4, <1>t DEF ClientRec
  <2> QED
    BY ZenonT(60), <2>1, <2>2, <2>3, <2>4
<1>11. CASE AirplaydDies
  <2>1. c' = [[Idle EXCEPT !.up = FALSE] EXCEPT !.enabled = setup.enabled]
    BY <1>11 DEF AirplaydDies, Dead
  <2>2. ~c'.up
    BY <2>1 DEF Idle
  <2> QED
    BY <2>2
<1>12. CASE SenderStarts \/ SenderStops \/ (\E db \in setup.sliders : SenderSlides(db))
  BY Zenon, <1>12 DEF SenderStarts, SenderStops, SenderSlides
<1> QED
  BY <1>1, <1>2, <1>3, <1>4, <1>5, <1>6, <1>7, <1>8, <1>9, <1>10, <1>11, <1>12
     DEF VolumeNext, AudiodWorks, AirplaydWorks
(* Every step of the level keeps its invariant. *)
LEMMA LevelStepKeeps ==
  ASSUME VolumeInv, Level, UNCHANGED setup
  PROVE  VolumeInv'
<1>1. VolumeType /\ VolumeType' /\ (Undoable' <=> Undoable)
  <2>1. Undoable' <=> Undoable
    BY DEF Undoable
  <2> QED
    BY <2>1, TypeKeeps DEF VolumeInv, Level
<1>2. ASSUME Undoable PROVE Sound'
  <2>1. Sound /\ VolumeNext /\ ("receiver" \in setup.parts => c'.up)
    BY <1>2 DEF VolumeInv, Level
  <2>2. CASE SaveSender
    BY <1>1, <1>2, <2>1, <2>2, SaveSenderKeeps
  <2>3. CASE SetSender
    BY <1>1, <1>2, <2>1, <2>3, SetSenderKeeps
  <2>4. CASE UndoSender
    BY <1>1, <1>2, <2>1, <2>4, UndoSenderKeeps
  <2>5. CASE SaveOwner
    BY <1>1, <1>2, <2>1, <2>5, SaveOwnerKeeps
  <2>6. CASE SetOwner
    BY <1>1, <1>2, <2>1, <2>6, SetOwnerKeeps
  <2>7. CASE UndoOwner
    BY <1>1, <1>2, <2>1, <2>7, UndoOwnerKeeps
  <2>8. CASE Tombstone
    BY <1>1, <1>2, <2>1, <2>8, TombstoneKeeps
  <2>9. CASE EndUnheard
    BY <1>1, <1>2, <2>1, <2>9, EndUnheardKeeps
  <2>10. CASE Restore
    BY <1>1, <1>2, <2>1, <2>10, RestoreKeeps
  <2>11. CASE SettleEnded
    BY <1>1, <1>2, <2>1, <2>11, SettleEndedKeeps
  <2>12. CASE PublishStartup
    BY <1>1, <1>2, <2>1, <2>12, PublishStartupKeeps
  <2>13. CASE Resume
    BY <1>1, <1>2, <2>1, <2>13, ResumeKeeps
  <2>14. CASE Poll
    BY <1>1, <1>2, <2>1, <2>14, PollKeeps
  <2>15. CASE AudiodStarts
    BY <1>1, <1>2, <2>1, <2>15, AudiodStartsKeeps
  <2>16. CASE ServeEnd
    BY <1>1, <1>2, <2>1, <2>16, ServeEndKeeps
  <2>17. CASE ServeVolume
    BY <1>1, <1>2, <2>1, <2>17, ServeVolumeKeeps
  <2>18. CASE AsksEnd
    BY <1>1, <1>2, <2>1, <2>18, AsksEndKeeps
  <2>19. CASE AsksVolume
    BY <1>1, <1>2, <2>1, <2>19, AsksVolumeKeeps
  <2>20. CASE ReadsBack
    BY <1>1, <1>2, <2>1, <2>20, ReadsBackKeeps
  <2>21. CASE Acknowledges
    BY <1>1, <1>2, <2>1, <2>21, AcknowledgesKeeps
  <2>22. CASE AirplaydStarts
    BY <1>1, <1>2, <2>1, <2>22, AirplaydStartsKeeps
  <2>23. CASE RefusePending
    BY <1>1, <1>2, <2>1, <2>23, RefusePendingKeeps
  <2>24. CASE TimesOut
    BY <1>1, <1>2, <2>1, <2>24, TimesOutKeeps
  <2>25. CASE AudiodDies
    BY <1>1, <1>2, <2>1, <2>25, AudiodDiesKeeps
  <2>26. CASE AirplaydDies
    <3>1. c' = [[Idle EXCEPT !.up = FALSE] EXCEPT !.enabled = setup.enabled]
      BY <2>26 DEF AirplaydDies, Dead
    <3>2. "receiver" \notin setup.parts
      BY <3>1, <2>1 DEF Idle
    <3> QED
      BY <1>1, <1>2, <2>1, <2>26, <3>2, AirplaydDiesKeeps
  <2>27. CASE SenderStarts
    BY <1>1, <1>2, <2>1, <2>27, SenderStartsKeeps
  <2>28. CASE SenderStops
    BY <1>1, <1>2, <2>1, <2>28, SenderStopsKeeps
  <2>29. CASE \E v \in setup.levels : OwnerSets(v)
    BY <1>1, <1>2, <2>1, <2>29, OwnerSetsKeeps
  <2>30. CASE \E db \in setup.sliders : SenderSlides(db)
    BY <1>1, <1>2, <2>1, <2>30, SenderSlidesKeeps
  <2> QED
    BY <2>1, <2>2, <2>3, <2>4, <2>5, <2>6, <2>7, <2>8, <2>9, <2>10, <2>11, <2>12, <2>13, <2>14,
       <2>15, <2>16,
       <2>17, <2>18, <2>19, <2>20, <2>21, <2>22, <2>23, <2>24, <2>25, <2>26, <2>27, <2>28, <2>29, <2>30
       DEF VolumeNext, AudiodWorks, AirplaydWorks
<1> QED
  BY <1>1, <1>2 DEF VolumeInv

LEMMA LevelBegins == VolumeInit => VolumeInv
<1> SUFFICES ASSUME VolumeInit PROVE VolumeInv
  OBVIOUS
<1>1. setup \in Setups /\ d = Down /\ asked = {setup.boot} /\ pressed = None
  BY DEF VolumeInit
<1>2. /\ files.master = -1 /\ files.record = None /\ files.marker = 0 /\ files.cb = 0
      /\ files.db = 0 /\ files.ack = None /\ files.left = 0 /\ files \in FilesRec
  <2>1. files = [master |-> -1, record |-> None, marker |-> 0, cb |-> 0, db |-> 0, ack |-> None, left |-> 0]
    BY DEF VolumeInit
  <2>2. files.master = -1 /\ files.record = None /\ files.marker = 0
    BY <2>1
  <2>3. files.cb = 0 /\ files.db = 0 /\ files.ack = None /\ files.left = 0
    BY <2>1
  <2>4. files \in FilesRec
    <3>1. None \in {None} \union SessionRecords \union EndRec /\ None \in Claims
      BY DEF Claims
    <3>2. -1 \in -1..100 /\ 0 \in Nat /\ 0 \in Int
      OBVIOUS
    <3> QED
      BY <2>1, <3>1, <3>2 DEF FilesRec
  <2> QED
    BY <2>2, <2>3, <2>4
<1>3. /\ c.up /\ (c.enabled <=> setup.enabled) /\ c.sess = 0 /\ c.confirmed = None /\ c.pc = "idle"
      /\ c.m = 0 /\ c.v = 0 /\ c.level = 0 /\ c \in ClientRec
  <2>1. c = [Idle EXCEPT !.enabled = setup.enabled] /\ setup.enabled \in BOOLEAN
    BY <1>1, SetupTypes DEF VolumeInit
  <2>2. Idle \in ClientRec
    BY DEF Idle, ClientRec, Claims, Levels
  <2>3. c \in ClientRec
    BY <2>1, <2>2 DEF ClientRec
  <2>4. c.up /\ (c.enabled <=> setup.enabled) /\ c.sess = 0
    BY <2>1 DEF Idle
  <2>5. c.confirmed = None /\ c.pc = "idle"
    BY <2>1 DEF Idle
  <2>6. c.m = 0 /\ c.v = 0 /\ c.level = 0
    BY <2>1 DEF Idle
  <2> QED
    BY <2>3, <2>4, <2>5, <2>6
<1>4. spent.sessions = 0 /\ spent \in SpentRec
  BY DEF VolumeInit, SpentRec
<1>5. Down \in HwRec
  BY DEF Down, HwRec, NoSession, SessRec, Stages, Levels
<1>6. /\ ~d.up /\ d.s = NoSession /\ d.newest = 0 /\ ~d.ended /\ ~d.pending
      /\ d.op = "idle" /\ d.from = "none"
  BY <1>1 DEF Down
<1>7. Standing = NoSession /\ NoSession.sess = 0 /\ NoSession.cb = 0
  BY <1>6 DEF Standing, Changing, NoSession
<1>8. setup.boot \in Levels
  BY <1>1, SetupTypes
<1>9. VolumeType
  <2>1. asked \in SUBSET Levels /\ pressed \in Claims
    BY <1>1, <1>8 DEF Claims
  <2>2. Aimed
    BY <1>6 DEF Aimed
  <2> QED
    BY <1>1, <1>2, <1>3, <1>4, <1>5, <2>1, <2>2 DEF VolumeType
<1>10. Sound
  <2>1. Staged
    BY <1>1, <1>6 DEF Staged
  <2>2. Ordered
    BY <1>2, <1>4, <1>6, <1>7 DEF Ordered, Numbered, Slid
  <2>3. Beliefs
    BY <1>2, <1>3, <1>4, <1>6 DEF Beliefs, Believed
  <2>4. Durable
    BY <1>1, <1>2, <1>6 DEF Durable, Recorded, Session, Ended, Saved, Taken
  <2>5. Owned /\ Heard
    BY <1>6 DEF Owned, Heard
  <2>6. Claimed
    BY <1>2, <1>3, <1>6 DEF Claimed, Playable
  <2>7. Pressed
    BY <1>1 DEF Pressed
  <2> QED
    BY <2>1, <2>2, <2>3, <2>4, <2>5, <2>6, <2>7 DEF Sound
<1> QED
  BY <1>9, <1>10 DEF VolumeInv

(* What the engine may hear follows from the invariant. *)
LEMMA LevelIsHonest == VolumeInv /\ Undoable => LevelHonest
<1> SUFFICES ASSUME VolumeInv, Undoable PROVE LevelHonest
  OBVIOUS
<1>1. VolumeType /\ Staged /\ Ordered /\ Owned /\ Heard /\ Claimed
  BY DEF VolumeInv, Sound
<1>2. OwnerLevelKept
  <2> SUFFICES ASSUME Settled PROVE files.master \in asked
    BY DEF OwnerLevelKept
  <2>1. d.up /\ d.op = "idle" /\ d.s.sess = 0 /\ ~d.pending /\ ~d.publish
    BY DEF Settled, Serving, At
  <2>2. Standing.sess = 0
    BY <2>1 DEF Standing, Changing
  <2> QED
    BY <1>1, <2>1, <2>2 DEF Owned
<1>3. AdmissionSound
  <2> SUFFICES ASSUME Admitted, d.up, ~d.publish
               PROVE  files.master = DbToPercent(files.db) \/ (pressed = Current /\ files.master \in asked)
    BY DEF AdmissionSound
  <2>1. Playable /\ Claim /\ files.marker # 0
    BY DEF Admitted, Playable, Claim
  <2>2. Standing.sess = files.marker /\ Standing.cb = files.cb /\ Current = <<Standing.sess, Standing.cb>>
    BY <1>1, <2>1 DEF Claimed, Current
  <2>3. files.master = LevelOf(Standing) /\ (Standing.override => pressed = <<Standing.sess, Standing.cb>>)
    BY <1>1, <2>1, <2>2 DEF Heard
  <2>4. Standing.base \in asked
    BY <1>1, <2>1, <2>2 DEF Owned
  <2>5. Standing.sender = DbToPercent(files.db)
    BY <1>1, <2>1, <2>2 DEF Ordered, Slid
  <2> QED
    BY <2>2, <2>3, <2>4, <2>5 DEF LevelOf
<1> QED
  BY <1>2, <1>3 DEF LevelHonest

(* Only a newer callback moves the level away from the owner's choice. *)
LEMMA ButtonStep ==
  ASSUME VolumeInv, Undoable, VolumeNext \/ ReceiverNext, UNCHANGED setup,
         files'.master # files.master, files'.master \notin asked',
         pressed # None, d.s.sess = pressed[1]
  PROVE  d.s.cb > pressed[2]
<1>t. VolumeType /\ files \in FilesRec /\ d \in HwRec
  BY DEF VolumeInv, VolumeType
<1>b. Staged /\ Ordered /\ Owned /\ Heard /\ Pressed
  BY DEF VolumeInv, Sound
<1>p. files.master >= 0 /\ pressed[1] # 0 /\ Taken = files.master
  BY <1>b DEF Pressed, Taken
<1>v. \A v : Publish(v) => files'.master = v
  BY <1>t DEF Publish, FilesRec
<1>r. ~(\E x : SaveRecord(x)) /\ ~Revoke /\ ~UNCHANGED files
  BY <1>t DEF SaveRecord, Revoke, FilesRec
<1>o. d.up /\ Standing = d.s =>
        Overrides(d.s) /\ d.s.base \in asked /\ (d.s.override \/ d.s.cb > pressed[2])
  <2> SUFFICES ASSUME d.up, Standing = d.s PROVE Overrides(d.s) /\ d.s.base \in asked /\ (d.s.override \/ d.s.cb > pressed[2])
    OBVIOUS
  <2>1. d.s.cb > pressed[2] \/ (d.s.cb = pressed[2] /\ d.s.override)
    BY <1>b DEF Pressed, Overrides
  <2> QED
    BY <2>1, <1>b, <1>p DEF Owned, Overrides
<1>1. CASE SetSender
  BY <1>1, <1>b, <1>r DEF SetSender, At, Pressed
<1>2. CASE SetOwner
  BY Zenon, <1>2, <1>r, <1>v DEF SetOwner
<1>3. CASE Restore
  BY Zenon, <1>3, <1>r, <1>v, <1>b DEF Restore, At, Staged, Owned
<1>4. CASE PublishStartup
  <2>1. d.up /\ Standing = d.s /\ d.publish /\ d.s.sess # 0 /\ files'.master = d.volume /\ asked' = asked
    BY Zenon, <1>4, <1>r, <1>v, <1>b, <1>p DEF PublishStartup, At, Standing, Changing, Staged
  <2>2. d.volume = LevelOf(d.s)
    BY <1>4, <2>1, <1>b, <1>p DEF Heard, PublishStartup, At
  <2> QED
    BY <2>1, <2>2, <1>o DEF LevelOf
<1>5. CASE Resume
  <2>1. d.up /\ Standing = d.s /\ asked' = asked
        /\ files'.master = IF d.s.override THEN d.s.base ELSE d.s.sender
    BY Zenon, <1>5, <1>r, <1>v DEF Resume, At, Standing, Changing
  <2> QED
    BY <2>1, <1>o
<1>6. CASE ~(SetSender \/ SetOwner \/ Restore \/ PublishStartup \/ Resume) /\ VolumeNext
  <2>1. \A m : files' # [files EXCEPT !.marker = m]
    BY <1>t DEF FilesRec
  <2>2. \A a : files' # [files EXCEPT !.ack = a]
    BY <1>t DEF FilesRec
  <2>3. \A n, db : files' # [files EXCEPT !.cb = n, !.db = db]
    BY Zenon, <1>t DEF FilesRec
  <2>4. ~(SaveSender \/ UndoSender \/ SaveOwner \/ UndoOwner \/ Tombstone \/ EndUnheard \/ SettleEnded)
    BY Zenon, <1>r DEF SaveSender, UndoSender, SaveOwner, UndoOwner, Tombstone, EndUnheard, SettleEnded
  <2>5. ~(Poll \/ AudiodStarts \/ ServeEnd \/ ServeVolume \/ RefusePending \/ AudiodDies)
    BY Zenon, <1>r DEF Poll, PollSession, AudiodStarts, ServeEnd, ServeVolume, RefusePending, AudiodDies
  <2>6. ~(AsksEnd \/ AsksVolume \/ ReadsBack \/ Acknowledges \/ AirplaydStarts \/ TimesOut \/ AirplaydDies)
    BY <1>r, <2>2 DEF AsksEnd, AsksVolume, ReadsBack, Acknowledges, AirplaydStarts, TimesOut,
       AirplaydDies
  <2>7. /\ ~(SenderStarts \/ SenderStops) /\ ~(\E v \in setup.levels : OwnerSets(v))
        /\ ~(\E db \in setup.sliders : SenderSlides(db))
    BY Zenon, <1>r, <2>1, <2>3 DEF SenderStarts, SenderStops, SenderSlides, OwnerSets
  <2> QED
    BY <1>6, <2>4, <2>5, <2>6, <2>7 DEF VolumeNext, AudiodWorks, AirplaydWorks
<1>7. CASE ReceiverNext
  BY <1>7, <1>t, ReceiverTouch DEF ReceiverTouches
<1> QED
  BY <1>1, <1>2, <1>3, <1>4, <1>5, <1>6, <1>7

-----------------------------------------------------------------------------
(* What always holds of the whole: audiod's children, the level, and the    *)
(* receiver's processes, which stay as they began where they take no part.  *)
ServiceInv ==
  /\ SoundInv /\ VolumeInv
  /\ IF "receiver" \in setup.parts THEN ReceiverInv ELSE NoStrays /\ Bound

(* What a step that does not touch a part leaves of its invariant. *)
LEMMA SoundStays == SoundInv /\ UNCHANGED soundVars => SoundInv'
BY DEF soundVars, SoundInv, SoundType, Slotted, Blocking, Free

LEMMA LevelStays ==
  UNCHANGED <<setup, volumeVars, receiverVars>> =>
    /\ VolumeInv => VolumeInv'
    /\ ("receiver" \in setup.parts => ReceiverInv) => ("receiver" \in setup'.parts => ReceiverInv')
    /\ ("receiver" \notin setup.parts => NoStrays /\ Bound)
         => ("receiver" \notin setup'.parts => NoStrays' /\ Bound')
<1> SUFFICES ASSUME UNCHANGED <<setup, volumeVars, receiverVars>>
             PROVE  /\ VolumeInv => VolumeInv'
                    /\ ("receiver" \in setup.parts => ReceiverInv) => ("receiver" \in setup'.parts => ReceiverInv')
                    /\ ("receiver" \notin setup.parts => NoStrays /\ Bound)
                         => ("receiver" \notin setup'.parts => NoStrays' /\ Bound')
  OBVIOUS
<1>1. setup' = setup /\ d' = d /\ c' = c /\ files' = files /\ asked' = asked /\ pressed' = pressed
      /\ spent' = spent /\ r' = r
  BY DEF volumeVars, receiverVars
<1>2. VolumeInv => VolumeInv'
  <2>1. (VolumeType => VolumeType') /\ (Undoable' <=> Undoable)
    BY <1>1 DEF VolumeType, Aimed, Undoable
  <2>2. Standing' = Standing /\ Saved' = Saved /\ Taken' = Taken /\ (Relied' <=> Relied)
        /\ (Session' <=> Session) /\ (Ended' <=> Ended)
    BY <1>1 DEF Standing, Changing, Saved, Taken, Relied, Session, Ended
  <2>3. (Staged => Staged') /\ (Ordered => Ordered')
    BY <1>1, <2>2 DEF Staged, Ordered, Numbered, Slid
  <2>4. Beliefs => Beliefs'
    BY <1>1 DEF Beliefs, Believed
  <2>5. Durable => Durable'
    <3>1. Recorded => Recorded'
      BY <1>1, <2>2 DEF Recorded, Numbered, Slid
    <3>2. Matches => Matches'
      BY Zenon, <1>1, <2>2 DEF Matches, Written
    <3> QED
      BY <1>1, <2>2, <3>1, <3>2 DEF Durable
  <2>6. (Owned => Owned') /\ (Heard => Heard')
    BY <1>1, <2>2 DEF Owned, Heard, LevelOf
  <2>7. Claimed => Claimed'
    BY <1>1, <2>2 DEF Claimed, Claim, Current, Playable
  <2>8. Pressed => Pressed'
    BY <1>1, <2>2 DEF Pressed, Overrides
  <2> QED
    BY <2>1, <2>3, <2>4, <2>5, <2>6, <2>7, <2>8 DEF VolumeInv, Sound
<1>3. ReceiverInv => ReceiverInv'
  BY <1>1 DEF ReceiverInv, ReceiverType, PipeHeld, Whole, Begun, Alive, Running, NoStrays, Bound
<1>4. NoStrays /\ Bound => NoStrays' /\ Bound'
  BY <1>1 DEF NoStrays, Bound, Alive
<1> QED
  BY <1>1, <1>2, <1>3, <1>4

LEMMA SoundBegins == SoundsInit => SoundInv
<1> SUFFICES ASSUME SoundsInit PROVE SoundInv
  OBVIOUS
<1>1. procs = <<>> /\ Len(procs) = 0 /\ procs \in Seq(ProcRec)
  BY EmptySeq DEF SoundsInit
<1>2. slot \in [Kinds -> 0..Len(procs)]
  BY <1>1 DEF SoundsInit
<1> QED
  BY <1>1, <1>2 DEF SoundsInit, SoundInv, SoundType, Slotted, Blocking, Free

LEMMA ServiceBegins == Init => ServiceInv
<1> SUFFICES ASSUME Init PROVE ServiceInv
  OBVIOUS
<1>1. VolumeInv /\ SoundInv
  BY LevelBegins, SoundBegins DEF Init
<1>2. setup \in Setups /\ c.enabled = setup.enabled
  BY DEF Init, VolumeInit, Idle
<1>3. ReceiverInv
  BY <1>2, ReceiverBegins DEF Init
<1>4. NoStrays /\ Bound
  BY <1>3 DEF Init, ReceiverInit, NoStrays, ReceiverInv
<1> QED
  BY <1>1, <1>3, <1>4 DEF ServiceInv

LEMMA ServiceKeeps == ServiceInv /\ [Next]_vars => ServiceInv'
<1> SUFFICES ASSUME ServiceInv, [Next]_vars PROVE ServiceInv'
  OBVIOUS
<1>1. SoundInv /\ VolumeInv /\ VolumeType
  BY DEF ServiceInv, VolumeInv
<1>2. CASE Level /\ Kept
  <2>1. VolumeInv' /\ SoundInv'
    BY <1>1, <1>2, LevelStepKeeps, SoundStays DEF Level, Kept
  <2>2. "receiver" \in setup.parts => (c'.enabled <=> c.enabled) /\ c'.enabled \in BOOLEAN
    <3>1. c' \in ClientRec /\ c \in ClientRec
      BY <1>1, <2>1 DEF VolumeInv, VolumeType
    <3> QED
      BY <1>1, <1>2, <3>1, EnabledKept DEF Level, ClientRec
  <2>3. r' = r /\ setup' = setup
    BY <1>2 DEF Level, Kept, receiverVars
  <2>4. "receiver" \in setup.parts /\ ReceiverInv => ReceiverInv'
    BY <2>2, <2>3 DEF ReceiverInv, ReceiverType, PipeHeld, Whole, Begun, Alive, Running, NoStrays,
       Bound
  <2>5. NoStrays /\ Bound => NoStrays' /\ Bound'
    BY <2>3 DEF NoStrays, Bound, Alive
  <2> QED
    BY <2>1, <2>3, <2>4, <2>5 DEF ServiceInv
<1>3. CASE Receiver /\ Kept
  <2>1. VolumeType' /\ ReceiverTouches
    BY <1>1, <1>3, ReceiverTouch DEF Receiver, Kept
  <2>2. Undoable' <=> Undoable
    BY <1>3 DEF Undoable, Kept
  <2>3. VolumeInv'
    BY <1>1, <1>3, <2>1, <2>2, ReceiverTouchKeeps DEF VolumeInv, Receiver, Kept
  <2>4. SoundInv'
    BY <1>1, <1>3, SoundStays DEF Receiver
  <2>5. ReceiverInv'
    BY <1>1, <1>3, ReceiverStepKeeps DEF ServiceInv, Receiver, Kept, VolumeType
  <2> QED
    BY <1>3, <2>3, <2>4, <2>5 DEF ServiceInv, Receiver, Kept
<1>4. CASE Sounds /\ Kept
  <2>1. SoundInv'
    BY <1>1, <1>4, SoundStepKeeps DEF Sounds
  <2>2. UNCHANGED <<setup, volumeVars, receiverVars>>
    BY <1>4 DEF Sounds, Kept
  <2> QED
    BY <2>1, <2>2, LevelStays DEF ServiceInv
<1>5. CASE UNCHANGED vars
  <2>1. SoundInv'
    BY <1>1, <1>5, SoundStays DEF vars
  <2> QED
    BY <2>1, <1>5, LevelStays DEF ServiceInv, vars
<1> QED
  BY <1>2, <1>3, <1>4, <1>5 DEF Next

(* Every process the two daemons started is one they can still stop, and    *)
(* none doubles another, whatever order requests, exits and reaping come    *)
(* in, for any number of children, as long as the receiver's metadata pipe  *)
(* is there (start_noise, cue_may_start, reap_children, set_enabled,        *)
(* sendspin_poll).                                                          *)
THEOREM ChildrenAlwaysAccounted == Spec /\ PipeHeld => []ChildrenAccounted
<1>1. ServiceInv /\ PipeHeld => ChildrenAccounted
  <2> SUFFICES ASSUME ServiceInv, PipeHeld PROVE ChildrenAccounted
    OBVIOUS
  <2>1. WritersExclusive
    BY OneWriter DEF ServiceInv
  <2>2. NoStrays /\ Bound
    BY DEF ServiceInv, ReceiverInv
  <2>3. PlayerBound
    BY <2>2 DEF PlayerBound, Bound, Running, Alive
  <2> QED
    BY <2>1, <2>2, <2>3 DEF ChildrenAccounted
<1>2. PipeHeld /\ [Next]_vars => PipeHeld'
  BY DEF PipeHeld, Next, Kept, vars
<1> QED
  BY <1>1, <1>2, ServiceBegins, ServiceKeeps, PTL DEF Spec

(* The level is the owner's: kept when the last sender has gone, and the    *)
(* engine plays a sender only at a level it is acknowledged for, whatever   *)
(* dies, fails, is repeated or arrives late; only a failed undo that is     *)
(* followed by a death of audiod is excluded (airplay_restore_save,         *)
(* airplay_finish_restore, airplay_master_poll).                            *)
THEOREM LevelAlwaysHonest == Spec /\ Undoable => []LevelHonest
<1>1. Undoable /\ [Next]_vars => Undoable'
  BY DEF Undoable, Next, Kept, vars
<1>2. ServiceInv /\ Undoable => LevelHonest
  BY LevelIsHonest DEF ServiceInv
<1> QED
  BY <1>1, <1>2, ServiceBegins, ServiceKeeps, PTL DEF Spec

(* A callback that is retried, or was overtaken, never undoes the owner's   *)
(* choice, in any number of sessions and presses (handle_request,           *)
(* airplay_volume).                                                         *)
THEOREM ButtonAlwaysWins == Spec /\ Undoable => ButtonWins
<1> DEFINE step == (/\ files'.master # files.master /\ files'.master \notin asked'
                    /\ pressed # None /\ d.s.sess = pressed[1])
                   => d.s.cb > pressed[2]
<1>1. Undoable /\ [Next]_vars => Undoable'
  BY DEF Undoable, Next, Kept, vars
<1>2. ServiceInv /\ Undoable /\ [Next]_vars => [step]_<<files, asked, pressed, d>>
  <2> SUFFICES ASSUME ServiceInv, Undoable, [Next]_vars, files'.master # files.master, files'.master \notin asked',
                      pressed # None, d.s.sess = pressed[1]
               PROVE  d.s.cb > pressed[2]
    OBVIOUS
  <2>1. (VolumeNext \/ ReceiverNext) /\ UNCHANGED setup
    BY DEF Next, Kept, Level, Receiver, Sounds, vars, volumeVars
  <2> QED
    BY <2>1, ButtonStep DEF ServiceInv
<1>3. [][step]_<<files, asked, pressed, d>> <=> ButtonWins
  BY DEF ButtonWins
<1> HIDE DEF step
<1> QED
  BY <1>1, <1>2, <1>3, ServiceBegins, ServiceKeeps, PTL DEF Spec
=============================================================================
