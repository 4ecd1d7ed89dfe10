----------------------------- MODULE LiveProofs -----------------------------
(***************************************************************************)
(* What lived promises of a conversation and its transport of the wire,    *)
(* for every ring, every limit, every set of delegation ids and every      *)
(* setup; and, in the last part, what the ring of ledd may show, for       *)
(* every set of names and every environment.  The two parts share nothing. *)
(***************************************************************************)
EXTENDS LiveService, LightAndButtons, FiniteSetTheorems, FunctionTheorems, SequenceTheorems, TLAPS

USE SessionAssumption, LivedAssumption, WireAssumption

-----------------------------------------------------------------------------
(* Counting the elements of a sequence that are of one kind: the frames     *)
(* that carry a message, the turns of the user on their way.                *)
Marked(q, P, k) == {j \in 1 .. k : q[j] \in P}

(* What is counted is finite.                                               *)
LEMMA MarkedFinite ==
  ASSUME NEW q, NEW P, NEW k \in Nat
  PROVE  /\ IsFiniteSet(Marked(q, P, k))
         /\ Cardinality(Marked(q, P, k)) \in Nat
<1>1. IsFiniteSet(1 .. k) BY FS_Interval
<1>2. Marked(q, P, k) \subseteq 1 .. k BY DEF Marked
<1>3. IsFiniteSet(Marked(q, P, k)) BY <1>1, <1>2, FS_Subset
<1> QED BY <1>3, FS_CardinalityType

(* The count up to a place is that of the place before, and one more if the *)
(* place is of the kind.                                                    *)
LEMMA MarkedNext ==
  ASSUME NEW q, NEW P, NEW k \in Nat
  PROVE  Cardinality(Marked(q, P, k + 1)) =
           Cardinality(Marked(q, P, k)) + (IF q[k + 1] \in P THEN 1 ELSE 0)
<1>1. IsFiniteSet(Marked(q, P, k)) /\ Cardinality(Marked(q, P, k)) \in Nat BY MarkedFinite
<1>2. CASE q[k + 1] \in P
  <2>1. Marked(q, P, k + 1) = Marked(q, P, k) \cup {k + 1} BY <1>2 DEF Marked
  <2>2. k + 1 \notin Marked(q, P, k) BY DEF Marked
  <2>3. Cardinality(Marked(q, P, k) \cup {k + 1}) = Cardinality(Marked(q, P, k)) + 1
    BY <1>1, <2>2, FS_AddElement
  <2> QED BY <1>2, <2>1, <2>3
<1>3. CASE q[k + 1] \notin P
  <2>1. Marked(q, P, k + 1) = Marked(q, P, k) BY <1>3 DEF Marked
  <2> QED BY <1>1, <1>3, <2>1
<1> QED BY <1>2, <1>3

(* An element appended leaves the counts before it as they are.             *)
LEMMA MarkedAppend ==
  ASSUME NEW T, NEW q \in Seq(T), NEW x \in T, NEW P
  PROVE  /\ \A k \in 0 .. Len(q) : Marked(Append(q, x), P, k) = Marked(q, P, k)
         /\ Cardinality(Marked(Append(q, x), P, Len(q) + 1)) =
              Cardinality(Marked(q, P, Len(q))) + (IF x \in P THEN 1 ELSE 0)
<1>1. Len(q) \in Nat /\ Append(q, x)[Len(q) + 1] = x
      /\ \A j \in 1 .. Len(q) : Append(q, x)[j] = q[j]
  BY AppendProperties, LenProperties
<1>2. \A k \in 0 .. Len(q) : Marked(Append(q, x), P, k) = Marked(q, P, k)
  BY <1>1 DEF Marked
<1>3. Cardinality(Marked(Append(q, x), P, Len(q) + 1)) =
        Cardinality(Marked(Append(q, x), P, Len(q))) + (IF x \in P THEN 1 ELSE 0)
  <2> DEFINE a == Append(q, x)
             n == Len(q)
  <2>1. n \in Nat /\ a[n + 1] = x BY <1>1
  <2> HIDE DEF a, n
  <2>2. Cardinality(Marked(a, P, n + 1)) =
          Cardinality(Marked(a, P, n)) + (IF a[n + 1] \in P THEN 1 ELSE 0)
    BY <2>1, MarkedNext
  <2> QED BY <2>1, <2>2 DEF a, n
<1>4. Len(q) \in 0 .. Len(q) BY <1>1
<1>5. Cardinality(Marked(Append(q, x), P, Len(q))) = Cardinality(Marked(q, P, Len(q)))
  BY <1>2, <1>4, Zenon
<1>6. Cardinality(Marked(Append(q, x), P, Len(q) + 1)) =
        Cardinality(Marked(q, P, Len(q))) + (IF x \in P THEN 1 ELSE 0)
  BY <1>3, <1>5
<1> QED BY <1>2, <1>6, Zenon

(* What is left of a sequence counts one less if its head was of the kind.  *)
LEMMA MarkedTail ==
  ASSUME NEW T, NEW q \in Seq(T), q # <<>>, NEW P, NEW k \in 0 .. Len(q) - 1
  PROVE  Cardinality(Marked(q, P, k + 1)) =
           Cardinality(Marked(Tail(q), P, k)) + (IF Head(q) \in P THEN 1 ELSE 0)
<1> DEFINE S == Marked(Tail(q), P, k)
           U == {j \in 2 .. k + 1 : q[j] \in P}
           f == [j \in S |-> j + 1]
<1>1. Len(q) \in Nat /\ k \in Nat /\ Head(q) = q[1] BY LenProperties, HeadTailProperties
<1>2. \A j \in 1 .. k : Tail(q)[j] = q[j + 1] BY <1>1, HeadTailProperties
<1>3. IsFiniteSet(S) /\ Cardinality(S) \in Nat BY <1>1, MarkedFinite
<1>4. Cardinality(U) = Cardinality(S) /\ IsFiniteSet(U)
  <2>1. f \in [S -> U]
    <3> SUFFICES ASSUME NEW j \in S PROVE j + 1 \in U
      OBVIOUS
    <3>1. j \in 1 .. k /\ Tail(q)[j] \in P BY DEF Marked
    <3>2. q[j + 1] \in P BY <1>2, <3>1
    <3> QED BY <1>1, <3>1, <3>2
  <2>2. \A a, z \in S : f[a] = f[z] => a = z BY <1>1 DEF Marked
  <2>3. \A j \in U : \E a \in S : f[a] = j
    <3> SUFFICES ASSUME NEW j \in U PROVE \E a \in S : f[a] = j
      OBVIOUS
    <3>1. j \in 2 .. k + 1 /\ q[j] \in P OBVIOUS
    <3>2. j - 1 \in 1 .. k /\ (j - 1) + 1 = j BY <1>1, <3>1
    <3>3. j - 1 \in S BY <1>2, <3>1, <3>2 DEF Marked
    <3> QED BY <3>2, <3>3
  <2> HIDE DEF f, S, U
  <2>4. f \in Bijection(S, U) BY <2>1, <2>2, <2>3, Fun_IsBij
  <2> QED BY <1>3, <2>4, FS_Bijection DEF ExistsBijection
<1> HIDE DEF S, U
<1>5. CASE Head(q) \in P
  <2>1. Marked(q, P, k + 1) = U \cup {1} BY <1>1, <1>5 DEF Marked, U
  <2>2. 1 \notin U BY <1>1 DEF U
  <2>3. Cardinality(U \cup {1}) = Cardinality(U) + 1 BY <1>4, <2>2, FS_AddElement
  <2>4. Cardinality(Marked(q, P, k + 1)) = Cardinality(S) + 1 BY <1>4, <2>1, <2>3
  <2> QED BY <1>5, <2>4 DEF S
<1>6. CASE Head(q) \notin P
  <2>1. Marked(q, P, k + 1) = U BY <1>1, <1>6 DEF Marked, U
  <2>2. Cardinality(Marked(q, P, k + 1)) = Cardinality(S) + 0 BY <1>3, <1>4, <2>1
  <2> QED BY <1>6, <2>2 DEF S
<1> QED BY <1>5, <1>6

-----------------------------------------------------------------------------
(* The wire: its types, the position of the reader in the frame at hand,    *)
(* the numbering of the messages, who may see the account's token and what  *)
(* the model is told of a request.                                          *)
Ops == {"http", "text", "ping", "pong", "close", "binary"}
Flaws == {"none", "header", "length", "fragment"}
Asked == Requests \union {"none"}
Tools == {"radio", "speech", "noise", "timer"}
FrameType == [op : Ops, ext : Nat, size : Nat, flaw : Flaws, id : Nat, req : Asked]
WireRec == [stage : {"off", "on"} \union Starting, url : {"none", "wss", "loopback", "plain"},
            bearer : BOOLEAN, verified : BOOLEAN, reading : BOOLEAN, h : Nat, p : Nat]
StreamRec == [sent : Seq(FrameType), avail : Nat, pos : Nat, over : BOOLEAN, written : Nat,
              texts : Nat, heard : Nat, sees : BOOLEAN]
ToolRec == [req : Asked, todo : Seq(Tools), acked : SUBSET Tools, done : SUBSET Tools,
            ends : BOOLEAN, said : {"none", "ok", "error"}, parts : Nat]
WireType == wire \in WireRec /\ stream \in StreamRec /\ tool \in ToolRec

Texts == {m \in FrameType : m.op = "text"}

Position == wire.h + wire.p = stream.pos

(* The messages on their way carry the numbers that follow the last heard,  *)
(* in order and without a gap.                                              *)
Numbered ==
  /\ stream.heard + Cardinality(Marked(stream.sent, Texts, Len(stream.sent))) = stream.texts
  /\ \A i \in 1 .. Len(stream.sent) : stream.sent[i] \in Texts =>
       stream.sent[i].id = stream.heard + Cardinality(Marked(stream.sent, Texts, i))

(* A transport that is closed holds nothing, and one that has come as far   *)
(* as asking has a verified server or a server on this device.              *)
Trusted ==
  /\ wire.stage = "off" => wire = Off /\ stream = NoStream
  /\ wire.stage = "dial" => wire.url \in {"wss", "loopback"}
  /\ wire.stage \in {"ask", "answer", "update", "on"} => wire.verified \/ wire.url = "loopback"
  /\ stream.sees => wire.verified \/ wire.url = "loopback"

Told == tool.said = "ok" => tool.acked # {} \/ tool.req = "time"

WireInv == WireType /\ Position /\ Numbered /\ Trusted /\ Told

(* Nothing is open, on its way or being run.                                *)
LEMMA NothingOpen ==
  ASSUME wire = Off, stream = NoStream, tool = NoTool
  PROVE  WireInv
<1>1. WireType
  BY DEF WireType, WireRec, StreamRec, ToolRec, Off, NoStream, NoTool, Asked
<1>2. Position /\ Trusted /\ Told
  BY DEF Position, Trusted, Told, Off, NoStream, NoTool
<1>3. Marked(stream.sent, Texts, Len(stream.sent)) = {} /\ Len(stream.sent) = 0
  BY DEF NoStream, Marked
<1>4. Cardinality({}) = 0 BY FS_EmptySet
<1>5. stream.heard = 0 /\ stream.texts = 0 BY DEF NoStream
<1>6. Numbered BY <1>3, <1>4, <1>5 DEF Numbered
<1> QED BY <1>1, <1>2, <1>6 DEF WireInv

LEMMA TeardownKeeps == ASSUME Teardown PROVE WireInv'
<1>1. (wire = Off)' /\ (stream = NoStream)' /\ (tool = NoTool)' BY DEF Teardown
<1> QED BY <1>1, NothingOpen, PTL

(* A step that leaves the stream as it is, up to who sees it.               *)
LEMMA StreamKept ==
  ASSUME Numbered, stream'.sent = stream.sent, stream'.heard = stream.heard,
         stream'.texts = stream.texts
  PROVE  Numbered'
BY DEF Numbered

(* The steps of a connection being made.                                    *)
LEMMA ConnectingKeeps ==
  ASSUME WireInv,
         \/ \E url \in {"wss", "loopback", "plain"} : Begins(url)
         \/ Loads \/ Dials \/ Verifies \/ Asks \/ StartFails \/ Updates
  PROVE  WireInv'
<1> USE DEF WireInv, WireType
<1>1. CASE \E url \in {"wss", "loopback", "plain"} : Begins(url)
  <2>1. PICK url \in {"wss", "loopback", "plain"} : Begins(url) BY <1>1
  <2>2. wire' = [Off EXCEPT !.stage = "load", !.url = url] /\ stream = NoStream
        /\ UNCHANGED <<stream, tool>>
    BY <2>1 DEF Begins, Trusted
  <2>3. WireType' BY <2>2 DEF WireRec, Off, Starting
  <2>4. Position' /\ Trusted' BY <2>2 DEF Position, Trusted, Off, NoStream
  <2> QED BY <2>2, <2>3, <2>4, StreamKept DEF Told
<1>2. CASE Loads
  <2>1. CASE Teardown BY <2>1, TeardownKeeps
  <2>2. CASE ~Teardown
    <3>1. wire.stage = "load" /\ wire' = [wire EXCEPT !.stage = "dial", !.bearer = TRUE]
          /\ wire.url \in {"wss", "loopback"} /\ UNCHANGED <<stream, tool>>
      BY <1>2, <2>2 DEF Loads, ParseUrl
    <3>2. WireType' BY <3>1 DEF WireRec, Starting
    <3>3. Position' /\ Trusted' BY <3>1 DEF Position, Trusted, WireRec, Starting
    <3> QED BY <3>1, <3>2, <3>3, StreamKept DEF Told
  <2> QED BY <2>1, <2>2
<1>3. CASE Dials
  <2>1. wire.stage = "dial" /\ wire' = [wire EXCEPT !.stage = IF wire.url = "wss" THEN "secure" ELSE "ask"]
        /\ UNCHANGED <<stream, tool>>
    BY <1>3 DEF Dials
  <2>2. WireType' BY <2>1 DEF WireRec, Starting
  <2>3. Position' /\ Trusted' BY <2>1 DEF Position, Trusted, WireRec, Starting
  <2> QED BY <2>1, <2>2, <2>3, StreamKept DEF Told
<1>4. CASE Verifies
  <2>1. wire.stage = "secure" /\ wire' = [wire EXCEPT !.stage = "ask", !.verified = TRUE]
        /\ UNCHANGED <<stream, tool>>
    BY <1>4 DEF Verifies
  <2>2. WireType' BY <2>1 DEF WireRec, Starting
  <2>3. Position' /\ Trusted' BY <2>1 DEF Position, Trusted, WireRec, Starting
  <2> QED BY <2>1, <2>2, <2>3, StreamKept DEF Told
<1>5. CASE Asks
  <2>1. wire.stage = "ask" /\ wire' = [wire EXCEPT !.stage = "answer"]
        /\ stream' = [stream EXCEPT !.sees = TRUE] /\ UNCHANGED tool
    BY <1>5 DEF Asks
  <2>2. WireType' BY <2>1 DEF WireRec, StreamRec, Starting
  <2>3. /\ stream'.sent = stream.sent /\ stream'.heard = stream.heard
        /\ stream'.texts = stream.texts /\ stream'.pos = stream.pos
    BY <2>1 DEF StreamRec
  <2>4. Position' /\ Trusted' BY <2>1, <2>3 DEF Position, Trusted, WireRec, StreamRec, Starting
  <2> QED BY <2>1, <2>2, <2>3, <2>4, StreamKept DEF Told
<1>6. CASE StartFails BY <1>6, TeardownKeeps DEF StartFails
<1>7. CASE Updates
  <2>1. wire.stage = "update" /\ wire' = [wire EXCEPT !.stage = "on"] /\ UNCHANGED <<stream, tool>>
    BY <1>7 DEF Updates
  <2>2. WireType' BY <2>1 DEF WireRec
  <2>3. Position' /\ Trusted' BY <2>1 DEF Position, Trusted, WireRec
  <2> QED BY <2>1, <2>2, <2>3, StreamKept DEF Told
<1> QED BY <1>1, <1>2, <1>3, <1>4, <1>5, <1>6, <1>7

(* The first frame of the stream is complete and goes: `heard' follows it   *)
(* if it is a message.                                                      *)
LEMMA HeadGoes ==
  ASSUME WireInv, stream.sent # <<>>, stream'.sent = Tail(stream.sent),
         stream'.texts = stream.texts,
         stream'.heard = IF Head(stream.sent).op = "text" THEN Head(stream.sent).id
                                                          ELSE stream.heard
  PROVE  Numbered'
<1> DEFINE q == stream.sent
           hit == IF Head(q) \in Texts THEN 1 ELSE 0
<1>1. q \in Seq(FrameType) /\ stream.heard \in Nat /\ stream.texts \in Nat
  BY DEF WireInv, WireType, StreamRec
<1>2. /\ Len(q) \in Nat /\ Len(q) > 0 /\ Head(q) = q[1] /\ Head(q) \in FrameType
      /\ Tail(q) \in Seq(FrameType) /\ Len(Tail(q)) = Len(q) - 1
      /\ \A i \in 1 .. Len(Tail(q)) : Tail(q)[i] = q[i + 1]
  BY <1>1, HeadTailProperties, LenProperties, EmptySeq
<1> HIDE DEF q
<1>3. \A k \in 0 .. Len(q) - 1 :
         /\ Cardinality(Marked(q, Texts, k + 1)) = Cardinality(Marked(Tail(q), Texts, k)) + hit
         /\ Cardinality(Marked(Tail(q), Texts, k)) \in Nat
  BY <1>1, <1>2, MarkedTail, MarkedFinite DEF q
<1>4. Cardinality(Marked(Tail(q), Texts, 0)) = 0
  BY FS_EmptySet, Marked(Tail(q), Texts, 0) = {} DEF Marked
<1>5. stream'.heard = stream.heard + hit
  <2>1. CASE Head(q) \in Texts
    <3>1. q[1].id = stream.heard + Cardinality(Marked(q, Texts, 1))
      BY <1>2, <2>1 DEF WireInv, Numbered, q
    <3>2. Cardinality(Marked(q, Texts, 0 + 1)) = 0 + hit BY <1>2, <1>3, <1>4
    <3> QED BY <1>1, <1>2, <2>1, <3>1, <3>2 DEF Texts, q
  <2>2. CASE Head(q) \notin Texts BY <1>1, <1>2, <2>2 DEF Texts, q
  <2> QED BY <2>1, <2>2
<1>6. stream'.heard + Cardinality(Marked(Tail(q), Texts, Len(Tail(q)))) = stream.texts
  <2>1. stream.heard + Cardinality(Marked(q, Texts, Len(q))) = stream.texts
    BY DEF WireInv, Numbered, q
  <2>2. /\ Cardinality(Marked(q, Texts, (Len(q) - 1) + 1)) =
             Cardinality(Marked(Tail(q), Texts, Len(q) - 1)) + hit
        /\ Cardinality(Marked(Tail(q), Texts, Len(q) - 1)) \in Nat
    BY <1>2, <1>3
  <2>3. (Len(q) - 1) + 1 = Len(q) BY <1>2
  <2> QED BY <1>1, <1>2, <1>5, <2>1, <2>2, <2>3
<1>7. \A i \in 1 .. Len(Tail(q)) : Tail(q)[i] \in Texts =>
        Tail(q)[i].id = stream'.heard + Cardinality(Marked(Tail(q), Texts, i))
  <2> SUFFICES ASSUME NEW i \in 1 .. Len(Tail(q)), Tail(q)[i] \in Texts
               PROVE  Tail(q)[i].id = stream'.heard + Cardinality(Marked(Tail(q), Texts, i))
    OBVIOUS
  <2>1. i + 1 \in 1 .. Len(q) /\ i \in 0 .. Len(q) - 1 /\ q[i + 1] \in Texts BY <1>2
  <2>2. q[i + 1].id = stream.heard + Cardinality(Marked(q, Texts, i + 1))
    BY <2>1 DEF WireInv, Numbered, q
  <2>3. Cardinality(Marked(q, Texts, i + 1)) = Cardinality(Marked(Tail(q), Texts, i)) + hit
        /\ Cardinality(Marked(Tail(q), Texts, i)) \in Nat
    BY <1>3, <2>1
  <2>4. Tail(q)[i] = q[i + 1] BY <1>2
  <2>5. hit \in Nat OBVIOUS
  <2> HIDE DEF hit
  <2>6. stream.heard + Cardinality(Marked(q, Texts, i + 1))
          = (stream.heard + hit) + Cardinality(Marked(Tail(q), Texts, i))
    BY <1>1, <2>3, <2>5
  <2> QED BY <1>5, <2>2, <2>4, <2>6
<1> QED BY <1>6, <1>7 DEF Numbered, q

(* What is consumed was there, and the reader begins a frame afresh.        *)
LEMMA ConsumedType ==
  ASSUME WireInv, stream.sent # <<>>, Complete(Head(stream.sent))
  PROVE  /\ Consumed(stream) \in StreamRec
         /\ Consumed(stream).sent = Tail(stream.sent) /\ Consumed(stream).pos = 0
         /\ Consumed(stream).texts = stream.texts /\ Consumed(stream).heard = stream.heard
         /\ Consumed(stream).sees = stream.sees
         /\ Head(stream.sent) \in FrameType
<1>1. /\ stream \in StreamRec /\ stream.sent \in Seq(FrameType) /\ stream.avail \in Nat
      /\ stream.pos \in Nat
  BY DEF WireInv, WireType, StreamRec
<1>2. Head(stream.sent) \in FrameType /\ Tail(stream.sent) \in Seq(FrameType)
  BY <1>1, HeadTailProperties
<1> DEFINE k == Known - Need(Head(stream.sent))
<1>3. k \in Nat
  <2>1. Known \in Nat BY <1>1 DEF Known
  <2>2. Need(Head(stream.sent)) \in Nat BY SMTT(60), <1>2 DEF Need, Header, FrameType
  <2>3. Known >= Need(Head(stream.sent)) BY DEF Complete
  <2> HIDE DEF k
  <2> QED BY <2>1, <2>2, <2>3 DEF k
<1> DEFINE c == Consumed(stream)
<1>4. c = [stream EXCEPT !.sent = Tail(stream.sent), !.avail = k, !.pos = 0]
  BY DEF Consumed
<1> HIDE DEF k, c
<1>5. c \in StreamRec BY <1>1, <1>2, <1>3, <1>4 DEF StreamRec
<1>6. c.sent = Tail(stream.sent) /\ c.pos = 0 BY <1>1, <1>4 DEF StreamRec
<1>7. c.texts = stream.texts /\ c.heard = stream.heard /\ c.sees = stream.sees
  BY <1>1, <1>4 DEF StreamRec
<1> QED BY <1>2, <1>5, <1>6, <1>7 DEF c

(* The handshake is answered: its headers are taken off the stream.         *)
LEMMA ShakenKeeps == ASSUME WireInv, Shaken PROVE WireInv'
<1>1. CASE Teardown BY <1>1, TeardownKeeps
<1>2. CASE ~Teardown
  <2> DEFINE m == Head(stream.sent)
  <2>1. /\ wire.stage = "answer" /\ stream.sent # <<>> /\ stream.avail >= Need(m) /\ Accepted(m)
        /\ wire' = [wire EXCEPT !.stage = "update"] /\ UNCHANGED tool
        /\ stream' = [stream EXCEPT !.sent = Tail(@), !.avail = @ - Need(m)]
    BY <1>2 DEF Shaken
  <2>2. /\ wire \in WireRec /\ stream \in StreamRec /\ tool \in ToolRec
        /\ stream.sent \in Seq(FrameType) /\ stream.avail \in Nat
    BY DEF WireInv, WireType, StreamRec
  <2>3. m \in FrameType /\ Tail(stream.sent) \in Seq(FrameType)
    BY <2>1, <2>2, HeadTailProperties
  <2> HIDE DEF m
  <2>4. stream.avail - Need(m) \in Nat
    <3>1. Need(m) \in Nat BY <2>3 DEF Need, Header, FrameType
    <3>2. stream.avail >= Need(m) BY <2>1
    <3> QED BY <2>2, <3>1, <3>2
  <2>5. stream' \in StreamRec BY <2>1, <2>2, <2>3, <2>4 DEF StreamRec
  <2>6. /\ stream'.sent = Tail(stream.sent) /\ stream'.pos = stream.pos
        /\ stream'.heard = stream.heard
    BY <2>1, <2>2 DEF StreamRec
  <2>7. stream'.texts = stream.texts /\ stream'.sees = stream.sees
    BY <2>1, <2>2 DEF StreamRec
  <2>8. m.op # "text" BY <2>1 DEF Accepted
  <2>9. Numbered' BY <2>1, <2>6, <2>7, <2>8, HeadGoes DEF m
  <2>10. wire' \in WireRec BY <2>1, <2>2 DEF WireRec, Starting
  <2>11. Position' /\ Trusted' /\ Told'
    BY <2>1, <2>2, <2>6, <2>7 DEF WireInv, Position, Trusted, Told, WireRec
  <2> QED BY <2>1, <2>2, <2>5, <2>9, <2>10, <2>11 DEF WireInv, WireType
<1> QED BY <1>1, <1>2

(* What a deadline cuts off is remembered unit by unit.                     *)
LEMMA ReadTimesOutKeeps == ASSUME WireInv, ReadTimesOut PROVE WireInv'
<1>1. /\ wire \in WireRec /\ stream \in StreamRec /\ tool \in ToolRec
      /\ stream.sent \in Seq(FrameType) /\ stream.avail \in Nat /\ stream.pos \in Nat
  BY DEF WireInv, WireType, StreamRec
<1>2. wire.reading /\ UNCHANGED tool BY DEF ReadTimesOut
<1>3. CASE stream.sent = <<>> /\ wire' = [wire EXCEPT !.reading = FALSE] /\ UNCHANGED stream
  <2>1. wire' \in WireRec BY <1>1, <1>3 DEF WireRec
  <2>2. Position' /\ Told'
    BY <1>1, <1>2, <1>3 DEF WireInv, Position, Told, WireRec, Off
  <2>t. Trusted'
    BY <1>1, <1>2, <1>3 DEF WireInv, Trusted, WireRec, Off
  <2>3. Numbered' BY <1>3, StreamKept DEF WireInv
  <2> QED BY <1>1, <1>2, <1>3, <2>1, <2>2, <2>t, <2>3 DEF WireInv, WireType
<1>4. CASE /\ stream.sent # <<>>
           /\ wire' = TimedOut(wire, Head(stream.sent), Known)
           /\ stream' = [stream EXCEPT !.pos = Known, !.avail = 0]
  <2> DEFINE m == Head(stream.sent)
             k == Header + m.ext
             g == IF Known < k THEN Known ELSE k
  <2>1. m \in FrameType BY <1>1, <1>4, HeadTailProperties
  <2> HIDE DEF m
  <2>2. Known \in Nat /\ k \in Nat BY <1>1, <2>1 DEF Known, Header, FrameType
  <2> HIDE DEF k
  <2>3. g \in Nat /\ Known - g \in Nat /\ g + (Known - g) = Known
    BY <2>2
  <2>4. wire' = [wire EXCEPT !.reading = FALSE, !.h = g, !.p = Known - g]
    BY <1>4 DEF TimedOut, m, k
  <2> HIDE DEF g
  <2>5. wire' \in WireRec BY <1>1, <2>3, <2>4 DEF WireRec
  <2>6. wire'.h = g /\ wire'.p = Known - g BY <1>1, <2>4 DEF WireRec
  <2>7. wire'.stage = wire.stage /\ wire'.url = wire.url /\ (wire'.verified <=> wire.verified)
    BY <1>1, <2>4 DEF WireRec
  <2>8. stream' \in StreamRec BY <1>1, <1>4, <2>2 DEF StreamRec
  <2>9. /\ stream'.pos = Known /\ stream'.sent = stream.sent /\ stream'.heard = stream.heard
    BY <1>1, <1>4 DEF StreamRec
  <2>10. stream'.texts = stream.texts /\ (stream'.sees <=> stream.sees)
    BY <1>1, <1>4 DEF StreamRec
  <2>11. Position' BY <2>3, <2>6, <2>9 DEF Position
  <2>12. wire.stage # "off" BY <1>2 DEF WireInv, Trusted, Off
  <2>13. Trusted' BY <2>7, <2>10, <2>12 DEF WireInv, Trusted
  <2>14. Numbered' BY <2>9, <2>10, StreamKept DEF WireInv
  <2> QED BY <1>1, <1>2, <2>5, <2>8, <2>11, <2>13, <2>14 DEF WireInv, WireType, Told
<1> QED BY <1>3, <1>4 DEF ReadTimesOut

(* A frame read to its end.                                                 *)
LEMMA ReadsControlKeeps == ASSUME WireInv, NEW ok, ReadsControl(ok) PROVE WireInv'
<1>1. CASE Teardown BY <1>1, TeardownKeeps
<1>2. CASE ~Teardown
  <2>1. /\ wire.reading /\ stream.sent # <<>> /\ Complete(Head(stream.sent))
        /\ Head(stream.sent).op # "text"
        /\ wire' = Fresh(wire) /\ stream' = Consumed(stream) /\ UNCHANGED tool
    BY <1>2 DEF ReadsControl, Stops
  <2>2. wire \in WireRec /\ tool \in ToolRec BY DEF WireInv, WireType
  <2>3. wire' \in WireRec BY <2>1, <2>2 DEF Fresh, WireRec
  <2>4. /\ wire'.h = 0 /\ wire'.p = 0 /\ wire'.stage = wire.stage /\ wire'.url = wire.url
        /\ (wire'.verified <=> wire.verified)
    BY <2>1, <2>2 DEF Fresh, WireRec
  <2>5. Position' BY <2>1, <2>4, ConsumedType DEF Position
  <2>6. wire.stage # "off" BY <2>1 DEF WireInv, Trusted, Off
  <2>7. Trusted' BY <2>1, <2>4, <2>6, ConsumedType DEF WireInv, Trusted
  <2>8. Numbered' BY <2>1, ConsumedType, HeadGoes
  <2> QED BY <2>1, <2>2, <2>3, <2>5, <2>7, <2>8, ConsumedType DEF WireInv, WireType, Told
<1> QED BY <1>1, <1>2

LEMMA ReadsTextKeeps == ASSUME WireInv, ReadsText PROVE WireInv'
<1> DEFINE c == Consumed(stream)
           m == Head(stream.sent)
<1>1. /\ wire.reading /\ stream.sent # <<>> /\ Complete(m) /\ m.op = "text"
      /\ wire' = Fresh([wire EXCEPT !.reading = FALSE])
      /\ stream' = [c EXCEPT !.heard = m.id]
      /\ tool' = [NoTool EXCEPT !.req = m.req]
  BY DEF ReadsText
<1>2. wire \in WireRec /\ tool \in ToolRec /\ stream \in StreamRec BY DEF WireInv, WireType
<1>3. /\ c \in StreamRec /\ c.sent = Tail(stream.sent) /\ c.pos = 0
      /\ c.texts = stream.texts /\ (c.sees <=> stream.sees) /\ m \in FrameType
  BY <1>1, ConsumedType
<1> HIDE DEF c, m
<1>4. m.id \in Nat /\ m.req \in Asked BY <1>3 DEF FrameType
<1>5. stream' \in StreamRec BY <1>1, <1>3, <1>4 DEF StreamRec
<1>6. stream'.sent = Tail(stream.sent) /\ stream'.pos = 0 /\ stream'.heard = m.id
  BY <1>1, <1>3 DEF StreamRec
<1>7. stream'.texts = stream.texts /\ (stream'.sees <=> stream.sees)
  BY <1>1, <1>3 DEF StreamRec
<1>8. tool' \in ToolRec /\ tool'.said = "none"
  <2>1. NoTool \in ToolRec /\ NoTool.said = "none" BY DEF ToolRec, NoTool, Asked
  <2> QED BY <1>1, <1>4, <2>1 DEF ToolRec
<1>9. wire' \in WireRec BY <1>1, <1>2 DEF Fresh, WireRec
<1>10. /\ wire'.h = 0 /\ wire'.p = 0 /\ wire'.stage = wire.stage /\ wire'.url = wire.url
       /\ (wire'.verified <=> wire.verified)
  BY <1>1, <1>2 DEF Fresh, WireRec
<1>11. wire.stage # "off" BY <1>1 DEF WireInv, Trusted, Off
<1>12. Position' /\ Trusted' BY <1>6, <1>7, <1>10, <1>11 DEF WireInv, Position, Trusted
<1>13. Numbered' BY <1>1, <1>6, <1>7, HeadGoes DEF m
<1> QED BY <1>5, <1>8, <1>9, <1>12, <1>13 DEF WireInv, WireType, Told

(* The ends of a connection, and the calls that leave the stream alone.     *)
LEMMA WireEnds ==
  ASSUME WireInv, Stops \/ ReadEnds \/ (\E ok \in BOOLEAN : SendsAudio(ok))
  PROVE  WireInv'
<1>1. CASE Teardown BY <1>1, TeardownKeeps
<1>2. CASE UNCHANGED wireVars
  BY <1>2 DEF wireVars, WireInv, WireType, Position, Numbered, Trusted, Told
<1> QED BY <1>1, <1>2 DEF Stops, ReadEnds, SendsAudio

LEMMA PollsKeeps == ASSUME WireInv, Polls PROVE WireInv'
<1>1. wire.stage = "on" /\ wire' = [wire EXCEPT !.reading = TRUE] /\ UNCHANGED <<stream, tool>>
  BY DEF Polls
<1>2. WireType' BY <1>1 DEF WireInv, WireType, WireRec
<1>3. Position' /\ Trusted' BY <1>1 DEF WireInv, WireType, Position, Trusted, WireRec
<1> QED BY <1>1, <1>2, <1>3, StreamKept DEF WireInv, Told

(* The request being run: a call confirmed is never forgotten, and the      *)
(* answer is given of the calls made.                                       *)
LEMMA ToolKeeps ==
  ASSUME WireInv, UNCHANGED <<wire, stream>>, tool' \in ToolRec, Told'
  PROVE  WireInv'
BY DEF WireInv, WireType, Position, Numbered, Trusted

LEMMA DispatchesKeeps == ASSUME WireInv, Dispatches PROVE WireInv'
<1>1. /\ tool' = [tool EXCEPT !.todo = Calls(tool.req), !.parts = Parts]
      /\ UNCHANGED <<wire, stream>> /\ tool \in ToolRec
  BY DEF Dispatches, WireInv, WireType
<1>2. Calls(tool.req) \in Seq(Tools)
  <2>1. <<"radio", "speech", "noise">> \in Seq(Tools) BY DEF Tools
  <2>2. <<"timer">> \in Seq(Tools) /\ <<>> \in Seq(Tools) BY DEF Tools
  <2>3. Calls(tool.req) \in {<<"radio", "speech", "noise">>, <<"timer">>, <<>>}
    <3>1. CASE tool.req = "stop" BY <3>1 DEF Calls
    <3>2. CASE tool.req = "timer" BY <3>2 DEF Calls
    <3>3. CASE tool.req # "stop" /\ tool.req # "timer" BY <3>3 DEF Calls
    <3> QED BY <3>1, <3>2, <3>3
  <2> QED BY <2>1, <2>2, <2>3
<1>3. tool' \in ToolRec BY <1>1, <1>2 DEF ToolRec
<1>4. /\ tool'.said = tool.said /\ tool'.acked = tool.acked /\ tool'.req = tool.req
  BY <1>1 DEF ToolRec
<1> QED BY <1>1, <1>3, <1>4, ToolKeeps DEF WireInv, Told

LEMMA CallEndsKeeps ==
  ASSUME WireInv, NEW does \in BOOLEAN, NEW answered \in BOOLEAN, CallEnds(does, answered)
  PROVE  WireInv'
<1> DEFINE c == Head(tool.todo)
           d == IF does THEN tool.done \union {c} ELSE tool.done
           a == IF answered THEN tool.acked \union {c} ELSE tool.acked
<1>1. /\ tool.todo # <<>> /\ UNCHANGED <<wire, stream>>
      /\ tool' = [tool EXCEPT !.todo = Tail(@), !.done = d, !.acked = a]
  BY DEF CallEnds
<1>2. tool \in ToolRec /\ tool.todo \in Seq(Tools) BY DEF WireInv, WireType, ToolRec
<1>3. c \in Tools /\ Tail(tool.todo) \in Seq(Tools) BY <1>1, <1>2, HeadTailProperties
<1> HIDE DEF c
<1>4. d \in SUBSET Tools /\ a \in SUBSET Tools /\ (tool.acked # {} => a # {})
  BY <1>2, <1>3 DEF ToolRec
<1> HIDE DEF d, a
<1>5. tool' \in ToolRec BY <1>1, <1>2, <1>3, <1>4 DEF ToolRec
<1>6. tool'.said = tool.said /\ tool'.acked = a /\ tool'.req = tool.req
  BY <1>1, <1>2 DEF ToolRec
<1> QED BY <1>1, <1>4, <1>5, <1>6, ToolKeeps DEF WireInv, Told

LEMMA AnswersKeeps == ASSUME WireInv, NEW ok \in BOOLEAN, Answers(ok) PROVE WireInv'
<1>1. CASE ~ok BY <1>1, WireEnds DEF Answers
<1>2. CASE ok
  <2> DEFINE v == Verdict(tool)
             e == tool.req = "stop" /\ v = "ok"
             n == tool.parts - 1
  <2>1. /\ tool.parts > 0 /\ UNCHANGED <<wire, stream>>
        /\ tool' = [tool EXCEPT !.parts = n, !.said = v, !.ends = e]
    BY <1>2 DEF Answers
  <2>2. tool \in ToolRec /\ tool.parts \in Nat BY DEF WireInv, WireType, ToolRec
  <2>3. n \in Nat BY <2>1, <2>2
  <2>4. v \in {"ok", "error"} /\ (v = "ok" => tool.acked # {} \/ tool.req = "time")
    BY DEF Verdict
  <2>5. e \in BOOLEAN OBVIOUS
  <2> HIDE DEF n, v, e
  <2>6. tool' \in ToolRec BY <2>1, <2>2, <2>3, <2>4, <2>5 DEF ToolRec
  <2>7. tool'.said = v /\ tool'.acked = tool.acked /\ tool'.req = tool.req
    BY <2>1, <2>2 DEF ToolRec
  <2> QED BY <2>1, <2>4, <2>6, <2>7, ToolKeeps DEF Told
<1> QED BY <1>1, <1>2

LEMMA ConcludesKeeps == ASSUME WireInv, Concludes PROVE WireInv'
<1>1. CASE tool.ends BY <1>1, WireEnds DEF Concludes
<1>2. CASE ~tool.ends
  <2>1. tool' = NoTool /\ UNCHANGED <<wire, stream>> BY <1>2 DEF Concludes
  <2>2. NoTool \in ToolRec /\ NoTool.said = "none" BY DEF ToolRec, NoTool, Asked
  <2> QED BY <2>1, <2>2, ToolKeeps DEF Told
<1> QED BY <1>1, <1>2

-----------------------------------------------------------------------------
(* The server's frames: a message carries the next number.                  *)
LEMMA FramesTyped ==
  ASSUME WireInv, NEW m \in Frames
  PROVE  m \in FrameType /\ (m.op = "text" => m.id = stream.texts + 1)
<1>1. stream.texts + 1 \in Nat /\ PayloadMax \in Nat
  BY DEF WireInv, WireType, StreamRec, WireAssumption
<1> QED BY <1>1 DEF Frames, Frame, FrameType, Ops, Flaws, Asked, Requests

LEMMA WritesKeeps == ASSUME WireInv, NEW m \in Frames, Writes(m) PROVE WireInv'
<1> DEFINE q == stream.sent
           t == IF m.op = "text" THEN stream.texts + 1 ELSE stream.texts
           w == stream.written + 1
<1>1. /\ stream' = [stream EXCEPT !.sent = Append(q, m), !.written = w, !.texts = t]
      /\ UNCHANGED <<wire, tool>> /\ stream.sees
  BY DEF Writes
<1>2. /\ stream \in StreamRec /\ q \in Seq(FrameType) /\ stream.texts \in Nat /\ stream.heard \in Nat
      /\ stream.written \in Nat
  BY DEF WireInv, WireType, StreamRec
<1>3. m \in FrameType /\ (m.op = "text" => m.id = stream.texts + 1) BY FramesTyped
<1>4. t \in Nat /\ w \in Nat BY <1>2
<1>5. /\ Append(q, m) \in Seq(FrameType) /\ Len(Append(q, m)) = Len(q) + 1 /\ Len(q) \in Nat
      /\ Append(q, m)[Len(q) + 1] = m /\ \A i \in 1 .. Len(q) : Append(q, m)[i] = q[i]
  BY <1>2, <1>3, AppendProperties, LenProperties
<1>6. stream.heard + Cardinality(Marked(q, Texts, Len(q))) = stream.texts
      /\ \A i \in 1 .. Len(q) : q[i] \in Texts =>
           q[i].id = stream.heard + Cardinality(Marked(q, Texts, i))
  BY DEF WireInv, Numbered
<1>7. (m \in Texts) <=> m.op = "text" BY <1>3 DEF Texts
<1>8. Cardinality(Marked(q, Texts, Len(q))) \in Nat BY <1>5, MarkedFinite
<1> HIDE DEF q, w
<1>9. /\ \A k \in 0 .. Len(q) : Marked(Append(q, m), Texts, k) = Marked(q, Texts, k)
      /\ Cardinality(Marked(Append(q, m), Texts, Len(q) + 1)) =
           Cardinality(Marked(q, Texts, Len(q))) + (IF m \in Texts THEN 1 ELSE 0)
  BY ONLY <1>2, <1>3, MarkedAppend, Zenon
<1>10. stream.heard + Cardinality(Marked(Append(q, m), Texts, Len(q) + 1)) = t
  BY SMTT(60), <1>2, <1>6, <1>7, <1>8, <1>9
<1>11. \A i \in 1 .. Len(q) + 1 : Append(q, m)[i] \in Texts =>
         Append(q, m)[i].id = stream.heard + Cardinality(Marked(Append(q, m), Texts, i))
  <2> SUFFICES ASSUME NEW i \in 1 .. Len(q) + 1, Append(q, m)[i] \in Texts
               PROVE  Append(q, m)[i].id =
                        stream.heard + Cardinality(Marked(Append(q, m), Texts, i))
    OBVIOUS
  <2>1. CASE i = Len(q) + 1
    <3>1. m.op = "text" /\ m.id = stream.texts + 1 BY <1>3, <1>5, <1>7, <2>1
    <3> QED BY <1>5, <1>10, <2>1, <3>1
  <2>2. CASE i # Len(q) + 1
    <3>1. i \in 1 .. Len(q) /\ i \in 0 .. Len(q) BY <1>5, <2>2
    <3>2. Append(q, m)[i] = q[i] BY <1>5, <3>1
    <3>3. Cardinality(Marked(Append(q, m), Texts, i)) = Cardinality(Marked(q, Texts, i))
      BY <1>9, <3>1, Zenon
    <3> QED BY <1>6, <3>1, <3>2, <3>3
  <2> QED BY <2>1, <2>2
<1> HIDE DEF t
<1>12. stream' \in StreamRec BY <1>1, <1>2, <1>4, <1>5 DEF StreamRec
<1>13. stream'.sent = Append(q, m) /\ stream'.texts = t /\ stream'.heard = stream.heard
  BY <1>1, <1>2 DEF StreamRec
<1>14. stream'.pos = stream.pos /\ (stream'.sees <=> stream.sees)
  BY <1>1, <1>2 DEF StreamRec
<1>15. Numbered' BY <1>5, <1>10, <1>11, <1>13 DEF Numbered
<1>16. wire.stage # "off" BY <1>1 DEF WireInv, Trusted, NoStream
<1>17. Position' /\ Trusted' /\ Told'
  BY <1>1, <1>14, <1>16 DEF WireInv, Position, Trusted, Told
<1> QED BY <1>1, <1>12, <1>15, <1>17 DEF WireInv, WireType

(* The network brings a unit; the server closes its end.                    *)
LEMMA NetworkKeeps == ASSUME WireInv, Arrives \/ HangsUp PROVE WireInv'
<1>1. stream \in StreamRec /\ stream.avail \in Nat BY DEF WireInv, WireType, StreamRec
<1>2. UNCHANGED <<wire, tool>> BY DEF Arrives, HangsUp
<1>3. /\ stream' \in StreamRec
      /\ stream'.sent = stream.sent /\ stream'.pos = stream.pos
      /\ stream'.heard = stream.heard /\ stream'.texts = stream.texts
      /\ (stream'.sees <=> stream.sees)
  <2>1. CASE Arrives
    <3>1. stream' = [stream EXCEPT !.avail = stream.avail + 1] /\ stream.avail + 1 \in Nat
      BY <1>1, <2>1 DEF Arrives
    <3> QED BY <1>1, <3>1 DEF StreamRec
  <2>2. CASE HangsUp BY <1>1, <2>2 DEF HangsUp, StreamRec
  <2> QED BY <2>1, <2>2
<1>4. wire.stage # "off"
  <2>1. CASE Arrives
    <3>1. stream.avail < Total BY <2>1 DEF Arrives
    <3>2. NoStream.avail = 0 /\ (stream = NoStream => Total = 0) BY DEF NoStream, Total
    <3> QED BY <3>1, <3>2 DEF WireInv, Trusted
  <2>2. CASE HangsUp BY <2>2 DEF HangsUp, WireInv, Trusted, NoStream
  <2> QED BY <2>1, <2>2
<1>5. Numbered' BY <1>3, StreamKept DEF WireInv
<1>6. Position' /\ Trusted' /\ Told' BY <1>2, <1>3, <1>4 DEF WireInv, Position, Trusted, Told
<1> QED BY <1>2, <1>3, <1>5, <1>6 DEF WireInv, WireType

LEMMA WireStep == ASSUME WireInv, WireNext PROVE WireInv'
<1>1. CASE WireRuns
  BY <1>1, ConnectingKeeps, ShakenKeeps, PollsKeeps, ReadTimesOutKeeps, WireEnds,
     ReadsControlKeeps, ReadsTextKeeps, DispatchesKeeps, CallEndsKeeps, AnswersKeeps,
     ConcludesKeeps
  DEF WireRuns
<1>2. CASE WireFails
  BY <1>2, ConnectingKeeps, WireEnds, ReadsControlKeeps, CallEndsKeeps, AnswersKeeps
  DEF WireFails
<1>3. CASE HangsUp \/ Arrives BY <1>3, NetworkKeeps
<1>4. CASE \E url \in {"wss", "loopback", "plain"} : Begins(url) BY <1>4, ConnectingKeeps
<1>5. CASE \E m \in Frames : Writes(m) BY <1>5, WritesKeeps
<1> QED BY <1>1, <1>2, <1>3, <1>4, <1>5 DEF WireNext

LEMMA WireInvMeans == ASSUME WireInv PROVE WireHonest
<1>1. stream.sent \in Seq(FrameType) BY DEF WireInv, WireType, StreamRec
<1>2. Len(stream.sent) \in Nat /\ DOMAIN stream.sent = 1 .. Len(stream.sent)
      /\ \A i \in 1 .. Len(stream.sent) : stream.sent[i] \in FrameType
  BY <1>1, LenProperties, ElementOfSeq
<1>3. {i \in DOMAIN stream.sent : stream.sent[i].op = "text"}
        = Marked(stream.sent, Texts, Len(stream.sent))
  BY <1>2 DEF Marked, Texts
<1>4. wire.bearer => wire.stage # "off" BY DEF WireInv, Trusted, Off
<1> QED BY <1>3, <1>4 DEF WireHonest, WireInv, Position, Numbered, Trusted, Told

(* The reader of the connection knows where it is in a frame whatever the   *)
(* deadlines did, messages are heard in order and once, the token is held   *)
(* by an open transport and shown to a verified server or to this device    *)
(* (ws_start, read_frame), and a success is told of a confirmed action only *)
(* (tool_voice_request).                                                    *)
THEOREM WireAlwaysHonest == ServiceSpec => []WireHonest
<1>1. ServiceInit => WireInv BY NothingOpen DEF ServiceInit, WireInit
<1>2. WireInv /\ [ServiceNext]_serviceVars => WireInv'
  <2>1. ASSUME WireInv, UNCHANGED wireVars PROVE WireInv'
    BY <2>1 DEF wireVars, WireInv, WireType, Position, Numbered, Trusted, Told
  <2> QED BY <2>1, WireStep DEF ServiceNext, InSession, OnWire, serviceVars
<1>3. WireInv => WireHonest BY WireInvMeans
<1> QED BY <1>1, <1>2, <1>3, PTL DEF ServiceSpec

-----------------------------------------------------------------------------
(* The session.  What each function of the code returns, of the fields that *)
(* say whether something is held, owed or left to play.                     *)
LEMMA CachesAreSeqs ==
  /\ \A c \in Caches : c \in Seq(Ids) /\ Len(c) <= CacheMax
  /\ \A c \in Seq(Ids) : Len(c) <= CacheMax => c \in Caches
<1>1. CacheMax \in Nat \ {0} BY DEF SessionAssumption
<1>2. ASSUME NEW c \in Caches PROVE c \in Seq(Ids) /\ Len(c) <= CacheMax
  <2>1. PICK n \in 0 .. CacheMax : c \in [1 .. n -> Ids] BY DEF Caches
  <2>2. n \in Nat BY <1>1, <2>1
  <2>3. c \in Seq(Ids) /\ Len(c) = n BY <2>1, <2>2
  <2> QED BY <1>1, <2>1, <2>3
<1>3. ASSUME NEW c \in Seq(Ids), Len(c) <= CacheMax PROVE c \in Caches
  <2>1. Len(c) \in 0 .. CacheMax /\ c \in [1 .. Len(c) -> Ids] BY <1>1, <1>3, LenProperties
  <2> QED BY <2>1 DEF Caches
<1> QED BY <1>2, <1>3

LEMMA NoCache == <<>> \in Caches
<1>1. 0 \in 0 .. CacheMax BY DEF SessionAssumption
<1>2. <<>> \in [1 .. 0 -> Ids] OBVIOUS
<1> QED BY <1>1, <1>2 DEF Caches

LEMMA LimitsTyped ==
  /\ OldestAge \in Nat /\ OldestQuiet \in Nat /\ CacheMax \in Nat /\ BargeFrames \in Nat \ {0}
  /\ RingMax \in Nat \ {0} /\ Preroll \in Nat /\ WriteMax \in Nat
  /\ RetryAfter \in Nat /\ NetMax \in Nat \ {0} /\ IsFiniteSet(Ids)
BY DEF SessionAssumption, LivedAssumption, OldestAge, OldestQuiet

LEMMA TornIs ==
  ASSUME NEW s \in Session
  PROVE  /\ Torn(s) \in Session
         /\ Torn(s).state = s.state /\ Torn(s).next = s.next /\ Torn(s).cache = s.cache
         /\ ~Torn(s).inUse /\ Torn(s).pending = 0 /\ ~Torn(s).done
         /\ ~Torn(s).suppress /\ (Torn(s).playing <=> s.playing)
<1>1. Torn(s) \in Session BY DEF Torn, Session
<1>2. Torn(s).state = s.state /\ Torn(s).next = s.next /\ Torn(s).cache = s.cache
  BY DEF Torn, Session
<1>3. ~Torn(s).inUse /\ Torn(s).pending = 0 BY DEF Torn, Session
<1>4. ~Torn(s).done /\ ~Torn(s).suppress /\ (Torn(s).playing <=> s.playing) BY DEF Torn, Session
<1> QED BY <1>1, <1>2, <1>3, <1>4

LEMMA ClosedIs ==
  ASSUME NEW s \in Session, NEW why \in Ends
  PROVE  /\ Closed(s, why) \in Session /\ Closed(s, why).cache = s.cache
         /\ ~Active(Closed(s, why))
         /\ ~Active(s) => Closed(s, why) = s
         /\ Active(s) => LET c == Closed(s, why)
                         IN  ~c.inUse /\ c.pending = 0 /\ ~c.done /\ ~c.playing
<1>1. CASE ~Active(s) BY <1>1 DEF Closed
<1>2. CASE Active(s)
  <2> DEFINE t == Torn(s)
             c == Closed(s, why)
  <2>1. c = [t EXCEPT !.state = "idle", !.end = why, !.next = 0, !.run = 0,
                      !.opened = 0, !.quiet = 0, !.playing = FALSE]
    BY <1>2 DEF Closed
  <2>2. t \in Session /\ t.cache = s.cache /\ ~t.inUse /\ t.pending = 0 /\ ~t.done
    BY TornIs
  <2> HIDE DEF t, c
  <2>3. 0 \in 0 .. OldestAge /\ 0 \in 0 .. OldestQuiet /\ 0 \in 0 .. BargeFrames
    BY LimitsTyped
  <2>4. c \in Session BY ZenonT(60), <2>1, <2>2, <2>3 DEF Session, States
  <2>5. c.state = "idle" /\ c.cache = t.cache /\ c.pending = t.pending
    BY <2>1, <2>2 DEF Session
  <2>6. (c.inUse <=> t.inUse) /\ (c.done <=> t.done) /\ ~c.playing
    BY <2>1, <2>2 DEF Session
  <2> QED BY <1>2, <2>2, <2>4, <2>5, <2>6 DEF c, Active
<1> QED BY <1>1, <1>2

(* A session between two steps, with c the user turn last interrupted and d *)
(* the user turns completed: it has its transport exactly while it is       *)
(* active, holds nothing otherwise, and what is queued belongs to a turn    *)
(* that was not interrupted.                                                *)
Whole(s) ==
  /\ Active(s) <=> s.inUse
  /\ ~Active(s) => s.pending = 0 /\ ~s.done /\ ~s.playing

Talks(s, c, d) ==
  /\ s \in Session /\ Whole(s)
  /\ Active(s) => s.suppress \/ c < d \/ d = 0
  /\ HasChunk(s) => s.turn > c

(* It listens for an interruption while audio is queued.                    *)
Listens(s) == HasChunk(s) => s.state = "speaking"

(* The same session up to how far it has sent and its clocks.               *)
Alike(s, t) ==
  /\ t.state = s.state /\ t.cache = s.cache /\ t.pending = s.pending /\ t.turn = s.turn
  /\ t.inUse <=> s.inUse
  /\ t.done <=> s.done
  /\ t.suppress <=> s.suppress
  /\ t.playing <=> s.playing

LEMMA AlikeTalks ==
  ASSUME NEW c, NEW d, NEW s, NEW t \in Session, Talks(s, c, d), Alike(s, t)
  PROVE  Talks(t, c, d) /\ (Listens(s) => Listens(t))
BY DEF Talks, Whole, Alike, Active, HasChunk, Listens

LEMMA ClosedTalks ==
  ASSUME NEW c, NEW d, NEW s, NEW why \in Ends, Talks(s, c, d)
  PROVE  /\ Talks(Closed(s, why), c, d) /\ Listens(Closed(s, why))
         /\ Closed(s, why).cache = s.cache /\ ~Active(Closed(s, why))
         /\ ~Closed(s, why).inUse
<1>1. s \in Session BY DEF Talks
<1>2. CASE Active(s)
  BY <1>1, <1>2, ClosedIs DEF Talks, Whole, HasChunk, Listens
<1>3. CASE ~Active(s)
  BY <1>1, <1>3, ClosedIs DEF Talks, Whole, HasChunk, Listens
<1> QED BY <1>2, <1>3

LEMMA RingEndIs == ASSUME NEW rg \in Ring PROVE RingEnd(rg) \in Nat
BY LimitsTyped DEF Ring, RingEnd

LEMMA FlushedIs ==
  ASSUME NEW s \in Session, NEW rg \in Ring
  PROVE  /\ Flushed(s, rg) \in Session /\ Alike(s, Flushed(s, rg))
         /\ Flushed(s, rg).next = IF Sends(s, rg) THEN RingEnd(rg) ELSE s.next
<1>1. CASE ~Sends(s, rg) BY <1>1 DEF Flushed, Alike
<1>2. CASE Sends(s, rg)
  <2> DEFINE t == Flushed(s, rg)
             e == RingEnd(rg)
  <2>1. t = [s EXCEPT !.next = e] BY <1>2 DEF Flushed
  <2>2. e \in Nat BY RingEndIs
  <2> HIDE DEF t, e
  <2>3. t \in Session /\ t.next = e BY <2>1, <2>2 DEF Session
  <2>4. t.state = s.state /\ t.cache = s.cache /\ t.pending = s.pending /\ t.turn = s.turn
    BY <2>1 DEF Session
  <2>5. (t.inUse <=> s.inUse) /\ (t.done <=> s.done) BY <2>1 DEF Session
  <2>6. (t.suppress <=> s.suppress) /\ (t.playing <=> s.playing) BY <2>1 DEF Session
  <2> QED BY <1>2, <2>3, <2>4, <2>5, <2>6 DEF t, e, Alike
<1> QED BY <1>1, <1>2

LEMMA AgedIs ==
  ASSUME NEW s \in Session
  PROVE  Aged(s) \in Session /\ Alike(s, Aged(s)) /\ Aged(s).next = s.next
<1>1. CASE ~Active(s) BY <1>1 DEF Aged, Alike
<1>2. CASE Active(s)
  <2> DEFINE o == Older(s.opened, OldestAge)
             q == Older(s.quiet, OldestQuiet)
             t == Aged(s)
  <2>1. t = [s EXCEPT !.opened = o, !.quiet = q] BY <1>2 DEF Aged
  <2>2. o \in 0 .. OldestAge /\ q \in 0 .. OldestQuiet BY LimitsTyped DEF Older, Session
  <2> HIDE DEF o, q, t
  <2>3. t \in Session /\ t.next = s.next BY <2>1, <2>2 DEF Session
  <2>4. t.state = s.state /\ t.cache = s.cache /\ t.pending = s.pending /\ t.turn = s.turn
    BY <2>1 DEF Session
  <2>5. (t.inUse <=> s.inUse) /\ (t.done <=> s.done) BY <2>1 DEF Session
  <2>6. (t.suppress <=> s.suppress) /\ (t.playing <=> s.playing) BY <2>1 DEF Session
  <2> QED BY <2>3, <2>4, <2>5, <2>6 DEF t, Alike
<1> QED BY <1>1, <1>2

(* A call that ends by uploading leaves the session as it was, sent up to   *)
(* date, or closed.                                                         *)
LEMMA UploadsIs ==
  ASSUME NEW s \in Session, NEW rg \in Ring, NEW f, NEW t \in Uploads(s, rg, f)
  PROVE  t = Flushed(s, rg) \/ (Open(s) /\ \E why \in Ends : t = Closed(s, why))
BY DEF Uploads, Sends, Ends

LEMMA PumpResultsIs ==
  ASSUME NEW s \in Session, NEW rg \in Ring, NEW late, NEW f,
         NEW t \in PumpResults(s, rg, late, f)
  PROVE  \/ ~Active(s) /\ t = s
         \/ s.state = "connecting" /\ t = s
         \/ Open(s) /\ t = Flushed(s, rg)
         \/ Active(s) /\ \E why \in Ends : t = Closed(s, why)
<1> USE DEF PumpResults
<1>1. CASE ~Active(s) BY <1>1
<1>2. CASE s.state = "connecting"
  BY <1>2, "connect_failed" \in Ends DEF Active, Ends
<1>3. CASE Active(s) /\ s.state # "connecting"
  <2>1. Open(s) BY <1>3 DEF Open, Active
  <2>2. \/ t \in Uploads(s, rg, f)
        \/ t \in {Closed(s, "max_duration"), Closed(s, "timeout")}
    BY <1>3
  <2>3. {"max_duration", "timeout"} \subseteq Ends BY DEF Ends
  <2> QED BY <1>3, <2>1, <2>2, <2>3, UploadsIs
<1> QED BY <1>1, <1>2, <1>3

LEMMA PumpResultsTalk ==
  ASSUME NEW c, NEW d, NEW s, NEW rg \in Ring, NEW late, NEW f,
         NEW t \in PumpResults(s, rg, late, f), Talks(s, c, d), Listens(s)
  PROVE  Talks(t, c, d) /\ Listens(t) /\ t.cache = s.cache /\ (t.inUse => s.inUse)
<1>1. s \in Session BY DEF Talks
<1>2. CASE t = s BY <1>2
<1>3. CASE t = Flushed(s, rg) BY <1>1, <1>3, FlushedIs, AlikeTalks DEF Alike
<1>4. CASE \E why \in Ends : t = Closed(s, why) BY <1>4, ClosedTalks
<1> QED BY <1>1, <1>2, <1>3, <1>4, PumpResultsIs

(* A conversation begins with the audio of its wake word, and with nothing  *)
(* of the one before.                                                       *)
LEMMA StartForWakeIs ==
  ASSUME NEW rg \in Ring, NEW d \in Nat, ~WakeRefused(rg, d), NEW pre \in Nat
  PROVE  /\ StartForWake(rg, d, pre) \in Nat
         /\ pre > 0 => /\ rg.first <= StartForWake(rg, d, pre)
                       /\ StartForWake(rg, d, pre) < RingEnd(rg)
                       /\ d <= StartForWake(rg, d, pre) + pre
<1>1. rg.first \in Nat /\ rg.count \in Nat /\ rg.count > 0 /\ d <= rg.first + rg.count
      /\ RingEnd(rg) = rg.first + rg.count
  BY LimitsTyped DEF Ring, WakeRefused, RingEnd
<1> DEFINE w == IF d > pre THEN d - pre ELSE 0
<1>2. w \in Nat /\ d <= w + pre /\ (pre > 0 => w < rg.first + rg.count) BY <1>1
<1>3. StartForWake(rg, d, pre) =
        IF (IF w < rg.first THEN rg.first ELSE w) >= rg.first + rg.count THEN 0
        ELSE IF w < rg.first THEN rg.first ELSE w
  BY <1>1 DEF StartForWake
<1> HIDE DEF w
<1>4. CASE w < rg.first BY <1>1, <1>2, <1>3, <1>4
<1>5. CASE ~(w < rg.first) BY <1>1, <1>2, <1>3, <1>5
<1> QED BY <1>4, <1>5

LEMMA StartedIs ==
  ASSUME NEW s \in Session, Whole(s), ~Active(s), NEW rg \in Ring, NEW d \in Nat,
         ~WakeRefused(rg, d)
  PROVE  /\ Talks(Started(Woken(s, rg, d)), 0, 0)
         /\ Started(Woken(s, rg, d)).state = "connecting"
         /\ Started(Woken(s, rg, d)).next = StartForWake(rg, d, Preroll)
         /\ Started(Woken(s, rg, d)).cache = <<>>
         /\ Started(Woken(s, rg, d)).pending = 0
         /\ ~Started(Woken(s, rg, d)).done /\ ~Started(Woken(s, rg, d)).playing
         /\ Started(Woken(s, rg, d)).inUse
<1> DEFINE n == StartForWake(rg, d, Preroll)
           w == Woken(s, rg, d)
           t == Started(w)
<1>1. n \in Nat BY LimitsTyped, StartForWakeIs
<1>2. <<>> \in Caches BY NoCache
<1>3. w = [s EXCEPT !.state = "connecting", !.next = n, !.opened = 0, !.quiet = 0, !.run = 0,
                    !.end = "none", !.cache = <<>>]
  BY DEF Woken
<1>4. ~s.playing BY DEF Whole
<1> HIDE DEF n, w
<1>5. 0 \in 0 .. OldestAge /\ 0 \in 0 .. OldestQuiet /\ 0 \in 0 .. BargeFrames
  BY LimitsTyped
<1>6. w \in Session BY <1>1, <1>2, <1>3, <1>5 DEF Session, States, Ends
<1>7. w.state = "connecting" /\ w.next = n /\ w.cache = <<>> BY <1>3, <1>6 DEF Session
<1>8. ~w.playing BY <1>3, <1>4, <1>6 DEF Session
<1>9. Torn(w) \in Session BY <1>6, TornIs
<1>10. t = [Torn(w) EXCEPT !.inUse = TRUE] BY DEF Started
<1> HIDE DEF t
<1>11. t \in Session /\ t.inUse BY <1>9, <1>10 DEF Session
<1>12. t.state = Torn(w).state /\ t.next = Torn(w).next /\ t.cache = Torn(w).cache
  BY <1>9, <1>10 DEF Session
<1>13. t.pending = Torn(w).pending /\ (t.done <=> Torn(w).done)
       /\ (t.playing <=> Torn(w).playing)
  BY <1>9, <1>10 DEF Session
<1>14. /\ t.state = "connecting" /\ t.next = n /\ t.cache = <<>> /\ t.pending = 0
       /\ ~t.done /\ ~t.playing
  BY <1>6, <1>7, <1>8, <1>12, <1>13, TornIs
<1>15. Talks(t, 0, 0) BY <1>11, <1>14 DEF Talks, Whole, Active, HasChunk
<1> QED BY <1>11, <1>14, <1>15 DEF t, w, n

LEMMA StartFailedIs ==
  ASSUME NEW s \in Session, ~s.playing, NEW c, NEW d
  PROVE  /\ Talks(StartFailed(Torn(s)), c, d) /\ Listens(StartFailed(Torn(s)))
         /\ StartFailed(Torn(s)).cache = s.cache /\ ~Active(StartFailed(Torn(s)))
<1> DEFINE w == Torn(s)
           t == StartFailed(w)
<1>1. w \in Session /\ w.cache = s.cache /\ ~w.inUse /\ w.pending = 0 /\ ~w.done /\ ~w.playing
  BY TornIs
<1>2. t = [w EXCEPT !.state = "idle", !.end = "connect_failed", !.opened = 0, !.quiet = 0]
  BY DEF StartFailed
<1> HIDE DEF w, t
<1>3. 0 \in 0 .. OldestAge /\ 0 \in 0 .. OldestQuiet BY LimitsTyped
<1>4. t \in Session BY <1>1, <1>2, <1>3 DEF Session, States, Ends
<1>5. t.state = "idle" /\ t.cache = w.cache /\ t.pending = w.pending
  BY <1>1, <1>2 DEF Session
<1>6. (t.inUse <=> w.inUse) /\ (t.done <=> w.done) /\ (t.playing <=> w.playing)
  BY <1>1, <1>2 DEF Session
<1>7. Talks(t, c, d) /\ Listens(t) /\ t.cache = s.cache /\ ~Active(t)
  BY <1>1, <1>4, <1>5, <1>6 DEF Talks, Whole, Active, HasChunk, Listens
<1> QED BY <1>7 DEF t, w

(* An interruption empties the queue and marks the turn; otherwise only the *)
(* run of loud frames changes.                                              *)
LEMMA BargeCheckedIs ==
  ASSUME NEW s \in Session, NEW loud \in BOOLEAN
  PROVE  /\ BargeChecked(s, loud) \in Session
         /\ BargeChecked(s, loud).next = s.next
         /\ ~BargeFires(s, loud) => Alike(s, BargeChecked(s, loud))
         /\ BargeFires(s, loud) => LET t == BargeChecked(s, loud)
                                   IN  /\ t.state = "listening" /\ t.cache = s.cache
                                       /\ t.pending = 0 /\ ~t.done /\ t.suppress
                                       /\ (t.inUse <=> s.inUse)
<1> DEFINE t == BargeChecked(s, loud)
<1>1. CASE BargeFires(s, loud)
  <2> DEFINE i == Interrupted(s)
  <2>1. i = [s EXCEPT !.pending = 0, !.done = FALSE, !.suppress = TRUE] BY DEF Interrupted
  <2>2. t = [i EXCEPT !.run = 0, !.quiet = 0, !.playing = FALSE, !.state = "listening"]
    BY <1>1 DEF BargeChecked
  <2> HIDE DEF i, t
  <2>3. i \in Session BY <2>1 DEF Session
  <2>4. i.cache = s.cache /\ i.next = s.next /\ i.pending = 0 BY <2>1 DEF Session
  <2>5. ~i.done /\ i.suppress /\ (i.inUse <=> s.inUse) BY <2>1 DEF Session
  <2>6. 0 \in 0 .. BargeFrames /\ 0 \in 0 .. OldestQuiet BY LimitsTyped
  <2>7. t \in Session BY <2>2, <2>3, <2>6 DEF Session, States
  <2>8. t.state = "listening" /\ t.cache = i.cache /\ t.next = i.next /\ t.pending = i.pending
    BY <2>2, <2>3 DEF Session
  <2>9. (t.done <=> i.done) /\ (t.suppress <=> i.suppress) /\ (t.inUse <=> i.inUse)
    BY <2>2, <2>3 DEF Session
  <2> QED BY <1>1, <2>4, <2>5, <2>7, <2>8, <2>9 DEF t
<1>2. CASE ~BargeFires(s, loud)
  <2> DEFINE n == IF s.state = "speaking" /\ loud THEN s.run + 1 ELSE 0
  <2>1. t = [s EXCEPT !.run = n] BY <1>2 DEF BargeChecked
  <2>2. n \in 0 .. BargeFrames BY <1>2, LimitsTyped DEF BargeFires, Session
  <2> HIDE DEF n, t
  <2>3. t \in Session /\ t.next = s.next BY <2>1, <2>2 DEF Session
  <2>4. t.state = s.state /\ t.cache = s.cache /\ t.pending = s.pending /\ t.turn = s.turn
    BY <2>1 DEF Session
  <2>5. (t.inUse <=> s.inUse) /\ (t.done <=> s.done) BY <2>1 DEF Session
  <2>6. (t.suppress <=> s.suppress) /\ (t.playing <=> s.playing) BY <2>1 DEF Session
  <2>7. Alike(s, t) BY <2>4, <2>5, <2>6 DEF Alike
  <2> QED BY <1>2, <2>3, <2>7 DEF t
<1> QED BY <1>1, <1>2

(* What is fed to a session: an interruption, then the upload.              *)
LEMMA FeedResultsIs ==
  ASSUME NEW c \in Nat, NEW d \in Nat, c <= d, NEW s, Talks(s, c, d), Listens(s),
         NEW rg \in Ring, NEW loud \in BOOLEAN, NEW f, NEW t \in FeedResults(s, rg, loud, f)
  PROVE  /\ Talks(t, IF BargeFires(s, loud) THEN d ELSE c, d) /\ Listens(t)
         /\ t.cache = s.cache /\ (t.inUse => s.inUse)
         /\ \/ ~Active(t) /\ s.state # "connecting"
            \/ s.state = "connecting" /\ Alike(s, t) /\ t.next = s.next
            \/ /\ Open(s) /\ Open(t)
               /\ t.next = IF Readable(rg, s.next) THEN RingEnd(rg) ELSE s.next
<1>1. s \in Session BY DEF Talks
<1>2. CASE ~Active(s)
  <2>1. t = s /\ ~BargeFires(s, loud) BY <1>2 DEF FeedResults, Active, BargeFires
  <2> QED BY <1>2, <2>1 DEF Active
<1>3. CASE Active(s)
  <2> DEFINE hit == BargeChecked(s, loud)
             k == IF BargeFires(s, loud) THEN d ELSE c
  <2>1. t \in Uploads(hit, rg, f) BY <1>3 DEF FeedResults
  <2>2. hit \in Session /\ hit.next = s.next BY <1>1, BargeCheckedIs
  <2>3. Talks(hit, k, d) /\ Listens(hit) /\ hit.cache = s.cache /\ (hit.inUse <=> s.inUse)
    <3>1. CASE ~BargeFires(s, loud)
      <4>1. Alike(s, hit) BY <1>1, <3>1, BargeCheckedIs
      <4> QED BY <2>2, <3>1, <4>1, AlikeTalks DEF Alike
    <3>2. CASE BargeFires(s, loud)
      BY <1>1, <1>3, <2>2, <3>2, BargeCheckedIs DEF Talks, Whole, Active, HasChunk, Listens
    <3> QED BY <3>1, <3>2
  <2>4. \/ s.state = "connecting" /\ Alike(s, hit)
        \/ Open(s) /\ Open(hit)
    <3>1. CASE ~BargeFires(s, loud)
      <4>1. Alike(s, hit) BY <1>1, <3>1, BargeCheckedIs
      <4> QED BY <1>3, <4>1 DEF Alike, Open, Active
    <3>2. CASE BargeFires(s, loud)
      BY <1>1, <3>2, BargeCheckedIs DEF Open, BargeFires
    <3> QED BY <3>1, <3>2
  <2> HIDE DEF hit, k
  <2>5. CASE t = Flushed(hit, rg)
    <3>1. t \in Session /\ Alike(hit, t) /\ t.next = IF Sends(hit, rg) THEN RingEnd(rg) ELSE hit.next
      BY <2>2, <2>5, FlushedIs
    <3>2. Talks(t, k, d) /\ Listens(t) BY <2>3, <3>1, AlikeTalks
    <3>3. t.cache = s.cache /\ (t.inUse => s.inUse) BY <2>3, <3>1 DEF Alike
    <3>4. CASE s.state = "connecting" /\ Alike(s, hit)
      <4>1. ~Sends(hit, rg) BY <3>4 DEF Sends, Open, Alike
      <4>2. Alike(s, t) BY <3>1, <3>4 DEF Alike
      <4> QED BY <2>2, <3>1, <3>2, <3>3, <3>4, <4>1, <4>2 DEF k
    <3>5. CASE Open(s) /\ Open(hit)
      <4>1. Open(t) BY <3>1, <3>5 DEF Open, Alike
      <4>2. Sends(hit, rg) <=> Readable(rg, s.next) BY <2>2, <3>5 DEF Sends
      <4> QED BY <2>2, <3>1, <3>2, <3>3, <3>5, <4>1, <4>2 DEF k
    <3> QED BY <2>4, <3>4, <3>5
  <2>6. CASE Open(hit) /\ \E why \in Ends : t = Closed(hit, why)
    <3>1. s.state # "connecting" BY <2>4, <2>6 DEF Open, Alike
    <3> QED BY <2>3, <2>6, <3>1, ClosedTalks DEF k
  <2> QED BY <2>1, <2>2, <2>5, <2>6, UploadsIs
<1> QED BY <1>2, <1>3

(* A message of the model.                                                  *)
LEMMA HeardIs ==
  ASSUME NEW c \in Nat, NEW d \in Nat, c <= d, NEW s, Talks(s, c, d), Active(s),
         ~HasChunk(s), NEW kind
  PROVE  /\ Talks(Heard(s, kind, 0), c, IF kind = "userDone" THEN d + 1 ELSE d)
         /\ Listens(Heard(s, kind, 0)) /\ Heard(s, kind, 0).cache = s.cache
         /\ (Heard(s, kind, 0).inUse => s.inUse)
         /\ Active(Heard(s, kind, 0)) => Heard(s, kind, 0).next = s.next
         /\ kind = "ready" => Open(Heard(s, kind, 0))
         /\ Open(s) => Open(Heard(s, kind, 0)) \/ ~Active(Heard(s, kind, 0))
<1>1. s \in Session /\ s.inUse /\ 0 \in 0 .. OldestQuiet BY LimitsTyped DEF Talks, Whole
<1>2. s.pending = 0 /\ (s.suppress \/ c < d \/ d = 0) /\ s.state \in States
  BY <1>1 DEF HasChunk, Talks, Session
<1> DEFINE t == Heard(s, kind, 0)
<1>3. CASE kind = "ready"
  <2>1. t = [s EXCEPT !.ready = TRUE, !.state = "listening"] BY <1>3 DEF Heard
  <2> HIDE DEF t
  <2>2. t \in Session /\ t.state = "listening" BY <1>1, <2>1 DEF Session, States
  <2>3. t.next = s.next /\ t.cache = s.cache /\ t.pending = s.pending BY <1>1, <2>1 DEF Session
  <2>4. (t.inUse <=> s.inUse) /\ (t.suppress <=> s.suppress) BY <1>1, <2>1 DEF Session
  <2>5. Talks(t, c, d) /\ Listens(t) /\ Open(t)
    BY <1>1, <1>2, <2>2, <2>3, <2>4 DEF Talks, Whole, Active, Open, HasChunk, Listens
  <2> QED BY <1>3, <2>3, <2>4, <2>5 DEF t
<1>4. CASE kind = "userDone"
  <2>1. t = [s EXCEPT !.suppress = FALSE, !.quiet = 0] BY <1>4 DEF Heard
  <2> HIDE DEF t
  <2>2. t \in Session /\ t.state = s.state BY <1>1, <2>1 DEF Session
  <2>3. t.next = s.next /\ t.cache = s.cache /\ t.pending = s.pending BY <1>1, <2>1 DEF Session
  <2>4. t.inUse <=> s.inUse BY <1>1, <2>1 DEF Session
  <2>5. Talks(t, c, d + 1) /\ Listens(t)
    BY <1>1, <1>2, <2>2, <2>3, <2>4 DEF Talks, Whole, Active, HasChunk, Listens
  <2> QED BY <1>4, <2>2, <2>3, <2>4, <2>5 DEF t, Open
<1>5. CASE kind = "modelDone"
  <2> DEFINE e == s.done \/ ~s.suppress
  <2>1. t = [s EXCEPT !.done = e, !.quiet = 0] BY <1>5 DEF Heard
  <2> HIDE DEF t
  <2>2. e \in BOOLEAN OBVIOUS
  <2> HIDE DEF e
  <2>3. t \in Session /\ t.state = s.state BY <1>1, <2>1, <2>2 DEF Session
  <2>4. t.next = s.next /\ t.cache = s.cache /\ t.pending = s.pending BY <1>1, <2>1 DEF Session
  <2>5. (t.inUse <=> s.inUse) /\ (t.suppress <=> s.suppress) BY <1>1, <2>1 DEF Session
  <2>6. Talks(t, c, d) /\ Listens(t)
    BY <1>1, <1>2, <2>3, <2>4, <2>5 DEF Talks, Whole, Active, HasChunk, Listens
  <2> QED BY <1>5, <2>3, <2>4, <2>5, <2>6 DEF t, Open
<1>6. CASE kind \in {"closed", "error"}
  <2>1. t = Closed(s, "transport_closed") \/ t = Closed(s, "transport_error")
    BY <1>6 DEF Heard
  <2>2. {"transport_closed", "transport_error"} \subseteq Ends BY DEF Ends
  <2>3. PICK why \in Ends : t = Closed(s, why) BY <2>1, <2>2
  <2> HIDE DEF t
  <2>4. /\ Talks(t, c, d) /\ Listens(t) /\ t.cache = s.cache /\ ~Active(t) /\ ~t.inUse
    BY <2>3, ClosedTalks
  <2> QED BY <1>6, <2>4 DEF t
<1>7. CASE kind \notin {"ready", "userDone", "modelDone", "closed", "error"}
  <2>1. t = s BY <1>7 DEF Heard
  <2> HIDE DEF t
  <2>2. Listens(s) BY <1>2 DEF Listens, HasChunk
  <2> QED BY <1>7, <2>1, <2>2 DEF t
<1> QED BY <1>3, <1>4, <1>5, <1>6, <1>7

(* A delegation.  Of the ids in the cache, none is there twice and all are  *)
(* of the setup; one asked for again is only answered.                      *)
LEMMA DelegatedIs ==
  ASSUME NEW c, NEW d, NEW s, Talks(s, c, d), Active(s), ~HasChunk(s), NEW id \in Ids,
         NEW delivered \in BOOLEAN, NEW ends \in BOOLEAN
  PROVE  /\ Talks(Delegated(s, id, delivered, ends), c, d)
         /\ Listens(Delegated(s, id, delivered, ends))
         /\ (Delegated(s, id, delivered, ends).inUse => s.inUse)
         /\ Delegated(s, id, delivered, ends).cache =
              IF DelegationKnown(s, id) THEN s.cache ELSE Stored(s.cache, id)
         /\ \/ ~Active(Delegated(s, id, delivered, ends))
            \/ /\ Open(Delegated(s, id, delivered, ends))
               /\ Delegated(s, id, delivered, ends).next = s.next
<1>1. s \in Session /\ s.inUse /\ s.pending = 0
  BY LimitsTyped DEF Talks, Whole, Session, HasChunk
<1>2. s.suppress \/ c < d \/ d = 0 BY DEF Talks
<1> DEFINE t == Delegated(s, id, delivered, ends)
<1>3. CASE DelegationKnown(s, id)
  <2>1. CASE delivered
    <3>1. t = [s EXCEPT !.state = "waiting_for_tool"] BY <1>3, <2>1 DEF Delegated
    <3> HIDE DEF t
    <3>2. t \in Session /\ t.state = "waiting_for_tool" /\ t.next = s.next
      BY <1>1, <3>1 DEF Session, States
    <3>3. t.cache = s.cache /\ t.pending = s.pending BY <1>1, <3>1 DEF Session
    <3>4. (t.inUse <=> s.inUse) /\ (t.suppress <=> s.suppress) BY <1>1, <3>1 DEF Session
    <3>5. Talks(t, c, d) /\ Listens(t) /\ Open(t)
      BY <1>1, <1>2, <3>2, <3>3, <3>4 DEF Talks, Whole, Active, Open, HasChunk, Listens
    <3> QED BY <1>1, <1>3, <3>2, <3>3, <3>5 DEF t
  <2>2. CASE ~delivered
    <3>1. t = Closed(s, "transport_error") BY <1>3, <2>2 DEF Delegated
    <3> HIDE DEF t
    <3>2. "transport_error" \in Ends BY DEF Ends
    <3> QED BY <1>3, <3>1, <3>2, ClosedTalks DEF t
  <2> QED BY <2>1, <2>2
<1>4. CASE ~DelegationKnown(s, id)
  <2> DEFINE k == Stored(s.cache, id)
             u == [s EXCEPT !.cache = k]
  <2>1. k \in Caches
    <3>1. s.cache \in Seq(Ids) /\ Len(s.cache) <= CacheMax /\ Len(s.cache) \in Nat
      BY <1>1, CachesAreSeqs, LenProperties DEF Session
    <3>2. CASE Len(s.cache) < CacheMax
      <4>1. k = Append(s.cache, id) BY <3>2 DEF Stored
      <4>2. k \in Seq(Ids) /\ Len(k) = Len(s.cache) + 1 BY <3>1, <4>1, AppendProperties
      <4>3. Len(k) <= CacheMax BY <3>1, <3>2, <4>2, LimitsTyped
      <4> QED BY <4>2, <4>3, CachesAreSeqs
    <3>3. CASE ~(Len(s.cache) < CacheMax)
      <4>1. Len(s.cache) = CacheMax /\ CacheMax > 0
        BY <3>1, <3>3, LimitsTyped DEF SessionAssumption
      <4>2. s.cache # <<>> BY <4>1, EmptySeq
      <4>3. Tail(s.cache) \in Seq(Ids) /\ Len(Tail(s.cache)) = CacheMax - 1
        BY <3>1, <4>1, <4>2, HeadTailProperties
      <4>4. k = Append(Tail(s.cache), id) BY <3>3 DEF Stored
      <4>5. k \in Seq(Ids) /\ Len(k) = Len(Tail(s.cache)) + 1 BY <4>3, <4>4, AppendProperties
      <4>6. Len(k) <= CacheMax BY <4>3, <4>5, LimitsTyped
      <4> QED BY <4>5, <4>6, CachesAreSeqs
    <3> QED BY <3>2, <3>3
  <2>2. \/ t = Closed(u, "transport_error") \/ t = Closed(u, "stopped")
        \/ t = [u EXCEPT !.state = "speaking"]
    BY <1>4 DEF Delegated
  <2> HIDE DEF k, t
  <2>3. u \in Session /\ u.state = s.state /\ u.next = s.next /\ u.cache = k
    BY <1>1, <2>1 DEF Session
  <2>4. u.pending = s.pending /\ u.turn = s.turn /\ (u.inUse <=> s.inUse)
    BY <1>1, <2>1 DEF Session
  <2>5. (u.suppress <=> s.suppress) /\ (u.done <=> s.done) BY <1>1, <2>1 DEF Session
  <2> HIDE DEF u
  <2>6. Talks(u, c, d) BY <1>1, <1>2, <2>3, <2>4, <2>5 DEF Talks, Whole, Active, HasChunk
  <2>7. CASE t = [u EXCEPT !.state = "speaking"]
    <3>1. t \in Session /\ t.state = "speaking" /\ t.next = u.next
      BY <2>3, <2>7 DEF Session, States
    <3>2. t.cache = k /\ t.pending = u.pending BY <2>3, <2>7 DEF Session
    <3>3. (t.inUse <=> u.inUse) /\ (t.suppress <=> u.suppress) BY <2>3, <2>7 DEF Session
    <3>4. Talks(t, c, d) /\ Listens(t) /\ Open(t)
      BY <1>1, <1>2, <2>4, <2>5, <3>1, <3>2, <3>3
      DEF Talks, Whole, Active, Open, HasChunk, Listens
    <3> QED BY <1>1, <1>4, <2>3, <3>1, <3>2, <3>4 DEF t, k
  <2>8. CASE t = Closed(u, "transport_error") \/ t = Closed(u, "stopped")
    <3>1. {"transport_error", "stopped"} \subseteq Ends BY DEF Ends
    <3>2. PICK why \in Ends : t = Closed(u, why) BY <2>8, <3>1
    <3>3. Talks(t, c, d) /\ Listens(t) /\ t.cache = k /\ ~Active(t) /\ ~t.inUse
      BY <2>3, <2>6, <3>2, ClosedTalks
    <3> QED BY <1>4, <3>3 DEF t, k
  <2> QED BY <2>2, <2>7, <2>8
<1> QED BY <1>3, <1>4

(* The audio of the model: queued, handed out, played.                      *)
LEMMA OutputDoneIs ==
  ASSUME NEW c, NEW d, NEW s, Talks(s, c, d), Active(s), ~HasChunk(s)
  PROVE  /\ Talks(OutputDone(s), c, d) /\ Listens(OutputDone(s))
         /\ OutputDone(s).cache = s.cache /\ (OutputDone(s).inUse => s.inUse)
         /\ Open(OutputDone(s)) /\ OutputDone(s).next = s.next
<1>1. s \in Session /\ s.inUse /\ s.pending = 0 /\ 0 \in 0 .. OldestQuiet
  BY LimitsTyped DEF Talks, Whole, Session, HasChunk
<1> DEFINE t == OutputDone(s)
<1>2. t = [s EXCEPT !.done = FALSE, !.quiet = 0, !.state = "listening"] BY DEF OutputDone
<1> HIDE DEF t
<1>3. t \in Session /\ t.state = "listening" BY <1>1, <1>2 DEF Session, States
<1>4. t.next = s.next /\ t.cache = s.cache /\ t.pending = s.pending BY <1>1, <1>2 DEF Session
<1>5. (t.inUse <=> s.inUse) /\ (t.suppress <=> s.suppress) BY <1>1, <1>2 DEF Session
<1>6. Talks(t, c, d) /\ Listens(t) /\ Open(t)
  BY <1>1, <1>3, <1>4, <1>5 DEF Talks, Whole, Active, Open, HasChunk, Listens
<1> QED BY <1>1, <1>4, <1>6 DEF t

LEMMA DeltaIs ==
  ASSUME NEW c \in Nat, NEW d, NEW s, Talks(s, c, d), Active(s),
         NEW k \in Nat, NEW n \in Nat, n > 0, k > c
  PROVE  /\ Talks(Delta(s, k, n), c, d) /\ Delta(s, k, n).cache = s.cache
         /\ Delta(s, k, n).state = s.state /\ Delta(s, k, n).next = s.next
<1>1. s \in Session /\ s.inUse /\ s.pending \in Nat /\ (s.suppress \/ c < d \/ d = 0)
  BY DEF Talks, Whole, Session
<1> DEFINE m == n - 1
           t == Delta(s, k, n)
<1>2. t = [s EXCEPT !.pending = m, !.turn = k] /\ m \in Nat BY DEF Delta
<1> HIDE DEF m, t
<1>3. t \in Session /\ t.turn = k BY <1>1, <1>2 DEF Session
<1>4. t.state = s.state /\ t.next = s.next /\ t.cache = s.cache BY <1>1, <1>2 DEF Session
<1>5. (t.inUse <=> s.inUse) /\ (t.suppress <=> s.suppress) BY <1>1, <1>2 DEF Session
<1>6. Talks(t, c, d)
  BY <1>1, <1>3, <1>4, <1>5 DEF Talks, Whole, Active, HasChunk
<1> QED BY <1>4, <1>6 DEF t

LEMMA NextChunkIs ==
  ASSUME NEW c \in Nat, NEW d, NEW s, Talks(s, c, d), Active(s), HasChunk(s)
  PROVE  /\ Talks(NextChunk(s), c, d) /\ NextChunk(s).cache = s.cache
         /\ NextChunk(s).state = s.state /\ NextChunk(s).next = s.next
<1>1. s \in Session /\ s.inUse /\ s.pending \in Nat /\ (s.suppress \/ c < d \/ d = 0)
  BY DEF Talks, Whole, Session
<1> DEFINE m == s.pending - 1
           t == NextChunk(s)
<1>2. t = [s EXCEPT !.pending = m] /\ m \in Nat BY <1>1 DEF NextChunk, HasChunk
<1> HIDE DEF m, t
<1>3. t \in Session /\ t.turn = s.turn BY <1>1, <1>2 DEF Session
<1>4. t.state = s.state /\ t.next = s.next /\ t.cache = s.cache BY <1>1, <1>2 DEF Session
<1>5. (t.inUse <=> s.inUse) /\ (t.suppress <=> s.suppress) BY <1>1, <1>2 DEF Session
<1>6. Talks(t, c, d)
  BY <1>1, <1>3, <1>4, <1>5 DEF Talks, Whole, Active, HasChunk
<1> QED BY <1>4, <1>6 DEF t

LEMMA SpokenIs ==
  ASSUME NEW c, NEW d, NEW s, Talks(s, c, d), Active(s)
  PROVE  /\ Talks(Spoken(s), c, d) /\ Listens(Spoken(s)) /\ Spoken(s).cache = s.cache
         /\ (Spoken(s).inUse => s.inUse) /\ Open(Spoken(s)) /\ Spoken(s).next = s.next
<1>1. s \in Session /\ s.inUse /\ (s.suppress \/ c < d \/ d = 0)
  BY DEF Talks, Whole
<1> DEFINE t == Spoken(s)
<1>2. t = [s EXCEPT !.state = "speaking", !.playing = TRUE] BY DEF Spoken
<1> HIDE DEF t
<1>3. t \in Session /\ t.state = "speaking" /\ t.turn = s.turn BY <1>1, <1>2 DEF Session, States
<1>4. t.next = s.next /\ t.cache = s.cache /\ t.pending = s.pending BY <1>1, <1>2 DEF Session
<1>5. (t.inUse <=> s.inUse) /\ (t.suppress <=> s.suppress) BY <1>1, <1>2 DEF Session
<1>6. Talks(t, c, d) /\ Listens(t) /\ Open(t)
  BY <1>1, <1>3, <1>4, <1>5 DEF Talks, Whole, Active, Open, HasChunk, Listens
<1> QED BY <1>1, <1>4, <1>6 DEF t

-----------------------------------------------------------------------------
(* What the model has on its way.  S user turns have been heard: an answer  *)
(* belongs to the turn that is last when it is read, and the server is as   *)
(* many turns ahead as are on their way.                                    *)
Message == [kind : Kinds, turn : Nat, n : Nat, id : Ids \union {NoId}]
UserTurns == {m \in Message : m.kind = "userDone"}
Server(turns) == [up : BOOLEAN, readies : 0 .. 2, turn : 0 .. turns, answering : BOOLEAN]

Listed(q, S, ids) ==
  \A i \in 1 .. Len(q) :
     /\ q[i].kind = "delta" =>
          q[i].n > 0 /\ q[i].turn > 0 /\ q[i].turn = S + Cardinality(Marked(q, UserTurns, i))
     /\ q[i].kind = "delegation" => q[i].id \in ids

Underway(q, v, S, ids, turns) ==
  /\ q \in Seq(Message) /\ Len(q) <= NetMax /\ v \in Server(turns)
  /\ v.up => v.turn = S + Cardinality(Marked(q, UserTurns, Len(q)))
  /\ v.answering => v.up /\ v.turn > 0
  /\ Listed(q, S, ids)

LEMMA NothingUnderway ==
  ASSUME NEW S \in Nat, NEW ids, NEW turns \in Nat
  PROVE  Underway(<<>>, NoServer, S, ids, turns)
<1>1. <<>> \in Seq(Message) /\ Len(<<>>) = 0 BY EmptySeq
<1>2. NoServer \in Server(turns) /\ ~NoServer.up /\ ~NoServer.answering
  BY DEF NoServer, Server
<1>3. 0 <= NetMax BY LimitsTyped
<1>4. Listed(<<>>, S, ids) BY <1>1 DEF Listed
<1> QED BY <1>1, <1>2, <1>3, <1>4 DEF Underway

(* The first message is read.                                               *)
LEMMA MessageRead ==
  ASSUME NEW q, NEW v, NEW S \in Nat, NEW ids, NEW turns, Underway(q, v, S, ids, turns),
         q # <<>>
  PROVE  /\ Head(q) \in Message /\ Len(Tail(q)) = Len(q) - 1
         /\ Head(q).kind = "delta" => Head(q).n > 0 /\ Head(q).turn > 0 /\ Head(q).turn = S
         /\ Head(q).kind = "delegation" => Head(q).id \in ids
         /\ Underway(Tail(q), v, IF Head(q).kind = "userDone" THEN S + 1 ELSE S, ids, turns)
<1>1. q \in Seq(Message) /\ Len(q) <= NetMax BY DEF Underway
<1>2. /\ Len(q) \in Nat /\ Len(q) > 0 /\ Head(q) = q[1] /\ Head(q) \in Message
      /\ Tail(q) \in Seq(Message) /\ Len(Tail(q)) = Len(q) - 1
      /\ \A i \in 1 .. Len(Tail(q)) : Tail(q)[i] = q[i + 1]
  BY <1>1, HeadTailProperties, LenProperties, EmptySeq
<1> DEFINE hit == IF Head(q) \in UserTurns THEN 1 ELSE 0
           T == IF Head(q).kind = "userDone" THEN S + 1 ELSE S
<1>3. T = S + hit /\ hit \in Nat BY <1>2 DEF UserTurns
<1>4. \A k \in 0 .. Len(q) - 1 :
         /\ Cardinality(Marked(q, UserTurns, k + 1)) = Cardinality(Marked(Tail(q), UserTurns, k)) + hit
         /\ Cardinality(Marked(Tail(q), UserTurns, k)) \in Nat
  BY <1>1, <1>2, MarkedTail, MarkedFinite
<1> HIDE DEF hit, T
<1>5. Head(q).kind = "delta" => Head(q).n > 0 /\ Head(q).turn > 0 /\ Head(q).turn = S
  <2> SUFFICES ASSUME Head(q).kind = "delta"
               PROVE  Head(q).n > 0 /\ Head(q).turn > 0 /\ Head(q).turn = S
    OBVIOUS
  <2>1. /\ q[1].n > 0 /\ q[1].turn > 0
        /\ q[1].turn = S + Cardinality(Marked(q, UserTurns, 1))
    BY <1>2 DEF Underway, Listed
  <2>2. Marked(q, UserTurns, 1) = {}
    BY <1>2 DEF Marked, UserTurns
  <2>3. Cardinality(Marked(q, UserTurns, 1)) = 0 BY <2>2, FS_EmptySet, Zenon
  <2> QED BY <1>2, <2>1, <2>3
<1>6. Head(q).kind = "delegation" => Head(q).id \in ids
  BY <1>2 DEF Underway, Listed
<1>7. v.up => v.turn = T + Cardinality(Marked(Tail(q), UserTurns, Len(Tail(q))))
  <2> SUFFICES ASSUME v.up
               PROVE  v.turn = T + Cardinality(Marked(Tail(q), UserTurns, Len(Tail(q))))
    OBVIOUS
  <2>1. v.turn = S + Cardinality(Marked(q, UserTurns, Len(q))) BY DEF Underway
  <2>2. /\ Cardinality(Marked(q, UserTurns, (Len(q) - 1) + 1)) =
             Cardinality(Marked(Tail(q), UserTurns, Len(q) - 1)) + hit
        /\ Cardinality(Marked(Tail(q), UserTurns, Len(q) - 1)) \in Nat
    BY <1>2, <1>4
  <2>3. (Len(q) - 1) + 1 = Len(q) BY <1>2
  <2> QED BY <1>2, <1>3, <2>1, <2>2, <2>3
<1>8. Listed(Tail(q), T, ids)
  <2> SUFFICES ASSUME NEW i \in 1 .. Len(Tail(q))
               PROVE  /\ Tail(q)[i].kind = "delta" =>
                           /\ Tail(q)[i].n > 0 /\ Tail(q)[i].turn > 0
                           /\ Tail(q)[i].turn = T + Cardinality(Marked(Tail(q), UserTurns, i))
                      /\ Tail(q)[i].kind = "delegation" => Tail(q)[i].id \in ids
    BY DEF Listed
  <2>1. i + 1 \in 1 .. Len(q) /\ i \in 0 .. Len(q) - 1 /\ Tail(q)[i] = q[i + 1] BY <1>2
  <2>2. /\ q[i + 1].kind = "delta" =>
             /\ q[i + 1].n > 0 /\ q[i + 1].turn > 0
             /\ q[i + 1].turn = S + Cardinality(Marked(q, UserTurns, i + 1))
        /\ q[i + 1].kind = "delegation" => q[i + 1].id \in ids
    BY <2>1 DEF Underway, Listed
  <2>3. Cardinality(Marked(q, UserTurns, i + 1)) = Cardinality(Marked(Tail(q), UserTurns, i)) + hit
        /\ Cardinality(Marked(Tail(q), UserTurns, i)) \in Nat
    BY <1>4, <2>1
  <2>4. S + Cardinality(Marked(q, UserTurns, i + 1))
          = T + Cardinality(Marked(Tail(q), UserTurns, i))
    BY <1>3, <2>3
  <2> QED BY <2>1, <2>2, <2>4
<1>9. Len(Tail(q)) <= NetMax BY <1>1, <1>2, LimitsTyped
<1>10. Underway(Tail(q), v, T, ids, turns) BY <1>2, <1>7, <1>8, <1>9 DEF Underway
<1> QED BY <1>2, <1>5, <1>6, <1>10 DEF T

(* A message is sent.  What the server says of its turns changes with it.   *)
LEMMA MessageSent ==
  ASSUME NEW q, NEW v, NEW S \in Nat, NEW ids, NEW turns, Underway(q, v, S, ids, turns),
         v.up, Len(q) < NetMax, NEW m \in Message, NEW u \in Server(turns),
         u.up => u.turn = IF m.kind = "userDone" THEN v.turn + 1 ELSE v.turn,
         u.answering => u.up /\ u.turn > 0,
         m.kind = "delta" => m.n > 0 /\ m.turn > 0 /\ m.turn = v.turn,
         m.kind = "delegation" => m.id \in ids
  PROVE  Underway(Append(q, m), u, S, ids, turns)
<1>1. q \in Seq(Message) /\ v.turn = S + Cardinality(Marked(q, UserTurns, Len(q)))
  BY DEF Underway
<1>2. /\ Append(q, m) \in Seq(Message) /\ Len(Append(q, m)) = Len(q) + 1 /\ Len(q) \in Nat
      /\ Append(q, m)[Len(q) + 1] = m /\ \A i \in 1 .. Len(q) : Append(q, m)[i] = q[i]
  BY <1>1, AppendProperties, LenProperties
<1>3. Cardinality(Marked(q, UserTurns, Len(q))) \in Nat BY <1>2, MarkedFinite
<1>4. (m \in UserTurns) <=> m.kind = "userDone" BY DEF UserTurns
<1>5. /\ \A k \in 0 .. Len(q) : Marked(Append(q, m), UserTurns, k) = Marked(q, UserTurns, k)
      /\ Cardinality(Marked(Append(q, m), UserTurns, Len(q) + 1)) =
           Cardinality(Marked(q, UserTurns, Len(q))) + (IF m \in UserTurns THEN 1 ELSE 0)
  BY ONLY <1>1, m \in Message, MarkedAppend, Zenon
<1>6. v.turn \in Nat BY <1>1, <1>3
<1>7. S + Cardinality(Marked(Append(q, m), UserTurns, Len(q) + 1)) =
        IF m.kind = "userDone" THEN v.turn + 1 ELSE v.turn
  BY <1>1, <1>3, <1>4, <1>5
<1>8. Listed(Append(q, m), S, ids)
  <2> DEFINE a == Append(q, m)
  <2> SUFFICES ASSUME NEW i \in 1 .. Len(q) + 1
               PROVE  /\ a[i].kind = "delta" =>
                           /\ a[i].n > 0 /\ a[i].turn > 0
                           /\ a[i].turn = S + Cardinality(Marked(a, UserTurns, i))
                      /\ a[i].kind = "delegation" => a[i].id \in ids
    BY <1>2 DEF Listed
  <2>1. CASE i = Len(q) + 1
    <3>1. a[i] = m BY <1>2, <2>1
    <3>2. m.kind = "delta" => m.turn = S + Cardinality(Marked(a, UserTurns, i))
      BY <1>7, <2>1
    <3> QED BY <3>1, <3>2
  <2>2. CASE i # Len(q) + 1
    <3>1. i \in 1 .. Len(q) /\ i \in 0 .. Len(q) BY <1>2, <2>2
    <3>2. a[i] = q[i] BY <1>2, <3>1
    <3>3. Cardinality(Marked(a, UserTurns, i)) = Cardinality(Marked(q, UserTurns, i))
      BY <1>5, <3>1, Zenon
    <3>4. /\ q[i].kind = "delta" =>
               /\ q[i].n > 0 /\ q[i].turn > 0
               /\ q[i].turn = S + Cardinality(Marked(q, UserTurns, i))
          /\ q[i].kind = "delegation" => q[i].id \in ids
      BY <3>1 DEF Underway, Listed
    <3> HIDE DEF a
    <3> QED BY <3>2, <3>3, <3>4
  <2> QED BY <2>1, <2>2
<1>9. Len(Append(q, m)) <= NetMax BY <1>2, LimitsTyped
<1>10. u.up => u.turn = S + Cardinality(Marked(Append(q, m), UserTurns, Len(Append(q, m))))
  BY <1>2, <1>7
<1> QED BY <1>2, <1>8, <1>9, <1>10 DEF Underway

(* The delegations answered.  As long as the cache can hold the ids in use, *)
(* it holds each that was run, once.                                        *)
Caching(c, rg, ids) ==
  /\ \A i \in 1 .. Len(c) : c[i] \in ids
  /\ Cardinality(ids) <= CacheMax =>
       /\ \A i, j \in 1 .. Len(c) : c[i] = c[j] => i = j
       /\ \A x \in Ids : rg[x] = 0 \/ (rg[x] = 1 /\ \E i \in 1 .. Len(c) : c[i] = x)

LEMMA NothingCached ==
  ASSUME NEW ids PROVE Caching(<<>>, [i \in Ids |-> 0], ids)
<1>1. Len(<<>>) = 0 BY EmptySeq
<1> QED BY <1>1 DEF Caching

LEMMA DelegationCached ==
  ASSUME NEW c \in Caches, NEW ids \in SUBSET Ids, NEW rg \in [Ids -> 0 .. 2],
         Caching(c, rg, ids), NEW x \in ids, ~\E i \in 1 .. Len(c) : c[i] = x
  PROVE  Caching(Stored(c, x), [rg EXCEPT ![x] = IF @ < 2 THEN @ + 1 ELSE @], ids)
<1> DEFINE k == Stored(c, x)
           n == [rg EXCEPT ![x] = IF @ < 2 THEN @ + 1 ELSE @]
<1>1. /\ c \in Seq(Ids) /\ Len(c) <= CacheMax /\ Len(c) \in Nat /\ x \in Ids
      /\ \A i \in 1 .. Len(c) : c[i] \in ids
  BY CachesAreSeqs, LenProperties DEF Caching
<1>2. \A i \in 1 .. Len(k) : k[i] \in ids
  <2>1. CASE Len(c) < CacheMax
    <3>1. k = Append(c, x) BY <2>1 DEF Stored
    <3> HIDE DEF k
    <3>2. Len(k) = Len(c) + 1 /\ k[Len(c) + 1] = x /\ \A i \in 1 .. Len(c) : k[i] = c[i]
      BY <1>1, <3>1, AppendProperties
    <3>3. \A i \in 1 .. Len(k) : i = Len(c) + 1 \/ i \in 1 .. Len(c) BY <1>1, <3>2
    <3> QED BY <1>1, <3>2, <3>3
  <2>2. CASE ~(Len(c) < CacheMax)
    <3>1. Len(c) = CacheMax /\ CacheMax > 0 BY <1>1, <2>2, LimitsTyped DEF SessionAssumption
    <3>2. c # <<>> BY <3>1, EmptySeq
    <3>3. /\ Tail(c) \in Seq(Ids) /\ Len(Tail(c)) = CacheMax - 1
          /\ \A i \in 1 .. CacheMax - 1 : Tail(c)[i] = c[i + 1]
      BY <1>1, <3>1, <3>2, HeadTailProperties
    <3>4. k = Append(Tail(c), x) BY <2>2 DEF Stored
    <3> HIDE DEF k
    <3>5. /\ Len(k) = CacheMax /\ k[CacheMax] = x
          /\ \A i \in 1 .. CacheMax - 1 : k[i] = Tail(c)[i]
      BY <1>1, <3>3, <3>4, AppendProperties, LimitsTyped
    <3>6. \A i \in 1 .. Len(k) : i = CacheMax \/ (i \in 1 .. CacheMax - 1 /\ i + 1 \in 1 .. Len(c))
      BY <3>1, <3>5, LimitsTyped
    <3> QED BY <1>1, <3>3, <3>5, <3>6
  <2> QED BY <2>1, <2>2
<1>3. ASSUME Cardinality(ids) <= CacheMax
      PROVE  /\ \A i, j \in 1 .. Len(k) : k[i] = k[j] => i = j
             /\ \A y \in Ids : n[y] = 0 \/ (n[y] = 1 /\ \E i \in 1 .. Len(k) : k[i] = y)
  <2>1. /\ \A i, j \in 1 .. Len(c) : c[i] = c[j] => i = j
        /\ \A y \in Ids : rg[y] = 0 \/ (rg[y] = 1 /\ \E i \in 1 .. Len(c) : c[i] = y)
    BY <1>3 DEF Caching
  <2>2. Len(c) < CacheMax
    <3> DEFINE J == ids \ {x}
               L == 1 .. Len(c)
    <3>1. IsFiniteSet(ids) BY LimitsTyped, FS_Subset
    <3>2. IsFiniteSet(J) /\ Cardinality(J) = Cardinality(ids) - 1 /\ Cardinality(ids) \in Nat
      BY <3>1, FS_RemoveElement, FS_CardinalityType
    <3>3. c \in [L -> J] BY <1>1, LenProperties
    <3>4. c \in Injection(L, J)
      <4>1. \A a, hit \in L : c[a] = c[hit] => a = hit BY <2>1
      <4> HIDE DEF L, J
      <4> QED BY <3>3, <4>1, Fun_IsInj
    <3>5. Cardinality(L) <= Cardinality(J)
      <4> HIDE DEF L, J
      <4> QED BY <3>2, <3>4, FS_Injection
    <3>6. Cardinality(L) = Len(c)
      <4>1. 1 \in Int /\ Len(c) \in Int BY <1>1
      <4>2. Cardinality(1 .. Len(c)) = IF 1 > Len(c) THEN 0 ELSE Len(c) - 1 + 1
        BY ONLY <4>1, FS_Interval, Zenon
      <4> QED BY <1>1, <4>2
    <3> QED BY <1>1, <1>3, <3>2, <3>5, <3>6, LimitsTyped
  <2>3. k = Append(c, x) BY <2>2 DEF Stored
  <2>4. n[x] = rg[x] + 1 /\ \A y \in Ids \ {x} : n[y] = rg[y]
    BY <1>1, <2>1
  <2> HIDE DEF k, n
  <2>5. Len(k) = Len(c) + 1 /\ k[Len(c) + 1] = x /\ \A i \in 1 .. Len(c) : k[i] = c[i]
    BY <1>1, <2>3, AppendProperties
  <2>6. \A i \in 1 .. Len(k) : i = Len(c) + 1 \/ i \in 1 .. Len(c) BY <1>1, <2>5
  <2>7. \A i, j \in 1 .. Len(k) : k[i] = k[j] => i = j BY <2>1, <2>5, <2>6
  <2>8. rg[x] = 0 BY <1>1, <2>1
  <2>9. \A y \in Ids : n[y] = 0 \/ (n[y] = 1 /\ \E i \in 1 .. Len(k) : k[i] = y)
    <3> SUFFICES ASSUME NEW y \in Ids
                 PROVE  n[y] = 0 \/ (n[y] = 1 /\ \E i \in 1 .. Len(k) : k[i] = y)
      OBVIOUS
    <3>1. CASE y = x BY <1>1, <2>4, <2>5, <2>8, <3>1
    <3>2. CASE y # x
      <4>1. n[y] = rg[y] BY <2>4, <3>2
      <4>2. CASE rg[y] = 0 BY <4>1, <4>2
      <4>3. CASE rg[y] = 1
        <5>1. PICK i \in 1 .. Len(c) : c[i] = y BY <2>1, <4>3
        <5>2. i \in 1 .. Len(k) /\ k[i] = y BY <1>1, <2>5, <5>1
        <5> QED BY <4>1, <4>3, <5>2
      <4> QED BY <2>1, <4>2, <4>3
    <3> QED BY <3>1, <3>2
  <2> QED BY <2>7, <2>9
<1> QED BY <1>2, <1>3 DEF Caching

-----------------------------------------------------------------------------
(* The inductive invariant of the session.                                  *)
Phases == {"top", "wake", "starting", "audio", "control", "pump", "writing", "wait"}
BlockRec == [time : Nat, back : {"wake", "pump"}, turn : Nat]
Socket(n) == [first : Nat, len : 0 .. n]
Types ==
  /\ phase \in Phases /\ polled \in BOOLEAN /\ block \in BlockRec /\ enabled \in BOOLEAN
  /\ subs \in {"on", "off", "audio_closed", "closed"} /\ retry \in 0 .. RetryAfter
  /\ ring \in Ring /\ audioQ \in Socket(setup.socket)
  /\ wakeQ \in Seq(Nat) /\ Len(wakeQ) <= 1 /\ cap \in 0 .. setup.frames
  /\ said \in Nat /\ cut \in Nat /\ ran \in [Ids -> 0 .. 2]
  /\ setup \in Setups

(* Where the daemon is says how far the session is: a call to ws_start has  *)
(* a session that connects and has nothing yet, a write to the playback bus *)
(* carries audio of a turn that was not interrupted.                        *)
Placed ==
  /\ phase = "starting" => /\ sess.state = "connecting" /\ said = 0 /\ cut = 0
                           /\ sess.pending = 0 /\ ~sess.done /\ ~sess.playing
                           /\ net = <<>> /\ ~srv.up
  /\ phase = "writing" => block.turn > cut /\ Active(sess)
  /\ phase # "writing" => Listens(sess)
  /\ ~sess.inUse => net = <<>> /\ ~srv.up
  /\ ~enabled => ring = EmptyRing /\ ~Active(sess)

SessionInv ==
  /\ Types /\ Placed
  /\ cut <= said /\ Talks(sess, cut, said)
  /\ Underway(net, srv, said, setup.ids, setup.turns)
  /\ Caching(sess.cache, ran, setup.ids)

LEMMA SetupTyped ==
  ASSUME setup \in Setups
  PROVE  /\ setup.ids \in SUBSET Ids /\ setup.turns \in Nat /\ setup.frames \in Nat
         /\ setup.socket \in Nat /\ setup.socket > 0 /\ setup.connect \in Nat
         /\ setup.prompt \in BOOLEAN
BY DEF LivedAssumption, Setup

LEMMA SessionInit == ASSUME Init PROVE SessionInv
<1> USE DEF Init
<1>1. Types
  <2>1. wakeQ \in Seq(Nat) /\ Len(wakeQ) <= 1 BY EmptySeq
  <2>2. audioQ \in Socket(setup.socket) /\ cap \in 0 .. setup.frames
    BY SetupTyped DEF Socket
  <2>3. ring \in Ring BY LimitsTyped DEF EmptyRing, Ring
  <2>4. block \in BlockRec BY DEF NoBlock, BlockRec
  <2>5. ran \in [Ids -> 0 .. 2] OBVIOUS
  <2>6. retry \in 0 .. RetryAfter BY LimitsTyped
  <2> QED BY <2>1, <2>2, <2>3, <2>4, <2>5, <2>6 DEF Types, Phases
<1>2. IdleSession \in Session /\ ~Active(IdleSession) /\ ~IdleSession.inUse
      /\ IdleSession.pending = 0 /\ IdleSession.cache = <<>>
      /\ ~IdleSession.done /\ ~IdleSession.playing
  <2>1. 0 \in 0 .. OldestAge /\ 0 \in 0 .. OldestQuiet /\ 0 \in 0 .. BargeFrames
    BY LimitsTyped
  <2> QED BY <2>1, NoCache DEF IdleSession, Session, Active, States, Ends
<1>3. Talks(sess, cut, said) BY <1>2 DEF Talks, Whole, HasChunk
<1>4. Placed BY <1>2 DEF Placed, Listens, HasChunk, NoServer
<1>5. Underway(net, srv, said, setup.ids, setup.turns) BY SetupTyped, NothingUnderway
<1>6. Caching(sess.cache, ran, setup.ids) BY <1>2, NothingCached
<1> QED BY <1>1, <1>3, <1>4, <1>5, <1>6 DEF SessionInv

(* The sockets after waked closed them.                                     *)
LEMMA LostIs ==
  ASSUME SessionInv, UNCHANGED setup, SubscriptionLost
  PROVE  /\ Talks(sess, cut, said)' \/ ~UNCHANGED <<cut, said>>
         /\ sess'.cache = sess.cache /\ ~Active(sess') /\ ~sess'.inUse /\ Listens(sess')
         /\ net' = <<>> /\ srv' = NoServer
         /\ subs' = "off" /\ retry' \in 0 .. RetryAfter
         /\ audioQ' \in Socket(setup.socket) /\ wakeQ' = <<>>
<1>1. "transport_error" \in Ends /\ Talks(sess, cut, said) BY DEF Ends, SessionInv
<1>2. sess' = Closed(sess, "transport_error") BY DEF SubscriptionLost
<1>3. Talks(sess', cut, said) /\ Listens(sess') /\ sess'.cache = sess.cache /\ ~Active(sess')
      /\ ~sess'.inUse
  BY <1>1, <1>2, ClosedTalks
<1>4. net' = <<>> /\ srv' = NoServer BY <1>3 DEF SubscriptionLost, ModelFollows, Disconnected
<1>5. audioQ' \in Socket(setup.socket)
  <2>1. 0 \in 0 .. setup.socket /\ audioQ \in Socket(setup.socket) /\ setup' = setup
    BY SetupTyped DEF SessionInv, Types
  <2>2. audioQ' = [audioQ EXCEPT !.len = 0] BY DEF SubscriptionLost
  <2> QED BY <2>1, <2>2 DEF Socket
<1>6. subs' = "off" /\ retry' \in 0 .. RetryAfter /\ wakeQ' = <<>>
  BY LimitsTyped DEF SubscriptionLost
<1> QED BY <1>3, <1>4, <1>5, <1>6

(* The connection after a step of the session: gone with the transport, or  *)
(* as it was.                                                               *)
LEMMA FollowsIs ==
  ASSUME SessionInv, UNCHANGED setup, ModelFollows(sess'), sess'.inUse => sess.inUse,
         said' = said
  PROVE  /\ Underway(net, srv, said, setup.ids, setup.turns)'
         /\ (~sess'.inUse => net' = <<>> /\ ~srv'.up)
<1>1. CASE sess'.inUse
  BY <1>1 DEF ModelFollows, modelVars, SessionInv
<1>2. CASE ~sess'.inUse
  <2>1. net' = <<>> /\ srv' = NoServer BY <1>2 DEF ModelFollows, Disconnected
  <2>2. ~NoServer.up BY DEF NoServer
  <2> QED BY <2>1, <2>2, SetupTyped, NothingUnderway DEF SessionInv, Types
<1> QED BY <1>1, <1>2

(* A pass begins; time passes; waked and the model act.                     *)
LEMMA BeginPassKeeps == ASSUME SessionInv, BeginPass, UNCHANGED setup PROVE SessionInv'
<1>1. /\ phase \in {"top", "wait"} /\ phase' = "wake" /\ Reconnects
      /\ polled' = (audioQ.len > 0 \/ subs \in {"audio_closed", "closed"})
      /\ UNCHANGED <<block, enabled, sess, ring, audioQ, wakeQ, cap, net, srv, said, cut, ran>>
  BY DEF BeginPass, wakedVars, modelVars, hist
<1>2. subs' \in {"on", "off", "audio_closed", "closed"} /\ retry' \in 0 .. RetryAfter
  BY <1>1, LimitsTyped DEF Reconnects, SessionInv, Types
<1>3. polled' \in BOOLEAN BY <1>1
<1>4. Types' BY <1>1, <1>2, <1>3 DEF SessionInv, Types, Phases
<1>5. Placed' BY <1>1 DEF SessionInv, Placed
<1> QED BY <1>1, <1>4, <1>5 DEF SessionInv

LEMMA TickKeeps == ASSUME SessionInv, Tick, UNCHANGED setup PROVE SessionInv'
<1>1. /\ sess' = Aged(sess) /\ Captured /\ retry' = (IF retry > 0 THEN retry - 1 ELSE 0)
      /\ UNCHANGED <<polled, enabled, ring, wakeQ, net, srv, said, cut, ran>>
  BY DEF Tick, modelVars, hist
<1>2. Types /\ Placed /\ Talks(sess, cut, said) BY DEF SessionInv
<1>3. sess' \in Session /\ Alike(sess, sess') BY <1>1, <1>2, AgedIs DEF Talks
<1>4. Talks(sess, cut, said)' /\ (Listens(sess) => Listens(sess'))
  BY <1>1, <1>2, <1>3, AlikeTalks
<1>5. /\ block' \in BlockRec /\ block'.turn = block.turn
      /\ phase' \in Phases
      /\ \/ phase = "wait" /\ phase' = "top"
         \/ phase \in {"starting", "writing"} /\ phase' = phase
  <2>1. CASE phase = "wait" /\ phase' = "top" /\ UNCHANGED block
    BY <1>2, <2>1 DEF Types, Phases
  <2>2. CASE /\ phase \in {"starting", "writing"} /\ UNCHANGED phase
             /\ block' = [block EXCEPT !.time = @ + 1]
    <3> DEFINE n == block.time + 1
    <3>1. block \in BlockRec /\ n \in Nat BY <1>2 DEF Types, BlockRec
    <3>2. block' = [block EXCEPT !.time = n] BY <2>2
    <3> HIDE DEF n
    <3> QED BY <1>2, <2>2, <3>1, <3>2 DEF Types, BlockRec
  <2> QED BY <2>1, <2>2 DEF Tick
<1>6. retry' \in 0 .. RetryAfter BY <1>1, <1>2, LimitsTyped DEF Types
<1>7. /\ cap' \in 0 .. setup.frames /\ audioQ' \in Socket(setup.socket)
      /\ subs' \in {"on", "off", "audio_closed", "closed"}
  <2>1. CASE cap = setup.frames
    BY <1>1, <1>2, <2>1 DEF Captured, Types
  <2>2. CASE cap # setup.frames
    <3>1. cap + 1 \in 0 .. setup.frames /\ cap \in Nat
      BY <1>2, <2>2, SetupTyped DEF Types
    <3>2. audioQ \in Socket(setup.socket) BY <1>2 DEF Types
    <3>3. \/ audioQ' = audioQ
          \/ audioQ' = [first |-> cap, len |-> 1]
          \/ audioQ.len # setup.socket /\ audioQ' = [audioQ EXCEPT !.len = audioQ.len + 1]
      <4>1. CASE subs # "on" BY <1>1, <2>2, <4>1 DEF Captured
      <4>2. CASE subs = "on" /\ audioQ.len = 0 BY <1>1, <2>2, <4>2 DEF Captured
      <4>3. CASE subs = "on" /\ audioQ.len # 0 /\ audioQ.len = setup.socket
        BY <1>1, <2>2, <4>3 DEF Captured
      <4>4. CASE subs = "on" /\ audioQ.len # 0 /\ audioQ.len # setup.socket
        BY <1>1, <2>2, <4>4 DEF Captured
      <4> QED BY <4>1, <4>2, <4>3, <4>4
    <3>4. audioQ' \in Socket(setup.socket)
      <4>1. CASE audioQ' = audioQ BY <3>2, <4>1
      <4>2. CASE audioQ' = [first |-> cap, len |-> 1]
        <5>1. 1 \in 0 .. setup.socket BY <1>2, SetupTyped DEF Types
        <5> QED BY <3>1, <4>2, <5>1 DEF Socket
      <4>3. CASE audioQ.len # setup.socket /\ audioQ' = [audioQ EXCEPT !.len = audioQ.len + 1]
        <5>1. audioQ.len + 1 \in 0 .. setup.socket
          <6>1. setup.socket \in Nat BY <1>2, SetupTyped DEF Types
          <6>2. audioQ.len \in 0 .. setup.socket BY <3>2 DEF Socket
          <6> QED BY <4>3, <6>1, <6>2
        <5> QED BY <3>2, <4>3, <5>1 DEF Socket
      <4> QED BY <3>3, <4>1, <4>2, <4>3
    <3> QED BY <1>1, <1>2, <2>2, <3>1, <3>4 DEF Captured, Types
  <2> QED BY <2>1, <2>2
<1>8. Types' BY <1>1, <1>2, <1>5, <1>6, <1>7 DEF Types
<1>9. Placed'
  <2>1. /\ sess'.state = sess.state /\ sess'.pending = sess.pending
        /\ (sess'.done <=> sess.done) /\ (sess'.playing <=> sess.playing)
        /\ (sess'.inUse <=> sess.inUse) /\ (Active(sess') <=> Active(sess))
    BY <1>3 DEF Alike, Active
  <2> QED BY <1>1, <1>2, <1>4, <1>5, <2>1 DEF Placed
<1>10. sess'.cache = sess.cache BY <1>3 DEF Alike
<1> QED BY <1>1, <1>4, <1>8, <1>9, <1>10 DEF SessionInv

LEMMA WakedKeeps ==
  ASSUME SessionInv, WakeDetected \/ WakedRestarts, UNCHANGED setup PROVE SessionInv'
<1>1. CASE WakeDetected
  <2>1. /\ \E d \in {cap, cap - 1} : d > 0 /\ wakeQ' = <<d>>
        /\ UNCHANGED <<phase, polled, block, enabled, subs, retry, sess, ring, audioQ, cap,
                       net, srv, said, cut, ran>>
    BY <1>1 DEF WakeDetected, modelVars, hist
  <2>2. cap \in Nat BY SetupTyped DEF SessionInv, Types
  <2>3. PICK d \in {cap, cap - 1} : d > 0 /\ wakeQ' = <<d>> BY <2>1
  <2>4. d \in Nat BY <2>2, <2>3
  <2>5. wakeQ' \in Seq(Nat) /\ Len(wakeQ') <= 1 BY <2>3, <2>4
  <2>6. Types' BY <2>1, <2>5 DEF SessionInv, Types
  <2> QED BY <2>1, <2>6 DEF SessionInv, Placed
<1>2. CASE WakedRestarts
  <2>1. /\ subs' = "closed" /\ cap' = 0
        /\ UNCHANGED <<phase, polled, block, enabled, retry, sess, ring, audioQ, wakeQ,
                       net, srv, said, cut, ran>>
    BY <1>2 DEF WakedRestarts, modelVars, hist
  <2>2. Types' BY <2>1, SetupTyped DEF SessionInv, Types
  <2> QED BY <2>1, <2>2 DEF SessionInv, Placed
<1> QED BY <1>1, <1>2

(* A wake word, from waked or from the control socket.                      *)
LEMMA StartSessionIs ==
  ASSUME SessionInv, NEW d \in Nat, NEW back \in {"wake", "pump"}, phase # "writing",
         StartSession(d, back), UNCHANGED setup
  PROVE  /\ block' \in BlockRec /\ phase' \in {back, "starting"}
         /\ said' \in Nat /\ cut' \in Nat /\ ran' \in [Ids -> 0 .. 2]
         /\ cut' <= said' /\ Talks(sess, cut, said)'
         /\ Underway(net, srv, said, setup.ids, setup.turns)'
         /\ Caching(sess.cache, ran, setup.ids)'
         /\ (~sess'.inUse => net' = <<>> /\ ~srv'.up)
         /\ Listens(sess') /\ (~enabled => ~Active(sess'))
         /\ phase' = "starting" =>
              /\ sess'.state = "connecting" /\ said' = 0 /\ cut' = 0 /\ sess'.pending = 0
              /\ ~sess'.done /\ ~sess'.playing /\ net' = <<>> /\ ~srv'.up
<1> USE DEF SessionInv, Types, Placed
<1>1. CASE ~enabled \/ Active(sess) \/ WakeRefused(ring, d) \/ sess.inUse
  <2>1. phase' = back /\ UNCHANGED <<sess, block, net, srv, said, cut, ran>>
    BY <1>1 DEF StartSession, modelVars, hist
  <2> QED BY <2>1
<1>2. CASE ~(~enabled \/ Active(sess) \/ WakeRefused(ring, d) \/ sess.inUse)
  <2> DEFINE t == Started(Woken(sess, ring, d))
  <2>1. /\ sess' = t /\ phase' = "starting" /\ block' = [NoBlock EXCEPT !.back = back]
        /\ net' = <<>> /\ srv' = NoServer
        /\ said' = 0 /\ cut' = 0 /\ ran' = [i \in Ids |-> 0]
    BY <1>2 DEF StartSession, Disconnected
  <2>2. sess \in Session /\ Whole(sess) /\ ring \in Ring BY DEF Talks
  <2>3. /\ Talks(t, 0, 0) /\ t.state = "connecting" /\ t.cache = <<>> /\ t.pending = 0
        /\ ~t.done /\ ~t.playing /\ t.inUse
    BY <1>2, <2>2, StartedIs
  <2> HIDE DEF t
  <2>4. block' \in BlockRec BY <2>1 DEF NoBlock, BlockRec
  <2>5. Talks(sess, cut, said)' BY <2>1, <2>3
  <2>6. Underway(net, srv, said, setup.ids, setup.turns)'
    BY <2>1, SetupTyped, NothingUnderway
  <2>7. Caching(sess.cache, ran, setup.ids)' BY <2>1, <2>3, NothingCached
  <2>8. Listens(sess') BY <2>1, <2>3 DEF Listens, HasChunk
  <2>9. ran' \in [Ids -> 0 .. 2] BY <2>1
  <2>10. ~srv'.up BY <2>1 DEF NoServer
  <2> QED BY <1>2, <2>1, <2>3, <2>4, <2>5, <2>6, <2>7, <2>8, <2>9, <2>10
<1> QED BY <1>1, <1>2

LEMMA DrainWakeKeeps == ASSUME SessionInv, DrainWake, UNCHANGED setup PROVE SessionInv'
<1>1. phase = "wake" /\ UNCHANGED <<polled, enabled, ring, cap>> BY DEF DrainWake
<1>2. Types /\ Placed BY DEF SessionInv
<1>3. CASE /\ wakeQ # <<>> /\ wakeQ' = Tail(wakeQ)
           /\ StartSession(Head(wakeQ), "wake") /\ UNCHANGED <<subs, retry, audioQ>>
  <2>1. wakeQ \in Seq(Nat) /\ Len(wakeQ) <= 1 BY <1>2 DEF Types
  <2>2. Head(wakeQ) \in Nat /\ Tail(wakeQ) \in Seq(Nat) /\ Len(Tail(wakeQ)) <= 1
    BY <1>3, <2>1, HeadTailProperties, LenProperties
  <2>3. /\ block' \in BlockRec /\ phase' \in {"wake", "starting"}
        /\ said' \in Nat /\ cut' \in Nat /\ ran' \in [Ids -> 0 .. 2]
        /\ cut' <= said' /\ Talks(sess, cut, said)'
        /\ Underway(net, srv, said, setup.ids, setup.turns)'
        /\ Caching(sess.cache, ran, setup.ids)'
        /\ (~sess'.inUse => net' = <<>> /\ ~srv'.up)
        /\ Listens(sess') /\ (~enabled => ~Active(sess'))
        /\ phase' = "starting" =>
             /\ sess'.state = "connecting" /\ said' = 0 /\ cut' = 0 /\ sess'.pending = 0
             /\ ~sess'.done /\ ~sess'.playing /\ net' = <<>> /\ ~srv'.up
    BY <1>1, <1>3, <2>2, StartSessionIs
  <2>4. Types' BY <1>1, <1>2, <1>3, <2>2, <2>3 DEF Types, Phases
  <2>5. Placed' BY <1>1, <1>2, <2>3 DEF Placed
  <2> QED BY <2>3, <2>4, <2>5 DEF SessionInv
<1>4. CASE /\ wakeQ = <<>> /\ phase' = "audio" /\ UNCHANGED <<block, hist>>
           /\ subs = "closed" /\ SubscriptionLost
  <2>1. UNCHANGED <<block, said, cut, ran>> BY <1>4 DEF hist
  <2>2. /\ Talks(sess, cut, said)' /\ sess'.cache = sess.cache /\ ~Active(sess')
        /\ ~sess'.inUse /\ Listens(sess')
        /\ net' = <<>> /\ srv' = NoServer /\ subs' = "off" /\ retry' \in 0 .. RetryAfter
        /\ audioQ' \in Socket(setup.socket) /\ wakeQ' = <<>>
    BY <1>4, <2>1, LostIs
  <2>3. Underway(net, srv, said, setup.ids, setup.turns)'
    BY <1>2, <2>1, <2>2, SetupTyped, NothingUnderway DEF Types
  <2>4. wakeQ' \in Seq(Nat) /\ Len(wakeQ') <= 1 BY <2>2, EmptySeq
  <2>5. Types' BY <1>1, <1>2, <1>4, <2>1, <2>2, <2>4 DEF Types, Phases
  <2>6. ~srv'.up BY <2>2 DEF NoServer
  <2>7. Placed' BY <1>1, <1>2, <1>4, <2>2, <2>6 DEF Placed
  <2> QED BY <2>1, <2>2, <2>3, <2>5, <2>7 DEF SessionInv
<1>5. CASE /\ wakeQ = <<>> /\ phase' = "audio" /\ UNCHANGED <<block, hist>>
           /\ UNCHANGED <<sess, subs, retry, audioQ, wakeQ, modelVars>>
  <2>1. UNCHANGED <<block, said, cut, ran, sess, subs, retry, audioQ, wakeQ, net, srv>>
    BY <1>5 DEF hist, modelVars
  <2>2. Types' BY <1>1, <1>2, <1>5, <2>1 DEF Types, Phases
  <2>3. Placed' BY <1>1, <1>2, <1>5, <2>1 DEF Placed
  <2> QED BY <2>1, <2>2, <2>3 DEF SessionInv
<1> QED BY <1>3, <1>4, <1>5 DEF DrainWake

LEMMA StartReturnsKeeps == ASSUME SessionInv, StartReturns, UNCHANGED setup PROVE SessionInv'
<1>1. /\ phase = "starting" /\ phase' = block.back /\ block' = NoBlock
      /\ UNCHANGED <<polled, enabled, subs, retry, ring, audioQ, wakeQ, cap, said, cut, ran>>
  BY DEF StartReturns, wakedVars, hist
<1>2. Types /\ Placed /\ Talks(sess, cut, said) /\ sess \in Session /\ Whole(sess)
  BY DEF SessionInv, Talks
<1>3. PICK ok \in Outcomes("start") :
        /\ sess' = IF ok THEN sess ELSE StartFailed(Torn(sess))
        /\ srv' = IF ok THEN [NoServer EXCEPT !.up = TRUE,
                                 !.readies = IF setup.prompt THEN 1 ELSE 0]
                        ELSE NoServer
        /\ net' = IF ok /\ setup.prompt THEN <<Note("ready")>> ELSE <<>>
  BY DEF StartReturns
<1>4. phase' \in {"wake", "pump"} /\ block' \in BlockRec
  BY <1>1, <1>2 DEF Types, BlockRec, NoBlock
<1>5. Types' BY <1>1, <1>2, <1>4 DEF Types, Phases
<1>6. /\ sess.state = "connecting" /\ said = 0 /\ cut = 0 /\ sess.pending = 0 /\ ~sess.playing
  BY <1>1, <1>2 DEF Placed
<1>7. CASE ok
  <2> DEFINE k == IF setup.prompt THEN 1 ELSE 0
             m == Note("ready")
  <2>1. k \in 0 .. 2 OBVIOUS
  <2>2. srv' = [NoServer EXCEPT !.up = TRUE, !.readies = k] BY <1>3, <1>7
  <2> HIDE DEF k
  <2>3. srv' \in Server(setup.turns) /\ srv'.turn = 0 /\ ~srv'.answering
    <3>1. srv' = [up |-> TRUE, readies |-> k, turn |-> 0, answering |-> FALSE]
      BY <2>2 DEF NoServer
    <3>2. 0 \in 0 .. setup.turns BY <1>2, SetupTyped DEF Types
    <3>3. srv' \in Server(setup.turns) BY <2>1, <3>1, <3>2 DEF Server
    <3> QED BY <3>1, <3>3
  <2>4. m \in Message /\ m.kind = "ready"
    BY DEF Note, Msg, Message, Kinds
  <2> HIDE DEF m
  <2>5. /\ net' \in Seq(Message) /\ Len(net') <= NetMax
        /\ \A i \in 1 .. Len(net') : net'[i].kind = "ready"
    <3>1. CASE setup.prompt
      <4>1. net' = <<m>> BY <1>3, <1>7, <3>1 DEF m
      <4> QED BY <2>4, <4>1, LimitsTyped
    <3>2. CASE ~setup.prompt
      <4>1. net' = <<>> BY <1>3, <3>2
      <4> QED BY <4>1, LimitsTyped
    <3> QED BY <3>1, <3>2
  <2>6. Marked(net', UserTurns, Len(net')) = {}
    BY <2>5 DEF Marked, UserTurns
  <2>7. Cardinality(Marked(net', UserTurns, Len(net'))) = 0 BY <2>6, FS_EmptySet, Zenon
  <2>8. Listed(net', said', setup'.ids) BY <2>5 DEF Listed
  <2>9. Underway(net, srv, said, setup.ids, setup.turns)'
    BY <1>1, <1>6, <2>3, <2>5, <2>7, <2>8 DEF Underway
  <2>10. sess' = sess /\ sess.inUse BY <1>2, <1>3, <1>6, <1>7 DEF Whole, Active
  <2>11. Listens(sess') BY <1>6, <2>10 DEF Listens, HasChunk
  <2>12. Placed' BY <1>1, <1>2, <1>4, <2>10, <2>11 DEF Placed
  <2> QED BY <1>1, <1>5, <2>9, <2>10, <2>12 DEF SessionInv
<1>8. CASE ~ok
  <2>1. sess' = StartFailed(Torn(sess)) /\ srv' = NoServer /\ net' = <<>> BY <1>3, <1>8
  <2>2. Talks(sess', cut, said) /\ Listens(sess') /\ sess'.cache = sess.cache /\ ~Active(sess')
    BY <1>2, <1>6, <2>1, StartFailedIs
  <2>3. ~srv'.up BY <2>1 DEF NoServer
  <2>4. Underway(net, srv, said, setup.ids, setup.turns)'
    BY <1>1, <1>2, <2>1, SetupTyped, NothingUnderway DEF Types
  <2>5. Placed' BY <1>1, <1>2, <1>4, <2>1, <2>2, <2>3 DEF Placed
  <2> QED BY <1>1, <1>5, <2>2, <2>4, <2>5 DEF SessionInv
<1> QED BY <1>7, <1>8

LEMMA FedIs ==
  ASSUME NEW rg \in Ring, NEW i \in Nat
  PROVE  /\ Fed(rg, i) \in Ring /\ Fed(rg, i).count > 0
         /\ RingEnd(Fed(rg, i)) = i + 1
         /\ rg.count > 0 /\ i = RingEnd(rg) =>
              Fed(rg, i).first = IF rg.count = RingMax THEN rg.first + 1 ELSE rg.first
<1>1. rg.first \in Nat /\ rg.count \in Nat /\ rg.count <= RingMax /\ RingMax > 0 /\ RingMax \in Nat
  BY LimitsTyped DEF Ring
<1>2. CASE rg.count = 0 \/ i # RingEnd(rg)
  <2>1. Fed(rg, i) = [first |-> i, count |-> 1] BY <1>2 DEF Fed
  <2> QED BY <1>1, <1>2, <2>1 DEF Ring, RingEnd
<1>3. CASE rg.count # 0 /\ i = RingEnd(rg)
  <2>1. i = rg.first + rg.count BY <1>3 DEF RingEnd
  <2>2. CASE rg.count = RingMax
    <3> DEFINE n == rg.first + 1
    <3>1. Fed(rg, i) = [rg EXCEPT !.first = n] /\ n \in Nat BY <1>1, <1>3, <2>2 DEF Fed
    <3> HIDE DEF n
    <3>2. Fed(rg, i) \in Ring /\ Fed(rg, i).first = n /\ Fed(rg, i).count = rg.count
      BY <3>1 DEF Ring
    <3> QED BY <1>1, <1>3, <2>1, <2>2, <3>2 DEF RingEnd, n
  <2>3. CASE rg.count # RingMax
    <3> DEFINE n == rg.count + 1
    <3>1. Fed(rg, i) = [rg EXCEPT !.count = n] /\ n \in 0 .. RingMax
      BY <1>1, <1>3, <2>3 DEF Fed
    <3> HIDE DEF n
    <3>2. Fed(rg, i) \in Ring /\ Fed(rg, i).first = rg.first /\ Fed(rg, i).count = n
      BY <3>1 DEF Ring
    <3> QED BY <1>1, <1>3, <2>1, <2>3, <3>2 DEF RingEnd, n
  <2> QED BY <2>2, <2>3
<1> QED BY <1>2, <1>3

LEMMA DrainAudioKeeps == ASSUME SessionInv, DrainAudio, UNCHANGED setup PROVE SessionInv'
<1>1. phase = "audio" /\ UNCHANGED <<block, enabled, cap, said, ran>> BY DEF DrainAudio
<1>2. Types /\ Placed /\ Talks(sess, cut, said) /\ cut <= said /\ cut \in Nat /\ said \in Nat
  BY DEF SessionInv, Types
<1>3. Listens(sess) BY <1>1, <1>2 DEF Placed
<1>4. CASE /\ polled /\ audioQ.len > 0
           /\ \E loud \in (IF setup.barge THEN BOOLEAN ELSE {FALSE}) : AudioFrame(loud)
           /\ UNCHANGED <<phase, polled, subs, retry, wakeQ>>
  <2>1. PICK loud \in BOOLEAN : AudioFrame(loud) BY <1>4
  <2>2. audioQ' \in Socket(setup.socket)
    <3>1. audioQ \in Socket(setup.socket) /\ setup.socket \in Nat BY <1>2, SetupTyped DEF Types
    <3>2. audioQ.first + 1 \in Nat /\ audioQ.len - 1 \in 0 .. setup.socket
      BY <1>4, <3>1 DEF Socket
    <3> QED BY <2>1, <3>2 DEF AudioFrame, Socket
  <2>3. CASE ~enabled
    <3>1. UNCHANGED <<ring, sess, cut, net, srv>> BY <2>1, <2>3 DEF AudioFrame, modelVars
    <3>2. Types' BY <1>1, <1>2, <1>4, <2>2, <3>1 DEF Types
    <3>3. Placed' BY <1>1, <1>2, <1>4, <3>1 DEF Placed
    <3> QED BY <1>1, <3>1, <3>2, <3>3 DEF SessionInv
  <2>4. CASE enabled
    <3>1. /\ ring' = Fed(ring, audioQ.first)
          /\ sess' \in FeedResults(sess, ring', loud, May("send"))
          /\ cut' = IF BargeFires(sess, loud) THEN said ELSE cut
          /\ ModelFollows(sess')
      BY <2>1, <2>4 DEF AudioFrame
    <3>2. ring' \in Ring
      <4>1. ring \in Ring /\ audioQ.first \in Nat BY <1>2 DEF Types, Socket
      <4> QED BY <3>1, <4>1, FedIs
    <3>3. /\ Talks(sess', IF BargeFires(sess, loud) THEN said ELSE cut, said) /\ Listens(sess')
          /\ sess'.cache = sess.cache /\ (sess'.inUse => sess.inUse)
      BY <1>2, <1>3, <3>1, <3>2, FeedResultsIs
    <3>4. Talks(sess, cut, said)' BY <1>1, <3>1, <3>3
    <3>5. cut' \in Nat /\ cut' <= said' BY <1>1, <1>2, <3>1
    <3>6. /\ Underway(net, srv, said, setup.ids, setup.turns)'
          /\ (~sess'.inUse => net' = <<>> /\ ~srv'.up)
      BY <1>1, <3>1, <3>3, FollowsIs
    <3>7. Types' BY <1>1, <1>2, <1>4, <2>2, <3>2, <3>5 DEF Types
    <3>8. Placed' BY <1>1, <1>2, <1>4, <2>4, <3>3, <3>6 DEF Placed
    <3> QED BY <1>1, <3>3, <3>4, <3>5, <3>6, <3>7, <3>8 DEF SessionInv
  <2> QED BY <2>3, <2>4
<1>5. CASE /\ phase' = "control" /\ polled' = FALSE /\ UNCHANGED <<ring, cut>>
           /\ SubscriptionLost
  <2>1. /\ Talks(sess, cut, said)' /\ sess'.cache = sess.cache /\ ~Active(sess')
        /\ ~sess'.inUse /\ Listens(sess')
        /\ net' = <<>> /\ srv' = NoServer /\ subs' = "off" /\ retry' \in 0 .. RetryAfter
        /\ audioQ' \in Socket(setup.socket) /\ wakeQ' = <<>>
    BY <1>1, <1>5, LostIs
  <2>2. Underway(net, srv, said, setup.ids, setup.turns)'
    BY <1>1, <1>2, <2>1, SetupTyped, NothingUnderway DEF Types
  <2>3. wakeQ' \in Seq(Nat) /\ Len(wakeQ') <= 1 BY <2>1, EmptySeq
  <2>4. Types' BY <1>1, <1>2, <1>5, <2>1, <2>3 DEF Types, Phases
  <2>5. ~srv'.up BY <2>1 DEF NoServer
  <2>6. Placed' BY <1>1, <1>2, <1>5, <2>1, <2>5 DEF Placed
  <2> QED BY <1>1, <1>2, <1>5, <2>1, <2>2, <2>4, <2>6 DEF SessionInv
<1>6. CASE /\ phase' = "control" /\ polled' = FALSE /\ UNCHANGED <<ring, cut>>
           /\ UNCHANGED <<sess, subs, retry, audioQ, wakeQ, modelVars>>
  <2>1. UNCHANGED <<sess, subs, retry, audioQ, wakeQ, net, srv>> BY <1>6 DEF modelVars
  <2>2. Types' BY <1>1, <1>2, <1>6, <2>1 DEF Types, Phases
  <2>3. Placed' BY <1>1, <1>2, <1>6, <2>1 DEF Placed
  <2> QED BY <1>1, <1>6, <2>1, <2>2, <2>3 DEF SessionInv
<1> QED BY <1>4, <1>5, <1>6 DEF DrainAudio

(* One control request.                                                     *)
LEMMA ControlKeeps == ASSUME SessionInv, Control, UNCHANGED setup PROVE SessionInv'
<1>1. phase = "control" /\ UNCHANGED <<polled, subs, retry, audioQ, wakeQ, cap>>
  BY DEF Control, wakedVars
<1>2. Types /\ Placed /\ Talks(sess, cut, said) /\ cut <= said /\ Listens(sess)
  BY <1>1 DEF SessionInv, Placed
<1>3. "stopped" \in Ends BY DEF Ends
<1>4. CASE NoRequest
  <2>1. phase' = "pump" /\ UNCHANGED <<enabled, sess, block, ring, net, srv, said, cut, ran>>
    BY <1>4 DEF NoRequest, modelVars, hist
  <2>2. Types' BY <1>1, <1>2, <2>1 DEF Types, Phases
  <2>3. Placed' BY <1>1, <1>2, <2>1 DEF Placed
  <2> QED BY <2>1, <2>2, <2>3 DEF SessionInv
<1>5. ASSUME NEW on \in BOOLEAN, SetEnabled(on) PROVE SessionInv'
  <2>1. /\ enabled' = on /\ sess' = (IF on THEN sess ELSE Closed(sess, "stopped"))
        /\ ring' = (IF on THEN ring ELSE EmptyRing) /\ ModelFollows(sess')
        /\ phase' = "pump" /\ UNCHANGED <<block, said, cut, ran>>
    BY <1>5 DEF SetEnabled, hist
  <2>2. /\ Talks(sess', cut, said) /\ Listens(sess') /\ sess'.cache = sess.cache
        /\ (~on => ~Active(sess')) /\ (sess'.inUse => sess.inUse)
    <3>1. CASE on BY <1>2, <2>1, <3>1
    <3>2. CASE ~on
      <4>1. sess' = Closed(sess, "stopped") BY <2>1, <3>2
      <4> QED BY <1>2, <1>3, <4>1, ClosedTalks
    <3> QED BY <3>1, <3>2
  <2>3. ring' \in Ring BY <1>2, <2>1, LimitsTyped DEF Types, EmptyRing, Ring
  <2>4. /\ Underway(net, srv, said, setup.ids, setup.turns)'
        /\ (~sess'.inUse => net' = <<>> /\ ~srv'.up)
    BY <2>1, <2>2, FollowsIs
  <2>5. Types' BY <1>1, <1>2, <2>1, <2>3 DEF Types, Phases
  <2>6. Placed' BY <1>1, <1>2, <2>1, <2>2, <2>4 DEF Placed
  <2> QED BY <1>2, <2>1, <2>2, <2>4, <2>5, <2>6 DEF SessionInv
<1>6. CASE StopSession
  <2>1. /\ sess' = Closed(sess, "stopped") /\ ModelFollows(sess') /\ phase' = "pump"
        /\ UNCHANGED <<enabled, block, ring, said, cut, ran>>
    BY <1>6 DEF StopSession, hist
  <2>2. /\ Talks(sess', cut, said) /\ Listens(sess') /\ sess'.cache = sess.cache
        /\ ~Active(sess') /\ ~sess'.inUse
    BY <1>2, <1>3, <2>1, ClosedTalks
  <2>3. /\ Underway(net, srv, said, setup.ids, setup.turns)'
        /\ (~sess'.inUse => net' = <<>> /\ ~srv'.up)
    BY <2>1, <2>2, FollowsIs
  <2>4. Types' BY <1>1, <1>2, <2>1 DEF Types, Phases
  <2>5. Placed' BY <1>1, <1>2, <2>1, <2>2, <2>3 DEF Placed
  <2> QED BY <1>2, <2>1, <2>2, <2>3, <2>4, <2>5 DEF SessionInv
<1>7. CASE StartSession(RingEnd(ring), "pump") /\ UNCHANGED <<enabled, ring>>
  <2>1. RingEnd(ring) \in Nat BY <1>2, RingEndIs DEF Types
  <2>2. /\ block' \in BlockRec /\ phase' \in {"pump", "starting"}
        /\ said' \in Nat /\ cut' \in Nat /\ ran' \in [Ids -> 0 .. 2]
        /\ cut' <= said' /\ Talks(sess, cut, said)'
        /\ Underway(net, srv, said, setup.ids, setup.turns)'
        /\ Caching(sess.cache, ran, setup.ids)'
        /\ (~sess'.inUse => net' = <<>> /\ ~srv'.up)
        /\ Listens(sess') /\ (~enabled => ~Active(sess'))
        /\ phase' = "starting" =>
             /\ sess'.state = "connecting" /\ said' = 0 /\ cut' = 0 /\ sess'.pending = 0
             /\ ~sess'.done /\ ~sess'.playing /\ net' = <<>> /\ ~srv'.up
    BY <1>1, <1>7, <2>1, StartSessionIs
  <2>3. Types' BY <1>1, <1>2, <1>7, <2>2 DEF Types, Phases
  <2>4. Placed' BY <1>1, <1>2, <1>7, <2>2 DEF Placed
  <2> QED BY <2>2, <2>3, <2>4 DEF SessionInv
<1> QED BY <1>4, <1>5, <1>6, <1>7 DEF Control

(* The session is pumped once.                                              *)
LEMMA PumpedIs ==
  ASSUME SessionInv, UNCHANGED <<setup, ring>>, NEW c, NEW d, NEW s, Talks(s, c, d), Listens(s),
         NEW late, Pumped(s, late)
  PROVE  /\ phase' = "wait" /\ Talks(sess', c, d) /\ Listens(sess')
         /\ sess'.cache = s.cache /\ (sess'.inUse => s.inUse)
<1>1. sess' \in PumpResults(s, ring, late, May("send")) /\ phase' = "wait" BY DEF Pumped
<1>2. ring \in Ring BY DEF SessionInv, Types
<1> QED BY <1>1, <1>2, PumpResultsTalk

LEMMA UnreadIs ==
  ASSUME SessionInv, UNCHANGED setup, Unread, sess'.inUse => sess.inUse, said' = said
  PROVE  /\ Underway(net, srv, said, setup.ids, setup.turns)'
         /\ (~sess'.inUse => net' = <<>> /\ ~srv'.up)
<1>1. ModelFollows(sess') BY DEF Unread, ModelFollows
<1> QED BY <1>1, FollowsIs

LEMMA ReadOneIs ==
  ASSUME SessionInv, UNCHANGED setup, ReadOne, net # <<>>, said' \in Nat,
         said' = IF Head(net).kind = "userDone" THEN said + 1 ELSE said
  PROVE  /\ Underway(net, srv, said, setup.ids, setup.turns)'
         /\ (~sess'.inUse => net' = <<>> /\ ~srv'.up)
<1>1. CASE sess'.inUse
  <2>1. net' = Tail(net) /\ srv' = srv BY <1>1 DEF ReadOne
  <2>2. Underway(Tail(net), srv, IF Head(net).kind = "userDone" THEN said + 1 ELSE said,
                 setup.ids, setup.turns)
    BY MessageRead DEF SessionInv, Types
  <2> QED BY <1>1, <2>1, <2>2
<1>2. CASE ~sess'.inUse
  <2>1. net' = <<>> /\ srv' = NoServer BY <1>2 DEF ReadOne, Disconnected
  <2>2. ~NoServer.up BY DEF NoServer
  <2> QED BY <2>1, <2>2, SetupTyped, NothingUnderway DEF SessionInv, Types
<1> QED BY <1>1, <1>2

(* A write to the playback bus begins.                                      *)
LEMMA BeginWriteIs ==
  ASSUME SessionInv, NEW s, NEW k \in Nat, BeginWrite(s, k)
  PROVE  /\ sess' = s /\ phase' = "writing" /\ block' \in BlockRec /\ block'.turn = k
         /\ block'.time = 0 /\ UNCHANGED <<said, cut, ran>>
<1>1. block' = [time |-> 0, back |-> "wake", turn |-> k] BY DEF BeginWrite, NoBlock
<1>2. "wake" \in {"wake", "pump"} OBVIOUS
<1>3. block' \in BlockRec /\ block'.turn = k /\ block'.time = 0 BY <1>1, <1>2 DEF BlockRec
<1> QED BY <1>3 DEF BeginWrite, hist

LEMMA PumpQuietKeeps ==
  ASSUME SessionInv, phase = "pump", Active(sess), PumpQuiet \/ PumpOutputDone,
         UNCHANGED <<polled, enabled, subs, retry, ring, audioQ, wakeQ, cap, setup>>
  PROVE  SessionInv'
<1>1. Types /\ Placed /\ Talks(sess, cut, said) /\ cut <= said /\ Listens(sess)
  BY DEF SessionInv, Placed
<1>2. Unread /\ UNCHANGED <<block, said, cut, ran>> BY DEF PumpQuiet, PumpOutputDone, hist
<1>3. /\ phase' = "wait" /\ Talks(sess', cut, said) /\ Listens(sess')
      /\ sess'.cache = sess.cache /\ (sess'.inUse => sess.inUse)
  <2>1. CASE PumpQuiet
    <3>1. Pumped(sess, 0) BY <2>1 DEF PumpQuiet
    <3> QED BY <1>1, <3>1, PumpedIs
  <2>2. CASE PumpOutputDone
    <3>1. Pumped(OutputDone(sess), 0) /\ ~HasChunk(sess) BY <2>2 DEF PumpOutputDone, HasDone
    <3>2. /\ Talks(OutputDone(sess), cut, said) /\ Listens(OutputDone(sess))
          /\ OutputDone(sess).cache = sess.cache /\ (OutputDone(sess).inUse => sess.inUse)
      BY <1>1, <3>1, OutputDoneIs
    <3> QED BY <3>1, <3>2, PumpedIs
  <2> QED BY <2>1, <2>2
<1>4. /\ Underway(net, srv, said, setup.ids, setup.turns)'
      /\ (~sess'.inUse => net' = <<>> /\ ~srv'.up)
  BY <1>2, <1>3, UnreadIs
<1>5. Types' BY <1>1, <1>2, <1>3 DEF Types, Phases
<1>6. Placed' BY <1>1, <1>3, <1>4 DEF Placed
<1> QED BY <1>1, <1>2, <1>3, <1>4, <1>5, <1>6 DEF SessionInv

LEMMA PumpChunkKeeps ==
  ASSUME SessionInv, phase = "pump", Active(sess), PumpChunk,
         UNCHANGED <<polled, enabled, subs, retry, ring, audioQ, wakeQ, cap, setup>>
  PROVE  SessionInv'
<1>1. Types /\ Placed /\ Talks(sess, cut, said) /\ cut <= said /\ cut \in Nat
  BY DEF SessionInv, Types
<1>2. HasChunk(sess) /\ BeginWrite(NextChunk(sess), sess.turn) /\ UNCHANGED <<net, srv>>
  BY DEF PumpChunk, modelVars
<1>3. sess.turn \in Nat /\ sess.turn > cut BY <1>1, <1>2 DEF Talks, Session
<1>4. /\ sess' = NextChunk(sess) /\ phase' = "writing" /\ block' \in BlockRec
      /\ block'.turn = sess.turn /\ UNCHANGED <<said, cut, ran>>
  BY <1>2, <1>3, BeginWriteIs
<1>5. /\ Talks(sess', cut, said) /\ sess'.cache = sess.cache /\ sess'.state = sess.state
  BY <1>1, <1>2, <1>4, NextChunkIs
<1>6. Active(sess') /\ sess'.inUse BY <1>5 DEF Active, Talks, Whole
<1>7. Types' BY <1>1, <1>4 DEF Types, Phases
<1>8. Placed' BY <1>1, <1>3, <1>4, <1>6 DEF Placed
<1> QED BY <1>1, <1>2, <1>4, <1>5, <1>7, <1>8 DEF SessionInv

LEMMA PumpMessageKeeps ==
  ASSUME SessionInv, phase = "pump", Active(sess), PumpMessage,
         UNCHANGED <<polled, enabled, subs, retry, ring, audioQ, wakeQ, cap, setup>>
  PROVE  SessionInv'
<1>1. Types /\ Placed /\ Talks(sess, cut, said) /\ cut <= said /\ cut \in Nat /\ said \in Nat
  BY DEF SessionInv, Types
<1> DEFINE m == Head(net)
<1>2. ~HasChunk(sess) /\ net # <<>> BY DEF PumpMessage
<1>3. Underway(net, srv, said, setup.ids, setup.turns) /\ setup.ids \in SUBSET Ids
  BY SetupTyped DEF SessionInv, Types
<1>4. /\ m \in Message
      /\ m.kind = "delta" => m.n > 0 /\ m.turn > 0 /\ m.turn = said
      /\ m.kind = "delegation" => m.id \in setup.ids
  BY <1>1, <1>2, <1>3, MessageRead
<1>5. CASE /\ m.kind = "delta" /\ ~sess.suppress
           /\ BeginWrite(Delta(sess, m.turn, m.n), m.turn)
           /\ net' = Tail(net) /\ UNCHANGED srv
  <2>1. m.turn \in Nat /\ m.n \in Nat /\ m.n > 0 BY <1>4, <1>5 DEF Message
  <2>2. /\ sess' = Delta(sess, m.turn, m.n) /\ phase' = "writing" /\ block' \in BlockRec
        /\ block'.turn = m.turn /\ UNCHANGED <<said, cut, ran>>
    BY <1>5, <2>1, BeginWriteIs
  <2>3. m.turn > cut BY <1>1, <1>4, <1>5 DEF Talks
  <2>4. /\ Talks(sess', cut, said) /\ sess'.cache = sess.cache /\ sess'.state = sess.state
    BY <1>1, <2>1, <2>2, <2>3, DeltaIs
  <2>5. Active(sess') /\ sess'.inUse BY <2>4 DEF Active, Talks, Whole
  <2>6. Underway(net, srv, said, setup.ids, setup.turns)'
    <3>1. Underway(Tail(net), srv, IF m.kind = "userDone" THEN said + 1 ELSE said,
                   setup.ids, setup.turns)
      BY <1>1, <1>2, <1>3, MessageRead
    <3>2. (IF m.kind = "userDone" THEN said + 1 ELSE said) = said BY <1>5
    <3> QED BY <1>5, <2>2, <3>1, <3>2
  <2>7. Types' BY <1>1, <2>2 DEF Types, Phases
  <2>8. Placed' BY <1>1, <2>2, <2>3, <2>5 DEF Placed
  <2> QED BY <1>1, <2>2, <2>4, <2>6, <2>7, <2>8 DEF SessionInv
<1>6. CASE /\ m.kind = "delegation"
           /\ \E delivered \in Outcomes("send"), ends \in BOOLEAN :
                 Pumped(Delegated(sess, m.id, delivered, ends), 0)
           /\ ran' = [ran EXCEPT ![m.id] = IF DelegationKnown(sess, m.id) THEN @
                                           ELSE IF @ < 2 THEN @ + 1 ELSE @]
           /\ ReadOne /\ UNCHANGED <<block, said, cut>>
  <2>1. PICK delivered \in BOOLEAN, ends \in BOOLEAN :
           Pumped(Delegated(sess, m.id, delivered, ends), 0)
    BY <1>6 DEF Outcomes
  <2>2. m.id \in setup.ids /\ m.id \in Ids BY <1>3, <1>4, <1>6
  <2> DEFINE s == Delegated(sess, m.id, delivered, ends)
  <2>3. /\ Talks(s, cut, said) /\ Listens(s) /\ (s.inUse => sess.inUse)
        /\ s.cache = IF DelegationKnown(sess, m.id) THEN sess.cache ELSE Stored(sess.cache, m.id)
    BY <1>1, <1>2, <2>2, DelegatedIs
  <2> HIDE DEF s
  <2>4. /\ phase' = "wait" /\ Talks(sess', cut, said) /\ Listens(sess')
        /\ sess'.cache = s.cache /\ (sess'.inUse => sess.inUse)
    <3>1. Pumped(s, 0) BY <2>1 DEF s
    <3> QED BY <2>3, <3>1, PumpedIs
  <2>5. /\ Underway(net, srv, said, setup.ids, setup.turns)'
        /\ (~sess'.inUse => net' = <<>> /\ ~srv'.up)
    BY <1>1, <1>2, <1>6, ReadOneIs
  <2>6. Caching(sess.cache, ran, setup.ids)' /\ ran' \in [Ids -> 0 .. 2]
    <3>1. ran \in [Ids -> 0 .. 2] /\ Caching(sess.cache, ran, setup.ids) BY DEF SessionInv, Types
    <3>2. sess.cache \in Caches /\ DOMAIN sess.cache = 1 .. Len(sess.cache)
      <4>1. sess.cache \in Caches BY <1>1 DEF Talks, Session
      <4>2. sess.cache \in Seq(Ids) BY <4>1, CachesAreSeqs
      <4> QED BY <4>1, <4>2, LenProperties
    <3>3. CASE DelegationKnown(sess, m.id)
      <4>1. ran' = ran /\ sess'.cache = sess.cache BY <1>6, <2>3, <2>4, <3>1, <3>3
      <4> QED BY <3>1, <4>1
    <3>4. CASE ~DelegationKnown(sess, m.id)
      <4>1. /\ ran' = [ran EXCEPT ![m.id] = IF @ < 2 THEN @ + 1 ELSE @]
            /\ sess'.cache = Stored(sess.cache, m.id)
        BY <1>6, <2>3, <2>4, <3>4
      <4>2. ~\E i \in 1 .. Len(sess.cache) : sess.cache[i] = m.id
        BY <3>2, <3>4 DEF DelegationKnown
      <4>3. Caching(Stored(sess.cache, m.id),
                    [ran EXCEPT ![m.id] = IF @ < 2 THEN @ + 1 ELSE @], setup.ids)
        BY <1>3, <2>2, <3>1, <3>2, <4>2, DelegationCached
      <4>4. ran' \in [Ids -> 0 .. 2] BY <2>2, <3>1, <4>1
      <4> QED BY <4>1, <4>3, <4>4
    <3> QED BY <3>3, <3>4
  <2>7. Types' BY <1>1, <1>6, <2>4, <2>6 DEF Types, Phases
  <2>8. Placed' BY <1>1, <1>6, <2>4, <2>5 DEF Placed
  <2> QED BY <1>1, <1>6, <2>4, <2>5, <2>6, <2>7, <2>8 DEF SessionInv
<1>7. CASE /\ m.kind = "delta" => sess.suppress
           /\ m.kind # "delegation" /\ Pumped(Heard(sess, m.kind, 0), 0)
           /\ said' = IF m.kind = "userDone" THEN said + 1 ELSE said
           /\ ReadOne /\ UNCHANGED <<block, cut, ran>>
  <2> DEFINE s == Heard(sess, m.kind, 0)
  <2>1. /\ Talks(s, cut, IF m.kind = "userDone" THEN said + 1 ELSE said) /\ Listens(s)
        /\ s.cache = sess.cache /\ (s.inUse => sess.inUse)
    BY <1>1, <1>2, HeardIs
  <2> HIDE DEF s
  <2>2. Talks(s, cut, said') BY <1>7, <2>1
  <2>3. /\ phase' = "wait" /\ Talks(sess', cut, said') /\ Listens(sess')
        /\ sess'.cache = sess.cache /\ (sess'.inUse => sess.inUse)
    <3>1. Pumped(s, 0) BY <1>7 DEF s
    <3> QED BY <2>1, <2>2, <3>1, PumpedIs
  <2>4. said' \in Nat /\ cut <= said' BY <1>1, <1>7
  <2>5. /\ Underway(net, srv, said, setup.ids, setup.turns)'
        /\ (~sess'.inUse => net' = <<>> /\ ~srv'.up)
    BY <1>2, <1>7, <2>4, ReadOneIs
  <2>6. Types' BY <1>1, <1>7, <2>3, <2>4 DEF Types, Phases
  <2>7. Placed' BY <1>1, <1>7, <2>3, <2>5 DEF Placed
  <2> QED BY <1>7, <2>3, <2>4, <2>5, <2>6, <2>7 DEF SessionInv
<1> QED BY <1>5, <1>6, <1>7 DEF PumpMessage

LEMMA PumpKeeps == ASSUME SessionInv, Pump, UNCHANGED setup PROVE SessionInv'
<1>1. phase = "pump" /\ UNCHANGED <<polled, enabled, subs, retry, ring, audioQ, wakeQ, cap>>
  BY DEF Pump, wakedVars
<1>2. CASE Active(sess)
  <2>1. PumpQuiet \/ PumpOutputDone \/ PumpChunk \/ PumpMessage BY <1>2 DEF Pump
  <2>2. CASE PumpQuiet \/ PumpOutputDone BY <1>1, <1>2, <2>2, PumpQuietKeeps
  <2>3. CASE PumpChunk BY <1>1, <1>2, <2>3, PumpChunkKeeps
  <2>4. CASE PumpMessage BY <1>1, <1>2, <2>4, PumpMessageKeeps
  <2> QED BY <2>1, <2>2, <2>3, <2>4
<1>3. CASE ~Active(sess)
  <2>1. phase' = "wait" /\ UNCHANGED <<sess, block, net, srv, said, cut, ran>>
    BY <1>3 DEF Pump, modelVars, hist
  <2>2. Types' BY <1>1, <2>1 DEF SessionInv, Types, Phases
  <2>3. Placed' BY <1>1, <2>1 DEF SessionInv, Placed
  <2> QED BY <2>1, <2>2, <2>3 DEF SessionInv
<1> QED BY <1>2, <1>3

LEMMA WriteReturnsKeeps == ASSUME SessionInv, WriteReturns, UNCHANGED setup PROVE SessionInv'
<1>1. /\ phase = "writing" /\ block' = NoBlock /\ Unread
      /\ UNCHANGED <<polled, enabled, subs, retry, ring, audioQ, wakeQ, cap, said, cut, ran>>
  BY DEF WriteReturns, wakedVars, hist
<1>2. Types /\ Placed /\ Talks(sess, cut, said) /\ cut <= said /\ Active(sess)
  BY <1>1 DEF SessionInv, Placed
<1>3. PICK s : /\ s = Spoken(sess) \/ s = Closed(sess, "audio_failed")
               /\ Pumped(s, block.time)
  BY DEF WriteReturns
<1>4. Talks(s, cut, said) /\ Listens(s) /\ s.cache = sess.cache /\ (s.inUse => sess.inUse)
  <2>1. CASE s = Spoken(sess) BY <1>2, <2>1, SpokenIs
  <2>2. CASE s = Closed(sess, "audio_failed")
    <3>1. "audio_failed" \in Ends BY DEF Ends
    <3> QED BY <1>2, <2>2, <3>1, ClosedTalks
  <2> QED BY <1>3, <2>1, <2>2
<1>5. /\ phase' = "wait" /\ Talks(sess', cut, said) /\ Listens(sess')
      /\ sess'.cache = sess.cache /\ (sess'.inUse => sess.inUse)
  BY <1>1, <1>3, <1>4, PumpedIs
<1>6. /\ Underway(net, srv, said, setup.ids, setup.turns)'
      /\ (~sess'.inUse => net' = <<>> /\ ~srv'.up)
  BY <1>1, <1>5, UnreadIs
<1>7. block' \in BlockRec BY <1>1 DEF NoBlock, BlockRec
<1>8. Types' BY <1>1, <1>2, <1>5, <1>7 DEF Types, Phases
<1>9. Placed' BY <1>1, <1>2, <1>5, <1>6 DEF Placed
<1> QED BY <1>1, <1>2, <1>5, <1>6, <1>8, <1>9 DEF SessionInv

(* The model sends a message.                                               *)
LEMMA ModelKeeps == ASSUME SessionInv, Model, UNCHANGED setup PROVE SessionInv'
<1>1. /\ srv.up /\ Waiting
      /\ UNCHANGED <<phase, polled, block, enabled, subs, retry, sess, ring, audioQ, wakeQ, cap,
                     said, cut, ran>>
  BY DEF Model, wakedVars, hist
<1>2. /\ Types /\ Placed /\ Underway(net, srv, said, setup.ids, setup.turns) /\ said \in Nat
      /\ setup.turns \in Nat /\ setup.ids \in SUBSET Ids /\ setup' = setup
  BY SetupTyped DEF SessionInv, Types
<1>3. srv \in Server(setup.turns) /\ (srv.answering => srv.turn > 0) BY <1>2 DEF Underway
<1> DEFINE Follows(m, u) ==
      /\ Len(net) < NetMax /\ net' = Append(net, m) /\ srv' = u
      /\ m \in Message /\ u \in Server(setup.turns)
      /\ u.up => u.turn = IF m.kind = "userDone" THEN srv.turn + 1 ELSE srv.turn
      /\ u.answering => u.up /\ u.turn > 0
      /\ m.kind = "delta" => m.n > 0 /\ m.turn > 0 /\ m.turn = srv.turn
      /\ m.kind = "delegation" => m.id \in setup.ids
<1>4. \E m, u : Follows(m, u)
  <2>1. CASE /\ srv.readies < 2 /\ ModelSends(Note("ready"))
             /\ srv' = [srv EXCEPT !.readies = @ + 1]
    <3> DEFINE k == srv.readies + 1
    <3>1. k \in 0 .. 2 BY <1>3, <2>1 DEF Server
    <3>2. srv' = [srv EXCEPT !.readies = k] BY <2>1
    <3> HIDE DEF k
    <3>3. srv' \in Server(setup.turns) /\ srv'.turn = srv.turn BY <1>3, <3>1, <3>2 DEF Server
    <3>4. (srv'.up <=> srv.up) /\ (srv'.answering <=> srv.answering)
      BY <1>3, <3>2 DEF Server
    <3>5. Note("ready") \in Message /\ Note("ready").kind = "ready"
      BY DEF Note, Msg, Message, Kinds
    <3>6. Follows(Note("ready"), srv') BY <1>1, <1>3, <2>1, <3>3, <3>4, <3>5 DEF ModelSends
    <3> QED BY <3>6
  <2>2. CASE /\ srv.readies > 0 /\ srv.turn < setup.turns /\ ModelSends(Note("userDone"))
             /\ srv' = [srv EXCEPT !.turn = @ + 1, !.answering = TRUE]
    <3> DEFINE k == srv.turn + 1
    <3>1. k \in 0 .. setup.turns /\ k > 0 BY <1>2, <1>3, <2>2 DEF Server
    <3>2. srv' = [srv EXCEPT !.turn = k, !.answering = TRUE] BY <2>2
    <3> HIDE DEF k
    <3>3. srv' \in Server(setup.turns) /\ srv'.turn = k BY <1>3, <3>1, <3>2 DEF Server
    <3>4. srv'.up <=> srv.up BY <1>3, <3>2 DEF Server
    <3>5. Note("userDone") \in Message /\ Note("userDone").kind = "userDone"
      BY DEF Note, Msg, Message, Kinds
    <3>6. Follows(Note("userDone"), srv')
      BY <1>1, <2>2, <3>1, <3>3, <3>4, <3>5 DEF ModelSends, k
    <3> QED BY <3>6
  <2>3. CASE /\ srv.answering /\ UNCHANGED srv
             /\ \E n \in 1 .. 2 : ModelSends(Msg("delta", srv.turn, n, NoId))
    <3>1. PICK n \in 1 .. 2 : ModelSends(Msg("delta", srv.turn, n, NoId)) BY <2>3
    <3>2. srv.turn \in Nat BY <1>2, <1>3 DEF Server
    <3> DEFINE m == Msg("delta", srv.turn, n, NoId)
    <3>3. m \in Message /\ m.kind = "delta" /\ m.turn = srv.turn /\ m.n = n
      BY <3>2 DEF Msg, Message, Kinds
    <3> HIDE DEF m
    <3>4. Follows(m, srv)
      <4>1. Len(net) < NetMax /\ net' = Append(net, m) BY <3>1 DEF ModelSends, m
      <4> QED BY <1>1, <1>3, <2>3, <3>3, <4>1
    <3> QED BY <3>4
  <2>4. CASE /\ srv.answering /\ UNCHANGED srv
             /\ \E id \in setup.ids : ModelSends(Msg("delegation", 0, 0, id))
    <3>1. PICK id \in setup.ids : ModelSends(Msg("delegation", 0, 0, id)) BY <2>4
    <3> DEFINE m == Msg("delegation", 0, 0, id)
    <3>2. m \in Message /\ m.kind = "delegation" /\ m.id = id
      BY <1>2 DEF Msg, Message, Kinds
    <3> HIDE DEF m
    <3>3. Follows(m, srv)
      <4>1. Len(net) < NetMax /\ net' = Append(net, m) BY <3>1 DEF ModelSends, m
      <4> QED BY <1>1, <1>3, <2>4, <3>2, <4>1
    <3> QED BY <3>3
  <2>5. CASE /\ srv.answering /\ ModelSends(Note("modelDone"))
             /\ srv' = [srv EXCEPT !.answering = FALSE]
    <3>1. srv' \in Server(setup.turns) /\ srv'.turn = srv.turn BY <1>3, <2>5 DEF Server
    <3>2. (srv'.up <=> srv.up) /\ ~srv'.answering BY <1>3, <2>5 DEF Server
    <3>3. Note("modelDone") \in Message /\ Note("modelDone").kind = "modelDone"
      BY DEF Note, Msg, Message, Kinds
    <3>4. Follows(Note("modelDone"), srv') BY <1>1, <1>3, <2>5, <3>1, <3>2, <3>3 DEF ModelSends
    <3> QED BY <3>4
  <2>6. CASE /\ May("link") /\ srv' = NoServer
             /\ \E kind \in {"closed", "error"} : ModelSends(Note(kind))
    <3>1. PICK kind \in {"closed", "error"} : ModelSends(Note(kind)) BY <2>6
    <3>2. Note(kind) \in Message /\ Note(kind).kind = kind
      BY DEF Note, Msg, Message, Kinds
    <3>3. srv' \in Server(setup.turns) /\ ~srv'.up /\ ~srv'.answering
      <4>1. srv' = [up |-> FALSE, readies |-> 0, turn |-> 0, answering |-> FALSE]
        BY <2>6 DEF NoServer
      <4>2. 0 \in 0 .. setup.turns BY <1>2
      <4> QED BY <4>1, <4>2 DEF Server
    <3>4. Follows(Note(kind), srv') BY <3>1, <3>2, <3>3 DEF ModelSends
    <3> QED BY <3>4
  <2> QED BY <2>1, <2>2, <2>3, <2>4, <2>5, <2>6 DEF Model
<1>5. PICK m, u : Follows(m, u) BY <1>4
<1>6. Underway(Append(net, m), u, said, setup.ids, setup.turns)
  BY <1>1, <1>2, <1>5, MessageSent
<1>7. Underway(net, srv, said, setup.ids, setup.turns)' BY <1>1, <1>2, <1>5, <1>6
<1> HIDE DEF Next
<1>8. phase # "starting" /\ sess.inUse
  BY <1>1, <1>2 DEF Placed
<1>9. Types' BY <1>1, <1>2 DEF Types
<1>10. Placed' BY <1>1, <1>2, <1>8 DEF Placed
<1> QED BY <1>1, <1>7, <1>9, <1>10 DEF SessionInv

LEMMA SessionStep == ASSUME SessionInv, [ServiceNext]_serviceVars PROVE SessionInv'
<1>1. CASE UNCHANGED vars
  BY <1>1 DEF vars, SessionInv, Types, Placed
<1>2. CASE InSession(Step)
  <2>1. UNCHANGED setup BY <1>2 DEF InSession, Kept
  <2>2. CASE BeginPass BY <2>1, <2>2, BeginPassKeeps
  <2>3. CASE DrainWake BY <2>1, <2>3, DrainWakeKeeps
  <2>4. CASE StartReturns BY <2>1, <2>4, StartReturnsKeeps
  <2>5. CASE DrainAudio BY <2>1, <2>5, DrainAudioKeeps
  <2>6. CASE Control BY <2>1, <2>6, ControlKeeps
  <2>7. CASE Pump BY <2>1, <2>7, PumpKeeps
  <2>8. CASE WriteReturns BY <2>1, <2>8, WriteReturnsKeeps
  <2>9. CASE Tick BY <2>1, <2>9, TickKeeps
  <2>10. CASE WakeDetected \/ WakedRestarts BY <2>1, <2>10, WakedKeeps
  <2>11. CASE Model BY <2>1, <2>11, ModelKeeps
  <2> QED BY <1>2, <2>2, <2>3, <2>4, <2>5, <2>6, <2>7, <2>8, <2>9, <2>10, <2>11
          DEF InSession, Step, LivedStep
<1>3. CASE OnWire(WireNext) BY <1>1, <1>3 DEF OnWire
<1> QED BY <1>1, <1>2, <1>3 DEF ServiceNext, serviceVars

LEMMA SessionInvMeans == ASSUME SessionInv PROVE SessionHonest
<1>1. Types /\ Placed /\ Talks(sess, cut, said)
      /\ Underway(net, srv, said, setup.ids, setup.turns)
      /\ Caching(sess.cache, ran, setup.ids)
  BY DEF SessionInv
<1>2. TypeOK
  <2>1. \A i \in DOMAIN net :
           net[i] \in [kind : Kinds, turn : Nat, n : Nat, id : Ids \union {NoId}]
    <3>1. net \in Seq(Message) BY <1>1 DEF Underway
    <3>2. DOMAIN net = 1 .. Len(net) /\ \A i \in 1 .. Len(net) : net[i] \in Message
      BY <3>1, LenProperties, ElementOfSeq
    <3> QED BY <3>2 DEF Message
  <2>2. /\ Len(net) <= NetMax
        /\ srv \in [up : BOOLEAN, readies : 0 .. 2, turn : 0 .. setup.turns, answering : BOOLEAN]
    BY <1>1 DEF Underway, Server
  <2>3. sess \in Session BY <1>1 DEF Talks
  <2> QED BY <1>1, <2>1, <2>2, <2>3 DEF TypeOK, Types, Phases, BlockRec, Socket
<1>3. ClosedMeansReleased BY <1>1 DEF ClosedMeansReleased, Talks, Whole
<1>4. InterruptedSilent BY <1>1 DEF InterruptedSilent, Talks, Placed, Listens
<1>5. DelegationOnce BY <1>1 DEF DelegationOnce, Caching, Types
<1>6. DisabledHoldsNothing BY <1>1 DEF DisabledHoldsNothing, Placed
<1> QED BY <1>2, <1>3, <1>4, <1>5, <1>6 DEF SessionHonest

(* An idle session holds nothing and an active one has its transport; what  *)
(* an interruption silenced stays silent, whatever was on its way; and a    *)
(* delegated action runs once however often it is asked for                 *)
(* (le_live_session_close, ws_interrupt, handle_delegation).                *)
THEOREM SessionAlwaysHonest == ServiceSpec => []SessionHonest
<1>1. ServiceInit => SessionInv BY SessionInit DEF ServiceInit
<1>2. SessionInv /\ [ServiceNext]_serviceVars => SessionInv' BY SessionStep
<1>3. SessionInv => SessionHonest BY SessionInvMeans
<1> QED BY <1>1, <1>2, <1>3, PTL DEF ServiceSpec

-----------------------------------------------------------------------------
(* The upload.  While the stream runs, the daemon is never further behind   *)
(* the microphone than the ring and the socket can hold: what it was        *)
(* blocked for is what there is to catch up with.                           *)
Delay == IF setup.connect < WriteMax THEN WriteMax ELSE setup.connect
Connecting == sess.state = "connecting"

(* What waked publishes, what waits in the socket and what the ring holds   *)
(* are one stretch of the numbering.                                        *)
StreamInv ==
  /\ subs \in {"on", "off"}
  /\ subs = "off" => phase = "top" /\ retry = 0 /\ cap = 0
  /\ audioQ.first + audioQ.len = cap
  /\ ring.count > 0 => ring.first + ring.count = audioQ.first
  /\ wakeQ # <<>> => audioQ.first <= Head(wakeQ) + 1
  /\ phase \in {"audio", "control"} => wakeQ = <<>>

(* How much waits in the socket, by where the daemon is.                    *)
BacklogInv ==
  /\ phase = "starting" => block.time <= setup.connect
  /\ phase = "writing" => block.time <= WriteMax /\ audioQ.len <= block.time
  /\ phase = "wait" => audioQ.len <= Delay
  /\ phase = "top" => audioQ.len <= Delay + 1
  /\ phase \in {"wake", "audio"} /\ Connecting =>
       audioQ.len <= Delay + 1 + setup.connect /\ (~polled => audioQ.len <= setup.connect)
  /\ phase \in {"wake", "audio"} /\ ~Connecting =>
       audioQ.len <= Delay + 1 /\ (~polled => audioQ.len = 0)
  /\ phase = "starting" /\ block.back = "wake" =>
       audioQ.len <= Delay + 1 + block.time /\ (~polled => audioQ.len <= block.time)
  /\ phase = "starting" /\ block.back = "pump" => audioQ.len <= block.time
  /\ phase \in {"control", "pump"} => audioQ.len <= setup.connect
  /\ phase = "control" /\ ~Connecting => audioQ.len = 0
  /\ phase = "pump" /\ Open(sess) => audioQ.len = 0

(* An open conversation owes nothing; one that connects owes what the ring  *)
(* will still hold when it is connected.                                    *)
UploadInv ==
  /\ Active(sess) => ring.count > 0
  /\ Open(sess) => sess.next = RingEnd(ring)
  /\ Connecting => ring.first <= sess.next /\ sess.next < RingEnd(ring)
  /\ Connecting /\ phase # "starting" =>
       /\ RingEnd(ring) - sess.next + audioQ.len <= RingMax
       /\ phase \in {"wake", "audio", "control", "pump"}
       /\ net # <<>> /\ Head(net).kind = "ready" /\ ~HasChunk(sess) /\ ~sess.done
  /\ Connecting /\ phase = "starting" =>
       RingEnd(ring) - sess.next + audioQ.len + setup.connect - block.time <= RingMax
  /\ phase = "writing" => Open(sess)

CaughtUp == StreamInv /\ BacklogInv /\ UploadInv
UploadAll == Steady => CaughtUp

LEMMA SteadyMeans ==
  ASSUME setup \in Setups, Steady
  PROVE  /\ Delay \in Nat /\ setup.connect \in Nat /\ WriteMax \in Nat /\ setup.socket \in Nat
         /\ setup.connect <= Delay /\ WriteMax <= Delay
         /\ Preroll \in Nat /\ Preroll > 0 /\ RingMax \in Nat
         /\ Delay + setup.connect + Preroll + 1 < RingMax
         /\ Delay + setup.connect < setup.socket
         /\ setup.prompt /\ ~May("start") /\ ~May("waked")
<1>1. setup.connect \in Nat /\ setup.socket \in Nat BY SetupTyped
<1>2. WriteMax \in Nat /\ Preroll \in Nat /\ RingMax \in Nat BY LimitsTyped
<1>3. Delay \in {setup.connect, WriteMax} BY DEF Delay
<1>4. Delay \in Nat /\ setup.connect <= Delay /\ WriteMax <= Delay BY <1>1, <1>2 DEF Delay
<1>5. /\ Delay + setup.connect + Preroll + 1 < RingMax /\ Delay + setup.connect < setup.socket
      /\ Preroll > 0 /\ setup.prompt
  BY <1>3 DEF Steady
<1>6. ~May("start") /\ ~May("waked") BY DEF Steady, May
<1> QED BY <1>1, <1>2, <1>4, <1>5, <1>6

LEMMA Numbers ==
  ASSUME SessionInv
  PROVE  /\ audioQ.first \in Nat /\ audioQ.len \in Nat /\ cap \in Nat /\ block.time \in Nat
         /\ ring.first \in Nat /\ ring.count \in Nat /\ ring.count <= RingMax
         /\ ring \in Ring /\ RingEnd(ring) \in Nat
         /\ ring.count > 0 => RingEnd(ring) = ring.first + ring.count
         /\ sess \in Session /\ sess.next \in Nat /\ sess.state \in States
         /\ setup \in Setups /\ (Active(sess) <=> sess.inUse)
<1>1. Types /\ Talks(sess, cut, said) BY DEF SessionInv
<1>2. audioQ.first \in Nat /\ audioQ.len \in Nat BY <1>1, SetupTyped DEF Types, Socket
<1>3. cap \in Nat /\ block.time \in Nat BY <1>1, SetupTyped DEF Types, BlockRec
<1>4. ring \in Ring /\ RingEnd(ring) \in Nat BY <1>1, RingEndIs DEF Types
<1>5. ring.first \in Nat /\ ring.count \in Nat /\ ring.count <= RingMax
      /\ (ring.count > 0 => RingEnd(ring) = ring.first + ring.count)
  BY <1>4, LimitsTyped DEF Ring, RingEnd
<1>6. sess \in Session /\ sess.next \in Nat /\ sess.state \in States /\ (Active(sess) <=> sess.inUse)
  BY <1>1 DEF Talks, Session, Whole
<1> QED BY <1>1, <1>2, <1>3, <1>4, <1>5, <1>6 DEF Types

LEMMA UploadInit == ASSUME Init PROVE UploadAll
<1> SUFFICES ASSUME Steady PROVE CaughtUp BY DEF UploadAll
<1> USE DEF Init
<1>1. Delay \in Nat BY SteadyMeans
<1>2. sess.state = "idle" BY DEF IdleSession
<1>3. audioQ.first = 0 /\ audioQ.len = 0 /\ ring.count = 0 BY DEF EmptyRing
<1>4. StreamInv BY <1>3 DEF StreamInv
<1>5. BacklogInv BY <1>1, <1>2, <1>3 DEF BacklogInv, Open
<1>6. UploadInv BY <1>2 DEF UploadInv, Active, Open, Connecting
<1> QED BY <1>4, <1>5, <1>6 DEF CaughtUp

LEMMA BeginPassUploads ==
  ASSUME SessionInv, Steady, CaughtUp, BeginPass, UNCHANGED setup PROVE CaughtUp'
<1>1. /\ phase \in {"top", "wait"} /\ phase' = "wake" /\ Reconnects
      /\ polled' = (audioQ.len > 0 \/ subs \in {"audio_closed", "closed"})
      /\ UNCHANGED <<block, enabled, sess, ring, audioQ, wakeQ, cap, net>>
  BY DEF BeginPass, wakedVars, modelVars
<1>2. StreamInv /\ BacklogInv /\ UploadInv BY DEF CaughtUp
<1>3. Delay \in Nat /\ setup.connect \in Nat /\ audioQ.len \in Nat /\ Delay' = Delay /\ ~May("waked")
  BY SteadyMeans, Numbers DEF Delay
<1>4. ~Connecting BY <1>1, <1>2 DEF UploadInv
<1>5. subs' = "on"
  <2>1. CASE subs = "on" BY <1>1, <2>1 DEF Reconnects
  <2>2. CASE subs = "off"
    <3>1. retry = 0 BY <1>2, <2>2 DEF StreamInv
    <3>2. \E ok \in Outcomes("waked") : subs' = IF ok THEN "on" ELSE "off"
      BY <1>1, <2>2, <3>1 DEF Reconnects
    <3> QED BY <1>3, <3>2 DEF Outcomes
  <2> QED BY <1>2, <2>1, <2>2 DEF StreamInv
<1>6. StreamInv' BY <1>1, <1>2, <1>5 DEF StreamInv
<1>7. polled' <=> audioQ.len > 0 BY <1>1, <1>2 DEF StreamInv
<1>8. audioQ.len <= Delay + 1 BY <1>1, <1>2, <1>3 DEF BacklogInv
<1>9. BacklogInv' BY <1>1, <1>3, <1>4, <1>7, <1>8 DEF BacklogInv, Connecting
<1>10. UploadInv' BY <1>1, <1>2, <1>4 DEF UploadInv, Connecting
<1> QED BY <1>6, <1>9, <1>10 DEF CaughtUp

(* A conversation that starts has the audio since its wake word, and room   *)
(* for what arrives while it connects.                                      *)
LEMMA StartUploads ==
  ASSUME SessionInv, Steady, StreamInv, NEW d \in Nat, NEW back, ~WakeRefused(ring, d),
         ~Active(sess), audioQ.first <= d + 1,
         sess' = Started(Woken(sess, ring, d)),
         block' = [NoBlock EXCEPT !.back = back],
         audioQ.len <= Delay + 1,
         UNCHANGED <<setup, ring, audioQ>>
  PROVE  /\ sess'.state = "connecting" /\ block'.time = 0 /\ block'.back = back
         /\ ring.count > 0 /\ ring.first <= sess'.next /\ sess'.next < RingEnd(ring)
         /\ RingEnd(ring) - sess'.next + audioQ.len + setup.connect - block'.time <= RingMax
<1>1. /\ sess \in Session /\ Whole(sess) /\ ring \in Ring /\ ring.count \in Nat
      /\ setup \in Setups /\ RingEnd(ring) \in Nat /\ audioQ.len \in Nat /\ audioQ.first \in Nat
      /\ ring.count > 0 => RingEnd(ring) = ring.first + ring.count
  BY Numbers DEF SessionInv, Talks
<1>2. /\ sess'.state = "connecting" /\ sess'.next = StartForWake(ring, d, Preroll)
  BY SMTT(60), <1>1, StartedIs
<1>3. block'.time = 0 /\ block'.back = back BY DEF NoBlock
<1>4. ring.count > 0 BY <1>1 DEF WakeRefused
<1>5. RingEnd(ring) = audioQ.first BY <1>1, <1>4 DEF StreamInv
<1>6. /\ Preroll \in Nat /\ Preroll > 0 /\ Delay \in Nat /\ setup.connect \in Nat /\ RingMax \in Nat
      /\ Delay + setup.connect + Preroll + 1 < RingMax
  BY <1>1, SteadyMeans
<1> DEFINE n == StartForWake(ring, d, Preroll)
<1>7. n \in Nat /\ ring.first <= n /\ n < RingEnd(ring) /\ d <= n + Preroll
  BY <1>1, <1>6, StartForWakeIs
<1> HIDE DEF n
<1>8. RingEnd(ring) - n + audioQ.len + setup.connect <= RingMax
  BY <1>1, <1>5, <1>6, <1>7
<1>9. sess'.next = n BY <1>2 DEF n
<1> QED BY <1>1, <1>2, <1>3, <1>4, <1>6, <1>7, <1>8, <1>9

LEMMA DrainWakeUploads ==
  ASSUME SessionInv, Steady, CaughtUp, DrainWake, UNCHANGED setup PROVE CaughtUp'
<1>1. phase = "wake" /\ UNCHANGED <<polled, enabled, ring, cap>> BY DEF DrainWake
<1>2. StreamInv /\ BacklogInv /\ UploadInv BY DEF CaughtUp
<1>3. /\ Delay \in Nat /\ setup.connect \in Nat /\ audioQ.len \in Nat /\ Delay' = Delay
      /\ wakeQ \in Seq(Nat) /\ Len(wakeQ) <= 1
  BY SteadyMeans, Numbers DEF Delay, SessionInv, Types
<1>4. CASE /\ wakeQ # <<>> /\ wakeQ' = Tail(wakeQ)
           /\ StartSession(Head(wakeQ), "wake") /\ UNCHANGED <<subs, retry, audioQ>>
  <2>1. Head(wakeQ) \in Nat /\ wakeQ' = <<>>
    <3>1. /\ Head(wakeQ) \in Nat /\ Tail(wakeQ) \in Seq(Nat) /\ Len(Tail(wakeQ)) = Len(wakeQ) - 1
          /\ Len(wakeQ) \in Nat
      BY <1>3, <1>4, HeadTailProperties, LenProperties
    <3>2. Len(Tail(wakeQ)) = 0 BY <1>3, <3>1, LenProperties
    <3>3. Tail(wakeQ) = <<>> BY <3>1, <3>2, EmptySeq
    <3> QED BY <1>4, <3>1, <3>3
  <2>2. StreamInv' BY <1>1, <1>2, <1>4, <2>1, phase' \in {"wake", "starting"} DEF StreamInv, StartSession
  <2>3. CASE phase' = "wake" /\ UNCHANGED <<sess, block, net>>
    <3>1. BacklogInv' BY <1>1, <1>2, <1>3, <1>4, <2>3 DEF BacklogInv, Connecting
    <3>2. UploadInv' BY <1>1, <1>2, <1>4, <2>3 DEF UploadInv, Connecting
    <3> QED BY <2>2, <3>1, <3>2 DEF CaughtUp
  <2>4. CASE /\ ~Active(sess) /\ ~WakeRefused(ring, Head(wakeQ))
             /\ sess' = Started(Woken(sess, ring, Head(wakeQ))) /\ phase' = "starting"
             /\ block' = [NoBlock EXCEPT !.back = "wake"]
    <3>1. audioQ.len <= Delay + 1 /\ (~polled => audioQ.len = 0)
      BY <1>1, <1>2, <2>4 DEF BacklogInv, Connecting, Active
    <3>2. audioQ.first <= Head(wakeQ) + 1 BY <1>2, <1>4 DEF StreamInv
    <3>3. /\ sess'.state = "connecting" /\ block'.time = 0 /\ block'.back = "wake"
          /\ ring.count > 0 /\ ring.first <= sess'.next /\ sess'.next < RingEnd(ring)
          /\ RingEnd(ring) - sess'.next + audioQ.len + setup.connect - block'.time <= RingMax
      BY <1>1, <1>2, <1>4, <2>1, <2>4, <3>1, <3>2, StartUploads
    <3>4. BacklogInv' BY SMTT(60), <1>1, <1>3, <1>4, <2>4, <3>1, <3>3 DEF BacklogInv
    <3>5. UploadInv' BY <1>1, <1>4, <2>4, <3>3 DEF UploadInv, Open, Connecting
    <3> QED BY <2>2, <3>4, <3>5 DEF CaughtUp
  <2> QED BY <1>4, <2>3, <2>4 DEF StartSession, modelVars
<1>5. CASE wakeQ = <<>> /\ phase' = "audio" /\ UNCHANGED <<block, sess, subs, retry, audioQ, wakeQ, net>>
  <2>1. StreamInv' BY <1>1, <1>2, <1>5 DEF StreamInv
  <2>2. BacklogInv' BY <1>1, <1>2, <1>3, <1>5 DEF BacklogInv, Connecting
  <2>3. UploadInv' BY <1>1, <1>2, <1>5 DEF UploadInv, Connecting
  <2> QED BY <2>1, <2>2, <2>3 DEF CaughtUp
<1>6. subs # "closed" BY <1>2 DEF StreamInv
<1> QED BY <1>4, <1>5, <1>6 DEF DrainWake, modelVars, hist

LEMMA StartReturnsUploads ==
  ASSUME SessionInv, Steady, CaughtUp, StartReturns, UNCHANGED setup PROVE CaughtUp'
<1>1. /\ phase = "starting" /\ phase' = block.back
      /\ UNCHANGED <<polled, enabled, subs, retry, ring, audioQ, wakeQ, cap>>
  BY DEF StartReturns, wakedVars
<1>2. StreamInv /\ BacklogInv /\ UploadInv BY DEF CaughtUp
<1>3. /\ Delay \in Nat /\ setup.connect \in Nat /\ audioQ.len \in Nat /\ Delay' = Delay
      /\ setup.prompt /\ ~May("start") /\ block.time \in Nat /\ RingMax \in Nat
      /\ RingEnd(ring) \in Nat /\ sess.next \in Nat
  BY SteadyMeans, Numbers DEF Delay
<1>4. /\ sess.state = "connecting" /\ sess.pending = 0 /\ ~sess.done /\ block.back \in {"wake", "pump"}
  BY <1>1 DEF SessionInv, Placed, Types, BlockRec
<1>5. sess' = sess /\ net' = <<Note("ready")>>
  BY <1>3 DEF StartReturns, Outcomes
<1>6. net' # <<>> /\ Head(net').kind = "ready"
  BY <1>5 DEF Note, Msg
<1>7. StreamInv' BY <1>1, <1>2, <1>4 DEF StreamInv
<1>8. block.time <= setup.connect BY <1>1, <1>2 DEF BacklogInv
<1>9. BacklogInv'
  <2>1. CASE block.back = "wake"
    <3>1. audioQ.len <= Delay + 1 + block.time /\ (~polled => audioQ.len <= block.time)
      BY <1>1, <1>2, <2>1 DEF BacklogInv
    <3> QED BY <1>1, <1>3, <1>4, <1>5, <1>8, <2>1, <3>1 DEF BacklogInv, Connecting
  <2>2. CASE block.back = "pump"
    <3>1. audioQ.len <= block.time BY <1>1, <1>2, <2>2 DEF BacklogInv
    <3> QED BY <1>1, <1>3, <1>4, <1>5, <1>8, <2>2, <3>1 DEF BacklogInv, Connecting, Open
  <2> QED BY <1>4, <2>1, <2>2
<1>10. UploadInv'
  <2>1. /\ ring.first <= sess.next /\ sess.next < RingEnd(ring) /\ ring.count > 0
        /\ RingEnd(ring) - sess.next + audioQ.len + setup.connect - block.time <= RingMax
    BY <1>1, <1>2, <1>4 DEF UploadInv, Connecting, Active
  <2>2. RingEnd(ring) - sess.next + audioQ.len <= RingMax BY <1>3, <1>8, <2>1
  <2> QED BY <1>1, <1>4, <1>5, <1>6, <2>1, <2>2
      DEF UploadInv, Connecting, Active, Open, HasChunk
<1> QED BY <1>7, <1>9, <1>10 DEF CaughtUp

LEMMA DrainAudioUploads ==
  ASSUME SessionInv, Steady, CaughtUp, DrainAudio, UNCHANGED setup PROVE CaughtUp'
<1>1. phase = "audio" /\ UNCHANGED <<block, enabled, cap>> BY DEF DrainAudio
<1>2. StreamInv /\ BacklogInv /\ UploadInv BY DEF CaughtUp
<1>3. /\ Delay \in Nat /\ setup.connect \in Nat /\ Delay' = Delay /\ RingMax \in Nat
      /\ audioQ.len \in Nat /\ audioQ.first \in Nat /\ ring \in Ring
      /\ ring.first \in Nat /\ ring.count \in Nat /\ ring.count <= RingMax
      /\ sess \in Session /\ sess.next \in Nat /\ (Active(sess) <=> sess.inUse)
      /\ ring.count > 0 => RingEnd(ring) = ring.first + ring.count
  BY SteadyMeans, Numbers DEF Delay
<1>4. CASE /\ polled /\ audioQ.len > 0
           /\ \E loud \in (IF setup.barge THEN BOOLEAN ELSE {FALSE}) : AudioFrame(loud)
           /\ UNCHANGED <<phase, polled, subs, retry, wakeQ>>
  <2>1. PICK loud \in BOOLEAN : AudioFrame(loud) BY <1>4
  <2>2. audioQ'.first = audioQ.first + 1 /\ audioQ'.len = audioQ.len - 1
    BY <2>1 DEF AudioFrame
  <2>3. subs' = "on" /\ wakeQ' = <<>> BY <1>1, <1>2, <1>4 DEF StreamInv
  <2>4. CASE ~enabled
    <3>1. UNCHANGED <<ring, sess, net>> BY <2>1, <2>4 DEF AudioFrame, modelVars
    <3>2. ring.count = 0 /\ ~Active(sess)
      BY <2>4 DEF SessionInv, Placed, EmptyRing
    <3>3. StreamInv' BY <1>1, <1>2, <1>3, <1>4, <2>2, <2>3, <3>1, <3>2 DEF StreamInv
    <3>4. BacklogInv' BY <1>1, <1>2, <1>3, <1>4, <2>2, <3>1, <3>2
      DEF BacklogInv, Connecting, Active
    <3>5. UploadInv' BY <1>1, <1>4, <3>1, <3>2 DEF UploadInv, Connecting, Active, Open
    <3> QED BY <3>3, <3>4, <3>5 DEF CaughtUp
  <2>5. CASE enabled
    <3>1. /\ ring' = Fed(ring, audioQ.first)
          /\ sess' \in FeedResults(sess, ring', loud, May("send"))
          /\ ModelFollows(sess')
      BY <2>1, <2>5 DEF AudioFrame
    <3> DEFINE f == Fed(ring, audioQ.first)
    <3>2. /\ f \in Ring /\ f.count > 0 /\ RingEnd(f) = audioQ.first + 1
          /\ ring.count > 0 /\ audioQ.first = RingEnd(ring) =>
               f.first = IF ring.count = RingMax THEN ring.first + 1 ELSE ring.first
      BY <1>3, FedIs
    <3> HIDE DEF f
    <3>3. ring' = f /\ sess' \in FeedResults(sess, f, loud, May("send")) BY <3>1 DEF f
    <3>4. f.first + f.count = audioQ.first + 1 BY <3>2 DEF RingEnd
    <3>5. ring.count > 0 =>
            /\ RingEnd(ring) = audioQ.first
            /\ f.first = IF ring.count = RingMax THEN ring.first + 1 ELSE ring.first
      BY <1>2, <1>3, <3>2 DEF StreamInv
    <3>6. \/ ~Active(sess') /\ ~Connecting
          \/ sess.state = "connecting" /\ Alike(sess, sess') /\ sess'.next = sess.next
          \/ /\ Open(sess) /\ Open(sess')
             /\ sess'.next = IF Readable(f, sess.next) THEN RingEnd(f) ELSE sess.next
      <4>1. /\ Talks(sess, cut, said) /\ Listens(sess) /\ cut \in Nat /\ said \in Nat /\ cut <= said
        BY <1>1 DEF SessionInv, Types, Placed
      <4> QED BY <3>2, <3>3, <4>1, FeedResultsIs DEF Connecting
    <3>7. StreamInv' BY <1>1, <1>2, <1>3, <1>4, <2>2, <2>3, <3>3, <3>4 DEF StreamInv
    <3>8. CASE ~Active(sess') /\ ~Connecting
      <4>1. BacklogInv'
        <5>1. audioQ.len <= Delay + 1 BY <1>1, <1>2, <3>8 DEF BacklogInv
        <5>2. audioQ'.len <= Delay + 1 BY <1>3, <2>2, <5>1
        <5> QED BY <1>1, <1>3, <1>4, <3>8, <5>2 DEF BacklogInv, Connecting, Active
      <4>2. UploadInv' BY <1>1, <1>4, <3>8 DEF UploadInv, Connecting, Active, Open
      <4> QED BY <3>7, <4>1, <4>2 DEF CaughtUp
    <3>9. CASE sess.state = "connecting" /\ Alike(sess, sess') /\ sess'.next = sess.next
      <4>1. /\ ring.first <= sess.next /\ sess.next < RingEnd(ring) /\ ring.count > 0
            /\ RingEnd(ring) - sess.next + audioQ.len <= RingMax
            /\ net # <<>> /\ Head(net).kind = "ready" /\ ~HasChunk(sess) /\ ~sess.done
        BY <1>1, <1>2, <3>9 DEF UploadInv, Connecting, Active
      <4>2. /\ f.first <= sess.next /\ sess.next < RingEnd(f)
            /\ RingEnd(f) - sess.next + audioQ'.len <= RingMax
        <5>1. /\ RingEnd(ring) = ring.first + ring.count /\ RingEnd(ring) = audioQ.first
              /\ f.first = IF ring.count = RingMax THEN ring.first + 1 ELSE ring.first
          BY <1>3, <3>5, <4>1
        <5>2. /\ ring.first <= sess.next /\ sess.next < audioQ.first
              /\ audioQ.first - sess.next + audioQ.len <= RingMax
          BY <4>1, <5>1
        <5>3. RingEnd(f) = audioQ.first + 1 BY <3>2
        <5>4. audioQ.len > 0 BY <1>4
        <5> QED BY ONLY <5>1, <5>2, <5>3, <5>4, <1>3, <2>2
      <4>4. sess'.state = "connecting" /\ ~HasChunk(sess') /\ ~sess'.done /\ sess'.inUse
        BY <1>3, <3>9, <4>1 DEF Alike, HasChunk, Active
      <4>5. net' = net BY <3>1, <4>4 DEF ModelFollows, modelVars
      <4>6. UploadInv'
        BY <1>1, <1>4, <3>2, <3>3, <3>9, <4>1, <4>2, <4>4, <4>5
        DEF UploadInv, Connecting, Open
      <4>7. audioQ.len <= Delay + 1 + setup.connect
        BY <1>1, <1>2, <3>9 DEF BacklogInv, Connecting
      <4>8. BacklogInv' BY <1>1, <1>3, <1>4, <2>2, <4>4, <4>7 DEF BacklogInv, Connecting
      <4> QED BY <3>7, <4>6, <4>8 DEF CaughtUp
    <3>10. CASE /\ Open(sess) /\ Open(sess')
                /\ sess'.next = IF Readable(f, sess.next) THEN RingEnd(f) ELSE sess.next
      <4>1. sess.next = RingEnd(ring) /\ ring.count > 0 /\ ~Connecting
        BY <1>2, <3>10 DEF UploadInv, Active, Open, Connecting
      <4>2. f.first <= sess.next /\ sess.next < RingEnd(f)
        BY <1>3, <3>2, <3>5, <4>1
      <4>3. sess'.next = RingEnd(f) BY <3>2, <3>10, <4>2 DEF Readable
      <4>4. UploadInv' BY <1>1, <1>4, <3>2, <3>3, <3>10, <4>3
        DEF UploadInv, Connecting, Open, Active
      <4>5. audioQ.len <= Delay + 1 BY <1>1, <1>2, <4>1 DEF BacklogInv
      <4>6. BacklogInv' BY <1>1, <1>3, <1>4, <2>2, <3>10, <4>5 DEF BacklogInv, Connecting, Open
      <4> QED BY <3>7, <4>4, <4>6 DEF CaughtUp
    <3> QED BY <3>6, <3>8, <3>9, <3>10
  <2> QED BY <2>4, <2>5
<1>5. CASE /\ polled => audioQ.len = 0
           /\ phase' = "control" /\ polled' = FALSE
           /\ UNCHANGED <<sess, ring, subs, retry, audioQ, wakeQ, net>>
  <2>1. StreamInv' BY <1>1, <1>2, <1>5 DEF StreamInv
  <2>2. BacklogInv' BY <1>1, <1>2, <1>3, <1>5 DEF BacklogInv, Connecting
  <2>3. UploadInv' BY <1>1, <1>2, <1>5 DEF UploadInv, Connecting
  <2> QED BY <2>1, <2>2, <2>3 DEF CaughtUp
<1>6. subs # "audio_closed" BY <1>2 DEF StreamInv
<1> QED BY <1>4, <1>5, <1>6 DEF DrainAudio, modelVars

LEMMA ControlUploads ==
  ASSUME SessionInv, Steady, CaughtUp, Control, UNCHANGED setup PROVE CaughtUp'
<1>1. phase = "control" /\ UNCHANGED <<polled, subs, retry, audioQ, wakeQ, cap>>
  BY DEF Control, wakedVars
<1>2. StreamInv /\ BacklogInv /\ UploadInv BY DEF CaughtUp
<1>3. /\ Delay \in Nat /\ setup.connect \in Nat /\ audioQ.len \in Nat /\ Delay' = Delay
      /\ sess.state \in States /\ (Active(sess) <=> sess.inUse)
      /\ ring.count \in Nat /\ (ring.count > 0 => RingEnd(ring) = ring.first + ring.count)
  BY SteadyMeans, Numbers DEF Delay
<1>4. audioQ.len <= setup.connect /\ (~Connecting => audioQ.len = 0) /\ wakeQ = <<>> /\ subs = "on"
  BY <1>1, <1>2 DEF BacklogInv, StreamInv
<1>5. CASE phase' = "pump" /\ UNCHANGED <<sess, ring, net>>
  <2>1. StreamInv' BY <1>1, <1>2, <1>4, <1>5 DEF StreamInv
  <2>2. BacklogInv' BY <1>1, <1>3, <1>4, <1>5 DEF BacklogInv, Connecting, Open
  <2>3. UploadInv' BY <1>1, <1>2, <1>5 DEF UploadInv, Connecting
  <2> QED BY <2>1, <2>2, <2>3 DEF CaughtUp
<1>6. CASE phase' = "pump" /\ ring' \in {ring, EmptyRing} /\ ~Active(sess')
  <2>1. StreamInv' BY <1>1, <1>2, <1>4, <1>6 DEF StreamInv, EmptyRing
  <2>2. BacklogInv' BY <1>1, <1>3, <1>4, <1>6 DEF BacklogInv, Connecting, Open, Active
  <2>3. UploadInv' BY <1>6 DEF UploadInv, Connecting, Open, Active
  <2> QED BY <2>1, <2>2, <2>3 DEF CaughtUp
<1>7. CASE NoRequest BY <1>5, <1>7 DEF NoRequest, modelVars
<1>8. CASE SetEnabled(TRUE)
  <2>1. sess' = sess /\ ring' = ring /\ phase' = "pump" BY <1>8 DEF SetEnabled
  <2>2. CASE Active(sess)
    <3>1. net' = net BY <1>3, <1>8, <2>1, <2>2 DEF SetEnabled, ModelFollows, modelVars
    <3> QED BY <1>5, <2>1, <3>1
  <2>3. CASE ~Active(sess) BY <1>6, <2>1, <2>3
  <2> QED BY <2>2, <2>3
<1>9. CASE SetEnabled(FALSE) \/ StopSession
  <2>1. sess' = Closed(sess, "stopped") /\ ring' \in {ring, EmptyRing} /\ phase' = "pump"
    BY <1>9 DEF SetEnabled, StopSession
  <2>2. ~Active(sess')
    <3>1. "stopped" \in Ends /\ Talks(sess, cut, said) BY DEF Ends, SessionInv
    <3> QED BY <2>1, <3>1, ClosedTalks
  <2> QED BY <1>6, <2>1, <2>2
<1>10. CASE StartSession(RingEnd(ring), "pump") /\ UNCHANGED <<enabled, ring>>
  <2>1. CASE phase' = "pump" /\ UNCHANGED <<sess, net>> BY <1>5, <1>10, <2>1
  <2>2. CASE /\ ~Active(sess) /\ ~WakeRefused(ring, RingEnd(ring))
             /\ sess' = Started(Woken(sess, ring, RingEnd(ring))) /\ phase' = "starting"
             /\ block' = [NoBlock EXCEPT !.back = "pump"]
    <3>1. audioQ.len = 0 BY <1>4, <2>2 DEF Connecting, Active
    <3>2. RingEnd(ring) \in Nat /\ audioQ.first \in Nat /\ ring.count > 0
      BY <1>3, <2>2, Numbers DEF WakeRefused
    <3>3. audioQ.first <= RingEnd(ring) + 1 BY <1>2, <1>3, <3>2 DEF StreamInv
    <3>4. audioQ.len <= Delay + 1 BY <1>3, <3>1
    <3>5. /\ sess'.state = "connecting" /\ block'.time = 0 /\ block'.back = "pump"
          /\ ring.count > 0 /\ ring.first <= sess'.next /\ sess'.next < RingEnd(ring)
          /\ RingEnd(ring) - sess'.next + audioQ.len + setup.connect - block'.time <= RingMax
      BY <1>1, <1>2, <1>10, <2>2, <3>2, <3>3, <3>4, StartUploads
    <3>6. StreamInv' BY <1>1, <1>2, <1>4, <1>10, <2>2 DEF StreamInv
    <3>7. BacklogInv' BY <1>1, <1>3, <2>2, <3>1, <3>5 DEF BacklogInv
    <3>8. UploadInv' BY <1>1, <1>10, <2>2, <3>5 DEF UploadInv, Open, Connecting
    <3> QED BY <3>6, <3>7, <3>8 DEF CaughtUp
  <2> QED BY <1>10, <2>1, <2>2 DEF StartSession, modelVars
<1> QED BY <1>7, <1>8, <1>9, <1>10 DEF Control

(* The end of a pump: what is owed and held is sent.                        *)
LEMMA PumpedUploads ==
  ASSUME SessionInv, Steady, CaughtUp, phase \in {"pump", "writing"},
         UNCHANGED <<subs, retry, ring, audioQ, wakeQ, cap, setup>>,
         NEW s \in Session, NEW late, Pumped(s, late), s.state # "connecting",
         Active(s) => ring.count > 0,
         Open(s) => s.next = RingEnd(ring) \/ Readable(ring, s.next)
  PROVE  CaughtUp'
<1>1. StreamInv /\ BacklogInv BY DEF CaughtUp
<1>2. /\ Delay \in Nat /\ setup.connect \in Nat /\ WriteMax \in Nat /\ audioQ.len \in Nat
      /\ Delay' = Delay /\ setup.connect <= Delay /\ WriteMax <= Delay
      /\ ring \in Ring /\ block.time \in Nat
  BY SteadyMeans, Numbers DEF Delay
<1>3. phase' = "wait" /\ sess' \in PumpResults(s, ring, late, May("send")) BY DEF Pumped
<1>4. /\ Active(sess') => Open(sess') /\ ring.count > 0
      /\ Open(sess') => sess'.next = RingEnd(ring)
  <2>1. CASE ~Active(s) /\ sess' = s BY <2>1 DEF Active, Open
  <2>2. CASE Open(s) /\ sess' = Flushed(s, ring)
    <3>1. /\ Alike(s, sess') /\ sess'.next = IF Sends(s, ring) THEN RingEnd(ring) ELSE s.next
      BY <1>2, <2>2, FlushedIs
    <3>2. sess'.next = RingEnd(ring) BY <2>2, <3>1 DEF Sends
    <3> QED BY <2>2, <3>1, <3>2 DEF Alike, Active, Open
  <2>3. CASE Active(s) /\ \E why \in Ends : sess' = Closed(s, why)
    <3>1. ~Active(sess') BY <2>3, ClosedIs
    <3> QED BY <3>1 DEF Active, Open
  <2> QED BY <1>2, <1>3, <2>1, <2>2, <2>3, PumpResultsIs
<1>5. audioQ.len <= Delay
  <2>1. CASE phase = "pump"
    <3>1. audioQ.len <= setup.connect BY <1>1, <2>1 DEF BacklogInv
    <3> QED BY <1>2, <3>1
  <2>2. CASE phase = "writing"
    <3>1. audioQ.len <= block.time /\ block.time <= WriteMax BY <1>1, <2>2 DEF BacklogInv
    <3> QED BY <1>2, <3>1
  <2> QED BY <2>1, <2>2
<1>6. StreamInv' BY <1>1, <1>3 DEF StreamInv
<1>7. BacklogInv' BY <1>2, <1>3, <1>5 DEF BacklogInv
<1>8. UploadInv' BY <1>3, <1>4 DEF UploadInv, Connecting, Active, Open
<1> QED BY <1>6, <1>7, <1>8 DEF CaughtUp

(* A write to the playback bus begins with nothing left in the socket.      *)
LEMMA BeginWriteUploads ==
  ASSUME SessionInv, Steady, CaughtUp, phase = "pump", Open(sess),
         UNCHANGED <<subs, retry, ring, audioQ, wakeQ, cap, setup>>,
         NEW s, NEW k \in Nat, BeginWrite(s, k), s.state = sess.state, s.next = sess.next
  PROVE  CaughtUp'
<1>1. StreamInv /\ BacklogInv /\ UploadInv BY DEF CaughtUp
<1>2. sess' = s /\ phase' = "writing" /\ block'.time = 0 BY BeginWriteIs
<1>3. Delay \in Nat /\ setup.connect \in Nat /\ WriteMax \in Nat /\ Delay' = Delay
  BY SteadyMeans, Numbers DEF Delay
<1>4. audioQ.len = 0 BY <1>1 DEF BacklogInv
<1>5. StreamInv' BY <1>1, <1>2 DEF StreamInv
<1>6. BacklogInv' BY <1>2, <1>3, <1>4 DEF BacklogInv
<1>7. UploadInv' BY <1>1, <1>2 DEF UploadInv, Connecting, Active, Open
<1> QED BY <1>5, <1>6, <1>7 DEF CaughtUp

LEMMA PumpUploads ==
  ASSUME SessionInv, Steady, CaughtUp, Pump, UNCHANGED setup PROVE CaughtUp'
<1>1. phase = "pump" /\ UNCHANGED <<polled, enabled, subs, retry, ring, audioQ, wakeQ, cap>>
  BY DEF Pump, wakedVars
<1>2. StreamInv /\ BacklogInv /\ UploadInv BY DEF CaughtUp
<1>3. /\ Types /\ Talks(sess, cut, said) /\ cut <= said /\ cut \in Nat /\ said \in Nat
      /\ Underway(net, srv, said, setup.ids, setup.turns) /\ setup.ids \in SUBSET Ids
  BY SetupTyped DEF SessionInv, Types
<1>4. sess \in Session /\ (Active(sess) => Open(sess) \/ Connecting)
  BY <1>3 DEF Talks, Active, Open, Connecting
<1>5. CASE ~Active(sess)
  <2>1. phase' = "wait" /\ UNCHANGED <<sess, block, net>> BY <1>5 DEF Pump, modelVars
  <2>2. /\ Delay \in Nat /\ setup.connect \in Nat /\ audioQ.len \in Nat /\ Delay' = Delay
        /\ setup.connect <= Delay
    BY SteadyMeans, Numbers DEF Delay
  <2>3. audioQ.len <= setup.connect BY <1>1, <1>2 DEF BacklogInv
  <2>4. StreamInv' BY <1>1, <1>2, <2>1 DEF StreamInv
  <2>5. BacklogInv' BY <1>1, <2>1, <2>2, <2>3 DEF BacklogInv
  <2>6. UploadInv' BY <1>5, <2>1 DEF UploadInv, Connecting, Active, Open
  <2> QED BY <2>4, <2>5, <2>6 DEF CaughtUp
<1>6. ASSUME Active(sess), PumpQuiet \/ PumpOutputDone \/ PumpChunk
      PROVE  CaughtUp'
  <2>1. Open(sess) /\ ring.count > 0 /\ sess.next = RingEnd(ring)
    <3>1. ~Connecting
      BY <1>1, <1>2, <1>6 DEF UploadInv, PumpQuiet, PumpOutputDone, PumpChunk, HasDone
    <3> QED BY <1>2, <1>4, <1>6, <3>1 DEF UploadInv
  <2>2. CASE PumpQuiet
    <3>1. Pumped(sess, 0) /\ sess.state # "connecting" BY <2>1, <2>2 DEF PumpQuiet, Open
    <3> QED BY <1>1, <1>4, <2>1, <3>1, PumpedUploads
  <2>3. CASE PumpOutputDone
    <3>1. Pumped(OutputDone(sess), 0) /\ ~HasChunk(sess) BY <2>3 DEF PumpOutputDone, HasDone
    <3>2. /\ Talks(OutputDone(sess), cut, said) /\ Open(OutputDone(sess))
          /\ OutputDone(sess).next = sess.next
      BY <1>3, <1>6, <3>1, OutputDoneIs
    <3>3. OutputDone(sess) \in Session /\ OutputDone(sess).state # "connecting"
      BY <3>2 DEF Talks, Open
    <3> QED BY <1>1, <2>1, <3>1, <3>2, <3>3, PumpedUploads
  <2>4. CASE PumpChunk
    <3>1. HasChunk(sess) /\ BeginWrite(NextChunk(sess), sess.turn) BY <2>4 DEF PumpChunk
    <3>2. sess.turn \in Nat BY <1>4 DEF Session
    <3>3. NextChunk(sess).state = sess.state /\ NextChunk(sess).next = sess.next
      BY <1>3, <1>6, <3>1, NextChunkIs
    <3> QED BY <1>1, <2>1, <3>1, <3>2, <3>3, BeginWriteUploads
  <2> QED BY <1>6, <2>2, <2>3, <2>4
<1>7. ASSUME Active(sess), PumpMessage PROVE CaughtUp'
  <2> DEFINE m == Head(net)
  <2>1. ~HasChunk(sess) /\ net # <<>> BY <1>7 DEF PumpMessage
  <2>2. /\ m \in Message
        /\ m.kind = "delta" => m.n > 0 /\ m.turn > 0 /\ m.turn = said
        /\ m.kind = "delegation" => m.id \in setup.ids
    BY <1>3, <2>1, MessageRead
  <2>3. /\ ring.count > 0 /\ (Connecting => m.kind = "ready" /\ Readable(ring, sess.next))
        /\ (~Connecting => Open(sess) /\ sess.next = RingEnd(ring))
    BY <1>1, <1>2, <1>4, <1>7 DEF UploadInv, Readable
  <2>4. CASE /\ m.kind = "delta" /\ ~sess.suppress
             /\ BeginWrite(Delta(sess, m.turn, m.n), m.turn)
    <3>1. m.turn \in Nat /\ m.n \in Nat /\ m.n > 0 /\ Open(sess)
      BY <2>2, <2>3, <2>4 DEF Message
    <3>2. m.turn > cut BY <1>3, <1>7, <2>2, <2>4 DEF Talks
    <3>3. /\ Delta(sess, m.turn, m.n).state = sess.state
          /\ Delta(sess, m.turn, m.n).next = sess.next
      BY <1>3, <1>7, <3>1, <3>2, DeltaIs
    <3> QED BY <1>1, <2>4, <3>1, <3>3, BeginWriteUploads
  <2>5. CASE /\ m.kind = "delegation"
             /\ \E delivered \in Outcomes("send"), ends \in BOOLEAN :
                   Pumped(Delegated(sess, m.id, delivered, ends), 0)
    <3>1. PICK delivered \in BOOLEAN, ends \in BOOLEAN :
             Pumped(Delegated(sess, m.id, delivered, ends), 0)
      BY <2>5 DEF Outcomes
    <3>2. m.id \in Ids /\ sess.next = RingEnd(ring) BY <1>3, <2>2, <2>3, <2>5
    <3> DEFINE s == Delegated(sess, m.id, delivered, ends)
    <3>3. Talks(s, cut, said) /\ (~Active(s) \/ (Open(s) /\ s.next = sess.next))
      BY <1>3, <1>7, <2>1, <3>2, DelegatedIs
    <3>4. Pumped(s, 0) BY <3>1
    <3> HIDE DEF s
    <3>5. s \in Session /\ s.state # "connecting" /\ (Open(s) => s.next = sess.next)
      BY <3>3 DEF Talks, Active, Open
    <3> QED BY <1>1, <2>3, <3>2, <3>4, <3>5, PumpedUploads
  <2>6. CASE m.kind # "delegation" /\ Pumped(Heard(sess, m.kind, 0), 0)
    <3> DEFINE s == Heard(sess, m.kind, 0)
    <3>1. /\ Talks(s, cut, IF m.kind = "userDone" THEN said + 1 ELSE said)
          /\ Active(s) => s.next = sess.next
          /\ m.kind = "ready" => Open(s)
          /\ Open(sess) => Open(s) \/ ~Active(s)
      BY <1>3, <1>7, <2>1, HeardIs
    <3>2. Pumped(s, 0) BY <2>6
    <3> HIDE DEF s
    <3>3. s \in Session /\ s.state # "connecting"
      BY <2>3, <3>1 DEF Talks, Active, Open
    <3>4. Open(s) => s.next = RingEnd(ring) \/ Readable(ring, s.next)
      BY <2>3, <3>1 DEF Active, Open
    <3> QED BY <1>1, <2>3, <3>2, <3>3, <3>4, PumpedUploads
  <2> QED BY <1>7, <2>4, <2>5, <2>6 DEF PumpMessage
<1> QED BY <1>5, <1>6, <1>7 DEF Pump

LEMMA WriteReturnsUploads ==
  ASSUME SessionInv, Steady, CaughtUp, WriteReturns, UNCHANGED setup PROVE CaughtUp'
<1>1. /\ phase = "writing"
      /\ UNCHANGED <<polled, enabled, subs, retry, ring, audioQ, wakeQ, cap>>
  BY DEF WriteReturns, wakedVars
<1>2. UploadInv /\ Talks(sess, cut, said) BY DEF CaughtUp, SessionInv
<1>3. Open(sess) /\ Active(sess) /\ sess.next = RingEnd(ring) /\ ring.count > 0
  BY <1>1, <1>2 DEF UploadInv, Open, Active
<1>4. PICK s : /\ s = Spoken(sess) \/ s = Closed(sess, "audio_failed")
               /\ Pumped(s, block.time)
  BY DEF WriteReturns
<1>5. /\ s \in Session /\ s.state # "connecting" /\ (Open(s) => s.next = sess.next)
  <2>1. CASE s = Spoken(sess) BY <1>2, <1>3, <2>1, SpokenIs DEF Talks, Open
  <2>2. CASE s = Closed(sess, "audio_failed")
    <3>1. "audio_failed" \in Ends BY DEF Ends
    <3>2. Talks(s, cut, said) /\ ~Active(s) BY <1>2, <2>2, <3>1, ClosedTalks
    <3> QED BY <3>2 DEF Talks, Active, Open
  <2> QED BY <1>4, <2>1, <2>2
<1> QED BY <1>1, <1>3, <1>4, <1>5, PumpedUploads

(* Time passes: one frame is captured, and one unit of what the daemon was  *)
(* allowed to be blocked for is used up.                                    *)
LEMMA TickUploads ==
  ASSUME SessionInv, Steady, CaughtUp, Tick, UNCHANGED setup PROVE CaughtUp'
<1>1. /\ sess' = Aged(sess) /\ Captured /\ UNCHANGED <<polled, ring, wakeQ, net>>
  BY DEF Tick, modelVars
<1>2. StreamInv /\ BacklogInv /\ UploadInv BY DEF CaughtUp
<1>3. /\ Delay \in Nat /\ setup.connect \in Nat /\ WriteMax \in Nat /\ setup.socket \in Nat
      /\ Delay' = Delay /\ setup.connect <= Delay /\ WriteMax <= Delay
      /\ Delay + setup.connect < setup.socket
      /\ audioQ.len \in Nat /\ audioQ.first \in Nat /\ cap \in Nat /\ block.time \in Nat
      /\ ring.count \in Nat /\ ring.first \in Nat /\ RingEnd(ring) \in Nat /\ RingMax \in Nat
      /\ sess \in Session /\ sess.next \in Nat /\ block \in BlockRec
  BY SteadyMeans, Numbers DEF Delay, SessionInv, Types
<1>4. \/ phase = "wait" /\ phase' = "top" /\ block' = block
      \/ /\ phase = "starting" /\ phase' = "starting" /\ block.time < setup.connect
         /\ block'.time = block.time + 1 /\ block'.back = block.back
      \/ /\ phase = "writing" /\ phase' = "writing" /\ block.time < WriteMax
         /\ block'.time = block.time + 1
  <2>1. CASE phase = "wait" /\ phase' = "top" /\ UNCHANGED block BY <2>1
  <2>2. CASE /\ \/ phase = "starting" /\ block.time < setup.connect
                \/ phase = "writing" /\ block.time < WriteMax
             /\ block' = [block EXCEPT !.time = @ + 1] /\ UNCHANGED phase
    <3>1. block'.time = block.time + 1 /\ block'.back = block.back
      BY <1>3, <2>2 DEF BlockRec
    <3> QED BY <2>2, <3>1
  <2> QED BY <2>1, <2>2 DEF Tick
<1>5. subs = "on" BY <1>2, <1>4 DEF StreamInv
<1>6. audioQ.len < setup.socket
  <2>1. CASE phase = "wait"
    <3>1. audioQ.len <= Delay BY <1>2, <2>1 DEF BacklogInv
    <3> QED BY <1>3, <3>1
  <2>2. CASE phase = "starting" /\ block.time < setup.connect
    <3>1. block.back \in {"wake", "pump"} BY <1>3 DEF BlockRec
    <3>2. audioQ.len <= Delay + 1 + block.time
      <4>1. CASE block.back = "wake" BY <1>2, <2>2, <4>1 DEF BacklogInv
      <4>2. CASE block.back = "pump"
        <5>1. audioQ.len <= block.time BY <1>2, <2>2, <4>2 DEF BacklogInv
        <5> QED BY <1>3, <5>1
      <4> QED BY <3>1, <4>1, <4>2
    <3> QED BY <1>3, <2>2, <3>2
  <2>3. CASE phase = "writing" /\ block.time < WriteMax
    <3>1. audioQ.len <= block.time BY <1>2, <2>3 DEF BacklogInv
    <3> QED BY <1>3, <2>3, <3>1
  <2> QED BY <1>4, <2>1, <2>2, <2>3
<1>7. /\ subs' = "on" /\ audioQ'.first = audioQ.first /\ audioQ'.len \in Nat
      /\ audioQ'.first + audioQ'.len = cap'
      /\ audioQ'.len <= audioQ.len + 1
  <2>1. audioQ.first + audioQ.len = cap /\ audioQ \in Socket(setup.socket)
    BY <1>2 DEF StreamInv, SessionInv, Types
  <2>2. CASE cap = setup.frames
    BY <1>1, <1>3, <1>5, <2>1, <2>2 DEF Captured
  <2>3. CASE cap # setup.frames
    <3> audioQ.len # setup.socket BY <1>3, <1>6
    <3>1. cap' = cap + 1 /\ subs' = "on" BY <1>1, <1>5, <2>3 DEF Captured
    <3>2. CASE audioQ.len = 0
      <4>1. audioQ' = [first |-> cap, len |-> 1] BY <1>1, <1>5, <2>3, <3>2 DEF Captured
      <4> QED BY <1>3, <2>1, <3>1, <3>2, <4>1
    <3>3. CASE audioQ.len # 0
      <4> DEFINE n == audioQ.len + 1
      <4>1. audioQ' = [audioQ EXCEPT !.len = n] /\ n \in Nat
        BY <1>1, <1>3, <1>5, <1>6, <2>3, <3>3 DEF Captured
      <4> HIDE DEF n
      <4>2. audioQ'.first = audioQ.first /\ audioQ'.len = n BY <2>1, <4>1 DEF Socket
      <4> QED BY <1>3, <2>1, <3>1, <4>2 DEF n
    <3> QED BY <3>2, <3>3
  <2> QED BY <2>2, <2>3
<1>8. /\ sess'.state = sess.state /\ sess'.next = sess.next /\ sess'.pending = sess.pending
      /\ (sess'.done <=> sess.done)
  BY <1>1, <1>3, AgedIs DEF Alike
<1>9. StreamInv'
  <2>1. ring.count > 0 => ring.first + ring.count = audioQ.first BY <1>2 DEF StreamInv
  <2>2. wakeQ # <<>> => audioQ.first <= Head(wakeQ) + 1 BY <1>2 DEF StreamInv
  <2> QED BY <1>1, <1>4, <1>7, <2>1, <2>2 DEF StreamInv
<1>10. BacklogInv'
  <2>1. CASE phase = "wait" /\ phase' = "top" /\ block' = block
    <3>1. audioQ.len <= Delay BY <1>2, <2>1 DEF BacklogInv
    <3>2. audioQ'.len <= Delay + 1 BY <1>3, <1>7, <3>1
    <3> QED BY <1>3, <2>1, <3>2 DEF BacklogInv
  <2>2. CASE /\ phase = "starting" /\ phase' = "starting" /\ block.time < setup.connect
             /\ block'.time = block.time + 1 /\ block'.back = block.back
    <3>1. /\ block.back = "wake" =>
               audioQ.len <= Delay + 1 + block.time /\ (~polled => audioQ.len <= block.time)
          /\ block.back = "pump" => audioQ.len <= block.time
      BY <1>2, <2>2 DEF BacklogInv
    <3>2. block'.time <= setup.connect BY <1>3, <2>2
    <3>3. block'.back = "pump" => audioQ'.len <= block'.time BY <1>3, <1>7, <2>2, <3>1
    <3>4. block'.back = "wake" =>
            audioQ'.len <= Delay + 1 + block'.time /\ (~polled => audioQ'.len <= block'.time)
      BY <1>3, <1>7, <2>2, <3>1
    <3> QED BY <1>1, <1>3, <2>2, <3>2, <3>3, <3>4 DEF BacklogInv
  <2>3. CASE /\ phase = "writing" /\ phase' = "writing" /\ block.time < WriteMax
             /\ block'.time = block.time + 1
    <3>1. audioQ.len <= block.time BY <1>2, <2>3 DEF BacklogInv
    <3>2. block'.time <= WriteMax /\ audioQ'.len <= block'.time BY <1>3, <1>7, <2>3, <3>1
    <3> QED BY <2>3, <3>2 DEF BacklogInv
  <2> QED BY <1>4, <2>1, <2>2, <2>3
<1>11. UploadInv'
  <2>1. Connecting => phase = "starting" BY <1>2, <1>4 DEF UploadInv
  <2>2. CASE Connecting
    <3>1. /\ ring.count > 0 /\ ring.first <= sess.next /\ sess.next < RingEnd(ring)
          /\ RingEnd(ring) - sess.next + audioQ.len + setup.connect - block.time <= RingMax
      BY <1>2, <2>1, <2>2 DEF UploadInv, Connecting, Active
    <3>2. phase' = "starting" /\ block'.time = block.time + 1 BY <1>4, <2>1, <2>2
    <3>3. RingEnd(ring) - sess.next + audioQ'.len + setup.connect - block'.time <= RingMax
      BY <1>3, <1>7, <3>1, <3>2
    <3> QED BY <1>1, <1>8, <2>2, <3>1, <3>2, <3>3 DEF UploadInv, Connecting, Active, Open
  <2>3. CASE ~Connecting
    BY <1>1, <1>2, <1>4, <1>8, <2>3 DEF UploadInv, Connecting, Active, Open
  <2> QED BY <2>2, <2>3
<1> QED BY <1>9, <1>10, <1>11 DEF CaughtUp

LEMMA WakedUploads ==
  ASSUME SessionInv, Steady, CaughtUp, WakeDetected, UNCHANGED setup PROVE CaughtUp'
<1>1. /\ Waiting
      /\ UNCHANGED <<phase, polled, block, enabled, subs, retry, sess, ring, audioQ, cap, net>>
  BY DEF WakeDetected, modelVars
<1>2. StreamInv /\ BacklogInv /\ UploadInv BY DEF CaughtUp
<1>3. cap \in Nat /\ audioQ.len \in Nat /\ audioQ.first \in Nat /\ Delay' = Delay
  BY Numbers DEF Delay
<1>4. PICK d \in {cap, cap - 1} : d > 0 /\ wakeQ' = <<d>> BY DEF WakeDetected
<1>5. Head(wakeQ') = d /\ audioQ.first <= d + 1
  BY <1>2, <1>3, <1>4 DEF StreamInv
<1>6. StreamInv' BY <1>1, <1>2, <1>5 DEF StreamInv, Waiting
<1>7. BacklogInv' BY <1>1, <1>2, <1>3 DEF BacklogInv, Connecting
<1>8. UploadInv' BY <1>1, <1>2 DEF UploadInv, Connecting
<1> QED BY <1>6, <1>7, <1>8 DEF CaughtUp

LEMMA ModelUploads ==
  ASSUME SessionInv, Steady, CaughtUp, Model, UNCHANGED setup PROVE CaughtUp'
<1>1. /\ srv.up /\ Waiting
      /\ UNCHANGED <<phase, polled, block, enabled, subs, retry, sess, ring, audioQ, wakeQ, cap>>
  BY DEF Model, wakedVars
<1>2. StreamInv /\ BacklogInv /\ UploadInv BY DEF CaughtUp
<1>3. phase \in {"wait", "writing"}
  <2>1. phase # "starting" BY <1>1 DEF SessionInv, Placed
  <2> QED BY <1>1, <2>1 DEF Waiting
<1>4. ~Connecting BY <1>2, <1>3 DEF UploadInv
<1>5. Delay' = Delay BY DEF Delay
<1>6. StreamInv' BY <1>1, <1>2 DEF StreamInv
<1>7. BacklogInv' BY <1>1, <1>2, <1>5 DEF BacklogInv, Connecting
<1>8. UploadInv' BY <1>1, <1>2, <1>4 DEF UploadInv, Connecting
<1> QED BY <1>6, <1>7, <1>8 DEF CaughtUp

LEMMA UploadStep ==
  ASSUME SessionInv, UploadAll, [ServiceNext]_serviceVars PROVE UploadAll'
<1>1. CASE UNCHANGED vars
  <2>1. CaughtUp' <=> CaughtUp
    BY <1>1 DEF vars, CaughtUp, StreamInv, BacklogInv, UploadInv, Delay, Connecting
  <2>2. Steady' <=> Steady BY <1>1 DEF vars, Steady
  <2> QED BY <2>1, <2>2 DEF UploadAll
<1>2. CASE InSession(Step)
  <2>1. UNCHANGED setup BY <1>2 DEF InSession, Kept
  <2>2. Steady' <=> Steady BY <2>1 DEF Steady
  <2> SUFFICES ASSUME Steady PROVE CaughtUp' BY <2>2 DEF UploadAll
  <2>3. CaughtUp BY DEF UploadAll
  <2>4. CASE BeginPass BY <2>1, <2>3, <2>4, BeginPassUploads
  <2>5. CASE DrainWake BY <2>1, <2>3, <2>5, DrainWakeUploads
  <2>6. CASE StartReturns BY <2>1, <2>3, <2>6, StartReturnsUploads
  <2>7. CASE DrainAudio BY <2>1, <2>3, <2>7, DrainAudioUploads
  <2>8. CASE Control BY <2>1, <2>3, <2>8, ControlUploads
  <2>9. CASE Pump BY <2>1, <2>3, <2>9, PumpUploads
  <2>10. CASE WriteReturns BY <2>1, <2>3, <2>10, WriteReturnsUploads
  <2>11. CASE Tick BY <2>1, <2>3, <2>11, TickUploads
  <2>12. CASE WakeDetected BY <2>1, <2>3, <2>12, WakedUploads
  <2>13. CASE WakedRestarts
    <3>1. ~May("waked") BY SteadyMeans DEF SessionInv, Types
    <3> QED BY <2>13, <3>1 DEF WakedRestarts
  <2>14. CASE Model BY <2>1, <2>3, <2>14, ModelUploads
  <2> QED BY <1>2, <2>4, <2>5, <2>6, <2>7, <2>8, <2>9, <2>10, <2>11, <2>12, <2>13, <2>14
          DEF InSession, Step, LivedStep
<1>3. CASE OnWire(WireNext) BY <1>1, <1>3 DEF OnWire
<1> QED BY <1>1, <1>2, <1>3 DEF ServiceNext, serviceVars

(* Whenever the daemon goes back to sleep, an open conversation has been    *)
(* sent every frame since its wake word, as long as the ring and the socket *)
(* hold what waked publishes while a call blocks (flush_pending).           *)
THEOREM UploadAlwaysCurrent == ServiceSpec => []UploadCurrent
<1>1. ServiceInit => SessionInv /\ UploadAll BY SessionInit, UploadInit DEF ServiceInit
<1>2. SessionInv /\ UploadAll /\ [ServiceNext]_serviceVars => SessionInv' /\ UploadAll'
  BY SessionStep, UploadStep
<1>3. SessionInv /\ UploadAll => UploadCurrent
  BY DEF UploadCurrent, UploadAll, CaughtUp, UploadInv
<1> QED BY <1>1, <1>2, <1>3, PTL DEF ServiceSpec

-----------------------------------------------------------------------------
(* The ring light.  LightInv says more than RingTruthful: a cue and the one *)
(* remembered under it have different owners, so that the end of one never  *)
(* brings back another of the same owner; nothing is remembered under a cue *)
(* of "mute", so that its end is the end of the underlay too; and every     *)
(* colour that may come back, from under a cue or the test pattern, is the  *)
(* one last asked for.                                                      *)

(* The names a ring may hold: those of requests and those of the code. *)
Words == Names \cup {None, Anyone, Mute, "action", "flash", "solid", "off"}
Cues == [kind : Words, owner : Words]
Pictures == [layer : {"startup", "test", "meter", "music", "sleep", "breathing", "cue", "rest"},
             of : Words]
StateFiles == [cur : Words, idle : Words, sleep : Words, timed : BOOLEAN]
RingRec ==
  [startup : BOOLEAN, test : BOOLEAN, tcol : Words, tanim : BOOLEAN, cue : Cues, prev : Cues,
   scol : Words, sanim : BOOLEAN, mute : BOOLEAN, meter : BOOLEAN, vis : BOOLEAN,
   visible : BOOLEAN, anim : BOOLEAN, cur : Words, idle : Words, asleep : BOOLEAN,
   sleep : Words, timed : BOOLEAN, lit : BOOLEAN, owed : BOOLEAN, frame : Pictures,
   pending : BOOLEAN, valid : BOOLEAN]

(* The cues of a ring x, for the owners ws who want one.  A cue returns     *)
(* under another name than the one that ends, unless neither has an owner.  *)
Wanted(x, ws) ==
  /\ x.cue = NoCue => x.prev = NoCue
  /\ x.cue # NoCue => x.cue.owner \in ws
  /\ x.prev # NoCue => x.prev.owner \in ws
  /\ x.mute => Mute \in ws
  /\ x.prev # NoCue /\ x.cue.owner # Anyone => x.prev.owner # x.cue.owner
(* Nothing is remembered under a cue of "mute": it only comes when nothing  *)
(* else is shown, and what comes over it remembers it.                      *)
MuteAlone(x) == x.cue.owner = Mute => x.prev = NoCue

(* Every colour that may come back, under a cue or the test, is c. *)
Rests(x, c) ==
  x.cur = c /\ (x.test => x.tcol = c) /\ (x.cue # NoCue => x.scol = c)

(* y differs from x only in what is drawn over the cues. *)
SameCues(x, y) ==
  /\ y \in RingRec
  /\ y.cue = x.cue /\ y.prev = x.prev /\ y.mute = x.mute
  /\ y.cur = x.cur /\ y.scol = x.scol /\ y.test = x.test /\ y.tcol = x.tcol

LightInv ==
  /\ r \in RingRec /\ disk \in StateFiles
  /\ Wanted(r, wanted) /\ MuteAlone(r)
  /\ ~blurred => Rests(r, chosen) /\ disk.cur = chosen

LEMMA CuesCarry ==
  ASSUME NEW x, NEW y, SameCues(x, y), NEW ws, NEW c
  PROVE  /\ Wanted(x, ws) => Wanted(y, ws)
         /\ MuteAlone(x) => MuteAlone(y)
         /\ Rests(x, c) => Rests(y, c)
  BY DEF SameCues, Wanted, MuteAlone, Rests

LEMMA Chain ==
  ASSUME NEW x, NEW y, NEW z, SameCues(x, y), SameCues(y, z)
  PROVE  SameCues(x, z)
  BY DEF SameCues

LEMMA DrawIs ==
  ASSUME NEW x \in RingRec, NEW f \in Pictures
  PROVE  SameCues(x, Draw(x, f))
  BY DEF SameCues, Draw, RingRec

LEMMA LayerIs ==
  ASSUME NEW x \in RingRec
  PROVE  Layer(x) \in Pictures /\ Base(x) \in Pictures
  BY DEF RingRec, Layer, Base, Pictures, Picture, MusicFrame, Breathing, SleepFrame, Words

LEMMA FramesAre ==
  /\ {StartupFrame, TestFrame, MeterFrame, MusicFrame, SleepFrame} \subseteq Pictures
  /\ \A o \in Words : CueFrame(o) \in Pictures
  BY DEF Pictures, Picture, StartupFrame, TestFrame, MeterFrame, MusicFrame, SleepFrame, CueFrame, Words

LEMMA DrawnOver ==
  ASSUME NEW x \in RingRec, NEW y \in RingRec, SameCues(x, y)
  PROVE  SameCues(x, Draw(y, Layer(y))) /\ SameCues(x, Draw(y, Base(y)))
  BY DrawIs, LayerIs, Chain

LEMMA SmallSteps ==
  ASSUME NEW x \in RingRec, NEW due
  PROVE  /\ SameCues(x, x)
         /\ SameCues(x, ExpireVisualizer(x, due)) /\ SameCues(x, MeterExpires(x, due))
         /\ \A v \in BOOLEAN : /\ SameCues(x, [x EXCEPT !.startup = v])
                               /\ SameCues(x, [x EXCEPT !.meter = v])
                               /\ SameCues(x, [x EXCEPT !.vis = v])
                               /\ SameCues(x, [x EXCEPT !.visible = v])
                               /\ SameCues(x, [x EXCEPT !.asleep = v])
                               /\ SameCues(x, [x EXCEPT !.owed = v])
<1>1. \A v \in BOOLEAN : /\ SameCues(x, [x EXCEPT !.startup = v])
                        /\ SameCues(x, [x EXCEPT !.meter = v])
                        /\ SameCues(x, [x EXCEPT !.vis = v])
                        /\ SameCues(x, [x EXCEPT !.visible = v])
                        /\ SameCues(x, [x EXCEPT !.asleep = v])
                        /\ SameCues(x, [x EXCEPT !.owed = v])
  BY DEF SameCues, RingRec
<1>2. (x.vis /\ "music" \notin due) \in BOOLEAN /\ (x.meter /\ "meter" \notin due) \in BOOLEAN
  OBVIOUS
<1>3. ExpireVisualizer(x, due) = [x EXCEPT !.vis = x.vis /\ "music" \notin due]
  BY DEF ExpireVisualizer, RingRec
<1>4. MeterExpires(x, due) = [x EXCEPT !.meter = x.meter /\ "meter" \notin due]
  BY DEF MeterExpires, RingRec
<1>5. SameCues(x, x)
  BY DEF SameCues
<1> QED
  BY <1>1, <1>2, <1>3, <1>4, <1>5

(* The disk after a save, and without one. *)
Disks(x, d, e) == e \in {d, Saved(x)}

LEMMA SaveIs ==
  ASSUME NEW x \in RingRec
  PROVE  Saved(x) \in StateFiles /\ Saved(x).cur = x.cur
  BY DEF RingRec, Saved, StateFiles

LEMMA PersistIs ==
  ASSUME NEW x \in RingRec, NEW d, NEW ok
  PROVE  Persist(x, d, ok).x = x /\ Disks(x, d, Persist(x, d, ok).disk)
  BY DEF Persist, With, Disks

(* The sleep light goes off. *)
LEMMA DarkIs ==
  ASSUME NEW x \in RingRec, NEW v \in BOOLEAN
  PROVE  SameCues(x, [x EXCEPT !.lit = FALSE, !.sleep = "off", !.owed = v])
<1> DEFINE unlit == [x EXCEPT !.lit = FALSE]
           dark == [unlit EXCEPT !.sleep = "off"]
           y == [dark EXCEPT !.owed = v]
<1>1. SameCues(x, unlit)
  BY DEF SameCues, RingRec
<1>2. unlit \in RingRec
  BY <1>1 DEF SameCues
<1>3. y = [x EXCEPT !.lit = FALSE, !.sleep = "off", !.owed = v]
  OBVIOUS
<1> HIDE DEF unlit
<1>4. SameCues(unlit, dark)
  <2>1. "off" \in Words
    BY DEF Words
  <2> QED
    BY <1>2, <2>1 DEF SameCues, RingRec
<1>5. dark \in RingRec
  BY <1>4 DEF SameCues
<1> HIDE DEF dark
<1>6. SameCues(dark, y)
  BY <1>5, SmallSteps
<1>7. SameCues(x, y)
  BY <1>1, <1>4, <1>6, Chain
<1> QED
  BY <1>3, <1>7

LEMMA TickIs ==
  ASSUME NEW x \in RingRec, NEW d \in StateFiles, NEW due, NEW ok \in BOOLEAN
  PROVE  LET t == SleepTick(x, d, due, ok)
         IN SameCues(x, t.x) /\ t.disk \in StateFiles
            /\ (t.disk.cur = d.cur \/ t.disk.cur = x.cur)
<1> DEFINE p == Owes(x, d, due, ok)
           dark == [p.x EXCEPT !.lit = FALSE, !.sleep = "off", !.owed = ~ok]
           off == ExpireVisualizer(dark, due)
           t == SleepTick(x, d, due, ok)
<1>1. SameCues(x, p.x) /\ p.disk \in StateFiles /\ (p.disk.cur = d.cur \/ p.disk.cur = x.cur)
  <2>1. CASE x.owed /\ "owed" \in due
    <3> DEFINE y == [x EXCEPT !.owed = ~ok]
    <3>1. SameCues(x, y)
      BY SmallSteps
    <3>2. y \in RingRec /\ y.cur = x.cur
      BY <3>1 DEF SameCues
    <3>3. p = Persist(y, d, ok)
      BY <2>1 DEF Owes
    <3> HIDE DEF p, y
    <3>4. p.x = y /\ Disks(y, d, p.disk)
      BY <3>2, <3>3, PersistIs
    <3> QED
      BY <3>1, <3>2, <3>4, SaveIs DEF Disks
  <2>2. CASE ~(x.owed /\ "owed" \in due)
    BY <2>2, SmallSteps DEF Owes, With
  <2> QED
    BY <2>1, <2>2
<1>2. p.x \in RingRec
  BY <1>1 DEF SameCues
<1>3. SameCues(x, dark)
  <2>1. SameCues(p.x, dark)
    <3>1. (~ok) \in BOOLEAN
      OBVIOUS
    <3> HIDE DEF p
    <3> QED
      BY <1>2, <3>1, DarkIs
  <2> QED
    BY <1>1, <2>1, Chain
<1>4. off \in RingRec /\ SameCues(x, off)
  <2>1. dark \in RingRec
    BY <1>3 DEF SameCues
  <2>2. SameCues(dark, off)
    BY <2>1, SmallSteps
  <2> QED
    BY <1>3, <2>2, Chain DEF SameCues
<1>5. SameCues(x, Draw(off, Layer(off)))
  BY <1>4, DrawnOver
<1>6. Draw(off, Layer(off)) \in RingRec /\ Draw(off, Layer(off)).cur = x.cur
  BY <1>5 DEF SameCues
<1>7. t = IF p.x.lit /\ p.x.timed /\ "sleep" \in due
          THEN Persist(Draw(off, Layer(off)), p.disk, ok) ELSE p
  BY DEF SleepTick
<1> HIDE DEF p, off, t
<1>8. CASE t = p
  BY <1>1, <1>8 DEF t
<1>9. CASE t = Persist(Draw(off, Layer(off)), p.disk, ok)
  BY <1>1, <1>5, <1>6, <1>9, PersistIs, SaveIs DEF Disks, t
<1> QED
  BY <1>7, <1>8, <1>9

LEMMA IdleIs ==
  ASSUME NEW x \in RingRec, NEW due
  PROVE  /\ SameCues(x, IdleNoteActivity(x)) /\ SameCues(x, IdleAutoOffTick(x))
         /\ SameCues(x, StartupTurn(x, due)) /\ SameCues(x, Redrawn(x))
<1>1. SameCues(x, x)
  BY SmallSteps
<1>2. SameCues(x, IdleNoteActivity(x))
  <2> DEFINE w == [x EXCEPT !.asleep = FALSE]
  <2>1. SameCues(x, w) /\ w \in RingRec
    BY SmallSteps DEF SameCues
  <2>2. SameCues(x, Draw(w, Base(w)))
    BY <2>1, DrawnOver
  <2> QED
    BY <2>1, <2>2 DEF IdleNoteActivity
<1>3. SameCues(x, IdleAutoOffTick(x))
  <2> DEFINE w == [x EXCEPT !.asleep = TRUE]
  <2>1. SameCues(x, w) /\ w \in RingRec
    BY SmallSteps DEF SameCues
  <2>2. SameCues(x, Draw(w, Base(w)))
    BY <2>1, DrawnOver
  <2> QED
    BY <1>1, <2>1, <2>2 DEF IdleAutoOffTick
<1>4. SameCues(x, StartupTurn(x, due))
  <2> DEFINE w == [x EXCEPT !.startup = FALSE]
  <2>1. SameCues(x, w) /\ w \in RingRec
    BY SmallSteps DEF SameCues
  <2>2. SameCues(x, Draw(w, Base(w)))
    BY <2>1, DrawnOver
  <2>3. SameCues(x, Draw(x, StartupFrame))
    BY DrawIs, FramesAre
  <2> QED
    BY <2>2, <2>3 DEF StartupTurn
<1>5. SameCues(x, Redrawn(x))
  BY <1>1, DrawnOver DEF Redrawn
<1> QED
  BY <1>2, <1>3, <1>4, <1>5

(* stop_pattern: only what stops a cue of this owner's, or all of them. *)
LEMMA StopIs ==
  ASSUME NEW x \in RingRec, NEW o \in Words, MuteAlone(x)
  PROVE  LET y == StopPattern(x, o)
         IN /\ y \in RingRec /\ MuteAlone(y)
            /\ y.test = x.test /\ y.tcol = x.tcol
            /\ \A ws : Wanted(x, ws) => Wanted(y, IF o = Anyone THEN {} ELSE ws \ {o})
            /\ \A c : Rests(x, c) => Rests(y, c)
<1> DEFINE y == StopPattern(x, o)
           m == [x EXCEPT !.mute = @ /\ o \notin {Anyone, Mute}]
           done == [m EXCEPT !.cue = NoCue, !.prev = NoCue, !.cur = x.scol, !.anim = x.sanim]
<1>n. NoCue \in Cues /\ [kind |-> "solid", owner |-> Mute] \in Cues /\ NoCue = [kind |-> None, owner |-> None]
  BY DEF Cues, Words, NoCue
<1>a. None # Anyone /\ None # Mute /\ Mute # Anyone /\ [kind |-> "solid", owner |-> Mute] # NoCue
  BY DEF None, Anyone, Mute, NoCue
<1>m. /\ m \in RingRec /\ (m.mute <=> x.mute /\ o # Anyone /\ o # Mute)
      /\ m.cue = x.cue /\ m.prev = x.prev /\ m.cur = x.cur /\ m.scol = x.scol
      /\ m.test = x.test /\ m.tcol = x.tcol
  <2>1. (x.mute /\ o \notin {Anyone, Mute}) \in BOOLEAN
    OBVIOUS
  <2> QED
    BY <2>1 DEF RingRec
<1> HIDE DEF m
<1>1. CASE x.cue = NoCue
  <2>1. y = m
    BY <1>1 DEF m, StopPattern
  <2> QED
    BY <1>1, <1>m, <2>1, <1>a, <1>n DEF Wanted, MuteAlone, Rests
<1>2. CASE x.cue # NoCue /\ o # Anyone /\ x.cue.owner # o
  <2>1. y = [m EXCEPT !.prev = IF @.owner = o THEN NoCue ELSE @]
    BY <1>2 DEF m, StopPattern
  <2>2. /\ y \in RingRec /\ (y.mute <=> m.mute) /\ y.cue = x.cue /\ y.cur = x.cur /\ y.scol = x.scol
        /\ y.test = x.test /\ y.tcol = x.tcol
        /\ y.prev = IF x.prev.owner = o THEN NoCue ELSE x.prev
    BY <1>m, <2>1, <1>n DEF RingRec
  <2> QED
    BY <1>2, <1>m, <2>2, <1>a, <1>n, SMTT(60) DEF Wanted, MuteAlone, Rests, Mute
<1>3. CASE x.cue # NoCue /\ o # Anyone /\ x.cue.owner = o /\ x.prev # NoCue
  <2>1. y = [m EXCEPT !.cue = m.prev, !.prev = NoCue]
    BY <1>3, <1>m DEF m, StopPattern, Restored
  <2>2. /\ y \in RingRec /\ (y.mute <=> m.mute) /\ y.cue = x.prev /\ y.cur = x.cur /\ y.scol = x.scol
        /\ y.test = x.test /\ y.tcol = x.tcol /\ y.prev = NoCue
    <3> DEFINE z == [m EXCEPT !.cue = m.prev]
    <3>1. z \in RingRec
      BY <1>m DEF RingRec
    <3>2. /\ z.mute = m.mute /\ z.cue = m.prev /\ z.cur = m.cur /\ z.scol = m.scol
          /\ z.test = m.test /\ z.tcol = m.tcol
      BY <1>m DEF RingRec
    <3>3. y = [z EXCEPT !.prev = NoCue]
      BY <2>1
    <3> HIDE DEF z, y
    <3> QED
      BY <1>m, <3>1, <3>2, <3>3, <1>n DEF RingRec
  <2> QED
    BY <1>3, <1>m, <2>2, <1>a, <1>n, SMTT(60) DEF Wanted, MuteAlone, Rests, Mute
<1>4. CASE x.cue # NoCue /\ o # Anyone /\ x.cue.owner = o /\ x.prev = NoCue /\ m.mute
  <2>1. y = [m EXCEPT !.cue = [kind |-> "solid", owner |-> Mute]]
    BY <1>4, <1>m DEF m, StopPattern
  <2>2. /\ y \in RingRec /\ (y.mute <=> m.mute) /\ y.cue = [kind |-> "solid", owner |-> Mute]
        /\ y.cur = x.cur /\ y.scol = x.scol
        /\ y.test = x.test /\ y.tcol = x.tcol /\ y.prev = NoCue
    BY <1>4, <1>m, <2>1, <1>n DEF RingRec
  <2> QED
    BY <1>4, <1>m, <2>2, <1>a, <1>n DEF Wanted, MuteAlone, Rests, Mute
<1>5. CASE x.cue # NoCue /\ (o = Anyone \/ (x.cue.owner = o /\ x.prev = NoCue /\ ~m.mute))
  <2>1. y = Draw(done, Layer(done))
    BY <1>5, <1>m DEF m, StopPattern
  <2>2. /\ done \in RingRec /\ (done.mute <=> m.mute) /\ done.cue = NoCue
        /\ done.cur = x.scol /\ done.scol = x.scol
        /\ done.test = x.test /\ done.tcol = x.tcol /\ done.prev = NoCue
    <3> DEFINE z == [m EXCEPT !.cue = NoCue, !.prev = NoCue]
               v == [z EXCEPT !.cur = x.scol]
    <3>1. x.scol \in Words /\ x.sanim \in BOOLEAN
      BY DEF RingRec
    <3>2. /\ z \in RingRec /\ z.mute = m.mute /\ z.cue = NoCue /\ z.prev = NoCue
          /\ z.scol = m.scol /\ z.test = m.test /\ z.tcol = m.tcol
      BY <1>m, <1>n DEF RingRec
    <3>3. done = [v EXCEPT !.anim = x.sanim]
      OBVIOUS
    <3> HIDE DEF z, done
    <3>4. /\ v \in RingRec /\ v.mute = z.mute /\ v.cue = z.cue /\ v.prev = z.prev /\ v.cur = x.scol
          /\ v.scol = z.scol /\ v.test = z.test /\ v.tcol = z.tcol
      BY <3>1, <3>2 DEF RingRec
    <3> HIDE DEF v
    <3>5. /\ done \in RingRec /\ done.mute = v.mute /\ done.cue = v.cue /\ done.prev = v.prev
          /\ done.cur = v.cur /\ done.scol = v.scol /\ done.test = v.test /\ done.tcol = v.tcol
      BY <3>1, <3>3, <3>4 DEF RingRec
    <3> QED
      BY <1>m, <3>2, <3>4, <3>5
  <2>3. SameCues(done, y)
    BY <2>1, <2>2, DrawnOver, SmallSteps
  <2>4. /\ y \in RingRec /\ (y.mute <=> m.mute) /\ y.cue = NoCue
        /\ y.cur = x.scol /\ y.scol = x.scol
        /\ y.test = x.test /\ y.tcol = x.tcol /\ y.prev = NoCue
    BY <2>2, <2>3 DEF SameCues
  <2> QED
    BY <1>5, <1>m, <2>4, <1>a, <1>n DEF Wanted, MuteAlone, Rests
<1> QED
  BY <1>1, <1>2, <1>3, <1>4, <1>5

LEMMA StartIs ==
  ASSUME NEW x \in RingRec, NEW k \in Words, NEW o \in Words, MuteAlone(x),
         k # None
  PROVE  LET y == StartPattern(x, k, o)
         IN /\ y \in RingRec /\ MuteAlone(y)
            /\ y.test = x.test /\ y.tcol = x.tcol /\ y.cue # NoCue
            /\ \A ws : Wanted(x, ws) => Wanted(y, ws \cup {o})
            /\ \A c : Rests(x, c) => Rests(y, c)
<1> DEFINE y == StartPattern(x, k, o)
           m == [x EXCEPT !.mute = @ \/ o = Mute]
           cue == [kind |-> k, owner |-> o]
           new == [m EXCEPT !.cue = cue, !.anim = FALSE]
<1>n. NoCue \in Cues /\ cue \in Cues /\ cue # NoCue /\ cue.owner = o /\ cue.kind = k
  BY DEF Cues, Words, NoCue
<1>q. NoCue.owner # Mute
  BY DEF NoCue, None, Mute
<1>a. Mute # Anyone
  BY DEF Mute, Anyone
<1>m. /\ m \in RingRec /\ (m.mute <=> x.mute \/ o = Mute)
      /\ m.cue = x.cue /\ m.prev = x.prev /\ m.cur = x.cur /\ m.scol = x.scol
      /\ m.test = x.test /\ m.tcol = x.tcol
  <2>1. (x.mute \/ o = Mute) \in BOOLEAN
    OBVIOUS
  <2> QED
    BY <2>1 DEF RingRec
<1>p. x.cue \in Cues /\ x.prev \in Cues /\ x.anim \in BOOLEAN /\ x.cur \in Words
  BY DEF RingRec
<1> HIDE DEF m, cue
<1>e. /\ new \in RingRec /\ (new.mute <=> m.mute) /\ new.cue = cue /\ new.prev = x.prev
      /\ new.cur = x.cur /\ new.scol = x.scol /\ new.test = x.test /\ new.tcol = x.tcol
  BY <1>m, <1>n DEF RingRec
<1> HIDE DEF new
<1>1. CASE o = Mute /\ x.cue # NoCue /\ x.cue.owner # Mute
  <2>1. y = m
    BY <1>1 DEF m, StartPattern
  <2> QED
    BY <1>1, <1>m, <2>1 DEF Wanted, MuteAlone, Rests
<1>2. CASE x.cue = NoCue
  <2>1. y = [new EXCEPT !.prev = NoCue, !.scol = x.cur, !.sanim = x.anim]
    BY <1>2 DEF m, new, cue, StartPattern
  <2>2. /\ y \in RingRec /\ y.mute = new.mute /\ y.cue = cue /\ y.prev = NoCue
        /\ y.cur = x.cur /\ y.scol = x.cur /\ y.test = x.test /\ y.tcol = x.tcol
    <3> DEFINE n1 == [new EXCEPT !.prev = NoCue]
               n2 == [n1 EXCEPT !.scol = x.cur]
    <3>1. /\ n1 \in RingRec /\ n1.mute = new.mute /\ n1.cue = cue /\ n1.prev = NoCue
          /\ n1.cur = x.cur /\ n1.test = x.test /\ n1.tcol = x.tcol
      BY <1>e, <1>n DEF RingRec
    <3>2. y = [n2 EXCEPT !.sanim = x.anim]
      BY <1>e, <2>1 DEF RingRec
    <3> HIDE DEF n1
    <3>3. /\ n2 \in RingRec /\ n2.mute = new.mute /\ n2.cue = cue /\ n2.prev = NoCue
          /\ n2.cur = x.cur /\ n2.scol = x.cur /\ n2.test = x.test /\ n2.tcol = x.tcol
      BY <3>1, <1>p DEF RingRec
    <3> HIDE DEF n2
    <3> QED
      BY <3>2, <3>3, <1>p DEF RingRec
  <2> QED
    BY <1>2, <1>e, <1>m, <1>n, <1>q, <2>2 DEF Wanted, MuteAlone, Rests
<1>3. CASE x.cue # NoCue /\ (o = Mute => x.cue.owner = Mute) /\ (o = Anyone \/ x.cue.owner # o)
  <2>1. y = [new EXCEPT !.prev = x.cue]
    BY <1>3 DEF m, new, cue, StartPattern
  <2>2. /\ y \in RingRec /\ (y.mute <=> m.mute) /\ y.cue = cue /\ y.prev = x.cue
        /\ y.cur = x.cur /\ y.scol = x.scol /\ y.test = x.test /\ y.tcol = x.tcol
    BY <1>e, <1>p, <2>1 DEF RingRec
  <2> QED
    BY <1>3, <1>a, <1>m, <1>n, <1>q, <2>2 DEF Wanted, MuteAlone, Rests
<1>4. CASE x.cue # NoCue /\ o # Anyone /\ x.cue.owner = o
  <2>1. y = new
    BY <1>4 DEF m, new, cue, StartPattern
  <2> QED
    BY <1>4, <1>m, <1>n, <1>q, <1>e, <2>1 DEF Wanted, MuteAlone, Rests
<1> QED
  BY <1>1, <1>2, <1>3, <1>4

(* Outlives, of any ring and any set of owners. *)
Surviving(x, ws) ==
  IF x.prev.owner = x.cue.owner THEN ws
  ELSE IF x.prev = NoCue /\ x.cue.owner = Anyone THEN {}
  ELSE ws \ {x.cue.owner}

LEMMA UpdateIs ==
  ASSUME NEW x \in RingRec, NEW due, MuteAlone(x), x.cue # NoCue
  PROVE  LET y == UpdatePattern(x, due)
         IN /\ y \in RingRec /\ MuteAlone(y)
            /\ \A ws : Wanted(x, ws) => Wanted(y, IF Finished(x, due) THEN Surviving(x, ws) ELSE ws)
            /\ \A c : Rests(x, c) => Rests(y, c)
<1> DEFINE y == UpdatePattern(x, due)
           back == [x EXCEPT !.cue = x.prev, !.prev = NoCue]
<1>n. NoCue \in Cues /\ NoCue = [kind |-> None, owner |-> None] /\ None # Mute
  BY DEF Cues, Words, NoCue, None, Mute
<1>w. x.cue.owner \in Words /\ x.prev.owner \in Words
  BY DEF RingRec, Cues
<1>1. CASE ~Finished(x, due)
  <2>1. SameCues(x, y)
    BY <1>1, <1>w, DrawIs, FramesAre DEF UpdatePattern
  <2>2. y \in RingRec
    BY <2>1 DEF SameCues
  <2> QED
    BY <1>1, <2>1, <2>2, CuesCarry
<1>2. CASE Finished(x, due) /\ x.prev # NoCue
  <2>1. /\ back \in RingRec /\ back.cue = x.prev /\ back.prev = NoCue /\ back.mute = x.mute
        /\ back.cur = x.cur /\ back.scol = x.scol /\ back.test = x.test /\ back.tcol = x.tcol
    BY <1>n DEF RingRec
  <2>2. y = Draw(back, CueFrame(x.prev.owner))
    BY <1>2 DEF UpdatePattern, Restored
  <2> HIDE DEF back
  <2>3. SameCues(back, y)
    BY <1>w, <2>1, <2>2, DrawIs, FramesAre
  <2>4. x.cue.owner # Mute
    BY <1>2 DEF Finished, MuteAlone
  <2>5. MuteAlone(back)
    BY <1>n, <2>1 DEF MuteAlone
  <2>6. \A ws : Wanted(x, ws) => Wanted(back, Surviving(x, ws))
    BY <1>2, <1>n, <2>1, <2>4 DEF Wanted, Surviving
  <2>7. \A c : Rests(x, c) => Rests(back, c)
    BY <1>2, <2>1 DEF Rests
  <2>8. y \in RingRec
    BY <2>3 DEF SameCues
  <2> QED
    BY <1>2, <2>3, <2>5, <2>6, <2>7, <2>8, CuesCarry
<1>3. CASE Finished(x, due) /\ x.prev = NoCue
  <2> DEFINE o == x.cue.owner
  <2>1. y = StopPattern(x, o)
    BY <1>3 DEF UpdatePattern
  <2>2. \A ws : Wanted(y, IF o = Anyone THEN {} ELSE ws \ {o}) => Wanted(y, Surviving(x, ws))
    BY <1>3 DEF Wanted, Surviving
  <2> HIDE DEF y
  <2>3. /\ y \in RingRec /\ MuteAlone(y) /\ \A c : Rests(x, c) => Rests(y, c)
        /\ \A ws : Wanted(x, ws) => Wanted(y, IF o = Anyone THEN {} ELSE ws \ {o})
    BY <1>w, <2>1, StopIs
  <2> QED
    BY <1>3, <2>2, <2>3 DEF y
<1> QED
  BY <1>1, <1>2, <1>3

LEMMA AnimationIs ==
  ASSUME NEW x \in RingRec, NEW was, NEW due, MuteAlone(x)
  PROVE  LET y == UpdateAnimation(x, was, due)
         IN /\ y \in RingRec /\ MuteAlone(y)
            /\ \A ws : Wanted(x, ws)
                         => Wanted(y, IF ~x.test /\ Finished(x, due) THEN Surviving(x, ws) ELSE ws)
            /\ \A c : Rests(x, c) => Rests(y, c)
<1> DEFINE y == UpdateAnimation(x, was, due)
           Good(z) == /\ z \in RingRec /\ MuteAlone(z) /\ \A c : Rests(x, c) => Rests(z, c)
                      /\ \A ws : Wanted(x, ws) => Wanted(z, ws)
<1>s. \A z : SameCues(x, z) => Good(z)
  BY CuesCarry DEF SameCues
<1>x. SameCues(x, x)
  BY SmallSteps
<1>d. \A f \in Pictures : Good(Draw(x, f))
  BY <1>s, DrawIs
<1>l. Layer(x) \in Pictures /\ Base(x) \in Pictures
  BY LayerIs
<1>f. x.cue = NoCue => ~Finished(x, due)
  BY DEF Finished, NoCue, None
<1>1. CASE x.cue # NoCue /\ ~x.test
  <2>1. y = UpdatePattern(x, due)
    BY <1>1 DEF UpdateAnimation
  <2> QED
    BY <1>1, <2>1, UpdateIs
<1>2. CASE ~(x.cue # NoCue /\ ~x.test)
  <2> SUFFICES Good(y)
    BY <1>2, <1>f
  <2>1. CASE x.test
    <3> DEFINE e == TestEnds(x)
    <3>1. /\ e \in RingRec /\ e.cue = x.cue /\ e.prev = x.prev /\ e.mute = x.mute
          /\ e.cur = x.tcol /\ e.scol = x.scol /\ e.test = FALSE
      BY DEF RingRec, TestEnds
    <3> HIDE DEF e
    <3>2. MuteAlone(e) /\ (\A c : Rests(x, c) => Rests(e, c)) /\ \A ws : Wanted(x, ws) => Wanted(e, ws)
      BY <2>1, <3>1 DEF MuteAlone, Rests, Wanted
    <3>3. SameCues(e, Draw(e, Layer(e)))
      BY <3>1, LayerIs, DrawIs
    <3>4. Draw(e, Layer(e)) \in RingRec
      BY <3>3 DEF SameCues
    <3>5. Good(Draw(e, Layer(e)))
      BY <3>2, <3>3, <3>4, CuesCarry
    <3>6. y = IF "test" \in due THEN Draw(e, Layer(e)) ELSE Draw(x, TestFrame)
      BY <2>1 DEF UpdateAnimation, e
    <3>7. Good(Draw(x, TestFrame))
      BY <1>d, FramesAre
    <3> HIDE DEF Good, y
    <3> QED
      BY <3>5, <3>6, <3>7
  <2>2. CASE ~x.test
    <3>1. x.cue = NoCue
      BY <1>2, <2>2
    <3>2. y \in {Draw(x, Layer(x)), Draw(x, MeterFrame), Draw(x, Base(x)), x}
      BY <2>2, <3>1 DEF UpdateAnimation
    <3>3. Good(x) /\ Good(Draw(x, Layer(x))) /\ Good(Draw(x, MeterFrame)) /\ Good(Draw(x, Base(x)))
      BY <1>s, <1>x, <1>d, <1>l, FramesAre
    <3> HIDE DEF Good, y
    <3> QED
      BY <3>2, <3>3
  <2> QED
    BY <2>1, <2>2
<1> QED
  BY <1>1, <1>2

LEMMA FlushIs ==
  ASSUME NEW x \in RingRec, NEW write, Flush(x, write)
  PROVE  SameCues(x, r')
<1>1. PICK writes \in BOOLEAN : r' = [x EXCEPT !.pending = @ /\ ~Shown(x) /\ ~writes,
                                               !.valid = IF writes THEN write = "written" ELSE @]
  BY DEF Flush
<1> DEFINE pending == x.pending /\ ~Shown(x) /\ ~writes
           valid == IF writes THEN write = "written" ELSE x.valid
<1>2. pending \in BOOLEAN
  OBVIOUS
<1>3. valid \in BOOLEAN
  BY DEF RingRec
<1>4. r' = [x EXCEPT !.pending = pending, !.valid = valid]
  BY <1>1 DEF RingRec
<1> HIDE DEF pending, valid
<1> DEFINE y == [x EXCEPT !.pending = pending]
<1>5. SameCues(x, y)
  BY <1>2 DEF SameCues, RingRec
<1>6. y \in RingRec /\ r' = [y EXCEPT !.valid = valid]
  BY <1>4, <1>5 DEF SameCues
<1> HIDE DEF y
<1>7. SameCues(y, r')
  BY <1>3, <1>6 DEF SameCues, RingRec
<1> QED
  BY <1>5, <1>7, Chain

(* The ring is cleared of its cues. *)
LEMMA ClearedIs ==
  ASSUME NEW x \in RingRec, MuteAlone(x), NEW ws, Wanted(x, ws)
  PROVE  LET s == StopPattern(x, Anyone)
         IN /\ s \in RingRec /\ s.test = x.test /\ s.tcol = x.tcol
            /\ s.cue = NoCue /\ s.prev = NoCue /\ ~s.mute
            /\ \A c : Rests(x, c) => Rests(s, c)
<1>1. Anyone \in Words
  BY DEF Words
<1> QED
  BY <1>1, StopIs DEF Wanted

LEMMA ColouredIs ==
  ASSUME NEW x \in RingRec, MuteAlone(x), NEW ws, Wanted(x, ws),
         NEW c \in Words, NEW breathing \in BOOLEAN
  PROVE  LET y == Coloured(x, c, breathing)
         IN y \in RingRec /\ MuteAlone(y) /\ Wanted(y, {}) /\ (~x.test => Rests(y, c)) /\ y.cur = c
<1> DEFINE s0 == StopPattern(x, Anyone)
           s == [s0 EXCEPT !.cur = c, !.anim = breathing]
           y == Coloured(x, c, breathing)
<1>1. /\ s0 \in RingRec /\ s0.test = x.test /\ s0.cue = NoCue /\ s0.prev = NoCue /\ ~s0.mute
  BY ClearedIs
<1> HIDE DEF s0
<1>2. /\ s \in RingRec /\ s.test = x.test /\ s.cue = NoCue /\ s.prev = NoCue /\ ~s.mute /\ s.cur = c
  BY <1>1 DEF RingRec
<1>3. y = Draw(s, Layer(s))
  BY DEF Coloured, s0
<1> HIDE DEF s, y
<1>4. SameCues(s, y)
  BY <1>2, <1>3, LayerIs, DrawIs
<1>5. NoCue.owner # Mute
  BY DEF NoCue, None, Mute
<1> QED
  BY <1>2, <1>4, <1>5 DEF SameCues, MuteAlone, Wanted, Rests, y

LEMMA TestedIs ==
  ASSUME NEW x \in RingRec, MuteAlone(x), NEW ws, Wanted(x, ws)
  PROVE  LET y == Tested(x)
         IN y \in RingRec /\ MuteAlone(y) /\ Wanted(y, {}) /\ \A c : Rests(x, c) => Rests(y, c)
<1> DEFINE s == StopPattern(x, Anyone)
           tc == IF x.test THEN s.tcol ELSE s.cur
           ta == IF x.test THEN s.tanim ELSE s.anim
           y == Tested(x)
<1>1. /\ s \in RingRec /\ s.test = x.test /\ s.cue = NoCue /\ s.prev = NoCue /\ ~s.mute
      /\ \A c : Rests(x, c) => Rests(s, c)
  BY ClearedIs
<1> HIDE DEF s
<1>2. tc \in Words /\ ta \in BOOLEAN
  BY <1>1 DEF RingRec
<1>3. y = [s EXCEPT !.tcol = tc, !.tanim = ta, !.test = TRUE, !.anim = FALSE]
  BY <1>1 DEF Tested, s, RingRec
<1>4. \A c : Rests(s, c) => tc = c
  BY <1>1 DEF Rests
<1> HIDE DEF tc, ta
<1>5. /\ y \in RingRec /\ y.test = TRUE /\ y.cue = NoCue /\ y.prev = NoCue /\ y.mute = s.mute
      /\ y.cur = s.cur /\ y.tcol = tc
  <2> DEFINE z == [s EXCEPT !.tcol = tc, !.tanim = ta]
             v == [z EXCEPT !.test = TRUE]
  <2>1. /\ z \in RingRec /\ z.tcol = tc /\ z.cue = s.cue /\ z.prev = s.prev
        /\ z.mute = s.mute /\ z.cur = s.cur
    BY <1>1, <1>2 DEF RingRec
  <2>2. y = [v EXCEPT !.anim = FALSE]
    BY <1>3
  <2> HIDE DEF z, y
  <2>3. /\ v \in RingRec /\ v.test = TRUE /\ v.tcol = z.tcol /\ v.cue = z.cue
        /\ v.prev = z.prev /\ v.mute = z.mute /\ v.cur = z.cur
    BY <2>1 DEF RingRec
  <2> HIDE DEF v
  <2>4. /\ y \in RingRec /\ y.test = v.test /\ y.tcol = v.tcol /\ y.cue = v.cue
        /\ y.prev = v.prev /\ y.mute = v.mute /\ y.cur = v.cur
    BY <2>2, <2>3 DEF RingRec
  <2> QED
    BY <1>1, <2>1, <2>3, <2>4
<1>6. NoCue.owner # Mute
  BY DEF NoCue, None, Mute
<1> HIDE DEF y
<1> QED
  BY <1>1, <1>4, <1>5, <1>6 DEF MuteAlone, Wanted, Rests, y

LEMMA OverlaysAre ==
  ASSUME NEW x \in RingRec
  PROVE  /\ SameCues(x, Metered(x)) /\ SameCues(x, MeterStops(x))
         /\ SameCues(x, Played(x)) /\ SameCues(x, StopVisualizer(x))
<1>1. ASSUME NEW v \in BOOLEAN PROVE /\ SameCues(x, [x EXCEPT !.meter = v])
                                     /\ SameCues(x, [x EXCEPT !.vis = v])
                                     /\ [x EXCEPT !.meter = v] \in RingRec
                                     /\ [x EXCEPT !.vis = v] \in RingRec
  <2>1. SameCues(x, [x EXCEPT !.meter = v]) /\ SameCues(x, [x EXCEPT !.vis = v])
    BY SmallSteps
  <2> QED
    BY <2>1 DEF SameCues
<1>2. \A y \in RingRec, f \in Pictures : SameCues(x, y) => SameCues(x, Draw(y, f))
  BY DrawIs, Chain
<1>3. \A y \in RingRec : SameCues(x, y) => SameCues(x, Draw(y, Layer(y)))
  BY <1>2, LayerIs
<1>4. SameCues(x, Metered(x))
  BY <1>1, <1>2, FramesAre DEF Metered
<1>5. SameCues(x, MeterStops(x))
  BY <1>1, <1>3 DEF MeterStops
<1>6. SameCues(x, Played(x))
  BY <1>1, <1>2, FramesAre, SmallSteps DEF Played
<1>7. SameCues(x, StopVisualizer(x))
  BY <1>1, <1>3 DEF StopVisualizer
<1> QED
  BY <1>4, <1>5, <1>6, <1>7

(* A request that leaves the cues alone, and what it saves. *)
Mild(x, u, d) ==
  SameCues(x, u.x) /\ u.disk \in StateFiles /\ (u.disk = d \/ u.disk.cur = x.cur)

LEMMA MildAnswers ==
  ASSUME NEW ask, NEW ok \in BOOLEAN, r \in RingRec, disk \in StateFiles, ask.arg \in Words,
         ask.cmd \in {"night", "idle", "sleep", "meter", "unmeter", "frame", "unframe", "visualizer"}
  PROVE  Mild(r, Answer(ask, ok), disk)
<1> DEFINE x == IF ask.cmd \in {"pattern", "stop", "meter", "unmeter"} THEN r ELSE IdleNoteActivity(r)
           u == Answer(ask, ok)
<1>1. SameCues(r, x) /\ x \in RingRec
  BY SmallSteps, IdleIs DEF SameCues
<1> HIDE DEF x
<1>p. ASSUME NEW y, SameCues(x, y) PROVE Mild(r, With(y, disk), disk)
  BY <1>1, <1>p, Chain DEF Mild, With
<1>s. ASSUME NEW y, SameCues(x, y) PROVE Mild(r, With(y, Saved(y)), disk)
  <2>1. SameCues(r, y) /\ y \in RingRec /\ y.cur = r.cur
    BY <1>1, <1>s, Chain DEF SameCues
  <2> QED
    BY <2>1, SaveIs DEF Mild, With
<1>k. ASSUME NEW y \in RingRec, SameCues(x, y) PROVE Mild(r, With(Redrawn(y), Saved(y)), disk)
  <2>1. SameCues(r, y) /\ y.cur = r.cur
    BY <1>1, <1>k, Chain DEF SameCues
  <2>2. SameCues(r, Redrawn(y))
    BY <2>1, IdleIs, Chain
  <2> QED
    BY <2>1, <2>2, SaveIs DEF Mild, With
<1>x. SameCues(x, x)
  BY <1>1, SmallSteps
<1>1a. CASE ask.cmd = "night"
  <2>1. SameCues(x, Draw(x, Layer(x)))
    BY <1>1, LayerIs, DrawIs
  <2>2. u = Persist(Draw(x, Layer(x)), disk, ok)
    BY <1>1a DEF Answer, x
  <2>3. u = With(Draw(x, Layer(x)), disk) \/ u = With(Draw(x, Layer(x)), Saved(Draw(x, Layer(x))))
    BY <2>2 DEF Persist
  <2> QED
    BY <1>p, <1>s, <2>1, <2>3
<1>1b. CASE ask.cmd = "idle"
  <2> DEFINE y == [x EXCEPT !.idle = ask.arg]
  <2>1. SameCues(x, y) /\ y \in RingRec
    BY <1>1 DEF SameCues, RingRec
  <2>2. u = With(Redrawn(y), Saved(y)) \/ u = With(x, disk)
    BY <1>1b DEF Answer, x
  <2> HIDE DEF y
  <2> QED
    BY <1>p, <1>k, <1>x, <2>1, <2>2
<1>1c. CASE ask.cmd = "sleep"
  <2> DEFINE y == SleepLight(x, ask.arg, ask.kind = "timed")
  <2>0. (ask.kind = "timed") \in BOOLEAN /\ (ask.arg # "off") \in BOOLEAN
    OBVIOUS
  <2>1. SameCues(x, y) /\ y \in RingRec
    <3> DEFINE tm == ask.kind = "timed"
               lt == ask.arg # "off"
    <3>1. tm \in BOOLEAN /\ lt \in BOOLEAN
      BY <2>0
    <3> DEFINE y1 == [x EXCEPT !.sleep = ask.arg]
               y2 == [y1 EXCEPT !.timed = tm]
    <3>2. y = [y2 EXCEPT !.lit = lt]
      BY <1>1 DEF SleepLight, RingRec
    <3> HIDE DEF tm, lt, y
    <3>3. y1 \in RingRec /\ SameCues(x, y1)
      BY <1>1 DEF SameCues, RingRec
    <3> HIDE DEF y1
    <3>4. y2 \in RingRec /\ SameCues(y1, y2)
      BY <3>1, <3>3 DEF SameCues, RingRec
    <3> HIDE DEF y2
    <3>5. y \in RingRec /\ SameCues(y2, y)
      BY <3>1, <3>2, <3>4 DEF SameCues, RingRec
    <3> QED
      BY <3>3, <3>4, <3>5, Chain
  <2>2. u = With(Redrawn(y), Saved(y)) \/ u = With(x, disk)
    BY <1>1c DEF Answer, x
  <2> HIDE DEF y
  <2> QED
    BY <1>p, <1>k, <1>x, <2>1, <2>2
<1>1d. CASE ask.cmd = "meter"
  <2>1. SameCues(x, IdleNoteActivity(x)) /\ IdleNoteActivity(x) \in RingRec
    BY <1>1, IdleIs DEF SameCues
  <2>2. SameCues(x, Metered(IdleNoteActivity(x)))
    BY <2>1, OverlaysAre, Chain
  <2>3. u = With(Metered(IdleNoteActivity(x)), disk)
    BY <1>1d DEF Answer, x
  <2> QED
    BY <1>p, <2>2, <2>3
<1>1e. CASE ask.cmd = "unmeter"
  <2>1. SameCues(x, IdleNoteActivity(x)) /\ IdleNoteActivity(x) \in RingRec
    BY <1>1, IdleIs DEF SameCues
  <2>2. SameCues(x, MeterStops(IdleNoteActivity(x)))
    BY <2>1, OverlaysAre, Chain
  <2>3. u = With(MeterStops(IdleNoteActivity(x)), disk) \/ u = With(x, disk)
    BY <1>1e DEF Answer, x
  <2> QED
    BY <1>p, <1>x, <2>2, <2>3
<1>1f. CASE ask.cmd = "frame"
  <2>1. u = With(Played(x), disk)
    BY <1>1f DEF Answer, x
  <2> QED
    BY <1>1, <1>p, <2>1, OverlaysAre
<1>1g. CASE ask.cmd = "unframe"
  <2>1. u = With(StopVisualizer(x), disk)
    BY <1>1g DEF Answer, x
  <2> QED
    BY <1>1, <1>p, <2>1, OverlaysAre
<1>1h. CASE ask.cmd = "visualizer"
  <2> DEFINE y == [x EXCEPT !.visible = ~@]
             v == ~x.visible
  <2>0. v \in BOOLEAN
    OBVIOUS
  <2>1. y = [x EXCEPT !.visible = v]
    BY <1>1 DEF RingRec
  <2> HIDE DEF v, y
  <2>2. SameCues(x, y) /\ y \in RingRec
    BY <1>1, <2>0, <2>1 DEF SameCues, RingRec
  <2>3. u = With(y, disk) \/ u = With(StopVisualizer(y), disk)
    BY <1>1h DEF Answer, x, y
  <2>4. SameCues(x, StopVisualizer(y))
    BY <2>2, OverlaysAre, Chain
  <2> QED
    BY <1>p, <2>2, <2>3, <2>4
<1> QED
  BY <1>1a, <1>1b, <1>1c, <1>1d, <1>1e, <1>1f, <1>1g, <1>1h

(* handle_request, whatever is asked: the cues on the ring are those still  *)
(* wanted, and its colour and the file's the one last asked for.            *)
Request(ask) ==
  /\ ask.cmd \in Commands /\ ask.kind \in Words /\ ask.arg \in Words
  /\ ask.cmd = "pattern" => ask.kind # None

LEMMA ServeKeeps ==
  ASSUME LightInv, NEW ask, Request(ask), NEW ok \in BOOLEAN, NEW write, Serve(ask, ok, write)
  PROVE  LightInv'
<1> DEFINE u == Answer(ask, ok)
           a == ask.arg
           Good == /\ u.x \in RingRec /\ u.disk \in StateFiles
                   /\ Wanted(u.x, wanted') /\ MuteAlone(u.x)
                   /\ ~blurred' => Rests(u.x, chosen') /\ u.disk.cur = chosen'
<1>0. /\ r \in RingRec /\ disk \in StateFiles /\ Wanted(r, wanted) /\ MuteAlone(r)
      /\ ~blurred => Rests(r, chosen) /\ disk.cur = chosen
  BY DEF LightInv
<1>1. /\ Flush(u.x, write) /\ disk' = u.disk
      /\ wanted' = CASE ask.cmd = "pattern" -> wanted \union {ask.arg}
                     [] ask.cmd = "stop" /\ ask.arg # Anyone -> wanted \ {ask.arg}
                     [] ask.cmd \in {"colour", "animate", "test"}
                        \/ (ask.cmd = "stop" /\ ask.arg = Anyone) -> {}
                     [] OTHER -> wanted
      /\ chosen' = IF ask.cmd \in {"colour", "animate"} THEN ask.arg ELSE chosen
      /\ blurred' = (blurred \/ (ask.cmd \in {"colour", "animate"} /\ (r.test \/ ~ok)))
  BY DEF Serve
<1>r. a \in Words /\ ask.kind \in Words
  BY DEF Request
<1> DEFINE x == IdleNoteActivity(r)
<1>x. SameCues(r, x) /\ x \in RingRec /\ x.test = r.test /\ Wanted(x, wanted) /\ MuteAlone(x)
      /\ \A c : Rests(r, c) => Rests(x, c)
  BY <1>0, IdleIs, CuesCarry DEF SameCues
<1>2. Good
  <2>1. CASE ask.cmd \in {"colour", "animate"}
    <3> DEFINE breathing == ask.cmd = "animate"
               y == Coloured(x, a, breathing)
    <3>1. breathing \in BOOLEAN
      OBVIOUS
    <3>2. u = Persist(y, disk, ok)
      BY <2>1 DEF Answer
    <3> HIDE DEF breathing
    <3>3. y \in RingRec /\ MuteAlone(y) /\ Wanted(y, {}) /\ (~x.test => Rests(y, a)) /\ y.cur = a
      BY <1>r, <1>x, <3>1, ColouredIs
    <3>4. wanted' = {} /\ chosen' = a /\ (blurred' <=> blurred \/ r.test \/ ~ok)
      BY <1>1, <2>1
    <3> HIDE DEF x, y, u
    <3>5. u.x = y /\ u.disk = IF ok THEN Saved(y) ELSE disk
      BY <3>2 DEF Persist, With
    <3> QED
      BY <1>0, <1>x, <3>3, <3>4, <3>5, SaveIs
  <2>2. CASE ask.cmd = "test"
    <3> DEFINE y == Tested(x)
    <3>1. y \in RingRec /\ MuteAlone(y) /\ Wanted(y, {}) /\ \A c : Rests(x, c) => Rests(y, c)
      BY <1>x, TestedIs
    <3>2. u = With(IF x.startup THEN y ELSE Draw(y, TestFrame), disk)
      BY <2>2 DEF Answer
    <3> HIDE DEF x, y
    <3>3. SameCues(y, Draw(y, TestFrame)) /\ SameCues(y, y)
      BY <3>1, DrawIs, FramesAre, SmallSteps
    <3>4. SameCues(y, u.x) /\ u.disk = disk
      BY <3>2, <3>3 DEF With
    <3>5. wanted' = {} /\ chosen' = chosen /\ (blurred' <=> blurred)
      BY <1>1, <2>2
    <3> HIDE DEF u
    <3>6. u.x \in RingRec /\ MuteAlone(u.x) /\ Wanted(u.x, {}) /\ \A c : Rests(y, c) => Rests(u.x, c)
      BY <3>1, <3>4, CuesCarry DEF SameCues
    <3> QED
      BY <1>0, <1>x, <3>1, <3>4, <3>5, <3>6
  <2>3. CASE ask.cmd \in {"night", "idle", "sleep", "meter", "unmeter", "frame", "unframe", "visualizer"}
    <3>1. Mild(r, u, disk)
      BY <1>0, <1>r, <2>3, MildAnswers
    <3>2. wanted' = wanted /\ chosen' = chosen /\ (blurred' <=> blurred)
      BY <1>1, <2>3
    <3> HIDE DEF u
    <3>3. u.x \in RingRec /\ MuteAlone(u.x) /\ Wanted(u.x, wanted) /\ \A c : Rests(r, c) => Rests(u.x, c)
      BY <1>0, <3>1, CuesCarry DEF Mild, SameCues
    <3>4. \A c : Rests(r, c) => r.cur = c
      BY DEF Rests
    <3> QED
      BY <1>0, <3>1, <3>2, <3>3, <3>4 DEF Mild
  <2>4. CASE ask.cmd = "pattern"
    <3> DEFINE s == StartPattern(x, ask.kind, a)
               y == UpdatePattern(s, {})
    <3>1. /\ s \in RingRec /\ MuteAlone(s) /\ s.cue # NoCue
          /\ Wanted(s, wanted \cup {a}) /\ \A c : Rests(x, c) => Rests(s, c)
      BY <1>r, <1>x, <2>4, StartIs DEF Request
    <3>2. ~Finished(s, {})
      BY DEF Finished
    <3> HIDE DEF x
    <3>3. u = With(y, disk)
      BY <2>4 DEF Answer, x
    <3> HIDE DEF s
    <3>4. /\ y \in RingRec /\ MuteAlone(y) /\ Wanted(y, wanted \cup {a})
          /\ \A c : Rests(s, c) => Rests(y, c)
      BY <3>1, <3>2, UpdateIs
    <3>5. wanted' = wanted \cup {a} /\ chosen' = chosen /\ (blurred' <=> blurred)
      BY <1>1, <2>4
    <3> HIDE DEF y, u
    <3> QED
      BY <1>0, <1>x, <3>1, <3>3, <3>4, <3>5 DEF With
  <2>5. CASE ask.cmd = "stop"
    <3> DEFINE s == StopPattern(r, a)
    <3>1. /\ s \in RingRec /\ MuteAlone(s)
          /\ Wanted(s, IF a = Anyone THEN {} ELSE wanted \ {a}) /\ \A c : Rests(r, c) => Rests(s, c)
      BY <1>0, <1>r, StopIs
    <3>2. u = With(IF s.cue.owner # r.cue.owner THEN IdleNoteActivity(s) ELSE s, disk)
      BY <2>5 DEF Answer
    <3> HIDE DEF s
    <3>3. SameCues(s, s) /\ SameCues(s, IdleNoteActivity(s))
      BY <3>1, SmallSteps, IdleIs
    <3>4. SameCues(s, u.x) /\ u.disk = disk
      BY <3>2, <3>3 DEF With
    <3>5. /\ wanted' = IF a = Anyone THEN {} ELSE wanted \ {a}
          /\ chosen' = chosen /\ (blurred' <=> blurred)
      BY <1>1, <2>5
    <3> HIDE DEF u
    <3>6. u.x \in RingRec /\ MuteAlone(u.x) /\ Wanted(u.x, wanted') /\ \A c : Rests(s, c) => Rests(u.x, c)
      BY <3>1, <3>4, <3>5, CuesCarry DEF SameCues
    <3> QED
      BY <1>0, <3>1, <3>4, <3>5, <3>6
  <2> QED
    BY <2>1, <2>2, <2>3, <2>4, <2>5 DEF Request, Commands
<1> HIDE DEF u
<1>3. SameCues(u.x, r')
  BY <1>1, <1>2, FlushIs
<1>4. r' \in RingRec /\ Wanted(r', wanted') /\ MuteAlone(r') /\ \A c : Rests(u.x, c) => Rests(r', c)
  BY <1>2, <1>3, CuesCarry DEF SameCues
<1> QED
  BY <1>1, <1>2, <1>4 DEF LightInv

(* One turn of the loop: a cue that has blinked its count is wanted no      *)
(* longer, and the one under it comes back.                                 *)
LEMMA PassKeeps ==
  ASSUME LightInv, NEW due, NEW ok \in BOOLEAN, NEW write, Pass(due, ok, write)
  PROVE  LightInv'
<1>0. /\ r \in RingRec /\ disk \in StateFiles /\ Wanted(r, wanted) /\ MuteAlone(r)
      /\ ~blurred => Rests(r, chosen) /\ disk.cur = chosen
  BY DEF LightInv
<1> DEFINE i == IF "idle" \in due THEN IdleAutoOffTick(r) ELSE r
           q == IF i.startup THEN StartupTurn(i, due) ELSE ExpireVisualizer(i, due)
           t == SleepTick(q, disk, due, ok)
           m == MeterExpires(t.x, due)
           y == IF i.startup \/ ~Animates(i) THEN t.x ELSE UpdateAnimation(m, i, due)
<1>1. /\ Flush(y, write) /\ disk' = t.disk
      /\ wanted' = IF ~r.startup /\ ~r.test /\ Finished(r, due) THEN Outlives ELSE wanted
      /\ chosen' = chosen /\ blurred' = blurred
  BY DEF Pass
<1>2. SameCues(r, i) /\ i \in RingRec /\ i.startup = r.startup
  <2>1. SameCues(r, IdleAutoOffTick(r)) /\ SameCues(r, r)
    BY <1>0, IdleIs, SmallSteps
  <2>2. IdleAutoOffTick(r).startup = r.startup
    BY <1>0 DEF IdleAutoOffTick, Draw, RingRec
  <2> QED
    BY <1>0, <2>1, <2>2 DEF SameCues
<1> HIDE DEF i
<1>3. SameCues(i, q) /\ q \in RingRec
  <2>1. SameCues(i, StartupTurn(i, due))
    BY <1>2, IdleIs
  <2>2. SameCues(i, ExpireVisualizer(i, due))
    BY <1>2, SmallSteps
  <2>3. SameCues(i, q)
    BY <2>1, <2>2
  <2> HIDE DEF q
  <2> QED
    BY <2>3 DEF SameCues
<1> HIDE DEF q
<1>4. SameCues(q, t.x) /\ t.disk \in StateFiles /\ (t.disk.cur = disk.cur \/ t.disk.cur = q.cur)
  BY <1>0, <1>3, TickIs
<1> HIDE DEF t
<1>5. SameCues(r, t.x) /\ t.x \in RingRec
  BY <1>2, <1>3, <1>4, Chain DEF SameCues
<1>6. SameCues(t.x, m)
  BY <1>5, SmallSteps
<1> HIDE DEF m
<1>7. SameCues(r, m) /\ m \in RingRec
  BY <1>5, <1>6, Chain DEF SameCues
<1>8. Wanted(m, wanted) /\ MuteAlone(m) /\ (\A c : Rests(r, c) => Rests(m, c))
      /\ Wanted(t.x, wanted) /\ MuteAlone(t.x) /\ (\A c : Rests(r, c) => Rests(t.x, c))
  BY <1>0, <1>5, <1>7, CuesCarry
<1>9. Outlives = Surviving(m, wanted) /\ (Finished(r, due) <=> Finished(m, due)) /\ m.test = r.test
  BY <1>7 DEF Outlives, Surviving, Finished, SameCues
<1>10. y \in RingRec /\ Wanted(y, wanted') /\ MuteAlone(y) /\ \A c : Rests(r, c) => Rests(y, c)
  <2>1. CASE i.startup \/ ~Animates(i)
    <3>1. ~(~r.startup /\ Finished(r, due))
      <4>1. CASE i.startup
        BY <1>2, <4>1
      <4>2. CASE ~Animates(i)
        <5>1. i.cue = NoCue
          BY <4>2 DEF Animates, BaseVisible
        <5>2. r.cue = NoCue
          BY <1>2, <5>1 DEF SameCues
        <5> QED
          BY <5>2 DEF Finished, NoCue, None
      <4> QED
        BY <2>1, <4>1, <4>2
    <3> QED
      BY <1>1, <1>5, <1>8, <2>1, <3>1
  <2>2. CASE ~(i.startup \/ ~Animates(i))
    <3> DEFINE z == UpdateAnimation(m, i, due)
    <3>1. /\ z \in RingRec /\ MuteAlone(z)
          /\ Wanted(z, IF ~m.test /\ Finished(m, due) THEN Surviving(m, wanted) ELSE wanted)
          /\ \A c : Rests(m, c) => Rests(z, c)
      BY <1>7, <1>8, AnimationIs
    <3>2. wanted' = IF ~m.test /\ Finished(m, due) THEN Surviving(m, wanted) ELSE wanted
      BY <1>1, <1>2, <1>9, <2>2
    <3> QED
      BY <1>8, <2>2, <3>1, <3>2
  <2> QED
    BY <2>1, <2>2
<1> HIDE DEF y
<1>11. SameCues(y, r')
  BY <1>1, <1>10, FlushIs
<1>12. r' \in RingRec /\ Wanted(r', wanted') /\ MuteAlone(r') /\ \A c : Rests(y, c) => Rests(r', c)
  BY <1>10, <1>11, CuesCarry DEF SameCues
<1>13. ~blurred' => t.disk.cur = chosen
  BY <1>0, <1>1, <1>2, <1>3, <1>4 DEF SameCues, Rests
<1> QED
  BY <1>0, <1>1, <1>4, <1>10, <1>12, <1>13 DEF LightInv

(* What ledd starts with: the file's colour and no cue. *)
LEMMA StartsIs ==
  ASSUME NEW d \in StateFiles, NEW restore \in BOOLEAN, NEW startup \in BOOLEAN
  PROVE  LET y == Starts(d, restore, startup)
         IN y \in RingRec /\ Wanted(y, {}) /\ MuteAlone(y) /\ Rests(y, d.cur)
<1> DEFINE x == Loaded(d, restore, startup)
           y == Starts(d, restore, startup)
           lit == restore /\ d.sleep # "off"
<1>n. NoCue \in Cues /\ Picture("rest", "off") \in Pictures /\ NoCue.owner # Mute
  BY DEF Cues, Words, NoCue, Pictures, Picture, None, Mute
<1>l. lit \in BOOLEAN
  OBVIOUS
<1>d. d.cur \in Words /\ d.idle \in Words /\ d.sleep \in Words /\ d.timed \in BOOLEAN
  BY DEF StateFiles
<1>e. x = [startup |-> startup, test |-> FALSE, tcol |-> d.cur, tanim |-> FALSE,
           cue |-> NoCue, prev |-> NoCue, scol |-> d.cur, sanim |-> FALSE, mute |-> FALSE,
           meter |-> FALSE, vis |-> FALSE, visible |-> TRUE, anim |-> FALSE, cur |-> d.cur,
           idle |-> d.idle, asleep |-> FALSE, sleep |-> d.sleep, timed |-> d.timed, lit |-> lit,
           owed |-> FALSE, frame |-> Picture("rest", "off"), pending |-> TRUE, valid |-> FALSE]
  BY DEF Loaded
<1> HIDE DEF lit
<1>1. x \in RingRec
  BY <1>n, <1>l, <1>d, <1>e DEF RingRec
<1>2. x.cue = NoCue /\ x.prev = NoCue /\ x.mute = FALSE /\ x.cur = d.cur /\ x.test = FALSE
  BY <1>e
<1>3. y = Draw(x, IF startup THEN StartupFrame ELSE Base(x))
  BY DEF Starts
<1> HIDE DEF x, y
<1>4. SameCues(x, y)
  BY <1>1, <1>3, DrawIs, LayerIs, FramesAre
<1>5. Wanted(x, {}) /\ MuteAlone(x) /\ Rests(x, d.cur)
  BY <1>2, <1>n DEF Wanted, MuteAlone, Rests
<1> QED
  BY <1>4, <1>5, CuesCarry DEF SameCues, y

LEMMA RingBegins == LightInit => LightInv
<1> SUFFICES ASSUME LightInit PROVE LightInv
  OBVIOUS
<1>1. env \in Envs /\ RingInit(env.disk, env.startup)
  BY DEF LightInit
<1>2. env.disk \in StateFiles /\ env.startup \in BOOLEAN
  BY <1>1, LightAssumption DEF StateFiles, Words
<1>3. disk = env.disk /\ r = Starts(env.disk, FALSE, env.startup) /\ wanted = {} /\ chosen = env.disk.cur
  BY <1>1 DEF RingInit
<1> QED
  BY <1>2, <1>3, StartsIs DEF LightInv

(* What buttond sends is well formed too. *)
LEMMA SentIs == b.send # "none" => Request(Sent)
  BY DEF Request, Sent, Commands, Words, None, Mute

LEMMA RingStep == env \in Envs /\ LightInv /\ [Next]_lightVars => LightInv'
<1> SUFFICES ASSUME env \in Envs, LightInv, [Next]_lightVars PROVE LightInv'
  OBVIOUS
<1>k. UNCHANGED ringVars => LightInv'
  BY DEF ringVars, LightInv
<1>1. ASSUME NEW due, NEW ok \in BOOLEAN, NEW w, Turns(due, ok, w) PROVE LightInv'
  BY <1>1, PassKeeps DEF Turns
<1>2. ASSUME NEW ask \in env.asks, NEW ok \in BOOLEAN, NEW w, Client(ask, ok, w) PROVE LightInv'
  <2>1. /\ ask.cmd \in Commands /\ {ask.kind, ask.arg} \subseteq Names
        /\ ask.cmd = "pattern" => ask.kind # None
    BY <1>2, LightAssumption
  <2>2. Request(ask)
    BY <2>1 DEF Request, Words
  <2> QED
    BY <1>2, <2>2, ServeKeeps DEF Client
<1>3. ASSUME NEW w, Delivers(w) PROVE LightInv'
  <2>1. CASE ledUp
    BY <1>3, <2>1, SentIs, ServeKeeps DEF Delivers
  <2>2. CASE ~ledUp
    BY <1>3, <1>k, <2>2 DEF Delivers
  <2> QED
    BY <2>1, <2>2
<1>4. ASSUME NEW A, Buttoned(A) PROVE LightInv'
  BY <1>4, <1>k DEF Buttoned
<1>5. CASE LedDies
  BY <1>5, <1>k DEF LedDies
<1>6. CASE LedStarts
  <2> DEFINE y == Starts(disk, env.restore, FALSE)
  <2>1. Flush(y, "written") /\ wanted' = {} /\ UNCHANGED <<disk, chosen, blurred>>
    BY <1>6 DEF LedStarts, Reborn
  <2>2. y \in RingRec /\ Wanted(y, {}) /\ MuteAlone(y) /\ Rests(y, disk.cur)
    BY LightAssumption, StartsIs DEF LightInv
  <2> HIDE DEF y
  <2>3. SameCues(y, r')
    BY <2>1, <2>2, FlushIs
  <2>4. r' \in RingRec /\ Wanted(r', {}) /\ MuteAlone(r') /\ Rests(r', disk.cur)
    BY <2>2, <2>3, CuesCarry DEF SameCues
  <2> QED
    BY <2>1, <2>4 DEF LightInv
<1>7. CASE UNCHANGED lightVars
  BY <1>7, <1>k DEF lightVars
<1> QED
  BY <1>1, <1>2, <1>3, <1>4, <1>5, <1>6, <1>7 DEF Next

(* A cue on the ring, or one remembered under another, has an owner who     *)
(* started it and has not ended it, the mute underlay included; and outside *)
(* the test pattern the ring rests in the colour last asked for, which is   *)
(* also the saved one (start_pattern, stop_pattern, update_pattern,         *)
(* handle_request), whatever clients and buttond send and in any order.     *)
THEOREM RingAlwaysTruthful == Spec => []RingTruthful
<1>1. LightInit => LightInv /\ env \in Envs
  BY RingBegins DEF LightInit
<1>2. LightInv /\ env \in Envs /\ [Next]_lightVars => (LightInv /\ env \in Envs)'
  BY RingStep DEF Next, SameEnv, lightVars
<1>3. LightInv => RingTruthful
  BY DEF LightInv, Wanted, Rests, RingTruthful
<1> QED
  BY <1>1, <1>2, <1>3, PTL DEF Spec

=============================================================================
