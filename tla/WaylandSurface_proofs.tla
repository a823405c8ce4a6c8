----------------------- MODULE WaylandSurface_proofs -----------------------
(***************************************************************************)
(* Proofs about WaylandSurface, for any number of surfaces and buffers.    *)
(***************************************************************************)
EXTENDS WaylandSurface, FiniteSetTheorems, SequenceTheorems, TLAPS

USE SurfacesAssumption, BuffersAssumption, ModesAssumption

-----------------------------------------------------------------------------
(***************************************************************************)
(* Where messages stand in a sequence.                                     *)
(***************************************************************************)

(* What is at the head and what remains.                                   *)
LEMMA TailFacts ==
  ASSUME NEW E, NEW seq \in Seq(E), seq # <<>>
  PROVE  /\ Len(seq) \in Nat \ {0} /\ Head(seq) = seq[1] /\ Head(seq) \in E
         /\ Tail(seq) \in Seq(E) /\ Len(Tail(seq)) = Len(seq) - 1
         /\ \A k \in 1..Len(seq) - 1 : Tail(seq)[k] = seq[k + 1]
  BY HeadTailProperties, EmptySeq

(* Positions are finitely many.                                            *)
LEMMA PositionsFinite ==
  ASSUME NEW E, NEW seq \in Seq(E), NEW op, NEW S
  PROVE  /\ IsFiniteSet(Positions(seq, op, S))
         /\ Cardinality(Positions(seq, op, S)) \in Nat
<1>1. Len(seq) \in Nat
  BY LenProperties
<1>2. IsFiniteSet(1..Len(seq))
  BY <1>1, FS_Interval
<1>3. Positions(seq, op, S) \in SUBSET (1..Len(seq))
  BY DEF Positions
<1> QED BY <1>2, <1>3, FS_Subset, FS_CardinalityType

(* Without its head a sequence has the same messages one place earlier.    *)
LEMMA PositionsTail ==
  ASSUME NEW E, NEW seq \in Seq(E), seq # <<>>, NEW op, NEW S
  PROVE  \A k \in Int : k \in Positions(Tail(seq), op, S)
                          <=> k # 0 /\ k + 1 \in Positions(seq, op, S)
<1> TAKE k \in Int
<1> QED BY TailFacts DEF Positions

(* One message fewer is counted if the head is one of them.                *)
LEMMA CountTail ==
  ASSUME NEW E, NEW seq \in Seq(E), seq # <<>>, NEW op, NEW S
  PROVE  Cardinality(Positions(Tail(seq), op, S))
           = Cardinality(Positions(seq, op, S))
               - (IF 1 \in Positions(seq, op, S) THEN 1 ELSE 0)
<1> DEFINE P == Positions(seq, op, S)
           Q == Positions(Tail(seq), op, S)
           f == [k \in Q |-> k + 1]
<1>1. IsFiniteSet(P) /\ IsFiniteSet(Q)
  BY PositionsFinite, TailFacts
<1>2. P \subseteq Nat \ {0} /\ Q \subseteq Nat \ {0}
  BY LenProperties, TailFacts DEF Positions
<1>3. \A k \in Int : k \in Q <=> k # 0 /\ k + 1 \in P
  BY PositionsTail
<1> HIDE DEF P, Q
<1>4. f \in [Q -> P \ {1}]
  <2>1. \A k \in Q : k + 1 \in P \ {1}
    BY <1>2, <1>3
  <2> QED BY <2>1
<1>5. \A x, y \in Q : f[x] = f[y] => x = y
  BY <1>2
<1>6. \A y \in P \ {1} : \E x \in Q : f[x] = y
  <2> TAKE y \in P \ {1}
  <2>1. y - 1 \in Q
    <3>1. y - 1 \in Int /\ y - 1 # 0 /\ (y - 1) + 1 = y
      BY <1>2
    <3> QED BY <3>1, <1>3
  <2>2. f[y - 1] = y
    BY <2>1, <1>2
  <2> QED BY <2>1, <2>2
<1> HIDE DEF f
<1>7. ExistsBijection(Q, P \ {1})
  <2>1. f \in Bijection(Q, P \ {1})
    BY <1>4, <1>5, <1>6 DEF Bijection, Injection, Surjection, IsInjective
  <2> QED BY <2>1 DEF ExistsBijection
<1>8. Cardinality(P \ {1}) = Cardinality(Q)
  BY <1>1, <1>7, FS_Bijection
<1>9. Cardinality(P \ {1}) = IF 1 \in P THEN Cardinality(P) - 1 ELSE Cardinality(P)
  BY <1>1, FS_RemoveElement
<1>10. Cardinality(P) \in Nat
  BY <1>1, FS_CardinalityType
<1> QED BY <1>8, <1>9, <1>10 DEF P, Q

(* A message at the end is counted if it is one of them.                   *)
LEMMA PositionsAppend ==
  ASSUME NEW E, NEW seq \in Seq(E), NEW e \in E, NEW op, NEW S
  PROVE  Positions(Append(seq, e), op, S)
           = Positions(seq, op, S)
               \cup (IF e.op = op /\ e.surface \in S THEN {Len(seq) + 1} ELSE {})
<1>1. Len(seq) \in Nat
  BY LenProperties
<1>2. /\ Len(Append(seq, e)) = Len(seq) + 1
      /\ \A i \in 1..Len(seq) : Append(seq, e)[i] = seq[i]
      /\ Append(seq, e)[Len(seq) + 1] = e
  BY AppendProperties
<1>3. 1..Len(seq) + 1 = (1..Len(seq)) \cup {Len(seq) + 1}
  BY <1>1
<1> QED BY <1>1, <1>2, <1>3 DEF Positions

(* An element added at a place not yet counted.                            *)
LEMMA CountAdd ==
  ASSUME NEW S, IsFiniteSet(S), NEW x, x \notin S
  PROVE  Cardinality(S \cup {x}) = Cardinality(S) + 1
  BY FS_AddElement

-----------------------------------------------------------------------------
(***************************************************************************)
(* Requests and messages, and what a frame puts on the wire.               *)
(***************************************************************************)

(* Requests and messages, made and read.                                   *)
LEMMA WireTypes ==
  /\ \A op \in {"frame", "commit", "ack"}, s \in Surfaces :
       Req(op, s) \in Requests
  /\ \A s \in Surfaces, b \in Buffers : AttachReq(s, b) \in Requests
  /\ Req("pong", NoSurface) \in Requests
  /\ \A op \in {"done", "close", "configure"}, s \in Surfaces :
       Event(op, s) \in Messages
  /\ Event("ping", NoSurface) \in Messages
  /\ \A r \in Requests :
       r.op # "pong" => /\ r.op \in {"frame", "attach", "commit", "ack"}
                        /\ r.surface \in Surfaces
                        /\ r.buffer \in Buffers \cup {NoBuffer}
  /\ \A m \in Messages :
       m.op # "ping" => m.op \in {"done", "close", "configure"} /\ m.surface \in Surfaces
  BY DEF Requests, Messages, Req, AttachReq, Event

(* The buffers drawn into in turn.                                         *)
LEMMA NextBufferType ==
  ASSUME TypeOK, NEW s \in Surfaces
  PROVE  /\ NextBuffer(s) \in Buffers \cup {0}
         /\ cbuf[s] \in Nat
         /\ Attach => cbuf[s] \in Buffers
         /\ BufferCount > 0 => NextBuffer(s) = Following(cbuf[s])
<1>1. cbuf[s] \in Buffers \cup {0}
  BY DEF TypeOK
<1>2. cbuf[s] \in Nat /\ BufferCount \in Nat
  BY <1>1 DEF Buffers
<1>3. Attach => cbuf[s] \in Buffers
  BY <1>1, <1>2 DEF Buffers
<1>4. CASE BufferCount > 0
  <2>1. (cbuf[s] + 1) % BufferCount \in 0..(BufferCount - 1)
    BY <1>2, <1>4
  <2> QED BY <2>1, <1>2, <1>3, <1>4 DEF NextBuffer, Buffers, Following
<1>5. CASE ~(BufferCount > 0)
  BY <1>1, <1>2, <1>3, <1>5 DEF NextBuffer
<1> QED BY <1>4, <1>5

(* What drawing s adds at the end of the wire, after the first commit of s *)
(* if there is one.                                                        *)
FirstCommits(s) == {<<>>, <<Req("commit", s)>>}

Drawn(s, n) ==
    /\ wire' \in Seq(Requests)
    /\ Len(wire') = n + (IF Attach THEN 4 ELSE 3)
    /\ \A k \in 1..Len(wire) : wire'[k] = wire[k]
    /\ \A k \in (Len(wire) + 1)..n : wire'[k] = Req("commit", s)
    /\ wire'[n + 1] = Req("frame", s)
    /\ wire'[n + 2] = Req("commit", s)
    /\ Attach => wire'[n + 3] = AttachReq(s, cbuf[s])
    /\ wire'[Len(wire')] = Req("commit", s)

LEMMA DrawWire ==
  ASSUME TypeOK, NEW s \in Surfaces, NEW before \in FirstCommits(s),
         DrawFrame(s, before)
  PROVE  \E n \in Nat : n \in {Len(wire), Len(wire) + 1} /\ Drawn(s, n)
<1> DEFINE n == Len(wire) + Len(before)
           block == FrameRequests(s)
<1>1. wire \in Seq(Requests) /\ Len(wire) \in Nat
  BY LenProperties DEF TypeOK
<1>2. Req("commit", s) \in Requests /\ Req("frame", s) \in Requests
  BY WireTypes
<1>3. /\ before \in Seq(Requests) /\ Len(before) \in {0, 1}
      /\ \A k \in 1..Len(before) : before[k] = Req("commit", s)
  <2>1. CASE before = <<>>
    BY <2>1
  <2>2. CASE before = <<Req("commit", s)>>
    BY <2>2, <1>2
  <2> QED BY <2>1, <2>2 DEF FirstCommits
<1>4. /\ block \in Seq(Requests) /\ Len(block) = IF Attach THEN 4 ELSE 3
      /\ block[1] = Req("frame", s) /\ block[2] = Req("commit", s)
      /\ Attach => block[3] = AttachReq(s, cbuf[s])
      /\ block[Len(block)] = Req("commit", s)
  <2> DEFINE first == <<Req("frame", s), Req("commit", s)>>
             content == IF Attach THEN <<AttachReq(s, cbuf[s])>> ELSE <<>>
             last == <<Req("commit", s)>>
  <2>1. first \in Seq(Requests) /\ last \in Seq(Requests)
    BY <1>2
  <2>2. content \in Seq(Requests) /\ Len(content) = IF Attach THEN 1 ELSE 0
    BY NextBufferType, WireTypes
  <2>3. /\ Len(first) = 2 /\ first[1] = Req("frame", s) /\ first[2] = Req("commit", s)
        /\ Len(last) = 1 /\ last[1] = Req("commit", s)
        /\ Attach => content[1] = AttachReq(s, cbuf[s])
    OBVIOUS
  <2>4. block = (first \o content) \o last
    BY DEF FrameRequests
  <2> HIDE DEF first, content, last, block
  <2>5. /\ first \o content \in Seq(Requests)
        /\ Len(first \o content) = Len(first) + Len(content)
        /\ \A k \in 1..Len(first) + Len(content) : (first \o content)[k] =
               IF k <= Len(first) THEN first[k] ELSE content[k - Len(first)]
    BY <2>1, <2>2, ConcatProperties
  <2> DEFINE both == first \o content
  <2> HIDE DEF both
  <2>6. /\ both \in Seq(Requests) /\ Len(both) = IF Attach THEN 3 ELSE 2
        /\ both[1] = Req("frame", s) /\ both[2] = Req("commit", s)
        /\ Attach => both[3] = AttachReq(s, cbuf[s])
    BY <2>2, <2>3, <2>5 DEF both
  <2>7. /\ block \in Seq(Requests)
        /\ Len(block) = Len(both) + Len(last)
        /\ \A k \in 1..Len(both) + Len(last) : block[k] =
               IF k <= Len(both) THEN both[k] ELSE last[k - Len(both)]
    <3>1. block = both \o last
      BY <2>4 DEF both
    <3> QED BY ONLY <2>1, <2>6, <3>1, ConcatProperties
  <2> QED BY <2>3, <2>6, <2>7
<1> HIDE DEF block
<1>5. /\ wire \o before \in Seq(Requests) /\ Len(wire \o before) = n
      /\ \A k \in 1..n : (wire \o before)[k] =
              IF k <= Len(wire) THEN wire[k] ELSE before[k - Len(wire)]
  BY <1>1, <1>3, ConcatProperties
<1> DEFINE w == wire \o before
<1>6. w \in Seq(Requests) /\ Len(w) = n /\ wire' = w \o block
  BY <1>5 DEF DrawFrame, block
<1> HIDE DEF w, n
<1>7. /\ wire' \in Seq(Requests) /\ Len(wire') = n + Len(block)
      /\ \A k \in 1..n + Len(block) : wire'[k] =
              IF k <= n THEN w[k] ELSE block[k - n]
  BY ONLY <1>4, <1>6, ConcatProperties
<1>8. n \in Nat /\ n \in {Len(wire), Len(wire) + 1}
  BY <1>1, <1>3 DEF n
<1>9. \A k \in 1..n : wire'[k] =
        IF k <= Len(wire) THEN wire[k] ELSE before[k - Len(wire)]
  <2>1. Len(block) \in Nat
    BY <1>4
  <2>2. \A k \in 1..n : wire'[k] = w[k]
    BY ONLY <1>7, <1>8, <2>1
  <2> QED BY <1>5, <2>2 DEF w
<1>10. \A k \in 1..Len(wire) : wire'[k] = wire[k]
  BY <1>1, <1>8, <1>9
<1>11. \A k \in (Len(wire) + 1)..n : wire'[k] = Req("commit", s)
  <2> TAKE k \in (Len(wire) + 1)..n
  <2>1. k - Len(wire) \in 1..Len(before)
    BY <1>1, <1>3 DEF n
  <2> QED BY <2>1, <1>1, <1>3, <1>8, <1>9
<1>12. \A k \in 1..Len(block) : wire'[n + k] = block[k]
  BY <1>4, <1>7, <1>8
<1>13. Drawn(s, n)
  BY <1>4, <1>7, <1>8, <1>10, <1>11, <1>12 DEF Drawn
<1> QED BY <1>8, <1>13

-----------------------------------------------------------------------------
(***************************************************************************)
(* Type correctness.                                                       *)
(***************************************************************************)

(* The handler of the first event.                                         *)
LEMMA TakeFacts ==
  ASSUME TypeOK, NEW op, Take(op)
  PROVE  /\ pc = "dispatch" /\ events # <<>> /\ events \in Seq(Messages)
         /\ Head(events) = events[1] /\ events[1] \in Messages
         /\ events[1].op = op
         /\ events' = Tail(events) /\ events' \in Seq(Messages)
         /\ batch' \in 0..Len(events')
<1>1. events \in Seq(Messages) /\ batch \in 0..Len(events) /\ batch > 0
  BY DEF Take, TypeOK
<1>2. events # <<>> /\ Len(events) \in Nat
  BY <1>1, EmptySeq, LenProperties
<1>3. /\ Head(events) = events[1] /\ events[1] \in Messages
      /\ Tail(events) \in Seq(Messages) /\ Len(Tail(events)) = Len(events) - 1
  BY <1>1, <1>2, TailFacts
<1>4. events' = Tail(events) /\ batch' = batch - 1 /\ pc = "dispatch" /\ Head(events).op = op
  BY DEF Take
<1>5. batch' \in 0..Len(events')
  BY <1>1, <1>2, <1>3, <1>4
<1> QED BY <1>1, <1>2, <1>3, <1>4, <1>5

(* The compositor reads the first request.                                 *)
LEMMA ReceiveFacts ==
  ASSUME TypeOK, NEW op, Receive(op)
  PROVE  /\ wire # <<>> /\ ~killed /\ wire \in Seq(Requests)
         /\ Head(wire) = wire[1] /\ wire[1] \in Requests /\ wire[1].op = op
         /\ wire' = Tail(wire) /\ wire' \in Seq(Requests)
         /\ Len(wire) \in Nat \ {0} /\ Len(wire') = Len(wire) - 1
         /\ \A k \in 1..Len(wire') : wire'[k] = wire[k + 1]
<1>1. wire \in Seq(Requests) /\ wire # <<>> /\ wire' = Tail(wire)
  BY DEF Receive, TypeOK
<1>2. /\ Head(wire) = wire[1] /\ wire[1] \in Requests
      /\ Tail(wire) \in Seq(Requests) /\ Len(Tail(wire)) = Len(wire) - 1
      /\ Len(wire) \in Nat \ {0}
      /\ \A k \in 1..Len(wire) - 1 : Tail(wire)[k] = wire[k + 1]
  BY <1>1, TailFacts
<1> QED BY <1>1, <1>2 DEF Receive

(* A surface as the compositor knows it, after each of its steps.          *)
LEMMA SurfaceTypes ==
  ASSUME NEW c \in SurfaceStates
  PROVE  /\ Committed(c) \in SurfaceStates
         /\ [c EXCEPT !.frames = c.frames + 1] \in SurfaceStates
         /\ \A b \in Buffers \cup {NoBuffer} :
              [c EXCEPT !.buffer = b] \in SurfaceStates
         /\ [c EXCEPT !.acked = TRUE] \in SurfaceStates
         /\ [c EXCEPT !.closed = TRUE] \in SurfaceStates
         /\ [c EXCEPT !.ready = 0] \in SurfaceStates
<1>1. c.ready + c.frames \in Nat /\ c.frames + 1 \in Nat
  BY DEF SurfaceStates
<1>2. Committed(c) \in SurfaceStates
  BY <1>1 DEF SurfaceStates, Committed
<1>3. [c EXCEPT !.frames = c.frames + 1] \in SurfaceStates
  BY <1>1 DEF SurfaceStates
<1>4. ASSUME NEW b \in Buffers \cup {NoBuffer}
      PROVE  [c EXCEPT !.buffer = b] \in SurfaceStates
  BY DEF SurfaceStates
<1>5. /\ [c EXCEPT !.acked = TRUE] \in SurfaceStates
      /\ [c EXCEPT !.closed = TRUE] \in SurfaceStates
      /\ [c EXCEPT !.ready = 0] \in SurfaceStates
  BY DEF SurfaceStates
<1> QED BY <1>2, <1>3, <1>4, <1>5

(* Drawing keeps the type of the wire and the buffers.                     *)
LEMMA DrawTypes ==
  ASSUME TypeOK, NEW s \in Surfaces, NEW before \in FirstCommits(s),
         DrawFrame(s, before)
  PROVE  wire' \in Seq(Requests) /\ cbuf' \in [Surfaces -> Buffers \cup {0}]
<1>1. wire' \in Seq(Requests)
  BY DrawWire DEF Drawn
<1>2. cbuf' = [cbuf EXCEPT ![s] = NextBuffer(s)]
  BY DEF DrawFrame
<1> QED BY <1>1, <1>2, NextBufferType DEF TypeOK

LEMMA TypeInit == Init => TypeOK
<1> SUFFICES ASSUME Init PROVE TypeOK
  OBVIOUS
<1>1. comp \in [Surfaces -> SurfaceStates]
  BY DEF Init, NewSurface, SurfaceStates
<1>2. wire \in Seq(Requests) /\ events \in Seq(Messages) /\ batch \in 0..Len(events)
  BY DEF Init
<1> QED BY <1>1, <1>2 DEF Init, TypeOK

LEMMA TypeStep ==
  ASSUME TypeOK, [Next]_vars
  PROVE  TypeOK'
<1>1. /\ pc \in {"create", "poll", "dispatch", "done", "crashed"}
      /\ batch \in 0..Len(events) /\ created \subseteq Surfaces
      /\ bare \subseteq Renderless /\ slot \in Surfaces \cup {NoSurface}
      /\ cbuf \in [Surfaces -> Buffers \cup {0}]
      /\ running \in [Surfaces -> BOOLEAN]
      /\ wire \in Seq(Requests) /\ events \in Seq(Messages)
      /\ comp \in [Surfaces -> SurfaceStates]
      /\ ping \in BOOLEAN /\ killed \in BOOLEAN /\ Len(events) \in Nat
  BY LenProperties DEF TypeOK
<1> USE <1>1
<1>2. ASSUME NEW s \in Surfaces, CreateSurface(s) PROVE TypeOK'
  <2>1. CASE s \in bare
    <3>1. Req("commit", s) \in Requests
      BY WireTypes
    <3>2. wire' = Append(wire, Req("commit", s))
      BY <1>2, <2>1 DEF CreateSurface
    <3>3. wire' \in Seq(Requests)
      BY <3>1, <3>2, AppendProperties
    <3> QED BY <1>2, <2>1, <3>3 DEF CreateSurface, TypeOK, compositor
  <2>2. CASE s \notin bare
    <3>1. DrawFrame(s, <<Req("commit", s)>>)
      BY <1>2, <2>2 DEF CreateSurface
    <3>2. wire' \in Seq(Requests) /\ cbuf' \in [Surfaces -> Buffers \cup {0}]
      BY <3>1, DrawTypes DEF FirstCommits
    <3> QED BY <1>2, <2>2, <3>2 DEF CreateSurface, TypeOK, compositor
  <2> QED BY <2>1, <2>2
<1>3. CASE EnterLoop
  BY <1>3 DEF EnterLoop, TypeOK, compositor
<1>4. ASSUME NEW n \in 1..Len(events), Poll(n) PROVE TypeOK'
  BY <1>4 DEF Poll, TypeOK, compositor
<1>5. CASE DispatchFails
  BY <1>5 DEF DispatchFails, TypeOK, compositor
<1>6. CASE HandleDone
  <2>1. DrawFrame(slot, <<>>) /\ slot \in Surfaces
    BY <1>6 DEF HandleDone
  <2>2. wire' \in Seq(Requests) /\ cbuf' \in [Surfaces -> Buffers \cup {0}]
    BY <2>1, DrawTypes DEF FirstCommits
  <2>3. events' \in Seq(Messages) /\ batch' \in 0..Len(events')
    BY <1>6, TakeFacts DEF HandleDone
  <2> QED BY <1>6, <2>2, <2>3 DEF HandleDone, TypeOK, compositor
<1>7. CASE HandleClose
  <2>1. events' \in Seq(Messages) /\ batch' \in 0..Len(events')
    BY <1>7, TakeFacts DEF HandleClose
  <2> QED BY <1>7, <2>1 DEF HandleClose, TypeOK, compositor
<1>8. CASE HandlerCrashes
  <2>1. events' \in Seq(Messages) /\ batch' \in 0..Len(events')
    BY <1>8, TakeFacts DEF HandlerCrashes
  <2> QED BY <1>8, <2>1 DEF HandlerCrashes, TypeOK, compositor
<1>9. CASE HandleConfigure
  <2>1. /\ events' \in Seq(Messages) /\ batch' \in 0..Len(events')
        /\ Head(events) \in Messages /\ Head(events).op = "configure"
    BY <1>9, TakeFacts DEF HandleConfigure
  <2>2. wire' \in Seq(Requests)
    BY <1>9, <2>1, WireTypes, AppendProperties DEF HandleConfigure
  <2> QED BY <1>9, <2>1, <2>2 DEF HandleConfigure, TypeOK, compositor
<1>10. CASE HandlePing
  <2>1. events' \in Seq(Messages) /\ batch' \in 0..Len(events')
    BY <1>10, TakeFacts DEF HandlePing
  <2>2. wire' \in Seq(Requests)
    BY <1>10, WireTypes, AppendProperties DEF HandlePing
  <2> QED BY <1>10, <2>1, <2>2 DEF HandlePing, TypeOK, compositor
<1>11. CASE LoopTest
  BY <1>11 DEF LoopTest, TypeOK, compositor
<1>12. CASE ReceiveFrame
  <2>1. wire' \in Seq(Requests) /\ Head(wire).surface \in Surfaces
    BY <1>12, ReceiveFacts, WireTypes DEF ReceiveFrame
  <2>2. comp' \in [Surfaces -> SurfaceStates]
    BY <1>12, <2>1, SurfaceTypes DEF ReceiveFrame
  <2> QED BY <1>12, <2>1, <2>2 DEF ReceiveFrame, TypeOK, client
<1>13. CASE ReceiveAttach
  <2>1. /\ wire' \in Seq(Requests) /\ Head(wire).surface \in Surfaces
        /\ Head(wire).buffer \in Buffers \cup {NoBuffer}
    BY <1>13, ReceiveFacts, WireTypes DEF ReceiveAttach
  <2>2. comp' \in [Surfaces -> SurfaceStates]
    BY <1>13, <2>1, SurfaceTypes DEF ReceiveAttach
  <2> QED BY <1>13, <2>1, <2>2 DEF ReceiveAttach, TypeOK, client
<1>14. CASE ReceiveCommit
  <2>1. wire' \in Seq(Requests) /\ Head(wire).surface \in Surfaces
    BY <1>14, ReceiveFacts, WireTypes DEF ReceiveCommit
  <2>2. killed' \in BOOLEAN /\ comp' \in [Surfaces -> SurfaceStates]
    <3>1. PICK refused \in BOOLEAN :
            /\ killed' = refused
            /\ comp' = IF refused THEN comp
                       ELSE [comp EXCEPT ![Head(wire).surface] =
                               Committed(comp[Head(wire).surface])]
      BY <1>14 DEF ReceiveCommit
    <3>2. Committed(comp[Head(wire).surface]) \in SurfaceStates
      BY <2>1, SurfaceTypes
    <3> QED BY <2>1, <3>1, <3>2
  <2>3. events' \in Seq(Messages) /\ batch \in 0..Len(events')
    <3> DEFINE e == Event("configure", Head(wire).surface)
    <3>1. e \in Messages
      BY <2>1, WireTypes
    <3> HIDE DEF e
    <3>2. /\ Append(events, e) \in Seq(Messages)
          /\ Len(Append(events, e)) = Len(events) + 1
      BY <3>1, AppendProperties
    <3>3. events' = events \/ events' = Append(events, e)
      BY <1>14 DEF ReceiveCommit, e
    <3>4. CASE events' = events
      BY <3>4
    <3>5. CASE events' = Append(events, e)
      BY <3>2, <3>5
    <3> QED BY <3>3, <3>4, <3>5
  <2> QED BY <1>14, <2>1, <2>2, <2>3 DEF ReceiveCommit, TypeOK, client
<1>15. CASE ReceiveAck
  <2>1. wire' \in Seq(Requests) /\ Head(wire).surface \in Surfaces
    BY <1>15, ReceiveFacts, WireTypes DEF ReceiveAck
  <2>2. comp' \in [Surfaces -> SurfaceStates]
    BY <1>15, <2>1, SurfaceTypes DEF ReceiveAck
  <2> QED BY <1>15, <2>1, <2>2 DEF ReceiveAck, TypeOK, client
<1>16. CASE ReceivePong
  <2>1. wire' \in Seq(Requests)
    BY <1>16, ReceiveFacts DEF ReceivePong
  <2> QED BY <1>16, <2>1 DEF ReceivePong, TypeOK, client
<1>17. CASE SendPing
  <2>1. Event("ping", NoSurface) \in Messages
    BY WireTypes
  <2>2. events' = Append(events, Event("ping", NoSurface))
    BY <1>17 DEF SendPing
  <2>3. events' \in Seq(Messages) /\ Len(events') = Len(events) + 1
    BY <2>1, <2>2, AppendProperties
  <2> QED BY <1>17, <2>3 DEF SendPing, TypeOK, client
<1>18. CASE Disconnect
  BY <1>18 DEF Disconnect, TypeOK, client
<1>19. ASSUME NEW s \in Surfaces, Repaint(s) PROVE TypeOK'
  <2> DEFINE r == comp[s].ready
             dones == [k \in 1..r |-> Event("done", s)]
  <2>1. r \in Nat
    BY DEF SurfaceStates
  <2>2. dones \in Seq(Messages) /\ Len(dones) = r
    <3>1. Event("done", s) \in Messages
      BY WireTypes
    <3>2. dones \in [1..r -> Messages]
      BY <3>1
    <3> HIDE DEF dones, r
    <3> QED BY <2>1, <3>2
  <2>3. events' = events \o dones /\ comp' = [comp EXCEPT ![s].ready = 0]
    BY <1>19 DEF Repaint
  <2> HIDE DEF dones, r
  <2>4. events' \in Seq(Messages) /\ Len(events') = Len(events) + r
    BY <2>2, <2>3, ConcatProperties
  <2>5. comp' \in [Surfaces -> SurfaceStates]
    BY <2>3, SurfaceTypes
  <2>6. batch \in 0..Len(events')
    BY <2>1, <2>4
  <2> QED BY <1>19, <2>4, <2>5, <2>6 DEF Repaint, TypeOK, client
<1>20. ASSUME NEW s \in Surfaces, SendClose(s) PROVE TypeOK'
  <2>1. Event("close", s) \in Messages
    BY WireTypes
  <2>2. events' = Append(events, Event("close", s))
    BY <1>20 DEF SendClose
  <2>3. events' \in Seq(Messages) /\ Len(events') = Len(events) + 1
    BY <2>1, <2>2, AppendProperties
  <2>4. comp' \in [Surfaces -> SurfaceStates]
    BY <1>20, SurfaceTypes DEF SendClose
  <2> QED BY <1>20, <2>3, <2>4 DEF SendClose, TypeOK, client
<1>21. CASE UNCHANGED vars
  BY <1>21 DEF vars, TypeOK
<1> QED
  BY <1>2, <1>3, <1>4, <1>5, <1>6, <1>7, <1>8, <1>9, <1>10, <1>11, <1>12,
     <1>13, <1>14, <1>15, <1>16, <1>17, <1>18, <1>19, <1>20, <1>21
  DEF Next, Client, Compositor, Process, Ended

(* Every variable of client, connection and compositor keeps its type.     *)
THEOREM TypeCorrect == Spec => []TypeOK
  BY TypeInit, TypeStep, PTL DEF Spec


-----------------------------------------------------------------------------
(***************************************************************************)
(* The buffers on their way to the screen.                                 *)
(***************************************************************************)

(* The static rinfo.                                                       *)
LEMMA SlotStep ==
  ASSUME TypeOK, SlotInv, [Next]_vars
  PROVE  SlotInv'
<1>1. ASSUME NEW s \in Surfaces, CreateSurface(s) PROVE SlotInv'
  BY <1>1 DEF CreateSurface, SlotInv
<1>2. CASE UNCHANGED <<slot, created, bare>>
  BY <1>2 DEF SlotInv
<1>3. \/ \E s \in Surfaces : CreateSurface(s)
      \/ UNCHANGED <<slot, created, bare>>
  BY DEF Next, Client, Compositor, Process, Ended, vars, client, EnterLoop, Poll,
         DispatchFails, HandleDone, HandleClose, HandlerCrashes, HandleConfigure,
         HandlePing, LoopTest, ReceiveFrame, ReceiveAttach, ReceiveCommit,
         ReceiveAck, ReceivePong, Repaint, SendClose, SendPing, Disconnect
<1> QED BY <1>1, <1>2, <1>3

(* The wire only grows, without a new buffer for t, and nothing that       *)
(* concerns the buffers of t changes otherwise.                            *)
Grows ==
    /\ Len(wire) <= Len(wire')
    /\ \A k \in 1..Len(wire) : wire'[k] = wire[k]

Leaves(t) ==
    /\ Grows /\ Attaches(t)' = Attaches(t)
    /\ cbuf'[t] = cbuf[t]
    /\ comp'[t].buffer = comp[t].buffer /\ comp'[t].front = comp[t].front
    /\ killed => killed'

LEMMA LeavesBuffers ==
  ASSUME TypeOK, TypeOK', NEW t \in Surfaces, Leaves(t),
         Commits(t), InOrder(t), Paced(t)
  PROVE  (Commits(t) /\ InOrder(t) /\ Paced(t))'
<1>1. /\ wire \in Seq(Requests) /\ wire' \in Seq(Requests)
      /\ Len(wire) \in Nat /\ Len(wire') \in Nat
  BY LenProperties DEF TypeOK
<1>2. ASSUME NEW op, NEW S
      PROVE  Positions(wire, op, S) \subseteq Positions(wire', op, S)
  BY <1>1 DEF Positions, Leaves, Grows
<1>3. \A k \in Attaches(t) : k \in 1..Len(wire) /\ wire'[k] = wire[k]
  BY DEF Attaches, Positions, Leaves, Grows
<1>4. CommitOf(t) => CommitOf(t)'
  <2> SUFFICES ASSUME CommitOf(t) PROVE CommitOf(t)'
    OBVIOUS
  <2>1. wire # <<>> /\ Len(wire) > 0
    BY <1>1, EmptySeq DEF CommitOf
  <2>2. wire'[1] = wire[1] /\ wire' # <<>>
    BY <1>1, <2>1 DEF Leaves, Grows
  <2> QED BY <2>2 DEF CommitOf
<1>5. Latest(t)' = Latest(t)
  BY DEF Latest, Leaves
<1>6. Commits(t)'
  <2>1. \A k \in Attaches(t)' : /\ Attach /\ wire'[k].buffer # NoBuffer
                                /\ k + 1 \in Positions(wire', "commit", {t})
    BY <1>2, <1>3 DEF Commits, Leaves
  <2> QED BY <2>1, <1>4 DEF Commits, Leaves
<1>7. InOrder(t)'
  BY <1>3, <1>5 DEF InOrder, Leaves
<1>8. Paced(t)'
  BY <1>2 DEF Paced, Leaves
<1> QED BY <1>6, <1>7, <1>8

(* When the first request is read the others move up.                      *)
LEMMA Shifted ==
  ASSUME TypeOK, NEW op, Receive(op), NEW t \in Surfaces
  PROVE  /\ \A k \in Attaches(t)' : /\ k \in Nat \ {0} /\ k + 1 \in Attaches(t)
                                    /\ wire'[k] = wire[k + 1]
         /\ \A k \in Attaches(t) :
              k \in Nat \ {0} /\ (k # 1 => k - 1 \in Attaches(t)')
         /\ \A k \in Positions(wire, "frame", {t}) :
              k \in Nat \ {0} /\ (k # 1 => k - 1 \in Positions(wire', "frame", {t}))
         /\ \A k \in Nat \ {0} : k + 1 \in Positions(wire, "commit", {t})
                                   => k \in Positions(wire', "commit", {t})
<1>1. /\ wire \in Seq(Requests) /\ wire # <<>> /\ wire' = Tail(wire)
      /\ Len(wire) \in Nat \ {0} /\ Len(wire') = Len(wire) - 1
      /\ \A k \in 1..Len(wire') : wire'[k] = wire[k + 1]
  BY ReceiveFacts
<1>2. ASSUME NEW o, NEW k \in Int
      PROVE  k \in Positions(wire', o, {t})
               <=> k # 0 /\ k + 1 \in Positions(wire, o, {t})
  BY <1>1, PositionsTail
<1>3. ASSUME NEW o
      PROVE  \A k \in Positions(wire, o, {t}) :
               k \in Nat \ {0} /\ (k # 1 => k - 1 \in Positions(wire', o, {t}))
  <2> TAKE k \in Positions(wire, o, {t})
  <2>1. k \in Nat \ {0} /\ k - 1 \in Int /\ (k - 1) + 1 = k
    BY <1>1 DEF Positions
  <2>2. k # 1 => k - 1 # 0
    BY <2>1
  <2>3. k - 1 \in Positions(wire', o, {t})
          <=> k - 1 # 0 /\ (k - 1) + 1 \in Positions(wire, o, {t})
    BY <1>2, <2>1
  <2> QED BY <2>1, <2>2, <2>3
<1>4. ASSUME NEW k \in Attaches(t)'
      PROVE  k \in Nat \ {0} /\ k + 1 \in Attaches(t) /\ wire'[k] = wire[k + 1]
  <2>1. k \in 1..Len(wire') /\ k \in Positions(wire', "attach", {t})
    BY <1>4 DEF Attaches, Positions
  <2>2. k + 1 \in Positions(wire, "attach", {t})
    BY <1>1, <2>1 DEF Positions
  <2> QED BY <1>1, <2>1, <2>2 DEF Attaches
<1>5. \A k \in Attaches(t) : k \in Nat \ {0} /\ (k # 1 => k - 1 \in Attaches(t)')
  BY <1>3 DEF Attaches
<1>6. \A k \in Nat \ {0} : k + 1 \in Positions(wire, "commit", {t})
                             => k \in Positions(wire', "commit", {t})
  BY <1>2
<1> QED BY <1>3, <1>4, <1>5, <1>6

(* The first request is read, and no buffer of t is attached by it.  The   *)
(* pending buffer of t, if it stays pending, is lost with the connection.  *)
Drops(t) ==
    /\ 1 \notin Attaches(t)
    /\ cbuf'[t] = cbuf[t]
    /\ Latest(t)' = Latest(t)
    /\ comp'[t].buffer # NoBuffer =>
         /\ comp'[t].buffer = comp[t].buffer /\ comp'[t].front = comp[t].front
         /\ 1 \notin Positions(wire, "frame", {t}) /\ killed'

(* The two clauses that do not depend on what has reached the compositor.  *)
LEMMA ShiftedOrder ==
  ASSUME TypeOK, NEW op, Receive(op), NEW t \in Surfaces, cbuf'[t] = cbuf[t],
         Commits(t), InOrder(t), Paced(t)
  PROVE  \A k \in Attaches(t)' :
           /\ Attach /\ wire'[k].buffer # NoBuffer
           /\ k + 1 \in Positions(wire', "commit", {t})
           /\ (\A i \in Attaches(t)' : i <= k)
                => cbuf'[t] = Following(wire'[k].buffer)
           /\ \A j \in Attaches(t)' :
                j < k /\ (\A i \in Attaches(t)' : i <= j \/ k <= i)
                  => wire'[k].buffer = Following(wire'[j].buffer)
           /\ \A j \in Attaches(t)' : j < k =>
                \E i \in Positions(wire', "frame", {t}) : j < i /\ i < k
<1> TAKE k \in Attaches(t)'
<1>1. k \in Nat \ {0} /\ k + 1 \in Attaches(t) /\ wire'[k] = wire[k + 1]
  BY Shifted
<1>2. \A i \in Attaches(t) : i \in Nat \ {0} /\ (i # 1 => i - 1 \in Attaches(t)')
  BY Shifted
<1>3. /\ Attach /\ wire'[k].buffer # NoBuffer
      /\ k + 1 \in Positions(wire', "commit", {t})
  <2>1. (k + 1) + 1 \in Positions(wire, "commit", {t})
    BY <1>1 DEF Commits
  <2>2. k + 1 \in Nat \ {0}
    BY <1>1
  <2> QED BY <1>1, <2>1, <2>2, Shifted DEF Commits
<1>4. ASSUME \A i \in Attaches(t)' : i <= k
      PROVE  cbuf'[t] = Following(wire'[k].buffer)
  <2>1. \A i \in Attaches(t) : i <= k + 1
    BY <1>1, <1>2, <1>4
  <2> QED BY <1>1, <2>1 DEF InOrder
<1>5. ASSUME NEW j \in Attaches(t)', j < k
      PROVE  /\ (\A i \in Attaches(t)' : i <= j \/ k <= i)
                   => wire'[k].buffer = Following(wire'[j].buffer)
             /\ \E i \in Positions(wire', "frame", {t}) : j < i /\ i < k
  <2>1. j \in Nat \ {0} /\ j + 1 \in Attaches(t) /\ wire'[j] = wire[j + 1]
    BY Shifted
  <2>2. j + 1 < k + 1
    BY <1>1, <1>5, <2>1
  <2>3. ASSUME \A i \in Attaches(t)' : i <= j \/ k <= i
        PROVE  wire'[k].buffer = Following(wire'[j].buffer)
    <3>1. \A i \in Attaches(t) : i <= j + 1 \/ k + 1 <= i
      BY <1>1, <1>2, <2>1, <2>3
    <3> QED BY <1>1, <2>1, <2>2, <3>1 DEF InOrder
  <2>4. PICK i \in Positions(wire, "frame", {t}) : j + 1 < i /\ i < k + 1
    BY <1>1, <2>1, <2>2 DEF Paced
  <2>5. i \in Nat \ {0}
    BY Shifted
  <2>6. i # 1
    BY <2>1, <2>4, <2>5
  <2>7. i - 1 \in Positions(wire', "frame", {t})
    BY <2>6, Shifted
  <2> QED BY <1>1, <2>1, <2>3, <2>4, <2>5, <2>7
<1> QED BY <1>3, <1>4, <1>5

LEMMA DropsBuffers ==
  ASSUME TypeOK, NEW op, Receive(op), NEW t \in Surfaces, Drops(t),
         Commits(t), InOrder(t), Paced(t)
  PROVE  (Commits(t) /\ InOrder(t) /\ Paced(t))'
<1>1. cbuf'[t] = cbuf[t] /\ 1 \notin Attaches(t)
  BY DEF Drops
<1>2. \A k \in Attaches(t)' : k \in Nat \ {0} /\ k + 1 \in Attaches(t)
                                /\ wire'[k] = wire[k + 1]
  BY Shifted
<1>3. \A k \in Attaches(t) : k \in Nat \ {0} /\ k - 1 \in Attaches(t)'
  BY <1>1, Shifted
<1>4. Commits(t)'
  <2>1. comp'[t].buffer # NoBuffer \/ comp'[t].front # NoBuffer => Attach
    BY DEF Commits, Drops, Latest
  <2>2. comp'[t].buffer # NoBuffer => killed'
    BY DEF Drops
  <2> QED BY <1>1, <2>1, <2>2, ShiftedOrder DEF Commits
<1>5. InOrder(t)'
  <2>1. comp'[t].buffer # NoBuffer /\ comp'[t].front # NoBuffer
          => comp'[t].buffer = Following(comp'[t].front)
    BY DEF InOrder, Drops
  <2>2. Attaches(t)' = {} => Attaches(t) = {}
    BY <1>3
  <2>3. Attaches(t)' = {} /\ Latest(t)' # NoBuffer
          => cbuf'[t] = Following(Latest(t)')
    BY <2>2 DEF InOrder, Drops
  <2>4. ASSUME NEW k \in Attaches(t)', \A i \in Attaches(t)' : k <= i,
               Latest(t)' # NoBuffer
        PROVE  wire'[k].buffer = Following(Latest(t)')
    <3>1. \A i \in Attaches(t) : k + 1 <= i
      BY <1>2, <1>3, <2>4
    <3> QED BY <1>2, <2>4, <3>1 DEF InOrder, Drops
  <2> QED BY <1>1, <2>1, <2>3, <2>4, ShiftedOrder DEF InOrder
<1>6. Paced(t)'
  <2>1. ASSUME NEW k \in Attaches(t)', comp'[t].buffer # NoBuffer
        PROVE  \E i \in Positions(wire', "frame", {t}) : i < k
    <3>1. comp[t].buffer # NoBuffer /\ 1 \notin Positions(wire, "frame", {t})
      BY <2>1 DEF Drops
    <3>2. PICK i \in Positions(wire, "frame", {t}) : i < k + 1
      BY <3>1, <1>2 DEF Paced
    <3>3. i \in Nat \ {0} /\ i - 1 \in Positions(wire', "frame", {t})
      BY <3>1, Shifted
    <3> QED BY <1>2, <3>2, <3>3
  <2> QED BY <1>1, <2>1, ShiftedOrder DEF Paced
<1> QED BY <1>4, <1>5, <1>6

(* A buffer of t reaches the compositor, its commit right behind it.       *)
LEMMA AttachBuffers ==
  ASSUME TypeOK, ReceiveAttach, NEW t \in Surfaces, t = wire[1].surface,
         Commits(t), InOrder(t), Paced(t)
  PROVE  (Commits(t) /\ InOrder(t) /\ Paced(t))'
<1> DEFINE b == wire[1].buffer
<1>1. Receive("attach") /\ cbuf' = cbuf
  BY DEF ReceiveAttach, client
<1>2. /\ wire # <<>> /\ ~killed /\ Head(wire) = wire[1] /\ wire[1].op = "attach"
      /\ Len(wire) \in Nat \ {0} /\ wire' \in Seq(Requests)
  BY <1>1, ReceiveFacts
<1>3. 1 \in Attaches(t)
  BY <1>2 DEF Attaches, Positions
<1>4. comp[t].buffer = NoBuffer /\ b # NoBuffer
  BY <1>2, <1>3 DEF Commits, CommitOf
<1>5. comp'[t].buffer = b /\ comp'[t].front = comp[t].front
  BY <1>2 DEF ReceiveAttach, TypeOK, SurfaceStates
<1>6. Latest(t)' = b /\ Latest(t) = comp[t].front
  BY <1>4, <1>5 DEF Latest
<1>7. \A k \in Attaches(t)' : k \in Nat \ {0} /\ k + 1 \in Attaches(t)
                                /\ wire'[k] = wire[k + 1]
  BY <1>1, Shifted
<1>8. \A k \in Attaches(t) : k \in Nat \ {0} /\ (k # 1 => k - 1 \in Attaches(t)')
  BY <1>1, Shifted
<1> HIDE DEF b
<1>9. Commits(t)'
  <2>1. 1 + 1 \in Positions(wire, "commit", {t}) /\ Attach
    BY <1>3 DEF Commits
  <2>2. 1 \in Positions(wire', "commit", {t})
    BY <1>1, <2>1, ReceiveFacts DEF Positions
  <2>3. CommitOf(t)'
    BY <1>2, <2>2 DEF Positions, CommitOf
  <2> QED BY <1>1, <2>1, <2>3, ShiftedOrder DEF Commits
<1>10. InOrder(t)'
  <2>1. comp'[t].front # NoBuffer => comp'[t].buffer = Following(comp'[t].front)
    BY <1>3, <1>5, <1>6, <1>8 DEF InOrder, b
  <2>2. Attaches(t)' = {} => cbuf'[t] = Following(Latest(t)')
    <3>1. Attaches(t)' = {} => \A i \in Attaches(t) : i <= 1
      BY <1>8
    <3> QED BY <1>1, <1>3, <1>6, <3>1 DEF InOrder, b
  <2>3. ASSUME NEW k \in Attaches(t)', \A i \in Attaches(t)' : k <= i
        PROVE  wire'[k].buffer = Following(Latest(t)')
    <3>1. k \in Nat \ {0} /\ k + 1 \in Attaches(t) /\ wire'[k] = wire[k + 1]
      BY <1>7
    <3>2. 1 < k + 1 /\ \A i \in Attaches(t) : i <= 1 \/ k + 1 <= i
      BY <1>8, <2>3, <3>1
    <3> QED BY <1>3, <1>6, <3>1, <3>2 DEF InOrder, b
  <2> QED BY <1>1, <2>1, <2>2, <2>3, ShiftedOrder DEF InOrder
<1>11. Paced(t)'
  <2>1. ASSUME NEW k \in Attaches(t)'
        PROVE  \E i \in Positions(wire', "frame", {t}) : i < k
    <3>1. k \in Nat \ {0} /\ k + 1 \in Attaches(t) /\ 1 < k + 1
      BY <1>7
    <3>2. PICK i \in Positions(wire, "frame", {t}) : 1 < i /\ i < k + 1
      BY <1>3, <3>1 DEF Paced
    <3>3. i \in Nat \ {0}
      BY <1>1, Shifted
    <3>4. i # 1
      BY <3>2, <3>3
    <3>5. i - 1 \in Positions(wire', "frame", {t})
      BY <1>1, <3>4, Shifted
    <3> QED BY <3>1, <3>2, <3>3, <3>5
  <2> QED BY <1>1, <2>1, ShiftedOrder DEF Paced
<1> QED BY <1>9, <1>10, <1>11

(* What drawing s adds to the positions of requests.                       *)
LEMMA DrawnRequests ==
  ASSUME TypeOK, NEW s \in Surfaces, NEW n \in {Len(wire), Len(wire) + 1},
         Drawn(s, n)
  PROVE  /\ n \in Nat /\ Len(wire) \in Nat /\ Len(wire') \in Nat /\ Grows
         /\ wire'[n + 1].op = "frame" /\ wire'[n + 1].surface = s
         /\ \A k \in (Len(wire) + 1)..n : wire'[k].op = "commit"
         /\ wire'[n + 2].op = "commit"
         /\ Attach => wire'[n + 3].op = "attach" /\ wire'[n + 3].surface = s
         /\ wire'[Len(wire')].op = "commit" /\ wire'[Len(wire')].surface = s
         /\ Len(wire') = n + (IF Attach THEN 4 ELSE 3)
         /\ \A k \in 1..Len(wire') :
              \/ k \in 1..Len(wire) \/ k \in (Len(wire) + 1)..n
              \/ k = n + 1 \/ k = n + 2 \/ (Attach /\ k = n + 3) \/ k = Len(wire')
<1>1. /\ wire \in Seq(Requests) /\ Len(wire) \in Nat /\ n \in Nat
      /\ wire' \in Seq(Requests) /\ Len(wire') \in Nat
  <2>1. wire \in Seq(Requests) /\ wire' \in Seq(Requests)
    BY DEF TypeOK, Drawn
  <2>2. Len(wire) \in Nat /\ Len(wire') \in Nat
    BY <2>1, LenProperties
  <2> QED BY <2>1, <2>2
<1>2. /\ wire'[n + 1].op = "frame" /\ wire'[n + 1].surface = s
      /\ \A k \in (Len(wire) + 1)..n : wire'[k].op = "commit"
      /\ wire'[n + 2].op = "commit"
      /\ Attach => wire'[n + 3].op = "attach" /\ wire'[n + 3].surface = s
      /\ wire'[Len(wire')].op = "commit" /\ wire'[Len(wire')].surface = s
      /\ Len(wire') = n + (IF Attach THEN 4 ELSE 3)
  <2>1. /\ Req("frame", s).op = "frame" /\ Req("frame", s).surface = s
        /\ Req("commit", s).op = "commit" /\ Req("commit", s).surface = s
        /\ AttachReq(s, cbuf[s]).op = "attach"
        /\ AttachReq(s, cbuf[s]).surface = s
    BY DEF Req, AttachReq
  <2> QED BY <2>1 DEF Drawn
<1>3. \A k \in 1..Len(wire') :
        \/ k \in 1..Len(wire) \/ k \in (Len(wire) + 1)..n
        \/ k = n + 1 \/ k = n + 2 \/ (Attach /\ k = n + 3) \/ k = Len(wire')
  <2> DEFINE m == Len(wire')
             l == Len(wire)
  <2>1. m \in Nat /\ l \in Nat /\ ((Attach /\ m = n + 4) \/ m = n + 3)
    BY <1>1, <1>2
  <2> HIDE DEF m, l
  <2>2. ASSUME NEW k \in 1..m, k \notin 1..l, k \notin (l + 1)..n
        PROVE  k = n + 1 \/ k = n + 2 \/ k = n + 3 \/ k = n + 4
    BY <1>1, <2>1, <2>2
  <2>3. ASSUME NEW k \in 1..m, k = n + 3, ~Attach PROVE k = m
    BY <2>1, <2>3
  <2>4. ASSUME NEW k \in 1..m, k = n + 4 PROVE k = m
    BY <1>1, <2>1, <2>4
  <2>5. \A k \in 1..m :
          \/ k \in 1..l \/ k \in (l + 1)..n
          \/ k = n + 1 \/ k = n + 2 \/ (Attach /\ k = n + 3) \/ k = m
    BY <2>2, <2>3, <2>4
  <2> QED BY <2>5 DEF m, l
<1>4. Grows
  BY <1>1, <1>2 DEF Grows, Drawn
<1> QED BY <1>1, <1>2, <1>3, <1>4

(* One request for a frame callback is added.                              *)
LEMMA DrawFrames ==
  ASSUME TypeOK, NEW s \in Surfaces, NEW n \in {Len(wire), Len(wire) + 1},
         Drawn(s, n), NEW S
  PROVE  Positions(wire', "frame", S) =
           Positions(wire, "frame", S) \cup (IF s \in S THEN {n + 1} ELSE {})
<1> DEFINE P == Positions(wire, "frame", S)
           Q == Positions(wire', "frame", S)
<1>1. \A k \in 1..Len(wire) : k \in Q <=> k \in P
  BY DrawnRequests DEF Grows, Positions
<1>2. \A k \in 1..Len(wire') : k \notin 1..Len(wire) =>
          (k \in Q <=> k = n + 1 /\ s \in S)
  <2> TAKE k \in 1..Len(wire')
  <2>1. CASE k = n + 1
    BY <2>1, DrawnRequests DEF Positions
  <2>2. CASE k # n + 1
    <3>1. k \notin 1..Len(wire) => wire'[k].op # "frame"
      BY <2>2, DrawnRequests
    <3> QED BY <2>2, <3>1 DEF Positions
  <2> QED BY <2>1, <2>2
<1>3. P \subseteq 1..Len(wire) /\ Q \subseteq 1..Len(wire')
  BY DEF Positions
<1>4. /\ 1..Len(wire) \subseteq 1..Len(wire')
        /\ n + 1 \in 1..Len(wire') /\ n + 1 \notin 1..Len(wire)
  BY DrawnRequests
<1> HIDE DEF P, Q
<1>5. Q = P \cup (IF s \in S THEN {n + 1} ELSE {})
  BY <1>1, <1>2, <1>3, <1>4
<1> QED BY <1>5 DEF P, Q

(* With content, the buffer of s is added, and its commit right behind it. *)
LEMMA DrawPositions ==
  ASSUME TypeOK, NEW s \in Surfaces, NEW n \in {Len(wire), Len(wire) + 1},
         Drawn(s, n)
  PROVE  /\ \A t \in Surfaces : Attaches(t)' =
              Attaches(t) \cup (IF Attach /\ t = s THEN {n + 3} ELSE {})
         /\ Attach => (n + 3) + 1 \in Positions(wire', "commit", {s})
         /\ Grows /\ n \in Nat /\ Len(wire) \in Nat
<1>1. Grows /\ n \in Nat /\ Len(wire) \in Nat /\ Len(wire') \in Nat
  BY DrawnRequests
<1>2. ASSUME NEW t \in Surfaces
      PROVE  Attaches(t)' =
               Attaches(t) \cup (IF Attach /\ t = s THEN {n + 3} ELSE {})
  <2>1. \A k \in 1..Len(wire) : k \in Attaches(t)' <=> k \in Attaches(t)
    BY <1>1 DEF Grows, Attaches, Positions
  <2>2. \A k \in 1..Len(wire') : k \notin 1..Len(wire) =>
          (k \in Attaches(t)' <=> Attach /\ k = n + 3 /\ t = s)
    <3> TAKE k \in 1..Len(wire')
    <3>1. CASE Attach /\ k = n + 3
      BY <3>1, DrawnRequests DEF Attaches, Positions
    <3>2. CASE ~(Attach /\ k = n + 3)
      <4>1. k \notin 1..Len(wire) => wire'[k].op # "attach"
        BY <3>2, DrawnRequests
      <4> QED BY <3>2, <4>1 DEF Attaches, Positions
    <3> QED BY <3>1, <3>2
  <2>3. Attaches(t) \subseteq 1..Len(wire) /\ Attaches(t)' \subseteq 1..Len(wire')
    BY DEF Attaches, Positions
  <2>4. /\ 1..Len(wire) \subseteq 1..Len(wire')
        /\ Attach => n + 3 \in 1..Len(wire') /\ n + 3 \notin 1..Len(wire)
    BY <1>1, DrawnRequests
  <2> QED BY <2>1, <2>2, <2>3, <2>4
<1>3. Attach => (n + 3) + 1 \in Positions(wire', "commit", {s})
  BY DrawnRequests DEF Positions
<1> QED BY <1>1, <1>2, <1>3

(* The surface that is drawn.                                              *)
LEMMA DrawsBuffers ==
  ASSUME TypeOK, TypeOK', NEW s \in Surfaces, NEW before \in FirstCommits(s),
         DrawFrame(s, before), UNCHANGED <<comp, killed>>,
         Commits(s), InOrder(s), Paced(s)
  PROVE  (Commits(s) /\ InOrder(s) /\ Paced(s))'
<1>1. PICK n \in {Len(wire), Len(wire) + 1} : Drawn(s, n)
  BY DrawWire
<1>2. /\ Attaches(s)' = Attaches(s) \cup (IF Attach THEN {n + 3} ELSE {})
      /\ Positions(wire', "frame", {s}) = Positions(wire, "frame", {s}) \cup {n + 1}
      /\ Attach => (n + 3) + 1 \in Positions(wire', "commit", {s})
      /\ Grows /\ n \in Nat /\ Len(wire) \in Nat
  <2>1. Attaches(s)' = Attaches(s) \cup (IF Attach /\ s = s THEN {n + 3} ELSE {})
    BY <1>1, DrawPositions
  <2>2. Positions(wire', "frame", {s}) =
          Positions(wire, "frame", {s}) \cup (IF s \in {s} THEN {n + 1} ELSE {})
    BY <1>1, DrawFrames
  <2> QED BY <1>1, <2>1, <2>2, DrawPositions
<1>3. /\ wire \in Seq(Requests) /\ Len(wire') \in Nat
      /\ comp'[s] = comp[s] /\ Latest(s)' = Latest(s)
  BY LenProperties DEF TypeOK, Latest
<1>4. \A k \in Attaches(s) : k \in 1..Len(wire) /\ wire'[k] = wire[k]
  BY <1>2 DEF Attaches, Positions, Grows
<1>5. CommitOf(s) => CommitOf(s)'
  <2> SUFFICES ASSUME CommitOf(s) PROVE CommitOf(s)'
    OBVIOUS
  <2>1. wire # <<>> /\ Len(wire) > 0
    BY <1>2, <1>3, EmptySeq DEF CommitOf
  <2>2. wire'[1] = wire[1] /\ wire' # <<>>
    BY <1>2, <1>3, <2>1 DEF Grows
  <2> QED BY <2>2 DEF CommitOf
<1>6. CASE ~Attach
  <2>1. Attaches(s) = {} /\ Attaches(s)' = {}
    BY <1>2, <1>6 DEF Commits
  <2>2. comp[s].buffer = NoBuffer /\ Latest(s) = NoBuffer
    BY <1>6 DEF Commits, Latest
  <2> QED BY <1>3, <1>5, <1>6, <2>1, <2>2 DEF Commits, InOrder, Paced
<1>7. CASE Attach
  <2> DEFINE p == n + 3
  <2>1. /\ Attaches(s)' = Attaches(s) \cup {p}
        /\ \A k \in Attaches(s) : k \in Nat /\ k < n + 1 /\ k < p
        /\ n + 1 < p /\ p \in Nat
    BY <1>2, <1>4, <1>7
  <2>2. wire'[p].buffer = cbuf[s] /\ cbuf[s] \in Buffers /\ cbuf[s] # NoBuffer
    BY <1>1, <1>7, NextBufferType DEF Drawn, AttachReq, Buffers
  <2>3. cbuf'[s] = Following(cbuf[s])
    BY <1>7, NextBufferType DEF DrawFrame, TypeOK
  <2>4. p + 1 \in Positions(wire', "commit", {s})
    BY <1>2, <1>7
  <2> HIDE DEF p
  <2>5. Commits(s)'
    <3>1. \A k \in Attaches(s) : k + 1 \in Positions(wire', "commit", {s})
      BY <1>2, <1>3 DEF Commits, Positions, Grows
    <3> QED BY <1>3, <1>4, <1>5, <1>7, <2>1, <2>2, <2>4, <3>1 DEF Commits
  <2>6. InOrder(s)'
    <3>1. ASSUME NEW k \in Attaches(s)', \A i \in Attaches(s)' : k <= i,
                 Latest(s)' # NoBuffer
          PROVE  wire'[k].buffer = Following(Latest(s)')
      <4>1. CASE k = p
        <5>1. Attaches(s) = {}
          BY <2>1, <3>1, <4>1
        <5> QED BY <1>3, <2>2, <3>1, <4>1, <5>1 DEF InOrder
      <4>2. CASE k \in Attaches(s)
        BY <1>3, <1>4, <2>1, <3>1, <4>2 DEF InOrder
      <4> QED BY <2>1, <4>1, <4>2
    <3>2. ASSUME NEW k \in Attaches(s)', \A i \in Attaches(s)' : i <= k
          PROVE  cbuf'[s] = Following(wire'[k].buffer)
      <4>1. k = p
        <5>1. p \in Attaches(s)' /\ p <= k
          BY <2>1, <3>2
        <5> QED BY <2>1, <5>1
      <4> QED BY <2>2, <2>3, <4>1
    <3>3. ASSUME NEW k \in Attaches(s)', NEW j \in Attaches(s)', j < k,
                 \A i \in Attaches(s)' : i <= j \/ k <= i
          PROVE  wire'[k].buffer = Following(wire'[j].buffer)
      <4>1. j \in Attaches(s)
        BY <2>1, <3>3
      <4>2. CASE k = p
        <5>1. \A i \in Attaches(s) : i <= j
          BY <2>1, <3>3, <4>2
        <5> QED BY <1>4, <2>2, <4>1, <4>2, <5>1 DEF InOrder
      <4>3. CASE k \in Attaches(s)
        BY <1>4, <2>1, <3>3, <4>1, <4>3 DEF InOrder
      <4> QED BY <2>1, <4>2, <4>3
    <3> QED BY <1>3, <2>1, <3>1, <3>2, <3>3 DEF InOrder
  <2>7. Paced(s)'
    <3>1. ASSUME NEW k \in Attaches(s)', NEW j \in Attaches(s)', j < k
          PROVE  \E i \in Positions(wire', "frame", {s}) : j < i /\ i < k
      <4>1. j \in Attaches(s)
        BY <2>1, <3>1
      <4>2. CASE k = p
        BY <1>2, <2>1, <4>1, <4>2
      <4>3. CASE k \in Attaches(s)
        BY <1>2, <3>1, <4>1, <4>3 DEF Paced
      <4> QED BY <2>1, <4>2, <4>3
    <3>2. ASSUME NEW k \in Attaches(s)', comp'[s].buffer # NoBuffer
          PROVE  \E i \in Positions(wire', "frame", {s}) : i < k
      <4>1. CASE k = p
        BY <1>2, <2>1, <4>1
      <4>2. CASE k \in Attaches(s)
        BY <1>2, <1>3, <3>2, <4>2 DEF Paced
      <4> QED BY <2>1, <4>1, <4>2
    <3> QED BY <3>1, <3>2 DEF Paced
  <2> QED BY <2>5, <2>6, <2>7
<1> QED BY <1>6, <1>7


(* Requests that are no content leave the buffers where they are.          *)
LEMMA QuietWire ==
  ASSUME TypeOK,
         \/ UNCHANGED wire
         \/ \E r \in Requests : r.op # "attach" /\ wire' = Append(wire, r)
  PROVE  Grows /\ \A t \in Surfaces : Attaches(t)' = Attaches(t)
<1>1. wire \in Seq(Requests) /\ Len(wire) \in Nat
  BY LenProperties DEF TypeOK
<1>2. CASE UNCHANGED wire
  BY <1>1, <1>2 DEF Grows, Attaches, Positions
<1>3. ASSUME NEW r \in Requests, r.op # "attach", wire' = Append(wire, r)
      PROVE  Grows /\ \A t \in Surfaces : Attaches(t)' = Attaches(t)
  <2>1. Grows
    BY <1>1, <1>3, AppendProperties DEF Grows
  <2>2. ASSUME NEW t \in Surfaces PROVE Attaches(t)' = Attaches(t)
    <3>1. Positions(Append(wire, r), "attach", {t}) =
            Positions(wire, "attach", {t})
              \cup (IF r.op = "attach" /\ r.surface \in {t}
                     THEN {Len(wire) + 1} ELSE {})
      BY <1>1, PositionsAppend
    <3> QED BY <1>3, <3>1 DEF Attaches
  <2> QED BY <2>1, <2>2
<1> QED BY <1>2, <1>3

(* A drawing of s leaves the other surfaces alone.                         *)
LEMMA DrawStep ==
  ASSUME TypeOK, TypeOK', BuffersInv, NEW s \in Surfaces,
         NEW before \in FirstCommits(s), DrawFrame(s, before),
         UNCHANGED <<comp, killed>>
  PROVE  BuffersInv'
<1> SUFFICES ASSUME NEW t \in Surfaces
             PROVE  (Commits(t) /\ InOrder(t) /\ Paced(t))'
  BY DEF BuffersInv
<1>1. CASE t = s
  BY <1>1, DrawsBuffers DEF BuffersInv
<1>2. CASE t # s
  <2>1. PICK n \in {Len(wire), Len(wire) + 1} : Drawn(s, n)
    BY DrawWire
  <2>2. Grows /\ Attaches(t)' = Attaches(t)
    <3>1. Attaches(t)' =
            Attaches(t) \cup (IF Attach /\ t = s THEN {n + 3} ELSE {})
      BY <2>1, DrawPositions
    <3> QED BY <1>2, <2>1, <3>1, DrawPositions
  <2>3. cbuf'[t] = cbuf[t]
    BY <1>2 DEF DrawFrame, TypeOK
  <2>4. Leaves(t)
    BY <2>2, <2>3 DEF Leaves
  <2> QED BY <2>4, LeavesBuffers DEF BuffersInv
<1> QED BY <1>1, <1>2

(* Of all that is read only content attaches a buffer, and only a commit   *)
(* finds one pending.                                                      *)
LEMMA ReceiveStep ==
  ASSUME TypeOK, TypeOK', BuffersInv, Process
  PROVE  BuffersInv'
<1> SUFFICES ASSUME NEW t \in Surfaces
             PROVE  (Commits(t) /\ InOrder(t) /\ Paced(t))'
  BY DEF BuffersInv
<1>1. Commits(t) /\ InOrder(t) /\ Paced(t)
  BY DEF BuffersInv
<1>2. comp[t] \in SurfaceStates /\ comp \in [Surfaces -> SurfaceStates]
  BY DEF TypeOK
<1>3. cbuf' = cbuf
  BY DEF Process, ReceiveFrame, ReceiveAttach, ReceiveCommit, ReceiveAck,
         ReceivePong, client
<1>4. ASSUME NEW op \in {"frame", "ack", "pong"}, Receive(op),
             comp'[t].buffer = comp[t].buffer, comp'[t].front = comp[t].front
      PROVE  (Commits(t) /\ InOrder(t) /\ Paced(t))'
  <2>1. ~killed /\ wire[1].op = op
    BY <1>4, ReceiveFacts
  <2>2. 1 \notin Attaches(t)
    BY <2>1 DEF Attaches, Positions
  <2>3. comp[t].buffer = NoBuffer
    BY <1>1, <2>1 DEF Commits, CommitOf
  <2>4. Drops(t)
    BY <1>3, <1>4, <2>2, <2>3 DEF Drops, Latest
  <2> QED BY <1>1, <1>4, <2>4, DropsBuffers
<1>5. CASE ReceiveFrame
  <2>1. Receive("frame")
    BY <1>5 DEF ReceiveFrame
  <2>2. comp'[t].buffer = comp[t].buffer /\ comp'[t].front = comp[t].front
    BY <1>2, <1>5 DEF ReceiveFrame, SurfaceStates
  <2> QED BY <1>4, <2>1, <2>2
<1>6. CASE ReceiveAck
  <2>1. Receive("ack")
    BY <1>6 DEF ReceiveAck
  <2>2. comp'[t].buffer = comp[t].buffer /\ comp'[t].front = comp[t].front
    BY <1>2, <1>6 DEF ReceiveAck, SurfaceStates
  <2> QED BY <1>4, <2>1, <2>2
<1>7. CASE ReceivePong
  BY <1>4, <1>7 DEF ReceivePong
<1>8. CASE ReceiveAttach
  <2>1. Receive("attach")
    BY <1>8 DEF ReceiveAttach
  <2>2. ~killed /\ wire[1].op = "attach" /\ Head(wire) = wire[1]
    BY <2>1, ReceiveFacts
  <2>3. CASE t = wire[1].surface
    BY <1>1, <1>8, <2>3, AttachBuffers
  <2>4. CASE t # wire[1].surface
    <3>1. comp[t].buffer = NoBuffer
      BY <1>1, <2>2 DEF Commits, CommitOf
    <3>2. comp'[t] = comp[t]
      BY <1>2, <1>8, <2>2, <2>4 DEF ReceiveAttach
    <3>3. 1 \notin Attaches(t)
      BY <2>4 DEF Attaches, Positions
    <3>4. Drops(t)
      BY <1>3, <3>1, <3>2, <3>3 DEF Drops, Latest
    <3> QED BY <1>1, <2>1, <3>4, DropsBuffers
  <2> QED BY <2>3, <2>4
<1>9. CASE ReceiveCommit
  <2>1. Receive("commit")
    BY <1>9 DEF ReceiveCommit
  <2>2. ~killed /\ wire[1].op = "commit" /\ Head(wire) = wire[1]
    BY <2>1, ReceiveFacts
  <2>3. 1 \notin Attaches(t) /\ 1 \notin Positions(wire, "frame", {t})
    BY <2>2 DEF Attaches, Positions
  <2> DEFINE c == wire[1].surface
  <2>4. PICK refused \in BOOLEAN :
          /\ killed' = refused
          /\ comp' = IF refused THEN comp
                     ELSE [comp EXCEPT ![c] = Committed(comp[c])]
    BY <1>9, <2>2 DEF ReceiveCommit
  <2>5. CASE refused
    BY <1>1, <1>3, <2>1, <2>3, <2>4, <2>5, DropsBuffers DEF Drops, Latest
  <2>6. CASE ~refused /\ t = c
    <3>1. comp'[t] = Committed(comp[t])
      BY <1>2, <2>4, <2>6
    <3>2. /\ comp'[t].buffer = NoBuffer
          /\ comp'[t].front = IF comp[t].buffer = NoBuffer THEN comp[t].front
                              ELSE comp[t].buffer
      BY <1>2, <3>1 DEF Committed, SurfaceStates
    <3>3. Drops(t)
      BY <1>3, <2>3, <3>2 DEF Drops, Latest
    <3> QED BY <1>1, <2>1, <3>3, DropsBuffers
  <2>7. CASE ~refused /\ t # c
    <3>1. comp'[t] = comp[t]
      BY <1>2, <2>4, <2>7
    <3>2. comp[t].buffer = NoBuffer
      BY <1>1, <2>2, <2>7 DEF Commits, CommitOf
    <3>3. Drops(t)
      BY <1>3, <2>3, <3>1, <3>2 DEF Drops, Latest
    <3> QED BY <1>1, <2>1, <3>3, DropsBuffers
  <2> QED BY <2>5, <2>6, <2>7
<1> QED BY <1>5, <1>6, <1>7, <1>8, <1>9 DEF Process

LEMMA BuffersInit == Init => BuffersInv
<1> SUFFICES ASSUME Init, NEW s \in Surfaces
             PROVE  Commits(s) /\ InOrder(s) /\ Paced(s)
  BY DEF BuffersInv
<1>1. wire = <<>> /\ comp[s].buffer = NoBuffer /\ comp[s].front = NoBuffer
  BY DEF Init, NewSurface
<1>2. Attaches(s) = {}
  BY <1>1 DEF Attaches, Positions
<1> QED BY <1>1, <1>2 DEF Commits, InOrder, Paced, Latest

LEMMA BuffersStep ==
  ASSUME TypeOK, TypeOK', BuffersInv, [Next]_vars
  PROVE  BuffersInv'
<1>1. comp \in [Surfaces -> SurfaceStates]
  BY DEF TypeOK
<1>2. ASSUME Grows, \A t \in Surfaces : Attaches(t)' = Attaches(t),
             cbuf' = cbuf, killed => killed',
             \A t \in Surfaces : /\ comp'[t].buffer = comp[t].buffer
                                 /\ comp'[t].front = comp[t].front
      PROVE  BuffersInv'
  <2> SUFFICES ASSUME NEW t \in Surfaces
               PROVE  (Commits(t) /\ InOrder(t) /\ Paced(t))'
    BY DEF BuffersInv
  <2>1. Leaves(t)
    BY <1>2 DEF Leaves
  <2> QED BY <2>1, LeavesBuffers DEF BuffersInv
<1>3. ASSUME NEW r \in Requests, r.op # "attach", wire' = Append(wire, r),
             UNCHANGED <<cbuf, comp, killed>>
      PROVE  BuffersInv'
  BY <1>2, <1>3, QuietWire
<1>4. ASSUME UNCHANGED <<wire, cbuf>>, killed => killed',
             \A t \in Surfaces : /\ comp'[t].buffer = comp[t].buffer
                                 /\ comp'[t].front = comp[t].front
      PROVE  BuffersInv'
  BY <1>2, <1>4, QuietWire
<1>5. CASE UNCHANGED <<wire, cbuf, comp>> /\ (killed => killed')
  BY <1>4, <1>5
<1>6. ASSUME NEW s \in Surfaces, CreateSurface(s) PROVE BuffersInv'
  <2>1. CASE s \in bare
    <3>1. Req("commit", s) \in Requests /\ Req("commit", s).op # "attach"
      BY WireTypes DEF Req
    <3> QED BY <1>3, <1>6, <2>1, <3>1 DEF CreateSurface, compositor
  <2>2. CASE s \notin bare
    BY <1>6, <2>2, DrawStep DEF CreateSurface, compositor, FirstCommits
  <2> QED BY <2>1, <2>2
<1>7. CASE HandleDone
  <2>1. slot \in Surfaces
    BY <1>7 DEF HandleDone, TypeOK
  <2> QED BY <1>7, <2>1, DrawStep DEF HandleDone, compositor, FirstCommits
<1>8. CASE HandleConfigure
  <2> DEFINE r == Req("ack", Head(events).surface)
  <2>1. Head(events) \in Messages /\ Head(events).op = "configure"
    BY <1>8, TakeFacts DEF HandleConfigure
  <2>2. r \in Requests /\ r.op # "attach"
    BY <2>1, WireTypes DEF Req
  <2>3. wire' = Append(wire, r) /\ UNCHANGED <<cbuf, comp, killed>>
    BY <1>8 DEF HandleConfigure, compositor
  <2> QED BY <1>3, <2>2, <2>3
<1>9. CASE HandlePing
  <2>1. Req("pong", NoSurface) \in Requests /\ Req("pong", NoSurface).op # "attach"
    BY WireTypes DEF Req
  <2> QED BY <1>3, <1>9, <2>1 DEF HandlePing, compositor
<1>10. CASE Process
  BY <1>10, ReceiveStep
<1>11. ASSUME NEW s \in Surfaces, Repaint(s) \/ SendClose(s) PROVE BuffersInv'
  <2>1. UNCHANGED <<wire, cbuf, killed>>
    BY <1>11 DEF Repaint, SendClose, client
  <2>2. comp' = [comp EXCEPT ![s].ready = 0] \/ comp' = [comp EXCEPT ![s].closed = TRUE]
    BY <1>11 DEF Repaint, SendClose
  <2>3. \A t \in Surfaces : /\ comp'[t].buffer = comp[t].buffer
                            /\ comp'[t].front = comp[t].front
    BY <1>1, <2>2 DEF SurfaceStates
  <2> QED BY <1>4, <2>1, <2>3
<1>12. \/ \E s \in Surfaces : \/ CreateSurface(s) \/ Repaint(s) \/ SendClose(s)
       \/ HandleDone \/ HandleConfigure \/ HandlePing \/ Process
       \/ UNCHANGED <<wire, cbuf, comp>> /\ (killed => killed')
  BY DEF Next, Client, Compositor, Ended, vars, client, compositor, EnterLoop,
         Poll, DispatchFails, HandleClose, HandlerCrashes, LoopTest, SendPing,
         Disconnect
<1> QED BY <1>5, <1>6, <1>7, <1>8, <1>9, <1>10, <1>11, <1>12

(* Content is committed behind its buffer, buffers follow one another, and *)
(* there is a frame callback between any two of them.                      *)
THEOREM BuffersInvariant == Spec => [](TypeOK /\ BuffersInv)
<1>1. Init => TypeOK /\ BuffersInv
  BY TypeInit, BuffersInit
<1>2. TypeOK /\ BuffersInv /\ [Next]_vars => (TypeOK /\ BuffersInv)'
  BY TypeStep, BuffersStep
<1> QED BY <1>1, <1>2, PTL DEF Spec

(* Only a commit changes what is shown.                                    *)
LEMMA FrontStep ==
  ASSUME TypeOK, BuffersInv, [Next]_vars, NEW s \in Surfaces,
         comp'[s].front # comp[s].front, comp[s].front # NoBuffer
  PROVE  comp'[s].front = Following(comp[s].front)
<1>1. comp \in [Surfaces -> SurfaceStates] /\ comp[s] \in SurfaceStates
  BY DEF TypeOK
<1>2. ReceiveCommit
  <2>1. ~ReceiveFrame
    BY <1>1 DEF ReceiveFrame, SurfaceStates
  <2>2. ~ReceiveAttach
    BY <1>1 DEF ReceiveAttach, SurfaceStates
  <2>3. ~ReceiveAck
    BY <1>1 DEF ReceiveAck, SurfaceStates
  <2>4. ASSUME NEW t \in Surfaces PROVE ~Repaint(t) /\ ~SendClose(t)
    <3>1. Repaint(t) \/ SendClose(t) =>
            \/ comp' = [comp EXCEPT ![t].ready = 0]
            \/ comp' = [comp EXCEPT ![t].closed = TRUE]
      BY DEF Repaint, SendClose
    <3>2. comp' = [comp EXCEPT ![t].ready = 0] => comp'[s].front = comp[s].front
      BY <1>1 DEF SurfaceStates
    <3>3. comp' = [comp EXCEPT ![t].closed = TRUE] => comp'[s].front = comp[s].front
      BY <1>1 DEF SurfaceStates
    <3> QED BY <3>1, <3>2, <3>3
  <2>5. \/ ReceiveFrame \/ ReceiveAttach \/ ReceiveCommit \/ ReceiveAck
        \/ \E t \in Surfaces : Repaint(t) \/ SendClose(t)
        \/ UNCHANGED comp
    BY DEF Next, Client, Compositor, Process, Ended, vars, compositor,
           CreateSurface, EnterLoop, Poll, DispatchFails, HandleDone,
           HandleClose, HandlerCrashes, HandleConfigure, HandlePing, LoopTest,
           ReceivePong, SendPing, Disconnect
  <2> QED BY <2>1, <2>2, <2>3, <2>4, <2>5
<1>3. PICK refused \in BOOLEAN :
        comp' = IF refused THEN comp
                ELSE [comp EXCEPT ![Head(wire).surface] =
                        Committed(comp[Head(wire).surface])]
  BY <1>2 DEF ReceiveCommit
<1>4. ~refused /\ s = Head(wire).surface
  BY <1>1, <1>3
<1>5. comp'[s] = Committed(comp[s])
  BY <1>1, <1>3, <1>4
<1>6. comp'[s].front = comp[s].buffer /\ comp[s].buffer # NoBuffer
  BY <1>1, <1>5 DEF Committed, SurfaceStates
<1> QED BY <1>6 DEF BuffersInv, InOrder

(* However many windows share the static rinfo, each shows its buffers in  *)
(* the order in which drawframe rendered them.                             *)
THEOREM FramesAreInOrder == Spec => FramesInOrder
<1>1. TypeOK /\ BuffersInv /\ [Next]_vars =>
        [\A s \in Surfaces :
           comp'[s].front # comp[s].front /\ comp[s].front # NoBuffer
             => comp'[s].front = Following(comp[s].front)]_vars
  BY FrontStep
<1> QED BY <1>1, BuffersInvariant, PTL DEF Spec, FramesInOrder


-----------------------------------------------------------------------------
(***************************************************************************)
(* The frame callbacks.                                                    *)
(***************************************************************************)
States == [Surfaces -> SurfaceStates]

(* The callbacks the compositor has.                                       *)
LEMMA WaitingElements ==
  ASSUME NEW c \in States
  PROVE  \A p : p \in Waiting(c, Surfaces) <=>
           \E s \in Surfaces : \E k \in 1..(c[s].frames + c[s].ready) : p = <<s, k>>
<1> TAKE p
<1>1. ASSUME p \in Waiting(c, Surfaces)
      PROVE  \E s \in Surfaces : \E k \in 1..(c[s].frames + c[s].ready) : p = <<s, k>>
  <2>1. PICK s \in Surfaces : p \in {s} \X (1..(c[s].frames + c[s].ready))
    BY <1>1 DEF Waiting
  <2>2. PICK x \in {s}, k \in 1..(c[s].frames + c[s].ready) : p = <<x, k>>
    BY <2>1
  <2> QED BY <2>2
<1>2. ASSUME NEW s \in Surfaces, NEW k \in 1..(c[s].frames + c[s].ready), p = <<s, k>>
      PROVE  p \in Waiting(c, Surfaces)
  <2>1. p \in {s} \X (1..(c[s].frames + c[s].ready))
    BY <1>2
  <2> QED BY <2>1 DEF Waiting
<1> QED BY <1>1, <1>2

LEMMA WaitingFinite ==
  ASSUME NEW c \in States
  PROVE  /\ IsFiniteSet(Waiting(c, Surfaces))
         /\ Cardinality(Waiting(c, Surfaces)) \in Nat
<1> DEFINE N(s) == c[s].frames + c[s].ready
           f == [s \in Surfaces |-> {s} \X (1..N(s))]
           T == {{s} \X (1..N(s)) : s \in Surfaces}
<1>1. f \in Surjection(Surfaces, T)
  BY DEF Surjection
<1>2. IsFiniteSet(T)
  BY <1>1, FS_Surjection DEF SurfacesAssumption
<1>3. ASSUME NEW s \in Surfaces PROVE IsFiniteSet({s} \X (1..N(s)))
  <2>1. N(s) \in Nat
    BY DEF States, SurfaceStates
  <2>2. ASSUME NEW n \in Nat PROVE IsFiniteSet({s} \X (1..n))
    <3>1. IsFiniteSet(1..n)
      BY FS_Interval
    <3>2. IsFiniteSet({s})
      BY FS_Singleton
    <3> QED BY <3>1, <3>2, FS_Product
  <2> QED BY <2>1, <2>2
<1>4. \A t \in T : IsFiniteSet(t)
  BY <1>3
<1>5. IsFiniteSet(UNION T)
  BY <1>2, <1>4, FS_UNION
<1>6. Waiting(c, Surfaces) = UNION T
  BY DEF Waiting
<1> QED BY <1>5, <1>6, FS_CardinalityType

(* Only the sum of pending and committed callbacks counts.                 *)
LEMMA WaitingSame ==
  ASSUME NEW c \in States, NEW d \in States,
         \A s \in Surfaces : c[s].frames + c[s].ready = d[s].frames + d[s].ready
  PROVE  Waiting(c, Surfaces) = Waiting(d, Surfaces)
  BY DEF Waiting

(* One more callback for s.                                                *)
LEMMA WaitingMore ==
  ASSUME NEW c \in States, NEW d \in States, NEW s \in Surfaces,
         d = [c EXCEPT ![s].frames = @ + 1]
  PROVE  Cardinality(Waiting(d, Surfaces)) = Cardinality(Waiting(c, Surfaces)) + 1
<1> DEFINE n == c[s].frames + c[s].ready
           P == Waiting(c, Surfaces)
           Q == Waiting(d, Surfaces)
<1>1. n \in Nat /\ d[s].frames + d[s].ready = n + 1
  BY DEF States, SurfaceStates
<1>2. \A t \in Surfaces \ {s} : d[t] = c[t]
  BY DEF States
<1>3. 1..(n + 1) = (1..n) \cup {n + 1}
  BY <1>1
<1>4. \A p : p \in Q <=> p \in P \/ p = <<s, n + 1>>
  <2> TAKE p
  <2>1. p \in P <=> \E t \in Surfaces : \E k \in 1..(c[t].frames + c[t].ready) : p = <<t, k>>
    BY WaitingElements
  <2>2. p \in Q <=> \E t \in Surfaces : \E k \in 1..(d[t].frames + d[t].ready) : p = <<t, k>>
    BY ONLY d \in States, WaitingElements
  <2> HIDE DEF P, Q
  <2>3. ASSUME p \in Q PROVE p \in P \/ p = <<s, n + 1>>
    <3>1. PICK t \in Surfaces : \E k \in 1..(d[t].frames + d[t].ready) : p = <<t, k>>
      BY <2>2, <2>3
    <3>2. CASE t = s
      BY <1>1, <1>3, <2>1, <3>1, <3>2
    <3>3. CASE t # s
      BY <1>2, <2>1, <3>1, <3>3
    <3> QED BY <3>2, <3>3
  <2>4. ASSUME p \in P PROVE p \in Q
    <3>1. PICK t \in Surfaces : \E k \in 1..(c[t].frames + c[t].ready) : p = <<t, k>>
      BY <2>1, <2>4
    <3>2. CASE t = s
      BY <1>1, <1>3, <2>2, <3>1, <3>2
    <3>3. CASE t # s
      BY <1>2, <2>2, <3>1, <3>3
    <3> QED BY <3>2, <3>3
  <2>5. ASSUME p = <<s, n + 1>> PROVE p \in Q
    BY <1>1, <1>3, <2>2, <2>5
  <2> QED BY <2>3, <2>4, <2>5
<1>5. <<s, n + 1>> \notin P
  <2> SUFFICES ASSUME <<s, n + 1>> \in P PROVE FALSE
    OBVIOUS
  <2>1. \E t \in Surfaces : \E k \in 1..(c[t].frames + c[t].ready) : <<s, n + 1>> = <<t, k>>
    BY WaitingElements
  <2>2. n + 1 \in 1..n
    BY <2>1
  <2> QED BY <1>1, <2>2
<1>6. IsFiniteSet(P)
  BY WaitingFinite
<1> HIDE DEF P, Q, n
<1>7. Q = P \cup {<<s, n + 1>>}
  BY <1>4
<1> QED BY <1>5, <1>6, <1>7, CountAdd DEF P, Q


(* All committed callbacks of s are done at once.                          *)
LEMMA WaitingFewer ==
  ASSUME NEW c \in States, NEW d \in States, NEW s \in Surfaces,
         d = [c EXCEPT ![s].ready = 0]
  PROVE  Cardinality(Waiting(d, Surfaces)) + c[s].ready
           = Cardinality(Waiting(c, Surfaces))
<1>0. \A p : p \in Waiting(d, Surfaces) <=>
        \E t \in Surfaces : \E k \in 1..(d[t].frames + d[t].ready) : p = <<t, k>>
  BY ONLY d \in States, WaitingElements
<1> DEFINE m == c[s].frames
           r == c[s].ready
           P == Waiting(c, Surfaces)
           Q == Waiting(d, Surfaces)
           R == {s} \X ((m + 1)..(m + r))
<1>1. m \in Nat /\ r \in Nat /\ d[s].frames + d[s].ready = m
  BY DEF States, SurfaceStates
<1>2. \A t \in Surfaces \ {s} : d[t] = c[t]
  BY DEF States
<1> HIDE DEF m
<1>3. 1..(m + r) = (1..m) \cup ((m + 1)..(m + r))
  BY <1>1
<1>4. \A p : p \in P <=> p \in Q \/ p \in R
  <2> TAKE p
  <2>1. p \in P <=> \E t \in Surfaces : \E k \in 1..(c[t].frames + c[t].ready) : p = <<t, k>>
    BY WaitingElements
  <2>2. p \in Q <=> \E t \in Surfaces : \E k \in 1..(d[t].frames + d[t].ready) : p = <<t, k>>
    BY ONLY d \in States, WaitingElements
  <2>3. p \in R <=> \E k \in (m + 1)..(m + r) : p = <<s, k>>
    OBVIOUS
  <2> HIDE DEF P, Q, R
  <2>4. c[s].frames + c[s].ready = m + r
    BY DEF m
  <2>5. ASSUME p \in P PROVE p \in Q \/ p \in R
    <3>1. PICK t \in Surfaces : \E k \in 1..(c[t].frames + c[t].ready) : p = <<t, k>>
      BY <2>1, <2>5
    <3>2. CASE t = s
      BY <1>1, <1>3, <2>2, <2>3, <2>4, <3>1, <3>2
    <3>3. CASE t # s
      BY <1>2, <2>2, <3>1, <3>3
    <3> QED BY <3>2, <3>3
  <2>6. ASSUME p \in Q PROVE p \in P
    <3>1. PICK t \in Surfaces : \E k \in 1..(d[t].frames + d[t].ready) : p = <<t, k>>
      BY <2>2, <2>6
    <3>2. CASE t = s
      BY <1>1, <1>3, <2>1, <2>4, <3>1, <3>2
    <3>3. CASE t # s
      BY <1>2, <2>1, <3>1, <3>3
    <3> QED BY <3>2, <3>3
  <2>7. ASSUME p \in R PROVE p \in P
    BY <1>1, <1>3, <2>1, <2>3, <2>4, <2>7
  <2> QED BY <2>5, <2>6, <2>7
<1>5. Q \cap R = {}
  <2> SUFFICES ASSUME NEW p \in R, p \in Q PROVE FALSE
    OBVIOUS
  <2>1. PICK k \in (m + 1)..(m + r) : p = <<s, k>>
    OBVIOUS
  <2>2. \E t \in Surfaces : \E i \in 1..(d[t].frames + d[t].ready) : p = <<t, i>>
    BY <1>0
  <2>3. k \in 1..m
    BY <1>1, <2>1, <2>2
  <2> QED BY <1>1, <2>1, <2>3
<1>6. IsFiniteSet(Q) /\ Cardinality(Q) \in Nat
  BY WaitingFinite
<1>7. IsFiniteSet(R) /\ Cardinality(R) = r
  <2>1. IsFiniteSet({s}) /\ Cardinality({s}) = 1
    BY FS_Singleton
  <2>2. /\ IsFiniteSet((m + 1)..(m + r))
        /\ Cardinality((m + 1)..(m + r)) = IF m + 1 > m + r THEN 0 ELSE (m + r) - (m + 1) + 1
    <3>1. m + 1 \in Int /\ m + r \in Int
      BY <1>1
    <3> QED BY <3>1, FS_Interval
  <2>3. Cardinality((m + 1)..(m + r)) = r
    BY <1>1, <2>2
  <2>4. /\ IsFiniteSet(R)
        /\ Cardinality(R) = Cardinality({s}) * Cardinality((m + 1)..(m + r))
    BY ONLY <2>1, <2>2, FS_Product
  <2> HIDE DEF R
  <2>5. Cardinality(R) = 1 * r
    BY <2>1, <2>3, <2>4
  <2> QED BY <1>1, <2>4, <2>5
<1> HIDE DEF P, Q, R, r
<1>8. P = Q \cup R
  BY <1>4
<1>9. Cardinality(P) = Cardinality(Q) + Cardinality(R) - Cardinality({})
  BY <1>5, <1>6, <1>7, <1>8, FS_Union
<1>10. Cardinality(P) = Cardinality(Q) + r
  BY <1>1, <1>6, <1>7, <1>9, FS_EmptySet
<1> QED BY <1>10 DEF P, Q, r

(* Done events at the end of the queue.                                    *)
LEMMA DoneEvents ==
  ASSUME NEW q \in Seq(Messages), NEW r \in Nat, NEW s \in Surfaces
  PROVE  Cardinality(Positions(q \o [k \in 1..r |-> Event("done", s)], "done", Surfaces))
           = Cardinality(Positions(q, "done", Surfaces)) + r
<1> DEFINE e == Event("done", s)
           dones == [k \in 1..r |-> e]
           l == Len(q)
           P == Positions(q, "done", Surfaces)
           Q == Positions(q \o dones, "done", Surfaces)
<1>1. l \in Nat
  BY LenProperties
<1>2. e \in Messages /\ e.op = "done" /\ e.surface = s
  BY WireTypes DEF Event
<1>3. dones \in Seq(Messages) /\ Len(dones) = r /\ \A k \in 1..r : dones[k] = e
  <2>1. dones \in [1..r -> Messages]
    BY <1>2
  <2>2. \A k \in 1..r : dones[k] = e
    OBVIOUS
  <2> HIDE DEF dones
  <2> QED BY <2>1, <2>2
<1> HIDE DEF e, dones
<1>4. /\ Len(q \o dones) = l + r
      /\ \A k \in 1..l + r : (q \o dones)[k] = IF k <= l THEN q[k] ELSE dones[k - l]
  BY <1>3, ConcatProperties
<1>5. Q = P \cup ((l + 1)..(l + r))
  <2>1. Q \subseteq 1..(l + r) /\ P \subseteq 1..l
    BY <1>4 DEF Positions
  <2>2. \A k \in 1..l : k \in Q <=> k \in P
    BY <1>1, <1>4 DEF Positions
  <2>3. ASSUME NEW k \in (l + 1)..(l + r) PROVE k \in Q
    <3>1. k - l \in 1..r /\ k \in 1..l + r /\ ~(k <= l)
      BY <1>1, <2>3
    <3>2. (q \o dones)[k] = e
      BY <1>3, <1>4, <3>1
    <3> QED BY <1>2, <1>4, <3>1, <3>2 DEF Positions
  <2>4. 1..(l + r) = (1..l) \cup ((l + 1)..(l + r))
    BY <1>1
  <2> HIDE DEF P, Q
  <2> QED BY <2>1, <2>2, <2>3, <2>4
<1>6. P \cap ((l + 1)..(l + r)) = {}
  BY <1>1 DEF Positions
<1>7. IsFiniteSet(P) /\ Cardinality(P) \in Nat
  BY PositionsFinite
<1> HIDE DEF P, Q, l
<1>8. /\ IsFiniteSet((l + 1)..(l + r))
      /\ Cardinality((l + 1)..(l + r)) = r
  <2>1. l + 1 \in Int /\ l + r \in Int
    BY <1>1
  <2>2. /\ IsFiniteSet((l + 1)..(l + r))
        /\ Cardinality((l + 1)..(l + r)) = IF l + 1 > l + r THEN 0 ELSE (l + r) - (l + 1) + 1
    BY <2>1, FS_Interval
  <2> QED BY <1>1, <2>2
<1>9. Cardinality(Q) = Cardinality(P) + Cardinality((l + 1)..(l + r)) - Cardinality({})
  BY <1>5, <1>6, <1>7, <1>8, FS_Union
<1>10. Cardinality(Q) = Cardinality(P) + r
  BY <1>7, <1>8, <1>9, FS_EmptySet
<1> QED BY <1>10 DEF P, Q, dones, e


(* The three places of a callback.                                         *)
Requested == Cardinality(Positions(wire, "frame", Surfaces))
AtCompositor == Cardinality(Waiting(comp, Surfaces))
Done == Cardinality(Positions(events, "done", Surfaces))

LEMMA PlaceTypes ==
  ASSUME TypeOK
  PROVE  Requested \in Nat /\ AtCompositor \in Nat /\ Done \in Nat
<1>1. Requested \in Nat
  BY PositionsFinite DEF TypeOK, Requested
<1>2. Done \in Nat
  BY PositionsFinite DEF TypeOK, Done
<1>3. AtCompositor \in Nat
  BY WaitingFinite DEF TypeOK, States, AtCompositor
<1> QED BY <1>1, <1>2, <1>3

(* How the steps move callbacks from one place to another.                 *)
LEMMA RequestedKept ==
  ASSUME TypeOK, NEW r \in Requests, r.op # "frame", wire' = Append(wire, r)
  PROVE  Requested' = Requested
<1>1. Positions(Append(wire, r), "frame", Surfaces) =
        Positions(wire, "frame", Surfaces)
          \cup (IF r.op = "frame" /\ r.surface \in Surfaces
                 THEN {Len(wire) + 1} ELSE {})
  BY PositionsAppend DEF TypeOK
<1> QED BY <1>1 DEF Requested

LEMMA RequestedMore ==
  ASSUME TypeOK, NEW s \in Surfaces, NEW before \in FirstCommits(s),
         DrawFrame(s, before)
  PROVE  Requested' = Requested + 1
<1>1. PICK n \in {Len(wire), Len(wire) + 1} : Drawn(s, n)
  BY DrawWire
<1>2. n \in Nat /\ Len(wire) \in Nat
  BY <1>1, DrawPositions
<1> DEFINE P == Positions(wire, "frame", Surfaces)
<1>3. Positions(wire', "frame", Surfaces) = P \cup (IF s \in Surfaces THEN {n + 1} ELSE {})
  BY <1>1, DrawFrames
<1>4. IsFiniteSet(P)
  BY PositionsFinite DEF TypeOK
<1>5. n + 1 \notin P
  BY <1>2 DEF Positions
<1> HIDE DEF P
<1>6. Cardinality(P \cup {n + 1}) = Cardinality(P) + 1
  BY <1>4, <1>5, CountAdd
<1> QED BY <1>3, <1>6 DEF Requested, P

LEMMA RequestedRead ==
  ASSUME TypeOK, NEW op, Receive(op)
  PROVE  Requested' = Requested - (IF op = "frame" THEN 1 ELSE 0)
<1>1. /\ wire \in Seq(Requests) /\ wire # <<>> /\ wire' = Tail(wire)
      /\ wire[1] \in Requests /\ wire[1].op = op /\ Len(wire) \in Nat \ {0}
  BY ReceiveFacts
<1>2. 1 \in Positions(wire, "frame", Surfaces) <=> op = "frame"
  BY <1>1, WireTypes DEF Positions
<1>3. Cardinality(Positions(Tail(wire), "frame", Surfaces))
        = Cardinality(Positions(wire, "frame", Surfaces))
            - (IF 1 \in Positions(wire, "frame", Surfaces) THEN 1 ELSE 0)
  BY <1>1, CountTail
<1> QED BY <1>1, <1>2, <1>3 DEF Requested

LEMMA DoneKept ==
  ASSUME TypeOK, NEW e \in Messages, e.op # "done", events' = Append(events, e)
  PROVE  Done' = Done
<1>1. Positions(Append(events, e), "done", Surfaces) =
        Positions(events, "done", Surfaces)
          \cup (IF e.op = "done" /\ e.surface \in Surfaces
                 THEN {Len(events) + 1} ELSE {})
  BY PositionsAppend DEF TypeOK
<1> QED BY <1>1 DEF Done

LEMMA DoneTaken ==
  ASSUME TypeOK, NEW op, Take(op)
  PROVE  Done' = Done - (IF op = "done" THEN 1 ELSE 0)
<1>1. /\ events \in Seq(Messages) /\ events # <<>> /\ events' = Tail(events)
      /\ events[1] \in Messages /\ events[1].op = op /\ Len(events) \in Nat \ {0}
  BY TakeFacts, TailFacts
<1>2. 1 \in Positions(events, "done", Surfaces) <=> op = "done"
  BY <1>1, WireTypes DEF Positions
<1>3. Cardinality(Positions(Tail(events), "done", Surfaces))
        = Cardinality(Positions(events, "done", Surfaces))
            - (IF 1 \in Positions(events, "done", Surfaces) THEN 1 ELSE 0)
  BY <1>1, CountTail
<1> QED BY <1>1, <1>2, <1>3 DEF Done

LEMMA WaitingKept ==
  ASSUME TypeOK, TypeOK',
         \A s \in Surfaces : comp'[s].frames + comp'[s].ready
                               = comp[s].frames + comp[s].ready
  PROVE  AtCompositor' = AtCompositor
<1>1. comp \in States /\ comp' \in States
  BY DEF TypeOK, States
<1>2. \A s \in Surfaces : comp[s].frames + comp[s].ready
                            = comp'[s].frames + comp'[s].ready
  OBVIOUS
<1>3. Waiting(comp, Surfaces) = Waiting(comp', Surfaces)
  BY <1>1, <1>2, WaitingSame
<1> QED BY <1>3 DEF AtCompositor

(* The sum, step by step.                                                  *)
LEMMA CallbacksStep ==
  ASSUME TypeOK, TypeOK', SlotInv, CallbacksConserved, [Next]_vars
  PROVE  CallbacksConserved'
<1> DEFINE Sum == Requested + AtCompositor + Done
           Drawing == Cardinality(created \ bare)
<1>1. /\ comp \in States /\ comp' \in States
      /\ Requested \in Nat /\ AtCompositor \in Nat /\ Done \in Nat
  BY PlaceTypes DEF TypeOK, States
<1>2. CallbacksConserved <=> (pc # "crashed" => Sum = Drawing)
  BY DEF CallbacksConserved, Callbacks, Requested, AtCompositor, Done
<1>3. CallbacksConserved' <=> (pc' # "crashed" => (Sum = Drawing)')
  BY DEF CallbacksConserved, Callbacks, Requested, AtCompositor, Done
<1>4. ASSUME UNCHANGED <<created, bare>>, pc # "crashed" \/ pc' = pc,
             Requested' + AtCompositor' + Done' = Requested + AtCompositor + Done
      PROVE  CallbacksConserved'
  BY <1>2, <1>3, <1>4
<1>5. UNCHANGED wire => Requested' = Requested
  BY DEF Requested
<1>6. UNCHANGED events => Done' = Done
  BY DEF Done
<1>7. UNCHANGED comp => AtCompositor' = AtCompositor
  BY DEF AtCompositor
<1>8. CASE UNCHANGED <<created, bare, wire, events, comp>> /\ (pc # "crashed" \/ pc' = pc)
  BY <1>4, <1>5, <1>6, <1>7, <1>8
<1>9. ASSUME NEW s \in Surfaces, CreateSurface(s) PROVE CallbacksConserved'
  <2>1. UNCHANGED <<bare, events, comp, pc>> /\ pc = "create"
        /\ s \notin created /\ created' = created \cup {s}
    BY <1>9 DEF CreateSurface, compositor
  <2>2. CASE s \in bare
    <3>1. Req("commit", s) \in Requests /\ Req("commit", s).op # "frame"
      BY WireTypes DEF Req
    <3>2. wire' = Append(wire, Req("commit", s))
      BY <1>9, <2>2 DEF CreateSurface
    <3>3. Requested' = Requested
      BY <3>1, <3>2, RequestedKept
    <3>4. created' \ bare' = created \ bare
      BY <2>1, <2>2
    <3> QED BY <1>2, <1>3, <1>6, <1>7, <2>1, <3>3, <3>4
  <2>3. CASE s \notin bare
    <3>1. DrawFrame(s, <<Req("commit", s)>>)
      BY <1>9, <2>3 DEF CreateSurface
    <3>2. Requested' = Requested + 1
      BY <3>1, RequestedMore DEF FirstCommits
    <3>3. created' \ bare' = (created \ bare) \cup {s} /\ s \notin created \ bare
      BY <2>1, <2>3
    <3>4. IsFiniteSet(created \ bare)
      BY FS_Subset DEF TypeOK
    <3>5. Drawing' = Drawing + 1
      BY <3>3, <3>4, CountAdd
    <3> HIDE DEF Drawing
    <3> QED BY <1>1, <1>2, <1>3, <1>6, <1>7, <2>1, <3>2, <3>5
  <2> QED BY <2>2, <2>3
<1>10. CASE HandleDone
  <2>1. Take("done") /\ DrawFrame(slot, <<>>) /\ slot \in Surfaces
        /\ UNCHANGED <<bare, pc, created, comp>>
    BY <1>10 DEF HandleDone, TypeOK, compositor
  <2>2. Done' = Done - 1
    BY <2>1, DoneTaken
  <2>3. Requested' = Requested + 1
    BY <2>1, RequestedMore DEF FirstCommits
  <2> QED BY <1>1, <1>4, <1>7, <2>1, <2>2, <2>3
<1>11. CASE HandleClose
  <2>1. Take("close") /\ UNCHANGED <<bare, pc, created, comp, wire>>
    BY <1>11 DEF HandleClose, compositor
  <2>2. Done' = Done
    BY <1>1, <2>1, DoneTaken
  <2> QED BY <1>4, <1>5, <1>7, <2>1, <2>2
<1>12. CASE HandlerCrashes
  BY <1>3, <1>12 DEF HandlerCrashes
<1>13. CASE HandleConfigure
  <2> DEFINE r == Req("ack", Head(events).surface)
  <2>1. Take("configure") /\ UNCHANGED <<bare, pc, created, comp>>
        /\ wire' = Append(wire, r)
    BY <1>13 DEF HandleConfigure, compositor
  <2>2. Head(events) \in Messages /\ Head(events).op = "configure"
    BY <2>1, TakeFacts
  <2>3. r \in Requests /\ r.op # "frame"
    BY <2>2, WireTypes DEF Req
  <2> HIDE DEF r
  <2>4. Requested' = Requested
    BY <2>1, <2>3, RequestedKept
  <2>5. Done' = Done
    BY <1>1, <2>1, DoneTaken
  <2> QED BY <1>4, <1>7, <2>1, <2>4, <2>5
<1>14. CASE HandlePing
  <2>1. Take("ping") /\ UNCHANGED <<bare, pc, created, comp>>
        /\ wire' = Append(wire, Req("pong", NoSurface))
    BY <1>14 DEF HandlePing, compositor
  <2>2. Req("pong", NoSurface) \in Requests /\ Req("pong", NoSurface).op # "frame"
    BY WireTypes DEF Req
  <2>3. Requested' = Requested
    BY <2>1, <2>2, RequestedKept
  <2>4. Done' = Done
    BY <1>1, <2>1, DoneTaken
  <2> QED BY <1>4, <1>7, <2>1, <2>3, <2>4
<1>15. CASE ReceiveFrame
  <2>1. Receive("frame") /\ UNCHANGED <<bare, pc, created, events>>
        /\ comp' = [comp EXCEPT ![Head(wire).surface].frames = @ + 1]
    BY <1>15 DEF ReceiveFrame, client
  <2>2. Head(wire) \in Requests /\ Head(wire).op = "frame"
    BY <2>1, ReceiveFacts
  <2>3. Head(wire).surface \in Surfaces
    BY <2>2, WireTypes
  <2>4. Requested' = Requested - 1
    BY <2>1, RequestedRead
  <2>5. AtCompositor' = AtCompositor + 1
    BY <1>1, <2>1, <2>3, WaitingMore DEF AtCompositor
  <2> QED BY <1>1, <1>4, <1>6, <2>1, <2>4, <2>5
<1>16. ASSUME NEW op, op # "frame", Receive(op), UNCHANGED <<bare, pc, created>>,
              Done' = Done,
              \A s \in Surfaces : comp'[s].frames + comp'[s].ready
                                    = comp[s].frames + comp[s].ready
       PROVE  CallbacksConserved'
  <2>1. Requested' = Requested
    BY <1>1, <1>16, RequestedRead
  <2>2. AtCompositor' = AtCompositor
    BY <1>16, WaitingKept
  <2> QED BY <1>4, <1>16, <2>1, <2>2
<1>17. CASE ReceiveAttach
  <2>1. Receive("attach") /\ UNCHANGED <<bare, pc, created, events>>
    BY <1>17 DEF ReceiveAttach, client
  <2>2. \A s \in Surfaces : comp'[s].frames = comp[s].frames /\ comp'[s].ready = comp[s].ready
    BY <1>1, <1>17 DEF ReceiveAttach, States, SurfaceStates
  <2> QED BY <1>6, <1>16, <2>1, <2>2
<1>18. CASE ReceiveAck
  <2>1. Receive("ack") /\ UNCHANGED <<bare, pc, created, events>>
    BY <1>18 DEF ReceiveAck, client
  <2>2. \A s \in Surfaces : comp'[s].frames = comp[s].frames /\ comp'[s].ready = comp[s].ready
    BY <1>1, <1>18 DEF ReceiveAck, States, SurfaceStates
  <2> QED BY <1>6, <1>16, <2>1, <2>2
<1>19. CASE ReceivePong
  <2>1. Receive("pong") /\ UNCHANGED <<bare, pc, created, events, comp>>
    BY <1>19 DEF ReceivePong, client
  <2> QED BY <1>6, <1>16, <2>1
<1>20. CASE ReceiveCommit
  <2> DEFINE c == Head(wire).surface
  <2>1. Receive("commit") /\ UNCHANGED <<bare, pc, created>>
    BY <1>20 DEF ReceiveCommit, client
  <2>2. Head(wire) \in Requests /\ Head(wire).op = "commit"
    BY <2>1, ReceiveFacts
  <2>3. c \in Surfaces
    BY <2>2, WireTypes
  <2>4. events' = events \/ events' = Append(events, Event("configure", c))
    BY <1>20 DEF ReceiveCommit
  <2>5. comp' = comp \/ comp' = [comp EXCEPT ![c] = Committed(comp[c])]
    BY <1>20 DEF ReceiveCommit
  <2> HIDE DEF c
  <2>6. Event("configure", c) \in Messages /\ Event("configure", c).op # "done"
    BY <2>3, WireTypes DEF Event
  <2>7. Done' = Done
    BY <1>6, <2>4, <2>6, DoneKept
  <2>8. ASSUME NEW s \in Surfaces
        PROVE  comp'[s].frames + comp'[s].ready = comp[s].frames + comp[s].ready
    <3>1. comp[s] \in SurfaceStates
      BY <1>1 DEF States
    <3>2. CASE comp'[s] = comp[s]
      BY <3>2
    <3>3. CASE comp'[s] = Committed(comp[s])
      <4>1. comp'[s].frames = 0 /\ comp'[s].ready = comp[s].ready + comp[s].frames
        BY <3>1, <3>3 DEF Committed, SurfaceStates
      <4> QED BY <3>1, <4>1 DEF SurfaceStates
    <3>4. comp'[s] = comp[s] \/ comp'[s] = Committed(comp[s])
      BY <1>1, <2>5 DEF States
    <3> QED BY <3>2, <3>3, <3>4
  <2> QED BY <1>16, <2>1, <2>7, <2>8
<1>21. ASSUME NEW s \in Surfaces, Repaint(s) PROVE CallbacksConserved'
  <2>1. /\ UNCHANGED <<bare, pc, created, wire>>
        /\ events' = events \o [k \in 1..comp[s].ready |-> Event("done", s)]
        /\ comp' = [comp EXCEPT ![s].ready = 0]
    BY <1>21 DEF Repaint, client
  <2>2. comp[s].ready \in Nat /\ events \in Seq(Messages)
    BY <1>1 DEF States, SurfaceStates, TypeOK
  <2>3. Done' = Done + comp[s].ready
    BY <2>1, <2>2, DoneEvents DEF Done
  <2>4. AtCompositor' + comp[s].ready = AtCompositor
    BY <1>1, <2>1, WaitingFewer DEF AtCompositor
  <2>5. AtCompositor' \in Nat
    BY <1>1, WaitingFinite DEF AtCompositor
  <2>6. Requested' = Requested
    BY <1>5, <2>1
  <2>7. Requested' + AtCompositor' + Done' = Requested + AtCompositor + Done
    <3>1. Requested \in Nat /\ Done \in Nat /\ comp[s].ready \in Nat
      BY ONLY <1>1, <2>2
    <3> QED BY ONLY <3>1, <2>3, <2>4, <2>5, <2>6
  <2> QED BY <1>4, <2>1, <2>7
<1>22. ASSUME NEW s \in Surfaces, SendClose(s) PROVE CallbacksConserved'
  <2>1. /\ UNCHANGED <<bare, pc, created, wire>>
        /\ events' = Append(events, Event("close", s))
        /\ comp' = [comp EXCEPT ![s].closed = TRUE]
    BY <1>22 DEF SendClose, client
  <2>2. Event("close", s) \in Messages /\ Event("close", s).op # "done"
    BY WireTypes DEF Event
  <2>3. Done' = Done
    BY <2>1, <2>2, DoneKept
  <2>4. \A t \in Surfaces : comp'[t].frames = comp[t].frames /\ comp'[t].ready = comp[t].ready
    BY <1>1, <2>1 DEF States, SurfaceStates
  <2>5. AtCompositor' = AtCompositor
    BY <2>4, WaitingKept
  <2> QED BY <1>4, <1>5, <2>1, <2>3, <2>5
<1>23. CASE SendPing
  <2>1. /\ UNCHANGED <<bare, pc, created, wire, comp>>
        /\ events' = Append(events, Event("ping", NoSurface))
    BY <1>23 DEF SendPing, client
  <2>2. Event("ping", NoSurface) \in Messages /\ Event("ping", NoSurface).op # "done"
    BY WireTypes DEF Event
  <2>3. Done' = Done
    BY <2>1, <2>2, DoneKept
  <2> QED BY <1>4, <1>5, <1>7, <2>1, <2>3
<1>24. CASE \/ EnterLoop \/ (\E n \in 1..Len(events) : Poll(n)) \/ DispatchFails
            \/ LoopTest \/ Disconnect \/ Ended \/ UNCHANGED vars
  <2>1. UNCHANGED <<created, bare, wire, events, comp>> /\ (pc # "crashed" \/ pc' = pc)
    BY <1>24 DEF EnterLoop, Poll, DispatchFails, LoopTest, Disconnect, Ended,
                 vars, client, compositor
  <2> QED BY <1>8, <2>1
<1> QED
  BY <1>9, <1>10, <1>11, <1>12, <1>13, <1>14, <1>15, <1>17, <1>18, <1>19,
     <1>20, <1>21, <1>22, <1>23, <1>24
  DEF Next, Client, Compositor, Process

LEMMA CallbacksInit == Init => CallbacksConserved
<1> SUFFICES ASSUME Init PROVE Callbacks(Surfaces) = Cardinality(created \ bare)
  BY DEF CallbacksConserved
<1>1. Positions(wire, "frame", Surfaces) = {} /\ Positions(events, "done", Surfaces) = {}
  BY DEF Init, Positions
<1>2. comp \in States /\ \A s \in Surfaces : comp[s].frames + comp[s].ready = 0
  BY DEF Init, NewSurface, States, SurfaceStates
<1>3. \A p : p \notin Waiting(comp, Surfaces)
  BY <1>2, WaitingElements
<1>4. Waiting(comp, Surfaces) = {}
  BY <1>3
<1>5. created \ bare = {}
  BY DEF Init
<1>6. Cardinality({}) = 0
  BY FS_EmptySet
<1>7. Requested = 0 /\ AtCompositor = 0 /\ Done = 0
  BY <1>1, <1>4, <1>6 DEF Requested, AtCompositor, Done
<1>8. Callbacks(Surfaces) = Requested + AtCompositor + Done
  BY DEF Callbacks, Requested, AtCompositor, Done
<1> QED BY <1>5, <1>6, <1>7, <1>8

LEMMA SlotInit == Init => SlotInv
  BY DEF Init, SlotInv

(* The invariant of the windows, for any number of surfaces and buffers,   *)
(* with any of the surfaces created without a renderer.                    *)
THEOREM WindowInvariant == Spec => [](TypeOK /\ WindowInv)
<1>1. Init => TypeOK /\ WindowInv
  BY TypeInit, SlotInit, BuffersInit, CallbacksInit DEF WindowInv
<1>2. TypeOK /\ WindowInv /\ [Next]_vars => (TypeOK /\ WindowInv)'
  BY TypeStep, SlotStep, BuffersStep, CallbacksStep DEF WindowInv
<1> QED BY <1>1, <1>2, PTL DEF Spec

(* However many surfaces share the static rinfo, frame callbacks are       *)
(* neither lost nor multiplied: there are as many as windows being drawn.  *)
THEOREM CallbacksAreConserved == Spec => []CallbacksConserved
<1>1. TypeOK /\ WindowInv => CallbacksConserved
  BY DEF WindowInv
<1> QED BY <1>1, WindowInvariant, PTL


-----------------------------------------------------------------------------
(***************************************************************************)
(* Programs with one window, as the examples are.                          *)
(***************************************************************************)

LEMMA OneWindow ==
  ASSUME NEW a, Surfaces = {a}, Renderless = {}, TypeOK, WindowInv
  PROVE  OneCallback
<1> SUFFICES ASSUME NEW s \in created, pc # "crashed" PROVE Callbacks({s}) = 1
  BY DEF OneCallback
<1>1. s = a /\ created = {a} /\ bare = {}
  BY DEF TypeOK
<1>2. created \ bare = {a} /\ {s} = Surfaces
  BY <1>1
<1>3. Cardinality({a}) = 1
  BY FS_Singleton
<1> QED BY <1>2, <1>3 DEF WindowInv, CallbacksConserved

(* The window of a program that has one, created with a renderer, has one  *)
(* frame callback at every moment: drawframe never starves and never is    *)
(* called twice for a frame.                                               *)
THEOREM OneCallbackOfOneWindow ==
  ASSUME NEW a, Surfaces = {a}, Renderless = {}
  PROVE  Spec => []OneCallback
<1>1. TypeOK /\ WindowInv => OneCallback
  BY OneWindow
<1> QED BY <1>1, WindowInvariant, PTL

(* Three buffers make no two neighbours of a buffer the same.              *)
LEMMA FollowingTwice ==
  ASSUME BufferCount >= 3, NEW b \in Buffers
  PROVE  /\ Following(b) # b
         /\ Following(Following(b)) # b
         /\ Following(b) # NoBuffer /\ Following(b) \in Buffers
<1>1. b \in 0..(BufferCount - 1) /\ BufferCount \in Nat
  BY DEF Buffers
<1>2. CASE b = BufferCount - 1
  <2>1. Following(b) = 0
    BY <1>1, <1>2 DEF Following
  <2>2. Following(0) = 1
    BY <1>1 DEF Following
  <2> QED BY <1>1, <1>2, <2>1, <2>2 DEF Buffers
<1>3. CASE b = BufferCount - 2
  <2>1. Following(b) = BufferCount - 1
    BY <1>1, <1>3 DEF Following
  <2>2. Following(BufferCount - 1) = 0
    BY <1>1 DEF Following
  <2> QED BY <1>1, <1>3, <2>1, <2>2 DEF Buffers
<1>4. CASE b < BufferCount - 2
  <2>1. Following(b) = b + 1
    BY <1>1, <1>4 DEF Following
  <2>2. Following(b + 1) = b + 2
    BY <1>1, <1>4 DEF Following
  <2> QED BY <1>1, <1>4, <2>1, <2>2 DEF Buffers
<1> QED BY <1>1, <1>2, <1>3, <1>4

(* With the callback done, at most one buffer is not yet on screen.        *)
LEMMA OffScreen ==
  ASSUME NEW a, Surfaces = {a}, Renderless = {}, Attach => BufferCount >= 3,
         TypeOK, WindowInv, HandleDone
  PROVE  cbuf[slot] \notin InFlight(slot)
<1>1. slot = a /\ slot \in created /\ pc # "crashed" /\ a \in Surfaces
  BY DEF HandleDone, Take, WindowInv, SlotInv, TypeOK
<1>2. Commits(a) /\ InOrder(a) /\ Paced(a)
  BY <1>1 DEF WindowInv, BuffersInv
<1>3. Positions(wire, "frame", {a}) = {}
  <2>1. Callbacks({a}) = 1
    BY <1>1, OneWindow DEF OneCallback
  <2>2. Requested + AtCompositor + Done = 1
    BY <2>1 DEF Callbacks, Requested, AtCompositor, Done
  <2>3. Requested \in Nat /\ AtCompositor \in Nat /\ Done \in Nat
    BY PlaceTypes
  <2>4. Done # 0
    <3>1. Take("done")
      BY DEF HandleDone
    <3>2. /\ events \in Seq(Messages) /\ events # <<>> /\ events[1] \in Messages
          /\ events[1].op = "done" /\ Len(events) \in Nat \ {0}
      BY <3>1, TakeFacts, TailFacts
    <3>3. 1 \in Positions(events, "done", Surfaces)
      BY <3>2, WireTypes DEF Positions
    <3>4. IsFiniteSet(Positions(events, "done", Surfaces))
      BY <3>2, PositionsFinite
    <3> QED BY <3>3, <3>4, FS_EmptySet DEF Done
  <2>5. Requested = 0
    BY <2>2, <2>3, <2>4
  <2>6. IsFiniteSet(Positions(wire, "frame", Surfaces))
    BY PositionsFinite DEF TypeOK
  <2> QED BY <2>5, <2>6, FS_EmptySet DEF Requested
<1>4. \A j, k \in Attaches(a) : j = k
  <2>1. Attaches(a) \subseteq Nat
    BY LenProperties DEF Attaches, Positions, TypeOK
  <2>2. \A j, k \in Attaches(a) : ~(j < k)
    BY <1>2, <1>3 DEF Paced
  <2> QED BY <2>1, <2>2
<1>5. Attaches(a) # {} => comp[a].buffer = NoBuffer
  BY <1>2, <1>3 DEF Paced
<1>6. /\ comp[a].buffer \in Buffers \cup {NoBuffer}
      /\ comp[a].front \in Buffers \cup {NoBuffer}
      /\ cbuf[a] # NoBuffer
  <2>1. comp[a] \in SurfaceStates /\ cbuf[a] \in Nat
    BY <1>1, NextBufferType DEF TypeOK
  <2> QED BY <2>1 DEF SurfaceStates
<1>7. \A k \in Attaches(a) : wire[k].buffer \in Buffers
  <2> TAKE k \in Attaches(a)
  <2>1. wire[k] \in Requests /\ wire[k].op = "attach"
    BY ElementOfSeq DEF TypeOK, Attaches, Positions
  <2> QED BY <1>2, <2>1, WireTypes DEF Commits
<1>8. InFlight(a) = {comp[a].front, comp[a].buffer}
                      \cup {wire[k].buffer : k \in Attaches(a)}
  BY DEF InFlight
<1>9. CASE Attaches(a) = {}
  <2>1. CASE comp[a].buffer = NoBuffer /\ comp[a].front = NoBuffer
    BY <1>1, <1>6, <1>8, <1>9, <2>1
  <2>2. CASE comp[a].buffer = NoBuffer /\ comp[a].front # NoBuffer
    <3>1. Attach /\ cbuf[a] = Following(comp[a].front)
      BY <1>2, <1>9, <2>2 DEF Commits, InOrder, Latest
    <3> QED BY <1>1, <1>6, <1>8, <1>9, <2>2, <3>1, FollowingTwice
  <2>3. CASE comp[a].buffer # NoBuffer
    <3>1. /\ Attach /\ cbuf[a] = Following(comp[a].buffer)
          /\ comp[a].front # NoBuffer => comp[a].buffer = Following(comp[a].front)
      BY <1>2, <1>9, <2>3 DEF Commits, InOrder, Latest
    <3> QED BY <1>1, <1>6, <1>8, <1>9, <2>3, <3>1, FollowingTwice
  <2> QED BY <2>1, <2>2, <2>3
<1>10. ASSUME NEW k \in Attaches(a) PROVE cbuf[a] \notin InFlight(a)
  <2>1. \A i \in Attaches(a) : i = k
    BY <1>4
  <2>2. k \in Nat
    BY LenProperties DEF Attaches, Positions, TypeOK
  <2>3. \A i \in Attaches(a) : i <= k /\ k <= i
    BY <2>1, <2>2
  <2>4. /\ Attach /\ cbuf[a] = Following(wire[k].buffer)
        /\ comp[a].front # NoBuffer => wire[k].buffer = Following(comp[a].front)
    BY <1>2, <1>5, <2>3 DEF Commits, InOrder, Latest
  <2>5. InFlight(a) = {comp[a].front, NoBuffer, wire[k].buffer}
    BY <1>5, <1>8, <2>1
  <2>6. cbuf[a] # wire[k].buffer
    BY <1>7, <2>4, FollowingTwice
  <2>7. cbuf[a] # comp[a].front
    BY <1>6, <2>4, FollowingTwice
  <2> QED BY <1>6, <2>5, <2>6, <2>7
<1> QED BY <1>1, <1>9, <1>10

(* With three buffers or more drawframe never renders into the one on      *)
(* screen or into one on its way there, though nobody waits for a buffer   *)
(* to be released: the frame callback alone keeps them apart.              *)
THEOREM DrawingOffScreen ==
  ASSUME NEW a, Surfaces = {a}, Renderless = {}, Attach => BufferCount >= 3
  PROVE  Spec => DrawsOffScreen
<1>1. TypeOK /\ WindowInv /\ [Next]_vars =>
        [HandleDone => cbuf[slot] \notin InFlight(slot)]_vars
  BY OffScreen
<1> QED BY <1>1, WindowInvariant, PTL DEF Spec, DrawsOffScreen

=============================================================================
