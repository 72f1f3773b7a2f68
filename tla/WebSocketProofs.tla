--------------------------- MODULE WebSocketProofs ---------------------------
(***************************************************************************)
(* A WebSocket object keeps its contract whatever the agent sends, however *)
(* the bytes are cut and whoever closes first, for every maxPayload and    *)
(* every sequence of frames.  Life ties the four things that tell how far  *)
(* the object has come: the request, the raw socket, the receiver's stream *)
(* and readyState.                                                         *)
(***************************************************************************)
EXTENDS WebSocket, Induction, TLAPS

\* A new object is CONNECTING, with nothing below it yet.
LEMMA LifeInit == Init => Life
BY DEF Init, ReceiverInit, Life, Stages, LastEvent, Decoding, ClosedOnce

\* A round of the loop that emits nothing, ends the turn, or fails it.
LEMMA DecodeEffect ==
  ASSUME Decode, loop \in BOOLEAN, writing \in BOOLEAN, errored \in BOOLEAN
  PROVE  /\ loop
         /\ UNCHANGED <<finished, errorEmitted, delivered>>
         /\ loop' \in BOOLEAN /\ writing' \in BOOLEAN /\ errored' \in BOOLEAN
         /\ loop' => (writing => writing') /\ (~errored => ~errored')
<1>1. ASSUME NEW f, NEW m, HaveLength(f, m)
      PROVE  \/ Fail
             \/ GoOn
  BY <1>1 DEF HaveLength
<1>2. \/ Fail \/ Finish \/ GoOn
  BY <1>1 DEF Decode, Starve, GetInfo, GetPayloadLength16, GetPayloadLength64,
              Fragment, InvalidText, PingOrPong, BadClose
<1>3. loop /\ UNCHANGED <<finished, errorEmitted, delivered>>
  BY DEF Decode, Starve, GetInfo, GetPayloadLength16, GetPayloadLength64, Round,
         Fragment, InvalidText, Whole, PingOrPong, BadClose, stream, decoder
<1>4. CASE Fail \/ Finish
  BY <1>3, <1>4 DEF Fail, Finish
<1>5. CASE GoOn
  BY <1>3, <1>5 DEF GoOn
<1> QED
  BY <1>2, <1>4, <1>5

\* The kinds of steps of the receiver, as the rest of the object sees them
LEMMA LifeLoop == Life /\ Loop => Life'
<1> SUFFICES ASSUME Life, Loop PROVE Life'
  OBVIOUS
<1> USE DEF Life, Stages, LastEvent, Decoding, ClosedOnce
<1>1. CASE Decodes
  <2>1. UNCHANGED <<readyState, req, raw, handshake, history>>
    BY <1>1 DEF Decodes
  <2>2. Decode
    BY <1>1 DEF Decodes
  <2>3. loop \in BOOLEAN /\ writing \in BOOLEAN /\ errored \in BOOLEAN
    OBVIOUS
  <2>4. /\ loop
        /\ UNCHANGED <<finished, errorEmitted, delivered>>
        /\ loop' \in BOOLEAN /\ writing' \in BOOLEAN /\ errored' \in BOOLEAN
        /\ loop' => (writing => writing') /\ (~errored => ~errored')
    <3> HIDE DEF Life
    <3> QED
      BY <2>2, <2>3, DecodeEffect
  <2>5. UNCHANGED <<readyState, req, socket, listening, closeTimer, closes, thrown>>
    BY <2>1 DEF raw, handshake, history
  <2>6. ~thrown /\ ~errorEmitted /\ socket = "open"
    BY <2>4
  <2>7. Stages' /\ LastEvent' /\ ClosedOnce'
    BY <2>4, <2>5, <2>6
  <2>8. Decoding'
    BY <2>4, <2>5, <2>6
  <2> QED
    BY <2>4, <2>5, <2>6, <2>7, <2>8
<1>2. CASE Message
  <2>1. /\ loop
        /\ UNCHANGED <<loop, writing, errored, finished, errorEmitted, socket,
                       listening, thrown, closes>>
    BY <1>2 DEF Message, EmitMessage, Emit, Whole, Round, GoOn, history, stream
  <2>2. CASE UNCHANGED <<readyState, req, weEnded, sending, closeTimer>>
    BY <2>1, <2>2
  <2>3. CASE Close(received)
    BY <2>1, <2>3 DEF Close
  <2> QED
    BY <1>2, <2>2, <2>3 DEF Message
<1>3. CASE MessageThrows
  BY <1>3 DEF MessageThrows, EmitThrows, Emit, Whole, Round, raw, handshake, stream
<1>4. CASE Concludes
  BY <1>4 DEF Concludes, Conclude, Round, Finish, Close, history
<1> QED
  BY <1>1, <1>2, <1>3, <1>4 DEF Loop

\* The ticks that were promised keep Life,
LEMMA LifeTicks == Life /\ Ticks => Life'
<1> SUFFICES ASSUME Life, Ticks PROVE Life'
  OBVIOUS
<1> USE DEF Life, Stages, LastEvent, Decoding, ClosedOnce
<1>1. CASE Aborted
  BY <1>1 DEF Aborted, EmitClose, receiver, stream, raw, handshake
<1>2. CASE Resume
  BY <1>2 DEF Resume, receiver, stream, handshake, history
<1>3. CASE ReceiverError
  BY <1>3 DEF ReceiverError, EmitError, ErrorPending, Close, history
<1>4. CASE ReceiverFinish
  BY <1>4 DEF ReceiverFinish, EmitFinish, FinishPending, EmitClose, raw, handshake
<1> QED
  BY <1>1, <1>2, <1>3, <1>4 DEF Ticks

\* the HTTP request does,
LEMMA LifeRequest == Life /\ Request => Life'
<1> SUFFICES ASSUME Life, Request PROVE Life'
  OBVIOUS
<1> USE DEF Life, Stages, LastEvent, Decoding, ClosedOnce, receiver, stream, handshake
<1>1. CASE Upgrade
  BY <1>1 DEF Upgrade, history
<1>2. CASE Rejected
  BY <1>2 DEF Rejected, raw, history
<1>3. CASE RequestError
  BY <1>3 DEF RequestError, EmitClose, raw
<1> QED
  BY <1>1, <1>2, <1>3 DEF Request

\* the raw socket does
LEMMA LifeSocket == Life /\ Socket => Life'
<1> SUFFICES ASSUME Life, Socket PROVE Life'
  OBVIOUS
<1> USE DEF Life, Stages, LastEvent, Decoding, ClosedOnce, handshake
<1>1. ASSUME NEW n \in 1 .. Len(wire), Chunk(n) PROVE Life'
  BY <1>1 DEF Chunk, Write, Idle, ErrorPending, stream, history
<1>2. CASE End
  BY <1>2 DEF End, Idle, history
<1>3. CASE SocketError
  BY <1>3 DEF SocketError, Idle, receiver, stream, history
<1>4. CASE SocketClosed
  <2>1. /\ ~loop /\ (errored => errorEmitted)
        /\ socket \in {"open", "destroyed"} /\ socket' = "closed"
        /\ ~listening' /\ ~closeTimer'
        /\ UNCHANGED <<loop, writing, errored, finished, errorEmitted, req, thrown>>
    BY <1>4 DEF SocketClosed, Idle, ErrorPending
  <2>2. IF finished \/ errorEmitted
        THEN readyState' = "CLOSED" /\ closes' = closes + 1
        ELSE readyState' = "CLOSING" /\ closes' = closes
    BY <1>4 DEF SocketClosed, EmitClose
  <2>3. closeTimer' \in BOOLEAN
    BY <1>4 DEF SocketClosed
  <2>4. Stages' /\ LastEvent' /\ ClosedOnce'
    BY <2>1, <2>2
  <2>5. Decoding'
    BY <2>1, <2>2
  <2> QED
    BY <2>1, <2>2, <2>3, <2>4, <2>5
<1> QED
  BY <1>1, <1>2, <1>3, <1>4 DEF Socket

\* and the owner's calls do.
LEMMA LifeOwner == Life /\ Owner => Life'
<1> SUFFICES ASSUME Life, Owner PROVE Life'
  OBVIOUS
<1> USE DEF Life, Stages, LastEvent, Decoding, ClosedOnce, receiver, stream, history
<1>1. CASE OwnerCloses
  BY <1>1 DEF OwnerCloses, Close
<1>2. CASE CloseWritten
  BY <1>2 DEF CloseWritten
<1>3. CASE CloseTimerFires
  BY <1>3 DEF CloseTimerFires, Idle
<1> QED
  BY <1>1, <1>2, <1>3 DEF Owner

\* Every step keeps Life.
LEMMA LifeStep == Life /\ [Next]_vars => Life'
<1> SUFFICES ASSUME Life, [Next]_vars PROVE Life'
  OBVIOUS
<1>1. CASE UNCHANGED vars
  BY <1>1 DEF Life, Stages, LastEvent, Decoding, ClosedOnce, vars, receiver,
              stream, raw, handshake, history
<1> QED
  BY <1>1, LifeLoop, LifeTicks, LifeRequest, LifeSocket, LifeOwner DEF Next

\* The request, the raw socket, the receiver and readyState agree throughout,
\* and "close" has been emitted once if the object is CLOSED and never before.
THEOREM LifeHolds == Spec => []Life
BY LifeInit, LifeStep, PTL DEF Spec

----------------------------------------------------------------------------
(* The refinement *)

\* A new object meets the contract.
LEMMA ContractInit == Init => Contract!Init
BY DEF Init, ReceiverInit, Contract!Init

\* Messages are emitted by the loop only, while the raw socket is open; every
\* other step opens, closes or leaves alone what the contract tells.
LEMMA ContractStep == Life /\ [Next]_vars => [Contract!Next]_(Contract!vars)
<1> SUFFICES ASSUME Life, [Next]_vars PROVE [Contract!Next]_(Contract!vars)
  OBVIOUS
<1> USE DEF Contract!Next, Contract!vars, Contract!Open, Contract!Closing,
            Contract!Message, Contract!Close
<1>0. CASE UNCHANGED vars
  BY <1>0 DEF vars, receiver, history
<1>1. CASE Loop
  <2>1. CASE Decodes
    <3>1. Decode /\ UNCHANGED <<readyState, history>>
      BY <2>1 DEF Decodes
    <3>2. loop \in BOOLEAN /\ writing \in BOOLEAN /\ errored \in BOOLEAN
      BY DEF Life
    <3> QED
      BY <3>1, <3>2, DecodeEffect DEF history
  <2>2. CASE Message
    BY <2>2 DEF Message, EmitMessage, Emit, Whole, Round, Close, history,
                Life, Stages, Decoding
  <2>3. CASE MessageThrows
    BY <2>3 DEF MessageThrows, EmitThrows, Emit, Whole, Round, Life, Stages, Decoding
  <2>4. CASE Concludes
    BY <2>4 DEF Concludes, Conclude, Close, history, Life
  <2> QED
    BY <1>1, <2>1, <2>2, <2>3, <2>4 DEF Loop
<1>2. CASE Ticks
  BY <1>2 DEF Ticks, Aborted, Resume, ReceiverError, EmitError, ErrorPending,
     ReceiverFinish, EmitFinish, FinishPending, EmitClose, Close, receiver,
     history, Life, Stages, LastEvent, Decoding
<1>3. CASE Request
  BY <1>3 DEF Request, Upgrade, Rejected, RequestError, EmitClose, receiver,
     history, Life, Stages
<1>4. CASE Socket
  BY <1>4 DEF Socket, Chunk, Write, End, SocketError, SocketClosed, EmitClose,
     receiver, stream, history, Life, Stages
<1>5. CASE Owner
  BY <1>5 DEF Owner, OwnerCloses, CloseWritten, CloseTimerFires, Close, receiver,
     history, Life
<1> QED
  BY <1>0, <1>1, <1>2, <1>3, <1>4, <1>5 DEF Next

\* Every run of a WebSocket object is one its contract allows: it opens once,
\* emits messages only while it is open or closing, and closes once, last.
THEOREM RefinesSocketContract == Spec => ContractHolds
BY LifeHolds, ContractInit, ContractStep, PTL DEF Spec, ContractHolds, Contract!Spec

----------------------------------------------------------------------------
(* What frames say, and how they are written *)

\* A prefix agrees with the sequence as far as it goes.
LEMMA PrefixIsPointwise ==
  ASSUME NEW A, NEW s \in Seq(A), NEW t \in Seq(A)
  PROVE  IsPrefix(s, t) <=>
            Len(s) <= Len(t) /\ \A i \in 1 .. Len(s) : t[i] = s[i]
<1>1. /\ Len(s) \in Nat /\ Len(t) \in Nat
      /\ \A i \in 1 .. Len(s) : s[i] \in A
      /\ \A i \in 1 .. Len(t) : t[i] \in A
  BY LenProperties
<1>2. SubSeq(s, 1, Len(s)) = s
  BY SubSeqFull
<1> SUFFICES ASSUME Len(s) <= Len(t)
             PROVE  SubSeq(t, 1, Len(s)) = s <=> \A i \in 1 .. Len(s) : t[i] = s[i]
  BY <1>2 DEF IsPrefix
<1>3. /\ SubSeq(t, 1, Len(s)) \in Seq(A)
      /\ Len(SubSeq(t, 1, Len(s))) = Len(s)
      /\ \A i \in 1 .. Len(s) : SubSeq(t, 1, Len(s))[i] = t[i]
  <2>1. \A i \in 1 .. Len(s) : t[i] \in A
    BY <1>1
  <2> QED
    BY <1>1, <2>1, SubSeqProperties
<1> QED
  BY <1>1, <1>3, SeqEqual

\* A prefix stays one when the sequence grows.
LEMMA PrefixOfAppend ==
  ASSUME NEW A, NEW s \in Seq(A), NEW t \in Seq(A), NEW e \in A, IsPrefix(s, t)
  PROVE  IsPrefix(s, Append(t, e))
<1>1. /\ Append(t, e) \in Seq(A) /\ Len(Append(t, e)) = Len(t) + 1
      /\ \A i \in 1 .. Len(t) : Append(t, e)[i] = t[i]
  BY AppendProperties
<1>2. Len(s) \in Nat /\ Len(t) \in Nat
  BY LenProperties
<1>3. Len(s) <= Len(t) /\ \A i \in 1 .. Len(s) : t[i] = s[i]
  BY PrefixIsPointwise
<1>4. Len(s) <= Len(Append(t, e)) /\ \A i \in 1 .. Len(s) : Append(t, e)[i] = s[i]
  BY <1>1, <1>2, <1>3
<1> QED
  BY <1>1, <1>4, PrefixIsPointwise

HearStep(A, B) == [p \in A \X B |-> Hear(p[1], p[2])]

\* Iterated with Hear, frames stay in any set that Hear does not leave; there
\* HearAll is the iteration, up to the last frame.
LEMMA HearAllIterates ==
  ASSUME NEW A, NEW heard \in A, NEW B, NEW frames \in Seq(B),
         \A a \in A, f \in B : Hear(a, f) \in A
  PROVE  \E g \in [0 .. Len(frames) -> A] :
            /\ Iterates(g, heard, HearStep(A, B), frames)
            /\ HearAll(heard, frames) = g[Len(frames)]
<1> DEFINE step == HearStep(A, B)
           n == Len(frames)
           said == CHOOSE h : h = [k \in 0 .. n |->
                       IF k = 0 THEN heard ELSE Hear(h[k - 1], frames[k])]
<1>1. n \in Nat /\ \A k \in 1 .. n : frames[k] \in B
  BY LenProperties
<1>2. step \in [A \X B -> A]
  BY DEF HearStep
<1>3. PICK g \in [0 .. n -> A] : Iterates(g, heard, step, frames)
  <2> HIDE DEF step
  <2> QED
    BY <1>2, Iteration
<1>4. g = [k \in 0 .. n |-> IF k = 0 THEN heard ELSE Hear(g[k - 1], frames[k])]
  <2>1. ASSUME NEW k \in 0 .. n
        PROVE  g[k] = IF k = 0 THEN heard ELSE Hear(g[k - 1], frames[k])
    <3>1. g[k] = IF k = 0 THEN heard ELSE step[<<g[k - 1], frames[k]>>]
      BY <1>1, <1>3 DEF Iterates
    <3>2. k # 0 => <<g[k - 1], frames[k]>> \in A \X B
      BY <1>1
    <3> QED
      BY <3>1, <3>2 DEF HearStep
  <2> QED
    BY <2>1
<1>5. said = [k \in 0 .. n |-> IF k = 0 THEN heard ELSE Hear(said[k - 1], frames[k])]
  <2> HIDE DEF n
  <2> QED
    BY <1>4
<1>6. said[n] = g[n]
  <2> HIDE DEF said
  <2> DEFINE M == {k \in Nat : k <= n => said[k] = g[k]}
  <2>1. 0 \in M
    BY <1>1, <1>4, <1>5
  <2>2. ASSUME NEW k \in Nat, k \in M PROVE k + 1 \in M
    <3> SUFFICES ASSUME k + 1 <= n PROVE said[k + 1] = g[k + 1]
      OBVIOUS
    <3>1. k + 1 \in 0 .. n /\ k + 1 # 0 /\ (k + 1) - 1 = k
      BY <1>1
    <3>2. said[k + 1] = Hear(said[k], frames[k + 1])
      BY <1>5, <3>1
    <3>3. g[k + 1] = Hear(g[k], frames[k + 1])
      BY <1>4, <3>1
    <3> QED
      BY <1>1, <2>2, <3>2, <3>3
  <2>3. n \in M
    <3> HIDE DEF M
    <3> QED
      BY <1>1, <2>1, <2>2, Inductive
  <2> QED
    BY <1>1, <2>3
<1>7. HearAll(heard, frames) = said[n]
  BY DEF HearAll
<1> QED
  BY <1>3, <1>6, <1>7

Messages == [opcode : DataOps, data : Seq(Bytes)]

\* The states of a hearing: the message under way and those heard.
Hearing ==
    [end : {"open", "failed", "closed"}, opcode : {0} \cup DataOps, data : Seq(Bytes),
     messages : Seq(Messages)]

\* Hearing a frame ends a message or leaves the messages as they are.
LEMMA HearType ==
  ASSUME NEW said \in Hearing, NEW f \in Frames
  PROVE  /\ Hear(said, f) \in Hearing
         /\ \/ Hear(said, f).messages = said.messages
            \/ \E m \in Messages : Hear(said, f).messages = Append(said.messages, m)
<1>1. /\ f.opcode \in 0 .. 15 /\ f.payload \in Seq(Bytes) /\ f.fin \in BOOLEAN
      /\ said.data \in Seq(Bytes) /\ said.opcode \in {0} \cup DataOps
      /\ said.messages \in Seq(Messages)
  BY DEF Frames, Hearing
<1> DEFINE data == said.data \o f.payload
           kind == IF f.opcode = 0 THEN said.opcode ELSE f.opcode
<1>2. data \in Seq(Bytes)
  BY <1>1, ConcatProperties
<1>3. \A e \in {"open", "failed", "closed"} :
        /\ [said EXCEPT !.end = e] \in Hearing
        /\ [said EXCEPT !.end = e].messages = said.messages
  BY DEF Hearing
<1>4. CASE \/ said.end # "open" \/ ~Allowed(f, said.opcode)
           \/ f.opcode \in {CloseOp, Ping, Pong}
  BY <1>3, <1>4 DEF Hear
<1>5. CASE /\ said.end = "open" /\ Allowed(f, said.opcode)
           /\ f.opcode \notin {CloseOp, Ping, Pong}
  <2>1. Hear(said, f) = Extend(said, f, kind, data)
    BY <1>5 DEF Hear
  <2>2. kind \in DataOps
    BY <1>1, <1>5 DEF Allowed, DataOps, CloseOp, Ping, Pong, Text, Binary
  <2>3. /\ [said EXCEPT !.opcode = kind, !.data = data] \in Hearing
        /\ [said EXCEPT !.opcode = kind, !.data = data].messages = said.messages
    BY <1>2, <2>2 DEF Hearing
  <2> DEFINE m == [opcode |-> kind, data |-> data]
             over == [end |-> "open", opcode |-> 0, data |-> <<>>,
                      messages |-> Append(said.messages, m)]
  <2>4. m \in Messages
    BY <1>2, <2>2 DEF Messages
  <2>5. over \in Hearing /\ over.messages = Append(said.messages, m)
    <3> HIDE DEF m
    <3>1. Append(said.messages, m) \in Seq(Messages)
      BY <1>1, <2>4, AppendProperties
    <3> QED
      BY <3>1, EmptySeq DEF Hearing
  <2>6. Hear(said, f) \in {[said EXCEPT !.end = "failed"],
                          [said EXCEPT !.opcode = kind, !.data = data], over}
    <3> HIDE DEF data, kind
    <3> QED
      BY <2>1 DEF Extend
  <2> HIDE DEF data, kind, m, over
  <2> QED
    BY <1>3, <2>3, <2>4, <2>5, <2>6
<1> QED
  BY <1>4, <1>5

\* Nothing is left to hear.
LEMMA HearAllEmpty == \A heard : HearAll(heard, <<>>) = heard
<1> SUFFICES ASSUME NEW heard PROVE HearAll(heard, <<>>) = heard
  OBVIOUS
<1>1. PICK A, B, frames : A = {heard} /\ B = {} /\ frames = <<>>
  OBVIOUS
<1>2. frames \in Seq(B) /\ heard \in A
  BY <1>1, EmptySeq
<1>3. \A a \in A, f \in B : Hear(a, f) \in A
  BY <1>1
<1>4. PICK g \in [0 .. Len(frames) -> A] : HearAll(heard, frames) = g[Len(frames)]
  BY <1>2, <1>3, HearAllIterates
<1>5. Len(frames) \in 0 .. Len(frames)
  BY <1>2, LenProperties
<1> QED
  BY <1>1, <1>4, <1>5

\* The first frame is heard, and then the rest.
LEMMA HearAllFirst ==
  ASSUME NEW heard \in Hearing, NEW frames \in Seq(Frames), frames # <<>>
  PROVE  HearAll(heard, frames) = HearAll(Hear(heard, Head(frames)), Tail(frames))
<1> DEFINE step == HearStep(Hearing, Frames)
           next == Hear(heard, Head(frames))
<1>1. /\ Head(frames) \in Frames /\ Tail(frames) \in Seq(Frames)
      /\ next \in Hearing
  BY HeadTailProperties, HearType
<1>0. \A a \in Hearing, f \in Frames : Hear(a, f) \in Hearing
  BY HearType
<1>2. PICK g : Iterates(g, heard, step, frames)
                 /\ HearAll(heard, frames) = g[Len(frames)]
  BY <1>0, HearAllIterates
<1>3. PICK h : Iterates(h, next, step, Tail(frames))
                 /\ HearAll(next, Tail(frames)) = h[Len(Tail(frames))]
  <2> DEFINE rest == Tail(frames)
  <2>1. rest \in Seq(Frames) /\ next \in Hearing
    BY <1>1
  <2> HIDE DEF rest, next
  <2>2. \E h : Iterates(h, next, step, rest) /\ HearAll(next, rest) = h[Len(rest)]
    BY <1>0, <2>1, HearAllIterates
  <2> QED
    BY <2>2 DEF rest
<1>4. step[<<heard, Head(frames)>>] = next
  BY <1>1 DEF HearStep
<1>5. g[Len(frames)] = h[Len(Tail(frames))]
  <2> HIDE DEF step, next
  <2> QED
    BY <1>2, <1>3, <1>4, IterationShift
<1> QED
  BY <1>2, <1>3, <1>5

\* Behind a failure or a close frame nothing is heard.
LEMMA HearAllOver ==
  ASSUME NEW heard, heard.end # "open", NEW frames \in Seq(Frames)
  PROVE  HearAll(heard, frames) = heard
<1>1. PICK A : A = {heard}
  OBVIOUS
<1>2. heard \in A /\ \A a \in A, f \in Frames : Hear(a, f) \in A
  BY <1>1 DEF Hear
<1>3. PICK g \in [0 .. Len(frames) -> A] : HearAll(heard, frames) = g[Len(frames)]
  BY <1>2, HearAllIterates
<1>4. Len(frames) \in 0 .. Len(frames)
  BY LenProperties
<1> QED
  BY <1>1, <1>3, <1>4


\* What has been heard stays heard.
LEMMA HearAllGrows ==
  ASSUME NEW heard \in Hearing, NEW frames \in Seq(Frames)
  PROVE  /\ HearAll(heard, frames) \in Hearing
         /\ IsPrefix(heard.messages, HearAll(heard, frames).messages)
<1> DEFINE A == {a \in Hearing : IsPrefix(heard.messages, a.messages)}
<1>1. heard \in A
  BY DEF IsPrefix, Hearing
<1>2. ASSUME NEW a \in A, NEW f \in Frames PROVE Hear(a, f) \in A
  <2>1. /\ a \in Hearing /\ Hear(a, f) \in Hearing
        /\ IsPrefix(heard.messages, a.messages)
        /\ \/ Hear(a, f).messages = a.messages
           \/ \E m \in Messages : Hear(a, f).messages = Append(a.messages, m)
    BY HearType
  <2>2. heard.messages \in Seq(Messages) /\ a.messages \in Seq(Messages)
    BY <2>1 DEF Hearing
  <2>3. IsPrefix(heard.messages, Hear(a, f).messages)
    BY <2>1, <2>2, PrefixOfAppend
  <2> QED
    BY <2>1, <2>3
<1>3. PICK g \in [0 .. Len(frames) -> A] : HearAll(heard, frames) = g[Len(frames)]
  <2> HIDE DEF A
  <2> QED
    BY <1>1, <1>2, HearAllIterates
<1>4. Len(frames) \in 0 .. Len(frames)
  BY LenProperties
<1> QED
  BY <1>3, <1>4


----------------------------------------------------------------------------
\* What is used of the sequences over a set
Joinable(A) ==
    /\ <<>> \in A
    /\ \A s \in A : <<>> \o s = s /\ s \o <<>> = s
    /\ \A s, t \in A : s \o t \in A
    /\ \A s, t, u \in A : (s \o t) \o u = s \o (t \o u)

\* The sequences over a set are joinable.
LEMMA SequencesJoin == \A B : Joinable(Seq(B))
<1> SUFFICES ASSUME NEW B PROVE Joinable(Seq(B))
  OBVIOUS
<1>1. <<>> \in Seq(B)
  BY EmptySeq
<1>2. \A s \in Seq(B) : <<>> \o s = s /\ s \o <<>> = s
  BY ConcatEmptySeq
<1>3. \A s, t \in Seq(B) : s \o t \in Seq(B)
  BY ConcatProperties
<1>4. \A s, t, u \in Seq(B) : (s \o t) \o u = s \o (t \o u)
  BY ConcatAssociative
<1> QED
  BY <1>1, <1>2, <1>3, <1>4 DEF Joinable

ConcatStep(A) == [p \in A \X A |-> p[1] \o p[2]]

\* FlattenSeq is the iteration of \o.
LEMMA FlattenIterates ==
  ASSUME NEW A, Joinable(A), NEW seqs \in Seq(A)
  PROVE  \E g \in [0 .. Len(seqs) -> A] :
            /\ Iterates(g, <<>>, ConcatStep(A), seqs)
            /\ g[0] = <<>>
            /\ \A k \in 1 .. Len(seqs) : g[k] = g[k - 1] \o seqs[k]
            /\ FlattenSeq(seqs) = g[Len(seqs)]
<1> DEFINE n == Len(seqs)
           flatten == CHOOSE h : h = [i \in 1 .. n |->
                          IF i = 1 THEN seqs[i] ELSE h[i - 1] \o seqs[i]]
<1>1. n \in Nat /\ \A k \in 1 .. n : seqs[k] \in A
  BY LenProperties
<1>2. ConcatStep(A) \in [A \X A -> A]
  <2>1. \A p \in A \X A : p[1] \o p[2] \in A
    BY DEF Joinable
  <2> QED
    BY <2>1 DEF ConcatStep
<1>3. PICK g \in [0 .. n -> A] : Iterates(g, <<>>, ConcatStep(A), seqs)
  <2>1. PICK first : first = <<>>
    OBVIOUS
  <2>2. first \in A
    BY <2>1 DEF Joinable
  <2>3. \E g \in [0 .. n -> A] : Iterates(g, first, ConcatStep(A), seqs)
    BY <1>2, <2>2, Iteration
  <2> QED
    BY <2>1, <2>3
<1>4. g[0] = <<>>
  BY <1>1, <1>3 DEF Iterates
<1>5. ASSUME NEW k \in 1 .. n PROVE g[k] = g[k - 1] \o seqs[k]
  <2>1. g[k] = ConcatStep(A)[<<g[k - 1], seqs[k]>>]
    BY <1>1, <1>3 DEF Iterates
  <2>2. <<g[k - 1], seqs[k]>> \in A \X A
    BY <1>1
  <2> QED
    BY <2>1, <2>2 DEF ConcatStep
<1>6. n # 0 => g[1] = seqs[1] /\ seqs[1] \in A
  <2> SUFFICES ASSUME n # 0 PROVE g[1] = seqs[1] /\ seqs[1] \in A
    OBVIOUS
  <2>1. 1 \in 1 .. n /\ 1 - 1 = 0
    BY <1>1
  <2>2. seqs[1] \in A
    BY <1>1, <2>1
  <2>3. g[1] = g[0] \o seqs[1]
    BY <1>5, <2>1
  <2> QED
    BY <1>4, <2>2, <2>3 DEF Joinable
<1>7. CASE n = 0
  <2>1. seqs = <<>>
    BY <1>7, EmptySeq
  <2>2. FlattenSeq(seqs) = g[n]
    BY <1>4, <1>7, <2>1 DEF FlattenSeq
  <2> QED
    BY <1>3, <1>4, <1>5, <2>2
<1>8. CASE n # 0
  <2>1. FlattenSeq(seqs) = flatten[n]
    BY <1>8 DEF FlattenSeq
  <2> DEFINE h == [i \in 1 .. n |-> g[i]]
  <2>2. h = [i \in 1 .. n |-> IF i = 1 THEN seqs[i] ELSE h[i - 1] \o seqs[i]]
    <3>1. ASSUME NEW i \in 1 .. n
          PROVE  h[i] = IF i = 1 THEN seqs[i] ELSE h[i - 1] \o seqs[i]
      <4>1. CASE i = 1
        BY <1>1, <1>6, <4>1
      <4>2. CASE i # 1
        <5>1. i - 1 \in 1 .. n
          BY <1>1, <4>2
        <5> QED
          BY <1>5, <4>2, <5>1
      <4> QED
        BY <4>1, <4>2
    <3> QED
      BY <3>1
  <2>3. flatten = [i \in 1 .. n |-> IF i = 1 THEN seqs[i] ELSE flatten[i - 1] \o seqs[i]]
    <3> HIDE DEF n, h
    <3> QED
      BY <2>2
  <2> HIDE DEF flatten, h
  <2> DEFINE M == {k \in Nat : k + 1 <= n => flatten[k + 1] = g[k + 1]}
  <2>4. 0 \in M
    <3>1. 1 \in 1 .. n
      BY <1>1, <1>8
    <3>2. flatten[1] = seqs[1]
      BY <2>3, <3>1
    <3> QED
      BY <1>8, <1>6, <3>2
  <2>5. ASSUME NEW k \in Nat, k \in M PROVE k + 1 \in M
    <3> SUFFICES ASSUME k + 2 <= n PROVE flatten[k + 2] = g[k + 2]
      OBVIOUS
    <3>1. k + 2 \in 1 .. n /\ k + 2 # 1 /\ (k + 2) - 1 = k + 1 /\ k + 1 <= n
      BY <1>1
    <3>2. flatten[k + 1] = g[k + 1]
      BY <2>5, <3>1
    <3>3. flatten[k + 2] = flatten[k + 1] \o seqs[k + 2]
      BY <2>3, <3>1
    <3>4. g[k + 2] = g[k + 1] \o seqs[k + 2]
      BY <1>5, <3>1
    <3> QED
      BY <3>2, <3>3, <3>4
  <2>6. n - 1 \in M
    <3> HIDE DEF M
    <3> QED
      BY <1>1, <1>8, <2>4, <2>5, Inductive
  <2>7. flatten[n] = g[n]
    BY <1>1, <1>8, <2>6
  <2> QED
    BY <1>3, <1>4, <1>5, <2>1, <2>7
<1> QED
  BY <1>7, <1>8

\* FlattenSeq puts the first sequence before the others.
LEMMA FlattenFirst ==
  ASSUME NEW A, Joinable(A), NEW seqs \in Seq(A), seqs # <<>>
  PROVE  /\ FlattenSeq(seqs) \in A
         /\ FlattenSeq(seqs) = Head(seqs) \o FlattenSeq(Tail(seqs))
<1> DEFINE rest == Tail(seqs)
<1>1. /\ Len(seqs) \in Nat \ {0} /\ Head(seqs) = seqs[1] /\ Head(seqs) \in A
      /\ rest \in Seq(A) /\ Len(rest) = Len(seqs) - 1
  BY EmptySeq, HeadTailProperties
<1>2. \A k \in 1 .. Len(seqs) - 1 : rest[k] = seqs[k + 1] /\ rest[k] \in A
  BY <1>1, HeadTailProperties
<1> HIDE DEF rest
<1>3. PICK g \in [0 .. Len(seqs) -> A] :
         /\ g[0] = <<>>
         /\ \A k \in 1 .. Len(seqs) : g[k] = g[k - 1] \o seqs[k]
         /\ FlattenSeq(seqs) = g[Len(seqs)]
  BY FlattenIterates
<1>4. PICK h \in [0 .. Len(rest) -> A] :
         /\ h[0] = <<>>
         /\ \A k \in 1 .. Len(rest) : h[k] = h[k - 1] \o rest[k]
         /\ FlattenSeq(rest) = h[Len(rest)]
  BY <1>1, FlattenIterates
<1> DEFINE M == {m \in Nat : m < Len(seqs) => g[m + 1] = Head(seqs) \o h[m]}
<1>5. 0 \in M
  <2>1. g[1] = <<>> \o Head(seqs)
    BY <1>1, <1>3
  <2>2. <<>> \o Head(seqs) = Head(seqs) /\ Head(seqs) \o <<>> = Head(seqs)
    BY <1>1 DEF Joinable
  <2> QED
    BY <1>4, <2>1, <2>2
<1>6. ASSUME NEW m \in Nat, m \in M PROVE m + 1 \in M
  <2> SUFFICES ASSUME m + 1 < Len(seqs) PROVE g[m + 2] = Head(seqs) \o h[m + 1]
    OBVIOUS
  <2>1. m + 2 \in 1 .. Len(seqs) /\ (m + 2) - 1 = m + 1 /\ m + 1 \in 1 .. Len(rest)
        /\ (m + 1) - 1 = m /\ m \in 0 .. Len(rest) /\ m < Len(seqs)
    BY <1>1
  <2>2. g[m + 2] = g[m + 1] \o seqs[m + 2]
    BY <1>3, <2>1
  <2>3. rest[m + 1] = seqs[m + 2] /\ rest[m + 1] \in A
    BY <1>1, <1>2, <2>1
  <2>4. h[m + 1] = h[m] \o rest[m + 1] /\ h[m] \in A
    BY <1>4, <2>1
  <2>5. g[m + 1] = Head(seqs) \o h[m]
    BY <1>6, <2>1
  <2>6. (Head(seqs) \o h[m]) \o rest[m + 1] = Head(seqs) \o (h[m] \o rest[m + 1])
    BY <1>1, <2>3, <2>4 DEF Joinable
  <2> QED
    BY <2>2, <2>3, <2>4, <2>5, <2>6
<1>7. Len(seqs) - 1 \in M
  <2> HIDE DEF M
  <2> QED
    BY <1>1, <1>5, <1>6, Inductive
<1>8. g[Len(seqs)] = Head(seqs) \o h[Len(rest)]
  BY <1>1, <1>7
<1>9. g[Len(seqs)] \in A
  BY <1>1
<1> QED
  BY <1>3, <1>4, <1>8, <1>9 DEF rest


\* What can be on the wire
Symbols ==
    Bytes \cup Nat \cup [fin : BOOLEAN, rsv : BOOLEAN, opcode : 0 .. 15]
          \cup [masked : BOOLEAN, length : 0 .. 127]

FirstByte(f)  == [fin |-> f.fin, rsv |-> f.rsv, opcode |-> f.opcode]
SecondByte(f) == [masked |-> f.masked, length |-> ShortLength(f)]
Header(f)     == <<FirstByte(f), SecondByte(f)>>

\* Stretches of the stream can be joined.
LEMMA SymbolsJoin ==
  ASSUME NEW s \in Seq(Symbols), NEW t \in Seq(Symbols), NEW u \in Seq(Symbols)
  PROVE  /\ s \o t \in Seq(Symbols)
         /\ (s \o t) \o u = s \o (t \o u)
BY SequencesJoin DEF Joinable

\* A frame's parts, and the lengths that getInfo and its successors read
LEMMA TwoBytesAddUp ==
  ASSUME NEW n \in Nat
  PROVE  /\ n \div 256 \in Nat /\ n % 256 \in Nat
         /\ 256 * (n \div 256) + (n % 256) = n
OBVIOUS

\* Sequences of two and of eight elements.
LEMMA ShortSequences ==
  ASSUME NEW A, NEW a \in A, NEW b \in A, NEW z \in A
  PROVE  <<a, b>> \in Seq(A) /\ <<a, z, z, z, b, z, z, z>> \in Seq(A)
OBVIOUS

\* The types of a frame's parts.
LEMMA FrameParts ==
  ASSUME NEW f \in Frames
  PROVE  /\ f.payload \in Seq(Bytes) /\ f.payload \in Seq(Symbols)
         /\ Len(f.payload) \in Nat
         /\ f.fin \in BOOLEAN /\ f.rsv \in BOOLEAN /\ f.masked \in BOOLEAN
         /\ f.opcode \in 0 .. 15 /\ f.high \in Nat /\ f.form \in {7, 16, 64}
BY LenProperties, SeqMonotonic DEF Frames, Symbols

\* The length is in the second byte,
LEMMA Form7 ==
  ASSUME NEW f \in Frames, f.form = 7
  PROVE  /\ Len(f.payload) < 126 /\ f.high = 0
         /\ ShortLength(f) = Len(f.payload) /\ LongLength(f) = <<>>
BY DEF Frames, Fits, ShortLength, LongLength

\* in the two bytes behind it,
LEMMA Form16 ==
  ASSUME NEW f \in Frames, f.form = 16
  PROVE  /\ Len(f.payload) < 65536 /\ f.high = 0 /\ ShortLength(f) = 126
         /\ \E high, low \in Nat :
              /\ LongLength(f) = <<high, low>>
              /\ 256 * high + low = Len(f.payload)
<1>1. Len(f.payload) < 65536 /\ f.high = 0 /\ ShortLength(f) = 126
  BY DEF Frames, Fits, ShortLength
<1> DEFINE n == Len(f.payload)
<1>2. n \in Nat
  BY FrameParts
<1>3. LongLength(f) = TwoBytes(n)
  BY DEF LongLength
<1> HIDE DEF n
<1>4. /\ n \div 256 \in Nat /\ n % 256 \in Nat
      /\ 256 * (n \div 256) + (n % 256) = n
  BY <1>2, TwoBytesAddUp
<1>5. PICK high, low \in Nat : high = n \div 256 /\ low = n % 256
  BY <1>4
<1>6. LongLength(f) = <<high, low>> /\ 256 * high + low = Len(f.payload)
  BY <1>3, <1>4, <1>5 DEF n, TwoBytes
<1> QED
  BY <1>1, <1>6

\* or in the eight.
LEMMA Form64 ==
  ASSUME NEW f \in Frames, f.form = 64
  PROVE  /\ Len(f.payload) < Word /\ ShortLength(f) = 127
         /\ LongLength(f) = <<f.high, 0, 0, 0, Len(f.payload), 0, 0, 0>>
BY DEF Frames, Fits, ShortLength, LongLength

\* What a frame becomes on the wire is made of symbols.
LEMMA FrameSymbols ==
  ASSUME NEW f \in Frames
  PROVE  Header(f) \in Seq(Symbols) /\ LongLength(f) \in Seq(Symbols)
<1>1. Nat \subseteq Symbols
  BY DEF Symbols
<1>2. Header(f) \in Seq(Symbols)
  <2>1. FirstByte(f) \in Symbols
    BY FrameParts DEF FirstByte, Symbols
  <2>2. ShortLength(f) \in 0 .. 127
    <3>1. CASE f.form = 7
      <4> DEFINE n == Len(f.payload)
      <4>1. ShortLength(f) = n /\ n < 126 /\ n \in Nat
        BY <3>1, Form7, FrameParts
      <4> HIDE DEF n
      <4> QED
        BY <4>1
    <3>2. CASE f.form = 16
      <4>1. ShortLength(f) = 126
        BY <3>2, Form16
      <4> QED
        BY <4>1
    <3>3. CASE f.form = 64
      <4>1. ShortLength(f) = 127
        BY <3>3, Form64
      <4> QED
        BY <4>1
    <3> QED
      BY <3>1, <3>2, <3>3, FrameParts
  <2>3. SecondByte(f) \in Symbols
    BY <2>2, FrameParts DEF SecondByte, Symbols
  <2> QED
    BY <2>1, <2>3, ShortSequences DEF Header
<1>3. CASE f.form = 7
  BY <1>2, <1>3, Form7, EmptySeq
<1>4. CASE f.form = 16
  <2>1. PICK high, low \in Nat : LongLength(f) = <<high, low>>
    BY <1>4, Form16
  <2>2. high \in Symbols /\ low \in Symbols
    BY <1>1
  <2> QED
    BY <1>2, <2>1, <2>2, ShortSequences
<1>5. CASE f.form = 64
  <2>1. LongLength(f) = <<f.high, 0, 0, 0, Len(f.payload), 0, 0, 0>>
    BY <1>5, Form64
  <2>2. f.high \in Symbols /\ Len(f.payload) \in Symbols /\ 0 \in Symbols
    BY <1>1, FrameParts
  <2> QED
    BY <1>2, <2>1, <2>2, ShortSequences
<1> QED
  BY <1>3, <1>4, <1>5, FrameParts

LEMMA EncodeAllEmpty == EncodeAll(<<>>) = <<>>
BY DEF EncodeAll, FlattenSeq

\* The first frame is on the wire, and then the rest.
LEMMA EncodeAllFirst ==
  ASSUME NEW frames \in Seq(Frames), frames # <<>>
  PROVE  /\ EncodeAll(frames) \in Seq(Symbols) /\ EncodeAll(Tail(frames)) \in Seq(Symbols)
         /\ EncodeAll(frames) = Header(Head(frames)) \o (LongLength(Head(frames))
                                  \o (Head(frames).payload \o EncodeAll(Tail(frames))))
<1> DEFINE Encoded(fs) == [i \in DOMAIN fs |-> Encode(fs[i])]
<1>1. ASSUME NEW f \in Frames
      PROVE  /\ Encode(f) \in Seq(Symbols)
             /\ Encode(f) = (Header(f) \o LongLength(f)) \o f.payload
  <2>1. Encode(f) = (Header(f) \o LongLength(f)) \o f.payload
    BY DEF Encode, Header, FirstByte, SecondByte
  <2>2. /\ Header(f) \in Seq(Symbols) /\ LongLength(f) \in Seq(Symbols)
        /\ f.payload \in Seq(Symbols)
    BY FrameParts, FrameSymbols
  <2>3. Header(f) \o LongLength(f) \in Seq(Symbols)
    BY <2>2, SymbolsJoin
  <2> QED
    BY <2>1, <2>2, <2>3, SymbolsJoin
<1>2. PICK A : A = Seq(Symbols)
  OBVIOUS
<1>3. Joinable(A)
  BY <1>2, SequencesJoin
<1>4. ASSUME NEW fs \in Seq(Frames)
      PROVE  /\ Encoded(fs) \in Seq(A) /\ Len(Encoded(fs)) = Len(fs)
             /\ \A i \in 1 .. Len(fs) : Encoded(fs)[i] = Encode(fs[i])
  <2>1. /\ DOMAIN fs = 1 .. Len(fs) /\ Len(fs) \in Nat
        /\ \A i \in 1 .. Len(fs) : fs[i] \in Frames
    BY LenProperties
  <2>2. \A i \in 1 .. Len(fs) : Encode(fs[i]) \in A
    BY <1>1, <1>2, <2>1
  <2> QED
    BY <2>1, <2>2
<1>5. /\ Len(frames) \in Nat \ {0} /\ Head(frames) \in Frames /\ Head(frames) = frames[1]
      /\ Tail(frames) \in Seq(Frames) /\ Len(Tail(frames)) = Len(frames) - 1
      /\ \A i \in 1 .. Len(Tail(frames)) : Tail(frames)[i] = frames[i + 1]
  BY EmptySeq, HeadTailProperties
<1> DEFINE seqs == Encoded(frames)
           rest == Encoded(Tail(frames))
<1>6. /\ seqs \in Seq(A) /\ seqs # <<>> /\ Head(seqs) = Encode(Head(frames))
      /\ Tail(seqs) = rest
  <2>1. /\ seqs \in Seq(A) /\ Len(seqs) = Len(frames)
        /\ \A i \in 1 .. Len(frames) : seqs[i] = Encode(frames[i])
    BY <1>4
  <2>2. /\ rest \in Seq(A) /\ Len(rest) = Len(frames) - 1
        /\ \A i \in 1 .. Len(frames) - 1 : rest[i] = Encode(frames[i + 1])
    BY <1>4, <1>5
  <2> HIDE DEF Encoded
  <2>3. seqs # <<>>
    BY <1>5, <2>1, EmptySeq
  <2>4. /\ Head(seqs) = seqs[1] /\ Tail(seqs) \in Seq(A)
        /\ Len(Tail(seqs)) = Len(frames) - 1
        /\ \A i \in 1 .. Len(frames) - 1 : Tail(seqs)[i] = seqs[i + 1]
    BY <2>1, <2>3, HeadTailProperties
  <2>5. \A i \in 1 .. Len(frames) - 1 : Tail(seqs)[i] = rest[i]
    BY <1>5, <2>1, <2>2, <2>4
  <2>6. Tail(seqs) = rest
    BY <2>2, <2>4, <2>5, SeqEqual
  <2> QED
    BY <1>5, <2>1, <2>3, <2>4, <2>6
<1>7. EncodeAll(frames) = FlattenSeq(seqs) /\ EncodeAll(Tail(frames)) = FlattenSeq(rest)
  BY DEF EncodeAll
<1>8. FlattenSeq(rest) \in A
  <2>1. rest \in Seq(A)
    BY <1>4, <1>5
  <2> HIDE DEF rest
  <2>2. CASE rest # <<>>
    BY <1>3, <2>1, <2>2, FlattenFirst
  <2>3. CASE rest = <<>>
    <3>1. FlattenSeq(rest) = <<>>
      BY <2>3 DEF FlattenSeq
    <3> QED
      BY <1>3, <3>1 DEF Joinable
  <2> QED
    BY <2>2, <2>3
<1>9. /\ FlattenSeq(seqs) \in A
      /\ FlattenSeq(seqs) = Encode(Head(frames)) \o FlattenSeq(rest)
  <2> HIDE DEF seqs, rest
  <2> QED
    BY <1>3, <1>6, FlattenFirst
<1> HIDE DEF seqs, rest
<1>10. Encode(Head(frames)) \o FlattenSeq(rest)
         = Header(Head(frames)) \o (LongLength(Head(frames))
              \o (Head(frames).payload \o FlattenSeq(rest)))
  <2> DEFINE f == Head(frames)
             r == FlattenSeq(rest)
  <2>1. /\ Header(f) \in Seq(Symbols) /\ LongLength(f) \in Seq(Symbols)
        /\ f.payload \in Seq(Symbols) /\ r \in Seq(Symbols)
    BY <1>2, <1>5, <1>8, FrameParts, FrameSymbols
  <2>2. Encode(f) = (Header(f) \o LongLength(f)) \o f.payload
    BY <1>1, <1>5
  <2> DEFINE h == Header(f)
             l == LongLength(f)
             p == f.payload
  <2> HIDE DEF f, r, h, l, p
  <2>3. /\ h \in Seq(Symbols) /\ l \in Seq(Symbols)
        /\ p \in Seq(Symbols) /\ r \in Seq(Symbols)
    BY <2>1 DEF h, l, p
  <2>4. PICK hl, pr : hl = h \o l /\ pr = p \o r
    OBVIOUS
  <2>7. hl \in Seq(Symbols) /\ pr \in Seq(Symbols)
    BY <2>3, <2>4, SymbolsJoin
  <2>5. (hl \o p) \o r = hl \o pr
    BY <2>3, <2>4, <2>7, SymbolsJoin
  <2>6. hl \o pr = h \o (l \o pr)
    BY <2>3, <2>4, <2>7, SymbolsJoin
  <2> QED
    BY <2>2, <2>4, <2>5, <2>6 DEF f, r, h, l, p
<1> QED
  BY <1>2, <1>7, <1>8, <1>9, <1>10

\* A script's suffixes, one frame shorter at a time
LEMMA ScriptSuffixes ==
  ASSUME script \in Scripts
  PROVE  /\ script \in Seq(Frames) /\ script \in Suffixes(script)
         /\ \A frames \in Suffixes(script) :
              /\ frames \in Seq(Frames)
              /\ frames # <<>> => Head(frames) \in Frames /\ Tail(frames) \in Suffixes(script)
<1>1. script \in Seq(Frames)
  BY ScriptsAssumption
<1>2. Len(script) \in Nat /\ \A i \in 1 .. Len(script) : script[i] \in Frames
  BY <1>1, LenProperties
<1>3. script \in Suffixes(script)
  <2>1. CASE script = <<>>
    BY <2>1 DEF Suffixes
  <2>2. CASE script # <<>>
    <3>1. 1 \in 1 .. Len(script)
      BY <1>1, <1>2, <2>2, EmptySeq
    <3>2. SubSeq(script, 1, Len(script)) = script
      BY <1>1, SubSeqFull
    <3> QED
      BY <3>1, <3>2 DEF Suffixes
  <2> QED
    BY <2>1, <2>2
<1>4. ASSUME NEW frames \in Suffixes(script)
      PROVE  /\ frames \in Seq(Frames)
             /\ frames # <<>> => Tail(frames) \in Suffixes(script)
  <2>1. CASE frames = <<>>
    BY <2>1, EmptySeq
  <2>2. ASSUME NEW l \in 1 .. Len(script), frames = SubSeq(script, l, Len(script))
        PROVE  frames \in Seq(Frames) /\ Tail(frames) \in Suffixes(script)
    <3>1. l \in Int /\ Len(script) \in Int /\ Len(script) \in l .. Len(script)
      BY <1>2
    <3>2. frames \in Seq(Frames)
      <4>1. \A i \in l .. Len(script) : script[i] \in Frames
        BY <1>2
      <4> QED
        BY <2>2, <3>1, <4>1, SubSeqProperties
    <3>3. Tail(frames) = SubSeq(script, l + 1, Len(script))
      BY <1>1, <2>2, <3>1, HeadTailOfSubSeq
    <3>4. CASE l = Len(script)
      <4>1. Tail(frames) = <<>>
        BY <3>1, <3>3, <3>4, SubSeqEmpty
      <4> QED
        BY <3>2, <4>1 DEF Suffixes
    <3>5. CASE l # Len(script)
      <4>1. l + 1 \in 1 .. Len(script)
        BY <1>2, <3>5
      <4> QED
        BY <3>2, <3>3, <4>1 DEF Suffixes
    <3> QED
      BY <3>4, <3>5
  <2> QED
    BY <2>1, <2>2 DEF Suffixes
<1>5. ASSUME NEW frames \in Suffixes(script), frames # <<>> PROVE Head(frames) \in Frames
  BY <1>4, <1>5, HeadTailProperties
<1> QED
  BY <1>1, <1>3, <1>4, <1>5

USE DEF Text, Binary, CloseOp, Ping, Pong, DataOps, ControlOps

\* What getInfo lets pass, told by the frame instead of its first two bytes
LEMMA MalformedIffNotPassed ==
  ASSUME NEW f \in Frames
  PROVE  Malformed(FirstByte(f), SecondByte(f)) <=> ~Passed(f, message.opcode)
<1>1. /\ Len(f.payload) \in Nat /\ f.fin \in BOOLEAN /\ f.form \in {7, 16, 64}
      /\ f.opcode \in 0 .. 15 /\ f.rsv \in BOOLEAN /\ f.masked \in BOOLEAN
  BY FrameParts
<1> DEFINE n == Len(f.payload)
           s == ShortLength(f)
<1>2. /\ n \in Nat
      /\ f.form = 7 <=> s < 126
      /\ f.form = 7 => s = n
      /\ s \in Nat
  <2>1. f.form = 7 => s = n /\ n < 126
    BY Form7
  <2>2. f.form = 16 => s = 126
    BY Form16
  <2>3. f.form = 64 => s = 127
    BY Form64
  <2> HIDE DEF n, s
  <2>4. n \in Nat
    BY <1>1 DEF n
  <2> QED
    BY <1>1, <2>1, <2>2, <2>3, <2>4
<1>3. Malformed(FirstByte(f), SecondByte(f)) <=>
        \/ f.rsv \/ f.masked
        \/ f.opcode \notin {0} \cup DataOps \cup ControlOps
        \/ f.opcode = 0 /\ message.opcode = 0
        \/ f.opcode \in DataOps /\ message.opcode # 0
        \/ f.opcode \in ControlOps /\ (~f.fin \/ s > 125)
        \/ f.opcode = CloseOp /\ s = 1
  BY DEF Malformed, FirstByte, SecondByte
<1>4. Passed(f, message.opcode) <=>
        /\ ~f.rsv /\ ~f.masked
        /\ \/ f.opcode = 0 /\ message.opcode # 0
           \/ f.opcode \in DataOps /\ message.opcode = 0
           \/ f.opcode \in ControlOps /\ f.fin /\ f.form = 7
        /\ ~(f.opcode = CloseOp /\ n = 1)
  BY DEF Passed
<1> HIDE DEF n, s
<1>5. s > 125 <=> ~(f.form = 7)
  BY <1>2
<1> QED
  BY <1>1, <1>2, <1>3, <1>4, <1>5

\* A frame that RFC 6455 allows passes; one that passes is allowed, unless it is
\* longer than any message or a close frame of the wrong content.
LEMMA AllowedPasses ==
  ASSUME NEW f \in Frames, NEW opcode
  PROVE  /\ Allowed(f, opcode) => Passed(f, opcode) /\ f.high = 0
         /\ Passed(f, opcode) /\ f.high = 0 /\ f.opcode # CloseOp => Allowed(f, opcode)
<1>1. Len(f.payload) \in Nat /\ f.opcode \in 0 .. 15
  BY FrameParts
<1>2. f.payload = <<>> => Len(f.payload) # 1
  BY EmptySeq
<1>3. Allowed(f, opcode) => Passed(f, opcode) /\ f.high = 0
  <2> SUFFICES ASSUME Allowed(f, opcode) PROVE Passed(f, opcode) /\ f.high = 0
    OBVIOUS
  <2>1. ~f.rsv /\ ~f.masked /\ f.high = 0
    BY DEF Allowed
  <2>2. CASE f.opcode = CloseOp
    <3>1. f.fin /\ f.form = 7
      BY <2>2 DEF Allowed
    <3>2. f.payload = <<>> \/ Len(f.payload) > 1
      BY <2>2 DEF Allowed
    <3>3. Len(f.payload) # 1
      <4> DEFINE n == Len(f.payload)
      <4>1. f.payload = <<>> \/ n > 1
        BY <3>2
      <4>2. f.payload = <<>> => n # 1
        BY <1>2
      <4> HIDE DEF n
      <4>3. n # 1
        BY <4>1, <4>2
      <4> QED
        BY <4>3 DEF n
    <3> QED
      BY <2>1, <2>2, <3>1, <3>3 DEF Passed
  <2>3. CASE f.opcode # CloseOp
    <3>1. \/ f.opcode = 0 /\ opcode # 0
          \/ f.opcode \in DataOps /\ opcode = 0
          \/ f.opcode \in {Ping, Pong} /\ f.fin /\ f.form = 7
      BY <2>3 DEF Allowed
    <3> QED
      BY <2>1, <2>3, <3>1 DEF Passed
  <2> QED
    BY <2>2, <2>3
<1>4. Passed(f, opcode) /\ f.high = 0 /\ f.opcode # CloseOp => Allowed(f, opcode)
  BY DEF Allowed, Passed
<1> QED
  BY <1>3, <1>4

----------------------------------------------------------------------------
\* Types of the decoder
Typed ==
    /\ script \in Scripts
    /\ at \in {"GET_INFO", "GET_PAYLOAD_LENGTH_16", "GET_PAYLOAD_LENGTH_64", "GET_DATA"}
    /\ buffers \in Seq(Symbols) /\ wire \in Seq(Symbols)
    /\ frame \in [fin : BOOLEAN, opcode : {0} \cup DataOps \cup ControlOps, length : Nat]
    /\ message \in [opcode : {0} \cup DataOps, length : Nat, data : Seq(Bytes)]
    /\ delivered \in Seq(Messages)

\* The fragments kept for a message never exceed maxPayload.
Bounded ==
    /\ Len(message.data) <= message.length
    /\ ~errored => message.length <= MaxPayload

\* A step that leaves the decoder alone
Still == UNCHANGED <<decoder, delivered, network, errored, received, thrown>>

\* A step that touches neither the decoder nor the stream keeps what is known of both.
LEMMA StillDecoded ==
  ASSUME Still, Typed, Bounded
  PROVE  /\ Typed' /\ Bounded'
         /\ Decoded => Decoded'
         /\ BetweenFrames \/ InLength \/ InPayload => (BetweenFrames \/ InLength \/ InPayload)'
<1>1. UNCHANGED <<buffers, at, frame, message, delivered, script, wire, errored, received, thrown>>
  BY DEF Still, decoder, network
<1>2. Typed' /\ Bounded'
  BY <1>1 DEF Typed, Bounded
<1>3. BetweenFrames' <=> BetweenFrames
  BY <1>1 DEF BetweenFrames, Remain, Heard
<1>4. InLength' <=> InLength
  BY <1>1 DEF InLength, Remain, Heard, Begun
<1>5. InPayload' <=> InPayload
  BY <1>1 DEF InPayload, Remain, Heard, Begun
<1>6. Decoded' <=> Decoded
  BY <1>1, <1>3, <1>4, <1>5 DEF Decoded
<1> QED
  BY <1>2, <1>3, <1>4, <1>5, <1>6

\* What the next frame makes of what was heard: if it ends the connection, that is
\* what the whole script says.
LEMMA HeardNext ==
  ASSUME Typed, NEW opcode \in {0} \cup DataOps, NEW frames, Remain(frames, opcode),
         frames # <<>>
  PROVE  LET next == Hear(Heard(opcode), Head(frames))
         IN  /\ Heard(opcode) \in Hearing
             /\ HearAll(next, Tail(frames)) = Said(script)
             /\ next.end # "open" => Said(script) = next
<1>1. /\ frames \in Seq(Frames) /\ Head(frames) \in Frames
      /\ Tail(frames) \in Seq(Frames)
  BY ScriptSuffixes DEF Typed, Remain
<1>2. Heard(opcode) \in Hearing
  BY DEF Typed, Heard, Hearing
<1> DEFINE next == Hear(Heard(opcode), Head(frames))
           rest == Tail(frames)
<1>3. HearAll(next, rest) = Said(script)
  BY <1>1, <1>2, HearAllFirst DEF Remain
<1>4. next.end # "open" => HearAll(next, rest) = next
  <2> HIDE DEF next, rest
  <2>1. rest \in Seq(Frames)
    BY <1>1 DEF rest
  <2> QED
    BY <2>1, HearAllOver
<1> QED
  BY <1>2, <1>3, <1>4

\* A frame that is not allowed fails the connection.
LEMMA NotAllowedFails ==
  ASSUME Typed, NEW opcode \in {0} \cup DataOps, NEW frames, Remain(frames, opcode),
         frames # <<>>, ~Allowed(Head(frames), opcode)
  PROVE  Said(script).end = "failed" /\ Said(script).messages = delivered
<1> DEFINE next == Hear(Heard(opcode), Head(frames))
<1>1. next = [Heard(opcode) EXCEPT !.end = "failed"]
  BY DEF Hear, Heard
<1>2. next.end = "failed" /\ next.messages = delivered
  BY <1>1 DEF Heard
<1>3. next.end # "open" => Said(script) = next
  BY HeardNext
<1> QED
  BY <1>2, <1>3

\* So does a message that grows too long, or is not UTF-8 where it must be.
LEMMA HeardExtends ==
  ASSUME NEW opcode \in {0} \cup DataOps, NEW f, f.opcode \in {0} \cup DataOps,
         Allowed(f, opcode), NEW kind, kind = IF f.opcode = 0 THEN opcode ELSE f.opcode
  PROVE  Hear(Heard(opcode), f) = Extend(Heard(opcode), f, kind, message.data \o f.payload)
BY DEF Hear, Heard

\* A message that outgrows maxPayload fails the connection.
LEMMA TooLongFails ==
  ASSUME Typed, NEW opcode \in {0} \cup DataOps, NEW frames, Remain(frames, opcode),
         frames # <<>>, Head(frames).opcode \in {0} \cup DataOps,
         Len(message.data) + Len(Head(frames).payload) > MaxPayload
  PROVE  Said(script).end = "failed" /\ Said(script).messages = delivered
<1> DEFINE f == Head(frames)
           kind == IF f.opcode = 0 THEN opcode ELSE f.opcode
           data == message.data \o f.payload
           next == Hear(Heard(opcode), f)
<1>1. CASE ~Allowed(f, opcode)
  BY <1>1, NotAllowedFails
<1>2. CASE Allowed(f, opcode)
  <2>1. Len(data) > MaxPayload /\ Len(data) \in Nat
    <3>1. f.payload \in Seq(Bytes)
      BY ScriptSuffixes, FrameParts DEF Typed, Remain
    <3>2. message.data \in Seq(Bytes)
      BY DEF Typed
    <3> QED
      BY <3>1, <3>2, ConcatProperties, LenProperties
  <2>2. next = Extend(Heard(opcode), f, kind, data)
    BY <1>2, HeardExtends
  <2>3. next = [Heard(opcode) EXCEPT !.end = "failed"]
    <3> HIDE DEF data, kind
    <3> QED
      BY <2>1, <2>2, PayloadAssumption DEF Extend
  <2>4. next.end = "failed" /\ next.messages = delivered
    BY <2>3 DEF Heard
  <2>5. next.end # "open" => Said(script) = next
    BY HeardNext
  <2> QED
    BY <2>4, <2>5
<1> QED
  BY <1>1, <1>2

----------------------------------------------------------------------------
(* The rounds of the loop *)

\* The loop failed, where the script says so.
Failed == Fail /\ Said(script).end = "failed" /\ Said(script).messages = delivered

\* haveLength, once the length of the frame is read: the message is too long where
\* the script's is, or the payload comes next.
LEMMA LengthRead ==
  ASSUME Typed, NEW opcode \in {0} \cup DataOps, NEW frames, Remain(frames, opcode),
         frames # <<>>, Passed(Head(frames), opcode), NEW g, NEW m,
         HaveLength(g, m), ~errored,
         g \in [fin : BOOLEAN, opcode : {0} \cup DataOps \cup ControlOps, length : Nat],
         g.fin = Head(frames).fin,
         g.opcode = IF Head(frames).opcode = 0 THEN opcode ELSE Head(frames).opcode,
         IF Head(frames).high = 0 THEN g.length = Len(Head(frames).payload)
                                  ELSE g.length > MaxPayload,
         m \in [opcode : {0} \cup DataOps, length : Nat, data : Seq(Bytes)],
         m.opcode = IF Head(frames).fin \/ opcode # 0 THEN opcode
                                                      ELSE Head(frames).opcode,
         m.length = Len(m.data), m.data = message.data, m.length <= MaxPayload,
         UNCHANGED <<delivered, script, wire>>,
         buffers' \o wire = Head(frames).payload \o EncodeAll(Tail(frames))
  PROVE  /\ message' \in [opcode : {0} \cup DataOps, length : Nat, data : Seq(Bytes)]
         /\ at' \in {at, "GET_DATA"}
         /\ Bounded'
         /\ \/ Failed
            \/ (GoOn /\ InPayload')
<1> DEFINE f == Head(frames)
           n == Len(f.payload)
           l == Len(message.data)
<1>1. f \in Frames /\ n \in Nat /\ l \in Nat /\ f.opcode \in 0 .. 15 /\ f.high \in Nat
  <2>1. f \in Frames
    BY ScriptSuffixes DEF Typed, Remain
  <2>2. message.data \in Seq(Bytes)
    BY DEF Typed
  <2> QED
    BY <2>1, <2>2, FrameParts, LenProperties
<1>2. f.opcode \in {0} \cup DataOps \cup ControlOps
  BY DEF Passed
<1> DEFINE total == m.length + IF g.opcode < CloseOp THEN g.length ELSE 0
<1>3. /\ frame' = g
      /\ message' = [m EXCEPT !.length = total]
      /\ total > MaxPayload  => Fail /\ at' = at
      /\ ~(total > MaxPayload) => at' = "GET_DATA" /\ GoOn
  BY DEF HaveLength
<1>4. total \in Nat
  OBVIOUS
<1>5. /\ message'.opcode = m.opcode /\ message'.length = total /\ message'.data = message.data
      /\ message' \in [opcode : {0} \cup DataOps, length : Nat, data : Seq(Bytes)]
  BY <1>3, <1>4
<1>6. total = l + IF f.opcode \in ControlOps THEN 0 ELSE g.length
  BY <1>2 DEF Passed
<1>7. CASE total > MaxPayload
  <2>1. f.opcode \in {0} \cup DataOps
    <3>1. l <= MaxPayload
      OBVIOUS
    <3> HIDE DEF l, total, f
    <3> QED
      BY <1>1, <1>2, <1>6, <1>7, <3>1, PayloadAssumption
  <2>2. total = l + g.length
    BY <1>6, <2>1
  <2>3. Said(script).end = "failed" /\ Said(script).messages = delivered
    <3>1. CASE f.high = 0
      <4>1. g.length = n
        BY <3>1
      <4>2. l + n > MaxPayload
        <5> HIDE DEF l, n, f, total
        <5> QED
          BY <1>7, <2>2, <4>1
      <4> QED
        BY <2>1, <4>2, TooLongFails
    <3>2. CASE f.high # 0
      <4>1. ~Allowed(f, opcode)
        BY <1>1, <3>2, AllowedPasses
      <4> QED
        BY <4>1, NotAllowedFails
    <3> QED
      BY <3>1, <3>2
  <2>4. Bounded'
    BY <1>1, <1>3, <1>5, <1>6, <1>7 DEF Bounded, Fail
  <2> QED
    BY <1>3, <1>5, <1>7, <2>3, <2>4 DEF Fail, Failed
<1>8. CASE ~(total > MaxPayload)
  <2>1. /\ at' = "GET_DATA" /\ GoOn /\ errored' = errored
    BY <1>3, <1>8 DEF GoOn
  <2>2. f.high = 0
    <3>1. CASE f.opcode \in ControlOps
      BY <1>1, <3>1, Form7 DEF Passed
    <3>2. CASE f.opcode \notin ControlOps
      <4> HIDE DEF l, n, f
      <4> QED
        BY <1>1, <1>4, <1>6, <1>8, <3>2, PayloadAssumption DEF f
    <3> QED
      BY <3>1, <3>2
  <2>3. Bounded'
    BY <1>1, <1>4, <1>5, <1>6, <1>8, PayloadAssumption DEF Bounded
  <2>4. Remain(frames, opcode)'
    BY <1>5 DEF Remain, Heard
  <2>5. Begun(f, opcode)'
    BY <1>3, <1>5 DEF Begun
  <2>6. InPayload'
    BY <1>3, <1>5, <1>6, <2>1, <2>2, <2>4, <2>5 DEF InPayload, Remain
  <2> QED
    BY <1>3, <1>5, <2>1, <2>3, <2>6
<1> QED
  BY <1>7, <1>8

\* The decoder is at some place of the script.
Placed == BetweenFrames \/ InLength \/ InPayload

\* A round of the loop takes what it waits for from the front of the bytes.
LEMMA RoundTakes ==
  ASSUME Typed, UNCHANGED wire, NEW p \in Seq(Symbols), NEW r \in Seq(Symbols),
         Needed = Len(p), Len(buffers) >= Needed, Consume, buffers \o wire = p \o r
  PROVE  /\ buffers' \in Seq(Symbols) /\ buffers' \o wire' = r
         /\ \A i \in 1 .. Len(p) : buffers[i] = p[i]
         /\ SubSeq(buffers, 1, Len(p)) = p
<1>1. buffers \in Seq(Symbols) /\ wire \in Seq(Symbols)
  BY DEF Typed
<1>2. Len(buffers) \in Nat /\ Len(p) \in Nat /\ Len(p) <= Len(buffers)
  <2>1. Len(buffers) \in Nat /\ Len(p) \in Nat
    BY <1>1, LenProperties
  <2> QED
    BY <2>1
<1>3. SubSeq(buffers, 1, Len(p)) = p
  BY <1>1, <1>2, Take
<1>4. \A i \in 1 .. Len(p) : buffers[i] = p[i]
  BY <1>1, <1>2, Take
<1>5. SubSeq(buffers, Len(p) + 1, Len(buffers)) \in Seq(Symbols)
  BY <1>1, <1>2, Take
<1>6. SubSeq(buffers, Len(p) + 1, Len(buffers)) \o wire = r
  BY <1>1, <1>2, TakeRest
<1> QED
  BY <1>3, <1>4, <1>5, <1>6 DEF Consume

\* The parts of what is left when a frame begins
LEMMA FrontOf ==
  ASSUME Typed, NEW frames \in Suffixes(script), frames # <<>>
  PROVE  /\ Head(frames) \in Frames
         /\ Header(Head(frames)) \in Seq(Symbols) /\ Len(Header(Head(frames))) = 2
         /\ LongLength(Head(frames)) \in Seq(Symbols)
         /\ Head(frames).payload \in Seq(Symbols)
         /\ EncodeAll(Tail(frames)) \in Seq(Symbols)
         /\ Head(frames).payload \o EncodeAll(Tail(frames)) \in Seq(Symbols)
         /\ LongLength(Head(frames)) \o (Head(frames).payload \o EncodeAll(Tail(frames)))
               \in Seq(Symbols)
<1>1. Head(frames) \in Frames /\ frames \in Seq(Frames)
  BY ScriptSuffixes DEF Typed
<1> DEFINE p == Head(frames).payload
           l == LongLength(Head(frames))
           r == EncodeAll(Tail(frames))
<1>2. p \in Seq(Symbols) /\ l \in Seq(Symbols) /\ r \in Seq(Symbols)
  BY <1>1, FrameParts, FrameSymbols, EncodeAllFirst
<1>3. Header(Head(frames)) \in Seq(Symbols) /\ Len(Header(Head(frames))) = 2
  BY <1>1, FrameSymbols DEF Header
<1>4. p \o r \in Seq(Symbols) /\ l \o (p \o r) \in Seq(Symbols)
  <2> HIDE DEF p, l, r
  <2>1. p \o r \in Seq(Symbols)
    BY <1>2, SymbolsJoin
  <2> DEFINE q == p \o r
  <2> HIDE DEF q
  <2>2. q \in Seq(Symbols)
    BY <2>1 DEF q
  <2>3. l \o q \in Seq(Symbols)
    BY <1>2, <2>2, SymbolsJoin
  <2> QED
    BY <2>2, <2>3 DEF q
<1> QED
  BY <1>1, <1>2, <1>3, <1>4

\* A round of the loop, the decoder being at its place
Rounding ==
    /\ Typed /\ Bounded /\ Placed
    /\ loop /\ ~errored
    /\ UNCHANGED network

Goes == Typed' /\ Bounded' /\ (Failed \/ (GoOn /\ Placed'))

\* getInfo takes the first two bytes of a frame and rejects the frames that may not come.
LEMMA GetInfoKeeps == Rounding /\ GetInfo => Goes
<1> SUFFICES ASSUME Rounding, GetInfo PROVE Goes
  OBVIOUS
<1>0. /\ Typed /\ Bounded /\ ~errored /\ UNCHANGED <<delivered, script, wire>>
      /\ at = "GET_INFO" /\ Len(buffers) >= 2 /\ Needed = 2 /\ Consume
  BY DEF Rounding, GetInfo, Round, Needed, network
<1>p. PICK opcode : opcode = message.opcode
  OBVIOUS
<1>1. PICK frames \in Suffixes(script) :
         Remain(frames, opcode) /\ buffers \o wire = EncodeAll(frames)
  BY <1>0, <1>p DEF Rounding, Placed, BetweenFrames, InLength, InPayload
<1>2. /\ message.length = Len(message.data) /\ message.length <= MaxPayload
      /\ opcode \in {0} \cup DataOps /\ opcode = message.opcode
      /\ message \in [opcode : {0} \cup DataOps, length : Nat, data : Seq(Bytes)]
  BY <1>0, <1>p DEF Rounding, Placed, BetweenFrames, InLength, InPayload, Typed, Bounded
<1>3. frames # <<>>
  <2> SUFFICES ASSUME frames = <<>> PROVE FALSE
    OBVIOUS
  <2>1. buffers \o wire = <<>>
    BY <1>1, EncodeAllEmpty
  <2>2. buffers = <<>>
    BY <1>0, <2>1, ConcatEqualIffEmpty DEF Typed
  <2> QED
    BY <1>0, <2>2
<1> DEFINE f == Head(frames)
           rest == f.payload \o EncodeAll(Tail(frames))
           tail == LongLength(f) \o rest
           header == Header(f)
<1>4. /\ f \in Frames /\ header \in Seq(Symbols) /\ Len(header) = 2 /\ tail \in Seq(Symbols)
      /\ rest \in Seq(Symbols)
  BY <1>0, <1>3, FrontOf
<1>5. buffers \o wire = header \o tail
  BY <1>0, <1>1, <1>3, ScriptSuffixes, EncodeAllFirst DEF Typed
<1>6. /\ buffers' \in Seq(Symbols) /\ buffers' \o wire' = tail
      /\ buffers[1] = FirstByte(f) /\ buffers[2] = SecondByte(f)
  <2>1. header[1] = FirstByte(f) /\ header[2] = SecondByte(f)
    BY DEF Header
  <2> HIDE DEF header, tail
  <2>2. /\ buffers' \in Seq(Symbols) /\ buffers' \o wire' = tail
        /\ \A i \in 1 .. Len(header) : buffers[i] = header[i]
    BY <1>0, <1>4, <1>5, RoundTakes
  <2>3. 1 \in 1 .. Len(header) /\ 2 \in 1 .. Len(header)
    BY <1>4
  <2> QED
    BY <2>1, <2>2, <2>3
<1> DEFINE g == [fin |-> f.fin, opcode |-> IF f.opcode = 0 THEN opcode ELSE f.opcode,
                 length |-> ShortLength(f)]
           m == IF f.fin \/ opcode # 0 THEN message ELSE [message EXCEPT !.opcode = f.opcode]
<1>7. CASE ~Passed(f, opcode)
  <2>1. Fail /\ UNCHANGED <<at, frame, message>>
    BY <1>2, <1>4, <1>6, <1>7, MalformedIffNotPassed DEF GetInfo
  <2>2. ~Allowed(f, opcode)
    BY <1>4, <1>7, AllowedPasses
  <2>3. Failed
    BY <1>0, <1>1, <1>2, <1>3, <2>1, <2>2, NotAllowedFails DEF Failed, Fail
  <2>4. Typed' /\ Bounded'
    BY <1>0, <1>6, <2>1 DEF Typed, Bounded, Fail
  <2> QED
    BY <2>3, <2>4 DEF Goes
<1>8. CASE Passed(f, opcode)
  <2>0. /\ ShortLength(f) \in Nat
        /\ f.form = 7  => ShortLength(f) < 126
        /\ f.form = 16 => ShortLength(f) = 126
        /\ f.form = 64 => ShortLength(f) = 127
        /\ f.form \in {7, 16, 64} /\ f.fin \in BOOLEAN
    <3>1. f.form \in {7, 16, 64} /\ f.fin \in BOOLEAN /\ Len(f.payload) \in Nat
      BY <1>4, FrameParts
    <3>2. f.form = 7  => ShortLength(f) = Len(f.payload) /\ Len(f.payload) < 126
      BY <1>4, Form7
    <3>3. f.form = 16 => ShortLength(f) = 126
      BY <1>4, Form16
    <3>4. f.form = 64 => ShortLength(f) = 127
      BY <1>4, Form64
    <3> HIDE DEF f
    <3>5. CASE f.form = 7
      <4>1. ShortLength(f) \in Nat /\ ShortLength(f) < 126
        BY <3>1, <3>2, <3>5
      <4> QED
        BY <3>1, <3>5, <4>1
    <3> QED
      BY <3>1, <3>3, <3>4, <3>5
  <2>1. /\ ~Malformed(FirstByte(f), SecondByte(f))
        /\ FirstByte(f).fin = f.fin /\ FirstByte(f).opcode = f.opcode
        /\ SecondByte(f).length = ShortLength(f)
    BY <1>2, <1>4, <1>8, MalformedIffNotPassed DEF FirstByte, SecondByte
  <2>2. /\ f.form = 7  => HaveLength(g, m)
        /\ f.form = 16 => at' = "GET_PAYLOAD_LENGTH_16" /\ frame' = g /\ message' = m /\ GoOn
        /\ f.form = 64 => at' = "GET_PAYLOAD_LENGTH_64" /\ frame' = g /\ message' = m /\ GoOn
    <3> HIDE DEF f
    <3>1. CASE f.form = 7
      BY <1>2, <1>6, <2>0, <2>1, <3>1 DEF GetInfo, HaveLength
    <3>2. CASE f.form = 16
      BY <1>2, <1>6, <2>0, <2>1, <3>2 DEF GetInfo
    <3>3. CASE f.form = 64
      BY <1>2, <1>6, <2>0, <2>1, <3>3 DEF GetInfo
    <3> QED
      BY <2>0, <3>1, <3>2, <3>3
  <2>3. /\ f.opcode \in {0} \cup DataOps \cup ControlOps
        /\ f.opcode \in ControlOps => f.fin
    BY <1>8 DEF Passed
  <2>4. g \in [fin : BOOLEAN, opcode : {0} \cup DataOps \cup ControlOps, length : Nat]
    BY <1>2, <2>0, <2>3
  <2>5. /\ m \in [opcode : {0} \cup DataOps, length : Nat, data : Seq(Bytes)]
        /\ m.opcode = IF f.fin \/ opcode # 0 THEN opcode ELSE f.opcode
        /\ m.data = message.data /\ m.length = message.length
    <3> HIDE DEF f
    <3> QED
      BY <1>2, <2>0, <2>3
  <2>6. CASE f.form = 7
    <3>1. /\ f.high = 0 /\ LongLength(f) = <<>> /\ ShortLength(f) = Len(f.payload)
      BY <1>4, <2>6, Form7
    <3>2. tail = rest
      <4> HIDE DEF rest
      <4>1. <<>> \o rest = rest
        BY <1>4, ConcatEmptySeq
      <4> QED
        BY <3>1, <4>1
    <3>3. /\ frame' = g
          /\ message' \in [opcode : {0} \cup DataOps, length : Nat, data : Seq(Bytes)]
          /\ at' \in {at, "GET_DATA"} /\ Bounded'
          /\ Failed \/ (GoOn /\ InPayload')
      <4>1. HaveLength(g, m)
        BY <2>2, <2>6
      <4>2. /\ g.fin = f.fin /\ g.opcode = IF f.opcode = 0 THEN opcode ELSE f.opcode
            /\ g.length = Len(f.payload)
        BY <3>1
      <4>3. /\ buffers' \o wire = rest
            /\ IF f.high = 0 THEN g.length = Len(f.payload) ELSE g.length > MaxPayload
        BY <1>0, <1>6, <3>1, <3>2
      <4>4. m.length = Len(m.data) /\ m.length <= MaxPayload
        BY <1>2, <2>5
      <4> HIDE DEF g, m
      <4>5. frame' = g
        BY <4>1 DEF HaveLength
      <4>a. message' \in [opcode : {0} \cup DataOps, length : Nat, data : Seq(Bytes)]
        BY <1>0, <1>1, <1>2, <1>3, <1>8, <2>4, <2>5, <4>1, <4>2, <4>3, <4>4, LengthRead
      <4>b. at' \in {at, "GET_DATA"}
        BY <1>0, <1>1, <1>2, <1>3, <1>8, <2>4, <2>5, <4>1, <4>2, <4>3, <4>4, LengthRead
      <4>6. Bounded'
        BY <1>0, <1>1, <1>2, <1>3, <1>8, <2>4, <2>5, <4>1, <4>2, <4>3, <4>4, LengthRead
      <4>7. Failed \/ (GoOn /\ InPayload')
        BY <1>0, <1>1, <1>2, <1>3, <1>8, <2>4, <2>5, <4>1, <4>2, <4>3, <4>4, LengthRead
      <4> QED
        BY <4>5, <4>a, <4>b, <4>6, <4>7
    <3>4. Typed'
      <4> HIDE DEF g
      <4> QED
        BY <1>0, <1>6, <2>4, <3>3 DEF Typed
    <3> QED
      BY <3>3, <3>4 DEF Goes, Placed
  <2>7. CASE f.form # 7
    <3>1. /\ at' \in {"GET_PAYLOAD_LENGTH_16", "GET_PAYLOAD_LENGTH_64"}
          /\ at' = "GET_PAYLOAD_LENGTH_16" => f.form = 16
          /\ at' = "GET_PAYLOAD_LENGTH_64" => f.form = 64
          /\ frame' = g /\ message' = m /\ GoOn
      BY <2>0, <2>2, <2>7
    <3>2. Typed'
      <4> HIDE DEF g, m
      <4> QED
        BY <1>0, <1>6, <2>4, <2>5, <3>1 DEF Typed
    <3>3. Bounded'
      <4> HIDE DEF g, m
      <4> QED
        BY <1>0, <2>5, <3>1 DEF Bounded, GoOn
    <3>4. Remain(frames, opcode)'
      <4> HIDE DEF g, m
      <4> QED
        BY <1>0, <1>1, <1>2, <2>5, <3>1 DEF Remain, Heard
    <3>5. Begun(f, opcode)'
      <4>1. /\ g.fin = f.fin
            /\ g.opcode = IF f.opcode = 0 THEN opcode ELSE f.opcode
        OBVIOUS
      <4> HIDE DEF g, m, f
      <4> QED
        BY <1>8, <2>5, <3>1, <4>1 DEF Begun
    <3>6. message'.length = Len(message'.data)
      <4> HIDE DEF g, m
      <4> QED
        BY <1>2, <2>5, <3>1
    <3>7. /\ frames \in Suffixes(script') /\ opcode \in {0} \cup DataOps
          /\ buffers' \o wire' = tail
      BY <1>0, <1>2, <1>6
    <3>8. InLength'
      <4> HIDE DEF g, m
      <4> QED
        BY <1>3, <3>1, <3>4, <3>5, <3>6, <3>7 DEF InLength
    <3> QED
      BY <3>1, <3>2, <3>3, <3>8 DEF Goes, Placed
  <2> QED
    BY <2>6, <2>7
<1> QED
  BY <1>7, <1>8

\* A longer length is read: the bytes of it come first.
LEMMA LengthKeeps == Rounding /\ (GetPayloadLength16 \/ GetPayloadLength64) => Goes
<1> SUFFICES ASSUME Rounding, GetPayloadLength16 \/ GetPayloadLength64 PROVE Goes
  OBVIOUS
<1>0. /\ Typed /\ Bounded /\ ~errored /\ UNCHANGED <<delivered, script, wire>>
      /\ at \in {"GET_PAYLOAD_LENGTH_16", "GET_PAYLOAD_LENGTH_64"}
      /\ Len(buffers) >= Needed /\ Consume
      /\ at = "GET_PAYLOAD_LENGTH_16" => Needed = 2 /\ GetPayloadLength16
      /\ at = "GET_PAYLOAD_LENGTH_64" => Needed = 8 /\ GetPayloadLength64
  BY DEF Rounding, GetPayloadLength16, GetPayloadLength64, Round, Needed, network
<1>1. PICK frames \in Suffixes(script), opcode \in {0} \cup DataOps :
         /\ Remain(frames, opcode)
         /\ frames # <<>> /\ Begun(Head(frames), opcode)
         /\ \/ at = "GET_PAYLOAD_LENGTH_16" /\ Head(frames).form = 16
            \/ at = "GET_PAYLOAD_LENGTH_64" /\ Head(frames).form = 64
         /\ buffers \o wire = LongLength(Head(frames))
                              \o (Head(frames).payload \o EncodeAll(Tail(frames)))
  BY <1>0 DEF Rounding, Placed, BetweenFrames, InLength, InPayload
<1>2. /\ message.length = Len(message.data) /\ message.length <= MaxPayload
      /\ message \in [opcode : {0} \cup DataOps, length : Nat, data : Seq(Bytes)]
      /\ frame \in [fin : BOOLEAN, opcode : {0} \cup DataOps \cup ControlOps, length : Nat]
  BY <1>0 DEF Rounding, Placed, BetweenFrames, InLength, InPayload, Typed, Bounded
<1> DEFINE f == Head(frames)
           rest == f.payload \o EncodeAll(Tail(frames))
           long == LongLength(f)
           n == Len(f.payload)
<1>3. /\ f \in Frames /\ long \in Seq(Symbols) /\ rest \in Seq(Symbols)
  BY <1>0, <1>1, FrontOf
<1>4. /\ f.high \in Nat /\ n \in Nat
  BY <1>3, FrameParts
<1>5. Passed(f, opcode) /\ frame.fin = f.fin
      /\ frame.opcode = (IF f.opcode = 0 THEN opcode ELSE f.opcode)
      /\ message.opcode = (IF f.fin \/ opcode # 0 THEN opcode ELSE f.opcode)
  BY <1>1 DEF Begun
<1>6. ASSUME Needed = Len(long)
      PROVE  /\ buffers' \in Seq(Symbols) /\ buffers' \o wire = rest
             /\ \A i \in 1 .. Len(long) : buffers[i] = long[i]
  <2>1. buffers \o wire = long \o rest
    BY <1>1
  <2> HIDE DEF long, rest
  <2>2. /\ buffers' \in Seq(Symbols) /\ buffers' \o wire' = rest
        /\ \A i \in 1 .. Len(long) : buffers[i] = long[i]
    BY <1>0, <1>3, <1>6, <2>1, RoundTakes
  <2> QED
    BY <1>0, <2>2
<1>7. ASSUME NEW l \in Nat, buffers' \in Seq(Symbols), buffers' \o wire = rest,
             HaveLength([frame EXCEPT !.length = l], message),
             IF f.high = 0 THEN l = n ELSE l > MaxPayload
      PROVE  Goes
  <2> DEFINE g == [frame EXCEPT !.length = l]
  <2>1. /\ g \in [fin : BOOLEAN, opcode : {0} \cup DataOps \cup ControlOps, length : Nat]
        /\ g.fin = f.fin /\ g.opcode = (IF f.opcode = 0 THEN opcode ELSE f.opcode)
        /\ g.length = l
    <3> HIDE DEF f
    <3> QED
      BY <1>2, <1>5
  <2>2. HaveLength(g, message)
    BY <1>7
  <2> HIDE DEF g
  <2>3. frame' = g
    BY <2>2 DEF HaveLength
  <2>4. IF f.high = 0 THEN g.length = n ELSE g.length > MaxPayload
    BY <1>7, <2>1
  <2>5. message' \in [opcode : {0} \cup DataOps, length : Nat, data : Seq(Bytes)]
    BY <1>0, <1>1, <1>2, <1>5, <1>7, <2>1, <2>2, <2>4, LengthRead
  <2>6. at' \in {at, "GET_DATA"}
    BY <1>0, <1>1, <1>2, <1>5, <1>7, <2>1, <2>2, <2>4, LengthRead
  <2>7. Bounded'
    BY <1>0, <1>1, <1>2, <1>5, <1>7, <2>1, <2>2, <2>4, LengthRead
  <2>8. Failed \/ (GoOn /\ InPayload')
    BY <1>0, <1>1, <1>2, <1>5, <1>7, <2>1, <2>2, <2>4, LengthRead
  <2>9. Typed'
    BY <1>0, <1>7, <2>1, <2>3, <2>5, <2>6 DEF Typed
  <2> QED
    BY <2>7, <2>8, <2>9 DEF Goes, Placed
<1>8. CASE at = "GET_PAYLOAD_LENGTH_16"
  <2>1. f.form = 16
    BY <1>1, <1>8
  <2>2. PICK high, low \in Nat : long = <<high, low>> /\ 256 * high + low = n
    BY <1>3, <2>1, Form16
  <2>3. Len(long) = 2 /\ long[1] = high /\ long[2] = low /\ f.high = 0
    BY <1>3, <2>1, <2>2, Form16
  <2>4. /\ buffers' \in Seq(Symbols) /\ buffers' \o wire = rest
        /\ buffers[1] = high /\ buffers[2] = low
    <3> HIDE DEF long, rest
    <3> QED
      BY <1>0, <1>6, <1>8, <2>3
  <2>5. HaveLength([frame EXCEPT !.length = 256 * buffers[1] + buffers[2]], message)
    BY <1>0, <1>8 DEF GetPayloadLength16
  <2>6. HaveLength([frame EXCEPT !.length = n], message)
    <3> HIDE DEF n
    <3>1. 256 * buffers[1] + buffers[2] = n
      BY <2>2, <2>4
    <3> QED
      BY <2>5, <3>1
  <2> QED
    BY <1>4, <1>7, <2>3, <2>4, <2>6
<1>9. CASE at = "GET_PAYLOAD_LENGTH_64"
  <2>1. f.form = 64
    BY <1>1, <1>9
  <2>2. long = <<f.high, 0, 0, 0, n, 0, 0, 0>>
    BY <1>3, <2>1, Form64
  <2>3. Len(long) = 8 /\ long[1] = f.high /\ long[5] = n
    BY <2>2
  <2>4. /\ buffers' \in Seq(Symbols) /\ buffers' \o wire = rest
        /\ buffers[1] = f.high /\ buffers[5] = n
    <3> HIDE DEF long, rest, n, f
    <3> QED
      BY <1>0, <1>6, <1>9, <2>3
  <2>5. CASE buffers[1] > MaxHigh
    <3>1. Fail /\ UNCHANGED <<at, frame, message>>
      BY <1>0, <1>9, <2>5 DEF GetPayloadLength64
    <3>2. f.high # 0
      BY <2>4, <2>5, WordAssumption
    <3>3. ~Allowed(f, opcode)
      BY <1>3, <3>2, AllowedPasses
    <3>4. Failed
      BY <1>0, <1>1, <3>1, <3>3, NotAllowedFails DEF Failed, Fail
    <3>5. Typed' /\ Bounded'
      BY <1>0, <2>4, <3>1 DEF Typed, Bounded, Fail
    <3> QED
      BY <3>4, <3>5 DEF Goes
  <2>6. CASE ~(buffers[1] > MaxHigh)
    <3> DEFINE l == Word * f.high + n
    <3>1. HaveLength([frame EXCEPT !.length = l], message)
      BY <1>0, <1>9, <2>4, <2>6 DEF GetPayloadLength64
    <3>2. l \in Nat /\ (IF f.high = 0 THEN l = n ELSE l > MaxPayload)
      <4> HIDE DEF n
      <4>1. PICK h \in Nat : h = f.high
        BY <1>4
      <4>2. Word * h \in Nat /\ (h = 0 => Word * h = 0) /\ (h # 0 => Word * h >= Word)
        BY WordAssumption
      <4> QED
        BY <1>4, <4>1, <4>2, WordAssumption, PayloadAssumption
    <3> HIDE DEF l
    <3> QED
      BY <1>7, <2>4, <3>1, <3>2
  <2> QED
    BY <2>5, <2>6
<1> QED
  BY <1>0, <1>8, <1>9

\* The payload of the next frame has come.
Arrived(frames, opcode) ==
    /\ frames \in Suffixes(script) /\ frames # <<>>
    /\ opcode \in {0} \cup DataOps
    /\ Remain(frames, opcode)
    /\ Begun(Head(frames), opcode) /\ Head(frames).high = 0
    /\ frame.length = Len(Head(frames).payload)
    /\ message.length = Len(message.data) +
          (IF Head(frames).opcode \in ControlOps THEN 0 ELSE frame.length)
    /\ Payload = Head(frames).payload
    /\ buffers' \in Seq(Symbols) /\ buffers' \o wire' = EncodeAll(Tail(frames))

\* Once getData has its bytes, they are the payload of the frame that was begun.
LEMMA PayloadArrives ==
  Rounding /\ Round("GET_DATA") /\ Consume => \E frames, opcode : Arrived(frames, opcode)
<1> SUFFICES ASSUME Rounding, Round("GET_DATA"), Consume
             PROVE  \E frames, opcode : Arrived(frames, opcode)
  OBVIOUS
<1>0. /\ Typed /\ UNCHANGED <<script, wire>>
      /\ at = "GET_DATA" /\ Len(buffers) >= Needed /\ Needed = frame.length
  BY DEF Rounding, Round, Needed, network
<1>1. PICK frames \in Suffixes(script), opcode \in {0} \cup DataOps :
         /\ Remain(frames, opcode)
         /\ frames # <<>> /\ Begun(Head(frames), opcode) /\ Head(frames).high = 0
         /\ frame.length = Len(Head(frames).payload)
         /\ message.length = Len(message.data) +
               (IF Head(frames).opcode \in ControlOps THEN 0 ELSE frame.length)
         /\ buffers \o wire = Head(frames).payload \o EncodeAll(Tail(frames))
  BY <1>0 DEF Rounding, Placed, BetweenFrames, InLength, InPayload
<1> DEFINE p == Head(frames).payload
           rest == EncodeAll(Tail(frames))
<1>2. p \in Seq(Symbols) /\ rest \in Seq(Symbols)
  BY <1>0, <1>1, FrontOf
<1>3. buffers' \in Seq(Symbols) /\ buffers' \o wire' = rest /\ SubSeq(buffers, 1, Len(p)) = p
  <2>1. buffers \o wire = p \o rest /\ Needed = Len(p)
    BY <1>0, <1>1
  <2> HIDE DEF p, rest
  <2> QED
    BY <1>0, <1>2, <2>1, RoundTakes
<1>4. Payload = p
  BY <1>1, <1>3 DEF Payload
<1> QED
  BY <1>1, <1>3, <1>4 DEF Arrived

\* Once the payload is decoded, the decoder is between frames again.
LEMMA FrameOver ==
  ASSUME NEW frames, NEW opcode, Arrived(frames, opcode), Typed, UNCHANGED network,
         at' = "GET_INFO", message'.length = Len(message'.data),
         [end |-> "open", opcode |-> message'.opcode, data |-> message'.data,
          messages |-> delivered'] = Hear(Heard(opcode), Head(frames))
  PROVE  Placed'
<1> DEFINE next == Hear(Heard(opcode), Head(frames))
           rest == Tail(frames)
<1>1. rest \in Suffixes(script') /\ script' = script
  BY ScriptSuffixes DEF Typed, Arrived, network
<1>2. HearAll(next, rest) = Said(script)
  BY HeardNext DEF Arrived
<1>3. Heard(message.opcode)' = next
  BY DEF Heard
<1> HIDE DEF next
<1>4. Remain(rest, message.opcode)'
  BY <1>1, <1>2, <1>3 DEF Remain
<1>5. buffers' \o wire' = EncodeAll(rest)
  BY DEF Arrived
<1> HIDE DEF rest
<1> QED
  BY <1>1, <1>4, <1>5 DEF Placed, BetweenFrames

\* What is known of a frame with its payload
LEMMA ArrivedFacts ==
  ASSUME Typed, NEW frames, NEW opcode, Arrived(frames, opcode)
  PROVE  /\ Head(frames) \in Frames /\ Passed(Head(frames), opcode)
         /\ Head(frames).payload \in Seq(Bytes) /\ Len(Head(frames).payload) \in Nat
         /\ Len(message.data) \in Nat
         /\ Len(message.data \o Head(frames).payload)
               = Len(message.data) + Len(Head(frames).payload)
         /\ message.data \o Head(frames).payload \in Seq(Bytes)
         /\ frame.fin = Head(frames).fin
         /\ frame.opcode = (IF Head(frames).opcode = 0 THEN opcode ELSE Head(frames).opcode)
         /\ message.opcode = (IF Head(frames).fin \/ opcode # 0 THEN opcode
                                                            ELSE Head(frames).opcode)
<1>1. Head(frames) \in Frames
  BY ScriptSuffixes DEF Typed, Arrived
<1>2. Head(frames).payload \in Seq(Bytes) /\ Len(Head(frames).payload) \in Nat
  BY <1>1, FrameParts
<1>3. message.data \in Seq(Bytes)
  BY DEF Typed
<1>4. Len(message.data) \in Nat
  BY <1>3, LenProperties
<1>5. /\ Len(message.data \o Head(frames).payload)
            = Len(message.data) + Len(Head(frames).payload)
      /\ message.data \o Head(frames).payload \in Seq(Bytes)
  BY <1>2, <1>3, ConcatProperties
<1>6. /\ Passed(Head(frames), opcode)
      /\ frame.fin = Head(frames).fin
      /\ frame.opcode = (IF Head(frames).opcode = 0 THEN opcode ELSE Head(frames).opcode)
      /\ message.opcode = (IF Head(frames).fin \/ opcode # 0 THEN opcode
                                                            ELSE Head(frames).opcode)
  BY DEF Arrived, Begun
<1> QED
  BY <1>1, <1>2, <1>4, <1>5, <1>6

\* A frame of data is a frame of the message, which is not too long yet.
LEMMA DataArrived ==
  ASSUME Rounding, NEW frames, NEW opcode, Arrived(frames, opcode), frame.opcode \in DataOps
  PROVE  /\ Head(frames).opcode \in {0} \cup DataOps
         /\ Len(Data) \in Nat /\ Len(Data) = message.length /\ Len(Data) <= MaxPayload
         /\ Data \in Seq(Bytes)
         /\ Data = message.data \o Head(frames).payload
         /\ Hear(Heard(opcode), Head(frames))
               = Extend(Heard(opcode), Head(frames), frame.opcode, Data)
<1>0. Typed /\ Bounded /\ ~errored
  BY DEF Rounding
<1> DEFINE f == Head(frames)
           n == Len(f.payload)
           l == Len(message.data)
<1>1. /\ f \in Frames /\ Passed(f, opcode)
      /\ n \in Nat /\ l \in Nat
      /\ Len(message.data \o f.payload) = l + n /\ message.data \o f.payload \in Seq(Bytes)
      /\ frame.opcode = (IF f.opcode = 0 THEN opcode ELSE f.opcode)
  BY <1>0, ArrivedFacts
<1>2. f.opcode \in {0} \cup DataOps
  BY <1>1 DEF Passed
<1>3. Data = message.data \o f.payload
  BY DEF Data, Arrived
<1>4. message.length = l + n /\ f.high = 0 /\ opcode \in {0} \cup DataOps
  <2>1. /\ f.high = 0 /\ opcode \in {0} \cup DataOps /\ frame.length = n
        /\ message.length = l + (IF f.opcode \in ControlOps THEN 0 ELSE frame.length)
    BY DEF Arrived
  <2> HIDE DEF l, n, f
  <2> QED
    BY <1>2, <2>1
<1>5. message.length <= MaxPayload
  BY <1>0 DEF Bounded
<1>6. Allowed(f, opcode)
  BY <1>1, <1>2, <1>4, AllowedPasses
<1>7. Hear(Heard(opcode), f) = Extend(Heard(opcode), f, frame.opcode, Data)
  <2> HIDE DEF f
  <2>1. Hear(Heard(opcode), f)
           = Extend(Heard(opcode), f, frame.opcode, message.data \o f.payload)
    BY <1>1, <1>2, <1>4, <1>6, HeardExtends
  <2> QED
    BY <1>3, <2>1
<1>8. /\ Len(Data) \in Nat /\ Len(Data) = message.length /\ Len(Data) <= MaxPayload
      /\ Data \in Seq(Bytes)
  <2>1. Len(Data) = l + n /\ Data \in Seq(Bytes)
    BY <1>1, <1>3
  <2> HIDE DEF l, n, f
  <2> QED
    BY <1>1, <1>4, <1>5, <2>1
<1> QED
  BY <1>2, <1>3, <1>7, <1>8

\* A fragment joins the message; what it says is said when the message ends.
LEMMA FragmentKeeps == Rounding /\ Fragment => Goes
<1> SUFFICES ASSUME Rounding, Fragment PROVE Goes
  OBVIOUS
<1>0. /\ Typed /\ Bounded /\ ~errored /\ UNCHANGED network
      /\ Round("GET_DATA") /\ Consume
      /\ frame.opcode \in DataOps /\ ~frame.fin
      /\ message' = [message EXCEPT !.data = Data]
      /\ at' = "GET_INFO" /\ GoOn
      /\ UNCHANGED <<frame, delivered>>
  BY DEF Rounding, Fragment, Data
<1>1. PICK frames, opcode : Arrived(frames, opcode)
  BY <1>0, PayloadArrives
<1> DEFINE f == Head(frames)
           next == Hear(Heard(opcode), f)
<1>2. /\ frame.fin = f.fin
      /\ frame.opcode = (IF f.opcode = 0 THEN opcode ELSE f.opcode)
      /\ message.opcode = (IF f.fin \/ opcode # 0 THEN opcode ELSE f.opcode)
      /\ Passed(f, opcode)
  BY <1>0, <1>1, ArrivedFacts
<1>3. /\ f.opcode \in {0} \cup DataOps
      /\ Len(Data) \in Nat /\ Len(Data) = message.length /\ Len(Data) <= MaxPayload
      /\ Data \in Seq(Bytes)
      /\ next = Extend(Heard(opcode), f, frame.opcode, Data)
  BY <1>0, <1>1, DataArrived
<1>4. message.opcode = frame.opcode
  BY <1>0, <1>2, <1>3 DEF Passed
<1>5. next = [Heard(opcode) EXCEPT !.opcode = frame.opcode, !.data = Data]
  <2> HIDE DEF f, next
  <2> QED
    BY <1>0, <1>2, <1>3, PayloadAssumption DEF Extend
<1>6. /\ message' \in [opcode : {0} \cup DataOps, length : Nat, data : Seq(Bytes)]
      /\ message'.opcode = message.opcode /\ message'.length = message.length
      /\ message'.data = Data
  BY <1>0, <1>3 DEF Typed
<1>7. [end |-> "open", opcode |-> message'.opcode, data |-> message'.data,
       messages |-> delivered'] = next
  <2> HIDE DEF next
  <2> QED
    BY <1>0, <1>4, <1>5, <1>6 DEF Heard
<1>8. Placed'
  BY <1>0, <1>1, <1>3, <1>6, <1>7, FrameOver
<1>9. Typed' /\ Bounded'
  BY <1>0, <1>1, <1>3, <1>6 DEF Typed, Bounded, Arrived, GoOn, network
<1> QED
  BY <1>0, <1>8, <1>9 DEF Goes

\* A text that is not UTF-8 fails the connection, as the script says.
LEMMA InvalidTextKeeps == Rounding /\ InvalidText => Goes
<1> SUFFICES ASSUME Rounding, InvalidText PROVE Goes
  OBVIOUS
<1>0. /\ Typed /\ Bounded /\ ~errored /\ UNCHANGED network
      /\ Round("GET_DATA") /\ Consume
      /\ frame.opcode \in DataOps /\ frame.fin
      /\ frame.opcode = Text /\ ~IsUTF8(Data)
      /\ message' = NoMessage /\ Fail
      /\ UNCHANGED <<at, frame, delivered>>
  BY DEF Rounding, InvalidText, Whole, Undecodable
<1>1. PICK frames, opcode : Arrived(frames, opcode)
  BY <1>0, PayloadArrives
<1> DEFINE f == Head(frames)
           next == Hear(Heard(opcode), f)
<1>2. frame.fin = f.fin
  BY <1>0, <1>1, ArrivedFacts
<1>3. /\ Len(Data) \in Nat /\ Len(Data) <= MaxPayload
      /\ next = Extend(Heard(opcode), f, frame.opcode, Data)
  BY <1>0, <1>1, DataArrived
<1>4. next = [Heard(opcode) EXCEPT !.end = "failed"]
  <2> HIDE DEF f, next
  <2> QED
    BY <1>0, <1>2, <1>3, PayloadAssumption DEF Extend
<1>5. next.end = "failed" /\ next.messages = delivered
  BY <1>4 DEF Heard
<1>6. next.end # "open" => Said(script) = next
  BY <1>0, <1>1, HeardNext DEF Arrived
<1>7. Failed
  BY <1>0, <1>5, <1>6 DEF Failed, Fail
<1>8. Typed' /\ Bounded'
  BY <1>0, <1>1, EmptySeq DEF Typed, Bounded, Arrived, Fail, network, NoMessage
<1> QED
  BY <1>7, <1>8 DEF Goes

\* A ping or a pong leaves the message as it is.
LEMMA PingOrPongKeeps == Rounding /\ PingOrPong => Goes
<1> SUFFICES ASSUME Rounding, PingOrPong PROVE Goes
  OBVIOUS
<1>0. /\ Typed /\ Bounded /\ ~errored /\ UNCHANGED network
      /\ Round("GET_DATA") /\ Consume
      /\ frame.opcode \in {Ping, Pong}
      /\ at' = "GET_INFO" /\ GoOn
      /\ UNCHANGED <<frame, message, delivered>>
  BY DEF Rounding, PingOrPong
<1>1. PICK frames, opcode : Arrived(frames, opcode)
  BY <1>0, PayloadArrives
<1> DEFINE f == Head(frames)
           next == Hear(Heard(opcode), f)
<1>2. /\ f \in Frames /\ Passed(f, opcode) /\ Len(message.data) \in Nat
      /\ frame.opcode = (IF f.opcode = 0 THEN opcode ELSE f.opcode)
      /\ message.opcode = (IF f.fin \/ opcode # 0 THEN opcode ELSE f.opcode)
      /\ f.high = 0 /\ opcode \in {0} \cup DataOps
  BY <1>0, <1>1, ArrivedFacts DEF Arrived
<1>3. f.opcode \in {Ping, Pong} /\ f.fin
  BY <1>0, <1>2 DEF Passed
<1>4. Allowed(f, opcode)
  BY <1>2, <1>3, AllowedPasses
<1>5. next = Heard(opcode)
  BY <1>3, <1>4 DEF Hear, Heard
<1>6. message.length = Len(message.data) /\ message.opcode = opcode
  <2> DEFINE l == Len(message.data)
  <2>1. message.length = l + (IF f.opcode \in ControlOps THEN 0 ELSE frame.length)
    BY <1>1 DEF Arrived
  <2> HIDE DEF l, f
  <2>2. message.length = l /\ message.opcode = opcode
    BY <1>2, <1>3, <2>1 DEF l
  <2> QED
    BY <2>2 DEF l
<1>7. [end |-> "open", opcode |-> message'.opcode, data |-> message'.data,
       messages |-> delivered'] = next
  <2> HIDE DEF next
  <2> QED
    BY <1>0, <1>5, <1>6 DEF Heard
<1>8. Placed'
  BY <1>0, <1>1, <1>6, <1>7, FrameOver
<1>9. Typed' /\ Bounded'
  BY <1>0, <1>1 DEF Typed, Bounded, Arrived, GoOn, network
<1> QED
  BY <1>0, <1>8, <1>9 DEF Goes

\* A close frame is allowed if its status and its reason are.
LEMMA CloseAllowed ==
  ASSUME Typed, NEW frames, NEW opcode, Arrived(frames, opcode), frame.opcode = CloseOp
  PROVE  /\ Head(frames).opcode = CloseOp
         /\ Allowed(Head(frames), opcode) <=> ~InvalidClose
<1> DEFINE f == Head(frames)
           n == Len(f.payload)
<1>1. /\ f \in Frames /\ Passed(f, opcode) /\ n \in Nat /\ f.payload \in Seq(Bytes)
      /\ frame.opcode = (IF f.opcode = 0 THEN opcode ELSE f.opcode)
      /\ f.high = 0 /\ opcode \in {0} \cup DataOps
      /\ frame.length = n /\ Payload = f.payload
  BY ArrivedFacts DEF Arrived
<1>2. f.opcode = CloseOp
  BY <1>1
<1>3. /\ ~f.rsv /\ ~f.masked /\ f.fin /\ f.form = 7 /\ n # 1
  BY <1>1, <1>2 DEF Passed
<1>4. n = 0 <=> f.payload = <<>>
  BY <1>1, EmptySeq
<1>5. Allowed(f, opcode) <=>
        \/ f.payload = <<>>
        \/ n > 1 /\ IsStatus(SubSeq(f.payload, 1, 2)) /\ IsUTF8(SubSeq(f.payload, 3, n))
  BY <1>1, <1>2, <1>3 DEF Allowed
<1>6. InvalidClose <=>
        n > 0 /\ (~IsStatus(SubSeq(f.payload, 1, 2)) \/ ~IsUTF8(SubSeq(f.payload, 3, n)))
  BY <1>1 DEF InvalidClose
<1>7. (n > 1 <=> n > 0) /\ (n > 0 <=> f.payload # <<>>)
  <2> HIDE DEF n
  <2> QED
    BY <1>1, <1>3, <1>4
<1> HIDE DEF n, f
<1>8. Allowed(f, opcode) <=> ~InvalidClose
  BY <1>5, <1>6, <1>7
<1> QED
  BY <1>2, <1>8 DEF f

\* A close frame with a wrong status or reason fails the connection.
LEMMA BadCloseKeeps == Rounding /\ BadClose => Goes
<1> SUFFICES ASSUME Rounding, BadClose PROVE Goes
  OBVIOUS
<1>0. /\ Typed /\ Bounded /\ ~errored /\ UNCHANGED network
      /\ Round("GET_DATA") /\ Consume
      /\ frame.opcode = CloseOp /\ InvalidClose /\ Fail
      /\ UNCHANGED <<at, frame, message, delivered>>
  BY DEF Rounding, BadClose
<1>1. PICK frames, opcode : Arrived(frames, opcode)
  BY <1>0, PayloadArrives
<1>2. ~Allowed(Head(frames), opcode)
  BY <1>0, <1>1, CloseAllowed
<1>3. Said(script).end = "failed" /\ Said(script).messages = delivered
  BY <1>0, <1>1, <1>2, NotAllowedFails DEF Arrived
<1>4. Failed
  BY <1>0, <1>3 DEF Failed, Fail
<1>5. Typed' /\ Bounded'
  BY <1>0, <1>1 DEF Typed, Bounded, Arrived, Fail, network
<1> QED
  BY <1>4, <1>5 DEF Goes

\* The message that ends is the one the script says there.
LEMMA EmitHears ==
  ASSUME Rounding, Emit
  PROVE  \E frames, opcode :
            /\ Arrived(frames, opcode)
            /\ [end |-> "open", opcode |-> message'.opcode, data |-> message'.data,
                messages |-> delivered'] = Hear(Heard(opcode), Head(frames))
<1>0. /\ Typed /\ Bounded /\ ~errored /\ UNCHANGED network
      /\ Round("GET_DATA") /\ Consume
      /\ frame.opcode \in DataOps /\ frame.fin
      /\ ~(frame.opcode = Text /\ ~IsUTF8(Data))
      /\ message' = NoMessage
      /\ delivered' = Append(delivered, [opcode |-> frame.opcode, data |-> Data])
  BY DEF Rounding, Emit, Whole, Undecodable
<1>1. PICK frames, opcode : Arrived(frames, opcode)
  BY <1>0, PayloadArrives
<1> DEFINE f == Head(frames)
           next == Hear(Heard(opcode), f)
<1>2. frame.fin = f.fin
  BY <1>0, <1>1, ArrivedFacts
<1>3. /\ Len(Data) \in Nat /\ Len(Data) <= MaxPayload
      /\ next = Extend(Heard(opcode), f, frame.opcode, Data)
  BY <1>0, <1>1, DataArrived
<1>4. next = [end |-> "open", opcode |-> 0, data |-> <<>>,
              messages |-> Append(Heard(opcode).messages,
                                  [opcode |-> frame.opcode, data |-> Data])]
  <2> HIDE DEF f, next
  <2> QED
    BY <1>0, <1>2, <1>3, PayloadAssumption DEF Extend
<1>5. [end |-> "open", opcode |-> message'.opcode, data |-> message'.data,
       messages |-> delivered'] = next
  <2> HIDE DEF next
  <2> QED
    BY <1>0, <1>4 DEF Heard, NoMessage
<1> QED
  BY <1>1, <1>5

\* A message that ends leaves none behind it.
LEMMA EmitTypes ==
  ASSUME Rounding, Emit, at' \in {at, "GET_INFO"} PROVE Typed' /\ Bounded'
<1>0. /\ Typed /\ UNCHANGED network /\ UNCHANGED frame
      /\ Round("GET_DATA") /\ Consume
      /\ frame.opcode \in DataOps
      /\ message' = NoMessage
      /\ delivered' = Append(delivered, [opcode |-> frame.opcode, data |-> Data])
  BY DEF Rounding, Emit, Whole
<1>1. PICK frames, opcode : Arrived(frames, opcode)
  BY <1>0, PayloadArrives
<1>2. Data \in Seq(Bytes)
  BY <1>0, <1>1, DataArrived
<1>3. delivered' \in Seq(Messages)
  <2> DEFINE m == [opcode |-> frame.opcode, data |-> Data]
  <2>1. m \in Messages
    BY <1>0, <1>2 DEF Messages
  <2>2. delivered \in Seq(Messages)
    BY <1>0 DEF Typed
  <2> HIDE DEF m
  <2>3. Append(delivered, m) \in Seq(Messages)
    BY <2>1, <2>2, AppendProperties
  <2> QED
    BY <1>0, <2>3 DEF m
<1>4. /\ message' \in [opcode : {0} \cup DataOps, length : Nat, data : Seq(Bytes)]
      /\ message'.length = 0 /\ Len(message'.data) = 0
  BY <1>0, EmptySeq DEF NoMessage
<1>5. buffers' \in Seq(Symbols) /\ wire' = wire /\ script' = script /\ frame' = frame
  BY <1>0, <1>1 DEF Arrived, network
<1>6. Typed'
  BY <1>0, <1>3, <1>4, <1>5 DEF Typed
<1> QED
  BY <1>4, <1>6, PayloadAssumption DEF Bounded

\* dataMessage emits the message and starts over.
LEMMA EmitMessageKeeps == Rounding /\ EmitMessage => Typed' /\ Bounded' /\ GoOn /\ Placed'
<1> SUFFICES ASSUME Rounding, EmitMessage PROVE Typed' /\ Bounded' /\ GoOn /\ Placed'
  OBVIOUS
<1>0. /\ Typed /\ UNCHANGED network /\ Emit /\ at' = "GET_INFO" /\ GoOn
      /\ message' = NoMessage
  BY DEF Rounding, EmitMessage, Emit, Whole
<1>1. PICK frames, opcode :
        /\ Arrived(frames, opcode)
        /\ [end |-> "open", opcode |-> message'.opcode, data |-> message'.data,
            messages |-> delivered'] = Hear(Heard(opcode), Head(frames))
  BY <1>0, EmitHears
<1>2. message'.length = Len(message'.data)
  BY <1>0 DEF NoMessage
<1>3. Placed'
  BY <1>0, <1>1, <1>2, FrameOver
<1>4. Typed' /\ Bounded'
  BY <1>0, EmitTypes
<1> QED
  BY <1>0, <1>3, <1>4

\* The message whose listener throws is the script's too.
LEMMA EmitThrowsKeeps ==
  Rounding /\ EmitThrows => Typed' /\ Bounded' /\ IsPrefix(delivered', Said(script).messages)
<1> SUFFICES ASSUME Rounding, EmitThrows
             PROVE  Typed' /\ Bounded' /\ IsPrefix(delivered', Said(script).messages)
  OBVIOUS
<1>0. Typed /\ Emit /\ at' = at
  BY DEF Rounding, EmitThrows
<1>1. PICK frames, opcode :
        /\ Arrived(frames, opcode)
        /\ [end |-> "open", opcode |-> message'.opcode, data |-> message'.data,
            messages |-> delivered'] = Hear(Heard(opcode), Head(frames))
  BY <1>0, EmitHears
<1> DEFINE next == Hear(Heard(opcode), Head(frames))
           rest == Tail(frames)
<1>2. /\ Head(frames) \in Frames /\ rest \in Seq(Frames) /\ opcode \in {0} \cup DataOps
      /\ Heard(opcode) \in Hearing /\ HearAll(next, rest) = Said(script)
  BY <1>0, <1>1, ScriptSuffixes, HeardNext DEF Typed, Arrived
<1>3. next \in Hearing
  BY <1>2, HearType
<1>4. next.messages = delivered'
  BY <1>1
<1> HIDE DEF next, rest
<1>5. IsPrefix(next.messages, HearAll(next, rest).messages)
  BY <1>2, <1>3, HearAllGrows
<1> QED
  BY <1>0, <1>2, <1>4, <1>5, EmitTypes

\* The close frame is where the script closes.
LEMMA ConcludeKeeps ==
  Rounding /\ Conclude =>
     Typed' /\ Bounded' /\ Said(script).end = "closed" /\ Said(script).messages = delivered'
<1> SUFFICES ASSUME Rounding, Conclude
             PROVE  /\ Typed' /\ Bounded'
                    /\ Said(script).end = "closed" /\ Said(script).messages = delivered'
  OBVIOUS
<1>0. /\ Typed /\ Bounded /\ ~errored /\ UNCHANGED network
      /\ Round("GET_DATA") /\ Consume
      /\ frame.opcode = CloseOp /\ ~InvalidClose /\ at' = "GET_INFO"
      /\ UNCHANGED <<frame, message, delivered, errored>>
  BY DEF Rounding, Conclude, Finish
<1>1. PICK frames, opcode : Arrived(frames, opcode)
  BY <1>0, PayloadArrives
<1> DEFINE f == Head(frames)
           next == Hear(Heard(opcode), f)
<1>2. f.opcode = CloseOp /\ Allowed(f, opcode)
  BY <1>0, <1>1, CloseAllowed
<1>3. next = [Heard(opcode) EXCEPT !.end = "closed"]
  BY <1>2 DEF Hear, Heard
<1>4. next.end = "closed" /\ next.messages = delivered
  BY <1>3 DEF Heard
<1>5. next.end # "open" => Said(script) = next
  BY <1>0, <1>1, HeardNext DEF Arrived
<1>6. Typed' /\ Bounded'
  BY <1>0, <1>1 DEF Typed, Bounded, Arrived, network
<1> QED
  BY <1>0, <1>4, <1>5, <1>6

----------------------------------------------------------------------------
(* The decoder in the life of the object *)

\* Types of what the loop does not touch.
Flags ==
    /\ unwritten \in Nat
    /\ ended \in BOOLEAN /\ listening \in BOOLEAN /\ paused \in BOOLEAN
    /\ peerEnded \in BOOLEAN /\ weEnded \in BOOLEAN
    /\ received \in BOOLEAN /\ sent \in BOOLEAN /\ sending \in BOOLEAN

\* The inductive invariant: Life, the types, and what the decoder has read so far
\* is what the frames say so far.
Core == Life /\ Flags /\ Typed /\ Bounded /\ Decoded /\ Starved

Kept == Typed' /\ Bounded' /\ Decoded' /\ Starved'

LEMMA CoreInit == Init => Core
<1> SUFFICES ASSUME Init PROVE Core
  OBVIOUS
<1>1. Life
  BY LifeInit
<1>2. Flags
  BY DEF Init, ReceiverInit, Flags
<1>3. /\ script \in Scripts /\ script \in Seq(Frames) /\ script \in Suffixes(script)
      /\ wire = EncodeAll(script) /\ at = "GET_INFO" /\ buffers = <<>>
      /\ frame = NoFrame /\ message = NoMessage /\ delivered = <<>>
      /\ ~thrown /\ ~errored /\ ~received /\ ~writing
  BY ScriptSuffixes DEF Init, ReceiverInit
<1>4. EncodeAll(script) \in Seq(Symbols)
  <2>1. CASE script = <<>>
    BY <2>1, EncodeAllEmpty, EmptySeq
  <2>2. CASE script # <<>>
    BY <1>3, <2>2, EncodeAllFirst
  <2> QED
    BY <2>1, <2>2
<1>5. buffers \o wire = EncodeAll(script)
  <2> DEFINE e == EncodeAll(script)
  <2> HIDE DEF e
  <2>1. <<>> \o e = e
    BY <1>4, ConcatEmptySeq DEF e
  <2> QED
    BY <1>3, <2>1 DEF e
<1>6. Typed
  <2>1. <<>> \in Seq(Symbols) /\ <<>> \in Seq(Messages) /\ <<>> \in Seq(Bytes)
    BY EmptySeq
  <2> QED
    BY <1>3, <1>4, <2>1 DEF Typed, NoFrame, NoMessage
<1>7. message.length = Len(message.data) /\ message.length = 0 /\ message.opcode = 0
  BY <1>3 DEF NoMessage
<1>8. Bounded
  BY <1>7, PayloadAssumption DEF Bounded
<1>9. HearAll(Heard(message.opcode), script) = Said(script)
  BY <1>3 DEF Heard, Said, NoMessage
<1>10. BetweenFrames
  BY <1>3, <1>5, <1>7, <1>9 DEF BetweenFrames, Remain
<1>11. Decoded
  BY <1>3, <1>10 DEF Decoded
<1>12. Starved
  <2>1. Len(buffers) < Needed
    BY <1>3 DEF Needed
  <2> QED
    BY <1>3, <2>1 DEF Starved
<1> QED
  BY <1>1, <1>2, <1>6, <1>8, <1>11, <1>12 DEF Core

\* A turn runs only where nothing has ended the decoding.
LEMMA TurnRounds == Core /\ loop /\ UNCHANGED network =>
                      Rounding /\ ~thrown /\ ~received /\ writing /\ listening \in BOOLEAN
<1> SUFFICES ASSUME Core, loop, UNCHANGED network
             PROVE  Rounding /\ ~thrown /\ ~received /\ writing /\ listening \in BOOLEAN
  OBVIOUS
<1>1. ~thrown /\ ~errored /\ writing
  BY DEF Core, Life, Decoding
<1>2. ~received
  BY DEF Core, Starved, Flags
<1>3. Placed
  BY <1>1, <1>2 DEF Core, Decoded, Placed
<1> QED
  BY <1>1, <1>2, <1>3 DEF Core, Rounding, Flags

\* Every round of the loop keeps what is known of the decoder.
LEMMA CoreLoop == Core /\ Loop => Kept
<1> SUFFICES ASSUME Core, Loop PROVE Kept
  OBVIOUS
<1>0. loop /\ UNCHANGED network
  BY DEF Loop, Decodes, Decode, Message, MessageThrows, Concludes, Starve, GetInfo,
         GetPayloadLength16, GetPayloadLength64, Fragment, InvalidText, PingOrPong,
         BadClose, EmitMessage, EmitThrows, Emit, Whole, Conclude, Round
<1>1. Rounding /\ ~thrown /\ ~received /\ writing
  BY <1>0, TurnRounds
<1>2. /\ script' = script /\ Typed /\ Bounded /\ Placed /\ ~errored /\ errored \in BOOLEAN
  BY <1>0, <1>1 DEF Rounding, network, Core, Life
<1>3. ASSUME Goes, UNCHANGED <<delivered, handshake, history>> PROVE Kept
  <2>0. ~thrown' /\ ~received'
    BY <1>1, <1>3 DEF handshake, history
  <2>1. CASE Failed
    <3>1. errored' /\ ~writing' /\ Said(script).end = "failed"
          /\ Said(script).messages = delivered
      BY <2>1 DEF Failed, Fail
    <3>2. Decoded'
      BY <1>2, <1>3, <2>0, <3>1 DEF Decoded
    <3>3. Starved'
      BY <2>0, <3>1 DEF Starved
    <3> QED
      BY <1>3, <3>2, <3>3 DEF Goes, Kept
  <2>2. CASE GoOn /\ Placed'
    <3>1. ~errored' /\ loop'
      BY <1>0, <1>2, <2>2 DEF GoOn
    <3>2. Decoded'
      BY <2>0, <2>2, <3>1 DEF Decoded, Placed
    <3>3. Starved'
      BY <2>0, <3>1 DEF Starved
    <3> QED
      BY <1>3, <3>2, <3>3 DEF Goes, Kept
  <2> QED
    BY <1>3, <2>1, <2>2 DEF Goes
<1>4. CASE Decodes
  <2>1. Decode /\ UNCHANGED <<handshake, history>>
    BY <1>4 DEF Decodes
  <2>2. CASE Starve
    <3>1. /\ Still /\ ~writing' /\ ~thrown' /\ ~received' /\ ~errored'
          /\ Len(buffers) < Needed /\ UNCHANGED decoder
      BY <1>1, <1>2, <2>1, <2>2, <1>0 DEF Starve, Finish, Still, handshake, history
    <3>2. Typed' /\ Bounded' /\ Placed'
      BY <1>2, <3>1, StillDecoded DEF Placed
    <3>3. Decoded'
      BY <3>1, <3>2 DEF Decoded, Placed
    <3>4. Len(buffers') < Needed'
      BY <3>1 DEF Needed, decoder
    <3>5. Starved'
      BY <3>1, <3>4 DEF Starved
    <3> QED
      BY <3>2, <3>3, <3>5 DEF Kept
  <2>3. CASE ~Starve
    <3>1. UNCHANGED delivered
      BY <2>1, <2>3 DEF Decode, GetInfo, GetPayloadLength16, GetPayloadLength64,
             Fragment, InvalidText, PingOrPong, BadClose
    <3>2. Goes
      BY <1>1, <2>1, <2>3, GetInfoKeeps, LengthKeeps, FragmentKeeps, InvalidTextKeeps,
         PingOrPongKeeps, BadCloseKeeps DEF Decode
    <3> QED
      BY <1>3, <2>1, <3>1, <3>2
  <2> QED
    BY <2>2, <2>3
<1>5. CASE Message
  <2>1. EmitMessage /\ UNCHANGED <<received, history>>
    BY <1>5 DEF Message, Close
  <2>2. Typed' /\ Bounded' /\ GoOn /\ Placed'
    BY <1>1, <2>1, EmitMessageKeeps
  <2>3. ~thrown' /\ ~received' /\ ~errored' /\ loop'
    BY <1>0, <1>1, <1>2, <2>1, <2>2 DEF GoOn, history
  <2>4. Decoded' /\ Starved'
    BY <2>2, <2>3 DEF Decoded, Starved, Placed
  <2> QED
    BY <2>2, <2>4 DEF Kept
<1>6. CASE MessageThrows
  <2>1. EmitThrows /\ thrown' /\ ~received' /\ ~errored'
    BY <1>1, <1>2, <1>6 DEF MessageThrows, EmitThrows, handshake
  <2>2. Typed' /\ Bounded' /\ IsPrefix(delivered', Said(script).messages)
    BY <1>1, <2>1, EmitThrowsKeeps
  <2>3. Decoded' /\ Starved'
    BY <1>2, <2>1, <2>2 DEF Decoded, Starved
  <2> QED
    BY <2>2, <2>3 DEF Kept
<1>7. CASE Concludes
  <2>1. /\ Conclude /\ received' /\ ~listening' /\ ~loop' /\ ~writing'
        /\ ~thrown' /\ ~errored' /\ socket' = socket /\ socket # "none"
    BY <1>0, <1>1, <1>2, <1>7 DEF Concludes, Conclude, Finish, history, Core, Life, Decoding
  <2>2. /\ Typed' /\ Bounded' /\ Said(script).end = "closed"
        /\ Said(script).messages = delivered'
    BY <1>1, <2>1, ConcludeKeeps
  <2>3. Decoded' /\ Starved'
    BY <1>2, <2>1, <2>2 DEF Decoded, Starved
  <2> QED
    BY <2>2, <2>3 DEF Kept
<1> QED
  BY <1>4, <1>5, <1>6, <1>7 DEF Loop

\* A step that leaves the decoder alone, and no more bytes come than came before.
Quiet ==
    /\ Still /\ UNCHANGED <<loop, writing>>
    /\ listening' => listening \/ ~received
    /\ socket' = "none" => socket = "none"

\* So does a step outside of the loop that leaves the stream alone,
LEMMA CoreQuiet == Core /\ Quiet => Kept
<1> SUFFICES ASSUME Core, Quiet PROVE Kept
  OBVIOUS
<1>1. Typed' /\ Bounded' /\ Decoded'
  BY StillDecoded DEF Core, Quiet
<1>2. /\ UNCHANGED <<loop, writing, thrown, received, errored>>
      /\ Len(buffers') < Needed' <=> Len(buffers) < Needed
      /\ listening' => listening \/ ~received
      /\ socket' = "none" => socket = "none"
  BY DEF Quiet, Still, decoder, Needed
<1>3. Starved'
  BY <1>2 DEF Core, Starved
<1> QED
  BY <1>1, <1>3 DEF Kept

\* as the HTTP request's are,
LEMMA RequestQuiet == Core /\ Request => Quiet
<1> SUFFICES ASSUME Core, Request PROVE Quiet
  OBVIOUS
<1>1. UNCHANGED <<receiver, network, handshake, thrown>>
  BY DEF Request, Upgrade, Rejected, RequestError, history
<1>2. listening' => listening \/ ~received
  BY DEF Request, Upgrade, Rejected, RequestError, raw, Core, Starved, Life, Stages
<1>3. socket' = "none" => socket = "none"
  BY DEF Request, Upgrade, Rejected, RequestError, raw
<1> QED
  BY <1>1, <1>2, <1>3 DEF Quiet, Still, receiver, handshake

\* those of the next ticks,
LEMMA TicksQuiet == Core /\ Ticks => Quiet
<1> SUFFICES ASSUME Ticks PROVE Quiet
  OBVIOUS
<1>1. CASE Aborted \/ Resume
  BY <1>1 DEF Aborted, Resume, receiver, raw, handshake, history, Quiet, Still
<1>2. CASE ReceiverError
  BY <1>2 DEF ReceiverError, EmitError, history, Quiet, Still
<1>3. CASE ReceiverFinish
  BY <1>3 DEF ReceiverFinish, EmitFinish, raw, handshake, Quiet, Still
<1> QED
  BY <1>1, <1>2, <1>3 DEF Ticks

\* those of the owner's calls
LEMMA OwnerQuiet == Core /\ Owner => Quiet
<1> SUFFICES ASSUME Owner PROVE Quiet
  OBVIOUS
<1>1. /\ UNCHANGED <<decoder, delivered, network, loop, writing, errored, received, thrown>>
      /\ listening' = listening /\ (socket' = "none" => socket = "none")
  BY DEF Owner, OwnerCloses, CloseWritten, CloseTimerFires, receiver, history
<1> QED
  BY <1>1 DEF Quiet, Still

\* and those of the raw socket that bring no bytes.
LEMMA SocketQuiet == Core /\ (End \/ SocketError \/ SocketClosed) => Quiet
<1> SUFFICES ASSUME End \/ SocketError \/ SocketClosed PROVE Quiet
  OBVIOUS
<1>1. /\ UNCHANGED <<decoder, delivered, network, loop, writing, errored, received, thrown>>
      /\ (listening' => listening) /\ (socket' = "none" => socket = "none")
  BY DEF End, SocketError, SocketClosed, receiver, handshake, history
<1> QED
  BY <1>1 DEF Quiet, Still

\* Bytes go from the wire to the buffers, or to the queue of a receiver stuck in a
\* listener that threw.
LEMMA CoreChunk == ASSUME Core, NEW n \in 1 .. Len(wire), Chunk(n)
                   PROVE  Kept /\ unwritten' \in Nat
<1> DEFINE chunk == SubSeq(wire, 1, n)
           left  == SubSeq(wire, n + 1, Len(wire))
<1>1. Typed /\ buffers \in Seq(Symbols) /\ wire \in Seq(Symbols) /\ n \in 0 .. Len(wire)
  BY DEF Core, Typed
<1>2. chunk \in Seq(Symbols) /\ left \in Seq(Symbols) /\ buffers \o chunk \in Seq(Symbols)
  BY <1>1, Cut
<1>3. (buffers \o chunk) \o left = buffers \o wire
  BY <1>1, CutJoins
<1>4. /\ wire' = left /\ script' = script
      /\ unwritten' = unwritten + Len(chunk)
      /\ IF writing THEN UNCHANGED <<buffers, loop, writing>>
                    ELSE buffers' = buffers \o chunk /\ loop' = TRUE /\ writing' = TRUE
      /\ UNCHANGED <<at, frame, message, errored, delivered, received, thrown>>
      /\ listening /\ Idle
  BY DEF Chunk, Write, handshake, history
<1>5. unwritten' \in Nat
  BY <1>2, <1>4, LenProperties DEF Core, Flags
<1> HIDE DEF chunk, left
<1>6. ~errored /\ ~received /\ ~loop
  BY <1>4 DEF Core, Starved, Life, Decoding, Idle, ErrorPending, Flags
<1>7. Typed'
  BY <1>1, <1>2, <1>4 DEF Typed
<1>8. Bounded'
  BY <1>4 DEF Core, Bounded
<1>9. CASE writing
  <2>1. thrown
    BY <1>6, <1>9 DEF Core, Starved
  <2>2. Decoded'
    BY <1>4, <1>6, <2>1 DEF Core, Decoded
  <2>3. Starved'
    BY <1>4, <1>6, <2>1 DEF Starved
  <2> QED
    BY <1>5, <1>7, <1>8, <2>2, <2>3 DEF Kept
<1>10. CASE ~writing
  <2>1. ~thrown
    BY <1>10 DEF Core, Life, Decoding
  <2>2. Placed
    BY <1>6, <2>1 DEF Core, Decoded, Placed
  <2>3. PICK u : u = buffers \o wire /\ u = buffers' \o wire'
    BY <1>3, <1>4, <1>10
  <2>4. BetweenFrames => BetweenFrames'
    BY <1>4, <2>3 DEF BetweenFrames, Remain, Heard
  <2>5. InLength => InLength'
    BY <1>4, <2>3 DEF InLength, Remain, Heard, Begun
  <2>6. InPayload => InPayload'
    BY <1>4, <2>3 DEF InPayload, Remain, Heard, Begun
  <2>7. Decoded'
    BY <1>4, <1>6, <2>1, <2>2, <2>4, <2>5, <2>6 DEF Decoded, Placed
  <2>8. Starved'
    BY <1>4, <1>6, <1>10 DEF Starved
  <2> QED
    BY <1>5, <1>7, <1>8, <2>7, <2>8 DEF Kept
<1> QED
  BY <1>9, <1>10

\* The flags keep their types.
LEMMA FlagsStep == Core /\ [Next]_vars => Flags'
<1> SUFFICES ASSUME Core, [Next]_vars PROVE Flags'
  OBVIOUS
<1>0. Flags /\ errorEmitted \in BOOLEAN /\ Life
  BY DEF Core, Life
<1>1. CASE UNCHANGED vars
  BY <1>0, <1>1 DEF Flags, vars, receiver, stream, raw, handshake
<1>2. CASE Request
  BY <1>0, <1>2 DEF Request, Upgrade, Rejected, RequestError, Flags, receiver, stream,
                    raw, handshake
<1>3. CASE Socket
  <2>1. ASSUME NEW n \in 1 .. Len(wire), Chunk(n) PROVE Flags'
    <3>1. unwritten' \in Nat
      BY <2>1, CoreChunk
    <3>2. paused' \in BOOLEAN
      BY <2>1 DEF Chunk
    <3> QED
      BY <1>0, <2>1, <3>1, <3>2 DEF Chunk, Write, Flags, stream, handshake
  <2>2. CASE End \/ SocketError \/ SocketClosed
    BY <1>0, <2>2 DEF End, SocketError, SocketClosed, Flags, receiver, stream, handshake
  <2> QED
    BY <1>3, <2>1, <2>2 DEF Socket
<1>4. CASE Loop
  <2>1. unwritten' \in {0, unwritten}
    <3>1. ASSUME NEW f, NEW m, HaveLength(f, m) PROVE unwritten' \in {0, unwritten}
      BY <3>1 DEF HaveLength, Fail, GoOn
    <3> QED
      BY <1>4, <3>1 DEF Loop, Decodes, Message, MessageThrows, Concludes, Decode, Starve,
         GetInfo, GetPayloadLength16, GetPayloadLength64, Fragment, InvalidText,
         PingOrPong, BadClose, EmitMessage, EmitThrows, Conclude, Fail, Finish, GoOn
  <2>2. CASE Decodes
    <3>1. UNCHANGED <<raw, handshake, stream>>
      BY <2>2 DEF Decodes, Decode, Starve, GetInfo, GetPayloadLength16,
         GetPayloadLength64, Fragment, InvalidText, PingOrPong, BadClose
    <3> QED
      BY <1>0, <2>1, <3>1 DEF Flags, raw, handshake, stream
  <2>3. CASE Message
    <3>1. UNCHANGED <<ended, listening, paused, peerEnded, received, sent>>
      BY <2>3 DEF Message, EmitMessage, Emit, stream
    <3>2. weEnded' \in BOOLEAN /\ sending' \in BOOLEAN
      <4>1. CASE UNCHANGED <<weEnded, sending>>
        BY <1>0, <4>1 DEF Flags
      <4>2. CASE Close(received)
        BY <4>2 DEF Close
      <4> QED
        BY <2>3, <4>1, <4>2 DEF Message
    <3> QED
      BY <1>0, <2>1, <3>1, <3>2 DEF Flags
  <2>4. CASE MessageThrows
    BY <1>0, <2>1, <2>4 DEF MessageThrows, EmitThrows, Emit, Flags, raw, handshake, stream
  <2>5. CASE Concludes
    <3>1. /\ ended' \in BOOLEAN /\ received' \in BOOLEAN /\ listening' \in BOOLEAN
          /\ UNCHANGED <<paused, peerEnded, sent>>
      BY <2>5 DEF Concludes, Conclude
    <3>2. weEnded' \in BOOLEAN /\ sending' \in BOOLEAN
      BY <2>5 DEF Concludes, Close
    <3> QED
      BY <1>0, <2>1, <3>1, <3>2 DEF Flags
  <2> QED
    BY <1>4, <2>2, <2>3, <2>4, <2>5 DEF Loop
<1>5. CASE Ticks
  BY <1>0, <1>5 DEF Ticks, Aborted, Resume, ReceiverError, EmitError, ReceiverFinish,
     EmitFinish, Close, Flags, receiver, stream, raw, handshake
<1>6. CASE Owner
  BY <1>0, <1>6 DEF Owner, OwnerCloses, CloseWritten, CloseTimerFires, Close, Flags,
     receiver, stream
<1> QED
  BY <1>1, <1>2, <1>3, <1>4, <1>5, <1>6 DEF Next

\* Every step keeps all of it.
LEMMA CoreStep == Core /\ [Next]_vars => Core'
<1> SUFFICES ASSUME Core, [Next]_vars PROVE Core'
  OBVIOUS
<1>1. Life'
  BY LifeStep DEF Core
<1>2. Flags'
  BY FlagsStep
<1>3. CASE UNCHANGED vars
  <2>1. Quiet
    BY <1>3 DEF vars, receiver, raw, handshake, history, Quiet, Still
  <2> QED
    BY <1>1, <1>2, <2>1, CoreQuiet DEF Core, Kept
<1>4. CASE Next
  <2>1. ASSUME Loop PROVE Kept
    BY <2>1, CoreLoop
  <2>2. ASSUME Request \/ Ticks \/ Owner \/ End \/ SocketError \/ SocketClosed PROVE Kept
    BY <2>2, RequestQuiet, TicksQuiet, OwnerQuiet, SocketQuiet, CoreQuiet
  <2>3. ASSUME NEW n \in 1 .. Len(wire), Chunk(n) PROVE Kept
    BY <2>3, CoreChunk
  <2>4. Kept
    BY <1>4, <2>1, <2>2, <2>3 DEF Next, Socket
  <2> QED
    BY <1>1, <1>2, <2>4 DEF Core, Kept
<1> QED
  BY <1>3, <1>4

\* The decoder is always where its state and the bytes left say; it has failed or
\* concluded only where the frames say so.
THEOREM CoreHolds == Spec => []Core
BY CoreInit, CoreStep, PTL DEF Spec

\* Every variable has its type, and the fragments of a message never exceed
\* maxPayload, whatever the frames and however they are cut.
THEOREM TypeOKHolds == Spec => []TypeOK
<1>1. Core => TypeOK
  <2> SUFFICES ASSUME Core PROVE TypeOK
    OBVIOUS
  <2>1. /\ script \in Scripts
        /\ at \in {"GET_INFO", "GET_PAYLOAD_LENGTH_16", "GET_PAYLOAD_LENGTH_64", "GET_DATA"}
        /\ frame.fin \in BOOLEAN /\ frame.opcode \in {0} \cup DataOps \cup ControlOps
        /\ frame.length \in Nat
        /\ message.opcode \in {0} \cup DataOps
    BY DEF Core, Typed
  <2>2. Len(message.data) <= message.length /\ (~errored => message.length <= MaxPayload)
    BY DEF Core, Bounded
  <2>3. closes \in Nat
    BY DEF Core, Life, ClosedOnce
  <2> QED
    BY <2>1, <2>2, <2>3 DEF Core, Life, Flags, TypeOK
<1> QED
  BY <1>1, CoreHolds, PTL

\* What is delivered so far begins what the script says.
LEMMA DeliveredBegins == Core => IsPrefix(delivered, Said(script).messages)
<1> SUFFICES ASSUME Core PROVE IsPrefix(delivered, Said(script).messages)
  OBVIOUS
<1>1. ASSUME NEW frames, NEW opcode \in {0} \cup DataOps, Remain(frames, opcode)
      PROVE  IsPrefix(delivered, Said(script).messages)
  <2>1. frames \in Seq(Frames)
    BY <1>1, ScriptSuffixes DEF Core, Typed, Remain
  <2>2. Heard(opcode) \in Hearing /\ Heard(opcode).messages = delivered
    BY DEF Core, Typed, Heard, Hearing
  <2>3. IsPrefix(Heard(opcode).messages, HearAll(Heard(opcode), frames).messages)
    BY <2>1, <2>2, HearAllGrows
  <2> QED
    BY <1>1, <2>2, <2>3 DEF Remain
<1>2. CASE Placed
  <2>1. message.opcode \in {0} \cup DataOps
    BY DEF Core, Typed
  <2> QED
    BY <1>1, <1>2, <2>1 DEF Placed, BetweenFrames, InLength, InPayload
<1>3. CASE delivered = Said(script).messages
  BY <1>3 DEF IsPrefix, Core, Typed
<1> QED
  BY <1>2, <1>3 DEF Core, Decoded, Placed

\* When all the bytes have come and are decoded, all the frames have been heard.
LEMMA AllHeard ==
  ASSUME Core, ~loop, ~thrown, ~errored, ~received, wire = <<>>
  PROVE  Said(script).end = "open" /\ delivered = Said(script).messages
<1>1. Placed /\ Typed /\ Len(buffers) < Needed
  BY DEF Core, Decoded, Placed, Starved
<1>2. Len(buffers) \in Nat /\ buffers \o wire = buffers /\ buffers \in Seq(Symbols)
  <2>1. buffers \in Seq(Symbols)
    BY <1>1 DEF Typed
  <2> QED
    BY <2>1, ConcatEmptySeq, LenProperties
<1>3. ASSUME NEW p \in Seq(Symbols), NEW r \in Seq(Symbols), buffers \o wire = p \o r,
             Len(p) >= Needed
      PROVE  FALSE
  <2>1. Len(p \o r) = Len(p) + Len(r) /\ Len(p) \in Nat /\ Len(r) \in Nat
    BY ConcatProperties, LenProperties
  <2>2. PICK q : q = p \o r
    OBVIOUS
  <2>3. Len(q) = Len(p) + Len(r) /\ buffers = q
    BY <1>2, <1>3, <2>1, <2>2
  <2>4. Needed \in Nat
    BY <1>1 DEF Needed, Typed
  <2> QED
    BY <1>1, <1>2, <1>3, <2>1, <2>3, <2>4
<1>4. ASSUME NEW frames, frames \in Suffixes(script), frames # <<>>
      PROVE  /\ Len(Header(Head(frames))) = 2
             /\ Head(frames).form = 16 => Len(LongLength(Head(frames))) = 2
             /\ Head(frames).form = 64 => Len(LongLength(Head(frames))) = 8
  <2> DEFINE f == Head(frames)
  <2>1. f \in Frames /\ Len(Header(f)) = 2
    BY <1>1, <1>4, FrontOf
  <2>2. CASE f.form = 16
    <3>1. PICK high, low \in Nat : LongLength(f) = <<high, low>>
      BY <2>1, <2>2, Form16
    <3>2. Len(LongLength(f)) = 2
      BY <3>1
    <3> QED
      BY <2>1, <2>2, <3>2
  <2>3. CASE f.form = 64
    <3>1. Len(LongLength(f)) = 8
      BY <2>1, <2>3, Form64
    <3> QED
      BY <2>1, <2>3, <3>1
  <2> QED
    BY <2>1, <2>2, <2>3
<1>5. CASE BetweenFrames
  <2>1. PICK frames \in Suffixes(script) :
          Remain(frames, message.opcode) /\ buffers \o wire = EncodeAll(frames)
    BY <1>5 DEF BetweenFrames
  <2>2. Needed = 2
    BY <1>5 DEF BetweenFrames, Needed
  <2>3. CASE frames = <<>>
    <3>1. HearAll(Heard(message.opcode), frames) = Heard(message.opcode)
      BY <2>3, HearAllEmpty
    <3>2. Said(script) = Heard(message.opcode)
      BY <2>1, <3>1 DEF Remain
    <3> QED
      BY <3>2 DEF Heard
  <2>4. CASE frames # <<>>
    <3> DEFINE header == Header(Head(frames))
               tail == LongLength(Head(frames))
                          \o (Head(frames).payload \o EncodeAll(Tail(frames)))
    <3>1. header \in Seq(Symbols) /\ tail \in Seq(Symbols) /\ Len(header) = 2
      BY <1>1, <2>4, FrontOf
    <3>2. EncodeAll(frames) = header \o tail
      BY <1>1, <2>4, ScriptSuffixes, EncodeAllFirst DEF Typed
    <3> HIDE DEF header, tail
    <3>3. buffers \o wire = header \o tail
      BY <2>1, <3>2
    <3>4. Len(header) >= Needed
      BY <2>2, <3>1
    <3> QED
      BY <1>3, <3>1, <3>3, <3>4
  <2> QED
    BY <2>3, <2>4
<1>6. CASE InLength
  <2>1. PICK frames \in Suffixes(script) :
          /\ frames # <<>>
          /\ \/ at = "GET_PAYLOAD_LENGTH_16" /\ Head(frames).form = 16
             \/ at = "GET_PAYLOAD_LENGTH_64" /\ Head(frames).form = 64
          /\ buffers \o wire = LongLength(Head(frames))
                                \o (Head(frames).payload \o EncodeAll(Tail(frames)))
    BY <1>6 DEF InLength
  <2> DEFINE long == LongLength(Head(frames))
             rest == Head(frames).payload \o EncodeAll(Tail(frames))
  <2>2. Needed = Len(long)
    <3>1. CASE at = "GET_PAYLOAD_LENGTH_16"
      <4>1. Len(long) = 2
        BY <1>4, <2>1, <3>1
      <4> QED
        BY <3>1, <4>1 DEF Needed
    <3>2. CASE at = "GET_PAYLOAD_LENGTH_64"
      <4>1. Len(long) = 8
        BY <1>4, <2>1, <3>2
      <4> QED
        BY <3>2, <4>1 DEF Needed
    <3> QED
      BY <2>1, <3>1, <3>2
  <2>3. long \in Seq(Symbols) /\ rest \in Seq(Symbols) /\ buffers \o wire = long \o rest
    BY <1>1, <2>1, FrontOf
  <2> HIDE DEF long, rest
  <2>4. Len(long) >= Needed
    <3>1. Len(long) \in Nat
      BY <2>3, LenProperties
    <3> QED
      BY <2>2, <3>1
  <2> QED
    BY <1>3, <2>3, <2>4
<1>7. CASE InPayload
  <2>1. PICK frames \in Suffixes(script) :
          /\ frames # <<>> /\ frame.length = Len(Head(frames).payload)
          /\ buffers \o wire = Head(frames).payload \o EncodeAll(Tail(frames))
    BY <1>7 DEF InPayload
  <2>2. at = "GET_DATA"
    BY <1>7 DEF InPayload
  <2> DEFINE p == Head(frames).payload
             rest == EncodeAll(Tail(frames))
  <2>3. p \in Seq(Symbols) /\ rest \in Seq(Symbols)
    BY <1>1, <2>1, FrontOf
  <2>4. Needed = Len(p)
    BY <2>1, <2>2 DEF Needed
  <2>5. buffers \o wire = p \o rest
    BY <2>1
  <2> HIDE DEF p, rest
  <2>6. Len(p) >= Needed
    <3>1. Len(p) \in Nat
      BY <2>3, LenProperties
    <3> QED
      BY <2>4, <3>1
  <2> QED
    BY <1>3, <2>3, <2>5, <2>6
<1> QED
  BY <1>1, <1>5, <1>6, <1>7 DEF Placed

\* The owner gets the messages of the agent's frames, in order and unchanged, up to
\* the first error or close frame, wherever the network cuts the bytes; it gets all
\* of them once they have come, and no error or close that the frames do not make.
THEOREM MessagesIntactHolds == Spec => []MessagesIntact
<1>1. Core => MessagesIntact
  <2> SUFFICES ASSUME Core PROVE MessagesIntact
    OBVIOUS
  <2> DEFINE says == Said(script)
  <2>1. IsPrefix(delivered, says.messages)
    BY DeliveredBegins
  <2>2. /\ errored => says.end = "failed" /\ delivered = says.messages /\ ~received
        /\ received => says.end = "closed" /\ delivered = says.messages /\ ~errored
    BY DEF Core, Decoded
  <2>3. ~loop /\ ~thrown /\ ~errored /\ ~received /\ wire = <<>>
          => says.end = "open" /\ delivered = says.messages
    BY AllHeard
  <2>4. ASSUME ~loop, ~thrown, wire = <<>> \/ errored \/ received
        PROVE  /\ delivered = says.messages
               /\ errored <=> says.end = "failed"
               /\ received <=> says.end = "closed"
    <3> HIDE DEF says
    <3>1. errored \in BOOLEAN /\ received \in BOOLEAN
      BY DEF Core, Life, Flags
    <3> QED
      BY <2>2, <2>3, <2>4, <3>1
  <2> QED
    BY <2>1, <2>2, <2>4 DEF MessagesIntact
<1> QED
  BY <1>1, CoreHolds, PTL
=============================================================================
