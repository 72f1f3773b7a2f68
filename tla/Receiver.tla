------------------------------ MODULE Receiver -------------------------------
(***************************************************************************)
(* The frame decoder of ws, on the client's side: the class Receiver, and  *)
(* what it uses of the Writable stream it extends.                         *)
(*                                                                         *)
(* The socket hands bytes over in chunks that may end anywhere.  One chunk *)
(* is decoded in one turn of Node: `loop' is TRUE from the write to the    *)
(* end of the loop, and each round of the loop is one action here.  The    *)
(* two bytes that begin a frame are records of their bit fields.  Deflate  *)
(* is not negotiated with the agent, so RSV1 is a reserved bit too, and    *)
(* events are synchronous: the states GET_MASK, INFLATING and DEFER_EVENT  *)
(* are never entered.                                                      *)
(***************************************************************************)
EXTENDS Naturals, Sequences, SequencesExt

CONSTANTS
    Bytes,       \* bytes of payloads
    IsUTF8(_),   \* isValidUTF8
    IsStatus(_), \* isValidStatusCode, of the first two bytes of a close frame
    MaxPayload,  \* maxPayload, an integer of 32 bits
    Word,        \* 2^32
    MaxHigh      \* 2^21 - 1: lengths above 2^53 - 1 are not integers any more

ASSUME PayloadAssumption == MaxPayload \in Nat \ {0}
ASSUME WordAssumption    == Word \in Nat /\ MaxPayload < Word /\ MaxHigh \in Nat

VARIABLES
    buffers,      \* _buffers, joined: bytes not decoded yet
    at,           \* _state
    frame,        \* _fin, _opcode, _payloadLength
    message,      \* _fragmented, _totalPayloadLength and _fragments, joined
    loop,         \* _loop
    errored,      \* _errored
    writing,      \* a write's callback has not been called
    unwritten,    \* length of the stream's queue, with the write under way
    ended,        \* end() was called
    finished,     \* "finish" was emitted
    errorEmitted, \* "error" was emitted
    delivered     \* every message emitted

decoder  == <<buffers, at, frame, message>>
stream   == <<ended, finished, errorEmitted>>
receiver == <<decoder, loop, errored, writing, unwritten, stream, delivered>>

Text == 1
Binary == 2
CloseOp == 8
Ping == 9
Pong == 10

DataOps    == {Text, Binary}
ControlOps == {CloseOp, Ping, Pong}

NoFrame   == [fin |-> FALSE, opcode |-> 0, length |-> 0]
NoMessage == [opcode |-> 0, length |-> 0, data |-> <<>>]

----------------------------------------------------------------------------
\* createError and cb(error): the stream emits the error in a later tick.
Fail ==
    /\ loop' = FALSE /\ errored' = TRUE
    /\ writing' = FALSE /\ unwritten' = 0

\* The loop ends and cb() is called.
Finish ==
    /\ loop' = FALSE
    /\ writing' = FALSE /\ unwritten' = 0
    /\ UNCHANGED errored

GoOn == UNCHANGED <<loop, errored, writing, unwritten>>

\* How many bytes the present state waits for.
Needed ==
    CASE at = "GET_PAYLOAD_LENGTH_64" -> 8
      [] at = "GET_DATA"              -> frame.length
      [] OTHER                        -> 2

Round(state) == loop /\ at = state /\ Len(buffers) >= Needed

\* consume(n), whatever chunks the bytes came in
Consume == buffers' = SubSeq(buffers, Needed + 1, Len(buffers))

\* _write: a second chunk waits while the callback of the first is not called.
Write(chunk) ==
    /\ unwritten' = unwritten + Len(chunk)
    /\ IF writing
       THEN UNCHANGED <<buffers, loop, writing>>
       ELSE buffers' = buffers \o chunk /\ loop' = TRUE /\ writing' = TRUE
    /\ UNCHANGED <<at, frame, message, errored, stream, delivered>>

\* The bytes do not suffice: the loop ends until the next chunk.
Starve ==
    /\ loop /\ Len(buffers) < Needed
    /\ Finish
    /\ UNCHANGED <<decoder, stream, delivered>>

----------------------------------------------------------------------------
(* Rounds of the loop *)

\* Mutants: the sum is that of the frame only; a fragment is checked alone.
HaveLengthAlone(f, m) ==
    LET total == IF f.opcode < CloseOp THEN f.length ELSE m.length
    IN  /\ frame' = f
        /\ message' = [m EXCEPT !.length = total]
        /\ IF total > MaxPayload
           THEN Fail /\ UNCHANGED at
           ELSE at' = "GET_DATA" /\ GoOn

\* haveLength, of the frame f that goes on with the message m
HaveLength(f, m) ==
    LET total == m.length + IF f.opcode < CloseOp THEN f.length ELSE 0
    IN  /\ frame' = f
        /\ message' = [m EXCEPT !.length = total]
        /\ IF total > MaxPayload
           THEN Fail /\ UNCHANGED at
           ELSE at' = "GET_DATA" /\ GoOn

\* The tests of getInfo; a client accepts no masked frame.
Malformed(first, second) ==
    \/ first.rsv \/ second.masked
    \/ first.opcode \notin {0} \cup DataOps \cup ControlOps
    \/ first.opcode = 0 /\ message.opcode = 0
    \/ first.opcode \in DataOps /\ message.opcode # 0
    \/ first.opcode \in ControlOps /\ (~first.fin \/ second.length > 125)
    \/ first.opcode = CloseOp /\ second.length = 1

\* getInfo: a continuation takes the opcode of the message it goes on with.
GetInfo ==
    /\ Round("GET_INFO") /\ Consume
    /\ LET first  == buffers[1]
           second == buffers[2]
           opcode == IF first.opcode = 0 THEN message.opcode ELSE first.opcode
           f == [fin |-> first.fin, opcode |-> opcode, length |-> second.length]
           m == IF first.fin \/ message.opcode # 0 THEN message
                ELSE [message EXCEPT !.opcode = opcode]
           extended == CASE second.length = 126 -> "GET_PAYLOAD_LENGTH_16"
                         [] second.length = 127 -> "GET_PAYLOAD_LENGTH_64"
                         [] OTHER               -> "GET_DATA"
       IN  IF Malformed(first, second)
           THEN Fail /\ UNCHANGED <<at, frame, message>>
           ELSE IF extended = "GET_DATA" THEN HaveLength(f, m)
           ELSE at' = extended /\ frame' = f /\ message' = m /\ GoOn
    /\ UNCHANGED <<stream, delivered>>

GetPayloadLength16 ==
    /\ Round("GET_PAYLOAD_LENGTH_16") /\ Consume
    /\ HaveLength([frame EXCEPT !.length = 256 * buffers[1] + buffers[2]], message)
    /\ UNCHANGED <<stream, delivered>>

\* Of the eight bytes the first holds the high word and the fifth the low one.
GetPayloadLength64 ==
    /\ Round("GET_PAYLOAD_LENGTH_64") /\ Consume
    /\ IF buffers[1] > MaxHigh
       THEN Fail /\ UNCHANGED <<at, frame, message>>
       ELSE HaveLength([frame EXCEPT !.length = Word * buffers[1] + buffers[5]],
                       message)
    /\ UNCHANGED <<stream, delivered>>

\* The payload of the frame, once all of it has come
Payload == SubSeq(buffers, 1, frame.length)

\* getData and dataMessage: a frame that does not end its message
Fragment ==
    /\ Round("GET_DATA") /\ frame.opcode \in DataOps /\ ~frame.fin
    /\ Consume
    /\ message' = [message EXCEPT !.data = @ \o Payload]
    /\ at' = "GET_INFO"
    /\ GoOn
    /\ UNCHANGED <<frame, stream, delivered>>

\* Mutant: a message ends without its fragments being reset.
WholeUnreset ==
    /\ Round("GET_DATA") /\ frame.opcode \in DataOps /\ frame.fin
    /\ Consume
    /\ message' = [message EXCEPT !.opcode = 0, !.length = 0]

\* ... and the frame that does
Whole ==
    /\ Round("GET_DATA") /\ frame.opcode \in DataOps /\ frame.fin
    /\ Consume
    /\ message' = NoMessage

Data == message.data \o Payload

Undecodable == frame.opcode = Text /\ ~IsUTF8(Data)

\* The text is not UTF-8: that is asked of the whole message only.
InvalidText ==
    /\ Whole /\ Undecodable
    /\ Fail
    /\ UNCHANGED <<at, frame, stream, delivered>>

Emit ==
    /\ Whole /\ ~Undecodable
    /\ delivered' = Append(delivered, [opcode |-> frame.opcode, data |-> Data])
    /\ UNCHANGED <<frame, stream>>

\* "message": its listeners return, or one throws, which unwinds the turn: the
\* state is not set and cb() is never called.
EmitMessage == Emit /\ at' = "GET_INFO" /\ GoOn
EmitThrows  == Emit /\ loop' = FALSE /\ UNCHANGED <<at, errored, writing, unwritten>>

\* controlMessage: "ping" and "pong"; the pong is a write that changes nothing.
PingOrPong ==
    /\ Round("GET_DATA") /\ frame.opcode \in {Ping, Pong}
    /\ Consume
    /\ at' = "GET_INFO"
    /\ GoOn
    /\ UNCHANGED <<frame, message, stream, delivered>>

InvalidClose ==
    /\ frame.length > 0
    /\ \/ ~IsStatus(SubSeq(Payload, 1, 2))
       \/ ~IsUTF8(SubSeq(Payload, 3, frame.length))

BadClose ==
    /\ Round("GET_DATA") /\ frame.opcode = CloseOp /\ InvalidClose
    /\ Consume
    /\ Fail
    /\ UNCHANGED <<at, frame, message, stream, delivered>>

\* "conclude", then end(): nothing behind the close frame is decoded.
Conclude ==
    /\ Round("GET_DATA") /\ frame.opcode = CloseOp /\ ~InvalidClose
    /\ Consume
    /\ at' = "GET_INFO"
    /\ Finish
    /\ ended' = TRUE
    /\ UNCHANGED <<frame, message, finished, errorEmitted, delivered>>

\* The rounds that emit nothing the WebSocket listens to
Decode == Starve \/ GetInfo \/ GetPayloadLength16 \/ GetPayloadLength64
              \/ Fragment \/ InvalidText \/ PingOrPong \/ BadClose

----------------------------------------------------------------------------
(* Ticks: what the stream emits before the next event of the socket *)

ErrorPending  == ~loop /\ errored /\ ~errorEmitted
FinishPending == ~loop /\ ended /\ ~writing /\ ~errored /\ ~finished

EmitError ==
    /\ ErrorPending
    /\ errorEmitted' = TRUE
    /\ UNCHANGED <<decoder, loop, errored, writing, unwritten, ended, finished,
                   delivered>>

EmitFinish ==
    /\ FinishPending
    /\ finished' = TRUE
    /\ UNCHANGED <<decoder, loop, errored, writing, unwritten, ended,
                   errorEmitted, delivered>>

ReceiverInit ==
    /\ buffers = <<>> /\ at = "GET_INFO"
    /\ frame = NoFrame /\ message = NoMessage
    /\ loop = FALSE /\ errored = FALSE
    /\ writing = FALSE /\ unwritten = 0
    /\ ended = FALSE /\ finished = FALSE /\ errorEmitted = FALSE
    /\ delivered = <<>>

----------------------------------------------------------------------------
(* The reference: what a sequence of frames says, frame by frame *)

\* A frame as its sender means it; `form' is how its length is written.
Frame(fin, opcode, form, payload) ==
    [fin |-> fin, opcode |-> opcode, rsv |-> FALSE, masked |-> FALSE,
     form |-> form, high |-> 0, payload |-> payload]

\* A length is written in seven bits, two bytes or eight; only the last form
\* has a high word.  A server chooses it, and need not choose the shortest.
Fits(f) ==
    /\ f.form = 7  => Len(f.payload) < 126
    /\ f.form = 16 => Len(f.payload) < 65536
    /\ f.form = 64 => Len(f.payload) < Word
    /\ f.form # 64 => f.high = 0

Frames ==
    {f \in [fin : BOOLEAN, opcode : 0 .. 15, rsv : BOOLEAN, masked : BOOLEAN,
            form : {7, 16, 64}, high : Nat, payload : Seq(Bytes)] : Fits(f)}

TwoBytes(n) == <<n \div 256, n % 256>>

\* What is in the seven bits, and the bytes that hold the length if they do not
ShortLength(f) ==
    CASE f.form = 7 -> Len(f.payload) [] f.form = 16 -> 126 [] f.form = 64 -> 127

LongLength(f) ==
    CASE f.form = 7  -> <<>>
      [] f.form = 16 -> TwoBytes(Len(f.payload))
      [] f.form = 64 -> <<f.high, 0, 0, 0, Len(f.payload), 0, 0, 0>>

Encode(f) ==
    <<[fin |-> f.fin, rsv |-> f.rsv, opcode |-> f.opcode],
      [masked |-> f.masked, length |-> ShortLength(f)]>> \o LongLength(f) \o f.payload

EncodeAll(frames) == FlattenSeq([i \in DOMAIN frames |-> Encode(frames[i])])

\* The frames RFC 6455 lets a server send while the message `opcode' is open
Allowed(f, opcode) ==
    /\ ~f.rsv /\ ~f.masked /\ f.high = 0
    /\ \/ f.opcode = 0 /\ opcode # 0
       \/ f.opcode \in DataOps /\ opcode = 0
       \/ f.opcode \in {Ping, Pong} /\ f.fin /\ f.form = 7
       \/ /\ f.opcode = CloseOp /\ f.fin /\ f.form = 7
          /\ \/ f.payload = <<>>
             \/ /\ Len(f.payload) > 1
                /\ IsStatus(SubSeq(f.payload, 1, 2))
                /\ IsUTF8(SubSeq(f.payload, 3, Len(f.payload)))

\* A message of the opcode kind goes on with the frame f, or ends with it.
Extend(said, f, kind, data) ==
    CASE Len(data) > MaxPayload -> [said EXCEPT !.end = "failed"]
      [] Len(data) <= MaxPayload /\ ~f.fin ->
           [said EXCEPT !.opcode = kind, !.data = data]
      [] Len(data) <= MaxPayload /\ f.fin /\ kind = Text /\ ~IsUTF8(data) ->
           [said EXCEPT !.end = "failed"]
      [] OTHER -> [end |-> "open", opcode |-> 0, data |-> <<>>,
                   messages |-> Append(said.messages,
                                       [opcode |-> kind, data |-> data])]

Hear(said, f) ==
    CASE said.end # "open" -> said
      [] said.end = "open" /\ ~Allowed(f, said.opcode) ->
           [said EXCEPT !.end = "failed"]
      [] said.end = "open" /\ Allowed(f, said.opcode) /\ f.opcode = CloseOp ->
           [said EXCEPT !.end = "closed"]
      [] said.end = "open" /\ Allowed(f, said.opcode) /\ f.opcode \in {Ping, Pong} ->
           said
      [] OTHER -> Extend(said, f, IF f.opcode = 0 THEN said.opcode ELSE f.opcode,
                         said.data \o f.payload)

\* What the frames say behind what was heard before them
HearAll(heard, frames) ==
    LET said[k \in 0 .. Len(frames)] ==
            IF k = 0 THEN heard ELSE Hear(said[k - 1], frames[k])
    IN  said[Len(frames)]

Said(frames) ==
    HearAll([end |-> "open", opcode |-> 0, data |-> <<>>, messages |-> <<>>], frames)
=============================================================================
