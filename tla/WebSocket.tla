------------------------------ MODULE WebSocket ------------------------------
(***************************************************************************)
(* One client WebSocket object of ws, from the HTTP request to "close",    *)
(* with its Receiver, the raw socket below it and the code that owns it.   *)
(*                                                                         *)
(* The agent's frames (`script') cross the network as bytes; the network   *)
(* delivers any number of them at a time, and either side may end or break *)
(* the connection between any two bytes.  Ticks (process.nextTick) run     *)
(* before any other event, so events of the raw socket are enabled only    *)
(* when none is pending.  The messages the owner sends are left out: with  *)
(* deflate off, a send is a write to the raw socket and nothing else.      *)
(***************************************************************************)
EXTENDS Receiver

CONSTANTS
    Scripts,    \* the sequences of frames the agent may send
    HighWater   \* highWaterMark of the receiver's stream

ASSUME HighWaterAssumption == HighWater \in Nat \ {0}
ASSUME ScriptsAssumption   == Scripts \subseteq Seq(Frames)

VARIABLES
    script,        \* the frames of this connection
    wire,          \* the bytes of them not delivered yet
    readyState,    \* _readyState
    req,           \* the HTTP request: "pending", "aborted" or "done"
    socket,        \* the raw socket: "none", "open", "destroyed", "closed"
    listening,     \* socketOnData listens
    paused,        \* the raw socket is paused
    peerEnded,     \* "end": the other side will send nothing more
    weEnded,       \* socket.end() was called
    received,      \* _closeFrameReceived
    sent,          \* _closeFrameSent
    sending,       \* the close frame is being written
    closeTimer,    \* _closeTimer is pending
    \* the variables below are read by properties only
    closes,        \* how often "close" was emitted
    thrown         \* a listener of "message" threw

network   == <<script, wire>>
raw       == <<socket, listening, paused, peerEnded, weEnded>>
handshake == <<received, sent, sending, closeTimer>>
history   == <<closes, thrown>>
vars == <<receiver, network, readyState, req, raw, handshake, history>>

----------------------------------------------------------------------------
\* Every callback but the receiver's loop has returned, every tick has run.
ResumePending == paused /\ (~listening \/ ~writing)

Idle ==
    /\ ~loop /\ ~ErrorPending /\ ~FinishPending
    /\ ~ResumePending /\ req # "aborted"

EmitClose == readyState' = "CLOSED" /\ closes' = closes + 1

\* close(): over says that the other side's close frame, or an error, came.
Close(over) ==
    /\ readyState' = IF readyState \in {"CONNECTING", "OPEN"} THEN "CLOSING" ELSE readyState
    /\ req' = IF readyState = "CONNECTING" THEN "aborted" ELSE req
    /\ sending' = (sending \/ readyState = "OPEN")
    /\ closeTimer' = (closeTimer \/ readyState = "OPEN")
    /\ weEnded' = (weEnded \/ (readyState = "CLOSING" /\ sent /\ over))

----------------------------------------------------------------------------
(* The request *)

\* "upgrade" with the right headers: setSocket, then "open".
Upgrade ==
    /\ Idle /\ req = "pending" /\ req' = "done"
    /\ readyState' = "OPEN"
    /\ socket' = "open" /\ listening' = TRUE
    /\ UNCHANGED <<receiver, network, paused, peerEnded, weEnded, handshake, history>>

\* abortHandshake: another response, or an upgrade with a wrong header.
Rejected ==
    /\ Idle /\ req = "pending" /\ req' = "aborted"
    /\ readyState' = "CLOSING"
    /\ UNCHANGED <<receiver, network, raw, handshake, history>>

\* "error" of the request; after an abort it is ignored.
RequestError ==
    /\ Idle /\ req = "pending" /\ req' = "done"
    /\ EmitClose
    /\ UNCHANGED <<receiver, network, raw, handshake, thrown>>

\* emitErrorAndClose of an aborted request or emitClose of a rejected socket
Aborted ==
    /\ req = "aborted" /\ req' = "done"
    /\ EmitClose
    /\ UNCHANGED <<receiver, network, raw, handshake, thrown>>

----------------------------------------------------------------------------
(* The raw socket *)

\* socketOnData: a chunk at the high-water mark, or behind one that is stuck,
\* pauses the socket.
Chunk(n) ==
    /\ Idle /\ socket = "open" /\ listening /\ ~paused /\ ~peerEnded
    /\ Write(SubSeq(wire, 1, n))
    /\ wire' = SubSeq(wire, n + 1, Len(wire))
    /\ paused' = (unwritten + n >= HighWater)
    /\ UNCHANGED <<script, readyState, req, socket, listening, peerEnded, weEnded,
                   handshake, history>>

\* receiverOnDrain, or resume after the data listener was removed
Resume ==
    /\ ~loop /\ ResumePending
    /\ paused' = FALSE
    /\ UNCHANGED <<receiver, network, readyState, req, socket, listening,
                   peerEnded, weEnded, handshake, history>>

\* Mutant: socketOnEnd leaves the writable side open.
EndHalf ==
    /\ Idle /\ socket = "open" /\ ~paused /\ ~peerEnded
    /\ peerEnded' = TRUE
    /\ readyState' = "CLOSING"
    /\ ended' = TRUE
    /\ UNCHANGED <<decoder, loop, errored, writing, unwritten, finished,
                   errorEmitted, delivered, network, req, socket, listening,
                   paused, weEnded, handshake, history>>

\* socketOnEnd
End ==
    /\ Idle /\ socket = "open" /\ ~paused /\ ~peerEnded
    /\ peerEnded' = TRUE /\ weEnded' = TRUE
    /\ readyState' = "CLOSING"
    /\ ended' = TRUE
    /\ UNCHANGED <<decoder, loop, errored, writing, unwritten, finished,
                   errorEmitted, delivered, network, req, socket, listening,
                   paused, handshake, history>>

\* socketOnError
SocketError ==
    /\ Idle /\ socket = "open"
    /\ readyState' = "CLOSING"
    /\ socket' = "destroyed"
    /\ UNCHANGED <<receiver, network, req, listening, paused, peerEnded, weEnded,
                   handshake, history>>

\* Mutant: "close" is emitted without waiting for the receiver.
SocketClosedAtOnce ==
    /\ Idle
    /\ socket = "destroyed" \/ (socket = "open" /\ peerEnded /\ weEnded)
    /\ socket' = "closed" /\ listening' = FALSE
    /\ closeTimer' = FALSE
    /\ ended' = TRUE
    /\ EmitClose
    /\ UNCHANGED <<decoder, loop, errored, writing, unwritten, finished,
                   errorEmitted, delivered, network, req, paused, peerEnded,
                   weEnded, received, sent, sending, thrown>>

\* socketOnClose: destroyed, or ended by both sides.  Bytes the raw socket
\* still holds while it is paused go to a receiver that is stuck.
SocketClosed ==
    /\ Idle
    /\ socket = "destroyed" \/ (socket = "open" /\ peerEnded /\ weEnded)
    /\ socket' = "closed" /\ listening' = FALSE
    /\ closeTimer' = FALSE
    /\ ended' = TRUE
    /\ IF finished \/ errorEmitted
       THEN EmitClose
       ELSE readyState' = "CLOSING" /\ UNCHANGED closes
    /\ UNCHANGED <<decoder, loop, errored, writing, unwritten, finished,
                   errorEmitted, delivered, network, req, paused, peerEnded,
                   weEnded, received, sent, sending, thrown>>

----------------------------------------------------------------------------
(* The receiver *)

Decodes ==
    /\ Decode
    /\ UNCHANGED <<network, readyState, req, raw, handshake, history>>

\* receiverOnMessage: the owner's listener returns, or closes the socket, ...
Message ==
    /\ EmitMessage
    /\ \/ UNCHANGED <<readyState, req, weEnded, sending, closeTimer>>
       \/ Close(received)
    /\ UNCHANGED <<network, socket, listening, paused, peerEnded, received, sent,
                   history>>

\* ... or throws.
MessageThrows ==
    /\ EmitThrows
    /\ thrown' = TRUE
    /\ UNCHANGED <<network, readyState, req, raw, handshake, closes>>

\* receiverOnConclude: the other side's close frame is answered by ours.
Concludes ==
    /\ Conclude
    /\ received' = TRUE
    /\ listening' = FALSE
    /\ Close(TRUE)
    /\ UNCHANGED <<network, socket, paused, peerEnded, sent, history>>

\* receiverOnError
ReceiverError ==
    /\ EmitError
    /\ listening' = FALSE
    /\ Close(TRUE)
    /\ UNCHANGED <<network, socket, paused, peerEnded, received, sent, history>>

\* "finish": receiverOnFinish listens once the raw socket is closed.
ReceiverFinish ==
    /\ EmitFinish
    /\ IF socket = "closed" THEN EmitClose ELSE UNCHANGED <<readyState, closes>>
    /\ UNCHANGED <<network, req, raw, handshake, thrown>>

----------------------------------------------------------------------------
(* The owner, the close frame and its timer *)

\* The owner calls close().
OwnerCloses ==
    /\ Idle /\ readyState # "CLOSED"
    /\ Close(received \/ errorEmitted)
    /\ UNCHANGED <<receiver, network, socket, listening, paused, peerEnded,
                   received, sent, history>>

\* The callback of the close frame's write
CloseWritten ==
    /\ ~loop /\ sending /\ socket = "open"
    /\ sending' = FALSE /\ sent' = TRUE
    /\ weEnded' = (weEnded \/ received \/ errorEmitted)
    /\ UNCHANGED <<receiver, network, readyState, req, socket, listening, paused,
                   peerEnded, received, closeTimer, history>>

\* setCloseTimer: 30 s after close()
CloseTimerFires ==
    /\ Idle /\ closeTimer /\ closeTimer' = FALSE
    /\ socket' = "destroyed"
    /\ UNCHANGED <<receiver, network, readyState, req, listening, paused,
                   peerEnded, weEnded, received, sent, sending, history>>

----------------------------------------------------------------------------
Init ==
    /\ ReceiverInit
    /\ script \in Scripts
    /\ wire = EncodeAll(script)
    /\ readyState = "CONNECTING"
    /\ req = "pending"
    /\ socket = "none" /\ listening = FALSE /\ paused = FALSE
    /\ peerEnded = FALSE /\ weEnded = FALSE
    /\ received = FALSE /\ sent = FALSE /\ sending = FALSE /\ closeTimer = FALSE
    /\ closes = 0 /\ thrown = FALSE

Request == Upgrade \/ Rejected \/ RequestError
Socket  == (\E n \in 1 .. Len(wire) : Chunk(n)) \/ End \/ SocketError \/ SocketClosed
Loop    == Decodes \/ Message \/ MessageThrows \/ Concludes
Ticks   == Aborted \/ Resume \/ ReceiverError \/ ReceiverFinish
Owner   == OwnerCloses \/ CloseWritten \/ CloseTimerFires

Next == Request \/ Socket \/ Loop \/ Ticks \/ Owner

Spec == Init /\ [][Next]_vars

(***************************************************************************)
(* Fairness.  A turn of Node ends and its ticks run; the timer fires; a    *)
(* raw socket that was destroyed or ended by both sides is closed.  The    *)
(* agent need not send, answer, read or end anything.                      *)
(***************************************************************************)
Fairness == WF_vars(Loop) /\ WF_vars(Ticks)
                /\ WF_vars(CloseTimerFires) /\ WF_vars(SocketClosed)

FairSpec == Spec /\ Fairness

----------------------------------------------------------------------------
(* Properties *)

\* Every variable has its type; the fragments kept for a message never exceed
\* maxPayload, in however many frames they came.
TypeOK ==
    /\ script \in Scripts
    /\ at \in {"GET_INFO", "GET_PAYLOAD_LENGTH_16", "GET_PAYLOAD_LENGTH_64", "GET_DATA"}
    /\ frame.fin \in BOOLEAN /\ frame.opcode \in {0} \cup DataOps \cup ControlOps
    /\ frame.length \in Nat
    /\ message.opcode \in {0} \cup DataOps
    /\ Len(message.data) <= message.length
    /\ ~errored => message.length <= MaxPayload
    /\ loop \in BOOLEAN /\ errored \in BOOLEAN /\ writing \in BOOLEAN
    /\ unwritten \in Nat
    /\ ended \in BOOLEAN /\ finished \in BOOLEAN /\ errorEmitted \in BOOLEAN
    /\ readyState \in {"CONNECTING", "OPEN", "CLOSING", "CLOSED"}
    /\ req \in {"pending", "aborted", "done"}
    /\ socket \in {"none", "open", "destroyed", "closed"}
    /\ listening \in BOOLEAN /\ paused \in BOOLEAN
    /\ peerEnded \in BOOLEAN /\ weEnded \in BOOLEAN
    /\ received \in BOOLEAN /\ sent \in BOOLEAN /\ sending \in BOOLEAN
    /\ closeTimer \in BOOLEAN
    /\ closes \in Nat /\ thrown \in BOOLEAN

\* Wherever the network cuts the bytes, and whatever control frames come
\* between fragments, the owner gets the messages the agent's frames say, in
\* order, up to the first error or close frame; it gets all of them once they
\* have come, and the receiver fails or concludes only where the frames do.
MessagesIntact ==
    LET says == Said(script)
    IN  /\ IsPrefix(delivered, says.messages)
        /\ errored => says.end = "failed"
        /\ received => says.end = "closed"
        /\ ~loop /\ ~thrown /\ (wire = <<>> \/ errored \/ received)
             => /\ delivered = says.messages
                /\ errored <=> says.end = "failed"
                /\ received <=> says.end = "closed"

Contract == INSTANCE SocketContract WITH
    messages <- delivered, deaf <- thrown

\* The socket keeps what AgentConnection relies on: it opens once, emits no
\* message before "open" or after "close", emits "close" once, and one that is
\* closing is closed in the end unless a listener of "message" threw.
FairContractHolds == Contract!FairSpec

\* The safety part of the contract
ContractHolds == Contract!Spec

----------------------------------------------------------------------------
(* What makes the steps above steps of the contract *)

\* The request, the raw socket and readyState tell the same story.
Stages ==
    /\ req = "pending" <=> readyState = "CONNECTING"
    /\ req = "aborted" => readyState = "CLOSING"
    /\ req # "done" => socket = "none"
    /\ req = "done" /\ socket = "none" => readyState = "CLOSED"
    /\ socket = "open" => readyState \in {"OPEN", "CLOSING"}
    /\ socket = "destroyed" => readyState = "CLOSING"
    /\ closeTimer => socket \in {"open", "destroyed"} /\ readyState = "CLOSING"

\* Once the raw socket is closed, "close" waits for the receiver's last event.
LastEvent ==
    socket = "closed" =>
        /\ readyState = IF finished \/ errorEmitted THEN "CLOSED" ELSE "CLOSING"
        /\ errored => errorEmitted

\* Frames are decoded while the raw socket is open and nothing has failed; a
\* listener that threw has left the write it was called from unfinished.
Decoding ==
    /\ loop => socket = "open" /\ writing /\ ~errored
    /\ thrown => writing /\ ~loop
    /\ errored => socket # "none"
    /\ errorEmitted => errored /\ ~listening

ClosedOnce == closes = IF readyState = "CLOSED" THEN 1 ELSE 0

Life ==
    /\ readyState \in {"CONNECTING", "OPEN", "CLOSING", "CLOSED"}
    /\ req \in {"pending", "aborted", "done"}
    /\ socket \in {"none", "open", "destroyed", "closed"}
    /\ loop \in BOOLEAN /\ writing \in BOOLEAN /\ errored \in BOOLEAN
    /\ finished \in BOOLEAN /\ errorEmitted \in BOOLEAN
    /\ thrown \in BOOLEAN /\ closeTimer \in BOOLEAN
    /\ Stages /\ LastEvent /\ Decoding /\ ClosedOnce
----------------------------------------------------------------------------
(* What makes the messages those of the frames *)

\* What has been heard, if the message under way was `opcode' so far
Heard(opcode) ==
    [end |-> "open", opcode |-> opcode, data |-> message.data, messages |-> delivered]

\* With what the frames say, that is all the script says.
Remain(frames, opcode) ==
    frames \in Suffixes(script) /\ HearAll(Heard(opcode), frames) = Said(script)

\* What getInfo lets pass of a frame, the message `opcode' being open
Passed(f, opcode) ==
    /\ ~f.rsv /\ ~f.masked
    /\ \/ f.opcode = 0 /\ opcode # 0
       \/ f.opcode \in DataOps /\ opcode = 0
       \/ f.opcode \in ControlOps /\ f.fin /\ f.form = 7
    /\ ~(f.opcode = CloseOp /\ Len(f.payload) = 1)

\* The next frame is f, which has passed; the message was `opcode' before it.
Begun(f, opcode) ==
    /\ Passed(f, opcode)
    /\ frame.fin = f.fin
    /\ frame.opcode = IF f.opcode = 0 THEN opcode ELSE f.opcode
    /\ message.opcode = IF f.fin \/ opcode # 0 THEN opcode ELSE f.opcode

BetweenFrames ==
    /\ at = "GET_INFO"
    /\ message.length = Len(message.data)
    /\ \E frames \in Suffixes(script) :
        Remain(frames, message.opcode) /\ buffers \o wire = EncodeAll(frames)

InLength ==
    /\ message.length = Len(message.data)
    /\ \E frames \in Suffixes(script), opcode \in {0} \cup DataOps :
        /\ Remain(frames, opcode)
        /\ frames # <<>> /\ Begun(Head(frames), opcode)
        /\ \/ at = "GET_PAYLOAD_LENGTH_16" /\ Head(frames).form = 16
           \/ at = "GET_PAYLOAD_LENGTH_64" /\ Head(frames).form = 64
        /\ buffers \o wire = LongLength(Head(frames))
                              \o (Head(frames).payload \o EncodeAll(Tail(frames)))

InPayload ==
    /\ at = "GET_DATA"
    /\ \E frames \in Suffixes(script), opcode \in {0} \cup DataOps :
        /\ Remain(frames, opcode)
        /\ frames # <<>> /\ Begun(Head(frames), opcode) /\ Head(frames).high = 0
        /\ frame.length = Len(Head(frames).payload)
        /\ message.length = Len(message.data) +
              IF Head(frames).opcode \in ControlOps THEN 0 ELSE frame.length
        /\ buffers \o wire = Head(frames).payload \o EncodeAll(Tail(frames))

\* The decoder is at the place of the script that its state and the bytes left
\* tell, unless a listener threw, or it failed or concluded where the script does.
Decoded ==
    LET says == Said(script)
    IN  \/ /\ ~thrown /\ ~errored /\ ~received
           /\ BetweenFrames \/ InLength \/ InPayload
        \/ /\ thrown /\ ~errored /\ ~received
           /\ IsPrefix(delivered, says.messages)
        \/ /\ errored /\ ~thrown /\ ~received
           /\ says.end = "failed" /\ delivered = says.messages
        \/ /\ received /\ ~thrown /\ ~errored
           /\ says.end = "closed" /\ delivered = says.messages

\* Between turns no write is under way, and the bytes left do not suffice; bytes
\* come only to a receiver that has neither failed nor concluded.
Starved ==
    /\ writing => loop \/ thrown
    /\ received => ~listening /\ ~loop /\ socket # "none"
    /\ loop \/ thrown \/ errored \/ received \/ Len(buffers) < Needed
=============================================================================
