------------------------------ MODULE Session -------------------------------
(***************************************************************************)
(* One WebSocket session of the agent: Handler.ServeHTTP and runSession    *)
(* with its reader goroutine, after the HTTP upgrade.                      *)
(*                                                                         *)
(* The reader hands messages to the main loop through the channel          *)
(* `incoming' and its one error through `errors'; `done' is closed when    *)
(* the main loop returns.  The client sends any messages, may stop reading *)
(* (a write then blocks) and may go away.  Time is left out: a ticker may  *)
(* fire whenever the main loop waits in its select.                        *)
(***************************************************************************)
EXTENDS Naturals, Sequences, FiniteSets

CONSTANTS
    Capabilities,  \* h.capabilities
    Supported,     \* supportedMetrics
    Requests,      \* the lists of names a client subscribes to, as sets
    Capacity,      \* capacity of the channel incoming
    MaxSent,       \* bound on the messages the client sends
    None           \* nil

ASSUME CapacityAssumption == Capacity \in Nat \ {0}
ASSUME SentAssumption     == MaxSent \in Nat

VARIABLES
    log,           \* what the client has sent
    broken,        \* the client is gone
    stalled,       \* the client does not read: writes block
    ready,         \* the store holds a snapshot
    read,          \* how many messages of log the agent has read
    reader,        \* the reader goroutine
    held,          \* the message it has in hand
    incoming,      \* the channel incoming
    errors,        \* an error waits in the channel errors
    main,          \* ServeHTTP, then runSession
    frame,         \* the frame being written
    subscription,  \* var subscription
    \* the variables below are read by properties only
    handled,       \* how many messages of log the main loop has taken
    acked, refused,\* hello_ack, or AUTH_FAILED, was written
    answers        \* how many pongs and error messages were begun

client  == <<log, broken, stalled, ready>>
thread  == <<read, reader, held, incoming, errors>>
serve   == <<main, frame, subscription, handled, acked, refused, answers>>
vars    == <<client, thread, serve>>

Message(type, names) == [type |-> type, names |-> names]

\* hello: with the right protocol, version and token (a wrong one is "other");
\* blank: without a type; malformed: not JSON.
Messages ==
    {Message(type, {}) : type \in {"hello", "ping", "blank", "other", "malformed"}}
        \cup {Message("subscribe", request) : request \in Requests}

Ack    == [type |-> "hello_ack", names |-> {}]
Denied == [type |-> "AUTH_FAILED", names |-> {}]
Answer(type) == [type |-> type, names |-> {}]
Push(names)  == [type |-> "metrics", names |-> names]

Frames ==
    {Ack, Denied}
        \cup {Answer(type) : type \in {"pong", "INVALID_SUBSCRIPTION", "INVALID_MESSAGE"}}
        \cup {Push(names) : names \in SUBSET (Capabilities \cup {"cpu", "memory"})}

ASSUME NoneAssumption ==
    /\ None \notin Messages /\ None \notin Frames
    /\ \A names \in Requests \cup SUBSET Capabilities : names # None

----------------------------------------------------------------------------
(* selectMetrics and filterSnapshot *)

\* Mutant: the agent's own capabilities are not asked.
SelectAny(names) == IF names \subseteq Supported THEN names ELSE None

\* The whole request is refused for one name the agent does not offer.
SelectMetrics(names) ==
    IF names \subseteq Supported \cap Capabilities THEN names ELSE None

\* CPU and memory are sent whatever was selected.
Filter(selected) == {"cpu", "memory"} \cup (Capabilities \cap selected)

----------------------------------------------------------------------------
(* The client and the store *)

Send ==
    /\ ~broken /\ Len(log) < MaxSent
    /\ \E m \in Messages : log' = Append(log, m)
    /\ UNCHANGED <<broken, stalled, ready, thread, serve>>

GoAway ==
    /\ ~broken
    /\ broken' = TRUE
    /\ UNCHANGED <<log, stalled, ready, thread, serve>>

StallOrResume ==
    /\ stalled' = ~stalled
    /\ UNCHANGED <<log, broken, ready, thread, serve>>

StoreIsReady ==
    /\ ~ready
    /\ ready' = TRUE
    /\ UNCHANGED <<log, broken, stalled, thread, serve>>

----------------------------------------------------------------------------
(* ServeHTTP *)

\* ReadJSON of the hello; an error of the read is refused like a bad hello.
ReadHello ==
    /\ main = "hello"
    /\ \/ /\ read < Len(log)
          /\ read' = read + 1 /\ handled' = handled + 1
          /\ frame' = IF log[read + 1].type = "hello" THEN Ack ELSE Denied
       \/ /\ broken
          /\ frame' = Denied
          /\ UNCHANGED <<read, handled>>
    /\ main' = "writing"
    /\ UNCHANGED <<client, reader, held, incoming, errors, subscription, acked,
                   refused, answers>>

\* Mutant: the handler does not return after AUTH_FAILED.
WrittenNoReturn ==
    /\ main = "writing" /\ (~stalled \/ broken)
    /\ frame' = None
    /\ main' = "select"
    /\ reader' = IF reader = "none" THEN "reading" ELSE reader
    /\ acked' = (acked \/ frame = Ack)
    /\ refused' = (refused \/ frame = Denied)
    /\ UNCHANGED <<client, read, held, incoming, errors, subscription, handled,
                   answers>>

\* The write returns.  After hello_ack runSession starts its reader.
Written ==
    /\ main = "writing" /\ (~stalled \/ broken)
    /\ frame' = None
    /\ main' = IF frame = Denied THEN "ended" ELSE "select"
    /\ reader' = IF frame = Ack THEN "reading" ELSE reader
    /\ acked' = (acked \/ frame = Ack)
    /\ refused' = (refused \/ frame = Denied)
    /\ UNCHANGED <<client, read, held, incoming, errors, subscription, handled,
                   answers>>

\* The write of any frame fails: the handler returns.
WriteFails ==
    /\ main = "writing" /\ broken
    /\ frame' = None
    /\ main' = "ended"
    /\ UNCHANGED <<client, thread, subscription, handled, acked, refused, answers>>

----------------------------------------------------------------------------
(* The reader goroutine *)

\* Mutant: a full channel loses the message.
ReaderDrops ==
    /\ reader = "holding"
    /\ incoming' = IF Len(incoming) < Capacity THEN Append(incoming, held)
                                               ELSE incoming
    /\ held' = None
    /\ reader' = "reading"
    /\ UNCHANGED <<client, read, errors, serve>>

\* Mutant: the reader ends without its error.
ReaderSilent ==
    /\ reader = "failing"
    /\ reader' = "ended"
    /\ UNCHANGED <<client, read, held, incoming, errors, serve>>

\* Mutant: the reader does not listen to done.
ReaderDeaf == FALSE /\ UNCHANGED vars

\* ReadJSON reads a message.
ReaderReads ==
    /\ reader = "reading" /\ main # "ended"
    /\ read < Len(log)
    /\ log[read + 1].type # "malformed"
    /\ read' = read + 1
    /\ held' = log[read + 1]
    /\ reader' = "holding"
    /\ UNCHANGED <<client, incoming, errors, serve>>

\* ReadJSON fails: bad JSON, the client is gone, or the connection was closed.
ReaderFails ==
    /\ reader = "reading"
    /\ \/ read < Len(log) /\ log[read + 1].type = "malformed"
       \/ broken
       \/ main = "ended"
    /\ reader' = "failing"
    /\ UNCHANGED <<client, read, held, incoming, errors, serve>>

\* incoming <- next
ReaderQueues ==
    /\ reader = "holding" /\ Len(incoming) < Capacity
    /\ incoming' = Append(incoming, held)
    /\ held' = None
    /\ reader' = "reading"
    /\ UNCHANGED <<client, read, errors, serve>>

\* errors <- err: the channel has room for the only error.
ReaderReports ==
    /\ reader = "failing"
    /\ errors' = TRUE
    /\ reader' = "ended"
    /\ UNCHANGED <<client, read, held, incoming, serve>>

\* <-done, in either select
ReaderIsDone ==
    /\ reader \in {"holding", "failing"} /\ main = "ended"
    /\ reader' = "ended"
    /\ held' = None
    /\ UNCHANGED <<client, read, incoming, errors, serve>>

----------------------------------------------------------------------------
(* The main loop's select *)

TakeError ==
    /\ main = "select" /\ errors
    /\ errors' = FALSE
    /\ main' = "ended"
    /\ UNCHANGED <<client, read, reader, held, incoming, frame, subscription,
                   handled, acked, refused, answers>>

\* connection.WriteJSON of an answer to the message taken
Respond(type) ==
    /\ frame' = Answer(type) /\ main' = "writing"
    /\ answers' = answers + 1

\* Mutant: the names of an invalid subscription that are known replace it.
SubscribePartly(m) ==
    /\ subscription' = m.names \cap Capabilities
    /\ IF SelectMetrics(m.names) = None
       THEN Respond("INVALID_SUBSCRIPTION")
       ELSE UNCHANGED <<frame, main, answers>>

\* An invalid subscription leaves the one before as it is.
Subscribe(m) ==
    IF SelectMetrics(m.names) = None
    THEN Respond("INVALID_SUBSCRIPTION") /\ UNCHANGED subscription
    ELSE /\ subscription' = SelectMetrics(m.names)
         /\ UNCHANGED <<frame, main, answers>>

\* Mutant: an unknown message ends the switch without an answer.
UnknownIgnored(m) == UNCHANGED <<frame, main, answers, subscription>>

Unknown(m) == Respond("INVALID_MESSAGE") /\ UNCHANGED subscription

TakeMessage ==
    /\ main = "select" /\ incoming # <<>>
    /\ incoming' = Tail(incoming)
    /\ handled' = handled + 1
    /\ LET m == Head(incoming)
       IN  CASE m.type = "ping"      -> Respond("pong") /\ UNCHANGED subscription
             [] m.type = "subscribe" -> Subscribe(m)
             [] m.type = "blank"     -> UNCHANGED <<frame, main, answers, subscription>>
             [] OTHER                -> Unknown(m)
    /\ UNCHANGED <<client, read, reader, held, errors, acked, refused>>

\* metricsTicker: nothing is sent before a subscription and a snapshot.
PushMetrics ==
    /\ main = "select"
    /\ subscription # None /\ ready
    /\ frame' = Push(Filter(subscription))
    /\ main' = "writing"
    /\ UNCHANGED <<client, thread, subscription, handled, acked, refused, answers>>

\* heartbeatTicker: a ping that cannot be written in 5 s ends the session; one
\* that can changes nothing here.
HeartbeatFails ==
    /\ main = "select" /\ (stalled \/ broken)
    /\ main' = "ended"
    /\ UNCHANGED <<client, thread, frame, subscription, handled, acked, refused,
                   answers>>

----------------------------------------------------------------------------
Init ==
    /\ log = <<>> /\ broken = FALSE /\ stalled = FALSE /\ ready = FALSE
    /\ read = 0 /\ reader = "none" /\ held = None /\ incoming = <<>>
    /\ errors = FALSE
    /\ main = "hello" /\ frame = None /\ subscription = None
    /\ handled = 0 /\ acked = FALSE /\ refused = FALSE /\ answers = 0

Client == Send \/ GoAway \/ StallOrResume \/ StoreIsReady

Reader == ReaderReads \/ ReaderFails \/ ReaderQueues \/ ReaderReports
              \/ ReaderIsDone

Main == ReadHello \/ Written \/ WriteFails \/ TakeError \/ TakeMessage
            \/ PushMetrics \/ HeartbeatFails

Next == Client \/ Reader \/ Main

Spec == Init /\ [][Next]_vars

(***************************************************************************)
(* Fairness.  The scheduler runs both goroutines.  Go's select picks among *)
(* its ready cases at random, so a message or an error that waits is taken *)
(* in the end however often another case is ready (strong fairness).  A    *)
(* client that is gone lets no write block.                                *)
(***************************************************************************)
FairSpec ==
    /\ Spec
    /\ WF_vars(Reader)
    /\ WF_vars(ReadHello) /\ WF_vars(Written \/ WriteFails)
    /\ SF_vars(TakeMessage) /\ SF_vars(TakeError)

----------------------------------------------------------------------------
(* Properties *)

\* Every variable has its type: the channel never exceeds its capacity and a
\* subscription never names what the agent does not offer.
TypeOK ==
    /\ log \in Seq(Messages) /\ Len(log) <= MaxSent
    /\ broken \in BOOLEAN /\ stalled \in BOOLEAN /\ ready \in BOOLEAN
    /\ read \in 0 .. Len(log) /\ handled \in 0 .. read
    /\ reader \in {"none", "reading", "holding", "failing", "ended"}
    /\ held \in Messages \cup {None}
    /\ incoming \in Seq(Messages) /\ Len(incoming) <= Capacity
    /\ errors \in BOOLEAN
    /\ main \in {"hello", "writing", "select", "ended"}
    /\ frame \in Frames \cup {None}
    /\ subscription \in (SUBSET Capabilities) \cup {None}
    /\ acked \in BOOLEAN /\ refused \in BOOLEAN
    /\ answers \in Nat

Holding == IF held = None THEN <<>> ELSE <<held>>

\* While the session lives the two goroutines pass every message on once and
\* in order: what the main loop has not taken is in the channel or in hand.
NothingLost ==
    main \in {"select", "writing"} =>
        SubSeq(log, handled + 1, read) = incoming \o Holding

Valid(m) == m.type = "subscribe" /\ m.names \subseteq Supported \cap Capabilities

\* A metrics frame carries CPU, memory and what the latest acceptable
\* subscription among the messages handled so far asked for: an invalid one in
\* between, or one still queued, has no effect.
PushedAsSubscribed ==
    frame # None /\ frame.type = "metrics" =>
        \E i \in 2 .. handled :
            /\ Valid(log[i])
            /\ \A j \in i + 1 .. handled : ~Valid(log[j])
            /\ frame.names = {"cpu", "memory"} \cup log[i].names

NeedsAnswer(m) ==
    m.type \in {"ping", "hello", "other"} \/ (m.type = "subscribe" /\ ~Valid(m))

\* Every ping, unknown message and unacceptable subscription the session has
\* handled was answered once; nothing else was.
AnsweredOnce ==
    acked => answers = Cardinality({i \in 2 .. handled : NeedsAnswer(log[i])})

\* Nothing is written to a client before its hello, only AUTH_FAILED to one
\* whose hello is not accepted, and nothing after that.
NothingBeforeHello ==
    /\ frame # None /\ frame \notin {Ack, Denied} => acked
    /\ acked => ~refused /\ Head(log).type = "hello"
    /\ refused => main = "ended" /\ reader = "none" /\ answers = 0

\* The reader goroutine never outlives its session for long.
ReaderEnds == main = "ended" ~> reader \in {"none", "ended"}

\* A session whose client is gone ends, whatever is queued or being written.
SessionEnds == broken ~> main = "ended"
=============================================================================
