---------------------------- MODULE SessionProofs -----------------------------
(***************************************************************************)
(* Theorems about a session for every client, every list of capabilities   *)
(* and every capacity of the channel.  Inv is inductive: Stage says which  *)
(* variables the main loop has touched when, Lined that the channel and    *)
(* the reader's hand continue the log where the main loop is, Readable     *)
(* that they can be handled, Current what the subscription follows from,   *)
(* and Filtered that a push on its way still follows it.                   *)
(***************************************************************************)
EXTENDS Session, SequenceTheorems, FiniteSetTheorems, TLAPS

\* Where ServeHTTP and runSession are, and what they have written by then.
Stage ==
    /\ main = "writing" <=> frame # None
    /\ reader = "none" <=> ~acked
    /\ reader = "holding" <=> held # None
    /\ main = "hello" => ~acked /\ ~refused /\ read = 0 /\ handled = 0
    /\ main = "select" => acked
    /\ main = "writing" => (acked <=> frame \notin {Ack, Denied})
    /\ ~acked => incoming = <<>> /\ answers = 0 /\ subscription = None
                 /\ handled = read
    /\ frame = Ack => handled = 1 /\ log[1].type = "hello"
    /\ acked => handled >= 1 /\ log[1].type = "hello"
    /\ refused => main = "ended" /\ ~acked

\* The message in hand was read last; those in the channel follow each other.
Lined ==
    main # "ended" =>
        /\ read = handled + Len(incoming) + (IF held = None THEN 0 ELSE 1)
        /\ \A i \in 1 .. Len(incoming) : incoming[i] = log[handled + i]
        /\ held # None => held = log[read]

\* The subscription is the latest acceptable one among the messages handled.
Current ==
    acked =>
        \/ /\ subscription = None
           /\ \A i \in 2 .. handled : ~Valid(log[i])
        \/ \E i \in 2 .. handled :
               /\ Valid(log[i])
               /\ \A j \in i + 1 .. handled : ~Valid(log[j])
               /\ subscription = log[i].names

\* What is pushed is filtered by the subscription, which stays while it is written.
Filtered ==
    frame # None /\ frame.type = "metrics" =>
        acked /\ subscription # None /\ frame.names = Filter(subscription)

\* The messages handled so far that call for an answer.
Calls == {i \in 2 .. handled : NeedsAnswer(log[i])}

\* What is not JSON ends the reader: it is never passed on.
Readable == acked => \A i \in 2 .. read : log[i].type # "malformed"

Safe == TypeOK /\ Stage /\ Lined

Inv == Safe /\ Readable /\ Current /\ Filtered /\ AnsweredOnce

----------------------------------------------------------------------------
(* Lemmas *)

\* Messages and frames are told apart by their types.
LEMMA FrameTypes ==
    /\ Ack \in Frames /\ Denied \in Frames /\ Ack # Denied
    /\ \A type \in {"pong", "INVALID_SUBSCRIPTION", "INVALID_MESSAGE"} :
          Answer(type) \in Frames \ {Ack, Denied}
    /\ \A names \in SUBSET (Capabilities \cup {"cpu", "memory"}) :
          Push(names) \in Frames \ {Ack, Denied}
    /\ None \notin Frames
  BY NoneAssumption DEF Frames, Ack, Denied, Answer, Push

\* An acceptable subscription is one selectMetrics() lets through.
LEMMA SelectIs ==
    ASSUME NEW m \in Messages, m.type = "subscribe"
    PROVE  /\ m.names \in Requests
           /\ Valid(m) => SelectMetrics(m.names) = m.names /\ m.names \in SUBSET Capabilities
                          /\ SelectMetrics(m.names) # None
           /\ ~Valid(m) => SelectMetrics(m.names) = None
<1>1. m.names \in Requests
  BY DEF Messages, Message
<1>2. m.names # None
  BY <1>1, NoneAssumption
<1> QED
  BY <1>1, <1>2 DEF Valid, SelectMetrics

\* The log only grows.
LEMMA LogGrows ==
    ASSUME log \in Seq(Messages), NEW m \in Messages, log' = Append(log, m)
    PROVE  /\ log' \in Seq(Messages) /\ Len(log') = Len(log) + 1
           /\ \A i \in 1 .. Len(log) : log'[i] = log[i]
  BY AppendProperties

----------------------------------------------------------------------------
(* Types, stages and the order of messages *)

LEMMA SafeInit == Init => Safe
<1> SUFFICES ASSUME Init PROVE Safe
  OBVIOUS
<1>1. None # Ack /\ <<>> \in Seq(Messages) /\ Len(<<>>) = 0
  BY FrameTypes
<1>2. TypeOK
  <2>1. /\ log \in Seq(Messages) /\ Len(log) = 0
        /\ incoming \in Seq(Messages) /\ Len(incoming) = 0
    BY <1>1 DEF Init
  <2>2. 0 <= MaxSent /\ 0 <= Capacity
    BY SentAssumption, CapacityAssumption
  <2>3. read \in 0 .. Len(log) /\ handled \in 0 .. read /\ answers \in Nat
    BY <2>1 DEF Init
  <2>4. /\ broken \in BOOLEAN /\ stalled \in BOOLEAN /\ ready \in BOOLEAN
        /\ errors \in BOOLEAN /\ acked \in BOOLEAN /\ refused \in BOOLEAN
    BY DEF Init
  <2>5. /\ held = None /\ frame = None /\ subscription = None
        /\ reader = "none" /\ main = "hello"
    BY DEF Init
  <2>6. Len(log) <= MaxSent /\ Len(incoming) <= Capacity
    BY <2>1, <2>2
  <2> QED
    BY <2>1, <2>3, <2>4, <2>5, <2>6 DEF TypeOK
<1>3. Stage
  BY <1>1 DEF Init, Stage
<1>4. Lined
  BY <1>1 DEF Init, Lined
<1> QED
  BY <1>2, <1>3, <1>4 DEF Safe

LEMMA ClientStep == ASSUME Safe, Client PROVE Safe'
<1>1. CASE Send
  <2>1. PICK m \in Messages : log' = Append(log, m)
    BY <1>1 DEF Send
  <2>2. /\ log' \in Seq(Messages) /\ Len(log') = Len(log) + 1
        /\ \A i \in 1 .. Len(log) : log'[i] = log[i]
    BY <2>1, LogGrows DEF Safe, TypeOK
  <2>3. UNCHANGED <<broken, stalled, ready, thread, serve>> /\ Len(log) < MaxSent
    BY <1>1 DEF Send
  <2>4. TypeOK'
    BY <2>2, <2>3, SentAssumption DEF Safe, TypeOK, thread, serve
  <2>5. Stage'
    BY <2>2, <2>3 DEF Safe, TypeOK, Stage, thread, serve
  <2>6. Lined'
    <3>1. /\ UNCHANGED <<main, read, handled, incoming, held>>
          /\ read \in 0 .. Len(log) /\ handled \in 0 .. read
          /\ Len(incoming) \in Nat /\ Len(log) \in Nat
      BY <2>3 DEF Safe, TypeOK, thread, serve
    <3> SUFFICES ASSUME main # "ended" PROVE Lined'
      BY <3>1 DEF Lined
    <3>2. /\ read = handled + Len(incoming) + (IF held = None THEN 0 ELSE 1)
          /\ \A i \in 1 .. Len(incoming) : incoming[i] = log[handled + i]
          /\ held # None => held = log[read]
      BY DEF Safe, Lined
    <3>3. \A i \in 1 .. Len(incoming) : handled + i \in 1 .. Len(log)
      BY <3>1, <3>2
    <3>4. held # None => read \in 1 .. Len(log)
      BY <3>1, <3>2
    <3> QED
      BY <2>2, <3>1, <3>2, <3>3, <3>4 DEF Lined
  <2> QED
    BY <2>4, <2>5, <2>6 DEF Safe
<1>2. CASE GoAway \/ StallOrResume \/ StoreIsReady
  <2>1. /\ UNCHANGED <<log, thread, serve>>
        /\ broken' \in BOOLEAN /\ stalled' \in BOOLEAN /\ ready' \in BOOLEAN
    BY <1>2 DEF GoAway, StallOrResume, StoreIsReady, Safe, TypeOK
  <2>2. TypeOK'
    BY <2>1 DEF Safe, TypeOK, thread, serve
  <2>3. Stage' /\ Lined'
    BY <2>1 DEF Safe, Stage, Lined, thread, serve
  <2> QED
    BY <2>2, <2>3 DEF Safe
<1> QED
  BY <1>1, <1>2 DEF Client

LEMMA ReaderStep == ASSUME Safe, Reader PROVE Safe'
<1> USE DEF Safe, client, serve
<1>0. /\ log \in Seq(Messages) /\ read \in 0 .. Len(log) /\ handled \in 0 .. read
      /\ incoming \in Seq(Messages) /\ Len(incoming) \in Nat /\ Len(log) \in Nat
      /\ None \notin Messages /\ Capacity \in Nat
  BY NoneAssumption, CapacityAssumption DEF TypeOK
<1>1. CASE ReaderReads
  <2>1. log[read + 1] \in Messages
    BY <1>0, <1>1, ElementOfSeq DEF ReaderReads
  <2>2. TypeOK'
    BY <1>0, <1>1, <2>1 DEF ReaderReads, TypeOK
  <2>3. Stage'
    BY <1>0, <1>1, <2>1 DEF ReaderReads, Stage
  <2>4. Lined'
    <3>1. /\ main # "ended" /\ read' = read + 1 /\ held' = log[read + 1]
          /\ held = None /\ held' # None
          /\ UNCHANGED <<log, handled, incoming, main>>
      BY <1>0, <1>1, <2>1 DEF ReaderReads, Stage
    <3>2. /\ read = handled + Len(incoming)
          /\ \A i \in 1 .. Len(incoming) : incoming[i] = log[handled + i]
      BY <1>0, <3>1 DEF Lined
    <3> QED
      BY <1>0, <3>1, <3>2 DEF Lined
  <2> QED
    BY <2>2, <2>3, <2>4
<1>2. CASE ReaderFails
  BY <1>2 DEF ReaderFails, TypeOK, Stage, Lined
<1>3. CASE ReaderQueues
  <2>1. held \in Messages /\ held # None /\ reader = "holding"
    BY <1>3 DEF ReaderQueues, TypeOK, Stage
  <2>2. /\ incoming' \in Seq(Messages) /\ Len(incoming') = Len(incoming) + 1
        /\ \A i \in 1 .. Len(incoming) : incoming'[i] = incoming[i]
        /\ incoming'[Len(incoming) + 1] = held
    BY <1>0, <1>3, <2>1, AppendProperties DEF ReaderQueues
  <2>3. TypeOK'
    BY <1>0, <1>3, <2>1, <2>2 DEF ReaderQueues, TypeOK
  <2>4. Stage'
    BY <1>0, <1>3, <2>1, <2>2 DEF ReaderQueues, Stage
  <2>5. Lined'
    BY <1>0, <1>3, <2>1, <2>2 DEF ReaderQueues, Lined
  <2> QED
    BY <2>3, <2>4, <2>5
<1>4. CASE ReaderReports
  BY <1>4 DEF ReaderReports, TypeOK, Stage, Lined
<1>5. CASE ReaderIsDone
  BY <1>0, <1>5 DEF ReaderIsDone, TypeOK, Stage, Lined
<1> QED
  BY <1>1, <1>2, <1>3, <1>4, <1>5 DEF Reader

LEMMA HelloStep == ASSUME Safe, ReadHello \/ Written \/ WriteFails PROVE Safe'
<1> USE DEF Safe, client, thread
<1>0. /\ log \in Seq(Messages) /\ read \in 0 .. Len(log) /\ Len(log) \in Nat
      /\ Ack \in Frames /\ Denied \in Frames /\ Ack # Denied /\ None \notin Frames
      /\ Ack # None /\ Denied # None
  BY FrameTypes DEF TypeOK
<1>1. CASE ReadHello
  <2>1. main = "hello" /\ main' = "writing" /\ ~acked /\ ~refused
        /\ read = 0 /\ handled = 0
    BY <1>1 DEF ReadHello, Stage
  <2>2. /\ frame' \in {Ack, Denied}
        /\ frame' = Ack => read' = 1 /\ log[1].type = "hello"
        /\ read' = handled' /\ read' \in 0 .. Len(log)
    BY <1>0, <1>1, <2>1 DEF ReadHello
  <2>3. TypeOK'
    BY <1>0, <1>1, <2>1, <2>2 DEF ReadHello, TypeOK
  <2>4. Stage'
    BY <1>0, <1>1, <2>1, <2>2 DEF ReadHello, Stage
  <2>5. Lined'
    <3>1. incoming = <<>> /\ held = None
      BY <2>1 DEF Stage
    <3>2. incoming' = <<>> /\ held' = None
      BY <1>1, <3>1 DEF ReadHello
    <3>3. Len(incoming') = 0
      BY <3>2
    <3> QED
      BY <1>0, <2>2, <3>2, <3>3 DEF Lined
  <2> QED
    BY <2>3, <2>4, <2>5
<1>2. CASE Written
  <2>1. TypeOK'
    BY <1>0, <1>2 DEF Written, TypeOK
  <2>2. Stage'
    <3>1. main = "writing" /\ frame # None /\ ~refused
      BY <1>2 DEF Written, Stage
    <3>2. CASE frame = Ack
      <4>1. /\ ~acked /\ reader = "none" /\ held = None /\ handled = 1
            /\ log[1].type = "hello"
        BY <3>1, <3>2, <1>0 DEF Stage, TypeOK
      <4>2. /\ frame' = None /\ main' = "select" /\ reader' = "reading"
            /\ acked' = TRUE /\ refused' = FALSE
            /\ UNCHANGED <<log, read, held, incoming, handled, subscription, answers>>
        BY <1>0, <1>2, <3>1, <3>2, <4>1 DEF Written, TypeOK
      <4> QED
        BY <1>0, <4>1, <4>2 DEF Stage
    <3>3. CASE frame = Denied
      BY <1>0, <1>2, <3>1, <3>3 DEF Written, Stage, TypeOK
    <3>4. CASE frame \notin {Ack, Denied}
      BY <1>0, <1>2, <3>1, <3>4 DEF Written, Stage, TypeOK
    <3> QED
      BY <3>2, <3>3, <3>4
  <2>3. Lined'
    BY <1>0, <1>2 DEF Written, Lined, Stage
  <2> QED
    BY <2>1, <2>2, <2>3
<1>3. CASE WriteFails
  BY <1>0, <1>3 DEF WriteFails, TypeOK, Stage, Lined
<1> QED
  BY <1>1, <1>2, <1>3

\* The main loop takes the message that continues the log.
LEMMA TakenIsNext ==
    ASSUME Safe, TakeMessage
    PROVE  /\ handled + 1 \in 2 .. read /\ log[handled + 1] = Head(incoming)
           /\ Head(incoming) \in Messages /\ acked
  BY ElementOfSeq DEF Safe, TakeMessage, TypeOK, Stage, Lined

LEMMA TakeStep == ASSUME Safe, TakeMessage PROVE Safe'
<1> USE DEF Safe, client
<1> DEFINE m == Head(incoming)
<1>0. /\ log \in Seq(Messages) /\ read \in 0 .. Len(log) /\ handled \in 0 .. read
      /\ incoming \in Seq(Messages) /\ Len(incoming) \in Nat /\ Len(log) \in Nat
      /\ None \notin Frames /\ main = "select" /\ incoming # <<>>
      /\ frame = None /\ reader # "none" /\ acked /\ ~refused /\ answers \in Nat
  BY FrameTypes DEF TypeOK, TakeMessage, Stage
<1>1. handled + 1 \in 2 .. read /\ m \in Messages
  BY TakenIsNext
<1>2. /\ incoming' \in Seq(Messages) /\ Len(incoming') = Len(incoming) - 1
      /\ \A i \in 1 .. Len(incoming) - 1 : incoming'[i] = incoming[i + 1]
  BY <1>0, HeadTailProperties DEF TakeMessage
<1>3. \/ /\ main' = "select" /\ frame' = None /\ answers' = answers
         /\ subscription' \in (SUBSET Capabilities) \cup {None}
      \/ /\ main' = "writing" /\ frame' \in Frames \ {Ack, Denied}
         /\ answers' = answers + 1 /\ subscription' = subscription
  <2>1. CASE m.type = "ping"
    BY <2>1, FrameTypes DEF TakeMessage, Respond
  <2>2. CASE m.type = "subscribe"
    <3>1. Subscribe(m)
      BY <2>2 DEF TakeMessage
    <3>2. CASE SelectMetrics(m.names) = None
      BY <3>1, <3>2, FrameTypes DEF Subscribe, Respond
    <3>3. CASE SelectMetrics(m.names) # None
      <4>1. SelectMetrics(m.names) \in SUBSET Capabilities
        BY <3>3 DEF SelectMetrics
      <4> QED
        BY <1>0, <3>1, <3>3, <4>1 DEF Subscribe
    <3> QED
      BY <3>2, <3>3
  <2>3. CASE m.type = "blank"
    BY <1>0, <2>3 DEF TakeMessage, TypeOK
  <2>4. CASE m.type \notin {"ping", "subscribe", "blank"}
    BY <2>4, FrameTypes DEF TakeMessage, Unknown, Respond
  <2> QED
    BY <2>1, <2>2, <2>3, <2>4
<1>4. handled' = handled + 1
      /\ UNCHANGED <<log, broken, stalled, ready, read, reader, held, errors, acked, refused>>
  BY DEF TakeMessage
<1>5. TypeOK'
  <2>1. handled' \in 0 .. read' /\ answers' \in Nat /\ Len(incoming') <= Capacity
    BY <1>0, <1>1, <1>2, <1>3, <1>4, CapacityAssumption DEF TypeOK
  <2>2. /\ main' \in {"select", "writing"} /\ frame' \in Frames \cup {None}
        /\ subscription' \in (SUBSET Capabilities) \cup {None}
    BY <1>3 DEF TypeOK
  <2> QED
    BY <1>2, <1>4, <2>1, <2>2 DEF TypeOK
<1>6. Stage'
  <2>1. /\ main' \in {"select", "writing"} /\ (main' = "writing" <=> frame' # None)
        /\ frame' # Ack /\ (main' = "writing" => frame' \notin {Ack, Denied})
    BY <1>0, <1>3, FrameTypes
  <2>2. handled' >= 1 /\ log[1].type = "hello"
    BY <1>0, <1>1, <1>4 DEF Stage
  <2> QED
    BY <1>0, <1>4, <2>1, <2>2 DEF Stage
<1>7. Lined'
  BY <1>0, <1>1, <1>2, <1>4 DEF Lined
<1> QED
  BY <1>5, <1>6, <1>7

LEMMA SelectStep ==
    ASSUME Safe, TakeError \/ PushMetrics \/ HeartbeatFails
    PROVE  Safe'
<1> USE DEF Safe, client, thread
<1>1. CASE TakeError
  BY <1>1 DEF TakeError, TypeOK, Stage, Lined
<1>2. CASE HeartbeatFails
  BY <1>2 DEF HeartbeatFails, TypeOK, Stage, Lined
<1>3. CASE PushMetrics
  <2>1. subscription \in SUBSET Capabilities
    BY <1>3 DEF PushMetrics, TypeOK
  <2>2. Filter(subscription) \in SUBSET (Capabilities \cup {"cpu", "memory"})
    BY DEF Filter
  <2>3. frame' \in Frames \ {Ack, Denied} /\ frame' # None
    BY <1>3, <2>2, FrameTypes DEF PushMetrics
  <2> QED
    BY <1>3, <2>3 DEF PushMetrics, TypeOK, Stage, Lined
<1> QED
  BY <1>1, <1>2, <1>3

\* Every step keeps types, stages and order.
LEMMA SafeStep == Safe /\ [Next]_vars => Safe'
<1> SUFFICES ASSUME Safe, [Next]_vars PROVE Safe'
  OBVIOUS
<1>1. CASE UNCHANGED vars
  BY <1>1 DEF vars, client, thread, serve, Safe, TypeOK, Stage, Lined
<1> QED
  BY <1>1, ClientStep, ReaderStep, HelloStep, TakeStep, SelectStep DEF Next, Main

THEOREM SafeHolds == Spec => []Safe
  BY SafeInit, SafeStep, PTL DEF Spec

\* The variables of a session keep their types: above all, the channel keeps
\* to its capacity, and a subscription to the capabilities.
THEOREM TypeOKHolds == Spec => []TypeOK
<1>1. Safe => TypeOK
  BY DEF Safe
<1> QED
  BY <1>1, SafeHolds, PTL

\* Reader and main loop pass every message on once, and in order.
THEOREM NothingLostHolds == Spec => []NothingLost
<1>1. Safe => NothingLost
  <2> SUFFICES ASSUME Safe, main \in {"select", "writing"}
               PROVE  SubSeq(log, handled + 1, read) = incoming \o Holding
    BY DEF NothingLost
  <2>0. /\ log \in Seq(Messages) /\ read \in 0 .. Len(log) /\ handled \in 0 .. read
        /\ incoming \in Seq(Messages) /\ Len(incoming) \in Nat /\ Len(log) \in Nat
        /\ held \in Messages \cup {None}
    BY DEF Safe, TypeOK
  <2>1. /\ read = handled + Len(incoming) + (IF held = None THEN 0 ELSE 1)
        /\ \A i \in 1 .. Len(incoming) : incoming[i] = log[handled + i]
        /\ held # None => held = log[read]
    BY DEF Safe, Lined
  <2>2. /\ SubSeq(log, handled + 1, read) \in Seq(Messages)
        /\ Len(SubSeq(log, handled + 1, read)) = read - handled
        /\ \A i \in 1 .. read - handled :
              SubSeq(log, handled + 1, read)[i] = log[handled + i]
    BY <2>0, SubSeqProperties
  <2>3. /\ Holding \in Seq(Messages)
        /\ Len(Holding) = (IF held = None THEN 0 ELSE 1)
        /\ held # None => Holding[1] = held
    BY <2>0 DEF Holding
  <2>4. /\ incoming \o Holding \in Seq(Messages)
        /\ Len(incoming \o Holding) = Len(incoming) + Len(Holding)
        /\ \A i \in 1 .. Len(incoming) + Len(Holding) :
              (incoming \o Holding)[i] = IF i <= Len(incoming) THEN incoming[i]
                                         ELSE Holding[i - Len(incoming)]
    BY <2>0, <2>3, ConcatProperties
  <2>5. \A i \in 1 .. read - handled :
           SubSeq(log, handled + 1, read)[i] = (incoming \o Holding)[i]
    BY <2>0, <2>1, <2>2, <2>3, <2>4
  <2>6. Len(SubSeq(log, handled + 1, read)) = Len(incoming \o Holding)
    BY <2>0, <2>1, <2>2, <2>3, <2>4
  <2> QED
    BY <2>2, <2>4, <2>5, <2>6, SeqEqual
<1> QED
  BY <1>1, SafeHolds, PTL

\* A client without an accepted hello is told AUTH_FAILED, or nothing.
THEOREM NothingBeforeHelloHolds == Spec => []NothingBeforeHello
<1>1. Safe => NothingBeforeHello
  <2> SUFFICES ASSUME Safe PROVE NothingBeforeHello
    OBVIOUS
  <2>1. acked => Head(log) = log[1]
    BY DEF Safe, TypeOK, Stage
  <2> QED
    BY <2>1 DEF Safe, TypeOK, Stage, NothingBeforeHello
<1> QED
  BY <1>1, SafeHolds, PTL

----------------------------------------------------------------------------
(* Subscriptions and answers *)

LEMMA ReadableStep == ASSUME Safe, Readable, [Next]_vars PROVE Readable'
<1>0. /\ log \in Seq(Messages) /\ Len(log) \in Nat /\ read \in 0 .. Len(log)
  BY DEF Safe, TypeOK
<1>1. CASE Send
  <2>1. PICK m \in Messages : log' = Append(log, m)
    BY <1>1 DEF Send
  <2>2. /\ acked' = acked /\ read' = read
        /\ \A i \in 1 .. Len(log) : log'[i] = log[i]
    BY <1>0, <1>1, <2>1, LogGrows DEF Send, thread, serve
  <2> QED
    BY <1>0, <2>2 DEF Readable
<1>2. CASE ReaderReads
  BY <1>0, <1>2 DEF ReaderReads, client, serve, Readable
<1>3. CASE ReadHello
  BY <1>3 DEF ReadHello, Safe, Stage, Readable
<1>4. CASE Written
  <2>1. log' = log /\ read' = read
    BY <1>4 DEF Written, client
  <2>2. CASE acked
    BY <2>1, <2>2 DEF Readable
  <2>3. CASE ~acked /\ frame = Ack
    BY <1>0, <2>1, <2>3 DEF Safe, Stage, Readable
  <2>4. CASE ~acked /\ frame # Ack
    BY <1>4, <2>4 DEF Written, Readable
  <2> QED
    BY <2>2, <2>3, <2>4
<1>5. CASE UNCHANGED <<log, read, acked>>
  BY <1>5 DEF Readable
<1> QED
  BY <1>1, <1>2, <1>3, <1>4, <1>5
     DEF Next, Client, Reader, Main, GoAway, StallOrResume, StoreIsReady,
         ReaderFails, ReaderQueues, ReaderReports, ReaderIsDone, WriteFails,
         TakeError, TakeMessage, PushMetrics, HeartbeatFails, client, thread,
         serve, vars

\* A step that takes no message changes neither what the subscription follows
\* from nor what was to be answered.
LEMMA UntakenStep ==
    ASSUME Inv, UNCHANGED <<handled, subscription, answers, acked>>,
           \A i \in 2 .. handled : log'[i] = log[i]
    PROVE  Current' /\ AnsweredOnce'
<1>1. CASE ~acked
  BY <1>1 DEF Current, AnsweredOnce
<1>2. CASE acked
  <2>1. \A i \in 2 .. handled : /\ Valid(log'[i]) <=> Valid(log[i])
                                /\ NeedsAnswer(log'[i]) <=> NeedsAnswer(log[i])
    BY DEF Valid, NeedsAnswer
  <2>2. Current'
    <3>1. handled \in Nat
      BY DEF Inv, Safe, TypeOK
    <3>2. CASE subscription = None /\ \A i \in 2 .. handled : ~Valid(log[i])
      BY <2>1, <3>2 DEF Current
    <3>3. CASE \E i \in 2 .. handled :
                  /\ Valid(log[i])
                  /\ \A j \in i + 1 .. handled : ~Valid(log[j])
                  /\ subscription = log[i].names
      <4>1. PICK i \in 2 .. handled :
                  /\ Valid(log[i])
                  /\ \A j \in i + 1 .. handled : ~Valid(log[j])
                  /\ subscription = log[i].names
        BY <3>3
      <4>2. \A j \in i + 1 .. handled : j \in 2 .. handled
        BY <3>1
      <4>3. /\ Valid(log'[i])
            /\ \A j \in i + 1 .. handled : ~Valid(log'[j])
            /\ subscription' = log'[i].names
        BY <2>1, <4>1, <4>2
      <4> QED
        BY <4>3 DEF Current
    <3> QED
      BY <1>2, <3>2, <3>3 DEF Inv, Current
  <2>3. Calls' = Calls
    BY <2>1 DEF Calls
  <2>4. answers = Cardinality(Calls)
    BY <1>2 DEF Inv, AnsweredOnce, Calls
  <2>5. AnsweredOnce'
    BY <2>3, <2>4 DEF AnsweredOnce, Calls
  <2> QED
    BY <2>2, <2>5
<1> QED
  BY <1>1, <1>2

\* Taking a message begins the answer it calls for, and follows the
\* subscription it asks for.
LEMMA TakeFollows ==
    ASSUME Safe, Readable, TakeMessage
    PROVE  LET m == log[handled + 1]
           IN  /\ answers' = IF NeedsAnswer(m) THEN answers + 1 ELSE answers
               /\ subscription' = IF Valid(m) THEN m.names ELSE subscription
<1> DEFINE m == Head(incoming)
<1>1. /\ handled + 1 \in 2 .. read /\ log[handled + 1] = m /\ m \in Messages
      /\ acked
  BY TakenIsNext
<1>2. m.type \in {"hello", "ping", "blank", "other", "subscribe"}
  <2>1. m.type \in {"hello", "ping", "blank", "other", "malformed", "subscribe"}
    BY <1>1 DEF Messages, Message
  <2>2. m.type # "malformed"
    BY <1>1 DEF Readable
  <2> QED
    BY <2>1, <2>2
<1>3. CASE m.type = "subscribe"
  <2>1. Subscribe(m)
    BY <1>3 DEF TakeMessage
  <2>2. CASE Valid(m)
    <3>1. subscription' = m.names /\ answers' = answers
      BY <1>1, <1>3, <2>1, <2>2, SelectIs DEF Subscribe
    <3>2. ~NeedsAnswer(m)
      BY <1>3, <2>2 DEF NeedsAnswer
    <3> QED
      BY <1>1, <2>2, <3>1, <3>2
  <2>3. CASE ~Valid(m)
    <3>1. subscription' = subscription /\ answers' = answers + 1
      BY <1>1, <1>3, <2>1, <2>3, SelectIs DEF Subscribe, Respond
    <3>2. NeedsAnswer(m)
      BY <1>3, <2>3 DEF NeedsAnswer
    <3> QED
      BY <1>1, <2>3, <3>1, <3>2
  <2> QED
    BY <2>2, <2>3
<1>4. CASE m.type = "blank"
  BY <1>1, <1>4 DEF TakeMessage, NeedsAnswer, Valid
<1>5. CASE m.type \in {"hello", "ping", "other"}
  <2>1. answers' = answers + 1 /\ subscription' = subscription
    BY <1>5 DEF TakeMessage, Unknown, Respond
  <2>2. NeedsAnswer(m) /\ ~Valid(m)
    BY <1>5 DEF NeedsAnswer, Valid
  <2> QED
    BY <1>1, <2>1, <2>2
<1> QED
  BY <1>2, <1>3, <1>4, <1>5

LEMMA TakenStep == ASSUME Inv, TakeMessage PROVE Current' /\ AnsweredOnce'
<1> DEFINE m == log[handled + 1]
<1>1. /\ handled' = handled + 1 /\ log' = log /\ acked /\ acked'
      /\ handled \in Nat /\ handled >= 1 /\ answers \in Nat
  BY TakenIsNext DEF TakeMessage, client, Inv, Safe, TypeOK
<1>2. /\ answers' = IF NeedsAnswer(m) THEN answers + 1 ELSE answers
      /\ subscription' = IF Valid(m) THEN m.names ELSE subscription
  BY TakeFollows DEF Inv
<1>3. Current'
  <2>1. CASE Valid(m)
    <3>1. /\ handled + 1 \in 2 .. handled' /\ Valid(log'[handled + 1])
          /\ \A j \in (handled + 1) + 1 .. handled' : ~Valid(log'[j])
          /\ subscription' = log'[handled + 1].names
      BY <1>1, <1>2, <2>1
    <3> QED
      BY <3>1 DEF Current
  <2>2. CASE ~Valid(m)
    <3>1. \A j \in Nat : j <= handled' /\ j > handled => j = handled + 1
      BY <1>1
    <3>2. CASE subscription = None /\ \A i \in 2 .. handled : ~Valid(log[i])
      <4>1. \A i \in 2 .. handled' : ~Valid(log'[i])
        BY <1>1, <2>2, <3>1, <3>2
      <4> QED
        BY <1>2, <2>2, <3>2, <4>1 DEF Current
    <3>3. CASE \E i \in 2 .. handled :
                  /\ Valid(log[i])
                  /\ \A j \in i + 1 .. handled : ~Valid(log[j])
                  /\ subscription = log[i].names
      <4>1. PICK i \in 2 .. handled :
                  /\ Valid(log[i])
                  /\ \A j \in i + 1 .. handled : ~Valid(log[j])
                  /\ subscription = log[i].names
        BY <3>3
      <4>2. /\ i \in 2 .. handled' /\ Valid(log'[i])
            /\ subscription' = log'[i].names
        BY <1>1, <1>2, <2>2, <4>1
      <4>3. \A j \in i + 1 .. handled' : ~Valid(log'[j])
        BY <1>1, <2>2, <3>1, <4>1
      <4> QED
        BY <4>2, <4>3 DEF Current
    <3> QED
      BY <1>1, <3>2, <3>3 DEF Inv, Current
  <2> QED
    BY <2>1, <2>2
<1>4. AnsweredOnce'
  <2>1. answers = Cardinality(Calls)
    BY <1>1 DEF Inv, AnsweredOnce, Calls
  <2>2. IsFiniteSet(Calls)
    <3>1. IsFiniteSet(2 .. handled)
      BY <1>1, FS_Interval
    <3> QED
      BY <3>1, FS_Subset DEF Calls
  <2>3. CASE NeedsAnswer(m)
    <3>1. Calls' = Calls \cup {handled + 1} /\ handled + 1 \notin Calls
      BY <1>1, <2>3 DEF Calls
    <3>2. Cardinality(Calls') = Cardinality(Calls) + 1
      BY <2>2, <3>1, FS_AddElement
    <3> QED
      BY <1>2, <2>1, <2>3, <3>2 DEF AnsweredOnce, Calls
  <2>4. CASE ~NeedsAnswer(m)
    <3>1. Calls' = Calls
      BY <1>1, <2>4 DEF Calls
    <3> QED
      BY <1>2, <2>1, <2>4, <3>1 DEF AnsweredOnce, Calls
  <2> QED
    BY <2>3, <2>4
<1> QED
  BY <1>3, <1>4

\* hello_ack begins the session, before anything is subscribed or answered.
LEMMA HelloBegins ==
    ASSUME Inv, ReadHello \/ Written
    PROVE  Current' /\ AnsweredOnce'
<1>1. CASE acked
  <2>1. UNCHANGED <<handled, subscription, answers, acked, log>>
    BY <1>1 DEF ReadHello, Written, client, Inv, Safe, TypeOK, Stage
  <2> QED
    BY <2>1, UntakenStep
<1>2. CASE ~acked /\ acked'
  <2>1. Written /\ frame = Ack
    BY <1>2 DEF ReadHello, Written
  <2>2. handled' = 1 /\ subscription' = None /\ answers' = 0
    BY <1>2, <2>1 DEF Written, Inv, Safe, Stage
  <2>3. 2 .. 1 = {}
    OBVIOUS
  <2>4. Calls' = {}
    BY <2>2, <2>3 DEF Calls
  <2>5. AnsweredOnce'
    BY <2>2, <2>4, FS_EmptySet DEF AnsweredOnce, Calls
  <2> QED
    BY <2>2, <2>3, <2>5 DEF Current
<1>3. CASE ~acked'
  BY <1>3 DEF Current, AnsweredOnce
<1> QED
  BY <1>1, <1>2, <1>3

\* What a frame carries is settled when its write begins.
LEMMA FilteredStep == ASSUME Inv, [Next]_vars PROVE Filtered'
<1>1. CASE frame' = None \/ frame'.type # "metrics"
  BY <1>1 DEF Filtered
<1>2. CASE UNCHANGED <<frame, subscription, acked>>
  BY <1>2 DEF Inv, Filtered
<1>3. CASE PushMetrics
  BY <1>3 DEF PushMetrics, Push, Filtered, Inv, Safe, Stage
<1>4. CASE ReadHello
  BY <1>4 DEF ReadHello, Ack, Denied, Filtered
<1>5. CASE TakeMessage
  <2>1. main = "select" /\ frame = None
    BY <1>5 DEF TakeMessage, Inv, Safe, Stage
  <2>2. frame' = None \/ frame'.type # "metrics"
    BY <1>5, <2>1 DEF TakeMessage, Subscribe, Unknown, Respond, Answer
  <2> QED
    BY <2>2 DEF Filtered
<1> QED
  BY <1>1, <1>2, <1>3, <1>4, <1>5
     DEF Next, Client, Reader, Main, Send, GoAway, StallOrResume, StoreIsReady,
         ReaderReads, ReaderFails, ReaderQueues, ReaderReports, ReaderIsDone,
         Written, WriteFails, TakeError, HeartbeatFails, client, thread, serve, vars

LEMMA InvStep == Inv /\ [Next]_vars => Inv'
<1> SUFFICES ASSUME Inv, [Next]_vars PROVE Inv'
  OBVIOUS
<1>1. Safe' /\ Readable' /\ Filtered'
  BY SafeStep, ReadableStep, FilteredStep DEF Inv
<1>2. Current' /\ AnsweredOnce'
  <2>1. CASE Send
    <3>1. UNCHANGED <<handled, subscription, answers, acked>>
      BY <2>1 DEF Send, serve
    <3>2. PICK m \in Messages : log' = Append(log, m)
      BY <2>1 DEF Send
    <3>3. \A i \in 2 .. handled : log'[i] = log[i]
      BY <3>2, LogGrows DEF Inv, Safe, TypeOK
    <3> QED
      BY <3>1, <3>3, UntakenStep
  <2>2. CASE ReadHello \/ Written
    BY <2>2, HelloBegins
  <2>3. CASE TakeMessage
    BY <2>3, TakenStep
  <2>4. CASE UNCHANGED <<handled, subscription, answers, acked, log>>
    BY <2>4, UntakenStep
  <2> QED
    BY <2>1, <2>2, <2>3, <2>4
       DEF Next, Client, Reader, Main, GoAway, StallOrResume, StoreIsReady,
           ReaderReads, ReaderFails, ReaderQueues, ReaderReports, ReaderIsDone,
           WriteFails, TakeError, PushMetrics, HeartbeatFails, client, thread,
           serve, vars
<1> QED
  BY <1>1, <1>2 DEF Inv

THEOREM InvHolds == Spec => []Inv
<1>1. Init => Inv
  <2> SUFFICES ASSUME Init PROVE Inv
    OBVIOUS
  <2>1. ~acked /\ frame = None
    BY DEF Init
  <2> QED
    BY <2>1, SafeInit DEF Inv, Readable, Current, Filtered, AnsweredOnce
<1> QED
  BY <1>1, InvStep, PTL DEF Spec

\* A metrics frame carries CPU, memory and what the latest acceptable
\* subscription handled asked for, for every client.
THEOREM PushedAsSubscribedHolds == Spec => []PushedAsSubscribed
<1>1. Inv => PushedAsSubscribed
  <2> SUFFICES ASSUME Inv, frame # None, frame.type = "metrics"
               PROVE  \E i \in 2 .. handled :
                        /\ Valid(log[i])
                        /\ \A j \in i + 1 .. handled : ~Valid(log[j])
                        /\ frame.names = {"cpu", "memory"} \cup log[i].names
    BY DEF PushedAsSubscribed
  <2>1. acked /\ subscription # None /\ frame.names = Filter(subscription)
    BY DEF Inv, Filtered
  <2>2. PICK i \in 2 .. handled :
           /\ Valid(log[i])
           /\ \A j \in i + 1 .. handled : ~Valid(log[j])
           /\ subscription = log[i].names
    BY <2>1 DEF Inv, Current
  <2>3. Filter(subscription) = {"cpu", "memory"} \cup log[i].names
    BY <2>2 DEF Valid, Filter
  <2> QED
    BY <2>1, <2>2, <2>3
<1> QED
  BY <1>1, InvHolds, PTL

\* Every message that calls for an answer is answered once, and no other.
THEOREM AnsweredOnceHolds == Spec => []AnsweredOnce
<1>1. Inv => AnsweredOnce
  BY DEF Inv
<1> QED
  BY <1>1, InvHolds, PTL

=============================================================================
