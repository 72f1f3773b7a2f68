---------------------- MODULE AgentConnectionProofs ------------------------
(***************************************************************************)
(* Theorems about AgentConnection for every set of sockets and every bound *)
(* on the calls.  Inv is inductive: the invariants the run checks, that    *)
(* listeners know the state, and what ties the flag `authenticated', the   *)
(* pending timeouts and the state to what the agent answered.  The         *)
(* refinement follows from Inv, one action at a time.                      *)
(***************************************************************************)
EXTENDS AgentConnection, TLAPS

----------------------------------------------------------------------------
(* The helpers keep their types. *)

\* close() of any socket, or of none, yields ready states.
LEMMA CloseType ==
  ASSUME NEW rs \in [Sockets -> ReadyStates], NEW s \in Sockets \cup {None}
  PROVE  Close(rs, s) \in [Sockets -> ReadyStates]
BY DEF Close, ReadyStates

\* Doubling never leaves the series of delays.
LEMMA DoubledType ==
  ASSUME NEW delay \in RetryDelays
  PROVE  Doubled(delay) \in RetryDelays
BY DEF Doubled, RetryDelays

----------------------------------------------------------------------------
(* Types *)

\* A connection just constructed is well typed: no socket, the shortest delay.
LEMMA TypeInit == Init => TypeOK
<1> SUFFICES ASSUME Init PROVE TypeOK
  OBVIOUS
<1>1. readyState \in [Sockets -> ReadyStates]
  BY DEF Init, ReadyStates
<1>2. calls \in 0 .. MaxCalls
  BY CallsAssumption DEF Init
<1> QED
  BY <1>1, <1>2 DEF Init, TypeOK, ConnectionStates, RetryDelays

\* Every call, event, message and timer keeps the types; only a back-off needs
\* DoubledType, only the closers CloseType.
LEMMA TypeStep == TypeOK /\ [Next]_vars => TypeOK'
<1> SUFFICES ASSUME TypeOK, [Next]_vars PROVE TypeOK'
  OBVIOUS
<1> USE CallsAssumption DEF TypeOK
<1>1. ASSUME NEW s \in Sockets, Start(s) PROVE TypeOK'
  BY <1>1 DEF Start, Connect, Notify, Call, ReadyStates, ConnectionStates
<1>2. ASSUME NEW s \in Sockets, Reconnect(s) PROVE TypeOK'
  <2>1. Close(readyState, current) \in [Sockets -> ReadyStates]
    BY CloseType
  <2>2. calls' \in 0 .. MaxCalls
    BY <1>2 DEF Reconnect, Call
  <2> QED
    BY <1>2, <2>1, <2>2 DEF Reconnect, Connect, Notify, ReadyStates, ConnectionStates
<1>3. CASE Stop
  <2>1. Close(readyState, current) \in [Sockets -> ReadyStates]
    BY CloseType
  <2>2. calls' \in 0 .. MaxCalls
    BY <1>3 DEF Stop, Call
  <2> QED
    BY <1>3, <2>1, <2>2 DEF Stop, ReadyStates, ConnectionStates
<1>4. ASSUME NEW s \in Sockets, Open(s) PROVE TypeOK'
  BY <1>4 DEF Open, history, ReadyStates, ConnectionStates
<1>5. ASSUME NEW s \in Sockets, PeerCloses(s) PROVE TypeOK'
  BY <1>5 DEF PeerCloses, history, ReadyStates, ConnectionStates
<1>6. ASSUME NEW s \in Sockets, Error(s) PROVE TypeOK'
  BY <1>6 DEF Error, Notify, history, ReadyStates, ConnectionStates
<1>7. ASSUME NEW s \in Sockets, Closed(s) PROVE TypeOK'
  <2>1. /\ UNCHANGED <<current, authenticated, sent, history>>
        /\ readyState' \in [Sockets -> ReadyStates]
    BY <1>7 DEF Closed, ReadyStates
  <2>2. CASE s = current /\ ~(state = "authentication-error" \/ timer)
    <3>1. Doubled(retryMs) \in RetryDelays
      BY DoubledType
    <3> QED
      BY <1>7, <2>1, <2>2, <3>1
         DEF Closed, ScheduleReconnect, Notify, history, ConnectionStates
  <2>3. CASE s # current \/ state = "authentication-error" \/ timer
    BY <1>7, <2>1, <2>3 DEF Closed, ScheduleReconnect, history
  <2> QED
    BY <2>2, <2>3
<1>8. CASE HelloAck
  BY <1>8 DEF HelloAck, Receiving, Notify, ReadyStates, ConnectionStates, RetryDelays
<1>9. CASE Metrics
  BY <1>9 DEF Metrics, Receiving, Notify, history, ReadyStates, ConnectionStates
<1>10. CASE AuthFailed
  <2>1. Close(readyState, current) \in [Sockets -> ReadyStates]
    BY CloseType
  <2> QED
    BY <1>10, <2>1 DEF AuthFailed, Receiving, Notify, ReadyStates, ConnectionStates
<1>11. CASE AgentError
  BY <1>11 DEF AgentError, Receiving, Notify, history, ReadyStates, ConnectionStates
<1>12. CASE HandshakeTimerFires
  <2>1. Close(readyState, current) \in [Sockets -> ReadyStates]
    BY CloseType
  <2> QED
    BY <1>12, <2>1 DEF HandshakeTimerFires, Notify, history, ReadyStates, ConnectionStates
<1>13. CASE StaleTimerFires
  BY <1>13 DEF StaleTimerFires, Notify, history, ReadyStates, ConnectionStates
<1>14. ASSUME NEW s \in Sockets, ReconnectTimerFires(s) PROVE TypeOK'
  BY <1>14 DEF ReconnectTimerFires, Connect, Notify, ReadyStates, ConnectionStates
<1>15. CASE UNCHANGED vars
  BY <1>15 DEF vars, code, history
<1> QED
  BY <1>1, <1>2, <1>3, <1>4, <1>5, <1>6, <1>7, <1>8, <1>9, <1>10,
     <1>11, <1>12, <1>13, <1>14, <1>15
     DEF Next, Calls, Events, Messages, Timers

\* Type correctness of the connection, its sockets and its timers.
THEOREM TypeCorrect == Spec => []TypeOK
BY TypeInit, TypeStep, PTL DEF Spec

----------------------------------------------------------------------------
(* The inductive invariant *)

\* Every step keeps the inductive invariant. The conjuncts lean on one another:
\* a session is watched because its timers were armed under the flags Inv ties
\* to its state.
LEMMA InvStep == Inv /\ [Next]_vars => Inv'
<1> SUFFICES ASSUME Inv, [Next]_vars PROVE Inv'
  OBVIOUS
<1> TypeOK'
  BY TypeStep DEF Inv
<1> USE SocketsAssumption
    DEF Inv, TypeOK, ListenersInformed, RetryOrRefused, OfflineIsScheduled,
        MetricsNeedAck, HandshakeGuarded, OnlineIsWatched,
        OneLiveUnlessOverlapped, AuthenticatedBy, StopForgets,
        OpeningIsFresh, UnansweredIsTimed, AnswersShow, Unnamed
<1>1. ASSUME NEW s \in Sockets, Start(s) PROVE Inv'
  <2>1. /\ ListenersInformed' /\ RetryOrRefused' /\ OfflineIsScheduled'
        /\ MetricsNeedAck' /\ AuthenticatedBy' /\ StopForgets'
        /\ OpeningIsFresh'
    BY <1>1 DEF Start, Connect, Notify, Call
  <2>2. /\ HandshakeGuarded' /\ OnlineIsWatched'
        /\ UnansweredIsTimed' /\ AnswersShow'
    BY <1>1 DEF Start, Connect, Notify, Call
  <2>3. OneLiveUnlessOverlapped'
    BY <1>1 DEF Start, Connect, Notify, Call, Live
  <2> QED
    BY <2>1, <2>2, <2>3
<1>2. ASSUME NEW s \in Sockets, Reconnect(s) PROVE Inv'
  <2>1. /\ ListenersInformed' /\ RetryOrRefused' /\ OfflineIsScheduled'
        /\ MetricsNeedAck' /\ AuthenticatedBy' /\ StopForgets'
        /\ OpeningIsFresh'
    BY <1>2 DEF Reconnect, Connect, Close, Notify, Call
  <2>2. /\ HandshakeGuarded' /\ OnlineIsWatched'
        /\ UnansweredIsTimed' /\ AnswersShow'
    BY <1>2 DEF Reconnect, Connect, Close, Notify, Call
  <2>3. OneLiveUnlessOverlapped'
    BY <1>2 DEF Reconnect, Connect, Close, Notify, Call, Live
  <2> QED
    BY <2>1, <2>2, <2>3
<1>3. CASE Stop
  <2>1. /\ ListenersInformed' /\ RetryOrRefused' /\ OfflineIsScheduled'
        /\ MetricsNeedAck' /\ AuthenticatedBy' /\ StopForgets'
        /\ OpeningIsFresh'
    BY <1>3 DEF Stop, Close, Call
  <2>2. /\ HandshakeGuarded' /\ OnlineIsWatched'
        /\ UnansweredIsTimed' /\ AnswersShow'
    BY <1>3 DEF Stop, Close, Call
  <2>3. OneLiveUnlessOverlapped'
    BY <1>3 DEF Stop, Close, Call, Live
  <2> QED
    BY <2>1, <2>2, <2>3
<1>4. ASSUME NEW s \in Sockets, Open(s) PROVE Inv'
  <2>1. /\ ListenersInformed' /\ RetryOrRefused' /\ OfflineIsScheduled'
        /\ MetricsNeedAck' /\ AuthenticatedBy' /\ StopForgets'
        /\ OpeningIsFresh'
    BY <1>4 DEF Open, history
  <2>2. /\ HandshakeGuarded' /\ OnlineIsWatched'
        /\ UnansweredIsTimed' /\ AnswersShow'
    BY <1>4 DEF Open, history
  <2>3. OneLiveUnlessOverlapped'
    BY <1>4 DEF Open, history, Live
  <2> QED
    BY <2>1, <2>2, <2>3
<1>5. ASSUME NEW s \in Sockets, PeerCloses(s) PROVE Inv'
  <2>1. /\ ListenersInformed' /\ RetryOrRefused' /\ OfflineIsScheduled'
        /\ MetricsNeedAck' /\ AuthenticatedBy' /\ StopForgets'
        /\ OpeningIsFresh'
    BY <1>5 DEF PeerCloses, history
  <2>2. /\ HandshakeGuarded' /\ OnlineIsWatched'
        /\ UnansweredIsTimed' /\ AnswersShow'
    BY <1>5 DEF PeerCloses, history
  <2>3. OneLiveUnlessOverlapped'
    BY <1>5 DEF PeerCloses, history, Live
  <2> QED
    BY <2>1, <2>2, <2>3
<1>6. ASSUME NEW s \in Sockets, Error(s) PROVE Inv'
  <2>1. /\ ListenersInformed' /\ RetryOrRefused' /\ OfflineIsScheduled'
        /\ MetricsNeedAck' /\ AuthenticatedBy' /\ StopForgets'
        /\ OpeningIsFresh'
    BY <1>6 DEF Error, Notify, history
  <2>2. /\ HandshakeGuarded' /\ OnlineIsWatched'
        /\ UnansweredIsTimed' /\ AnswersShow'
    BY <1>6 DEF Error, Notify, history
  <2>3. OneLiveUnlessOverlapped'
    BY <1>6 DEF Error, Notify, history, Live
  <2> QED
    BY <2>1, <2>2, <2>3
<1>7. ASSUME NEW s \in Sockets, Closed(s) PROVE Inv'
  <2>1. /\ ListenersInformed' /\ RetryOrRefused' /\ OfflineIsScheduled'
        /\ MetricsNeedAck' /\ AuthenticatedBy' /\ StopForgets'
        /\ OpeningIsFresh'
    BY <1>7 DEF Closed, ScheduleReconnect, Notify, history
  <2>2. /\ HandshakeGuarded' /\ OnlineIsWatched'
        /\ UnansweredIsTimed' /\ AnswersShow'
    BY <1>7 DEF Closed, ScheduleReconnect, Notify, history
  <2>3. OneLiveUnlessOverlapped'
    BY <1>7 DEF Closed, ScheduleReconnect, Notify, history, Live
  <2> QED
    BY <2>1, <2>2, <2>3
<1>8. CASE HelloAck
  <2>1. /\ ListenersInformed' /\ RetryOrRefused' /\ OfflineIsScheduled'
        /\ MetricsNeedAck' /\ AuthenticatedBy' /\ StopForgets'
        /\ OpeningIsFresh'
    BY <1>8 DEF HelloAck, Receiving, Notify
  <2>2. /\ HandshakeGuarded' /\ OnlineIsWatched'
        /\ UnansweredIsTimed' /\ AnswersShow'
    BY <1>8 DEF HelloAck, Receiving, Notify
  <2>3. OneLiveUnlessOverlapped'
    BY <1>8 DEF HelloAck, Receiving, Notify, Live
  <2> QED
    BY <2>1, <2>2, <2>3
<1>9. CASE Metrics
  <2>1. /\ ListenersInformed' /\ RetryOrRefused' /\ OfflineIsScheduled'
        /\ MetricsNeedAck' /\ AuthenticatedBy' /\ StopForgets'
        /\ OpeningIsFresh'
    BY <1>9 DEF Metrics, Receiving, Notify, history
  <2>2. /\ HandshakeGuarded' /\ OnlineIsWatched'
        /\ UnansweredIsTimed' /\ AnswersShow'
    BY <1>9 DEF Metrics, Receiving, Notify, history
  <2>3. OneLiveUnlessOverlapped'
    BY <1>9 DEF Metrics, Receiving, Notify, history, Live
  <2> QED
    BY <2>1, <2>2, <2>3
<1>10. CASE AuthFailed
  <2>1. /\ ListenersInformed' /\ RetryOrRefused' /\ OfflineIsScheduled'
        /\ MetricsNeedAck' /\ AuthenticatedBy' /\ StopForgets'
        /\ OpeningIsFresh'
    BY <1>10 DEF AuthFailed, Receiving, Close, Notify
  <2>2. /\ HandshakeGuarded' /\ OnlineIsWatched'
        /\ UnansweredIsTimed' /\ AnswersShow'
    BY <1>10 DEF AuthFailed, Receiving, Close, Notify
  <2>3. OneLiveUnlessOverlapped'
    BY <1>10 DEF AuthFailed, Receiving, Close, Notify, Live
  <2> QED
    BY <2>1, <2>2, <2>3
<1>11. CASE AgentError
  <2>1. /\ ListenersInformed' /\ RetryOrRefused' /\ OfflineIsScheduled'
        /\ MetricsNeedAck' /\ AuthenticatedBy' /\ StopForgets'
        /\ OpeningIsFresh'
    BY <1>11 DEF AgentError, Receiving, Notify, history
  <2>2. /\ HandshakeGuarded' /\ OnlineIsWatched'
        /\ UnansweredIsTimed' /\ AnswersShow'
    BY <1>11 DEF AgentError, Receiving, Notify, history
  <2>3. OneLiveUnlessOverlapped'
    BY <1>11 DEF AgentError, Receiving, Notify, history, Live
  <2> QED
    BY <2>1, <2>2, <2>3
<1>12. CASE HandshakeTimerFires
  <2>1. /\ ListenersInformed' /\ RetryOrRefused' /\ OfflineIsScheduled'
        /\ MetricsNeedAck' /\ AuthenticatedBy' /\ StopForgets'
        /\ OpeningIsFresh'
    BY <1>12 DEF HandshakeTimerFires, Close, Notify, history
  <2>2. /\ HandshakeGuarded' /\ OnlineIsWatched'
        /\ UnansweredIsTimed' /\ AnswersShow'
    BY <1>12 DEF HandshakeTimerFires, Close, Notify, history
  <2>3. OneLiveUnlessOverlapped'
    BY <1>12 DEF HandshakeTimerFires, Close, Notify, history, Live
  <2> QED
    BY <2>1, <2>2, <2>3
<1>13. CASE StaleTimerFires
  <2>1. /\ ListenersInformed' /\ RetryOrRefused' /\ OfflineIsScheduled'
        /\ MetricsNeedAck' /\ AuthenticatedBy' /\ StopForgets'
        /\ OpeningIsFresh'
    BY <1>13 DEF StaleTimerFires, Notify, history
  <2>2. /\ HandshakeGuarded' /\ OnlineIsWatched'
        /\ UnansweredIsTimed' /\ AnswersShow'
    BY <1>13 DEF StaleTimerFires, Notify, history
  <2>3. OneLiveUnlessOverlapped'
    BY <1>13 DEF StaleTimerFires, Notify, history, Live
  <2> QED
    BY <2>1, <2>2, <2>3
<1>14. ASSUME NEW s \in Sockets, ReconnectTimerFires(s) PROVE Inv'
  <2>1. /\ ListenersInformed' /\ RetryOrRefused' /\ OfflineIsScheduled'
        /\ MetricsNeedAck' /\ AuthenticatedBy' /\ StopForgets'
        /\ OpeningIsFresh'
    BY <1>14 DEF ReconnectTimerFires, Connect, Notify
  <2>2. /\ HandshakeGuarded' /\ OnlineIsWatched'
        /\ UnansweredIsTimed' /\ AnswersShow'
    BY <1>14 DEF ReconnectTimerFires, Connect, Notify
  <2>3. OneLiveUnlessOverlapped'
    BY <1>14 DEF ReconnectTimerFires, Connect, Notify, Live
  <2> QED
    BY <2>1, <2>2, <2>3
<1>15. CASE UNCHANGED vars
  BY <1>15 DEF vars, code, history, Live
<1> QED
  BY <1>1, <1>2, <1>3, <1>4, <1>5, <1>6, <1>7, <1>8, <1>9, <1>10,
     <1>11, <1>12, <1>13, <1>14, <1>15
     DEF Next, Calls, Events, Messages, Timers

\* The inductive invariant holds of every reachable state: the safety theorems
\* below only weaken it.
THEOREM InvHolds == Spec => []Inv
<1>1. Init => Inv
  BY TypeInit
     DEF Init, Inv, ListenersInformed, RetryOrRefused, OfflineIsScheduled,
         MetricsNeedAck, HandshakeGuarded, OnlineIsWatched, Live, Unnamed,
         OneLiveUnlessOverlapped, AuthenticatedBy, StopForgets, OpeningIsFresh,
         UnansweredIsTimed, AnswersShow
<1> QED
  BY <1>1, InvStep, PTL DEF Spec

----------------------------------------------------------------------------
(* The properties the run checks *)

\* A closed connection retries or was refused: no early return of
\* scheduleReconnect, and no order of close events and timers, loses the retry.
THEOREM RetryOrRefusedHolds == Spec => []RetryOrRefused
<1>1. Inv => RetryOrRefused
  BY DEF Inv
<1> QED
  BY <1>1, InvHolds, PTL

\* "offline" is shown of a connection that is closed, retrying and untimed.
THEOREM OfflineIsScheduledHolds == Spec => []OfflineIsScheduled
<1>1. Inv => OfflineIsScheduled
  BY DEF Inv
<1> QED
  BY <1>1, InvHolds, PTL

\* No metrics of a session the agent has not accepted reach a tile, unless
\* `authenticated' was carried over from the session before.
THEOREM MetricsNeedAckHolds == Spec => []MetricsNeedAck
<1>1. Inv => MetricsNeedAck
  BY DEF Inv
<1> QED
  BY <1>1, InvHolds, PTL

\* A session that began unauthenticated is timed while it waits for hello_ack.
THEOREM HandshakeGuardedHolds == Spec => []HandshakeGuarded
<1>1. Inv => HandshakeGuarded
  BY DEF Inv
<1> QED
  BY <1>1, InvHolds, PTL

\* An online session is subscribed, and its silence will be noticed.
THEOREM OnlineIsWatchedHolds == Spec => []OnlineIsWatched
<1>1. Inv => OnlineIsWatched
  BY DEF Inv
<1> QED
  BY <1>1, InvHolds, PTL

\* Only a start() during a pending reconnect can leave a second socket open.
THEOREM OneLiveUnlessOverlappedHolds == Spec => []OneLiveUnlessOverlapped
<1>1. Inv => OneLiveUnlessOverlapped
  BY DEF Inv
<1> QED
  BY <1>1, InvHolds, PTL

\* stop() is final: nothing still on its way changes or reopens anything.
THEOREM StoppedIsQuietHolds == Spec => StoppedIsQuiet
<1> DEFINE Quiet == /\ UNCHANGED <<state, told, timer, current>>
                    /\ \A s \in Sockets : readyState[s] = "CLOSED"
                                              => readyState'[s] = "CLOSED"
<1>1. Inv /\ [Next]_vars => (stopped => Quiet)
  <2> SUFFICES ASSUME Inv, stopped, [Next]_vars PROVE Quiet
    OBVIOUS
  <2>1. current = None /\ ~timer /\ None \notin Sockets
    BY SocketsAssumption DEF Inv, StopForgets
  <2>2. ~Calls
    BY DEF Calls, Stop, Start, Reconnect, Call
  <2>3. ~Messages
    BY <2>1 DEF Messages, HelloAck, Metrics, AuthFailed, AgentError, Receiving
  <2>4. ASSUME NEW s \in Sockets,
               Open(s) \/ PeerCloses(s) \/ Error(s) \/ Closed(s)
        PROVE  Quiet
    BY <2>1, <2>4 DEF Inv, TypeOK, Open, PeerCloses, Error, Closed
  <2>5. CASE HandshakeTimerFires \/ StaleTimerFires
    BY <2>1, <2>5 DEF HandshakeTimerFires, StaleTimerFires
  <2>6. ASSUME NEW s \in Sockets PROVE ~ReconnectTimerFires(s)
    BY <2>1 DEF ReconnectTimerFires
  <2>7. CASE UNCHANGED vars
    BY <2>7 DEF vars, code
  <2> QED
    BY <2>2, <2>3, <2>4, <2>5, <2>6, <2>7 DEF Next, Events, Timers
<1> QED
  BY <1>1, InvHolds, PTL DEF Spec, StoppedIsQuiet

----------------------------------------------------------------------------
(* Refinement *)

\* Every step of the connection is a step of its contract, or none.
LEMMA ContractStep == Inv /\ [Next]_vars => [Contract!Next]_Contract!vars
<1> SUFFICES ASSUME Inv, [Next]_vars PROVE [Contract!Next]_Contract!vars
  OBVIOUS
<1> USE SocketsAssumption DEF Inv, TypeOK, StopForgets, Contract!vars
<1>1. ASSUME NEW s \in Sockets, Start(s) PROVE Contract!Attempt
  BY <1>1 DEF Start, Connect, Notify, Call, Contract!Attempt, Contract!Begin
<1>2. ASSUME NEW s \in Sockets, Reconnect(s) PROVE Contract!Attempt
  <2>1. Close(readyState, current) \in [Sockets -> ReadyStates]
    BY CloseType
  <2> QED
    BY <1>2, <2>1
       DEF Reconnect, Connect, Notify, Call, Contract!Attempt, Contract!Begin
<1>3. CASE Stop
  BY <1>3 DEF Stop, Call, Contract!Over, Contract!Next
<1>4. ASSUME NEW s \in Sockets, Open(s) \/ PeerCloses(s) \/ Error(s)
      PROVE  UNCHANGED Contract!vars
  BY <1>4 DEF Open, PeerCloses, Error, Notify, history
<1>5. ASSUME NEW s \in Sockets, Closed(s)
      PROVE  [Contract!Lose]_Contract!vars
  <2>1. CASE s = current
    BY <1>5, <2>1 DEF Closed, ScheduleReconnect, Notify, history, AnswersShow,
                      Contract!Lose
  <2>2. CASE s # current
    BY <1>5, <2>2 DEF Closed, history
  <2> QED
    BY <2>1, <2>2
<1>6. CASE HelloAck \/ Metrics
  BY <1>6 DEF HelloAck, Metrics, Receiving, Notify, history, Contract!Accept,
              Contract!Next
<1>7. CASE AuthFailed
  BY <1>7 DEF AuthFailed, Receiving, Close, Notify, Contract!Refuse,
              Contract!Next
<1>8. CASE AgentError
  BY <1>8 DEF AgentError, Receiving, Notify, history, OfflineIsScheduled,
              Contract!Fault, Contract!Next
<1>9. CASE HandshakeTimerFires
  <2>1. CASE handshakeTimer = current /\ ~authenticated
    BY <1>9, <2>1 DEF HandshakeTimerFires, Close, Notify, history,
         OfflineIsScheduled, RetryOrRefused, Contract!Fault, Contract!Next
  <2>2. CASE ~(handshakeTimer = current /\ ~authenticated)
    BY <1>9, <2>2 DEF HandshakeTimerFires, history
  <2> QED
    BY <2>1, <2>2
<1>10. CASE StaleTimerFires
  BY <1>10 DEF StaleTimerFires, Notify, history, Contract!Stale, Contract!Next
<1>11. ASSUME NEW s \in Sockets, ReconnectTimerFires(s) PROVE Contract!Retry
  BY <1>11 DEF ReconnectTimerFires, Connect, Notify, Contract!Retry,
               Contract!Begin
<1>12. CASE UNCHANGED vars
  BY <1>12 DEF vars, code, history
<1> QED
  BY <1>1, <1>2, <1>3, <1>4, <1>5, <1>6, <1>7, <1>8, <1>9, <1>10, <1>11, <1>12
     DEF Next, Calls, Events, Messages, Timers, Contract!Next

\* AgentConnection implements ConnectionContract: the tiles and the manager
\* may rely on the contract alone.
THEOREM RefinesContract == Spec => ContractHolds
<1>1. Init => Contract!Init
  BY SocketsAssumption DEF Init, Contract!Init
<1> QED
  BY <1>1, ContractStep, InvHolds, PTL DEF Spec, ContractHolds, Contract!Spec
=============================================================================
