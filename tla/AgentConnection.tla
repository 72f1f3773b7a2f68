-------------------------- MODULE AgentConnection --------------------------
(***************************************************************************)
(* The plugin's connection to one Linux agent: the class AgentConnection,  *)
(* with the WebSocket objects it creates and the three timers it arms.     *)
(*                                                                         *)
(* Node runs one callback at a time, so every method, event handler and    *)
(* timer callback is one atomic action.  What interleaves is their order:  *)
(* calls of the ConnectionManager (Start, Reconnect, Stop), events of any  *)
(* socket ever created, frames sent by the agent, and timers.              *)
(*                                                                         *)
(* Sockets is a pool of WebSocket objects.  A CLOSED object emits nothing  *)
(* more, so once no timer names it either its slot stands for the next     *)
(* object the code creates.  The code compares generation numbers only     *)
(* with the newest one: `current' is the socket of the newest connect()    *)
(* and "generation === this.generation" is "s = current".                  *)
(***************************************************************************)
EXTENDS Integers

CONSTANTS
    Sockets,    \* the WebSocket objects
    None,       \* no socket: `undefined'
    MaxCalls    \* bound on the calls the ConnectionManager makes

ASSUME SocketsAssumption == None \notin Sockets
ASSUME CallsAssumption   == MaxCalls \in Nat

VARIABLES
    readyState,      \* readyState of every WebSocket object
    current,         \* this.socket, with this.generation
    state,           \* this.state
    told,            \* the state the listeners were last notified of
    authenticated,   \* this.authenticated
    timer,           \* this.timer # undefined: a reconnect is scheduled
    retryMs,         \* this.retryMs, in seconds
    staleTimer,      \* the socket whose staleTimer is pending
    handshakeTimer,  \* the socket whose handshakeTimer is pending
    sent,            \* what the agent was last sent on the current socket
    \* the variables below are read by properties and bounds only
    reply,           \* the agent's answer to hello on the current socket
    carried,         \* authenticated was already TRUE in connect()
    overlapped,      \* some start() left a reconnect timer pending
    stopped,         \* stop() was called
    calls,           \* number of calls of the ConnectionManager
    beat             \* alternates whenever metrics re-arm the stale timer

code    == <<readyState, current, state, told, authenticated, timer, retryMs,
             staleTimer, handshakeTimer, sent>>
history == <<reply, carried, overlapped, stopped, calls, beat>>
vars    == <<code, history>>

ReadyStates == {"CONNECTING", "OPEN", "CLOSING", "CLOSED"}

ConnectionStates == {"connecting", "online", "offline", "authentication-error",
                     "agent-error", "metric-unavailable"}

\* 1 s doubled up to 30 s
RetryDelays == {1, 2, 4, 8, 16, 30}

----------------------------------------------------------------------------
(* Helpers *)

Live(s) == readyState[s] \in {"CONNECTING", "OPEN"}

\* Frames still reach the message handler while the closing handshake runs.
\* The agent returns, and sends nothing more, once it has refused the token.
Receiving ==
    /\ current # None
    /\ readyState[current] \in {"OPEN", "CLOSING"}
    /\ reply # "refused"

\* WebSocket.close(): the close event follows later, unless it is over already.
Close(rs, s) ==
    IF s # None /\ rs[s] # "CLOSED" THEN [rs EXCEPT ![s] = "CLOSING"] ELSE rs

\* Mutant: the delay is not capped.
DoubledForEver(delay) == 2 * delay

Doubled(delay) == IF 2 * delay < 30 THEN 2 * delay ELSE 30

\* this.state = st; this.notify()
Notify(st) == state' = st /\ told' = st

\* connect(): rs and auth are the sockets and `authenticated' it starts from.
Connect(s, rs, auth) ==
    /\ rs[s] = "CLOSED"
    /\ readyState' = [rs EXCEPT ![s] = "CONNECTING"]
    /\ current' = s
    /\ Notify("connecting")
    /\ authenticated' = auth
    /\ sent' = "nothing"
    /\ reply' = "none"
    /\ carried' = auth
    /\ beat' = 0

\* A CLOSED socket that a pending timer still names is not reused.
Unnamed(s) == s \notin {staleTimer, handshakeTimer}

\* The ConnectionManager drops a connection for good when it stops it.
Call == ~stopped /\ calls < MaxCalls /\ calls' = calls + 1

----------------------------------------------------------------------------
(* Mutants: what a slip in the code would make of the actions below.  No   *)
(* action uses them; each shows that some property would notice the slip.  *)

\* start() treats a socket that is still connecting as closed.
StartUnlessOpen(s) ==
    /\ Call
    /\ current # None => readyState[current] # "OPEN"
    /\ Unnamed(s)
    /\ Connect(s, readyState, authenticated)
    /\ overlapped' = (overlapped \/ timer)
    /\ UNCHANGED <<timer, retryMs, staleTimer, handshakeTimer, stopped>>

\* stop() does not move the generation on.
StopKeepsGeneration ==
    /\ Call
    /\ readyState' = Close(readyState, current)
    /\ authenticated' = FALSE
    /\ timer' = FALSE /\ staleTimer' = None /\ handshakeTimer' = None
    /\ sent' = "nothing" /\ reply' = "none" /\ carried' = FALSE /\ beat' = 0
    /\ stopped' = TRUE
    /\ UNCHANGED <<current, state, told, retryMs, overlapped>>

\* "open" forgets the handshake timeout.
OpenUntimed(s) ==
    /\ readyState[s] = "CONNECTING"
    /\ readyState' = [readyState EXCEPT ![s] = "OPEN"]
    /\ IF s = current THEN sent' = "hello" /\ staleTimer' = s
                      ELSE UNCHANGED <<sent, staleTimer>>
    /\ UNCHANGED <<current, state, told, authenticated, timer, retryMs,
                   handshakeTimer, history>>

\* scheduleReconnect() takes every error of the agent for a refusal.
GiveUpOnErrors ==
    IF state \in {"authentication-error", "agent-error"} \/ timer
    THEN UNCHANGED <<state, told, timer, retryMs, staleTimer, handshakeTimer>>
    ELSE /\ staleTimer' = None /\ handshakeTimer' = None
         /\ Notify("offline")
         /\ timer' = TRUE /\ retryMs' = Doubled(retryMs)

\* scheduleReconnect() leaves the two timeouts pending.
ScheduleKeepsTimeouts ==
    IF state = "authentication-error" \/ timer
    THEN UNCHANGED <<state, told, timer, retryMs, staleTimer, handshakeTimer>>
    ELSE /\ Notify("offline")
         /\ timer' = TRUE /\ retryMs' = Doubled(retryMs)
         /\ UNCHANGED <<staleTimer, handshakeTimer>>

\* scheduleReconnect() announces a retry it does not schedule.
ScheduleNothing ==
    IF state = "authentication-error" \/ timer
    THEN UNCHANGED <<state, told, timer, retryMs, staleTimer, handshakeTimer>>
    ELSE /\ staleTimer' = None /\ handshakeTimer' = None
         /\ Notify("offline")
         /\ UNCHANGED <<timer, retryMs>>

\* metrics are taken before authentication.
MetricsUnasked ==
    /\ Receiving
    /\ Notify("online")
    /\ staleTimer' = current
    /\ beat' = 1 - beat
    /\ UNCHANGED <<readyState, current, authenticated, timer, retryMs,
                   handshakeTimer, sent, reply, carried, overlapped, stopped,
                   calls>>

\* metrics do not re-arm the stale timer.
MetricsUnwatched ==
    /\ Receiving /\ authenticated
    /\ Notify("online")
    /\ beat' = 1 - beat
    /\ UNCHANGED <<readyState, current, authenticated, timer, retryMs,
                   staleTimer, handshakeTimer, sent, reply, carried, overlapped,
                   stopped, calls>>

\* The stale timeout does not ask whether the connection is online.
StaleWhateverState ==
    /\ staleTimer # None /\ staleTimer # handshakeTimer
    /\ staleTimer' = None
    /\ IF staleTimer = current THEN Notify("metric-unavailable")
                               ELSE UNCHANGED <<state, told>>
    /\ UNCHANGED <<readyState, current, authenticated, timer, retryMs,
                   handshakeTimer, sent, history>>

\* The reconnect timer waits for an offline state that never comes back.
ReconnectWhenOffline(s) ==
    /\ timer /\ state = "offline"
    /\ Unnamed(s)
    /\ Connect(s, readyState, authenticated)
    /\ timer' = FALSE
    /\ UNCHANGED <<retryMs, staleTimer, handshakeTimer,
                   overlapped, stopped, calls>>

----------------------------------------------------------------------------
(* Calls of the ConnectionManager *)

\* start(): returns at once when the current socket is open or opening.
Start(s) ==
    /\ Call
    /\ current # None => ~Live(current)
    /\ Unnamed(s)
    /\ Connect(s, readyState, authenticated)
    /\ overlapped' = (overlapped \/ timer)
    /\ UNCHANGED <<timer, retryMs, staleTimer, handshakeTimer, stopped>>

\* reconnect(): the host woke up; every timer is cleared before start().
Reconnect(s) ==
    /\ Call
    /\ Connect(s, Close(readyState, current), FALSE)
    /\ timer' = FALSE
    /\ staleTimer' = None
    /\ handshakeTimer' = None
    /\ UNCHANGED <<retryMs, overlapped, stopped>>

\* stop(): the generation moves on and no listener is told.
Stop ==
    /\ Call
    /\ readyState' = Close(readyState, current)
    /\ current' = None
    /\ authenticated' = FALSE
    /\ timer' = FALSE
    /\ staleTimer' = None
    /\ handshakeTimer' = None
    /\ sent' = "nothing"
    /\ reply' = "none"
    /\ carried' = FALSE
    /\ beat' = 0
    /\ stopped' = TRUE
    /\ UNCHANGED <<state, told, retryMs, overlapped>>

----------------------------------------------------------------------------
(* Events of the WebSocket objects *)

\* "open": only the current socket says hello and arms its two timers.
Open(s) ==
    /\ readyState[s] = "CONNECTING"
    /\ readyState' = [readyState EXCEPT ![s] = "OPEN"]
    /\ IF s = current
       THEN sent' = "hello" /\ handshakeTimer' = s /\ staleTimer' = s
       ELSE UNCHANGED <<sent, handshakeTimer, staleTimer>>
    /\ UNCHANGED <<current, state, told, authenticated, timer, retryMs, history>>

\* The peer's close frame, or the end of its stream: ws starts to close, and
\* the connection is not told before "close".
PeerCloses(s) ==
    /\ readyState[s] = "OPEN"
    /\ readyState' = [readyState EXCEPT ![s] = "CLOSING"]
    /\ UNCHANGED <<current, state, told, authenticated, timer, retryMs,
                   staleTimer, handshakeTimer, sent, history>>

\* "error" of an upgraded socket: ws rejected a frame and starts to close; the
\* listeners hear the present state again.
Error(s) ==
    /\ readyState[s] \in {"OPEN", "CLOSING"}
    /\ readyState' = [readyState EXCEPT ![s] = "CLOSING"]
    /\ IF s = current THEN Notify(state) ELSE UNCHANGED <<state, told>>
    /\ UNCHANGED <<current, authenticated, timer, retryMs, staleTimer,
                   handshakeTimer, sent, history>>

\* scheduleReconnect()
ScheduleReconnect ==
    IF state = "authentication-error" \/ timer
    THEN UNCHANGED <<state, told, timer, retryMs, staleTimer, handshakeTimer>>
    ELSE /\ staleTimer' = None
         /\ handshakeTimer' = None
         /\ Notify("offline")
         /\ timer' = TRUE
         /\ retryMs' = Doubled(retryMs)

\* "close": refused, lost, timed out or closed by either side.  The "error" of
\* a request that failed comes at once before it and repeats the state only.
Closed(s) ==
    /\ readyState[s] # "CLOSED"
    /\ readyState' = [readyState EXCEPT ![s] = "CLOSED"]
    /\ IF s = current
       THEN ScheduleReconnect
       ELSE UNCHANGED <<state, told, timer, retryMs, staleTimer, handshakeTimer>>
    /\ UNCHANGED <<current, authenticated, sent, history>>

----------------------------------------------------------------------------
(* Frames of the agent.  Those of any socket but the current one are       *)
(* dropped by the generation test.  The agent answers hello at most once.  *)

\* hello_ack: the subscription of a closing socket is lost in socket.send().
HelloAck ==
    /\ Receiving /\ sent = "hello" /\ reply = "none"
    /\ reply' = "ack"
    /\ handshakeTimer' = None
    /\ authenticated' = TRUE
    /\ retryMs' = 1
    /\ Notify("online")
    /\ sent' = IF readyState[current] = "OPEN" THEN "subscribe" ELSE sent
    /\ UNCHANGED <<readyState, current, timer, staleTimer,
                   carried, overlapped, stopped, calls, beat>>

\* metrics: ignored before authentication.
Metrics ==
    /\ Receiving
    /\ authenticated
    /\ Notify("online")
    /\ staleTimer' = current
    /\ beat' = 1 - beat
    /\ UNCHANGED <<readyState, current, authenticated, timer, retryMs,
                   handshakeTimer, sent, reply, carried, overlapped, stopped,
                   calls>>

\* error AUTH_FAILED
AuthFailed ==
    /\ Receiving /\ sent = "hello" /\ reply = "none"
    /\ reply' = "refused"
    /\ Notify("authentication-error")
    /\ readyState' = Close(readyState, current)
    /\ UNCHANGED <<current, authenticated, timer, retryMs, staleTimer,
                   handshakeTimer, sent, carried, overlapped, stopped, calls,
                   beat>>

\* Any other error message, and a frame that is not JSON.
AgentError ==
    /\ Receiving
    /\ Notify("agent-error")
    /\ UNCHANGED <<readyState, current, authenticated, timer, retryMs,
                   staleTimer, handshakeTimer, sent, history>>

----------------------------------------------------------------------------
(* Timers *)

\* The reconnect timer does not look at the socket before it connects.
ReconnectTimerFires(s) ==
    /\ timer
    /\ Unnamed(s)
    /\ Connect(s, readyState, authenticated)
    /\ timer' = FALSE
    /\ UNCHANGED <<retryMs, staleTimer, handshakeTimer,
                   overlapped, stopped, calls>>

\* A timeout that a later open() overwrote is not current: it does nothing.
HandshakeTimerFires ==
    /\ handshakeTimer # None
    /\ handshakeTimer' = None
    /\ IF handshakeTimer = current /\ ~authenticated
       THEN Notify("agent-error") /\ readyState' = Close(readyState, current)
       ELSE UNCHANGED <<readyState, state, told>>
    /\ UNCHANGED <<current, authenticated, timer, retryMs, staleTimer, sent,
                   history>>

\* Both timeouts last 5 s and the handshake's is armed first: it fires first.
StaleTimerFires ==
    /\ staleTimer # None
    /\ staleTimer # handshakeTimer
    /\ staleTimer' = None
    /\ IF staleTimer = current /\ state = "online"
       THEN Notify("metric-unavailable")
       ELSE UNCHANGED <<state, told>>
    /\ UNCHANGED <<readyState, current, authenticated, timer, retryMs,
                   handshakeTimer, sent, history>>

----------------------------------------------------------------------------
Init ==
    /\ readyState = [s \in Sockets |-> "CLOSED"]
    /\ current = None
    /\ state = "offline" /\ told = "offline"
    /\ authenticated = FALSE
    /\ timer = FALSE
    /\ retryMs = 1
    /\ staleTimer = None /\ handshakeTimer = None
    /\ sent = "nothing"
    /\ reply = "none" /\ carried = FALSE /\ overlapped = FALSE
    /\ stopped = FALSE /\ calls = 0 /\ beat = 0

Calls    == Stop \/ \E s \in Sockets : Start(s) \/ Reconnect(s)
Events   == \E s \in Sockets : Open(s) \/ PeerCloses(s) \/ Error(s) \/ Closed(s)

\* What parseAgentMessage() lets through, and frames that are not JSON; JSON that
\* is no message changes nothing.
Messages == HelloAck \/ Metrics \/ AuthFailed \/ AgentError

Timers   == \/ HandshakeTimerFires
            \/ StaleTimerFires
            \/ \E s \in Sockets : ReconnectTimerFires(s)

Next == Calls \/ Events \/ Messages \/ Timers

Spec == Init /\ [][Next]_vars

(***************************************************************************)
(* Fairness.  Node fires every pending timer.  A socket that is opening    *)
(* opens or fails (the operating system bounds the TCP connect; an agent   *)
(* that accepts and never answers the HTTP upgrade is excluded), and one   *)
(* that is closing is closed (ws destroys it after 30 s).  A pending stale *)
(* timer fires unless metrics keep re-arming it: `beat' makes the step of  *)
(* re-arming visible, so an agent that sends for ever keeps it from firing *)
(* for ever.  Nothing makes the agent answer, or an open socket close.     *)
(***************************************************************************)
Fairness ==
    /\ WF_vars(\E s \in Sockets : ReconnectTimerFires(s))
    /\ WF_vars(HandshakeTimerFires)
    /\ WF_vars(StaleTimerFires \/ (staleTimer # None /\ Metrics))
    /\ \A s \in Sockets :
         /\ WF_vars(readyState[s] = "CONNECTING" /\ (Open(s) \/ Closed(s)))
         /\ WF_vars(readyState[s] = "CLOSING" /\ Closed(s))

FairSpec == Spec /\ Fairness

----------------------------------------------------------------------------
(* Properties *)

\* Every variable has its type; the delay stays in 1 s, 2 s, ... 16 s, 30 s,
\* the series scheduleReconnect produces.
TypeOK ==
    /\ readyState \in [Sockets -> ReadyStates]
    /\ current \in Sockets \cup {None}
    /\ state \in ConnectionStates
    /\ told \in ConnectionStates
    /\ authenticated \in BOOLEAN
    /\ timer \in BOOLEAN
    /\ retryMs \in RetryDelays
    /\ staleTimer \in Sockets \cup {None}
    /\ handshakeTimer \in Sockets \cup {None}
    /\ sent \in {"nothing", "hello", "subscribe"}
    /\ reply \in {"none", "ack", "refused"}
    /\ carried \in BOOLEAN
    /\ overlapped \in BOOLEAN
    /\ stopped \in BOOLEAN
    /\ calls \in 0 .. MaxCalls
    /\ beat \in {0, 1}

\* However callbacks interleave, a connection whose newest socket is closed
\* has a reconnect scheduled, or the agent refused the token on that socket
\* (scheduleReconnect's early returns never lose the only retry).
RetryOrRefused ==
    current # None /\ readyState[current] = "CLOSED"
        => timer \/ reply = "refused"

\* Tiles read "offline" only of a connection that is really closed, has no
\* timeout left that could change the state, and is about to retry.
OfflineIsScheduled ==
    state = "offline" /\ current # None =>
        /\ readyState[current] = "CLOSED"
        /\ timer
        /\ staleTimer = None /\ handshakeTimer = None

\* A connection that began unauthenticated shows metrics (or their absence)
\* only after its own agent accepted the token: data of an unaccepted session
\* or of a superseded socket never reaches a tile.
MetricsNeedAck ==
    state \in {"online", "metric-unavailable"} /\ current # None /\ ~carried
        => reply = "ack"

\* While an unauthenticated connection waits on an open socket, the timeout
\* that ends the wait is pending and will act on that very socket.
HandshakeGuarded ==
    state = "connecting" /\ current # None /\ readyState[current] = "OPEN"
        /\ ~carried
        => handshakeTimer = current /\ ~authenticated

\* An online connection is watched: silence of 5 s will be noticed, and the
\* agent was sent the subscription that makes it talk.
OnlineIsWatched ==
    state = "online" /\ current # None /\ readyState[current] = "OPEN"
        /\ ~carried
        => staleTimer = current /\ sent = "subscribe"

\* Unless start() was called with a reconnect pending, no socket other than
\* the newest is open or opening, and a pending reconnect means it is closed.
OneLiveUnlessOverlapped ==
    ~overlapped =>
        /\ \A s \in Sockets : Live(s) => s = current
        /\ timer => current # None /\ readyState[current] = "CLOSED"

\* After stop() nothing that is still on its way (close events, frames,
\* timeouts) changes the state, tells a tile, or opens a socket.
StoppedIsQuiet ==
    [][stopped => /\ UNCHANGED <<state, told, timer, current>>
                  /\ \A s \in Sockets : readyState[s] = "CLOSED"
                                            => readyState'[s] = "CLOSED"]_vars

\* The listeners have been told the state the connection is in: no handler
\* changes it silently, none notifies before it is set.
ListenersInformed == told = state

----------------------------------------------------------------------------
(* What makes the invariants above inductive *)

\* connect() carries `authenticated' over; only hello_ack sets it.
AuthenticatedBy == authenticated <=> carried \/ reply = "ack"

\* A stopped connection has no socket, and no timer outlives the socket.
StopForgets ==
    /\ stopped => current = None
    /\ timer => current # None

\* Until the agent answers, both timeouts of the open socket are pending.
UnansweredIsTimed ==
    current # None /\ readyState[current] = "OPEN" /\ ~carried /\ reply = "none"
        => handshakeTimer = current /\ staleTimer = current /\ sent = "hello"

\* A socket that is opening has been told, answered and timed nothing yet.
OpeningIsFresh ==
    current # None /\ readyState[current] = "CONNECTING" =>
        /\ state = "connecting" /\ reply = "none"
        /\ Unnamed(current)

\* What the agent answered shows in the state and on the wire.
AnswersShow ==
    /\ reply = "ack" => state # "connecting"
    /\ current # None /\ readyState[current] = "OPEN" =>
         /\ reply # "refused"
         /\ reply = "ack" => sent = "subscribe"
    /\ state = "authentication-error" /\ current # None => reply = "refused"

Inv ==
    /\ TypeOK
    /\ ListenersInformed
    /\ RetryOrRefused
    /\ OfflineIsScheduled
    /\ MetricsNeedAck
    /\ HandshakeGuarded
    /\ OnlineIsWatched
    /\ OneLiveUnlessOverlapped
    /\ AuthenticatedBy
    /\ StopForgets
    /\ OpeningIsFresh
    /\ UnansweredIsTimed
    /\ AnswersShow

----------------------------------------------------------------------------
(* Liveness, under FairSpec *)

\* Steps of a network and an agent that are well: attempts succeed, hello is
\* accepted in time, nothing is closed but what the plugin closes.
Healthy ==
    \/ HelloAck \/ Metrics \/ StaleTimerFires
    \/ HandshakeTimerFires /\ (handshakeTimer # current \/ reply # "none")
    \/ \E s \in Sockets :
          Open(s) \/ ReconnectTimerFires(s) \/ (readyState[s] = "CLOSING" /\ Closed(s))

\* Whatever faults came before, in whatever order, a connection whose network
\* and agent stay well from some time on comes online by itself, unless its
\* token was refused: no history of errors, timeouts and superseded sockets
\* leads to a state the connection does not get out of.
Recovers ==
    /\ <>[][Healthy]_vars
    /\ WF_vars(HelloAck) /\ WF_vars(Metrics)
    /\ \A s \in Sockets : WF_vars(Open(s))
    => []<>(state = "online" \/ current = None \/ reply = "refused")

\* A connection that began unauthenticated does not stay in "connecting",
\* whatever its agent does after the upgrade.
ConnectingEnds ==
    state = "connecting" /\ ~carried ~> state # "connecting" \/ stopped

\* A connection that stays online for ever, as one to an agent that keeps
\* sending does, receives metrics again and again: no silence, after any history
\* of timers that fired, were cleared or were overwritten, stays unnoticed.
SilenceNoticed ==
    <>[](state = "online" /\ ~carried /\ ~stopped
            /\ readyState[current] = "OPEN") => []<><<Metrics>>_vars

----------------------------------------------------------------------------
(* Refinement of the contract *)

Contract == INSTANCE ConnectionContract WITH
    phase   <- IF stopped THEN "stopped"
               ELSE IF current = None THEN "idle" ELSE "running",
    live    <- current # None /\ readyState[current] # "CLOSED",
    retry   <- timer,
    refused <- reply = "refused"

\* Every run of the connection is one its contract allows: a listener can rely
\* on the contract and forget sockets, generations and timers.
ContractHolds == Contract!Spec

\* With Node's timers it also keeps the contract's promise to retry.
FairContractHolds == Contract!FairSpec

----------------------------------------------------------------------------
(* Statements of the repository that the code does not meet *)

\* README.md: one shared WebSocket connection per Linux host.
OneSharedConnection ==
    \A s, t \in Sockets : readyState[s] = "OPEN" /\ readyState[t] = "OPEN"
                              => s = t

\* The test "leaves connecting state when the agent never completes the
\* handshake", of any attempt and not only of the first.
LeavesConnecting == state = "connecting" ~> state # "connecting" \/ stopped

\* A refused token is shown as authentication-error for as long as the
\* connection that was refused is the newest one.
AuthenticationErrorShown ==
    reply = "refused" => state = "authentication-error"
=============================================================================
