-------------------------------- MODULE Tiles --------------------------------
(***************************************************************************)
(* The tiles of the plugin, MetricDisplayAction, and the ConnectionManager *)
(* that gives them connections.  A connection does what ConnectionContract *)
(* promises: each has a copy of the contract's variables in `conn', and    *)
(* every change of them is a step of the contract.                         *)
(*                                                                         *)
(* Handlers of the Stream Deck application's events, and callbacks of the  *)
(* connections, run one at a time; only onKeyDown() waits in between.  The *)
(* events come as module TileEvents says.                                  *)
(*                                                                         *)
(* Conns is a pool: the slot of a connection that nothing refers to stands *)
(* for the next one.  All tiles display the same metric of a snapshot.     *)
(***************************************************************************)
EXTENDS Naturals, Functions

CONSTANTS
    Tile,        \* the keys of the Stream Deck that hold a tile
    Host, Token, \* what settings may name; a host stands for host:port
    Conns,       \* the AgentConnection objects
    Value,       \* the values a metric may have
    NoConn,      \* no connection
    NoValue,     \* no snapshot, or none of the tile's metric
    Invalid,     \* settings that parseConnectionSettings rejects
    MaxPresses   \* bound on the key presses of a tile still unanswered

ASSUME NoConnAssumption  == NoConn \notin Conns
ASSUME NoValueAssumption == NoValue \notin Value
ASSUME InvalidAssumption == Invalid \notin [host : Host, token : Token]
ASSUME PressAssumption   == MaxPresses \in Nat

VARIABLES
    \* ConnectionManager and its connections
    connections,    \* the map from host:port
    address,        \* host and token it was made for; Invalid when unused
    conn,           \* the contract's variables of each connection
    snapshot,       \* its MetricStore: the tile's metric in the snapshot
    listeners,      \* the tiles whose listener each connection calls
    \* MetricDisplayAction
    subscriptions,  \* the connection each tile would unsubscribe from
    using,          \* the settings its last connect() was called with
    last,           \* lastState, lastValue, lastRenderedAt of its listener
    pressing,       \* calls of onKeyDown waiting for settings
    answered,       \* the settings those have got that did not continue yet
    \* the Stream Deck application
    visible,        \* the tile is on the deck
    settings,       \* the tile's settings
    shown           \* what was last drawn on the key, and by whom

manager == <<connections, address, conn, snapshot, listeners>>
tiles   == <<subscriptions, using, last, pressing, answered>>
deck    == <<visible, settings, shown>>
vars    == <<manager, tiles, deck>>

Settings == [host : Host, token : Token]

Events == INSTANCE TileEvents WITH Settings <- Settings \cup {Invalid}

States == {"connecting", "online", "offline", "authentication-error",
           "agent-error", "metric-unavailable"}

Contract(c) == INSTANCE ConnectionContract WITH
    state <- conn[c].state, phase <- conn[c].phase, live <- conn[c].live,
    retry <- conn[c].retry, refused <- conn[c].refused

----------------------------------------------------------------------------
(* The listener of a tile *)

\* A tile that listens to nothing, and a listener not called yet.
Deaf == [state |-> "undefined", value |-> NoValue, throttled |-> FALSE]

\* Mutant: the throttle holds back every state, not only "online".
SkipsAny(l, st, v) == (st = l.state /\ v = l.value) \/ l.throttled

\* What the listener does not draw: what it drew last, and anything online
\* before refreshInterval has passed.  `throttled' says it has not passed.
Skips(l, st, v) ==
    \/ st = l.state /\ v = l.value
    \/ st = "online" /\ l.throttled

\* Mutant: lastState and lastValue are set before the throttle returns.
HearFirst(l, st, v) ==
    [l EXCEPT !.state = st, !.value = v, !.throttled = @ \/ ~Skips(l, st, v)]

Hear(l, st, v) ==
    IF Skips(l, st, v) THEN l
    ELSE [l EXCEPT !.state = st, !.value = v, !.throttled = TRUE]

\* What renderMetric() makes of a metric and a state, with the title
Image(st, v) == [by |-> "listener", state |-> st, value |-> v]

Draw(screen, l, st, v) == IF Skips(l, st, v) THEN screen ELSE Image(st, v)

\* Nothing is on a key that is not on the deck.
Blank == [by |-> "nobody", state |-> "undefined", value |-> NoValue]

\* renderMetric(..., "agent-error"), "Agent error"
Failure == [by |-> "failure", state |-> "agent-error", value |-> NoValue]

\* setImage() and setTitle() of a tile that is gone draw nothing.
Seen(t, screen) == IF visible'[t] THEN screen ELSE Blank

\* A connection calls each of `audience' with its state and a snapshot.
Tell(audience, st, v) ==
    /\ last' = [t \in Tile |-> IF t \in audience THEN Hear(last[t], st, v)
                                                 ELSE last[t]]
    /\ shown' = [t \in Tile |-> IF t \in audience
                                THEN Seen(t, Draw(shown[t], last[t], st, v))
                                ELSE shown[t]]

----------------------------------------------------------------------------
(* Callbacks of the connections *)

\* Connection c takes a step of its contract to r, and notifies its listeners.
Notify(c, r, v) ==
    /\ UNCHANGED <<connections, address, listeners, subscriptions, using,
                   pressing, answered, visible, settings>>
    /\ conn' = [conn EXCEPT ![c] = r]
    /\ Tell(listeners[c], r.state, v)

Trying(r) == [r EXCEPT !.phase = "running", !.state = "connecting",
                       !.live = TRUE, !.refused = FALSE]

Retry(c) ==
    /\ Notify(c, [Trying(conn[c]) EXCEPT !.retry = FALSE], NoValue)
    /\ Contract(c)!Retry
    /\ UNCHANGED snapshot

\* The state may be "online" already: where `authenticated' was carried over,
\* metrics may come before hello_ack.
HelloAck(c) ==
    /\ Notify(c, [conn[c] EXCEPT !.state = "online"], NoValue)
    /\ Contract(c)!Accept
    /\ UNCHANGED snapshot

\* What selectMetric() finds in a snapshot: a value, or none
Selected == Value \cup {NoValue}

\* MetricStore.update(): nobody listens to the store itself.
Update(c, v) == snapshot' = [snapshot EXCEPT ![c] = v]

\* metrics: the store keeps the snapshot, whether or not a tile draws it.
Metrics(c, v) ==
    /\ Notify(c, [conn[c] EXCEPT !.state = "online"], v)
    /\ Contract(c)!Accept
    /\ Update(c, v)

Refuse(c) ==
    /\ Notify(c, [conn[c] EXCEPT !.state = "authentication-error",
                                 !.refused = TRUE], NoValue)
    /\ Contract(c)!Refuse
    /\ UNCHANGED snapshot

Fault(c) ==
    /\ Notify(c, [conn[c] EXCEPT !.state = "agent-error"], NoValue)
    /\ Contract(c)!Fault
    /\ UNCHANGED snapshot

Stale(c) ==
    /\ Notify(c, [conn[c] EXCEPT !.state = "metric-unavailable"], NoValue)
    /\ Contract(c)!Stale
    /\ UNCHANGED snapshot

\* "error" of a socket that is not closed yet: the state is repeated, and the
\* listeners take it for a state without a metric.
Error(c) ==
    /\ conn[c].live
    /\ Notify(c, conn[c], NoValue)
    /\ UNCHANGED snapshot

\* "close": scheduleReconnect() announces the retry ...
Lose(c) ==
    /\ Notify(c, [conn[c] EXCEPT !.live = FALSE, !.state = "offline",
                                 !.retry = TRUE], NoValue)
    /\ Contract(c)!Lose
    /\ UNCHANGED snapshot

\* ... or returns at once, and nobody is told.
LoseSilently(c) ==
    /\ conn' = [conn EXCEPT ![c].live = FALSE]
    /\ Contract(c)!Lose
    /\ UNCHANGED <<connections, address, snapshot, listeners, tiles, deck>>

\* The host woke up: reconnectAll()
WakeUp ==
    LET managed == {c \in Conns : \E h \in Host : connections[h] = c} IN
    /\ managed # {}
    /\ conn' = [c \in Conns |-> IF c \in managed
                                THEN [Trying(conn[c]) EXCEPT !.retry = FALSE]
                                ELSE conn[c]]
    /\ \A c \in managed : Contract(c)!Attempt
    /\ UNCHANGED <<connections, address, snapshot, listeners, subscriptions,
                   using, pressing, answered, visible, settings>>
    /\ Tell(UNION {listeners[c] : c \in managed}, "connecting", NoValue)

----------------------------------------------------------------------------
(* connect(action, settings) of a tile *)

Idle == [state |-> "offline", phase |-> "idle", live |-> FALSE,
         retry |-> FALSE, refused |-> FALSE]

Created == Trying(Idle)

\* Mutant: the connection is not told to stop.
OverLater(r) == r

Over(r) == [r EXCEPT !.phase = "stopped", !.live = FALSE, !.retry = FALSE,
                     !.refused = FALSE]

\* Mutant: the function that on() returned is not called.
UnsubscribedNot(t) == listeners

\* subscriptions.get(action.id)?.()
Unsubscribed(t) ==
    [c \in Conns |-> IF c = subscriptions[t] THEN listeners[c] \ {t}
                                             ELSE listeners[c]]

\* The manager has map m of connections cs with addresses as and snapshots
\* ss, and ls listen; what nothing refers to any more is garbage, and so is the
\* snapshot of a connection that gets no new listeners.
Manage(m, as, cs, ss, ls) ==
    LET used(c) == ls[c] # {} \/ \E h \in Host : m[h] = c IN
    /\ connections' = m
    /\ listeners' = ls
    /\ address' = [c \in Conns |-> IF used(c) THEN as[c] ELSE Invalid]
    /\ conn' = [c \in Conns |-> IF used(c) THEN cs[c] ELSE Idle]
    /\ snapshot' = [c \in Conns |-> IF \E h \in Host : m[h] = c THEN ss[c]
                                                              ELSE NoValue]

Forget(t) ==
    /\ Manage(connections, address, conn, snapshot, Unsubscribed(t))
    /\ subscriptions' = [subscriptions EXCEPT ![t] = NoConn]
    /\ last' = [last EXCEPT ![t] = Deaf]

\* Settings that are not valid leave the tile without a subscription.
ConnectNowhere(t) ==
    Forget(t) /\ shown' = [shown EXCEPT ![t] = Seen(t, Failure)]

\* connection.on(listener): the new listener is called at once, with the
\* snapshot in store.  Before that, start() may have called `others'.
Listen(t, c, others) ==
    LET told(u) == IF u = t THEN Hear(Deaf, conn'[c].state, snapshot'[c])
                   ELSE IF u \in others THEN Hear(last[u], conn'[c].state, NoValue)
                   ELSE last[u]
        seen(u) == IF u = t
                   THEN Draw(shown[u], Deaf, conn'[c].state, snapshot'[c])
                   ELSE IF u \in others
                   THEN Draw(shown[u], last[u], conn'[c].state, NoValue)
                   ELSE shown[u]
    IN  /\ subscriptions' = [subscriptions EXCEPT ![t] = c]
        /\ last' = [u \in Tile |-> told(u)]
        /\ shown' = [u \in Tile |-> Seen(u, seen(u))]

Subscribed(t, c) == [Unsubscribed(t) EXCEPT ![c] = @ \cup {t}]

\* Mutant: getToken() is not compared.
ShareAnyToken(t, s) == \E c \in Conns :
    /\ c = connections[s.host]
    /\ conn[c].live
    /\ Manage(connections, address, conn, snapshot, Subscribed(t, c))
    /\ Listen(t, c, {})

\* get() finds a connection with this token: start() has no effect while the
\* socket is open or opening.
Share(t, s) == \E c \in Conns :
    /\ c = connections[s.host] /\ address[c].token = s.token
    /\ \/ /\ conn[c].live
          /\ Manage(connections, address, conn, snapshot, Subscribed(t, c))
          /\ Listen(t, c, {})
       \/ /\ Manage(connections, address, [conn EXCEPT ![c] = Trying(@)],
                    snapshot, Subscribed(t, c))
          /\ Contract(c)!Attempt
          /\ Listen(t, c, Unsubscribed(t)[c])

\* Mutant: the map forgets the host after the new connection was stored.
OpenThenDelete(t, s) ==
    LET old  == connections[s.host]
        free == {c \in Conns : /\ Unsubscribed(t)[c] = {}
                               /\ \A h \in Host : connections[h] # c}
    IN \E c \in free :
        /\ old # NoConn => address[old].token # s.token
        /\ Manage([connections EXCEPT ![s.host] = IF old = NoConn THEN c ELSE NoConn],
                  [address EXCEPT ![c] = s],
                  [d \in Conns |-> IF d = c THEN Created
                                   ELSE IF d = old THEN Over(conn[d])
                                   ELSE conn[d]],
                  [snapshot EXCEPT ![c] = NoValue],
                  Subscribed(t, c))
        /\ Listen(t, c, {})

\* get() finds none, or one with another token, which it stops: tiles that
\* listen to that one are not told.
Open(t, s) ==
    LET old  == connections[s.host]
        free == {c \in Conns : /\ Unsubscribed(t)[c] = {}
                               /\ \A h \in Host : connections[h] # c}
    IN \E c \in free :
        /\ old # NoConn => address[old].token # s.token
        /\ Manage([connections EXCEPT ![s.host] = c],
                  [address EXCEPT ![c] = s],
                  [d \in Conns |-> IF d = c THEN Created
                                   ELSE IF d = old THEN Over(conn[d])
                                   ELSE conn[d]],
                  [snapshot EXCEPT ![c] = NoValue],
                  Subscribed(t, c))
        /\ Listen(t, c, {})

Connect(t, s) ==
    \/ s = Invalid /\ ConnectNowhere(t)
    \/ s # Invalid /\ (Share(t, s) \/ Open(t, s))

----------------------------------------------------------------------------
(* Events of the Stream Deck application *)

WillAppear(t) ==
    /\ Events!WillAppear(t)
    /\ Connect(t, settings[t])

\* Mutant: the tile keeps its subscription when it goes.
WillDisappearOnly(t) ==
    /\ visible[t]
    /\ visible' = [visible EXCEPT ![t] = FALSE]
    /\ shown' = [shown EXCEPT ![t] = Blank]
    /\ UNCHANGED <<manager, tiles, settings>>

WillDisappear(t) ==
    /\ Events!WillDisappear(t)
    /\ Forget(t)
    /\ shown' = [shown EXCEPT ![t] = Blank]

Configure(t, s) ==
    /\ Events!Configure(t, s)
    /\ Connect(t, s)

\* onKeyDown() asks, after its own title was set, which is left out; the tile
\* may be gone by then.
KeyDown(t) ==
    /\ pressing[t] < MaxPresses
    /\ Events!KeyDown(t)
    /\ UNCHANGED <<manager, subscriptions, last, shown>>

SettingsArrive(t) ==
    /\ Events!SettingsArrive(t)
    /\ \/ visible[t] /\ Connect(t, settings[t])
       \/ ~visible[t] /\ UNCHANGED <<manager, subscriptions, last, shown>>

KeyDownContinues(t, s) ==
    /\ Events!KeyDownContinues(t, s)
    /\ Connect(t, s)

\* Mutant: the request times out although it was answered.
SettingsTimeOutAnyway(t) ==
    /\ pressing' = [pressing EXCEPT ![t] = @ - 1]
    /\ UNCHANGED <<manager, subscriptions, using, last, answered, visible, settings>>
    /\ shown' = [shown EXCEPT ![t] = Seen(t, Failure)]

\* The key shows a failure, and the subscription stays.
SettingsTimeOut(t) ==
    /\ Events!SettingsTimeOut(t)
    /\ shown' = [shown EXCEPT ![t] = Seen(t, Failure)]
    /\ UNCHANGED <<manager, subscriptions, last>>

\* refreshInterval has passed since lastRenderedAt.
IntervalPasses(t) ==
    /\ last[t].throttled
    /\ last' = [last EXCEPT ![t].throttled = FALSE]
    /\ UNCHANGED <<manager, subscriptions, using, pressing, answered, deck>>

----------------------------------------------------------------------------
(* Specification *)

Init ==
    /\ Events!Init
    /\ connections = [h \in Host |-> NoConn]
    /\ address = [c \in Conns |-> Invalid]
    /\ conn = [c \in Conns |-> Idle]
    /\ snapshot = [c \in Conns |-> NoValue]
    /\ listeners = [c \in Conns |-> {}]
    /\ subscriptions = [t \in Tile |-> NoConn]
    /\ last = [t \in Tile |-> Deaf]
    /\ shown = [t \in Tile |-> Blank]

Connection(c) ==
    \/ Retry(c) \/ HelloAck(c) \/ Refuse(c) \/ Fault(c) \/ Stale(c)
    \/ Error(c) \/ Lose(c) \/ LoseSilently(c)
    \/ \E v \in Selected : Metrics(c, v)

Deck(t) ==
    \/ WillAppear(t) \/ WillDisappear(t)
    \/ KeyDown(t) \/ SettingsArrive(t) \/ SettingsTimeOut(t)
    \/ \E s \in Settings \cup {Invalid} : Configure(t, s) \/ KeyDownContinues(t, s)

\* Sockets call back, and timers fire, when the promises have continued.
Later ==
    /\ Events!Continued
    /\ \/ \E c \in Conns : Connection(c)
       \/ \E t \in Tile : IntervalPasses(t)

Next ==
    \/ WakeUp
    \/ \E t \in Tile : Deck(t)
    \/ Later

Spec == Init /\ [][Next]_vars

----------------------------------------------------------------------------
(* Properties *)

Contracts == [state : States, phase : {"idle", "running", "stopped"},
              live : BOOLEAN, retry : BOOLEAN, refused : BOOLEAN]

\* Every variable has its type.
TypeOK ==
    /\ connections \in [Host -> Conns \cup {NoConn}]
    /\ address \in [Conns -> Settings \cup {Invalid}]
    /\ conn \in [Conns -> Contracts]
    /\ snapshot \in [Conns -> Value \cup {NoValue}]
    /\ listeners \in [Conns -> SUBSET Tile]
    /\ subscriptions \in [Tile -> Conns \cup {NoConn}]
    /\ using \in [Tile -> Settings \cup {Invalid}]
    /\ last \in [Tile -> [state : States \cup {"undefined"},
                          value : Value \cup {NoValue}, throttled : BOOLEAN]]
    /\ pressing \in [Tile -> 0 .. MaxPresses]
    /\ answered \in [Tile -> SUBSET (Settings \cup {Invalid})]
    /\ visible \in [Tile -> BOOLEAN]
    /\ settings \in [Tile -> Settings \cup {Invalid}]
    /\ shown \in [Tile -> [by : {"nobody", "listener", "failure"},
                           state : States \cup {"undefined"},
                           value : Value \cup {NoValue}]]

\* A connection calls a tile's listener exactly if the tile can unsubscribe it:
\* no order of appearing, disappearing, key presses and settings leaves a
\* listener behind or counts a tile twice.
SubscriptionsMatch ==
    \A t \in Tile, c \in Conns : t \in listeners[c] <=> subscriptions[t] = c

\* A tile whose settings are valid listens, and to a connection made for the
\* host and the token that it was last told to use, whatever the other tiles'
\* key presses and settings made of the manager's map meanwhile.
ListensAsConfigured ==
    \A t \in Tile :
        /\ subscriptions[t] = NoConn <=> using[t] = Invalid
        /\ \A c \in Conns : subscriptions[t] = c => address[c] = using[t]

\* A connection that runs is the one the manager has for its host: tiles with
\* changing tokens never leave two running, and reconnectAll() reaches them all.
OneRunningPerHost ==
    \A c \in Conns :
        conn[c].phase = "running" =>
            address[c] # Invalid /\ connections[address[c].host] = c

\* A tile may be left with a stopped connection, which never calls it again,
\* but only because the host has another connection that runs.
FrozenOnlyIfReplaced ==
    \A t \in Tile, c \in Conns :
        subscriptions[t] = c /\ conn[c].phase # "running" =>
            \E d \in Conns \ {c} : /\ connections[using[t].host] = d
                                   /\ conn[d].phase = "running"

\* A connection whose end its listeners are not told of: get() stopped it for
\* another token, or a retry was scheduled before it closed, which start() had
\* overtaken.
EndsUntold(c) == conn[c].phase = "stopped" \/ conn[c].retry

\* Whatever the throttle drops and the key press interrupts, a key on the deck
\*  - shows its connection's state, or one that "online" has replaced since and
\*    the throttle holds back;
\*  - shows "offline" or a refused token only as long as that is the state;
\*  - looks connecting, online or without metrics only while the newest attempt
\*    is alive, or where the end of the attempt is not told (EndsUntold).
ImageIsTrue ==
    \A t \in Tile, c \in Conns :
        visible[t] /\ subscriptions[t] = c /\ shown[t].by = "listener" =>
            LET image == shown[t].state IN
            /\ image = conn[c].state \/ conn[c].state = "online"
            /\ image \in {"offline", "authentication-error"}
                 => image = conn[c].state
            /\ image \in {"connecting", "online", "metric-unavailable"}
                 => conn[c].live \/ EndsUntold(c)

\* What the listener takes for drawn, and will not draw again, is on the key:
\* an update the throttle dropped, however often the connection goes down and
\* up, is drawn when it is repeated after refreshInterval.
RememberedIsShown ==
    \A t \in Tile :
        visible[t] /\ shown[t].by = "listener" =>
            shown[t].state = last[t].state /\ shown[t].value = last[t].value

\* No order of events, and no other tile, gives a tile settings that are not
\* its present ones, or subscribes one that is gone; only a key press does that
\* continues with an answer which later events overtook.
OnlyLateAnswersMislead == Events!OnlyLateAnswersMislead

=============================================================================
