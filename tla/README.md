# NodeDeck: a verification development

NodeDeck shows metrics of Linux hosts on the keys of an Elgato Stream Deck.  An
agent written in Go collects metrics and serves them over a WebSocket; a plugin
written in TypeScript keeps one connection per host and draws the tiles.  This
directory holds TLA+ modules that model the stateful parts of both, and of the
two libraries the plugin stands on (the WebSocket client `ws` and the Stream Deck
SDK, bundled with it); TLC configurations that check them on small instances; and
TLAPS proofs of their safety properties.  All line numbers refer to `src/`, and
`plugin.js` is `windows-plugin/com.nodedeck.monitor.sdPlugin/plugin.js`.

## The system

```
 Stream Deck application      plugin (one Node process)                                agent (one per host)
   events, settings -->  SDK --> MetricDisplayAction --> ConnectionManager
   <-- images, titles                 ^                        | start, reconnect, stop
                                      | listener(state,        v
                                      |   snapshot)      AgentConnection --> ws <==> Handler, session
                                      +----------------  3 timers                     | reads
                                                                       Collector --> Store
```

| component | state | operations | hard because |
|---|---|---|---|
| `AgentConnection` (`connection/agent-connection.ts`) | newest socket and generation, state shown, `authenticated`, retry delay, reconnect, handshake and stale timers, latest snapshot, listeners | `start`, `reconnect`, `stop`, `on`; open, message, close and error events; three timer callbacks | every order of manager calls, events of old and new sockets, frames and timeouts |
| `ConnectionManager` (`connection/connection-manager.ts`) | map host:port to connection | `get`, `reconnectAll` | `get` restarts, shares or replaces connections that others listen to |
| `MetricDisplayAction` (`actions/metric-display.ts`) | subscription per key; per listener the last state, value and time rendered | appear, disappear, key press, settings, listener | `await` between reading settings and subscribing; throttle |
| WebSocket client `ws` (`plugin.js` 10253-10909, 12099-13433) | request, raw socket, `readyState`, decoder of frames, close handshake and its timer | `close`, `send`; events of the request, the raw socket and the receiver's stream | bytes cut anywhere, either side closing, half-closing or breaking at any time, listeners that close or throw |
| Stream Deck SDK (`plugin.js` 64-230, 7391-7467, 7584-7873, 8151-8724) | store of actions, event listeners, pending `getSettings` | routing of events, `getSettings` | answers share an event with edits; listeners removed while they are called; promises and timers between chunks of events |
| `MetricStore`, selectors, renderer, settings, protocol messages | latest snapshot; otherwise pure | `update`, `get`; parsing, choice, layout | boundaries of validation |
| `Handler` (`internal/server/handler.go`) | per session: subscription, reader goroutine, two channels, two tickers | hello, subscribe, ping, push, heartbeat | two goroutines and a client that may send anything, stall or go away |
| `Store` (`internal/metrics/store.go`) | latest snapshot, ready | `Run`, `update`, `Snapshot` | slow and failing updates while sessions read |
| `Collector` (`internal/metrics/collector.go`) | caches with their times, counters, results of Custom Metrics | `Collect`; `runCustom` | intervals, by-value copies, races of a command with its deadline and output limit |
| configuration, entry points | settings | load, wire, shut down | - |

What makes each part correct:

- **AgentConnection**: whatever happens, a connection that is not alive will
  retry unless its token was refused; what tiles are told is true (offline means
  down and retrying, online means accepted and watched); old sockets and timers
  have no effect; one socket at a time; a stopped connection stays silent.
- **Manager and tiles**: a tile listens to exactly the connection its settings
  name, as long as it is visible, and shows that connection's state.
- **ws**: the owner gets exactly the messages the agent's frames say; "open",
  messages and "close" come in this order, "close" once, and it does come.
- **SDK**: a tile hears of every change of its settings; no key press waits for
  an answer that was handed over; every press ends.
- **Session**: messages are handled once and in order; nothing but a refusal
  precedes an accepted hello; pushes follow the latest acceptable subscription;
  the session and its goroutine end.
- **Store and Collector**: what sessions read never goes back in time; intervals
  are kept; results and rates say what happened.

## Modules

| module | models | role |
|---|---|---|
| `AgentConnection` | the class, its sockets and timers | component, properties, inductive invariant, refinement mapping |
| `ConnectionContract` | what a connection promises tiles and manager | abstract specification |
| `Tiles` | `ConnectionManager`, `MetricDisplayAction`, the latest snapshot | composes tiles with connections, each an instance of `ConnectionContract` |
| `TileEvents` | what reaches a tile from the Stream Deck application, and in which order | abstract specification, instantiated by `Tiles` |
| `StreamDeck` | the SDK between the application and the tiles | component, shown to implement `TileEvents` |
| `Receiver` | the frame decoder of ws, and the reference it is compared with | part of `WebSocket` |
| `WebSocket` | a client WebSocket object of ws with its receiver, its raw socket and its owner | component, shown to implement `SocketContract` |
| `SocketContract` | what a WebSocket promises its owner | abstract specification |
| `Session` | `ServeHTTP`, `runSession`, the reader goroutine | component |
| `Collector` | `Store.Run`, `Store.update`, `Collector.Collect` | component |
| `AgentConnectionProofs`, `ConnectionContractProofs`, `TilesProofs`, `StreamDeckProofs`, `WebSocketProofs`, `SessionProofs`, `CollectorProofs` | - | theorems |
| `Induction` | - | lemmas for the proofs: induction over numbers and along sequences |
| `MCAgentConnection`, `MCTiles`, `MCStreamDeck`, `MCWebSocket`, `MCSession`, `MCCollector` | - | bounds for TLC |

The plugin is thus modelled in layers.  `WebSocket` implements `SocketContract`,
against whose promises `AgentConnection` is written (its `readyState`, `Open`,
`Closed`, `Error` and `PeerCloses` take them for granted); `AgentConnection` implements
`ConnectionContract`, an instance of which stands for each connection in `Tiles`;
`StreamDeck` implements `TileEvents`, whose actions are conjuncts of those of
`Tiles`.  `Tiles` also implements `TileEvents` (theorem `ImplementsEvents`), so
connections and tiles ask nothing of the SDK that it does not do.

Each module holds, before the definitions they change, operators marked *mutant*:
what a slip in the code would make of a definition.  No action uses them; each
property is known to fail with one of them in place.

### AgentConnection

Node runs one callback at a time, so each method, event handler and timer
callback is one action; what interleaves is their order.

| code | model |
|---|---|
| `socket`, `generation` | `current`: the socket of the newest `connect()`, `None` after `stop()`. Generations are only compared with the newest, so `generation === this.generation` is `s = current` |
| `socket.readyState` of every object | `readyState`, a function on `Sockets`. A CLOSED object emits nothing more; its slot is used for a new object once no timer names it |
| `state`, `notify` | `state`, and `told`, what listeners last heard |
| `timer`, `retryMs` | `timer` (pending or not), `retryMs` in seconds |
| `staleTimer`, `handshakeTimer` | the socket whose timeout is pending. A handshake timeout that a later `open` overwrote belongs to an old generation and does nothing: it is dropped |
| messages sent | `sent`: nothing, hello, subscribe on the current socket |
| `start`, `reconnect`, `stop` | `Start`, `Reconnect`, `Stop` |
| open, close, error handlers | `Open`, `Closed` with `ScheduleReconnect`, `Error`, which repeats the state. The error of a failed request is part of `Closed`. `PeerCloses` is ws, not the class: the peer's close frame or end of stream, of which the class hears nothing before `close` |
| message handler, by frame | `HelloAck`, `Metrics`, `AuthFailed`, `AgentError` (other errors, invalid frames). Frames still arrive while a socket is CLOSING, as in ws |
| timer callbacks | `ReconnectTimerFires`, `HandshakeTimerFires`, `StaleTimerFires` |

The agent is any process that answers hello at most once (with `hello_ack` or
`AUTH_FAILED`), sends nothing after a refusal (`handler.go:49-50`), and otherwise
sends what it likes, metrics before `hello_ack` and invalid frames included.
The handshake and stale timeouts both last 5 s and the handshake's is armed
first, so Node fires it first.  `reply`, `carried`, `overlapped`, `stopped`,
`calls` and `beat` are history: properties, fairness and the bound read them, no
step of the code does.  `beat` alternates with every metrics frame, so that a
frame that only re-arms the stale timer is a visible step.  `carried` says that `connect()` began with `authenticated` still TRUE from
the session before, `overlapped` that a `start()` left a reconnect pending; the
first is what the properties about the handshake must exclude, the second what
the single-socket property must exclude, and the violation runs show that both
exclusions are necessary.

The contract keeps only the state shown, whether the newest attempt is alive,
whether a retry is coming and whether the attempt was refused.
`AgentConnection!Contract` is the refinement mapping.

### Tiles

`Tiles` is about who listens to whom, so a connection is reduced to what
`AgentConnection` was proved to implement: `Contract(c)` is an instance of
`ConnectionContract` for every connection, and each callback (`Retry`,
`HelloAck`, `Metrics`, `Refuse`, `Fault`, `Stale`, `Lose`) is a step of it
followed by the calls of the listeners that `notify` makes.  `Error` leaves the
connection as it is and calls them too, with the same state and without a
snapshot; `LoseSilently` is the close event of which `scheduleReconnect` tells
nobody, because a retry is pending or a refusal is shown.

| code | model |
|---|---|
| `ConnectionManager.connections` | `connections`, by host (a host stands for host:port) |
| an `AgentConnection` | a slot of `Conns`: `address` (url and token), `conn` (the contract's variables), `snapshot`, `listeners`. `Manage` clears the slot of an object that nothing refers to any more |
| `get`: same token, other token, none | `Share`, `Open`; `start()` has no effect on a live socket, but may reconnect one that is closing |
| `reconnectAll` | `WakeUp` |
| `subscriptions` | `subscriptions`, the connection the stored function unsubscribes from |
| `lastState`, `lastValue`, `lastRenderedAt` | `last`; `throttled` says that refreshInterval has not passed, and `IntervalPasses` ends it at any time, at once for an interval of 0 |
| `setImage`, `setTitle` | `shown`: the state and value drawn and whether the listener or a failure drew them |
| `onWillAppear`, `onWillDisappear`, `onDidReceiveSettings` | `WillAppear`, `WillDisappear`, `Configure`; each conjoins the action of `TileEvents` with what the handler does |
| `onKeyDown` | `KeyDown`; the settings arrive (`SettingsArrive`, or `Configure` when an edit answers the press), `KeyDownContinues` after the events of the same chunk, or `SettingsTimeOut` after the SDK's 15 s |

`didReceiveSettings` is both the answer to `getSettings` and the news of an
edit.  A press that was answered continues only when every event of the chunk
was handled, so the tile may be gone or configured again by then:
`OnlyLateAnswersMislead` says that this is the only way a tile gets settings that
are not its present ones.

`ImageIsTrue` says what a key may show.  It names three exceptions, all of them
the code's.  An online connection may find another image on the key, because the
throttle holds back "online" until refreshInterval has passed.  A key may look
connecting, online or without metrics on a connection that is down if `get`
stopped that connection for another token (its tiles are not told), or if a retry
was pending when it closed (`agent-connection.ts:98`; the key shows the lost
session until the retry).  Beyond these no key looks alive on a connection that
is down, and none shows offline or a refused token once that is over.

Left out: the title a key press draws, `displayValue` and the fields of a
snapshot (a snapshot has a value for the tile or none), and a host that the
settings accept but `new WebSocket` does not.

### StreamDeck

| code | model |
|---|---|
| the application's socket | `events`, `commands`: first in, first out.  One chunk may hold several events: `inChunk` |
| `EventEmitter` of `didReceiveSettings` | `listeners`, in order: `"route"` is the action's, the others are pending requests |
| `emit()` by index while listeners remove themselves | `Emitted`: the listener behind one that removed itself is skipped |
| `ActionStore` | `actionStore`; handlers of actions that are not in it are not called, `willDisappear` excepted |
| `getSettings`, `#fetch` | `OnKeyDown` (waits for its title), `Ask` (listens, then sends), `Continue`, `Timeout` |
| promises, then timers | `Ask` and `Continue` need `~inChunk`; `Timeout` and the first event of the next chunk need `Quiet` |

`useExperimentalMessageIdentifiers` is off, as in the bundle: no cache of settings.
The application shows and hides keys, passes presses and edits on, and answers
every `getSettings` with the settings the key has when it answers; `AnswerKey`
has no fairness, so an answer may be late without bound.

### Receiver and WebSocket

| code | model |
|---|---|
| `_buffers`, `consume` | `buffers`, the bytes joined; a frame's first two bytes are records of their bit fields |
| `_state`, `_fin`, `_opcode`, `_payloadLength`, `_fragmented`, `_totalPayloadLength`, `_fragments` | `at`, `frame`, `message` |
| `startLoop` | each round is an action (`GetInfo`, `GetPayloadLength16`, ..., `Message`, `Concludes`); `loop` is TRUE from the write to the end of the loop, and nothing else happens meanwhile |
| Node's `Writable` | `writing`, `unwritten`, `ended`, `finished`, `errorEmitted`; "error" and "finish" come in later ticks (`EmitError`, `EmitFinish`) |
| `_readyState`, `_req`, `_closeFrameReceived`, `_closeFrameSent`, `_closeTimer` | `readyState`, `req`, `received`, `sent`, `closeTimer` |
| the raw socket | `socket`, `listening`, `paused`, `peerEnded`, `weEnded` |
| the owner | `OwnerCloses` at any time, or from a listener of "message" (`Message`), which may also throw (`MessageThrows`) |

The agent's frames are any sequence of `Scripts`, correct or not.  `Said` is the
reference: what a sequence of frames says by RFC 6455 and maxPayload, frame by
frame, without bytes, chunks or states; `MessagesIntact` compares.  The agent
negotiates no deflate; texts are validated as UTF-8 as a whole.  Messages the
owner sends are writes to the raw socket and change nothing here.

### Session

`log` is what the client sends, `read` how much of it ReadJSON returned; the
reader goroutine (`reader`, `held`), the channels (`incoming`, `errors`) and the
loop (`main`, `frame`, `subscription`) follow `runSession`.  Every write is two
steps, begun and returned, and blocks while the client does not read.  `done` is
`main = "ended"`; so is the closed connection that makes a pending ReadJSON fail.
Time is left out: a ticker may fire whenever the loop is in its select.  Message
fields are abstracted to what the switch tells apart.

### Collector

The clock is discrete, 0 is Go's zero time, and it never steps back.  The code's
times are `time.Now().UTC()`, wall time without Go's monotonic reading, so this
presumes that nobody sets the host's clock back: intervals and
`SnapshotNeverRegresses` are about a clock that goes forward.

A Collect spends up to `MaxCollect` ticks anywhere between its steps and in the commands it runs.  A cached or
collected value is identified with the time it was read, a counter reading with
its time: a rate is the pair of the time it was divided by and the time the
counter grew for.  `copy` is the Collector that `update` received **by value**:
it starts from what `Run` was given and is lost at the end, while the maps
(`countersAt`, `customLast`, `customResults`) are shared by all copies.

## Runs

| run | question | bounds | result |
|---|---|---|---|
| `connection` | one connection: safety, its contract, and under fairness that it retries, recovers, leaves connecting and notices silence | 4 sockets, 3 calls of the manager; about 136 000 states | holds |
| `websocket` | messages and life cycle of one WebSocket | up to 3 frames of up to 3 bytes with maxPayload 2, 19 kinds of frames, right and wrong, chunks of any size, 2^32 as 256, a high-water mark of 4; about 876 000 states | holds |
| `tiles` | who listens to which connection, and what the keys show | 2 tiles, 1 host, 2 tokens and invalid settings, 3 connections, 1 value, 1 press, one tile at a time in the middle of a press; about 614 000 states (symmetric) | holds |
| `deck` | does the SDK keep to `TileEvents`, and do presses end | 2 keys, 2 presses under way, 2 events under way, valid and invalid settings; about 550 000 states | holds |
| `shared_connection` | one WebSocket per host (`README.md:9`) | 2 calls | violated |
| `hung_agent` | leaves connecting when hello is not answered (`agent-connection.test.ts:58`) | 2 calls | violated |
| `refused_token` | authentication-error stays shown (`README.md:15`) | 2 calls | violated |
| `session` | order, subscriptions, answers, termination of a session | 4 messages, channel of 1 instead of 4; about 421 000 states | holds |
| `collector` | store and Custom Metrics over time | 9 ticks, intervals 2 and 3, update every tick, Collects of up to 2 ticks; about 2.6 million states | holds |
| `slow_collectors` | slow collectors cached (`README.md:12`) | same | violated |
| `failed_custom` | Custom Metrics at their intervals (`README.md:13`) | same | violated |
| `rates` | rates are per second (`collector_test.go:16`) | same | violated |

Why the bounds are enough.  A connection reuses CLOSED sockets, so runs are
unbounded in the number of reconnects; only manager calls are bounded, and three
allow a start, a start that overlaps the retry, and a reconnect or stop in every
order.  Four sockets are one more than can be open, closing or named by a timer
with two overlapping starts; the run uses no symmetry, which liveness forbids.
Three frames are a fragmented message with a control frame inside, or a second
message behind a first; every split of their bytes is tried, every wrong frame
behind every data frame.  Two keys and two requests make an answer meet a
listener of its own and one of another key, in both orders, and make `emit()`
skip one.  Two tiles and two tokens let one tile replace the
connection of the other and be replaced in turn; hosts do not interact in the
code, and the theorems about subscriptions are for any number.  In a session, four messages are a hello, an
acceptable and an unacceptable subscription and one more; with a channel of one
the reader blocks on a full channel while it holds a message, which the code's
capacity of four only delays.  In the collector nine ticks are three of the
longest interval, and a Collect of two ticks outlasts the ticker.

In `tiles` key presses of two tiles meet only in the connections, so `OnePressed`
leaves at most one tile in the middle of a press or after a failure, while the
other takes every other step; the theorems about tiles have no such bound.

`CHECK_DEADLOCK FALSE` is set in all runs but `deck`: a stopped connection, a
closed socket, an ended session and the clock at its bound are states in which
nothing more happens.

### Fairness

- `AgentConnection!Fairness`: Node fires pending timers; an opening socket opens
  or fails; a closing one is closed (ws destroys it after 30 s).  A stale timer
  fires or is re-armed by metrics, a step that `beat` makes visible: with an agent
  that sends for ever a connection is online for ever and its timer never fires,
  and only an agent that stops sending meets the premise of `SilenceNoticed`.
  Nothing makes an agent answer or an open socket close.  ws is given no `handshakeTimeout`, so an agent that accepts TCP
  and never answers the HTTP upgrade is excluded by this assumption; the code
  would show connecting for ever.
- `Recovers` assumes in addition, in its own premise, a network and an agent that
  stay well from some time on (`Healthy`).
- `WebSocket!Fairness`: a turn of Node ends and its ticks run, the 30 s close timer
  fires, and a raw socket that is destroyed or ended by both sides is closed.
  The agent need not send, read, answer or end anything.
- `StreamDeck!FairSpec`: chunks end and promises continue (weak fairness); a timer
  that expired fires between two chunks, and there are always such moments, but
  each may be interrupted by the next chunk (strong fairness).  The application
  need not answer.
- `Tiles` has no liveness property: what a connection must do eventually is the
  contract's, and a key shows an update if there is another after refreshInterval.
- `Session!FairSpec`: both goroutines run; Go's select is random among its ready
  cases, hence strong fairness for taking a message or an error; a write to a
  client that is gone returns.  A client that stays but stalls may keep a session
  for ever: the code sets no deadline, and `SessionEnds` is about clients that go.

### What the violated statements show

1. `start()` does not cancel a pending reconnect.  A key press while the tile is
   offline connects at once and the timer connects again: the first socket stays
   open, orphaned, for as long as the agent keeps it.
2. `connect()` does not reset `authenticated`.  After any online session the
   handshake timeout of later attempts returns early, and an agent that accepts
   the WebSocket but does not answer hello is shown as connecting for ever.
3. `AUTH_FAILED` leaves the handshake timer armed and `scheduleReconnect` returns
   before clearing it: after 5 s the tile shows agent-error.
4. `Store.update` receives the Collector by value: the times of the slow caches
   are lost and temperature, systemd and Docker are read by every update.
5. For the same reason `previous` is always Go's zero time and all rates are
   divided by about 292 years.
6. After a failure that follows a success a Custom Metric ignores its interval.

Three further observations have no statement in the repository to contradict.  A
tile whose host was given another token by another tile keeps the last state on
its key, without being told, until it is pressed or reappears
(`FrozenOnlyIfReplaced` says this is the only way).  A key press whose settings
time out draws "Agent error" over a live subscription, and the listener goes on
skipping the state and value it drew before.  A listener that throws (a
`decimalPlaces` over 100 makes `toFixed` throw, `metric-display.ts:53`) unwinds
ws's loop: nothing more of that socket is decoded, and its "close" may never
come; `FairContractHolds` of `WebSocket` promises it only where nothing threw.

## Proofs

`AgentConnectionProofs` proves, for every set of sockets and every bound on the
calls, from `SocketsAssumption` (`None` is not a socket) and `CallsAssumption`:

- `TypeCorrect`: type correctness, retry delay included;
- `InvHolds`: the invariant `Inv`;
- from it each safety invariant of run `connection`, and `StoppedIsQuiet`;
- `RefinesContract`: every behaviour is one of `ConnectionContract`.

The checked invariants are not inductive by themselves.  `Inv` adds five facts:
`authenticated` is TRUE exactly if it was carried over or this agent acknowledged
(`AuthenticatedBy`); a stopped connection has no socket and no timer outlives the
socket (`StopForgets`); an opening socket was told, answered and timed nothing
(`OpeningIsFresh`; without it an open event could find a connection that is
online already); an unanswered open socket has both timeouts pending
(`UnansweredIsTimed`); and the answer shows in state and subscription
(`AnswersShow`).  `InvStep` goes through the fourteen actions; the refinement
uses `Inv` where a step depends on it: a fault never hits an offline connection
because an offline connection has no timeout pending (`OfflineIsScheduled`), and
a close that schedules nothing was preceded by a refusal (`AnswersShow`).

`ConnectionContractProofs` proves that the contract implies its two promises, so
they hold of the connection by refinement.  `Promise` adds that a live attempt is
of a running connection and that a refusal is shown exactly of a refused one:
without it an attempt might end untold and leave nothing to follow.

`TilesProofs` proves for every set of tiles, hosts, tokens and connections, from
`NoConnAssumption` and `InvalidAssumption`, the four invariants
`SubscriptionsMatch`, `ListensAsConfigured`, `OneRunningPerHost` and
`FrozenOnlyIfReplaced`.  The inductive invariant `Safe` adds that the manager's
connections run and were made for their host (`ManagedRun`; without it `get`
could share a stopped one) and that a host with a listener keeps a connection
(`HostsServed`, from which `FrozenOnlyIfReplaced` follows).  Callbacks are
harmless because they are steps of the contract that neither start nor stop a
connection (`ConnectionStep`); `connect()` is split as the code splits it, into
nowhere, share and open.  `ImplementsEvents` shows that each step is one of
`TileEvents` or leaves its variables alone, from which `OnlyLateAnswersMislead`
follows.

Its second part, what the keys show, builds on `Safe` and on `Promises`: each
connection of the manager keeps the promise of its contract through all that
tiles ask of it (`PromisesHold`), so a connection that is shown online is alive,
will retry or was stopped, and none goes online from offline or a refusal without
a new attempt.  Every step draws through `Tell`, `Listen`, `Failure` or `Blank`,
and one lemma about each shows that what a listener remembers is on its key and
that the image fits the connection (`ImageIsTrue`, `RememberedIsShown`), and that
the types hold (`TypeOK`).

`StreamDeckProofs` proves, for every set of keys, settings and finite set of
requests, from `RequestAssumption` (the action's own listener is no request):

- `PressesHaveAnswersHolds`: the invariant of the run;
- `EventsHoldHolds`: every behaviour of the SDK is one of `TileEvents`.

`PressesHaveAnswers` says nothing of the listeners, so `Inv` adds `Listening`: the
action's listener is the first, and each waiting request is behind it exactly once.
`EmittedTakes` then says what an emission does, by induction along the list of
listeners: of n requests of the key it reaches (n + 1) div 2 at least, for only the
listener behind one that was removed is skipped.  The refinement also needs that
the events on their way make sense.  `Underway` says so without a recursion: there
is a set `known` and a sequence of settings along the queue that lead, event by
event, from what the SDK knows of a key to what the deck shows.  An appearance then
has the settings the SDK was told of last, and an answer for a key that is gone
changes nothing (`NextEventAgrees`).

`WebSocketProofs` proves, for every set of scripts, maxPayload and high-water mark:

- `RefinesSocketContract`, the safety part of `SocketContract`, from `Life`, which
  ties together how far the object has come: request, raw socket and `readyState`
  tell the same story (`Stages`), "close" was emitted exactly if the raw socket is
  closed and the receiver's stream has had its last event (`LastEvent`), and frames
  are decoded only while the raw socket is open (`Decoding`), so that no message
  follows "close";
- `TypeOKHolds` and `MessagesIntactHolds`, the two invariants of the run, from
  `ScriptsAssumption` (the agent sends frames, of any content, however malformed),
  `WordAssumption` (maxPayload is less than 2^32, below which the two words of a
  64-bit length are told apart by the first; the connection asks ws for 1 MiB,
  `agent-connection.ts:60`).  The bytes may be cut anywhere.

The reference says what the whole script means (`Said`, a recursion over frames);
the decoder sees bytes, cut anywhere.  The inductive invariant `Core` therefore
relates the two at every moment.  `Decoded`: either the decoder is at a place of the
script, between two frames (`BetweenFrames`), behind the first two bytes of one
(`InLength`) or in front of its payload (`InPayload`), such that hearing the frames
that remain, from what is kept and delivered so far, gives what the whole script
says, and the bytes kept and still on the wire are exactly the encoding of what
remains; or the decoding is over, where the script says so.  `Bounded` adds that
what is kept never exceeds maxPayload, `Starved` that a turn of the loop ends only
for want of bytes, from which follows that nothing is held back when all bytes have
come (`AllHeard`).  `Decoded` and `Starved` are defined in `WebSocket`; on the
bounds of the run TLC finds both to hold.
There is one lemma for each round of the loop (`GetInfoKeeps` to `ConcludeKeeps`).

The provers cannot instantiate the library's induction theorems, which take an
operator.  `Induction` gets induction nevertheless, as a fact about *sets* of
numbers: strict inclusion is well-founded on finite sets (a library theorem without
operator parameters), hence a set of numbers has a least element (`Least`), hence a
set that contains 0 and the successors of its members contains every number
(`Inductive`).  A recursion along a sequence is then a function with a recursive
equation that exists (`Iteration`) and can be begun one step later
(`IterationShift`), which is all that `HearAll`, `FlattenSeq` and `Emitted` need.

`SessionProofs` proves all five invariants of run `session`, for every client and
every capacity of the channel, from `CapacityAssumption`, `SentAssumption` and
`NoneAssumption`.  `NothingLost` is not inductive: `Lined` says that the loop's
place in the log, the channel's content and the message in the reader's hand
follow each other; `Stage` which variables are touched at which place of
`ServeHTTP`; `Current` which message the subscription comes from, `Filtered` that
a push being written still carries it.  `AnsweredOnce` counts, and needs a lemma
about cardinalities at each message taken.

`CollectorProofs` proves all properties of run `collector` for every set of
Custom Metrics, every interval and every bound on a Collect, from
`IntervalAssumption`, `TimeAssumption` and `MetricsAssumption`.  The invariant
orders the times (`Past`), bounds a Collect (`Budget`), and says what the shared
maps hold between two runs (`Recorded`: `customLast` is the last success, or the
run itself where there never was one), what `collectCustom` has done so far
(`Looked`) and that sessions read nothing younger than the loop holds (`Stored`).

Only model-checked: all liveness (`ConnectingEnds`, `SilenceNoticed`, `Recovers`,
`PressesEnd`, `ReaderEnds`, `SessionEnds`) and the fair parts of the refinements
(`FairContractHolds`, twice), for fairness and ENABLED are outside the prover's
reach.  Every invariant, action property and safety refinement of a passing run is
stated by a theorem.

## Not modelled

- `Configuration` and the agent's entry point: validation before anything runs,
  wiring, and a shutdown that is the end of the process; nothing is persisted, so
  a restart of either side is a new session, which the models begin with.
- Inside `runCustom`: which of two simultaneous failures (deadline, output limit,
  exit code) is named, and the bytes `cappedBuffer` keeps.  `Collector` takes any
  duration of a command and success or failure, which is all that the intervals
  and the store depend on.
- Agent and plugin in one composition: `AgentConnection` is checked against an
  agent that is freer than `Session` (it may send metrics before `hello_ack`, or
  never answer), and `Session` against a client that is freer than the plugin.
- Choice, formatting and layout of metrics, parsing of `docker` and `systemctl`
  output, the characters of hosts and ports; a host that the settings accept and
  `new WebSocket` rejects: the exception leaves the handler as a rejected promise,
  which the SDK's handler logs once (`plugin.js:7324`).
- TLS, installers, and the rest of the bundle.  `plugin.js` has 14 534 of the
  project's 14 957 lines; what the plugin reaches of ws and the SDK at run time is
  modelled, and the rest (ws's server, deflate and sender, the second copy of ws
  inside the SDK, zod, i18n, loggers, the SDK's other commands) is third-party code
  whose state the plugin never sees.  The share of lines that the modules stand
  for is small for that reason.
