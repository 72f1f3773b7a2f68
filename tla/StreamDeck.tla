------------------------------ MODULE StreamDeck ------------------------------
(***************************************************************************)
(* The SDK bundled with the plugin, between the Stream Deck application    *)
(* and MetricDisplayAction: the store of actions, the event emitter and    *)
(* the requests of getSettings().                                          *)
(*                                                                         *)
(* The application's socket hands over the events of a chunk one after the *)
(* other; promises continue when it is done (`inChunk' is FALSE again),    *)
(* and timers fire when those are done.  The listeners of willAppear,      *)
(* willDisappear and keyDown never change, so each of these events is one  *)
(* step; of didReceiveSettings one is the action's, and the others wait    *)
(* for an answer and remove themselves.  The cache of settings is off.     *)
(***************************************************************************)
EXTENDS Naturals, FiniteSets, Sequences, SequencesExt

CONSTANTS
    Key,       \* the keys of the Stream Deck that hold a tile
    Settings,  \* what the user may configure
    Invalid,   \* no settings
    Request,   \* the calls of onKeyDown at a time: bounds the key presses
    MaxEvents  \* bound on the events under way from the application

ASSUME InvalidAssumption == Invalid \notin Settings
ASSUME RequestAssumption == IsFiniteSet(Request) /\ "route" \notin Request
ASSUME EventsAssumption  == MaxEvents \in Nat

VARIABLES
    \* the application, and the two directions of its socket
    onDeck,      \* the keys it shows
    configured,  \* the settings of each key
    events,      \* sent to the plugin
    commands,    \* getSettings of these keys, sent to the application
    \* the SDK
    inChunk,     \* an event was handed over, more may follow
    actionStore, \* the actions that have appeared
    listeners,   \* of didReceiveSettings, in order: "route" and requests
    request,     \* the calls of onKeyDown
    \* MetricDisplayAction
    using,       \* the settings its last connect() was called with
    told         \* the settings the SDK was last told of

application == <<onDeck, configured, events, commands>>
sdk         == <<inChunk, actionStore, listeners, request>>
vars        == <<application, sdk, using, told>>

Answers == "didReceiveSettings"

NoRequest == [stage |-> "free"]

In(stage) == {r \in Request : request[r].stage = stage}

\* Every promise that can continue has continued.
Quiet == ~inChunk /\ In("asking") = {} /\ In("answered") = {}

----------------------------------------------------------------------------
(* The Stream Deck application *)

Sent(event, k, s) ==
    /\ Len(events) < MaxEvents
    /\ events' = Append(events, [event |-> event, key |-> k, settings |-> s])

ShowKey(k) ==
    /\ k \notin onDeck
    /\ onDeck' = onDeck \cup {k}
    /\ Sent("willAppear", k, configured[k])
    /\ UNCHANGED <<configured, commands, sdk, using, told>>

HideKey(k) ==
    /\ k \in onDeck
    /\ onDeck' = onDeck \ {k}
    /\ Sent("willDisappear", k, configured[k])
    /\ UNCHANGED <<configured, commands, sdk, using, told>>

\* The user is bound to press no key while all Requests may be in use, or as
\* many getSettings are unanswered.
PressKey(k) ==
    /\ k \in onDeck
    /\ LET presses == Cardinality({i \in DOMAIN events : events[i].event = "keyDown"})
       IN  /\ presses < Cardinality(In("free"))
           /\ presses + Cardinality(In("asking")) + Len(commands) < Cardinality(Request)
    /\ Sent("keyDown", k, configured[k])
    /\ UNCHANGED <<onDeck, configured, commands, sdk, using, told>>

\* The property inspector
EditKey(k, s) ==
    /\ k \in onDeck
    /\ configured' = [configured EXCEPT ![k] = s]
    /\ Sent(Answers, k, s)
    /\ UNCHANGED <<onDeck, commands, sdk, using, told>>

\* Every getSettings is answered, at some time.
AnswerKey ==
    /\ commands # <<>>
    /\ commands' = Tail(commands)
    /\ Sent(Answers, Head(commands), configured[Head(commands)])
    /\ UNCHANGED <<onDeck, configured, sdk, using, told>>

----------------------------------------------------------------------------
(* Events handed to the SDK *)

\* The next event of a chunk, or the first of one.
Handed(event, k) ==
    /\ inChunk \/ Quiet
    /\ inChunk' = TRUE
    /\ events # <<>> /\ Head(events).event = event /\ Head(events).key = k
    /\ events' = Tail(events)
    /\ UNCHANGED <<onDeck, configured, commands>>

EndChunk ==
    /\ inChunk
    /\ inChunk' = FALSE
    /\ UNCHANGED <<application, actionStore, listeners, request, using, told>>

OnWillAppear(k) ==
    /\ Handed("willAppear", k)
    /\ actionStore' = actionStore \cup {k}
    /\ using' = [using EXCEPT ![k] = Head(events).settings]
    /\ told' = [told EXCEPT ![k] = Head(events).settings]
    /\ UNCHANGED <<listeners, request>>

OnWillDisappear(k) ==
    /\ Handed("willDisappear", k)
    /\ actionStore' = actionStore \ {k}
    /\ using' = [using EXCEPT ![k] = Invalid]
    /\ UNCHANGED <<listeners, request, told>>

\* onKeyDown() waits for its title to be sent before it asks for the settings.
OnKeyDown(k) ==
    /\ Handed("keyDown", k)
    /\ IF k \in actionStore
       THEN \E r \in In("free") : request' = [request EXCEPT ![r] =
                [stage |-> "asking", key |-> k, settings |-> Invalid]]
       ELSE UNCHANGED request
    /\ UNCHANGED <<actionStore, listeners, using, told>>

\* Mutant: a request waits for the answer while its action is in the store.
IsForStored(l, k) == l \in Request /\ request[l].key = k /\ k \in actionStore

\* Whether listener l takes didReceiveSettings of k for its answer
IsFor(l, k) == l \in Request /\ request[l].key = k

\* emit() reaches listener l, unless it skips it.  One that is answered removes
\* itself, which moves the next to its place, where emit() has been already.
Reach(e, l, k) ==
    IF e.skip THEN [e EXCEPT !.skip = FALSE, !.left = Append(@, l)]
    ELSE IF IsFor(l, k)
         THEN [e EXCEPT !.skip = TRUE, !.called = @ \cup {l}]
         ELSE [e EXCEPT !.left = Append(@, l), !.called = @ \cup {l}]

\* emit() goes through the listeners in order.
Emitted(k) ==
    LET e[i \in 0 .. Len(listeners)] ==
            IF i = 0 THEN [skip |-> FALSE, left |-> <<>>, called |-> {}]
            ELSE Reach(e[i - 1], listeners[i], k)
    IN  e[Len(listeners)]

OnDidReceiveSettings(k) ==
    LET e == Emitted(k)
        s == Head(events).settings
    IN  /\ Handed(Answers, k)
        /\ listeners' = e.left
        /\ request' = [r \in Request |->
               IF r \in e.called /\ IsFor(r, k)
               THEN [request[r] EXCEPT !.stage = "answered", !.settings = s]
               ELSE request[r]]
        /\ using' = IF "route" \in e.called /\ k \in actionStore
                    THEN [using EXCEPT ![k] = s] ELSE using
        /\ told' = [told EXCEPT ![k] = s]
        /\ UNCHANGED actionStore

----------------------------------------------------------------------------
(* Promises and timers *)

\* Mutant: the listener is put before the action's.
AskFirst(r) ==
    /\ ~inChunk /\ request[r].stage = "asking"
    /\ request' = [request EXCEPT ![r].stage = "pending"]
    /\ listeners' = <<r>> \o listeners
    /\ commands' = Append(commands, request[r].key)
    /\ UNCHANGED <<onDeck, configured, events, inChunk, actionStore, using, told>>

\* getSettings() listens for the answer, and sends the command.
Ask(r) ==
    /\ ~inChunk /\ request[r].stage = "asking"
    /\ request' = [request EXCEPT ![r].stage = "pending"]
    /\ listeners' = Append(listeners, r)
    /\ commands' = Append(commands, request[r].key)
    /\ UNCHANGED <<onDeck, configured, events, inChunk, actionStore, using, told>>

\* onKeyDown() calls connect(), whether or not the key is on the deck still.
Continue(r) ==
    LET k == request[r].key IN
    /\ ~inChunk /\ request[r].stage = "answered"
    /\ using' = [using EXCEPT ![k] = request[r].settings]
    /\ request' = [request EXCEPT ![r] = NoRequest]
    /\ UNCHANGED <<application, inChunk, actionStore, listeners, told>>

\* Mutant: the timer goes with the action.
TimeoutStored(r) ==
    /\ Quiet /\ request[r].stage = "pending" /\ request[r].key \in actionStore
    /\ request' = [request EXCEPT ![r] = NoRequest]
    /\ \E i \in DOMAIN listeners :
           listeners[i] = r /\ listeners' = RemoveAt(listeners, i)
    /\ UNCHANGED <<application, inChunk, actionStore, using, told>>

\* No answer for 15 s: the listener is removed, and the call fails.
Timeout(r) ==
    /\ Quiet /\ request[r].stage = "pending"
    /\ request' = [request EXCEPT ![r] = NoRequest]
    /\ \E i \in DOMAIN listeners :
           listeners[i] = r /\ listeners' = RemoveAt(listeners, i)
    /\ UNCHANGED <<application, inChunk, actionStore, using, told>>

----------------------------------------------------------------------------
(* Specification *)

Init ==
    /\ onDeck = {} /\ actionStore = {}
    /\ configured \in [Key -> Settings \cup {Invalid}] /\ told = configured
    /\ events = <<>> /\ commands = <<>>
    /\ inChunk = FALSE
    /\ listeners = <<"route">>
    /\ request = [r \in Request |-> NoRequest]
    /\ using = [k \in Key |-> Invalid]

Application ==
    \/ AnswerKey
    \/ \E k \in Key :
           \/ ShowKey(k) \/ HideKey(k) \/ PressKey(k)
           \/ \E s \in Settings \cup {Invalid} : EditKey(k, s)

Emit == \E k \in Key :
    OnWillAppear(k) \/ OnWillDisappear(k) \/ OnKeyDown(k) \/ OnDidReceiveSettings(k)

Next ==
    \/ Application \/ Emit \/ EndChunk
    \/ \E r \in Request : Ask(r) \/ Continue(r) \/ Timeout(r)

Spec == Init /\ [][Next]_vars

\* Chunks end, promises continue.  A timer that has expired fires between two
\* chunks, however many follow.
FairSpec ==
    /\ Spec
    /\ WF_vars(EndChunk)
    /\ \A r \in Request : /\ WF_vars(Ask(r)) /\ WF_vars(Continue(r))
                          /\ SF_vars(Timeout(r))

----------------------------------------------------------------------------
(* Properties *)

Pending(k) == {r \in In("pending") : request[r].key = k}

Events == INSTANCE TileEvents WITH
    Tile     <- Key,
    Settings <- Settings \cup {Invalid},
    visible  <- [k \in Key |-> k \in actionStore],
    settings <- told,
    pressing <- [k \in Key |-> Cardinality(Pending(k))],
    answered <- [k \in Key |-> {request[r].settings :
                                r \in {q \in In("answered") : request[q].key = k}}]

\* Whatever is removed from the list of listeners while an event is emitted,
\* and whenever answers, edits and disappearances arrive, the tiles see the
\* events that module Tiles relies on; above all, no change of the settings
\* passes a tile on the deck by.
EventsHold == Events!Spec

\* A key press whose answer was handed over waits for no other: it was among the
\* first of its key to listen, or another answer for the key is under way,
\* however many listeners emit() skipped.
PressesHaveAnswers ==
    \A k \in Key :
        Cardinality(Pending(k)) <=
            Cardinality({i \in DOMAIN commands : commands[i] = k})
          + Cardinality({i \in DOMAIN events : events[i].event = Answers
                                               /\ events[i].key = k})

\* A key press ends, with settings or without, although the key may be gone,
\* the application slow, and the answer taken by another press.
PressesEnd ==
    \A r \in Request : request[r].stage # "free" ~> request[r].stage = "free"

=============================================================================
