------------------------------ MODULE TileEvents ------------------------------
(***************************************************************************)
(* What MetricDisplayAction may rely on: the order in which events of the  *)
(* Stream Deck application and the promises of getSettings() reach the     *)
(* handlers of a tile.  Module StreamDeck shows that the SDK keeps to it;  *)
(* module Tiles adds the connections.                                      *)
(*                                                                         *)
(* The property inspector and the answer to getSettings() arrive as the    *)
(* same event, didReceiveSettings, in the order the application sent them. *)
(* All events of one chunk are handed over before the promises that they   *)
(* resolved continue: a press that was answered continues with the         *)
(* settings of the answer, when later events were handled already.         *)
(***************************************************************************)
EXTENDS Naturals

CONSTANTS
    Tile,     \* the keys of the Stream Deck that hold a tile
    Settings, \* what the settings of a tile may be, Invalid included
    Invalid   \* no settings that connect() can use

VARIABLES
    visible,   \* the tile is on the deck
    settings,  \* the tile's settings
    using,     \* the settings its last connect() was called with
    pressing,  \* calls of onKeyDown waiting for settings
    answered   \* the settings those have got that did not continue yet

vars == <<visible, settings, using, pressing, answered>>

Init ==
    /\ visible = [t \in Tile |-> FALSE]
    /\ settings \in [Tile -> Settings]
    /\ using = [t \in Tile |-> Invalid]
    /\ pressing = [t \in Tile |-> 0]
    /\ answered = [t \in Tile |-> {}]

WillAppear(t) ==
    /\ ~visible[t]
    /\ visible' = [visible EXCEPT ![t] = TRUE]
    /\ using' = [using EXCEPT ![t] = settings[t]]
    /\ UNCHANGED <<settings, pressing, answered>>

WillDisappear(t) ==
    /\ visible[t]
    /\ visible' = [visible EXCEPT ![t] = FALSE]
    /\ using' = [using EXCEPT ![t] = Invalid]
    /\ UNCHANGED <<settings, pressing, answered>>

\* How many of n listeners take an event for their answer: one that does
\* removes itself, and emit() then skips the next.
Taken(n) == IF n = 0 THEN {0} ELSE (n + 1) \div 2 .. n

\* The tile's pending calls of getSettings() hear didReceiveSettings.
Answer(t, s) ==
    \E k \in Taken(pressing[t]) :
        /\ pressing' = [pressing EXCEPT ![t] = @ - k]
        /\ answered' = [answered EXCEPT ![t] = IF k = 0 THEN @ ELSE @ \cup {s}]

\* didReceiveSettings of a tile on the deck: from the property inspector, or the
\* answer to a call that has ended meanwhile
Configure(t, s) ==
    /\ visible[t]
    /\ settings' = [settings EXCEPT ![t] = s]
    /\ using' = [using EXCEPT ![t] = s]
    /\ Answer(t, s)
    /\ UNCHANGED visible

\* onKeyDown() asks for the settings, when the events of the chunk were handled ...
KeyDown(t) ==
    /\ pressing' = [pressing EXCEPT ![t] = @ + 1]
    /\ UNCHANGED <<visible, settings, using, answered>>

\* ... which arrive: onDidReceiveSettings() hears of it too, if the tile is
\* not gone by then ...
SettingsArrive(t) ==
    /\ pressing[t] > 0
    /\ Answer(t, settings[t])
    /\ using' = [using EXCEPT ![t] = IF visible[t] THEN settings[t] ELSE @]
    /\ UNCHANGED <<visible, settings>>

\* ... and onKeyDown() continues, although the tile may be gone; another call
\* may have got the same settings ...
KeyDownContinues(t, s) ==
    /\ s \in answered[t]
    /\ \E more \in SUBSET {s} :
           answered' = [answered EXCEPT ![t] = (@ \ {s}) \cup more]
    /\ using' = [using EXCEPT ![t] = s]
    /\ UNCHANGED <<visible, settings, pressing>>

\* Timers fire when the promises have continued.
Continued == \A t \in Tile : answered[t] = {}

\* ... or do not arrive within 15 s: the tile keeps what it has.
SettingsTimeOut(t) ==
    /\ Continued
    /\ pressing[t] > 0
    /\ pressing' = [pressing EXCEPT ![t] = @ - 1]
    /\ UNCHANGED <<visible, settings, using, answered>>

Event(t) ==
    \/ WillAppear(t) \/ WillDisappear(t)
    \/ KeyDown(t) \/ SettingsArrive(t) \/ SettingsTimeOut(t)
    \/ \E s \in Settings : Configure(t, s) \/ KeyDownContinues(t, s)

Next == \E t \in Tile : Event(t)

Spec == Init /\ [][Next]_vars

----------------------------------------------------------------------------
\* A tile on the deck is to use its present settings, a tile that is gone none.
AsConfigured(t) == using[t] = IF visible[t] THEN settings[t] ELSE Invalid

\* A step that misleads a tile is a key press going on with an answer which
\* later events overtook.
MisledByAnswer ==
    \A t \in Tile :
        AsConfigured(t) /\ ~AsConfigured(t)' =>
            /\ using'[t] \in answered[t]
            /\ ~visible[t] \/ using'[t] # settings[t]

\* Late answers are the only events that give a tile settings which are not its
\* present ones, or that subscribe one which is gone.
OnlyLateAnswersMislead == [][MisledByAnswer]_vars

=============================================================================
