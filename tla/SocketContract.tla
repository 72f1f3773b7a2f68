--------------------------- MODULE SocketContract ---------------------------
(***************************************************************************)
(* What a WebSocket object promises the code that created it: it opens at  *)
(* most once, emits messages only between "open" and "close", never goes   *)
(* back in its life, and emits "close" once, as its last event.  One that  *)
(* is closing is closed in the end, unless a listener threw an exception   *)
(* into it.  AgentConnection is written against these promises.            *)
(***************************************************************************)
EXTENDS Naturals

VARIABLES
    readyState,  \* CONNECTING, OPEN, CLOSING or CLOSED
    messages,    \* the messages emitted: the contract tells when, not which
    closes,      \* how often "close" was emitted
    deaf         \* a listener of "message" threw

vars == <<readyState, messages, closes, deaf>>

Init == readyState = "CONNECTING" /\ messages = <<>> /\ closes = 0 /\ deaf = FALSE

Open ==
    /\ readyState = "CONNECTING" /\ readyState' = "OPEN"
    /\ UNCHANGED <<messages, closes, deaf>>

\* Either side begins to close, or the connection breaks.
Closing ==
    /\ readyState \in {"CONNECTING", "OPEN"} /\ readyState' = "CLOSING"
    /\ UNCHANGED <<messages, closes, deaf>>

\* A message is emitted: its listener may close the socket, or throw.
Message ==
    /\ readyState \in {"OPEN", "CLOSING"} /\ ~deaf
    /\ readyState' \in {readyState, "CLOSING"}
    /\ deaf' \in BOOLEAN
    /\ UNCHANGED closes

Close ==
    /\ readyState # "CLOSED" /\ readyState' = "CLOSED"
    /\ closes' = closes + 1
    /\ UNCHANGED <<messages, deaf>>

Next == Open \/ Closing \/ Message \/ Close

Spec == Init /\ [][Next]_vars

FairSpec == Spec /\ WF_vars(readyState = "CLOSING" /\ ~deaf /\ Close)

----------------------------------------------------------------------------
\* A socket has emitted "close" once if it is closed, and never before.
ClosedOnce == closes = IF readyState = "CLOSED" THEN 1 ELSE 0
=============================================================================
