------------------------- MODULE ConnectionContract -------------------------
(***************************************************************************)
(* What an AgentConnection promises its listeners and its manager, without *)
(* sockets, generations, the handshake or any timer but "will retry":      *)
(*                                                                         *)
(*  - "offline" is shown of a connection that is down and will retry;      *)
(*  - a connection that is down will retry unless its token was refused;   *)
(*  - "metric-unavailable" is shown only after "online", and "online" only *)
(*    while an attempt is alive that was not refused.                      *)
(***************************************************************************)

VARIABLES
    state,    \* what the tiles show
    phase,    \* "idle" before the first start, then "running", "stopped"
    live,     \* the newest attempt has not ended
    retry,    \* another attempt will follow by itself
    refused   \* the newest attempt was refused

vars == <<state, phase, live, retry, refused>>

Init ==
    /\ state = "offline"
    /\ phase = "idle"
    /\ live = FALSE /\ retry = FALSE /\ refused = FALSE

Begin ==
    /\ phase' = "running"
    /\ state' = "connecting"
    /\ live' = TRUE
    /\ refused' = FALSE

\* The user or the host asks for a connection; a scheduled retry may remain.
Attempt == phase # "stopped" /\ Begin /\ retry' \in {retry, FALSE}

\* The scheduled retry happens.
Retry == phase = "running" /\ retry /\ Begin /\ retry' = FALSE

\* The agent accepts the token, or sends metrics.
Accept ==
    /\ live /\ ~refused
    /\ state' = "online"
    /\ UNCHANGED <<phase, live, retry, refused>>

Refuse ==
    /\ live /\ ~refused
    /\ state' = "authentication-error"
    /\ refused' = TRUE
    /\ UNCHANGED <<phase, live, retry>>

\* The agent misbehaves or does not answer in time.
Fault ==
    /\ phase = "running" /\ state # "offline"
    /\ live \/ retry \/ refused
    /\ state' = "agent-error"
    /\ UNCHANGED <<phase, live, retry, refused>>

\* The agent fell silent.
Stale ==
    /\ phase = "running" /\ state = "online"
    /\ state' = "metric-unavailable"
    /\ UNCHANGED <<phase, live, retry, refused>>

\* The attempt ends.  A retry is scheduled and shown as "offline", unless one
\* was scheduled before or a refusal is shown: then nobody is told.
Lose ==
    /\ live /\ live' = FALSE
    /\ IF retry \/ state = "authentication-error"
       THEN UNCHANGED <<state, retry>>
       ELSE state' = "offline" /\ retry' = TRUE
    /\ UNCHANGED <<phase, refused>>

Over ==
    /\ phase # "stopped" /\ phase' = "stopped"
    /\ live' = FALSE /\ retry' = FALSE /\ refused' = FALSE
    /\ UNCHANGED state

Next == Attempt \/ Retry \/ Accept \/ Refuse \/ Fault \/ Stale \/ Lose \/ Over

Spec == Init /\ [][Next]_vars

FairSpec == Spec /\ WF_vars(Retry)

----------------------------------------------------------------------------
\* A running connection is alive, will retry, or was refused.
WayForward == phase = "running" => live \/ retry \/ refused

\* "offline" is never shown of a running connection that is not retrying.
OfflineWillRetry == phase = "running" /\ state = "offline" => retry /\ ~live
=============================================================================
