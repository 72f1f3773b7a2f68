------------------------- MODULE MCAgentConnection --------------------------
(***************************************************************************)
(* Bounds for AgentConnection.  Four WebSocket objects: the newest, one    *)
(* still closing after reconnect() or start(), and the sockets overlapped  *)
(* starts leave open.  Three manager calls: enough for start, a second     *)
(* start that overlaps the retry, and reconnect or stop.                   *)
(***************************************************************************)
EXTENDS AgentConnection

CONSTANTS s1, s2, s3, s4

MCSockets == {s1, s2, s3, s4}

=============================================================================
