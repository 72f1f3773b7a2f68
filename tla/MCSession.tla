----------------------------- MODULE MCSession ------------------------------
(***************************************************************************)
(* A client that sends up to four messages through a channel of one (the   *)
(* code's holds four): enough for hello, an accepted subscription, one     *)
(* that is not, and a message in hand behind a full channel.               *)
(***************************************************************************)
EXTENDS Session

MCRequests == {{}, {"cpu", "disk"}, {"docker"}}
=============================================================================
