----------------------------- MODULE MCWebSocket -----------------------------
(***************************************************************************)
(* Payloads of up to MaxPayload = 2 bytes, one byte over it, and up to     *)
(* three frames: enough for a fragmented message with a control frame      *)
(* inside, a message behind a close frame, and a second message behind     *)
(* the first.  `lead' and `trail' are the two halves of one character.     *)
(***************************************************************************)
EXTENDS WebSocket

MCBytes == {"a", "lead", "trail", "good", "bad"}

\* Every `lead' is followed by a `trail', every `trail' led.
MCIsUTF8(bytes) ==
    \A i \in DOMAIN bytes :
        /\ bytes[i] = "lead"  => i < Len(bytes) /\ bytes[i + 1] = "trail"
        /\ bytes[i] = "trail" => i > 1 /\ bytes[i - 1] = "lead"

MCIsStatus(bytes) == bytes[1] = "good"

Data1 ==
    {Frame(TRUE, Text, 7, <<"lead", "trail">>), Frame(FALSE, Text, 7, <<"lead">>),
     Frame(TRUE, 0, 7, <<"trail">>), Frame(FALSE, 0, 7, <<"a">>),
     Frame(TRUE, Text, 16, <<"a">>), Frame(TRUE, Binary, 7, <<"trail", "a", "a">>),
     Frame(FALSE, Binary, 7, <<>>)}

Control1 ==
    {Frame(TRUE, Ping, 7, <<"a">>), Frame(TRUE, CloseOp, 7, <<>>),
     Frame(TRUE, CloseOp, 7, <<"good", "a">>)}

\* Frames that end a connection, and one whose length takes eight bytes: each is
\* tried behind every data frame.
Ending ==
    {Frame(TRUE, CloseOp, 7, <<"a">>), Frame(TRUE, CloseOp, 7, <<"bad", "a">>),
     Frame(FALSE, Pong, 7, <<>>), Frame(TRUE, Ping, 16, <<>>), Frame(TRUE, 3, 7, <<>>),
     [Frame(TRUE, Text, 7, <<"a">>) EXCEPT !.rsv = TRUE],
     [Frame(TRUE, Text, 7, <<"a">>) EXCEPT !.masked = TRUE],
     [Frame(TRUE, Binary, 64, <<"a">>) EXCEPT !.high = 2],
     Frame(TRUE, Binary, 64, <<"a">>)}

MCScripts ==
    {<<f, g>> : f \in Data1, g \in Ending}
        \cup [1 .. 3 -> Data1 \cup Control1]
=============================================================================
