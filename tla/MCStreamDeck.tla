----------------------------- MODULE MCStreamDeck -----------------------------
(***************************************************************************)
(* Bounds for StreamDeck.  Two keys, so that an answer meets the listeners *)
(* of another key; two requests, of one key or of two, so that emit()      *)
(* skips one; two events under way, so that one overtakes the other's      *)
(* promise in a chunk.                                                     *)
(***************************************************************************)
EXTENDS StreamDeck

=============================================================================
