------------------------------- MODULE MCTiles -------------------------------
(***************************************************************************)
(* Bounds for Tiles.  Two tiles and two tokens are enough for one tile to  *)
(* replace the connection another listens to, and back; three connections  *)
(* are one per tile and the one get() creates.  Tiles, connections and     *)
(* tokens are interchangeable.  Key presses of two tiles meet only in the  *)
(* connections: OnePressed leaves one tile at a time with one press, while *)
(* the other tile takes every other step.                                  *)
(***************************************************************************)
EXTENDS Tiles, FiniteSets, TLC

CONSTANTS t1, t2, c1, c2, c3, a, b

MCTile == {t1, t2}

MCConns == {c1, c2, c3}

MCToken == {a, b}

Symmetry ==
    Permutations(MCTile) \cup Permutations(MCConns) \cup Permutations(MCToken)

\* What a key press leaves behind: a wait, a failure on the key, or settings
\* that are not the tile's.
Pressed(t) ==
    \/ pressing[t] > 0 \/ answered[t] # {} \/ shown[t].by = "failure"
    \/ ~Events!AsConfigured(t)

\* At most one tile at a time is in such a state, with one press.
OnePressed ==
    /\ Cardinality({t \in Tile : Pressed(t)}) <= 1
    /\ \A t \in Tile : pressing[t] > 0 => answered[t] = {}

=============================================================================
