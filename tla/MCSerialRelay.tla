---------------------------- MODULE MCSerialRelay ----------------------------
(* Two radios that stay where they are and a user who walks out of their   *)
(* range once.                                                             *)
EXTENDS SerialRelay, TLC

CONSTANTS r1, r2, air

PlaceDef == [u \in Users |-> [t \in Times |->
    IF u = air THEN <<1, 1, 3, 0>>[(t % 4) + 1] ELSE 0]]

Symmetry == Permutations(Radios)
=============================================================================
