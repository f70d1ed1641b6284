---------------------------- MODULE MCWireStream ----------------------------
(* Two messages of one priority and a more urgent one from one end, one    *)
(* message from the other.                                                 *)
EXTENDS WireStream

CONSTANTS m1, m2, m3, n1

SenderDef == (m1 :> "a") @@ (m2 :> "a") @@ (m3 :> "a") @@ (n1 :> "b")
PriorityDef == (m1 :> 0) @@ (m2 :> 0) @@ (m3 :> 1) @@ (n1 :> 0)
SizeDef == (m1 :> 1) @@ (m2 :> 2) @@ (m3 :> 1) @@ (n1 :> 1)
=============================================================================
