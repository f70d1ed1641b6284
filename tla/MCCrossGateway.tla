--------------------------- MODULE MCCrossGateway ---------------------------
(* A chain of gateways for TLC: the root, a gateway below it, and a leaf.  *)
EXTENDS CrossGateway

CONSTANTS root, middle, leaf, t1, d1

MCPrefix == [t \in Types |-> {t}]

Chain == [g \in {middle, leaf} |-> IF g = leaf THEN middle ELSE root]
=============================================================================
