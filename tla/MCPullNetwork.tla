--------------------------- MODULE MCPullNetwork ----------------------------
(* A chain of gateways for TLC: the root, a gateway below it, and a leaf.  *)
EXTENDS PullNetwork

CONSTANTS root, middle, leaf

Chain == [g \in {middle, leaf} |-> IF g = leaf THEN middle ELSE root]
=============================================================================
