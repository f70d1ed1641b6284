--------------------------- MODULE MCGatewayCore ---------------------------
(* Instances of GatewayCore for TLC. *)
EXTENDS GatewayCore, TLC

CONSTANTS h1, h2, c1, c2, g1, g2, p1, t1, t2

(* With two types, t1 is a prefix of t2. *)
MCPrefix == [t \in Types |-> IF t = t2 THEN Types ELSE {t}]
Symmetry == Permutations(Handlers) \cup Permutations(Conns) \cup Permutations(GatewayIds)
=============================================================================
