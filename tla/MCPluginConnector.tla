------------------------- MODULE MCPluginConnector --------------------------
(* Two types for TLC, one a prefix of the other. *)
EXTENDS PluginConnector

CONSTANTS t1, t2, l1, l2

MCPrefix == [t \in Types |-> IF t = t2 THEN {t1, t2} ELSE {t}]
=============================================================================
