-------------------------- MODULE MCJavaConnector --------------------------
(* Instances of JavaConnector for TLC. *)
EXTENDS JavaConnector

CONSTANTS m1, m2

MCPriority == [m \in Messages |-> IF m = m1 THEN 127 ELSE 0]
=============================================================================
