------------------------ MODULE MCAndroidConnection ------------------------
(* One device for TLC: two heartbeats of one priority, and data. *)
EXTENDS AndroidConnection

CONSTANTS hb1, hb2, data1, push1

MCPriority == [m \in Requests \cup Pushes |-> IF m \in Answered THEN 112 ELSE 0]
=============================================================================
