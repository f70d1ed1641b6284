--------------------------- MODULE MCSerialSlots ---------------------------
(* Instances of SerialSlots for TLC. *)
EXTENDS SerialSlots

CONSTANTS full, long

(* With its header, full takes all of a slot, and long does not fit. *)
MCChatLength ==
    [m \in Chats |-> IF m = full THEN 9 ELSE 10]

MCRelayLength == [us \in SUBSET PliUsers |-> 5 + 2 * Cardinality(us)]
=============================================================================
