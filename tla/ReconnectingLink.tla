-------------------------- MODULE ReconnectingLink --------------------------
(***************************************************************************)
(* What a gateway promises of the link to its parent.  It has one          *)
(* connection at a time, keeps it until the parent has broken it, then     *)
(* drops it, and gets another; until it is over, after which nothing       *)
(* changes but that the parent may still break what there is.              *)
(***************************************************************************)
CONSTANTS
    Connections,
    NoConnection

VARIABLES
    link, \* the connection by which messages go to the parent
    dead, \* the parent has broken it
    over, \* the link is no longer looked after
    gone  \* there is no parent to connect to

vars == <<link, dead, over, gone>>

Init == link = NoConnection /\ dead = FALSE /\ over = FALSE /\ gone = FALSE

(* The parent may break a connection before it becomes the link. *)
Establish(c) ==
    /\ link = NoConnection /\ ~over
    /\ link' = c
    /\ dead' \in BOOLEAN
    /\ UNCHANGED <<over, gone>>

Break ==
    /\ link # NoConnection /\ ~dead
    /\ dead' = TRUE
    /\ UNCHANGED <<link, over, gone>>

Lose ==
    /\ dead /\ ~over
    /\ link' = NoConnection
    /\ dead' = FALSE
    /\ over' \in BOOLEAN
    /\ UNCHANGED gone

End ==
    /\ ~over
    /\ over' = TRUE
    /\ UNCHANGED <<link, dead, gone>>

Go ==
    /\ ~gone
    /\ gone' = TRUE
    /\ UNCHANGED <<link, dead, over>>

Next == Break \/ Lose \/ End \/ Go \/ \E c \in Connections : Establish(c)

(* A dead link is dropped, and as long as there is a parent there is a new *)
(* one.                                                                    *)
Fairness ==
    /\ WF_vars(Lose)
    /\ WF_vars(~gone /\ \E c \in Connections : Establish(c))

Spec == Init /\ [][Next]_vars /\ Fairness
=============================================================================
