--------------------------- MODULE MessageChannel ---------------------------
(* What a connection promises of the messages sent over it in one          *)
(* direction: they wait in the order of their priority and, within one     *)
(* priority, of their sending; those under way arrive whole, once and in   *)
(* order; what arrives damaged is dropped, and the connection may end.     *)
EXTENDS Naturals, Sequences, SequencesExt

CONSTANTS
    Messages,
    Priority   \* of a message, the more urgent the larger

VARIABLES
    waiting,   \* as they were sent
    underway,
    delivered,
    intact,    \* nothing has been damaged so far
    up         \* neither side has closed the connection

vars == <<waiting, underway, delivered, intact, up>>

Init ==
    /\ waiting = << >> /\ underway = << >> /\ delivered = << >>
    /\ intact = TRUE
    /\ up = TRUE

Put(m) ==
    /\ UNCHANGED <<up, intact, delivered, underway>>
    /\ waiting' = Append(waiting, m)

IsNext(i) ==
    \A j \in DOMAIN waiting \ {i} :
        \/ Priority[waiting[j]] < Priority[waiting[i]]
        \/ Priority[waiting[j]] = Priority[waiting[i]] /\ i < j

Take ==
    /\ UNCHANGED <<up, intact, delivered>>
    /\ \E i \in DOMAIN waiting :
        /\ IsNext(i)
        /\ underway' = Append(underway, waiting[i])
        /\ waiting' = RemoveAt(waiting, i)

Deliver ==
    /\ UNCHANGED <<up, intact>>
    /\ underway # << >>
    /\ delivered' = Append(delivered, Head(underway))
    /\ underway' = Tail(underway)
    /\ UNCHANGED waiting

Drop ==
    /\ ~intact
    /\ underway # << >>
    /\ underway' = Tail(underway)
    /\ UNCHANGED <<waiting, delivered, intact, up>>

Damage ==
    /\ intact' = FALSE
    /\ UNCHANGED <<waiting, underway, delivered, up>>

(* A side that closes forgets what waits there and what it has not sent    *)
(* to the end.                                                             *)
End ==
    /\ up' = FALSE /\ UNCHANGED <<intact, delivered>>
    /\ waiting' \in {waiting, << >>}
    /\ \E n \in 0 .. Len(underway) : underway' = SubSeq(underway, 1, n)

Next ==
    \/ \E m \in Messages : Put(m)
    \/ Take \/ Deliver \/ Drop \/ Damage \/ End

(* As long as the connection is up and nothing is damaged, what was sent   *)
(* arrives.                                                                *)
Arrives ==
    \A m \in Messages :
        Contains(waiting, m) ~> (Contains(delivered, m) \/ ~intact \/ ~up)

Spec == Init /\ [][Next]_vars /\ Arrives
=============================================================================
