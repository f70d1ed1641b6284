---------------------------- MODULE GatewayLinks ----------------------------
(***************************************************************************)
(* The links of a tree of gateways: each gateway keeps a connection to its *)
(* configured parent.  What the gateways say to each other over them is    *)
(* the subject of CrossGateway (pushes) and PullNetwork (requests).        *)
(***************************************************************************)
EXTENDS Naturals, Sequences, FiniteSets

CONSTANTS
    Gateways,
    Parent      \* the configured parent of each gateway that has one

ASSUME TreeAssumption ==
    /\ IsFiniteSet(Gateways)
    /\ DOMAIN Parent \subseteq Gateways
    /\ \A g \in DOMAIN Parent : Parent[g] \in Gateways \ {g}
    /\ \E depth \in [Gateways -> 0..Cardinality(Gateways)] :
         \A g \in DOMAIN Parent : depth[Parent[g]] < depth[g]

VARIABLES
    side,           \* each gateway's end of the link to another
    channel         \* messages on their way, by sender and receiver

links == <<side, channel>>

Neighbours(g) ==
    {n \in Gateways : \/ n \in DOMAIN Parent /\ Parent[n] = g
                      \/ g \in DOMAIN Parent /\ Parent[g] = n}

LinksInit ==
    /\ side = [g \in Gateways |-> [n \in Gateways |-> "closed"]]
    /\ channel = [g \in Gateways |-> [n \in Gateways |-> << >>]]

(* All connections have been made and both ends know each other. *)
LinksUp ==
    /\ side = [g \in Gateways |-> [n \in Gateways |->
                  IF n \in Neighbours(g) THEN "associated" ELSE "closed"]]
    /\ channel = [g \in Gateways |-> [n \in Gateways |-> << >>]]

AssociateMsg == [type |-> "Associate"]

(* Messages that gateways send with the priority of control messages. *)
IsControl(m) == m.type \in {"Associate", "Register", "Unregister"}

(* Which messages of a channel may be the next to arrive.  The sender's    *)
(* queue is ordered by priority: control messages and more urgent data     *)
(* overtake data, but nothing overtakes a control message.                 *)
Arrivals(q) == {i \in DOMAIN q : \A j \in 1..(i - 1) : ~IsControl(q[j])}

(* The gateways that g has in crossGatewayHandlers. *)
Handled(g) == {n \in Gateways : side[g][n] = "associated"}

(* The channels after g writes msgs to each gateway in `to'.  What is      *)
(* written once the other end is closed is lost.                           *)
Sent(chs, g, to, msgs) ==
    [chs EXCEPT ![g] =
        [n \in Gateways |->
            IF n \in to /\ side[n][g] # "closed" THEN @[n] \o msgs
                                                 ELSE @[n]]]

(* Gateway g connects to its parent once both ends of an earlier           *)
(* connection have been torn down; each end sends its association first.   *)
OpenLink(g) ==
    LET n == Parent[g] IN
    /\ side[g][n] = "closed" /\ side[n][g] = "closed"
    /\ side' = [side EXCEPT ![g][n] = "open", ![n][g] = "open"]
    /\ channel' = [channel EXCEPT ![g][n] = <<AssociateMsg>>,
                                  ![n][g] = <<AssociateMsg>>]

(* The end of g is closed, the first of the two or after the other, and    *)
(* the destructor of its handler sends msgs to the other neighbours.       *)
(* Messages that were on their way to g are lost, those from g may yet     *)
(* arrive.                                                                 *)
CloseEnd(g, n, msgs) ==
    /\ side[g][n] # "closed"
    /\ side' = [side EXCEPT ![g][n] = "closed"]
    /\ channel' = Sent([channel EXCEPT ![n][g] = << >>], g, Handled(g) \ {n},
                       msgs)

(* Gateway g takes message i out of the channel from n, and sends msgs to  *)
(* the gateways in `to'.                                                   *)
Receive(g, n, i, to, msgs) ==
    /\ side[g][n] # "closed"
    /\ channel' = Sent([channel EXCEPT ![n][g] =
                            SubSeq(@, 1, i - 1) \o SubSeq(@, i + 1, Len(@))],
                       g, to, msgs)

(* Both ends of the link between neighbours are in the routing tables. *)
Up(g, n) == side[g][n] = "associated" /\ side[n][g] = "associated"

(* The gateways on n's side of the link between g and n. *)
Beyond(g, n) ==
    {x \in Gateways : \A S \in SUBSET Gateways :
        n \in S /\ (\A m \in S : Neighbours(m) \ {g} \subseteq S) => x \in S}

(* The gateways that g reaches over links that are up. *)
Connected(g) ==
    {x \in Gateways : \A S \in SUBSET Gateways :
        g \in S /\ (\A m \in S : {n \in Neighbours(m) : Up(m, n)} \subseteq S)
            => x \in S}

(* Only neighbours exchange messages, over ends that are not closed. *)
LinksOK ==
    /\ side \in [Gateways -> [Gateways -> {"closed", "open", "associated"}]]
    /\ \A g, n \in Gateways :
         /\ side[g][n] # "closed" => n \in Neighbours(g)
         /\ channel[g][n] # << >> => side[n][g] # "closed"
=============================================================================
