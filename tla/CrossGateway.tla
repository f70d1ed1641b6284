---------------------------- MODULE CrossGateway ----------------------------
(***************************************************************************)
(* A tree of gateways.  Every gateway tells its neighbours how often it    *)
(* wants each type, on behalf of its own plugins and of its other          *)
(* neighbours together; pushed data then follows these reference counts.   *)
(* GatewayCore.tla has one gateway in full; here a gateway is reduced to   *)
(* its GLOBAL push subscriptions, and what is looked at is the protocol:   *)
(* messages in flight, overtaking one another, and connections that break  *)
(* and come back.                                                          *)
(***************************************************************************)
EXTENDS CoreTables, GatewayLinks, SequencesExt

CONSTANTS
    Pushes,     \* the data that may be pushed, once each
    MaxSubs,    \* bound on the GLOBAL subscriptions of a gateway's plugins
    MaxChanges, \* how often plugins subscribe or unsubscribe
    MaxBreaks   \* how often a connection breaks

ASSUME NetworkAssumption ==
    /\ IsFiniteSet(Types)
    /\ MaxSubs \in Nat /\ MaxChanges \in Nat /\ MaxBreaks \in Nat

VARIABLES
    pushHandlers,   \* GLOBAL subscriptions of the plugins, by gateway
    crossGatewaySubscriptions, \* each gateway's counts for its neighbours
    registeredHandlers,  \* what each connection's handler remembers
    pushed,         \* the data that have been pushed
    delivered,      \* how often a datum reached the plugins of a gateway
    owed,           \* the gateways a datum still has to reach
    changes, breaks \* counted against their bounds

tables == <<pushHandlers, crossGatewaySubscriptions, registeredHandlers>>
data == <<pushed, delivered, owed>>
bounds == <<changes, breaks>>
vars == <<tables, links, data, bounds>>

Init ==
    /\ pushHandlers = [g \in Gateways |-> EmptyRow]
    /\ crossGatewaySubscriptions =
         [g \in Gateways |-> [n \in Gateways |-> EmptyRow]]
    /\ registeredHandlers = crossGatewaySubscriptions
    /\ LinksInit
    /\ pushed = {}
    /\ delivered = [d \in Pushes |-> [g \in Gateways |-> 0]]
    /\ owed = [d \in Pushes |-> {}]
    /\ changes = 0 /\ breaks = 0
-----------------------------------------------------------------------------
(* Messages. *)

Register(t) == [type |-> "Register", mime |-> t]
Unregister(t) == [type |-> "Unregister", mime |-> t]
PushMsg(d, t) == [type |-> "Push", data |-> d, mime |-> t]

(* One message for each type, however large its count. *)
FaultyBurst(kind, count) ==
    LET wanted == SetToSeq({t \in Types : count[t] > 0})
    IN  [i \in DOMAIN wanted |-> [type |-> kind, mime |-> wanted[i]]]

(* The entries of a multimap, told apart by numbers: count[x] for each x.  *)
Entries(count) == UNION {{x} \X (1..count[x]) : x \in DOMAIN count}

(* count[t] messages of this kind for every type t. *)
Burst(kind, count) ==
    LET entry == SetToSeq(Entries(count))
    IN  [i \in DOMAIN entry |-> [type |-> kind, mime |-> entry[i][1]]]

(* What each gateway but n wants of g: the subscriptions of g's plugins    *)
(* and of its other neighbours.                                            *)
Wants(g, n) ==
    [t \in Types |->
        pushHandlers[g][t] +
        Cardinality(Entries([k \in Gateways \ {n} |->
                                crossGatewaySubscriptions[g][k][t]]))]
-----------------------------------------------------------------------------
(* Plugins. *)

Subscribe(g, t) ==
    /\ changes < MaxChanges
    /\ changes' = changes + 1
    /\ pushHandlers[g][t] < MaxSubs
    /\ pushHandlers' = Insert(pushHandlers, g, t)
    /\ channel' = Sent(channel, g, Handled(g), <<Register(t)>>)
    /\ UNCHANGED <<crossGatewaySubscriptions, registeredHandlers, side, data,
                   breaks>>

(* One subscription is given up; a plugin that disconnects gives up all of *)
(* its own, one after the other.                                           *)
Unsubscribe(g, t) ==
    /\ changes < MaxChanges
    /\ changes' = changes + 1
    /\ pushHandlers[g][t] > 0
    /\ pushHandlers' = EraseOne(pushHandlers, g, t)
    /\ channel' = Sent(channel, g, Handled(g), <<Unregister(t)>>)
    /\ owed' = [d \in Pushes |-> owed[d] \ {g}]
    /\ UNCHANGED <<crossGatewaySubscriptions, registeredHandlers, side,
                   pushed, delivered, breaks>>

(* Every link is up and every gateway has heard of every change. *)
Settled ==
    \A g \in Gateways : \A n \in Neighbours(g) :
        /\ side[g][n] = "associated"
        /\ \A i \in DOMAIN channel[g][n] : ~IsControl(channel[g][n][i])

(* A plugin of g pushes: once the network has settled, each gateway with a *)
(* subscriber is owed the datum for as long as it stays subscribed and no  *)
(* connection breaks.                                                      *)
Push(g, d, t) ==
    /\ d \notin pushed
    /\ pushed' = pushed \cup {d}
    /\ channel' = Sent(channel, g,
                       Subscribers(crossGatewaySubscriptions[g], t),
                       <<PushMsg(d, t)>>)
    /\ owed' = [owed EXCEPT ![d] = IF Settled
                                   THEN Subscribers(pushHandlers, t) \ {g}
                                   ELSE {}]
    /\ UNCHANGED <<tables, side, delivered, bounds>>
-----------------------------------------------------------------------------
(* Connections. *)

(* The tables change only when the associations arrive. *)
Connect(g) ==
    /\ OpenLink(g)
    /\ UNCHANGED <<tables, data, bounds>>

(* Nothing has been retracted on the link between g and n. *)
NothingRetracted(g, n) ==
    /\ registeredHandlers[g][n] = crossGatewaySubscriptions[g][n]
    /\ \A t \in Types : ~Contains(channel[g][n], Unregister(t))

(* The counts that the connection contributed are left behind. *)
FaultyWithdraw(g, n) == crossGatewaySubscriptions

(* The table of g less what the handler of its link to n remembers. *)
Withdraw(g, n) ==
    [crossGatewaySubscriptions EXCEPT ![g][n] =
        [t \in Types |-> Less(@[t], registeredHandlers[g][n][t])]]

(* The handler of the closed end retracts all that it remembers.  It also  *)
(* remembers what has been retracted since (the run core_two_exports shows *)
(* what that leads to), so a break is considered only while there is no    *)
(* such thing.                                                             *)
Close(g, n) ==
    /\ CloseEnd(g, n, Burst("Unregister", registeredHandlers[g][n]))
    /\ side[n][g] # "closed" =>
         breaks < MaxBreaks /\ NothingRetracted(g, n) /\ NothingRetracted(n, g)
    /\ breaks' = IF side[n][g] # "closed" THEN breaks + 1 ELSE breaks
    /\ crossGatewaySubscriptions' = Withdraw(g, n)
    /\ registeredHandlers' = [registeredHandlers EXCEPT ![g][n] = EmptyRow]
    /\ owed' = [d \in Pushes |-> {}]
    /\ UNCHANGED <<pushHandlers, pushed, delivered, changes>>

(* The association: n is told of all that others want here. *)
ReceiveAssociate(g, n, i) ==
    /\ channel[n][g][i] = AssociateMsg
    /\ Receive(g, n, i, {n}, Burst("Register", Wants(g, n)))
    /\ side' = [side EXCEPT ![g][n] = "associated"]
    /\ UNCHANGED <<tables, data, bounds>>

(* A subscription of n is counted and passed on to the other neighbours. *)
ReceiveRegister(g, n, i) ==
    LET m == channel[n][g][i] IN
    /\ m.type = "Register"
    /\ Receive(g, n, i, Handled(g) \ {n}, <<m>>)
    /\ crossGatewaySubscriptions' =
         [crossGatewaySubscriptions EXCEPT ![g] = Insert(@, n, m.mime)]
    /\ registeredHandlers' =
         [registeredHandlers EXCEPT ![g] = Insert(@, n, m.mime)]
    /\ UNCHANGED <<pushHandlers, side, data, bounds>>

ReceiveUnregister(g, n, i) ==
    LET m == channel[n][g][i] IN
    /\ m.type = "Unregister"
    /\ Receive(g, n, i, Handled(g) \ {n}, <<m>>)
    /\ crossGatewaySubscriptions' =
         [crossGatewaySubscriptions EXCEPT ![g] = EraseOne(@, n, m.mime)]
    /\ UNCHANGED <<pushHandlers, registeredHandlers, side, data, bounds>>

(* The datum goes back to the neighbour it came from. *)
FaultyNextHops(g, n, t) == Subscribers(crossGatewaySubscriptions[g], t)

(* Where g passes a datum on that came from n. *)
NextHops(g, n, t) == Subscribers(crossGatewaySubscriptions[g], t) \ {n}

ReceivePush(g, n, i) ==
    LET m == channel[n][g][i] IN
    /\ m.type = "Push"
    /\ Receive(g, n, i, NextHops(g, n, m.mime), <<m>>)
    /\ IF g \in Subscribers(pushHandlers, m.mime)
       THEN /\ delivered' = [delivered EXCEPT ![m.data][g] = @ + 1]
            /\ owed' = [owed EXCEPT ![m.data] = @ \ {g}]
       ELSE UNCHANGED <<delivered, owed>>
    /\ UNCHANGED <<tables, side, pushed, bounds>>

ReceiveSome(g, n) ==
    \E i \in Arrivals(channel[n][g]) :
        \/ ReceiveAssociate(g, n, i)
        \/ ReceiveRegister(g, n, i)
        \/ ReceiveUnregister(g, n, i)
        \/ ReceivePush(g, n, i)
-----------------------------------------------------------------------------
Next ==
    \/ \E g \in Gateways, t \in Types :
         \/ Subscribe(g, t)
         \/ Unsubscribe(g, t)
         \/ \E d \in Pushes : Push(g, d, t)
    \/ \E g \in DOMAIN Parent : Connect(g)
    \/ \E g \in Gateways : \E n \in Neighbours(g) :
         Close(g, n) \/ ReceiveSome(g, n)

(* A reactor serves every connection that has something to read. *)
Fairness ==
    \A g \in Gateways : \A n \in Neighbours(g) : WF_vars(ReceiveSome(g, n))

Spec == Init /\ [][Next]_vars /\ Fairness
-----------------------------------------------------------------------------
(* Properties *)

(* Types of the tables, of the ends of links and of the ledgers of data;   *)
(* only neighbours exchange messages or subscriptions.                     *)
TypeOK ==
    /\ LinksOK
    /\ pushHandlers \in [Gateways -> [Types -> 0..MaxSubs]]
    /\ \A g, n \in Gateways :
         /\ crossGatewaySubscriptions[g][n] \in Row
         /\ registeredHandlers[g][n] \in Row
         /\ side[g][n] = "closed" =>
              crossGatewaySubscriptions[g][n] = EmptyRow
    /\ \A d \in Pushes : owed[d] \subseteq Gateways
    /\ changes <= MaxChanges /\ breaks <= MaxBreaks

(* Messages m in the channel from g to n. *)
InFlight(g, n, m) ==
    Cardinality({i \in DOMAIN channel[g][n] : channel[g][n][i] = m})

(* The count a gateway holds for a neighbour, together with the messages   *)
(* that are still on their way, is what the neighbour has on behalf of     *)
(* everyone else: "the ref count on the other end" is right                *)
(* (GatewayCore.cpp:308), whatever messages crossed, and whatever changed  *)
(* between a gateway's own association and the one of its neighbour.       *)
RefCounts ==
    \A g \in Gateways : \A n \in Handled(g), t \in Types :
        side[n][g] # "closed" =>
            crossGatewaySubscriptions[n][g][t]
            + InFlight(g, n, Register(t)) - InFlight(g, n, Unregister(t))
                = Wants(g, n)[t]

(* End to end: once the network has settled, a count is the number of      *)
(* subscriptions the plugins beyond that link hold, no more and no fewer.  *)
CountsAreTotals ==
    Settled =>
        \A g \in Gateways : \A n \in Neighbours(g), t \in Types :
            crossGatewaySubscriptions[g][n][t] =
                Cardinality(Entries([m \in Beyond(g, n) |-> pushHandlers[m][t]]))

(* The plugins of no gateway are given a datum twice, whatever connections *)
(* broke and came back while it was on its way.                            *)
AtMostOnce == \A d \in Pushes, g \in Gateways : delivered[d][g] <= 1

(* A datum pushed in a settled network reaches every gateway that had a    *)
(* subscriber, unless that one unsubscribes or a connection breaks: a      *)
(* retraction by somebody else, in front of it or behind it on its way,    *)
(* does not cut it off.                                                    *)
NoneMissed ==
    \A d \in Pushes, g \in Gateways : (g \in owed[d]) ~> (g \notin owed[d])
=============================================================================
