---------------------------- MODULE PullNetwork -----------------------------
(***************************************************************************)
(* Pull requests in a tree of gateways.  Providers register for a type;    *)
(* requests of a device follow these registrations, and leave a trail of   *)
(* entries by which the answers find their way back.  The device may move  *)
(* to another gateway and ask again from there, while the handler of its   *)
(* old connection lives on and its old trail is still in the tables.       *)
(*                                                                         *)
(* The tables of requests have one entry for each plugin id, and the       *)
(* entries of two ids never meet, so one device is enough; the tables of   *)
(* interests are likewise looked at for one type.                          *)
(***************************************************************************)
EXTENDS GatewayLinks

CONSTANTS
    Providers,        \* the gateways with a plugin that answers requests
    Places,           \* the gateways the device may connect to
    MaxRequests,      \* the requests the device makes, by number
    MaxEvents         \* bound on (un)registrations, requests, moves of the
                      \* device and breaks of links, together

ASSUME ClientAssumption ==
    /\ Providers \subseteq Gateways /\ Places \subseteq Gateways
    /\ MaxRequests \in Nat /\ MaxEvents \in Nat

Requests == 1..MaxRequests

Nowhere == "nowhere"

ASSUME NowhereAssumption == Nowhere \notin Gateways

VARIABLES
    pullHandlers,   \* the gateways whose provider has registered
    crossGatewayPullRequestHandlers, \* each gateway's counts for neighbours
    plugins,        \* the gateways whose table leads to a device handler
    cgPullRequestReturnIds, \* the neighbour that the last request came from
    device,         \* the gateway the device is connected to
    handlers,       \* the gateways with a live handler of the device
    requests,       \* the number of requests made so far
    held,           \* by gateway, the requests its provider is to answer
    reached,        \* by provider, where its registration has been told
    missed,         \* a link has come up too late for some registration
    owed,           \* the <<request, provider>> the device waits for
    events          \* counted against their bound

interests == <<pullHandlers, crossGatewayPullRequestHandlers>>
trail == <<plugins, cgPullRequestReturnIds>>
clients == <<device, handlers>>
work == <<requests, held>>
ledger == <<reached, missed, owed>>
vars == <<interests, trail, clients, work, ledger, links, events>>

Init ==
    /\ LinksUp
    /\ pullHandlers = {}
    /\ crossGatewayPullRequestHandlers =
         [g \in Gateways |-> [n \in Gateways |-> 0]]
    /\ plugins = {}
    /\ cgPullRequestReturnIds = [g \in Gateways |-> Nowhere]
    /\ device \in Places /\ handlers = {device}
    /\ requests = 0
    /\ held = [g \in Gateways |-> {}]
    /\ reached = [g \in Gateways |-> {}]
    /\ missed = FALSE /\ owed = {}
    /\ events = 0
-----------------------------------------------------------------------------
Event == events < MaxEvents /\ events' = events + 1

RegisterMsg == [type |-> "Register"]
UnregisterMsg == [type |-> "Unregister"]

(* `from' is the gateway that the device asked at or whose provider        *)
(* answers, and `path' the gateways the message has been through: the      *)
(* properties speak of them, the code does not know them.                  *)
Msg(type, r, from, path) ==
    [type |-> type, request |-> r, from |-> from, path |-> path]

(* The neighbours of g through which a provider has registered. *)
Interested(g) == {n \in Gateways : crossGatewayPullRequestHandlers[g][n] > 0}

(* Every registration sent has arrived. *)
Announced ==
    \A g, n \in Gateways : \A i \in DOMAIN channel[g][n] :
        ~IsControl(channel[g][n][i])

(* A request of the device from another gateway is still on its way. *)
StrayRequest ==
    \E g, n \in Gateways : \E i \in DOMAIN channel[g][n] :
        /\ channel[g][n][i].type = "Request"
        /\ channel[g][n][i].from # device
-----------------------------------------------------------------------------
(* Providers. *)

(* A registration is told to the gateways that are connected now, and, as  *)
(* it is not repeated, to no other.                                        *)
RegisterPullInterest(g) ==
    /\ Event
    /\ g \notin pullHandlers
    /\ pullHandlers' = pullHandlers \cup {g}
    /\ channel' = Sent(channel, g, Handled(g), <<RegisterMsg>>)
    /\ reached' = [reached EXCEPT ![g] = Connected(g)]
    /\ UNCHANGED <<crossGatewayPullRequestHandlers, side, trail, clients, work,
                   missed, owed>>

(* Other gateways are not told (GatewayCore.cpp:134 keeps the branch that  *)
(* would tell them from being taken), and go on sending requests.          *)
UnregisterPullInterest(g) ==
    /\ Event
    /\ g \in pullHandlers
    /\ pullHandlers' = pullHandlers \ {g}
    /\ held' = [held EXCEPT ![g] = {}]
    /\ reached' = [reached EXCEPT ![g] = {}]
    /\ owed' = {o \in owed : o[2] # g}
    /\ UNCHANGED <<crossGatewayPullRequestHandlers, trail, clients, requests,
                   missed, links>>

(* Gateway g passes the request r on to its own provider, if it has one. *)
Ask(g, r) ==
    held' = [held EXCEPT ![g] = IF g \in pullHandlers THEN @ \cup {r} ELSE @]

(* An answer may go back to where it came from. *)
FaultyReturnHop(g, from) == {cgPullRequestReturnIds[g]} \cap Handled(g)

(* The neighbour that g sends an answer to: never back where it came from. *)
ReturnHop(g, from) == {cgPullRequestReturnIds[g]} \cap (Handled(g) \ {from})

(* The entry for a gateway comes before the entry for a plugin. *)
FaultyGivenToDevice(g) ==
    g \in plugins /\ cgPullRequestReturnIds[g] = Nowhere

(* The entry for a plugin comes before the entry for a gateway. *)
GivenToDevice(g) == g \in plugins

(* Gateway g is handed the answer of the provider at `by' to r: it goes to *)
(* the handler its table names, of an old connection perhaps, and the      *)
(* device hears of it only if that is the one it uses.                     *)
Deliver(g, r, by) ==
    owed' = IF GivenToDevice(g) /\ device = g THEN owed \ {<<r, by>>} ELSE owed

(* A provider answers a request. *)
PullResponse(g, r) ==
    /\ r \in held[g]
    /\ held' = [held EXCEPT ![g] = @ \ {r}]
    /\ Deliver(g, r, g)
    /\ channel' = IF GivenToDevice(g) THEN channel
                  ELSE Sent(channel, g, ReturnHop(g, g),
                            <<Msg("Response", r, g, {g})>>)
    /\ UNCHANGED <<interests, trail, clients, requests, reached, missed, side,
                   events>>
-----------------------------------------------------------------------------
(* The device. *)

(* The device turns up at a gateway; its old handler, elsewhere, lives on  *)
(* until the gateway there notices.                                        *)
Move(g) ==
    /\ Event
    /\ g \notin handlers
    /\ device' = g
    /\ handlers' = handlers \cup {g}
    /\ owed' = {}
    /\ UNCHANGED <<interests, trail, work, reached, missed, links>>

(* The entry stays behind. *)
FaultyForgetPlugin(g) == plugins

(* The handler takes out its entry when it is destroyed. *)
ForgetPlugin(g) == plugins \ {g}

(* The end of an old connection of the device is noticed. *)
Leave(g) ==
    /\ g \in handlers \ {device}
    /\ handlers' = handlers \ {g}
    /\ plugins' = ForgetPlugin(g)
    /\ UNCHANGED <<interests, cgPullRequestReturnIds, device, work, ledger,
                   links, events>>

(* Nothing the device left behind can mislead the answers to come. *)
TrailIsClear == plugins \subseteq {device} /\ ~StrayRequest

(* The device asks, of all gateways.  If its trail is clear it is owed an  *)
(* answer by every other provider whose registration reached this gateway. *)
PullRequest ==
    LET g == device
        r == requests + 1 IN
    /\ Event
    /\ r \in Requests
    /\ requests' = r
    /\ Ask(g, r)
    /\ plugins' = plugins \cup {g}
    /\ channel' = Sent(channel, g, Interested(g), <<Msg("Request", r, g, {g})>>)
    /\ owed' = owed \cup {<<r, p>> : p \in {p \in pullHandlers :
                              /\ ~missed /\ g \in reached[p]
                              /\ TrailIsClear /\ Announced}}
    /\ UNCHANGED <<interests, cgPullRequestReturnIds, clients, reached, missed,
                   side>>
-----------------------------------------------------------------------------
(* Links. *)

Connect(g) ==
    /\ OpenLink(g)
    /\ UNCHANGED <<interests, trail, clients, work, ledger, events>>

(* The counts of a dead connection are left behind. *)
FaultyWithdrawn(g, n) == crossGatewayPullRequestHandlers

(* The destructor takes out what came over its connection, one by one. *)
Withdrawn(g, n) == [crossGatewayPullRequestHandlers EXCEPT ![g][n] = 0]

(* What the destructor of the connection between g and n retracts from the *)
(* other neighbours of g.                                                  *)
Retracted(g, n) ==
    [i \in 1..crossGatewayPullRequestHandlers[g][n] |-> UnregisterMsg]

(* Registrations no longer hold across a link that has broken. *)
CutOff(g, n) ==
    [p \in Gateways |-> reached[p] \ IF p \in Beyond(g, n) THEN Beyond(n, g)
                                                        ELSE Beyond(g, n)]

(* The destructor withdraws what the connection registered, and the trail  *)
(* of the requests that came over it.                                      *)
Close(g, n) ==
    /\ CloseEnd(g, n, Retracted(g, n))
    /\ IF side[n][g] # "closed" THEN Event ELSE UNCHANGED events
    /\ crossGatewayPullRequestHandlers' = Withdrawn(g, n)
    /\ cgPullRequestReturnIds' =
         [cgPullRequestReturnIds EXCEPT ![g] = IF @ = n THEN Nowhere ELSE @]
    /\ reached' = CutOff(g, n)
    /\ owed' = {}
    /\ UNCHANGED <<pullHandlers, plugins, clients, work, missed>>

(* Subscriptions of plugins are told to a new neighbour, and pull          *)
(* interests are not: the neighbour misses them, yet they will be          *)
(* retracted from it, at the expense of those that it has heard of.        *)
ReceiveAssociate(g, n, i) ==
    /\ channel[n][g][i] = AssociateMsg
    /\ Receive(g, n, i, {}, << >>)
    /\ side' = [side EXCEPT ![g][n] = "associated"]
    /\ missed' = (missed \/ g \in pullHandlers \/ Interested(g) # {})
    /\ UNCHANGED <<interests, trail, clients, work, reached, owed, events>>

(* A second registration by way of n is not counted. *)
FaultyCounted(g, n) == [crossGatewayPullRequestHandlers EXCEPT ![g][n] = 1]

(* One more registration by way of n. *)
Counted(g, n) == [crossGatewayPullRequestHandlers EXCEPT ![g][n] = @ + 1]

ReceiveRegister(g, n, i) ==
    /\ channel[n][g][i] = RegisterMsg
    /\ Receive(g, n, i, Handled(g) \ {n}, <<RegisterMsg>>)
    /\ crossGatewayPullRequestHandlers' = Counted(g, n)
    /\ UNCHANGED <<pullHandlers, side, trail, clients, work, ledger, events>>

ReceiveUnregister(g, n, i) ==
    /\ channel[n][g][i] = UnregisterMsg
    /\ Receive(g, n, i, Handled(g) \ {n}, <<UnregisterMsg>>)
    /\ crossGatewayPullRequestHandlers' =
         [crossGatewayPullRequestHandlers EXCEPT
             ![g][n] = IF @ = 0 THEN 0 ELSE @ - 1]
    /\ UNCHANGED <<pullHandlers, side, trail, clients, work, ledger, events>>

(* The message as g passes it on. *)
Through(g, m) == [m EXCEPT !.path = @ \cup {g}]

(* The request is sent back as well. *)
FaultyNextHops(g, n) == Interested(g)

(* Where g passes a request on that came from n. *)
NextHops(g, n) == Interested(g) \ {n}

ReceiveRequest(g, n, i) ==
    LET m == channel[n][g][i] IN
    /\ m.type = "Request"
    /\ Receive(g, n, i, NextHops(g, n), <<Through(g, m)>>)
    /\ Ask(g, m.request)
    /\ cgPullRequestReturnIds' = [cgPullRequestReturnIds EXCEPT ![g] = n]
    /\ UNCHANGED <<interests, plugins, clients, requests, ledger, side, events>>

ReceiveResponse(g, n, i) ==
    LET m == channel[n][g][i] IN
    /\ m.type = "Response"
    /\ Receive(g, n, i, IF GivenToDevice(g) THEN {} ELSE ReturnHop(g, n),
               <<Through(g, m)>>)
    /\ Deliver(g, m.request, m.from)
    /\ UNCHANGED <<interests, trail, clients, work, reached, missed, side,
                   events>>

ReceiveSome(g, n) ==
    \E i \in Arrivals(channel[n][g]) :
        \/ ReceiveAssociate(g, n, i)
        \/ ReceiveRegister(g, n, i)
        \/ ReceiveUnregister(g, n, i)
        \/ ReceiveRequest(g, n, i)
        \/ ReceiveResponse(g, n, i)
-----------------------------------------------------------------------------
Next ==
    \/ \E g \in Providers :
         \/ RegisterPullInterest(g)
         \/ UnregisterPullInterest(g)
         \/ \E r \in Requests : PullResponse(g, r)
    \/ \E g \in Places : Move(g) \/ Leave(g)
    \/ \E g \in Gateways : \E n \in Neighbours(g) :
         Close(g, n) \/ ReceiveSome(g, n)
    \/ PullRequest
    \/ \E g \in DOMAIN Parent : Connect(g)

Spec == Init /\ [][Next]_vars
-----------------------------------------------------------------------------
(* Properties *)

(* Types of the tables and of the ledgers.  An entry of plugins leads to a *)
(* handler that lives.                                                     *)
TypeOK ==
    /\ LinksOK
    /\ pullHandlers \subseteq Gateways
    /\ crossGatewayPullRequestHandlers \in [Gateways -> [Gateways -> Nat]]
    /\ cgPullRequestReturnIds \in [Gateways -> Gateways \cup {Nowhere}]
    /\ device \in handlers
    /\ plugins \subseteq handlers /\ handlers \subseteq Gateways
    /\ requests \in 0..MaxRequests
    /\ held \in [Gateways -> SUBSET (1..requests)]
    /\ reached \in [Gateways -> SUBSET Gateways]
    /\ missed \in BOOLEAN
    /\ owed \subseteq (1..requests) \X pullHandlers

(* Requests are sent to crossGatewayHandlers[id] without looking whether   *)
(* id is in that map (GatewayCore.cpp:228, :509), where a missing one      *)
(* yields NULL: a neighbour with a registration must have a connection,    *)
(* whatever arrives while a link is made or torn down.                     *)
InterestsAreHandled == \A g \in Gateways : Interested(g) \subseteq Handled(g)

(* Neither requests nor answers return to a gateway they have been         *)
(* through, so none is seen twice or runs in a circle, though each gateway *)
(* knows only its neighbours, and the trails of two gateways may point at  *)
(* each other after the device has moved.                                  *)
NoneReturns ==
    \A g, n \in Gateways : \A i \in DOMAIN channel[g][n] :
        LET m == channel[g][n][i]
        IN  ~IsControl(m) => n \notin m.path

(* Once every message has arrived and every provider has answered, a       *)
(* device that has stayed where it is has had the answer of every provider *)
(* whose registration reached its gateway, by whatever trail earlier       *)
(* requests left and whatever other providers come and go behind the same  *)
(* links: unless a link breaks, or has come up after a registration and    *)
(* never been told of it, a handler of its own from before it moved still  *)
(* answers for it on the way, or a request it made elsewhere is still      *)
(* under way and turns the trail (GatewayCore.cpp:504).                    *)
AnswersReturn ==
    (\A g \in Gateways : held[g] = {} /\ \A n \in Gateways : channel[g][n] = << >>)
        => owed = {}
=============================================================================
