---------------------------- MODULE GatewayCore ----------------------------
(***************************************************************************)
(* The gateway core: the routing tables of one gateway, the objects of its *)
(* plugin connections (GatewayEventHandler) and of its connections to      *)
(* other gateways (CrossGatewayEventHandler).  The tables hold raw         *)
(* pointers to those objects, and every entry is taken out again by the    *)
(* destructor of the object, which works from lists the object keeps about *)
(* itself.  One reactor thread runs all handlers, so a handler is one      *)
(* action; the connection manager's thread only connects and notifies.     *)
(*                                                                         *)
(* A handler or connection that has gone may come back: the allocator is   *)
(* free to give a new object the address of a dead one, so an element of   *)
(* Handlers or Conns is an address rather than an object.                  *)
(***************************************************************************)
EXTENDS CoreTables

CONSTANTS
    Handlers,   \* addresses of GatewayEventHandler objects
    Conns,      \* addresses of CrossGatewayEventHandler objects
    GatewayIds, \* the names other gateways associate with
    PluginIds,  \* names in pull requests, and devices that wait for acks
    None,       \* NULL, the empty string, no entry
    HasParent,  \* whether a parent address is configured
    OneConnectionPerGateway, \* peers reconnect only once their old
                             \* connection has been torn down here
    BalancedPeers,           \* peers only retract what they registered
    MaxRegs,    \* bound on push registrations of one object for one type
    MaxPullRegs,\* the same for pull registrations
    MaxExported \* the counts of exported messages stop here, both ways

ASSUME CoreAssumption ==
    /\ None \notin Handlers \cup Conns \cup GatewayIds \cup PluginIds
    /\ Handlers \cap Conns = {}
    /\ IsFiniteSet(Handlers) /\ IsFiniteSet(GatewayIds)
    /\ HasParent \in BOOLEAN
    /\ OneConnectionPerGateway \in BOOLEAN
    /\ BalancedPeers \in BOOLEAN
    /\ MaxRegs \in Nat /\ MaxPullRegs \in Nat /\ MaxExported \in Nat

Scopes == {"LOCAL", "GLOBAL"}

VARIABLES
    (* plugin side *)
    live,           \* plugin connections that are up
    pushHandlers,   \* push subscriptions, [scope][handler][type]
    pullHandlers,   \* pull registrations, likewise
    plugins,        \* the handler that answers go to, by plugin id
    registeredHandlers,              \* what each plugin handler remembers
    registeredPullRequestHandlers,   \* about itself, for its destructor
    registeredPullResponsePluginIds,
    (* gateway side *)
    open,           \* gateway connections that are up
    gatewayId,      \* the id a connection associated with, or None
    crossGatewayHandlers,            \* the connection of each gateway id
    crossGatewaySubscriptions,       \* push subscriptions by gateway id
    crossGatewayPullRequestHandlers, \* pull reference counts by gateway id
    cgPullRequestReturnIds,          \* the gateway that asked, by plugin id
    cgRegisteredHandlers,            \* what each connection remembers
    cgRegisteredPullHandlers,
    cgRegisteredPullResponsePluginIds,
    (* the link to the parent *)
    manager,        \* connection manager's thread: absent, idle, running
    managerHandler, \* the connection it made last
    notified,       \* its notification is still in the reactor's queue
    parentHandler,
    (* what the properties look at *)
    wild,           \* a message was sent through NULL or a dead object
    exported        \* Subscribe less Unsubscribe sent on each connection

localVars == <<live, pushHandlers, pullHandlers, plugins, registeredHandlers,
               registeredPullRequestHandlers, registeredPullResponsePluginIds>>
peerVars == <<open, gatewayId, crossGatewayHandlers,
              crossGatewaySubscriptions, crossGatewayPullRequestHandlers,
              cgPullRequestReturnIds, cgRegisteredHandlers,
              cgRegisteredPullHandlers, cgRegisteredPullResponsePluginIds>>
parentVars == <<manager, managerHandler, notified, parentHandler>>
ghostVars == <<wild, exported>>
vars == <<localVars, peerVars, parentVars, ghostVars>>

Init ==
    /\ live = {}
    /\ pushHandlers = [s \in Scopes |-> [h \in Handlers |-> EmptyRow]]
    /\ pullHandlers = [s \in Scopes |-> [h \in Handlers |-> EmptyRow]]
    /\ plugins = [p \in PluginIds |-> None]
    /\ registeredHandlers = [h \in Handlers |-> EmptyRow]
    /\ registeredPullRequestHandlers = [h \in Handlers |-> EmptyRow]
    /\ registeredPullResponsePluginIds = [h \in Handlers |-> {}]
    /\ open = {}
    /\ gatewayId = [c \in Conns |-> None]
    /\ crossGatewayHandlers = [i \in GatewayIds |-> None]
    /\ crossGatewaySubscriptions = [i \in GatewayIds |-> EmptyRow]
    /\ crossGatewayPullRequestHandlers = [i \in GatewayIds |-> EmptyRow]
    /\ cgPullRequestReturnIds = [p \in PluginIds |-> None]
    /\ cgRegisteredHandlers = [c \in Conns |-> EmptyRow]
    /\ cgRegisteredPullHandlers = [c \in Conns |-> EmptyRow]
    /\ cgRegisteredPullResponsePluginIds = [c \in Conns |-> {}]
    /\ manager = IF HasParent THEN "running" ELSE "absent"
    /\ managerHandler = None
    /\ notified = FALSE
    /\ parentHandler = None
    /\ wild = FALSE
    /\ exported = [c \in Conns |-> EmptyRow]

-----------------------------------------------------------------------------
(* Messages.  What a service handler does with a message is not looked at  *)
(* here: a step records only whether every pointer it sent through was     *)
(* that of a live object, and counts the push subscriptions told to other  *)
(* gateways, per connection and type.                                      *)

(* Every connection in crossGatewayHandlers but the one of gateway `but'. *)
Listed(but) ==
    {crossGatewayHandlers[i] : i \in GatewayIds \ {but}} \ {None}

Clip(n) == IF n > MaxExported THEN MaxExported
           ELSE IF n < -MaxExported THEN -MaxExported ELSE n

(* The ledger after each connection in `to' is sent delta[t] more messages *)
(* about each type t.                                                      *)
Tell(ledger, to, delta) ==
    [c \in Conns |->
        IF c \in to THEN [t \in Types |-> Clip(ledger[c][t] + delta[t])]
                    ELSE ledger[c]]

Calls(to) == wild' = (wild \/ ~(to \subseteq live \cup open))

SendsData(to) == Calls(to) /\ UNCHANGED exported

SendsNothing == UNCHANGED ghostVars

SendsInterest(to, delta) ==
    /\ Calls(to)
    /\ exported' = Tell(exported, to, delta)

(* The ids are not taken out. *)
FaultyForget(map, ids, owner) == map

(* unregisterPullResponsePluginId, of either kind, for each of `ids': the  *)
(* entry goes only if it is still the owner's.                             *)
Forget(map, ids, owner) ==
    [p \in PluginIds |->
        IF p \in ids /\ map[p] = owner THEN None ELSE map[p]]

(* crossGatewayHandlers[id]->...: operator[] yields NULL for an absent id. *)
Routes(ids) == {crossGatewayHandlers[i] : i \in ids}
-----------------------------------------------------------------------------
(* Plugins: GatewayEventHandler::onMessageAvailable and its destructor. *)

(* A plugin connects: a new object with empty lists (Disconnect left the *)
(* lists of this address empty).                                         *)
Connect(h) ==
    /\ h \notin live
    /\ live' = live \cup {h}
    /\ SendsNothing
    /\ UNCHANGED <<pushHandlers, pullHandlers, plugins, registeredHandlers,
                   registeredPullRequestHandlers,
                   registeredPullResponsePluginIds, peerVars, parentVars>>

RegisterDataInterest(h, t, s) ==
    /\ h \in live
    /\ registeredHandlers[h][t] < MaxRegs
    /\ pushHandlers' = [pushHandlers EXCEPT ![s] = Insert(@, h, t)]
    /\ registeredHandlers' = Insert(registeredHandlers, h, t)
    /\ IF s = "GLOBAL" THEN SendsInterest(Listed(None), Only(t, 1))
                       ELSE SendsNothing
    /\ UNCHANGED <<live, pullHandlers, plugins, registeredPullRequestHandlers,
                   registeredPullResponsePluginIds, peerVars, parentVars>>

(* Takes out one registration of that type and scope, if there is one. *)
UnregisterDataInterest(h, t, s) ==
    /\ h \in live
    /\ IF pushHandlers[s][h][t] > 0
       THEN /\ pushHandlers' = [pushHandlers EXCEPT ![s] = EraseOne(@, h, t)]
            /\ registeredHandlers' = EraseOne(registeredHandlers, h, t)
            /\ IF s = "GLOBAL" THEN SendsInterest(Listed(None), Only(t, -1))
                               ELSE SendsNothing
       ELSE SendsNothing /\ UNCHANGED <<pushHandlers, registeredHandlers>>
    /\ UNCHANGED <<live, pullHandlers, plugins, registeredPullRequestHandlers,
                   registeredPullResponsePluginIds, peerVars, parentVars>>

PushSubscribers(t) ==
    UNION {Subscribers(pushHandlers[s], t) : s \in Scopes}

(* PUSH_DATA.  An acknowledgement requested by device p (none if p = None) *)
(* will be returned through the plugin h that pushed for it.               *)
PushData(h, t, s, p) ==
    /\ h \in live
    /\ SendsData((PushSubscribers(t) \ {h}) \cup
                 IF s = "GLOBAL"
                 THEN Routes(Subscribers(crossGatewaySubscriptions, t))
                 ELSE {})
    /\ IF p # None
       THEN /\ plugins' = [plugins EXCEPT ![p] = h]
            /\ registeredPullResponsePluginIds' =
                 [registeredPullResponsePluginIds EXCEPT ![h] = @ \cup {p}]
       ELSE UNCHANGED <<plugins, registeredPullResponsePluginIds>>
    /\ UNCHANGED <<live, pushHandlers, pullHandlers, registeredHandlers,
                   registeredPullRequestHandlers, peerVars, parentVars>>

(* PUSH_ACKNOWLEDGEMENT for device p, never returned to its own sender. *)
PushAcknowledgement(h, p) ==
    /\ h \in live
    /\ SendsData({plugins[p]} \ {None, h})
    /\ UNCHANGED <<localVars, peerVars, parentVars>>

PullSubscribers(t) ==
    UNION {Registered(pullHandlers[s], t) : s \in Scopes}

(* PULL_REQUEST for type t in the name of plugin id p. *)
PullRequest(h, p, t, s) ==
    /\ h \in live
    /\ SendsData((PullSubscribers(t) \ {h}) \cup
                 IF s = "GLOBAL"
                 THEN Routes(Registered(crossGatewayPullRequestHandlers, t))
                 ELSE {})
    /\ plugins' = [plugins EXCEPT ![p] = h]
    /\ registeredPullResponsePluginIds' =
         [registeredPullResponsePluginIds EXCEPT ![h] = @ \cup {p}]
    /\ UNCHANGED <<live, pushHandlers, pullHandlers, registeredHandlers,
                   registeredPullRequestHandlers, peerVars, parentVars>>

(* Whoever asked in the name of p here, or else the connection of the      *)
(* gateway it was asked from, unless that is `origin'.                     *)
Requester(p, origin) ==
    IF plugins[p] # None THEN {plugins[p]}
    ELSE IF cgPullRequestReturnIds[p] \in {None, origin} THEN {}
         ELSE {crossGatewayHandlers[cgPullRequestReturnIds[p]]} \ {None}

(* PULL_RESPONSE for plugin id p. *)
PullResponse(h, p) ==
    /\ h \in live
    /\ SendsData(Requester(p, None))
    /\ UNCHANGED <<localVars, peerVars, parentVars>>

RegisterPullInterest(h, t, s) ==
    /\ h \in live
    /\ registeredPullRequestHandlers[h][t] < MaxPullRegs
    /\ pullHandlers' = [pullHandlers EXCEPT ![s] = Insert(@, h, t)]
    /\ registeredPullRequestHandlers' =
         Insert(registeredPullRequestHandlers, h, t)
    /\ IF s = "GLOBAL" THEN SendsData(Listed(None))
                       ELSE SendsNothing
    /\ UNCHANGED <<live, pushHandlers, plugins, registeredHandlers,
                   registeredPullResponsePluginIds, peerVars, parentVars>>

(* The message's scope is not looked at, the first registration of the     *)
(* type is erased whatever its own scope s, and nothing is propagated:     *)
(* foundScope is set to SCOPE_ALL, never to SCOPE_GLOBAL.                  *)
UnregisterPullInterest(h, t, s) ==
    /\ h \in live
    /\ pullHandlers[s][h][t] > 0
    /\ pullHandlers' = [pullHandlers EXCEPT ![s] = EraseOne(@, h, t)]
    /\ registeredPullRequestHandlers' =
         EraseOne(registeredPullRequestHandlers, h, t)
    /\ SendsNothing
    /\ UNCHANGED <<live, pushHandlers, plugins, registeredHandlers,
                   registeredPullResponsePluginIds, peerVars, parentVars>>

(* The entries of scope LOCAL stay behind. *)
FaultyRemains(table, h, count) ==
    {[s \in Scopes |-> [t \in Types |->
        IF s = "LOCAL" THEN table[s][h][t] ELSE Less(table[s][h][t], count[t])]]}

(* What `count[t]' calls with SCOPE_ALL leave of h's entries of each type: *)
(* the entries go one by one, of either scope.                             *)
Remains(table, h, count) ==
    {left \in [Scopes -> [Types -> 0..(MaxRegs + MaxPullRegs)]] :
        \A t \in Types :
            /\ \A s \in Scopes : left[s][t] <= table[s][h][t]
            /\ left["LOCAL"][t] + left["GLOBAL"][t] =
                 Less(table["LOCAL"][h][t] + table["GLOBAL"][h][t], count[t])}

Leave(table, h, left) ==
    [s \in Scopes |-> [table[s] EXCEPT ![h] = left[s]]]

(* The connection is closed and ~GatewayEventHandler unregisters all that  *)
(* the object remembers; each GLOBAL subscription erased is retracted from *)
(* the other gateways.                                                     *)
Disconnect(h) ==
    /\ h \in live
    /\ live' = live \ {h}
    /\ \E left \in Remains(pushHandlers, h, registeredHandlers[h]) :
         /\ pushHandlers' = Leave(pushHandlers, h, left)
         /\ SendsInterest(Listed(None),
                          [t \in Types |-> left["GLOBAL"][t]
                                           - pushHandlers["GLOBAL"][h][t]])
    /\ \E left \in Remains(pullHandlers, h, registeredPullRequestHandlers[h]) :
         pullHandlers' = Leave(pullHandlers, h, left)
    /\ plugins' = Forget(plugins, registeredPullResponsePluginIds[h], h)
    /\ registeredHandlers' = [registeredHandlers EXCEPT ![h] = EmptyRow]
    /\ registeredPullRequestHandlers' =
         [registeredPullRequestHandlers EXCEPT ![h] = EmptyRow]
    /\ registeredPullResponsePluginIds' =
         [registeredPullResponsePluginIds EXCEPT ![h] = {}]
    /\ UNCHANGED <<peerVars, parentVars>>
-----------------------------------------------------------------------------
(* Other gateways: CrossGatewayEventHandler.  A peer's first message is    *)
(* its ASSOCIATE_CROSS_GATEWAY, queued before any other and of the highest *)
(* priority, so every other message comes on an associated connection.     *)

Opens(c) ==
    /\ c \notin open
    /\ open' = open \cup {c}
    /\ exported' = [exported EXCEPT ![c] = EmptyRow]
    /\ UNCHANGED <<gatewayId, crossGatewayHandlers, crossGatewaySubscriptions,
                   crossGatewayPullRequestHandlers, cgPullRequestReturnIds,
                   cgRegisteredHandlers, cgRegisteredPullHandlers,
                   cgRegisteredPullResponsePluginIds>>

(* The acceptor takes a connection of another gateway. *)
Accept(c) ==
    /\ Opens(c)
    /\ UNCHANGED <<localVars, parentVars, wild>>

(* How many of the table's entries for t belong to these owners. *)
Entries(table, owners, t) ==
    Cardinality({e \in owners \X (1..(MaxRegs + MaxPullRegs)) :
                    e[2] <= table[e[1]][t]})

(* How often registerCrossGatewayConnection sends a Subscribe for t: once  *)
(* for each GLOBAL entry of a plugin and each entry of another gateway.    *)
Replay(i, t) ==
    Entries(pushHandlers["GLOBAL"], Handlers, t)
    + Entries(crossGatewaySubscriptions, GatewayIds \ {i}, t)

(* ASSOCIATE_CROSS_GATEWAY from gateway i: the connection replaces any     *)
(* other of that id in the table, and is told every GLOBAL push            *)
(* subscription of the plugins and every one of the other gateways, as     *)
(* many times as it was made.  Pull interests are not replayed.            *)
Associate(c, i) ==
    /\ c \in open
    /\ gatewayId[c] = None
    /\ OneConnectionPerGateway => \A d \in open : gatewayId[d] # i
    /\ gatewayId' = [gatewayId EXCEPT ![c] = i]
    /\ crossGatewayHandlers' = [crossGatewayHandlers EXCEPT ![i] = c]
    /\ exported' = Tell(exported, {c},
                        [t \in Types |-> Replay(i, t)])
    /\ UNCHANGED <<localVars, parentVars, open, crossGatewaySubscriptions,
                   crossGatewayPullRequestHandlers, cgPullRequestReturnIds,
                   cgRegisteredHandlers, cgRegisteredPullHandlers,
                   cgRegisteredPullResponsePluginIds, wild>>

Associated(c) == c \in open /\ gatewayId[c] # None

(* REGISTER_DATA_INTEREST *)
SubscribeCrossGateway(c, t) ==
    /\ Associated(c)
    /\ cgRegisteredHandlers[c][t] < MaxRegs
    /\ crossGatewaySubscriptions' =
         Insert(crossGatewaySubscriptions, gatewayId[c], t)
    /\ cgRegisteredHandlers' = Insert(cgRegisteredHandlers, c, t)
    /\ SendsInterest(Listed(gatewayId[c]), Only(t, 1))
    /\ UNCHANGED <<localVars, parentVars, open, gatewayId,
                   crossGatewayHandlers, crossGatewayPullRequestHandlers,
                   cgPullRequestReturnIds, cgRegisteredPullHandlers,
                   cgRegisteredPullResponsePluginIds>>

(* UNREGISTER_DATA_INTEREST: forwarded whether or not there is an entry to *)
(* erase.  The handler would forget it only on success, but                *)
(* unsubscribeCrossGateway always returns false.                           *)
UnsubscribeCrossGateway(c, t) ==
    /\ Associated(c)
    /\ BalancedPeers => crossGatewaySubscriptions[gatewayId[c]][t] > 0
    /\ SendsInterest(Listed(gatewayId[c]), Only(t, -1))
    /\ crossGatewaySubscriptions' =
         EraseOne(crossGatewaySubscriptions, gatewayId[c], t)
    /\ UNCHANGED <<localVars, parentVars, open, gatewayId,
                   crossGatewayHandlers, crossGatewayPullRequestHandlers,
                   cgPullRequestReturnIds, cgRegisteredHandlers,
                   cgRegisteredPullHandlers, cgRegisteredPullResponsePluginIds>>

(* REGISTER_PULL_INTEREST *)
RegisterPullInterestCrossGateway(c, t) ==
    /\ Associated(c)
    /\ cgRegisteredPullHandlers[c][t] < MaxPullRegs
    /\ crossGatewayPullRequestHandlers' =
         Insert(crossGatewayPullRequestHandlers, gatewayId[c], t)
    /\ cgRegisteredPullHandlers' = Insert(cgRegisteredPullHandlers, c, t)
    /\ SendsData(Listed(gatewayId[c]))
    /\ UNCHANGED <<localVars, parentVars, open, gatewayId,
                   crossGatewayHandlers, crossGatewaySubscriptions,
                   cgPullRequestReturnIds, cgRegisteredHandlers,
                   cgRegisteredPullResponsePluginIds>>

(* UNREGISTER_PULL_INTEREST: here the handler does forget. *)
UnregisterPullInterestCrossGateway(c, t) ==
    /\ Associated(c)
    /\ LET i == gatewayId[c] IN
         /\ BalancedPeers => crossGatewayPullRequestHandlers[i][t] > 0
         /\ SendsData(Listed(i))
         /\ crossGatewayPullRequestHandlers' =
              EraseOne(crossGatewayPullRequestHandlers, i, t)
         /\ cgRegisteredPullHandlers' =
              IF crossGatewayPullRequestHandlers[i][t] > 0
              THEN EraseOne(cgRegisteredPullHandlers, c, t)
              ELSE cgRegisteredPullHandlers
    /\ UNCHANGED <<localVars, parentVars, open, gatewayId,
                   crossGatewayHandlers, crossGatewaySubscriptions,
                   cgPullRequestReturnIds, cgRegisteredHandlers,
                   cgRegisteredPullResponsePluginIds>>

(* PUSH_DATA from a gateway: to the plugins subscribed with GLOBAL scope   *)
(* and to every other subscribed gateway.                                  *)
PushCrossGateway(c, t) ==
    /\ Associated(c)
    /\ SendsData(Subscribers(pushHandlers["GLOBAL"], t) \cup
                 Routes(Subscribers(crossGatewaySubscriptions, t)
                        \ {gatewayId[c]}))
    /\ UNCHANGED <<localVars, parentVars, peerVars>>

(* PULL_REQUEST from a gateway: every registered plugin, of either scope. *)
PullRequestCrossGateway(c, p, t) ==
    /\ Associated(c)
    /\ SendsData(PullSubscribers(t) \cup
                 Routes(Registered(crossGatewayPullRequestHandlers, t)
                        \ {gatewayId[c]}))
    /\ cgPullRequestReturnIds' =
         [cgPullRequestReturnIds EXCEPT ![p] = gatewayId[c]]
    /\ cgRegisteredPullResponsePluginIds' =
         [cgRegisteredPullResponsePluginIds EXCEPT ![c] = @ \cup {p}]
    /\ UNCHANGED <<localVars, parentVars, open, gatewayId,
                   crossGatewayHandlers, crossGatewaySubscriptions,
                   crossGatewayPullRequestHandlers, cgRegisteredHandlers,
                   cgRegisteredPullHandlers>>

(* PULL_RESPONSE from a gateway, never returned to the gateway it is from. *)
PullResponseCrossGateway(c, p) ==
    /\ Associated(c)
    /\ SendsData(Requester(p, gatewayId[c]))
    /\ UNCHANGED <<localVars, parentVars, peerVars>>

(* The dead connection stays in the table. *)
FaultyEraseRoute(i) == crossGatewayHandlers

EraseRoute(i) == [crossGatewayHandlers EXCEPT ![i] = None]

(* ~CrossGatewayEventHandler: one unsubscribe and one unregister call for  *)
(* every entry the object remembers, each forwarded to the other gateways; *)
(* then the entry of its gateway id goes, whichever connection it names.   *)
(* If that is the parent's (or both are NULL), the connection manager is   *)
(* activated, which a gateway without a parent has none of.                *)
Unregister(c, i) ==
    LET handler == crossGatewayHandlers[i]
    IN  /\ crossGatewaySubscriptions' =
             [crossGatewaySubscriptions EXCEPT ![i] =
                [t \in Types |-> Less(@[t], cgRegisteredHandlers[c][t])]]
        /\ exported' = Tell(exported, Listed(i),
             [t \in Types |-> -cgRegisteredHandlers[c][t]])
        /\ crossGatewayPullRequestHandlers' =
             [crossGatewayPullRequestHandlers EXCEPT ![i] =
                [t \in Types |-> Less(@[t], cgRegisteredPullHandlers[c][t])]]
        /\ cgPullRequestReturnIds' =
             Forget(cgPullRequestReturnIds,
                    cgRegisteredPullResponsePluginIds[c], i)
        /\ crossGatewayHandlers' = EraseRoute(i)
        /\ IF handler = parentHandler
           THEN /\ parentHandler' = None
                /\ manager' = IF manager = "idle" THEN "running" ELSE manager
                /\ managerHandler' = None
                /\ Calls(Listed(i) \cup IF HasParent THEN {} ELSE {None})
                /\ UNCHANGED notified
           ELSE Calls(Listed(i)) /\ UNCHANGED parentVars

(* A connection is closed.  One that never associated remembers nothing    *)
(* and is not unregistered.                                                *)
DisconnectCrossGateway(c) ==
    /\ c \in open
    /\ open' = open \ {c}
    /\ gatewayId' = [gatewayId EXCEPT ![c] = None]
    /\ cgRegisteredHandlers' = [cgRegisteredHandlers EXCEPT ![c] = EmptyRow]
    /\ cgRegisteredPullHandlers' =
         [cgRegisteredPullHandlers EXCEPT ![c] = EmptyRow]
    /\ cgRegisteredPullResponsePluginIds' =
         [cgRegisteredPullResponsePluginIds EXCEPT ![c] = {}]
    /\ IF gatewayId[c] # None
       THEN Unregister(c, gatewayId[c])
       ELSE /\ SendsNothing
            /\ UNCHANGED <<crossGatewayHandlers, crossGatewaySubscriptions,
                           crossGatewayPullRequestHandlers,
                           cgPullRequestReturnIds, parentVars>>
    /\ UNCHANGED localVars

-----------------------------------------------------------------------------
(* The connection manager.  ParentLink.tla has its thread in detail, and   *)
(* what comes of a connection that is used before onConnect has run in it. *)

(* The manager's thread has connected to the parent: it posts a            *)
(* notification to the reactor and ends.                                   *)
ManagerConnects(c) ==
    /\ manager = "running"
    /\ Opens(c)
    /\ manager' = "idle"
    /\ managerHandler' = c
    /\ notified' = TRUE
    /\ UNCHANGED <<localVars, parentHandler, wild>>

(* The reactor dispatches the notification, at any time after. *)
SetParentHandler ==
    /\ notified
    /\ notified' = FALSE
    /\ parentHandler' = managerHandler
    /\ SendsNothing
    /\ UNCHANGED <<localVars, peerVars, manager, managerHandler>>

-----------------------------------------------------------------------------
FromPlugin(h) ==
    \/ Connect(h)
    \/ Disconnect(h)
    \/ \E t \in Types, s \in Scopes :
         \/ RegisterDataInterest(h, t, s)
         \/ UnregisterDataInterest(h, t, s)
         \/ RegisterPullInterest(h, t, s)
         \/ UnregisterPullInterest(h, t, s)
         \/ \E p \in PluginIds : PullRequest(h, p, t, s)
         \/ \E p \in PluginIds \cup {None} : PushData(h, t, s, p)
    \/ \E p \in PluginIds : PushAcknowledgement(h, p) \/ PullResponse(h, p)

FromGateway(c) ==
    \/ Accept(c)
    \/ DisconnectCrossGateway(c)
    \/ \E i \in GatewayIds : Associate(c, i)
    \/ \E t \in Types :
         \/ SubscribeCrossGateway(c, t)
         \/ UnsubscribeCrossGateway(c, t)
         \/ RegisterPullInterestCrossGateway(c, t)
         \/ UnregisterPullInterestCrossGateway(c, t)
         \/ PushCrossGateway(c, t)
         \/ \E p \in PluginIds : PullRequestCrossGateway(c, p, t)
    \/ \E p \in PluginIds : PullResponseCrossGateway(c, p)

Next ==
    \/ \E h \in Handlers : FromPlugin(h)
    \/ \E c \in Conns : FromGateway(c) \/ ManagerConnects(c)
    \/ SetParentHandler

Spec == Init /\ [][Next]_vars
-----------------------------------------------------------------------------
(* Properties *)

PluginTypes ==
    /\ live \subseteq Handlers
    /\ pushHandlers \in [Scopes -> [Handlers -> Row]]
    /\ pullHandlers \in [Scopes -> [Handlers -> Row]]
    /\ plugins \in [PluginIds -> Handlers \cup {None}]
    /\ registeredHandlers \in [Handlers -> Row]
    /\ registeredPullRequestHandlers \in [Handlers -> Row]
    /\ registeredPullResponsePluginIds \in [Handlers -> SUBSET PluginIds]

PeerTypes ==
    /\ open \subseteq Conns
    /\ gatewayId \in [Conns -> GatewayIds \cup {None}]
    /\ crossGatewayHandlers \in [GatewayIds -> Conns \cup {None}]
    /\ crossGatewaySubscriptions \in [GatewayIds -> Row]
    /\ crossGatewayPullRequestHandlers \in [GatewayIds -> Row]
    /\ cgPullRequestReturnIds \in [PluginIds -> GatewayIds \cup {None}]
    /\ cgRegisteredHandlers \in [Conns -> Row]
    /\ cgRegisteredPullHandlers \in [Conns -> Row]
    /\ cgRegisteredPullResponsePluginIds \in [Conns -> SUBSET PluginIds]

ParentTypes ==
    /\ manager \in {"absent", "idle", "running"}
    /\ managerHandler \in Conns \cup {None}
    /\ notified \in BOOLEAN
    /\ parentHandler \in Conns \cup {None}

GhostTypes ==
    /\ wild \in BOOLEAN
    /\ exported \in [Conns -> [Types -> Int]]

(* The type invariant of the tables, the objects' lists, the link to the   *)
(* parent and the counts of exported messages.                             *)
TypeOK == PluginTypes /\ PeerTypes /\ ParentTypes /\ GhostTypes

(* A pointer to a plugin's handler is in a table only while the plugin is  *)
(* connected: the destructor, which only sees the lists the handler kept   *)
(* of itself, leaves nothing behind, whatever was registered twice, under  *)
(* both scopes, or taken over by another plugin with the same id.          *)
NoDanglingHandler ==
    \A h \in Handlers \ live :
        /\ \A s \in Scopes : /\ pushHandlers[s][h] = EmptyRow
                             /\ pullHandlers[s][h] = EmptyRow
        /\ \A p \in PluginIds : plugins[p] # h

(* Likewise for connections, even when a gateway reconnects before its old *)
(* connection is torn down: the entry of an id is an open connection that  *)
(* associated under that id.                                               *)
NoDanglingConnection ==
    \A i \in GatewayIds :
        crossGatewayHandlers[i] # None =>
            /\ crossGatewayHandlers[i] \in open
            /\ gatewayId[crossGatewayHandlers[i]] = i

(* Whatever names a gateway -- a push subscription, a pull reference, the  *)
(* return path of a pull request -- names one that is connected, so the    *)
(* operator[] lookups of the routing code never produce a NULL handler.    *)
RoutesResolve ==
    \A i \in GatewayIds :
        \/ crossGatewayHandlers[i] # None
        \/ /\ crossGatewaySubscriptions[i] = EmptyRow
           /\ crossGatewayPullRequestHandlers[i] = EmptyRow
           /\ \A p \in PluginIds : cgPullRequestReturnIds[p] # i

(* No step sends through NULL or through a pointer to a dead object. *)
CallsAreValid == ~wild

(* Each listed connection has been told of exactly the subscriptions held  *)
(* here on behalf of anyone but its own gateway, counted with              *)
(* multiplicity: "the ref count on the other end" (GatewayCore.cpp:306).   *)
ExportsMatch ==
    \A i \in GatewayIds, t \in Types :
        crossGatewayHandlers[i] # None =>
            exported[crossGatewayHandlers[i]][t] =
                Entries(pushHandlers["GLOBAL"], Handlers, t)
                + Entries(crossGatewaySubscriptions, GatewayIds \ {i}, t)
=============================================================================
