------------------------- MODULE GatewayCoreProofs -------------------------
(***************************************************************************)
(* Proofs about GatewayCore, for any sets of types, plugins, gateways and  *)
(* connections.                                                            *)
(***************************************************************************)
EXTENDS GatewayCore, FiniteSetTheorems, TLAPS

-----------------------------------------------------------------------------
(* The operators on tables. *)

(* A table with one more entry is a table. *)
LEMMA InsertType ==
    ASSUME NEW Owners, NEW table \in [Owners -> Row],
           NEW o \in Owners, NEW t \in Types
    PROVE  Insert(table, o, t) \in [Owners -> Row]
BY DEF Insert, Row

(* Less never leaves the natural numbers. *)
LEMMA LessType ==
    ASSUME NEW a \in Nat, NEW b \in Nat
    PROVE  Less(a, b) \in Nat
BY DEF Less

(* A table with one entry less is a table. *)
LEMMA EraseOneType ==
    ASSUME NEW Owners, NEW table \in [Owners -> Row],
           NEW o \in Owners, NEW t \in Types
    PROVE  EraseOne(table, o, t) \in [Owners -> Row]
BY DEF EraseOne, Row, Less

(* The count of messages stays a table of integers. *)
LEMMA TellType ==
    ASSUME NEW ledger \in [Conns -> [Types -> Int]], NEW to,
           NEW delta \in [Types -> Int]
    PROVE  Tell(ledger, to, delta) \in [Conns -> [Types -> Int]]
<1>1. MaxExported \in Int
  BY CoreAssumption
<1>2. \A c \in Conns, t \in Types : Clip(ledger[c][t] + delta[t]) \in Int
  BY <1>1 DEF Clip
<1> QED
  BY <1>2 DEF Tell

(* Forgetting plugin ids keeps the type of the map. *)
LEMMA ForgetType ==
    ASSUME NEW Owners, NEW map \in [PluginIds -> Owners \cup {None}],
           NEW ids, NEW owner
    PROVE  Forget(map, ids, owner) \in [PluginIds -> Owners \cup {None}]
BY DEF Forget

(* A row with a single count is a row of integers. *)
LEMMA OnlyType ==
    ASSUME NEW t \in Types, NEW n \in Int
    PROVE  Only(t, n) \in [Types -> Int]
BY DEF Only

(* The number of entries of a finite set of owners is a number. *)
LEMMA EntriesType ==
    ASSUME NEW owners, IsFiniteSet(owners), NEW table, NEW t
    PROVE  Entries(table, owners, t) \in Nat
<1> DEFINE N == MaxRegs + MaxPullRegs
           All == owners \X (1..N)
           S == {e \in All : e[2] <= table[e[1]][t]}
<1>1. N \in Int
  BY CoreAssumption
<1>2. IsFiniteSet(1..N)
  BY <1>1, FS_Interval
<1>3. IsFiniteSet(All)
  BY <1>2, FS_Product
<1>4. IsFiniteSet(S)
  BY <1>3, FS_Subset
<1> QED
  BY <1>4, FS_CardinalityType DEF Entries
-----------------------------------------------------------------------------
(* Types *)

(* Sending control messages keeps the ghosts typed. *)
LEMMA SendsTypes ==
    ASSUME GhostTypes,
           NEW to, NEW delta \in [Types -> Int],
           \/ SendsData(to)
           \/ SendsNothing
           \/ SendsInterest(to, delta)
    PROVE  GhostTypes'
<1>1. Tell(exported, to, delta) \in [Conns -> [Types -> Int]]
  BY TellType DEF GhostTypes
<1> QED
  BY <1>1 DEF GhostTypes, SendsData, SendsNothing, SendsInterest, Calls,
     ghostVars

(* A destructor's erasing keeps the type of a table. *)
LEMMA LeaveType ==
    ASSUME NEW table \in [Scopes -> [Handlers -> Row]], NEW h \in Handlers,
           NEW count, NEW left \in Remains(table, h, count)
    PROVE  /\ Leave(table, h, left) \in [Scopes -> [Handlers -> Row]]
           /\ left \in [Scopes -> Row]
<1>1. 0..(MaxRegs + MaxPullRegs) \subseteq Nat
  BY CoreAssumption
<1>2. left \in [Scopes -> Row]
  BY <1>1 DEF Remains, Row
<1> QED
  BY <1>2 DEF Leave

(* The messages of plugins keep every variable's type. *)
LEMMA PluginStepTypes ==
    ASSUME TypeOK, NEW h \in Handlers, FromPlugin(h)
    PROVE  TypeOK'
<1> USE DEF TypeOK
<1>0. UNCHANGED <<peerVars, parentVars>>
  BY DEF FromPlugin, Connect, Disconnect, RegisterDataInterest,
     UnregisterDataInterest, RegisterPullInterest, UnregisterPullInterest,
     PullRequest, PushData, PushAcknowledgement, PullResponse
<1>1. PeerTypes' /\ ParentTypes'
  BY <1>0 DEF PeerTypes, ParentTypes, peerVars, parentVars
<1>2. ASSUME Connect(h) PROVE PluginTypes' /\ GhostTypes'
  BY <1>2 DEF Connect, PluginTypes, GhostTypes, SendsNothing, ghostVars
<1>3. ASSUME Disconnect(h) PROVE PluginTypes' /\ GhostTypes'
  <2>1. PICK left \in Remains(pushHandlers, h, registeredHandlers[h]) :
          /\ pushHandlers' = Leave(pushHandlers, h, left)
          /\ SendsInterest(Listed(None),
                           [t \in Types |-> left["GLOBAL"][t]
                                            - pushHandlers["GLOBAL"][h][t]])
    BY <1>3 DEF Disconnect
  <2>2. PICK pl \in Remains(pullHandlers, h, registeredPullRequestHandlers[h]) :
          pullHandlers' = Leave(pullHandlers, h, pl)
    BY <1>3 DEF Disconnect
  <2>3. /\ pushHandlers' \in [Scopes -> [Handlers -> Row]]
        /\ left \in [Scopes -> Row]
    BY <2>1, LeaveType DEF PluginTypes
  <2>4. pullHandlers' \in [Scopes -> [Handlers -> Row]]
    BY <2>2, LeaveType DEF PluginTypes
  <2>5. [t \in Types |-> left["GLOBAL"][t] - pushHandlers["GLOBAL"][h][t]]
          \in [Types -> Int]
    BY <2>3 DEF PluginTypes, Row, Scopes
  <2>6. GhostTypes'
    BY <2>1, <2>5, SendsTypes
  <2>7. plugins' \in [PluginIds -> Handlers \cup {None}]
    BY <1>3, ForgetType DEF Disconnect, PluginTypes
  <2>8. EmptyRow \in Row
    BY DEF EmptyRow, Row
  <2> QED
    BY <1>3, <2>3, <2>4, <2>6, <2>7, <2>8 DEF Disconnect, PluginTypes
<1>4. ASSUME NEW t \in Types, NEW s \in Scopes, RegisterDataInterest(h, t, s)
      PROVE  PluginTypes' /\ GhostTypes'
  <2>1. GhostTypes'
    BY <1>4, SendsTypes, OnlyType DEF RegisterDataInterest
  <2>2. Insert(pushHandlers[s], h, t) \in [Handlers -> Row]
    BY InsertType DEF PluginTypes
  <2>3. Insert(registeredHandlers, h, t) \in [Handlers -> Row]
    BY InsertType DEF PluginTypes
  <2> QED
    BY <1>4, <2>1, <2>2, <2>3 DEF RegisterDataInterest, PluginTypes
<1>5. ASSUME NEW t \in Types, NEW s \in Scopes, UnregisterDataInterest(h, t, s)
      PROVE  PluginTypes' /\ GhostTypes'
  <2>1. GhostTypes'
    BY <1>5, SendsTypes, OnlyType DEF UnregisterDataInterest
  <2>2. EraseOne(pushHandlers[s], h, t) \in [Handlers -> Row]
    BY EraseOneType DEF PluginTypes
  <2>3. EraseOne(registeredHandlers, h, t) \in [Handlers -> Row]
    BY EraseOneType DEF PluginTypes
  <2> QED
    BY <1>5, <2>1, <2>2, <2>3 DEF UnregisterDataInterest, PluginTypes
<1>6. ASSUME NEW t \in Types, NEW s \in Scopes, RegisterPullInterest(h, t, s)
      PROVE  PluginTypes' /\ GhostTypes'
  <2>1. GhostTypes'
    BY <1>6 DEF RegisterPullInterest, SendsData, SendsNothing, Calls,
       GhostTypes, ghostVars
  <2>2. Insert(pullHandlers[s], h, t) \in [Handlers -> Row]
    BY InsertType DEF PluginTypes
  <2>3. Insert(registeredPullRequestHandlers, h, t) \in [Handlers -> Row]
    BY InsertType DEF PluginTypes
  <2> QED
    BY <1>6, <2>1, <2>2, <2>3 DEF RegisterPullInterest, PluginTypes
<1>7. ASSUME NEW t \in Types, NEW s \in Scopes, UnregisterPullInterest(h, t, s)
      PROVE  PluginTypes' /\ GhostTypes'
  <2>1. GhostTypes'
    BY <1>7 DEF UnregisterPullInterest, GhostTypes, SendsNothing, ghostVars
  <2>2. EraseOne(pullHandlers[s], h, t) \in [Handlers -> Row]
    BY EraseOneType DEF PluginTypes
  <2>3. EraseOne(registeredPullRequestHandlers, h, t) \in [Handlers -> Row]
    BY EraseOneType DEF PluginTypes
  <2> QED
    BY <1>7, <2>1, <2>2, <2>3 DEF UnregisterPullInterest, PluginTypes
<1>8. ASSUME NEW p \in PluginIds, NEW t \in Types, NEW s \in Scopes,
             PullRequest(h, p, t, s)
      PROVE  PluginTypes' /\ GhostTypes'
  BY <1>8 DEF PullRequest, PluginTypes, GhostTypes, SendsData, Calls
<1>9. ASSUME NEW p \in PluginIds \cup {None}, NEW t \in Types, NEW s \in Scopes,
             PushData(h, t, s, p)
      PROVE  PluginTypes' /\ GhostTypes'
  <2>1. GhostTypes'
    BY <1>9 DEF PushData, GhostTypes, SendsData, Calls
  <2>2. CASE p = None
    BY <1>9, <2>1, <2>2 DEF PushData, PluginTypes
  <2>3. CASE p # None
    <3>1. p \in PluginIds
      BY <2>3
    <3>2. /\ plugins' = [plugins EXCEPT ![p] = h]
          /\ registeredPullResponsePluginIds' =
               [registeredPullResponsePluginIds EXCEPT ![h] = @ \cup {p}]
      BY <1>9, <2>3 DEF PushData
    <3>3. UNCHANGED <<live, pushHandlers, pullHandlers, registeredHandlers,
                      registeredPullRequestHandlers>>
      BY <1>9 DEF PushData
    <3> QED
      BY <2>1, <3>1, <3>2, <3>3 DEF PluginTypes
  <2> QED
    BY <2>2, <2>3
<1>10. ASSUME NEW p \in PluginIds,
              PushAcknowledgement(h, p) \/ PullResponse(h, p)
       PROVE  PluginTypes' /\ GhostTypes'
  BY <1>10 DEF PushAcknowledgement, PullResponse, PluginTypes, GhostTypes,
     SendsData, Calls, localVars
<1> QED
  BY <1>1, <1>2, <1>3, <1>4, <1>5, <1>6, <1>7, <1>8, <1>9, <1>10 DEF FromPlugin

(* The messages of gateways keep every variable's type. *)
LEMMA PeerStepTypes ==
    ASSUME TypeOK, NEW c \in Conns, FromGateway(c)
    PROVE  TypeOK'
<1> USE DEF TypeOK
<1>0. EmptyRow \in Row /\ EmptyRow \in [Types -> Int]
  BY DEF EmptyRow, Row
<1>1. UNCHANGED localVars
  BY DEF FromGateway, Accept, DisconnectCrossGateway, Associate,
     SubscribeCrossGateway, UnsubscribeCrossGateway, PushCrossGateway,
     RegisterPullInterestCrossGateway, UnregisterPullInterestCrossGateway,
     PullRequestCrossGateway, PullResponseCrossGateway
<1>2. PluginTypes'
  BY <1>1 DEF PluginTypes, localVars
<1>3. ASSUME Associated(c)
      PROVE  gatewayId[c] \in GatewayIds
  BY <1>3 DEF Associated, PeerTypes
<1>4. ASSUME Accept(c) PROVE PeerTypes' /\ ParentTypes' /\ GhostTypes'
  BY <1>0, <1>4 DEF Accept, Opens, PeerTypes, ParentTypes, GhostTypes, parentVars
<1>5. ASSUME DisconnectCrossGateway(c)
      PROVE  PeerTypes' /\ ParentTypes' /\ GhostTypes'
  <2>1. /\ open' \subseteq Conns
        /\ gatewayId' \in [Conns -> GatewayIds \cup {None}]
        /\ cgRegisteredHandlers' \in [Conns -> Row]
        /\ cgRegisteredPullHandlers' \in [Conns -> Row]
        /\ cgRegisteredPullResponsePluginIds' \in [Conns -> SUBSET PluginIds]
    BY <1>0, <1>5 DEF DisconnectCrossGateway, PeerTypes
  <2>2. CASE gatewayId[c] = None
    BY <1>5, <2>1, <2>2 DEF DisconnectCrossGateway, PeerTypes, ParentTypes,
       GhostTypes, SendsNothing, ghostVars, parentVars
  <2>3. CASE gatewayId[c] # None
    <3> DEFINE i == gatewayId[c]
    <3>1. i \in GatewayIds
      BY <2>3 DEF PeerTypes
    <3>2. Unregister(c, i)
      BY <1>5, <2>3 DEF DisconnectCrossGateway
    <3> HIDE DEF i
    <3>3. \A t \in Types :
            /\ Less(crossGatewaySubscriptions[i][t],
                    cgRegisteredHandlers[c][t]) \in Nat
            /\ Less(crossGatewayPullRequestHandlers[i][t],
                    cgRegisteredPullHandlers[c][t]) \in Nat
      BY <3>1, LessType DEF PeerTypes, Row
    <3>4. /\ crossGatewaySubscriptions' \in [GatewayIds -> Row]
          /\ crossGatewayPullRequestHandlers' \in [GatewayIds -> Row]
      BY <3>1, <3>2, <3>3 DEF Unregister, PeerTypes, Row
    <3>5. cgPullRequestReturnIds' \in [PluginIds -> GatewayIds \cup {None}]
      BY <3>2, ForgetType DEF Unregister, PeerTypes
    <3>6. crossGatewayHandlers' \in [GatewayIds -> Conns \cup {None}]
      BY <3>1, <3>2 DEF Unregister, EraseRoute, PeerTypes
    <3>7. [t \in Types |-> -cgRegisteredHandlers[c][t]] \in [Types -> Int]
      BY DEF PeerTypes, Row
    <3>8. exported' \in [Conns -> [Types -> Int]]
      BY <3>2, <3>7, TellType DEF Unregister, GhostTypes
    <3>9. ParentTypes' /\ wild' \in BOOLEAN
      BY <3>2 DEF Unregister, ParentTypes, GhostTypes, Calls, parentVars
    <3> QED
      BY <2>1, <3>4, <3>5, <3>6, <3>8, <3>9 DEF PeerTypes, GhostTypes
  <2> QED
    BY <2>2, <2>3
<1>6. ASSUME NEW i \in GatewayIds, Associate(c, i)
      PROVE  PeerTypes' /\ ParentTypes' /\ GhostTypes'
  <2>1. \A t \in Types : Replay(i, t) \in Nat
    <3>1. IsFiniteSet(Handlers) /\ IsFiniteSet(GatewayIds \ {i})
      BY CoreAssumption, FS_RemoveElement
    <3> QED
      BY <3>1, EntriesType DEF Replay
  <2>2. [t \in Types |-> Replay(i, t)] \in [Types -> Int]
    BY <2>1
  <2>3. exported' \in [Conns -> [Types -> Int]]
    BY <1>6, <2>2, TellType DEF Associate, GhostTypes
  <2> QED
    BY <1>6, <2>3 DEF Associate, PeerTypes, ParentTypes, GhostTypes, parentVars
<1>7. ASSUME NEW t \in Types, SubscribeCrossGateway(c, t)
      PROVE  PeerTypes' /\ ParentTypes' /\ GhostTypes'
  <2>1. GhostTypes'
    BY <1>7, SendsTypes, OnlyType DEF SubscribeCrossGateway
  <2>2. crossGatewaySubscriptions' \in [GatewayIds -> Row]
    BY <1>3, <1>7, InsertType DEF SubscribeCrossGateway, PeerTypes
  <2>3. cgRegisteredHandlers' \in [Conns -> Row]
    BY <1>7, InsertType DEF SubscribeCrossGateway, PeerTypes
  <2> QED
    BY <1>7, <2>1, <2>2, <2>3 DEF SubscribeCrossGateway, PeerTypes,
       ParentTypes, parentVars
<1>8. ASSUME NEW t \in Types, UnsubscribeCrossGateway(c, t)
      PROVE  PeerTypes' /\ ParentTypes' /\ GhostTypes'
  <2>1. GhostTypes'
    BY <1>8, SendsTypes, OnlyType DEF UnsubscribeCrossGateway
  <2>2. crossGatewaySubscriptions' \in [GatewayIds -> Row]
    BY <1>3, <1>8, EraseOneType DEF UnsubscribeCrossGateway, PeerTypes
  <2> QED
    BY <1>8, <2>1, <2>2 DEF UnsubscribeCrossGateway, PeerTypes, ParentTypes,
       parentVars
<1>9. ASSUME NEW t \in Types, RegisterPullInterestCrossGateway(c, t)
      PROVE  PeerTypes' /\ ParentTypes' /\ GhostTypes'
  <2>1. GhostTypes'
    BY <1>9 DEF RegisterPullInterestCrossGateway, SendsData, Calls,
       GhostTypes
  <2>2. crossGatewayPullRequestHandlers' \in [GatewayIds -> Row]
    BY <1>3, <1>9, InsertType DEF RegisterPullInterestCrossGateway, PeerTypes
  <2>3. cgRegisteredPullHandlers' \in [Conns -> Row]
    BY <1>9, InsertType DEF RegisterPullInterestCrossGateway, PeerTypes
  <2> QED
    BY <1>9, <2>1, <2>2, <2>3 DEF RegisterPullInterestCrossGateway, PeerTypes,
       ParentTypes, parentVars
<1>10. ASSUME NEW t \in Types, UnregisterPullInterestCrossGateway(c, t)
       PROVE  PeerTypes' /\ ParentTypes' /\ GhostTypes'
  <2>1. GhostTypes'
    BY <1>10 DEF UnregisterPullInterestCrossGateway, SendsData, SendsNothing,
       Calls, GhostTypes, ghostVars
  <2>2. crossGatewayPullRequestHandlers' \in [GatewayIds -> Row]
    BY <1>3, <1>10, EraseOneType
       DEF UnregisterPullInterestCrossGateway, PeerTypes
  <2>3. cgRegisteredPullHandlers' \in [Conns -> Row]
    BY <1>10, EraseOneType DEF UnregisterPullInterestCrossGateway, PeerTypes
  <2> QED
    BY <1>10, <2>1, <2>2, <2>3 DEF UnregisterPullInterestCrossGateway,
       PeerTypes, ParentTypes, parentVars
<1>11. ASSUME NEW p \in PluginIds, NEW t \in Types,
              PullRequestCrossGateway(c, p, t)
       PROVE  PeerTypes' /\ ParentTypes' /\ GhostTypes'
  BY <1>3, <1>11 DEF PullRequestCrossGateway, PeerTypes, ParentTypes,
     GhostTypes, SendsData, Calls, parentVars
<1>12. ASSUME NEW t \in Types, PushCrossGateway(c, t)
       PROVE  PeerTypes' /\ ParentTypes' /\ GhostTypes'
  BY <1>12 DEF PushCrossGateway, PeerTypes, ParentTypes,
     GhostTypes, SendsData, Calls, parentVars, peerVars
<1>13. ASSUME NEW p \in PluginIds, PullResponseCrossGateway(c, p)
       PROVE  PeerTypes' /\ ParentTypes' /\ GhostTypes'
  BY <1>13 DEF PullResponseCrossGateway, PeerTypes, ParentTypes,
     GhostTypes, SendsData, Calls, parentVars, peerVars
<1> QED
  BY <1>2, <1>4, <1>5, <1>6, <1>7, <1>8, <1>9, <1>10, <1>11, <1>12, <1>13
     DEF FromGateway

(* Every variable keeps its type, whatever plugins and peers send: entries *)
(* are erased when there are any (Less), so counts are natural numbers.    *)
THEOREM TypeCorrect == Spec => []TypeOK
<1>1. Init => TypeOK
  <2>1. EmptyRow \in Row /\ EmptyRow \in [Types -> Int]
    BY DEF EmptyRow, Row
  <2>2. Init => PluginTypes
    BY <2>1 DEF Init, PluginTypes
  <2>3. Init => PeerTypes
    BY <2>1 DEF Init, PeerTypes
  <2>4. Init => ParentTypes
    BY DEF Init, ParentTypes
  <2>5. Init => GhostTypes
    BY <2>1 DEF Init, GhostTypes
  <2> QED
    BY <2>2, <2>3, <2>4, <2>5 DEF TypeOK
<1>2. TypeOK /\ [Next]_vars => TypeOK'
  <2> SUFFICES ASSUME TypeOK, [Next]_vars PROVE TypeOK'
    OBVIOUS
  <2>1. CASE \E h \in Handlers : FromPlugin(h)
    BY <2>1, PluginStepTypes
  <2>2. CASE \E c \in Conns : FromGateway(c)
    BY <2>2, PeerStepTypes
  <2>3. ASSUME NEW c \in Conns, ManagerConnects(c) PROVE TypeOK'
    <3>1. EmptyRow \in [Types -> Int]
      BY DEF EmptyRow
    <3> QED
      BY <2>3, <3>1 DEF ManagerConnects, Opens, TypeOK, PluginTypes, PeerTypes,
         ParentTypes, GhostTypes, localVars
  <2>4. CASE SetParentHandler
    BY <2>4 DEF SetParentHandler, SendsNothing, TypeOK, PluginTypes, PeerTypes,
       ParentTypes, GhostTypes, localVars, peerVars, ghostVars
  <2>5. CASE UNCHANGED vars
    BY <2>5 DEF TypeOK, PluginTypes, PeerTypes, ParentTypes, GhostTypes, vars,
       localVars, peerVars, parentVars, ghostVars
  <2> QED
    BY <2>1, <2>2, <2>3, <2>4, <2>5 DEF Next
<1> QED
  BY <1>1, <1>2, PTL DEF Spec

-----------------------------------------------------------------------------
(* Plugins: the tables mirror the lists *)

(* A handler's list names a type as often as the table holds entries of    *)
(* the handler for it, of either scope.                                    *)
Mirrors(table, list) ==
    \A h \in Handlers, t \in Types :
        table["LOCAL"][h][t] + table["GLOBAL"][h][t] = list[h][t]

(* The lists know of every entry, and those of a dead handler are empty:   *)
(* what makes NoDanglingHandler inductive.                                 *)
HandlerInv ==
    /\ Mirrors(pushHandlers, registeredHandlers)
    /\ Mirrors(pullHandlers, registeredPullRequestHandlers)
    /\ \A p \in PluginIds : plugins[p] # None =>
          p \in registeredPullResponsePluginIds[plugins[p]]
    /\ \A h \in Handlers \ live :
          /\ registeredHandlers[h] = EmptyRow
          /\ registeredPullRequestHandlers[h] = EmptyRow
          /\ registeredPullResponsePluginIds[h] = {}

(* A dead handler has empty lists, so the tables have nothing of it. *)
LEMMA HandlerInvSuffices ==
    ASSUME PluginTypes, HandlerInv
    PROVE  NoDanglingHandler
<1> SUFFICES ASSUME NEW h \in Handlers, h \notin live
             PROVE  /\ \A s \in Scopes : /\ pushHandlers[s][h] = EmptyRow
                                         /\ pullHandlers[s][h] = EmptyRow
                    /\ \A p \in PluginIds : plugins[p] # h
  BY DEF NoDanglingHandler
<1>1. \A t \in Types : /\ registeredHandlers[h][t] = 0
                       /\ registeredPullRequestHandlers[h][t] = 0
  BY DEF HandlerInv, EmptyRow
<1>2. \A t \in Types, s \in Scopes : /\ pushHandlers[s][h][t] = 0
                                     /\ pullHandlers[s][h][t] = 0
  BY <1>1 DEF HandlerInv, Mirrors, PluginTypes, Row, Scopes
<1>3. \A s \in Scopes : pushHandlers[s][h] \in Row /\ pullHandlers[s][h] \in Row
  BY DEF PluginTypes
<1>4. \A s \in Scopes : /\ pushHandlers[s][h] = EmptyRow
                        /\ pullHandlers[s][h] = EmptyRow
  BY <1>2, <1>3 DEF EmptyRow, Row
<1>5. \A p \in PluginIds : plugins[p] # h
  BY CoreAssumption DEF HandlerInv
<1> QED
  BY <1>4, <1>5

(* Registering on both sides keeps table and list in step. *)
LEMMA InsertMirrors ==
    ASSUME NEW table \in [Scopes -> [Handlers -> Row]],
           NEW list \in [Handlers -> Row], Mirrors(table, list),
           NEW h \in Handlers, NEW t \in Types, NEW s \in Scopes
    PROVE  Mirrors([table EXCEPT ![s] = Insert(@, h, t)], Insert(list, h, t))
BY DEF Mirrors, Insert, Row, Scopes

(* So does erasing an entry that is there. *)
LEMMA EraseMirrors ==
    ASSUME NEW table \in [Scopes -> [Handlers -> Row]],
           NEW list \in [Handlers -> Row], Mirrors(table, list),
           NEW h \in Handlers, NEW t \in Types, NEW s \in Scopes,
           table[s][h][t] > 0
    PROVE  Mirrors([table EXCEPT ![s] = EraseOne(@, h, t)],
                   EraseOne(list, h, t))
BY DEF Mirrors, EraseOne, Less, Row, Scopes

(* A destructor that works off its mirrored list leaves nothing. *)
LEMMA LeaveMirrors ==
    ASSUME NEW table \in [Scopes -> [Handlers -> Row]],
           NEW list \in [Handlers -> Row], Mirrors(table, list),
           NEW h \in Handlers, NEW left \in Remains(table, h, list[h])
    PROVE  Mirrors(Leave(table, h, left), [list EXCEPT ![h] = EmptyRow])
<1>1. left \in [Scopes -> Row]
  BY LeaveType
<1>2. \A t \in Types : left["LOCAL"][t] = 0 /\ left["GLOBAL"][t] = 0
  <2> SUFFICES ASSUME NEW t \in Types
               PROVE  left["LOCAL"][t] = 0 /\ left["GLOBAL"][t] = 0
    OBVIOUS
  <2>1. left["LOCAL"][t] + left["GLOBAL"][t] =
          Less(table["LOCAL"][h][t] + table["GLOBAL"][h][t], list[h][t])
    BY DEF Remains
  <2>2. table["LOCAL"][h][t] + table["GLOBAL"][h][t] = list[h][t]
    BY DEF Mirrors
  <2>3. list[h][t] \in Nat
    BY DEF Row
  <2>4. left["LOCAL"][t] + left["GLOBAL"][t] = 0
    BY <2>1, <2>2, <2>3 DEF Less
  <2>5. left["LOCAL"][t] \in Nat /\ left["GLOBAL"][t] \in Nat
    BY <1>1 DEF Row, Scopes
  <2> QED
    BY <2>4, <2>5
<1> QED
  BY <1>1, <1>2 DEF Mirrors, Leave, EmptyRow, Row, Scopes

(* Every step of a plugin keeps the mirrors. *)
LEMMA PluginStepHandlerInv ==
    ASSUME PluginTypes, HandlerInv, NEW h \in Handlers, FromPlugin(h)
    PROVE  HandlerInv'
<1> USE CoreAssumption DEF PluginTypes
<1>1. ASSUME Connect(h) PROVE HandlerInv'
  BY <1>1 DEF Connect, HandlerInv, Mirrors
<1>2. ASSUME Disconnect(h) PROVE HandlerInv'
  <2>1. Mirrors(pushHandlers', registeredHandlers')
    <3>1. PICK left \in Remains(pushHandlers, h, registeredHandlers[h]) :
            pushHandlers' = Leave(pushHandlers, h, left)
      BY <1>2 DEF Disconnect
    <3>2. Mirrors(Leave(pushHandlers, h, left),
                  [registeredHandlers EXCEPT ![h] = EmptyRow])
      BY LeaveMirrors DEF HandlerInv
    <3>3. registeredHandlers' = [registeredHandlers EXCEPT ![h] = EmptyRow]
      BY <1>2 DEF Disconnect
    <3> QED
      BY <3>1, <3>2, <3>3
  <2>2. Mirrors(pullHandlers', registeredPullRequestHandlers')
    <3>1. PICK left \in Remains(pullHandlers, h,
                                registeredPullRequestHandlers[h]) :
            pullHandlers' = Leave(pullHandlers, h, left)
      BY <1>2 DEF Disconnect
    <3>2. Mirrors(Leave(pullHandlers, h, left),
                  [registeredPullRequestHandlers EXCEPT ![h] = EmptyRow])
      BY LeaveMirrors DEF HandlerInv
    <3>3. registeredPullRequestHandlers' =
            [registeredPullRequestHandlers EXCEPT ![h] = EmptyRow]
      BY <1>2 DEF Disconnect
    <3> QED
      BY <3>1, <3>2, <3>3
  <2>3. ASSUME NEW p \in PluginIds, plugins'[p] # None
        PROVE  p \in registeredPullResponsePluginIds'[plugins'[p]]
    <3>1. /\ plugins'[p] = plugins[p]
          /\ ~(p \in registeredPullResponsePluginIds[h] /\ plugins[p] = h)
      BY <1>2, <2>3 DEF Disconnect, Forget
    <3>2. p \in registeredPullResponsePluginIds[plugins[p]]
      BY <2>3, <3>1 DEF HandlerInv
    <3> QED
      BY <1>2, <2>3, <3>1, <3>2 DEF Disconnect
  <2>4. ASSUME NEW g \in Handlers \ live'
        PROVE  /\ registeredHandlers'[g] = EmptyRow
               /\ registeredPullRequestHandlers'[g] = EmptyRow
               /\ registeredPullResponsePluginIds'[g] = {}
    BY <1>2, <2>4 DEF Disconnect, HandlerInv
  <2> QED
    BY <2>1, <2>2, <2>3, <2>4 DEF HandlerInv, Mirrors
<1>3. ASSUME NEW t \in Types, NEW s \in Scopes, RegisterDataInterest(h, t, s)
      PROVE  HandlerInv'
  <2>1. Mirrors(pushHandlers', registeredHandlers')
    BY <1>3, InsertMirrors DEF RegisterDataInterest, HandlerInv
  <2> QED
    BY <1>3, <2>1 DEF RegisterDataInterest, HandlerInv, Mirrors, Insert
<1>4. ASSUME NEW t \in Types, NEW s \in Scopes, UnregisterDataInterest(h, t, s)
      PROVE  HandlerInv'
  <2>1. Mirrors(pushHandlers', registeredHandlers')
    <3>1. CASE pushHandlers[s][h][t] > 0
      <4>1. Mirrors([pushHandlers EXCEPT ![s] = EraseOne(@, h, t)],
                    EraseOne(registeredHandlers, h, t))
        BY <3>1, EraseMirrors DEF HandlerInv
      <4> QED
        BY <1>4, <3>1, <4>1 DEF UnregisterDataInterest
    <3>2. CASE ~(pushHandlers[s][h][t] > 0)
      BY <1>4, <3>2 DEF UnregisterDataInterest, HandlerInv
    <3> QED
      BY <3>1, <3>2
  <2> QED
    BY <1>4, <2>1 DEF UnregisterDataInterest, HandlerInv, Mirrors, EraseOne
<1>5. ASSUME NEW t \in Types, NEW s \in Scopes, RegisterPullInterest(h, t, s)
      PROVE  HandlerInv'
  <2>1. Mirrors(pullHandlers', registeredPullRequestHandlers')
    BY <1>5, InsertMirrors DEF RegisterPullInterest, HandlerInv
  <2> QED
    BY <1>5, <2>1 DEF RegisterPullInterest, HandlerInv, Mirrors, Insert
<1>6. ASSUME NEW t \in Types, NEW s \in Scopes, UnregisterPullInterest(h, t, s)
      PROVE  HandlerInv'
  <2>1. Mirrors(pullHandlers', registeredPullRequestHandlers')
    BY <1>6, EraseMirrors DEF UnregisterPullInterest, HandlerInv
  <2> QED
    BY <1>6, <2>1 DEF UnregisterPullInterest, HandlerInv, Mirrors, EraseOne
<1>7. ASSUME NEW p \in PluginIds, NEW t \in Types, NEW s \in Scopes,
             PullRequest(h, p, t, s)
      PROVE  HandlerInv'
  BY <1>7 DEF PullRequest, HandlerInv, Mirrors
<1>8. ASSUME NEW p \in PluginIds \cup {None}, NEW t \in Types, NEW s \in Scopes,
             PushData(h, t, s, p)
      PROVE  HandlerInv'
  <2>1. CASE p = None
    BY <1>8, <2>1 DEF PushData, HandlerInv, Mirrors
  <2>2. CASE p # None
    <3>1. /\ plugins' = [plugins EXCEPT ![p] = h]
          /\ registeredPullResponsePluginIds' =
               [registeredPullResponsePluginIds EXCEPT ![h] = @ \cup {p}]
          /\ h \in live
          /\ UNCHANGED <<live, pushHandlers, pullHandlers, registeredHandlers,
                         registeredPullRequestHandlers>>
      BY <1>8, <2>2 DEF PushData
    <3> QED
      BY <2>2, <3>1 DEF HandlerInv, Mirrors
  <2> QED
    BY <2>1, <2>2
<1>9. ASSUME NEW p \in PluginIds,
             PushAcknowledgement(h, p) \/ PullResponse(h, p)
      PROVE  HandlerInv'
  BY <1>9 DEF PushAcknowledgement, PullResponse, HandlerInv, Mirrors, localVars
<1> QED
  BY <1>1, <1>2, <1>3, <1>4, <1>5, <1>6, <1>7, <1>8, <1>9 DEF FromPlugin

(* The steps of gateways and of the connection manager do not touch the    *)
(* plugins' tables.                                                        *)
LEMMA OthersLeavePlugins ==
    ASSUME \/ \E c \in Conns : FromGateway(c) \/ ManagerConnects(c)
           \/ SetParentHandler
           \/ UNCHANGED vars
    PROVE  UNCHANGED localVars
BY DEF FromGateway, Accept, DisconnectCrossGateway, Associate,
   SubscribeCrossGateway, UnsubscribeCrossGateway, PushCrossGateway,
   RegisterPullInterestCrossGateway, UnregisterPullInterestCrossGateway,
   PullRequestCrossGateway, PullResponseCrossGateway, ManagerConnects,
   SetParentHandler, vars

(* The mirrors are invariant. *)
LEMMA HandlerInvCorrect == Spec => []HandlerInv
<1>1. Init => HandlerInv
  BY DEF Init, HandlerInv, Mirrors, EmptyRow, Scopes
<1>2. TypeOK /\ HandlerInv /\ [Next]_vars => HandlerInv'
  <2> SUFFICES ASSUME TypeOK, HandlerInv, [Next]_vars PROVE HandlerInv'
    OBVIOUS
  <2>1. CASE \E h \in Handlers : FromPlugin(h)
    BY <2>1, PluginStepHandlerInv DEF TypeOK
  <2>2. CASE ~ \E h \in Handlers : FromPlugin(h)
    <3>1. UNCHANGED localVars
      BY <2>2, OthersLeavePlugins DEF Next
    <3> QED
      BY <3>1 DEF HandlerInv, Mirrors, localVars
  <2> QED
    BY <2>1, <2>2
<1> QED
  BY <1>1, <1>2, TypeCorrect, PTL DEF Spec

(* No table ever points at the handler of a plugin that has gone: what the *)
(* destructor undoes from its own lists is all there is to undo.           *)
THEOREM HandlersDoNotDangle == Spec => []NoDanglingHandler
<1>1. TypeOK /\ HandlerInv => NoDanglingHandler
  BY HandlerInvSuffices DEF TypeOK
<1> QED
  BY <1>1, TypeCorrect, HandlerInvCorrect, PTL

-----------------------------------------------------------------------------
(* Connections to other gateways *)

(* A connection that is not up has no id: what makes NoDanglingConnection  *)
(* inductive.                                                              *)
ConnectionInv ==
    /\ NoDanglingConnection
    /\ \A c \in Conns \ open : gatewayId[c] = None

(* Every step of a gateway keeps the entries live. *)
LEMMA PeerStepConnectionInv ==
    ASSUME PeerTypes, ConnectionInv, NEW c \in Conns,
           FromGateway(c) \/ ManagerConnects(c)
    PROVE  ConnectionInv'
<1> USE DEF PeerTypes, ConnectionInv, NoDanglingConnection
<1>1. ASSUME Opens(c) PROVE ConnectionInv'
  BY <1>1 DEF Opens
<1>2. ASSUME DisconnectCrossGateway(c) PROVE ConnectionInv'
  <2>1. /\ open' = open \ {c}
        /\ gatewayId' = [gatewayId EXCEPT ![c] = None]
    BY <1>2 DEF DisconnectCrossGateway
  <2>2. CASE gatewayId[c] = None
    <3>1. UNCHANGED crossGatewayHandlers
      BY <1>2, <2>2 DEF DisconnectCrossGateway
    <3> QED
      BY CoreAssumption, <2>1, <2>2, <3>1
  <2>3. CASE gatewayId[c] # None
    <3>1. crossGatewayHandlers' =
            [crossGatewayHandlers EXCEPT ![gatewayId[c]] = None]
      BY <1>2, <2>3 DEF DisconnectCrossGateway, Unregister, EraseRoute
    <3> QED
      BY CoreAssumption, <2>1, <2>3, <3>1
  <2> QED
    BY <2>2, <2>3
<1>3. ASSUME NEW i \in GatewayIds, Associate(c, i) PROVE ConnectionInv'
  BY CoreAssumption, <1>3 DEF Associate
<1>4. CASE UNCHANGED <<open, gatewayId, crossGatewayHandlers>>
  BY <1>4
<1> QED
  BY <1>1, <1>2, <1>3, <1>4 DEF FromGateway, ManagerConnects, Accept,
     SubscribeCrossGateway, UnsubscribeCrossGateway, PushCrossGateway,
     RegisterPullInterestCrossGateway, UnregisterPullInterestCrossGateway,
     PullRequestCrossGateway, PullResponseCrossGateway, peerVars

(* The steps of plugins and of the notification do not touch the tables of *)
(* gateways.                                                               *)
LEMMA OthersLeavePeers ==
    ASSUME \/ \E h \in Handlers : FromPlugin(h)
           \/ SetParentHandler
           \/ UNCHANGED vars
    PROVE  UNCHANGED peerVars
<1>1. ASSUME NEW h \in Handlers, FromPlugin(h) PROVE UNCHANGED peerVars
  BY <1>1 DEF FromPlugin, Connect, Disconnect, RegisterDataInterest,
     UnregisterDataInterest, RegisterPullInterest, UnregisterPullInterest,
     PullRequest, PushData, PushAcknowledgement, PullResponse
<1>2. CASE SetParentHandler
  BY <1>2 DEF SetParentHandler
<1>3. CASE UNCHANGED vars
  BY <1>3 DEF vars
<1> QED
  BY <1>1, <1>2, <1>3

(* The strengthened invariant holds. *)
LEMMA ConnectionInvCorrect == Spec => []ConnectionInv
<1>1. Init => ConnectionInv
  BY DEF Init, ConnectionInv, NoDanglingConnection
<1>2. TypeOK /\ ConnectionInv /\ [Next]_vars => ConnectionInv'
  <2> SUFFICES ASSUME TypeOK, ConnectionInv, [Next]_vars PROVE ConnectionInv'
    OBVIOUS
  <2>1. CASE \E c \in Conns : FromGateway(c) \/ ManagerConnects(c)
    BY <2>1, PeerStepConnectionInv DEF TypeOK
  <2>2. CASE ~ \E c \in Conns : FromGateway(c) \/ ManagerConnects(c)
    <3>1. UNCHANGED peerVars
      BY <2>2, OthersLeavePeers DEF Next
    <3> QED
      BY <3>1 DEF ConnectionInv, NoDanglingConnection, peerVars
  <2> QED
    BY <2>1, <2>2
<1> QED
  BY <1>1, <1>2, TypeCorrect, PTL DEF Spec

(* No gateway id ever names a dead connection, even when a gateway comes   *)
(* back before its old connection is gone here.                            *)
THEOREM ConnectionsDoNotDangle == Spec => []NoDanglingConnection
<1>1. ConnectionInv => NoDanglingConnection
  BY DEF ConnectionInv
<1> QED
  BY <1>1, ConnectionInvCorrect, PTL

-----------------------------------------------------------------------------
(* Routes, when a gateway has one connection at a time *)

(* An associated connection is the one in the table; what the tables hold  *)
(* for its gateway, its own lists cover; and a gateway with no parent      *)
(* configured never has a parent connection.                               *)
RouteInv ==
    /\ RoutesResolve
    /\ \A c \in Conns : gatewayId[c] # None =>
         /\ crossGatewayHandlers[gatewayId[c]] = c
         /\ \A t \in Types :
              /\ crossGatewaySubscriptions[gatewayId[c]][t]
                   <= cgRegisteredHandlers[c][t]
              /\ crossGatewayPullRequestHandlers[gatewayId[c]][t]
                   <= cgRegisteredPullHandlers[c][t]
         /\ \A p \in PluginIds : cgPullRequestReturnIds[p] = gatewayId[c] =>
              p \in cgRegisteredPullResponsePluginIds[c]
    /\ ~HasParent => manager = "absent" /\ ~notified /\ parentHandler = None

(* A table cleared of at least what it holds is empty. *)
LEMMA LessClears ==
    ASSUME NEW row \in Row, NEW list \in Row,
           \A t \in Types : row[t] <= list[t]
    PROVE  [t \in Types |-> Less(row[t], list[t])] = EmptyRow
<1>1. \A t \in Types : Less(row[t], list[t]) = 0
  BY DEF Less, Row
<1> QED
  BY <1>1 DEF EmptyRow

(* Tearing a connection down clears its gateway's routes. *)
LEMMA DisconnectRouteInv ==
    ASSUME PeerTypes, ParentTypes, ConnectionInv, RouteInv,
           NEW c \in Conns, DisconnectCrossGateway(c)
    PROVE  RouteInv'
<1> USE CoreAssumption DEF PeerTypes
<1>1. /\ gatewayId' = [gatewayId EXCEPT ![c] = None]
      /\ cgRegisteredHandlers' = [cgRegisteredHandlers EXCEPT ![c] = EmptyRow]
      /\ cgRegisteredPullHandlers' =
           [cgRegisteredPullHandlers EXCEPT ![c] = EmptyRow]
      /\ cgRegisteredPullResponsePluginIds' =
           [cgRegisteredPullResponsePluginIds EXCEPT ![c] = {}]
  BY DEF DisconnectCrossGateway
<1>2. CASE gatewayId[c] = None
  <2>1. UNCHANGED <<crossGatewayHandlers, crossGatewaySubscriptions,
                    crossGatewayPullRequestHandlers, cgPullRequestReturnIds,
                    parentVars>>
    BY <1>2 DEF DisconnectCrossGateway
  <2> QED
    BY <1>1, <1>2, <2>1 DEF RouteInv, RoutesResolve, parentVars
<1>3. CASE gatewayId[c] # None
  <2> DEFINE i == gatewayId[c]
  <2>1. i \in GatewayIds /\ crossGatewayHandlers[i] = c /\ Unregister(c, i)
    BY <1>3 DEF DisconnectCrossGateway, RouteInv
  <2>2. \A d \in Conns : d # c => gatewayId[d] # i
    BY <1>3, <2>1 DEF RouteInv
  <2> HIDE DEF i
  <2>3. /\ crossGatewaySubscriptions' =
             [crossGatewaySubscriptions EXCEPT ![i] = EmptyRow]
        /\ crossGatewayPullRequestHandlers' =
             [crossGatewayPullRequestHandlers EXCEPT ![i] = EmptyRow]
    <3>1. \A t \in Types :
            /\ crossGatewaySubscriptions[i][t] <= cgRegisteredHandlers[c][t]
            /\ crossGatewayPullRequestHandlers[i][t]
                 <= cgRegisteredPullHandlers[c][t]
      BY <1>3 DEF RouteInv, i
    <3>2. /\ [t \in Types |-> Less(crossGatewaySubscriptions[i][t],
                                   cgRegisteredHandlers[c][t])] = EmptyRow
          /\ [t \in Types |-> Less(crossGatewayPullRequestHandlers[i][t],
                                   cgRegisteredPullHandlers[c][t])] = EmptyRow
      BY <2>1, <3>1, LessClears
    <3> QED
      BY <2>1, <3>2 DEF Unregister
  <2>4. crossGatewayHandlers' = [crossGatewayHandlers EXCEPT ![i] = None]
    BY <2>1 DEF Unregister, EraseRoute
  <2>5. \A p \in PluginIds :
          /\ cgPullRequestReturnIds[p] = i => cgPullRequestReturnIds'[p] = None
          /\ cgPullRequestReturnIds[p] # i =>
               cgPullRequestReturnIds'[p] = cgPullRequestReturnIds[p]
    <3>1. \A p \in PluginIds : cgPullRequestReturnIds[p] = i =>
            p \in cgRegisteredPullResponsePluginIds[c]
      BY <1>3 DEF RouteInv, i
    <3> QED
      BY <2>1, <3>1 DEF Unregister, Forget
  <2>6. RoutesResolve'
    <3> SUFFICES ASSUME NEW j \in GatewayIds, crossGatewayHandlers'[j] = None
                 PROVE  /\ crossGatewaySubscriptions'[j] = EmptyRow
                        /\ crossGatewayPullRequestHandlers'[j] = EmptyRow
                        /\ \A p \in PluginIds : cgPullRequestReturnIds'[p] # j
      BY DEF RoutesResolve
    <3>1. CASE j = i
      BY <2>1, <2>3, <2>5, <3>1
    <3>2. CASE j # i
      BY <2>1, <2>3, <2>4, <2>5, <3>2 DEF RouteInv, RoutesResolve
    <3> QED
      BY <3>1, <3>2
  <2>7. ASSUME NEW d \in Conns, gatewayId'[d] # None
        PROVE  /\ crossGatewayHandlers'[gatewayId'[d]] = d
               /\ \A t \in Types :
                    /\ crossGatewaySubscriptions'[gatewayId'[d]][t]
                         <= cgRegisteredHandlers'[d][t]
                    /\ crossGatewayPullRequestHandlers'[gatewayId'[d]][t]
                         <= cgRegisteredPullHandlers'[d][t]
               /\ \A p \in PluginIds :
                    cgPullRequestReturnIds'[p] = gatewayId'[d] =>
                      p \in cgRegisteredPullResponsePluginIds'[d]
    <3>1. d # c /\ gatewayId'[d] = gatewayId[d] /\ gatewayId[d] # None
      BY <1>1, <2>7
    <3>2. gatewayId[d] \in GatewayIds /\ gatewayId[d] # i
      BY <2>2, <3>1
    <3>3. /\ cgRegisteredHandlers'[d] = cgRegisteredHandlers[d]
          /\ cgRegisteredPullHandlers'[d] = cgRegisteredPullHandlers[d]
          /\ cgRegisteredPullResponsePluginIds'[d] =
               cgRegisteredPullResponsePluginIds[d]
      BY <1>1, <3>1
    <3> QED
      BY <2>3, <2>4, <2>5, <3>1, <3>2, <3>3 DEF RouteInv
  <2>8. ~HasParent => manager' = "absent" /\ ~notified' /\ parentHandler' = None
    BY <2>1 DEF Unregister, RouteInv, parentVars
  <2> QED
    BY <2>6, <2>7, <2>8 DEF RouteInv
<1> QED
  BY <1>2, <1>3

(* The other steps that change the routes. *)
LEMMA PeerStepRouteInv ==
    ASSUME OneConnectionPerGateway,
           PeerTypes, ParentTypes, ConnectionInv, RouteInv,
           NEW c \in Conns, FromGateway(c) \/ ManagerConnects(c)
    PROVE  RouteInv'
<1> USE CoreAssumption DEF PeerTypes
<1>0. ASSUME Associated(c)
      PROVE  /\ gatewayId[c] \in GatewayIds
             /\ crossGatewayHandlers[gatewayId[c]] = c
             /\ \A d \in Conns : gatewayId[d] = gatewayId[c] => d = c
  BY <1>0 DEF Associated, RouteInv
<1>1. CASE Accept(c)
  BY <1>1 DEF Accept, Opens, RouteInv, RoutesResolve, parentVars
<1>2. CASE DisconnectCrossGateway(c)
  BY <1>2, DisconnectRouteInv
<1>3. ASSUME NEW i \in GatewayIds, Associate(c, i) PROVE RouteInv'
  <2>1. \A d \in open : gatewayId[d] # i
    BY <1>3 DEF Associate
  <2>2. crossGatewayHandlers[i] = None
    BY <2>1 DEF ConnectionInv, NoDanglingConnection
  <2>3. /\ crossGatewaySubscriptions[i] = EmptyRow
        /\ crossGatewayPullRequestHandlers[i] = EmptyRow
        /\ \A p \in PluginIds : cgPullRequestReturnIds[p] # i
    BY <2>2 DEF RouteInv, RoutesResolve
  <2>4. /\ gatewayId' = [gatewayId EXCEPT ![c] = i]
        /\ crossGatewayHandlers' = [crossGatewayHandlers EXCEPT ![i] = c]
        /\ UNCHANGED <<parentVars, crossGatewaySubscriptions,
                       crossGatewayPullRequestHandlers, cgPullRequestReturnIds,
                       cgRegisteredHandlers, cgRegisteredPullHandlers,
                       cgRegisteredPullResponsePluginIds>>
    BY <1>3 DEF Associate
  <2>5. \A d \in Conns : d # c => gatewayId[d] # i
    BY <2>1 DEF ConnectionInv
  <2>6. \A t \in Types : /\ 0 <= cgRegisteredHandlers[c][t]
                         /\ 0 <= cgRegisteredPullHandlers[c][t]
    BY DEF Row
  <2>7. RoutesResolve'
    BY <2>4 DEF RouteInv, RoutesResolve
  <2> QED
    BY <2>3, <2>4, <2>5, <2>6, <2>7 DEF RouteInv, EmptyRow, parentVars
<1>4. ASSUME NEW t \in Types, SubscribeCrossGateway(c, t) PROVE RouteInv'
  BY <1>0, <1>4 DEF SubscribeCrossGateway, RouteInv, RoutesResolve, Insert, Row,
     parentVars
<1>5. ASSUME NEW t \in Types, UnsubscribeCrossGateway(c, t) PROVE RouteInv'
  BY <1>0, <1>5 DEF UnsubscribeCrossGateway, RouteInv, RoutesResolve, EraseOne,
     Less, Row, parentVars
<1>6. ASSUME NEW t \in Types, RegisterPullInterestCrossGateway(c, t)
      PROVE  RouteInv'
  BY <1>0, <1>6 DEF RegisterPullInterestCrossGateway, RouteInv, RoutesResolve,
     Insert, Row, parentVars
<1>7. ASSUME NEW t \in Types, UnregisterPullInterestCrossGateway(c, t)
      PROVE  RouteInv'
  BY <1>0, <1>7 DEF UnregisterPullInterestCrossGateway, RouteInv, RoutesResolve,
     EraseOne, Less, Row, parentVars
<1>8. ASSUME NEW p \in PluginIds, NEW t \in Types,
             PullRequestCrossGateway(c, p, t)
      PROVE  RouteInv'
  BY <1>0, <1>8 DEF PullRequestCrossGateway, RouteInv, RoutesResolve, parentVars
<1>9. CASE \/ \E t \in Types : PushCrossGateway(c, t)
           \/ \E p \in PluginIds : PullResponseCrossGateway(c, p)
  <2>1. UNCHANGED <<peerVars, parentVars>>
    BY <1>9 DEF PushCrossGateway, PullResponseCrossGateway
  <2> QED
    BY <2>1 DEF RouteInv, RoutesResolve, peerVars, parentVars
<1>10. CASE ManagerConnects(c)
  BY <1>10 DEF ManagerConnects, Opens, RouteInv, RoutesResolve
<1> QED
  BY <1>1, <1>2, <1>3, <1>4, <1>5, <1>6, <1>7, <1>8, <1>9, <1>10
     DEF FromGateway

(* The routes are invariant when no gateway has two connections. *)
LEMMA RouteInvCorrect ==
    ASSUME OneConnectionPerGateway
    PROVE  Spec => []RouteInv
<1>1. Init => RouteInv
  <2> SUFFICES ASSUME Init PROVE RouteInv
    OBVIOUS
  <2>1. RoutesResolve
    BY CoreAssumption DEF Init, RoutesResolve
  <2>2. \A c \in Conns : gatewayId[c] = None
    BY DEF Init
  <2>3. ~HasParent => manager = "absent" /\ ~notified /\ parentHandler = None
    BY DEF Init
  <2> QED
    BY <2>1, <2>2, <2>3 DEF RouteInv
<1>2. TypeOK /\ ConnectionInv /\ RouteInv /\ [Next]_vars => RouteInv'
  <2> SUFFICES ASSUME TypeOK, ConnectionInv, RouteInv, [Next]_vars
               PROVE  RouteInv'
    OBVIOUS
  <2>1. CASE \E c \in Conns : FromGateway(c) \/ ManagerConnects(c)
    BY <2>1, PeerStepRouteInv DEF TypeOK
  <2>2. ASSUME NEW h \in Handlers, FromPlugin(h) PROVE RouteInv'
    <3>1. UNCHANGED <<peerVars, parentVars>>
      BY <2>2 DEF FromPlugin, Connect, Disconnect, RegisterDataInterest,
         UnregisterDataInterest, RegisterPullInterest, UnregisterPullInterest,
         PullRequest, PushData, PushAcknowledgement, PullResponse
    <3> QED
      BY <3>1 DEF RouteInv, RoutesResolve, peerVars, parentVars
  <2>3. CASE SetParentHandler
    BY <2>3 DEF SetParentHandler, RouteInv, RoutesResolve, peerVars
  <2>4. CASE UNCHANGED vars
    BY <2>4 DEF RouteInv, RoutesResolve, vars, peerVars, parentVars
  <2> QED
    BY <2>1, <2>2, <2>3, <2>4 DEF Next
<1> QED
  BY <1>1, <1>2, TypeCorrect, ConnectionInvCorrect, PTL DEF Spec

(* Whatever a gateway has subscribed to, asked for or offered, there is a  *)
(* connection to it: the lookups by operator[] never yield NULL.           *)
THEOREM RoutesAlwaysResolve ==
    ASSUME OneConnectionPerGateway
    PROVE  Spec => []RoutesResolve
<1>1. RouteInv => RoutesResolve
  BY DEF RouteInv
<1> QED
  BY <1>1, RouteInvCorrect, PTL

-----------------------------------------------------------------------------
(* Calls *)

(* The connections in the table are up. *)
LEMMA ListedOpen ==
    ASSUME ConnectionInv, NEW but
    PROVE  Listed(but) \subseteq open
BY DEF Listed, ConnectionInv, NoDanglingConnection

(* So are those that subscriptions and pull references lead to. *)
LEMMA RoutesOpen ==
    ASSUME PeerTypes, ConnectionInv, RouteInv, NEW t \in Types
    PROVE  /\ Routes(Subscribers(crossGatewaySubscriptions, t)) \subseteq open
           /\ Routes(Registered(crossGatewayPullRequestHandlers, t))
                \subseteq open
<1>1. \A i \in Subscribers(crossGatewaySubscriptions, t) :
        i \in GatewayIds /\ crossGatewayHandlers[i] # None
  BY PrefixAssumption DEF Subscribers, RouteInv, RoutesResolve, PeerTypes,
     EmptyRow
<1>2. \A i \in Registered(crossGatewayPullRequestHandlers, t) :
        i \in GatewayIds /\ crossGatewayHandlers[i] # None
  BY DEF Registered, RouteInv, RoutesResolve, PeerTypes, EmptyRow
<1> QED
  BY <1>1, <1>2 DEF Routes, ConnectionInv, NoDanglingConnection

(* The plugins that subscribed or registered are connected. *)
LEMMA HandlersLive ==
    ASSUME PluginTypes, NoDanglingHandler, NEW t \in Types, NEW s \in Scopes
    PROVE  /\ Subscribers(pushHandlers[s], t) \subseteq live
           /\ Registered(pullHandlers[s], t) \subseteq live
BY PrefixAssumption DEF Subscribers, Registered, NoDanglingHandler, PluginTypes,
   EmptyRow

(* And so is whoever asked in the name of a plugin id. *)
LEMMA RequesterLive ==
    ASSUME PluginTypes, PeerTypes, NoDanglingHandler, ConnectionInv,
           NEW p \in PluginIds, NEW origin
    PROVE  Requester(p, origin) \subseteq live \cup open
<1>1. plugins[p] # None => plugins[p] \in live
  BY DEF NoDanglingHandler, PluginTypes
<1> QED
  BY <1>1 DEF Requester, ConnectionInv, NoDanglingConnection, PeerTypes

(* No message of a plugin is handed to a bad pointer. *)
LEMMA PluginCallsValid ==
    ASSUME TypeOK, NoDanglingHandler, ConnectionInv, RouteInv, ~wild,
           NEW h \in Handlers, FromPlugin(h)
    PROVE  ~wild'
<1> USE DEF TypeOK
<1>1. \A to : to \subseteq live \cup open /\ Calls(to) => ~wild'
  BY DEF Calls
<1>2. Listed(None) \subseteq open
  BY ListedOpen
<1>3. CASE Connect(h)
  BY <1>3 DEF Connect, SendsNothing, ghostVars
<1>4. CASE Disconnect(h)
  BY <1>1, <1>2, <1>4 DEF Disconnect, SendsInterest
<1>5. ASSUME NEW t \in Types, NEW s \in Scopes,
             \/ RegisterDataInterest(h, t, s)
             \/ UnregisterDataInterest(h, t, s)
             \/ RegisterPullInterest(h, t, s)
             \/ UnregisterPullInterest(h, t, s)
      PROVE  ~wild'
  BY <1>1, <1>2, <1>5 DEF RegisterDataInterest, UnregisterDataInterest,
     RegisterPullInterest, UnregisterPullInterest, SendsInterest,
     SendsData, SendsNothing, ghostVars
<1>6. ASSUME NEW p \in PluginIds, NEW t \in Types, NEW s \in Scopes,
             PullRequest(h, p, t, s)
      PROVE  ~wild'
  <2>1. PullSubscribers(t) \subseteq live
    BY HandlersLive DEF PullSubscribers
  <2> QED
    BY <1>1, <1>6, <2>1, RoutesOpen DEF PullRequest, SendsData
<1>7. ASSUME NEW p \in PluginIds \cup {None}, NEW t \in Types, NEW s \in Scopes,
             PushData(h, t, s, p)
      PROVE  ~wild'
  <2>1. PushSubscribers(t) \subseteq live
    BY HandlersLive DEF PushSubscribers
  <2> QED
    BY <1>1, <1>7, <2>1, RoutesOpen DEF PushData, SendsData
<1>8. ASSUME NEW p \in PluginIds,
             PushAcknowledgement(h, p) \/ PullResponse(h, p)
      PROVE  ~wild'
  <2>1. {plugins[p]} \ {None, h} \subseteq live
    BY DEF NoDanglingHandler, PluginTypes
  <2> QED
    BY <1>1, <1>8, <2>1, RequesterLive
       DEF PushAcknowledgement, PullResponse, SendsData
<1> QED
  BY <1>3, <1>4, <1>5, <1>6, <1>7, <1>8 DEF FromPlugin

(* Nor is one of a gateway. *)
LEMMA PeerCallsValid ==
    ASSUME TypeOK, NoDanglingHandler, ConnectionInv, RouteInv, ~wild,
           NEW c \in Conns, FromGateway(c)
    PROVE  ~wild'
<1> USE DEF TypeOK
<1>1. \A to : to \subseteq live \cup open /\ Calls(to) => ~wild'
  BY DEF Calls
<1>2. \A but : Listed(but) \subseteq open
  BY ListedOpen
<1>3. CASE Accept(c)
  BY <1>3 DEF Accept
<1>4. CASE DisconnectCrossGateway(c)
  <2>1. CASE gatewayId[c] = None
    BY <1>4, <2>1 DEF DisconnectCrossGateway, SendsNothing, ghostVars
  <2>2. CASE gatewayId[c] # None
    <3>1. Unregister(c, gatewayId[c]) /\ crossGatewayHandlers[gatewayId[c]] = c
      BY <1>4, <2>2 DEF DisconnectCrossGateway, RouteInv
    <3>2. parentHandler = c => HasParent
      BY CoreAssumption DEF RouteInv
    <3>3. Calls(Listed(gatewayId[c]))
      BY <3>1, <3>2 DEF Unregister
    <3> QED
      BY <1>1, <1>2, <3>3
  <2> QED
    BY <2>1, <2>2
<1>5. ASSUME NEW i \in GatewayIds, Associate(c, i) PROVE ~wild'
  BY <1>5 DEF Associate
<1>6. ASSUME NEW t \in Types,
             \/ SubscribeCrossGateway(c, t)
             \/ UnsubscribeCrossGateway(c, t)
             \/ RegisterPullInterestCrossGateway(c, t)
             \/ UnregisterPullInterestCrossGateway(c, t)
      PROVE  ~wild'
  BY <1>1, <1>2, <1>6 DEF SubscribeCrossGateway, UnsubscribeCrossGateway,
     RegisterPullInterestCrossGateway, UnregisterPullInterestCrossGateway,
     SendsInterest, SendsData
<1>7. ASSUME NEW t \in Types, PushCrossGateway(c, t) PROVE ~wild'
  <2>1. Subscribers(pushHandlers["GLOBAL"], t) \subseteq live
    BY HandlersLive DEF Scopes
  <2>2. Routes(Subscribers(crossGatewaySubscriptions, t) \ {gatewayId[c]})
          \subseteq open
    BY RoutesOpen DEF Routes
  <2> QED
    BY <1>1, <1>7, <2>1, <2>2 DEF PushCrossGateway, SendsData
<1>8. ASSUME NEW p \in PluginIds, NEW t \in Types,
             PullRequestCrossGateway(c, p, t)
      PROVE  ~wild'
  <2>1. PullSubscribers(t) \subseteq live
    BY HandlersLive DEF PullSubscribers
  <2>2. Routes(Registered(crossGatewayPullRequestHandlers, t)
               \ {gatewayId[c]}) \subseteq open
    BY RoutesOpen DEF Routes
  <2> QED
    BY <1>1, <1>8, <2>1, <2>2 DEF PullRequestCrossGateway, SendsData
<1>9. ASSUME NEW p \in PluginIds, PullResponseCrossGateway(c, p) PROVE ~wild'
  BY <1>1, <1>9, RequesterLive DEF PullResponseCrossGateway, SendsData
<1> QED
  BY <1>3, <1>4, <1>5, <1>6, <1>7, <1>8, <1>9 DEF FromGateway

(* The core never sends a message through NULL or through a pointer to an  *)
(* object that is gone, as long as a gateway comes back only after its old *)
(* connection has been torn down.                                          *)
THEOREM CallsAlwaysValid ==
    ASSUME OneConnectionPerGateway
    PROVE  Spec => []CallsAreValid
<1>1. Init => CallsAreValid
  BY DEF Init, CallsAreValid
<1>2. /\ TypeOK /\ NoDanglingHandler /\ ConnectionInv /\ RouteInv
      /\ CallsAreValid /\ [Next]_vars
      => CallsAreValid'
  <2> SUFFICES ASSUME TypeOK, NoDanglingHandler, ConnectionInv, RouteInv,
                      CallsAreValid, [Next]_vars
               PROVE  CallsAreValid'
    OBVIOUS
  <2> USE DEF CallsAreValid
  <2>1. CASE \E h \in Handlers : FromPlugin(h)
    BY <2>1, PluginCallsValid
  <2>2. CASE \E c \in Conns : FromGateway(c)
    BY <2>2, PeerCallsValid
  <2>3. CASE \E c \in Conns : ManagerConnects(c)
    BY <2>3 DEF ManagerConnects
  <2>4. CASE SetParentHandler
    BY <2>4 DEF SetParentHandler, SendsNothing, ghostVars
  <2>5. CASE UNCHANGED vars
    BY <2>5 DEF vars, ghostVars
  <2> QED
    BY <2>1, <2>2, <2>3, <2>4, <2>5 DEF Next
<1> QED
  BY <1>1, <1>2, TypeCorrect, HandlersDoNotDangle, ConnectionInvCorrect,
     RouteInvCorrect, PTL DEF Spec
=============================================================================
