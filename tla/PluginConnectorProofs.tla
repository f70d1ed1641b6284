----------------------- MODULE PluginConnectorProofs ------------------------
(***************************************************************************)
(* Proofs about the connector of the C++ plugins, for any types, listeners *)
(* and prefixes and any number of calls and messages: only a call that the *)
(* end of the connection has cut uses a handler after its end, a listener  *)
(* has a registration in the core, and what was sent for a listener is     *)
(* heard by it.                                                            *)
(***************************************************************************)
EXTENDS PluginConnector, TLAPS

Ops == {"register", "unregister"}
ToCoreMessage == [op : Ops, kind : Kinds, type : Types,
                  listener : Listeners \cup {None}, at : {"core"}]
FromCoreMessage == [kind : Kinds, type : Types, number : Nat]
CallRecord == [op : Ops, kind : Kinds, type : Types,
               listener : Listeners \cup {None}, at : {"send", "table"}]

TypeInv ==
    /\ connected \in BOOLEAN /\ parent \in BOOLEAN
    /\ handler \in {"live", "gone"}
    /\ call \in CallRecord \cup {Idle, Constructor}
    /\ call.op = "register" => call.listener # None
    /\ call.op = "unregister" => call.listener = None
    /\ listeners \in [Kinds -> [Types -> Listeners \cup {None}]]
    /\ toCore \in Seq(ToCoreMessage)
    /\ core \in [Kinds -> Row]
    /\ fromCore \in SUBSET FromCoreMessage
    /\ usedGone \in Nat /\ cut \in BOOLEAN
    /\ owed \in SUBSET (FromCoreMessage \X Types)
    /\ calls \in Nat /\ sent \in Nat

(* Whoever has found `connected' set and has not sent yet has a handler,   *)
(* or is the call that the end of the connection has cut.                  *)
HandlerInv ==
    /\ call = Constructor => handler = "live"
    /\ call # Constructor => parent
    /\ connected => call # Constructor /\ handler = "live"
    /\ handler = "live" => usedGone = 0 /\ ~cut
    /\ handler = "gone" /\ call.op \in Ops /\ call.at = "send" =>
            cut /\ usedGone = 0
    /\ NoHandlerAfterEnd

LEMMA KeysType ==
    ASSUME NEW kind \in Kinds, NEW t \in Types
    PROVE  Keys(kind, t) \in SUBSET Types
  BY PrefixAssumption DEF Keys

LEMMA EmptyRowType == EmptyRow \in Row
  BY DEF EmptyRow, Row

LEMMA TypeInvInit == Init => TypeInv
<1> SUFFICES ASSUME Init
             PROVE  TypeInv
  OBVIOUS
<1>1. core \in [Kinds -> Row]
  BY EmptyRowType DEF Init
<1>2. call \in {Idle, Constructor} /\ call.op = "connect"
  BY DEF Init, Constructor
<1>3. listeners \in [Kinds -> [Types -> Listeners \cup {None}]]
  BY DEF Init
<1>4. toCore \in Seq(ToCoreMessage)
  BY DEF Init
<1> QED
  BY <1>1, <1>2, <1>3, <1>4 DEF Init, TypeInv

LEMMA TypeInvBegin ==
    ASSUME TypeInv, NEW op \in Ops, NEW kind \in Kinds, NEW t \in Types,
           NEW l \in Listeners \cup {None}, Begin(op, kind, t, l),
           op = "register" <=> l # None
    PROVE  TypeInv'
<1>1. Call(op, kind, t, l, IF Told(kind) THEN "send" ELSE "table") \in CallRecord
  BY DEF Call, CallRecord
<1> QED
  BY <1>1 DEF Begin, TypeInv, Call, Ops

LEMMA TypeInvCoreReceives ==
    ASSUME TypeInv, CoreReceives
    PROVE  TypeInv'
<1>1. /\ Head(toCore) \in ToCoreMessage
      /\ Tail(toCore) \in Seq(ToCoreMessage)
  BY DEF CoreReceives, TypeInv
<1>2. ASSUME NEW k \in Kinds, NEW t \in Types
      PROVE  /\ Insert(core, k, t) \in [Kinds -> Row]
             /\ EraseOne(core, k, t) \in [Kinds -> Row]
  <2>1. core[k][t] \in Nat
    BY DEF TypeInv, Row
  <2>2. core[k][t] + 1 \in Nat /\ Less(core[k][t], 1) \in Nat
    BY <2>1 DEF Less
  <2> QED
    BY <2>2 DEF TypeInv, Insert, EraseOne, Row
<1>3. core' \in [Kinds -> Row]
  BY <1>1, <1>2 DEF CoreReceives, ToCoreMessage
<1> QED
  BY <1>1, <1>3 DEF CoreReceives, TypeInv, history

LEMMA TypeInvNext == TypeInv /\ [Next]_vars => TypeInv'
<1> SUFFICES ASSUME TypeInv, [Next]_vars
             PROVE  TypeInv'
  OBVIOUS
<1>1. CASE SetParentConnector
  BY <1>1 DEF SetParentConnector, TypeInv, Idle, history
<1>2. CASE SendMessage
  <2>1. /\ call \in CallRecord
        /\ [call EXCEPT !.at = "table"] \in CallRecord
        /\ [call EXCEPT !.at = "core"] \in ToCoreMessage
    BY <1>2 DEF SendMessage, TypeInv, Idle, Constructor, CallRecord, ToCoreMessage
  <2>2. toCore' \in Seq(ToCoreMessage)
    BY SMTT(40), <1>2, <2>1 DEF SendMessage, TypeInv
  <2>3. call'.op = call.op /\ call'.listener = call.listener
    BY <1>2, <2>1 DEF SendMessage, CallRecord
  <2> QED
    BY <1>2, <2>1, <2>2, <2>3 DEF SendMessage, TypeInv
<1>3. CASE UpdateListeners
  <2>1. call \in CallRecord
    BY <1>3 DEF UpdateListeners, TypeInv, Idle, Constructor
  <2> QED
    BY <1>3, <2>1
       DEF UpdateListeners, TypeInv, Updated, CallRecord, Idle, history
<1>4. CASE CoreReceives
  BY <1>4, TypeInvCoreReceives
<1>5. CASE Disconnect
  <2>1. core' \in [Kinds -> Row]
    BY <1>5, EmptyRowType DEF Disconnect
  <2>2. toCore' \in Seq(ToCoreMessage)
    BY <1>5 DEF Disconnect
  <2>3. connected' \in BOOLEAN
    BY <1>5 DEF Disconnect, OnDisconnectReceived, TypeInv
  <2> QED
    BY <1>5, <2>1, <2>2, <2>3 DEF Disconnect, TypeInv
<1>6. ASSUME NEW k \in Kinds, NEW t \in Types, NEW l \in Listeners,
             Register(k, t, l)
      PROVE  TypeInv'
  BY <1>6, TypeInvBegin, ConnectorAssumption DEF Register, Ops
<1>7. ASSUME NEW k \in Kinds, NEW t \in Types, Unregister(k, t)
      PROVE  TypeInv'
  BY <1>7, TypeInvBegin DEF Unregister, Ops
<1>8. ASSUME NEW k \in Kinds, NEW t \in Types, CoreSends(k, t)
      PROVE  TypeInv'
  <2> DEFINE m == [kind |-> k, type |-> t, number |-> sent]
  <2>1. m \in FromCoreMessage
    BY DEF FromCoreMessage, TypeInv
  <2>2. Keys(k, t) \in SUBSET Types
    BY KeysType
  <2>3. owed' \in SUBSET (FromCoreMessage \X Types)
    BY <1>8, <2>1, <2>2 DEF CoreSends, TypeInv
  <2> QED
    BY <1>8, <2>1, <2>3 DEF CoreSends, TypeInv
<1>9. ASSUME NEW m \in fromCore, OnMessage(m)
      PROVE  TypeInv'
  BY <1>9 DEF OnMessage, TypeInv
<1>10. CASE UNCHANGED vars
  BY <1>10 DEF vars, TypeInv, history
<1> QED
  BY <1>1, <1>2, <1>3, <1>4, <1>5, <1>6, <1>7, <1>8, <1>9, <1>10 DEF Next

LEMMA HandlerInvNext == TypeInv /\ HandlerInv /\ [Next]_vars => HandlerInv'
<1> SUFFICES ASSUME TypeInv, HandlerInv, [Next]_vars
             PROVE  HandlerInv'
  OBVIOUS
<1> USE DEF HandlerInv, NoHandlerAfterEnd, Ops, history
<1>1. CASE SetParentConnector
  BY <1>1 DEF SetParentConnector, TypeInv, Idle, Constructor
<1>2. CASE SendMessage
  <2>1. call \in CallRecord
    BY <1>2 DEF SendMessage, TypeInv, Idle, Constructor
  <2>2. call # Constructor /\ call'.at = "table" /\ call' # Constructor
    BY <1>2, <2>1 DEF SendMessage, CallRecord, Constructor
  <2> QED
    BY <1>2, <2>2 DEF SendMessage, TypeInv
<1>3. CASE UpdateListeners
  <2>1. call # Constructor
    BY <1>3 DEF UpdateListeners, Constructor
  <2> QED
    BY <1>3, <2>1 DEF UpdateListeners, Idle, Constructor
<1>4. CASE CoreReceives
  BY <1>4 DEF CoreReceives
<1>5. CASE Disconnect
  <2>1. /\ handler = "live" /\ handler' = "gone" /\ usedGone' = usedGone
        /\ call # Constructor /\ call' = call
    BY <1>5 DEF Disconnect
  <2>2. parent' /\ ~connected'
    BY <1>5 DEF Disconnect, OnDisconnectReceived
  <2>3. call.op \in Ops /\ call.at = "send" => cut'
    BY <1>5 DEF Disconnect
  <2>4. usedGone = 0
    BY <2>1
  <2> QED
    BY <2>1, <2>2, <2>3, <2>4
<1>6. ASSUME NEW op \in Ops, NEW k \in Kinds, NEW t \in Types, NEW l,
             Begin(op, k, t, l)
      PROVE  HandlerInv'
  <2>1. call # Constructor /\ call' # Constructor
    BY <1>6 DEF Begin, Call, Idle, Constructor
  <2>2. call'.at = "send" => connected
    BY <1>6 DEF Begin, Call
  <2> QED
    BY <1>6, <2>1, <2>2 DEF Begin
<1>7. ASSUME NEW k \in Kinds, NEW t \in Types, CoreSends(k, t)
      PROVE  HandlerInv'
  BY <1>7 DEF CoreSends
<1>8. ASSUME NEW m \in fromCore, OnMessage(m)
      PROVE  HandlerInv'
  BY <1>8 DEF OnMessage
<1>9. CASE UNCHANGED vars
  BY <1>9 DEF vars
<1> QED
  BY <1>1, <1>2, <1>3, <1>4, <1>5, <1>6, <1>7, <1>8, <1>9
     DEF Next, Register, Unregister

(* Once a handler has been deleted, no call uses it but the one that had   *)
(* looked at `connected' when the connection ended.                        *)
THEOREM HandlersAreNotUsedAfterEnd == Spec => []NoHandlerAfterEnd
<1>1. Init => HandlerInv
  BY DEF Init, HandlerInv, NoHandlerAfterEnd, Constructor, Ops
<1>2. HandlerInv => NoHandlerAfterEnd
  BY DEF HandlerInv, NoHandlerAfterEnd
<1> QED
  BY <1>1, <1>2, TypeInvInit, TypeInvNext, HandlerInvNext, PTL DEF Spec
-----------------------------------------------------------------------------
(* What is owed is on its way, to a listener that is in its table or that  *)
(* the call in progress puts there, and that it will not take out.         *)
OwedInv ==
    \A m \in FromCoreMessage, p \in Types :
        <<m, p>> \in owed =>
            /\ m \in fromCore
            /\ p \in Keys(m.kind, m.type)
            /\ listeners[m.kind][p] # None \/ Registering(m.kind, p)
            /\ ~(call.op = "unregister" /\ call.kind = m.kind /\ call.type = p)

LEMMA OwedInvNext == TypeInv /\ OwedInv /\ [Next]_vars => OwedInv'
<1> SUFFICES ASSUME TypeInv, OwedInv, [Next]_vars,
                    NEW m \in FromCoreMessage, NEW p \in Types,
                    <<m, p>> \in owed'
             PROVE  /\ m \in fromCore'
                    /\ p \in Keys(m.kind, m.type)
                    /\ listeners'[m.kind][p] # None \/ Registering(m.kind, p)'
                    /\ ~(call'.op = "unregister" /\ call'.kind = m.kind
                         /\ call'.type = p)
  BY DEF OwedInv, Keys
<1>a. m.kind \in Kinds /\ m.type \in Types
  BY DEF FromCoreMessage
<1> DEFINE Kept == /\ m \in fromCore
                   /\ p \in Keys(m.kind, m.type)
                   /\ listeners[m.kind][p] # None \/ Registering(m.kind, p)
                   /\ ~(call.op = "unregister" /\ call.kind = m.kind
                        /\ call.type = p)
<1>b. <<m, p>> \in owed => Kept
  BY DEF OwedInv
<1>1. CASE SetParentConnector
  BY <1>1, <1>b DEF SetParentConnector, Idle, Constructor, Registering, history
<1>2. CASE SendMessage
  <2>1. call \in CallRecord
    BY <1>2 DEF SendMessage, TypeInv, Idle, Constructor
  <2>2. /\ call'.op = call.op /\ call'.kind = call.kind
        /\ call'.type = call.type
    BY <1>2, <2>1 DEF SendMessage, CallRecord
  <2> QED
    BY <1>2, <1>b, <2>2 DEF SendMessage, Registering
<1>3. CASE UpdateListeners
  <2>1. Kept /\ call' = Idle /\ fromCore' = fromCore
    BY <1>3, <1>b DEF UpdateListeners, history
  <2>2. listeners'[m.kind][p] # None
    <3>1. call \in CallRecord
      BY <1>3 DEF UpdateListeners, TypeInv, Idle, Constructor
    <3>2. CASE call.kind = m.kind /\ call.type = p
      BY <1>a, <1>3, <2>1, <3>1, <3>2 DEF UpdateListeners, TypeInv, Updated
    <3>3. CASE ~(call.kind = m.kind /\ call.type = p)
      BY <1>a, <1>3, <2>1, <3>1, <3>3
         DEF UpdateListeners, TypeInv, Updated, CallRecord, Registering
    <3> QED
      BY <3>2, <3>3
  <2> QED
    BY <2>1, <2>2 DEF Idle
<1>4. CASE CoreReceives
  BY <1>4, <1>b DEF CoreReceives, Registering, history
<1>5. CASE Disconnect
  BY <1>5 DEF Disconnect
<1>6. ASSUME NEW op, NEW k \in Kinds, NEW t \in Types, NEW l,
             Begin(op, k, t, l)
      PROVE  /\ Kept' /\ fromCore' = fromCore /\ listeners' = listeners
             /\ ~(call'.op = "unregister" /\ call'.kind = m.kind
                  /\ call'.type = p)
  <2>1. <<m, p>> \in owed
    BY <1>6 DEF Begin
  <2>2. op = "unregister" => ~(k = m.kind /\ t = p)
    BY <1>6 DEF Begin
  <2> QED
    BY <1>6, <1>b, <2>1, <2>2 DEF Begin, Call, Idle, Registering
<1>7. ASSUME NEW k \in Kinds, NEW t \in Types, CoreSends(k, t)
      PROVE  Kept' /\ call' = call /\ listeners' = listeners
  <2> DEFINE n == [kind |-> k, type |-> t, number |-> sent]
  <2>1. CASE <<m, p>> \in owed
    BY <1>7, <1>b, <2>1 DEF CoreSends, Keys, Registering
  <2>2. CASE <<m, p>> \notin owed
    <3>1. /\ m = n /\ p \in Keys(k, t)
          /\ Promised(k, p) /\ ~Leaving(k, p)
      BY <1>7, <2>2 DEF CoreSends
    <3>2. m.kind = k /\ m.type = t /\ m \in fromCore'
      BY <1>7, <3>1 DEF CoreSends
    <3> QED
      BY <1>7, <3>1, <3>2 DEF CoreSends, Leaving, Keys, Promised, Registering
  <2> QED
    BY <2>1, <2>2
<1>8. ASSUME NEW n \in fromCore, OnMessage(n)
      PROVE  Kept' /\ call' = call /\ listeners' = listeners
  <2>1. /\ <<m, p>> \in owed
        /\ ~(m = n /\ p \in Hearing(n))
        /\ ~(m = n /\ p \notin Hearing(n) /\ Registering(n.kind, p))
    BY <1>8 DEF OnMessage
  <2>2. m # n
    BY <1>b, <2>1 DEF Hearing
  <2> QED
    BY <1>8, <1>b, <2>1, <2>2 DEF OnMessage, Keys, Registering
<1>9. CASE UNCHANGED vars
  BY <1>9, <1>b DEF vars, history, Registering
<1> QED
  BY <1>1, <1>2, <1>3, <1>4, <1>5, <1>6, <1>7, <1>8, <1>9
     DEF Next, Register, Unregister

(* What the core sent for a registered type is heard by the listener of    *)
(* that type, whatever replaces listeners meanwhile and in whatever order  *)
(* messages arrive, unless it overtakes the call that registers the type.  *)
THEOREM OwedIsHeard == Spec => []OwedAreHeard
<1>1. Init => OwedInv
  BY DEF Init, OwedInv
<1>2. TypeInv /\ OwedInv => OwedAreHeard
  BY DEF TypeInv, OwedInv, OwedAreHeard
<1> QED
  BY <1>1, <1>2, TypeInvInit, TypeInvNext, OwedInvNext, PTL DEF Spec
-----------------------------------------------------------------------------
(* A message for the core of one kind and type. *)
About(m, op, kind, t) == m.op = op /\ m.kind = kind /\ m.type = t

(* Nothing after position i of what is on its way to the core takes the    *)
(* registration out.                                                       *)
NoneLeaves(i, kind, t) ==
    \A j \in DOMAIN toCore : i < j => ~About(toCore[j], "unregister", kind, t)

(* Somebody listens, or is about to as soon as the call in progress goes   *)
(* on, and the call is not about to take the listener out.                 *)
Waiting(kind, t) ==
    \/ About(call, "register", kind, t) /\ call.at = "table"
    \/ /\ listeners[kind][t] # None
       /\ ~(About(call, "unregister", kind, t) /\ call.at = "table")

(* The core has a registration that stays, or gets one. *)
Provided(kind, t) ==
    \/ core[kind][t] > 0 /\ NoneLeaves(0, kind, t)
    \/ \E i \in DOMAIN toCore : /\ About(toCore[i], "register", kind, t)
                                /\ NoneLeaves(i, kind, t)

RoutedInv ==
    /\ call = Constructor => \A k \in Kinds, t \in Types : listeners[k][t] = None
    /\ connected => \A k \in Kinds, t \in Types :
                        Told(k) /\ Waiting(k, t) => Provided(k, t)

LEMMA ProvidedAfterSend ==
    ASSUME TypeInv, HandlerInv, connected, SendMessage,
           NEW k \in Kinds, NEW t \in Types,
           Waiting(k, t) => Provided(k, t), Waiting(k, t)'
    PROVE  Provided(k, t)'
<1>1. call \in CallRecord /\ call.at = "send" /\ call.op \in Ops
  BY DEF SendMessage, TypeInv, Idle, Constructor, Ops
<1> DEFINE m == [call EXCEPT !.at = "core"]
<1>2. /\ m \in ToCoreMessage /\ m.op = call.op /\ m.kind = call.kind
      /\ m.type = call.type
  BY <1>1 DEF CallRecord, ToCoreMessage
<1>3. toCore' = Append(toCore, m) /\ core' = core /\ listeners' = listeners
  BY <1>1 DEF SendMessage, HandlerInv
<1>4. /\ call'.op = call.op /\ call'.kind = call.kind
      /\ call'.type = call.type /\ call'.at = "table"
  BY <1>1 DEF SendMessage, CallRecord
<1>5. /\ DOMAIN toCore = 1 .. Len(toCore) /\ Len(toCore) \in Nat
      /\ DOMAIN toCore' = 1 .. Len(toCore) + 1
      /\ \A i \in DOMAIN toCore : toCore'[i] = toCore[i]
      /\ toCore'[Len(toCore) + 1] = m
  BY <1>2, <1>3 DEF TypeInv
<1> HIDE DEF m
<1>6. CASE About(m, "register", k, t)
  <2>1. PICK n \in Nat : n = Len(toCore) + 1
    BY <1>5
  <2>2. n \in DOMAIN toCore' /\ toCore'[n] = m
    BY <1>5, <2>1
  <2>3. NoneLeaves(n, k, t)'
    BY <1>5, <2>1 DEF NoneLeaves
  <2> QED
    BY <1>6, <2>2, <2>3 DEF Provided
<1>7. CASE ~About(m, "register", k, t)
  <2>1. ~About(m, "unregister", k, t) /\ Provided(k, t)
    BY <1>1, <1>2, <1>3, <1>4, <1>7 DEF Waiting, About
  <2>2. ASSUME NEW i \in Nat, NoneLeaves(i, k, t)
        PROVE  NoneLeaves(i, k, t)'
    BY <1>5, <2>1, <2>2 DEF NoneLeaves
  <2>3. CASE core[k][t] > 0 /\ NoneLeaves(0, k, t)
    BY <1>3, <2>2, <2>3 DEF Provided
  <2>4. CASE \E i \in DOMAIN toCore : /\ About(toCore[i], "register", k, t)
                                     /\ NoneLeaves(i, k, t)
    <3>1. PICK i \in DOMAIN toCore : /\ About(toCore[i], "register", k, t)
                                    /\ NoneLeaves(i, k, t)
      BY <2>4
    <3>2. NoneLeaves(i, k, t)' /\ i \in DOMAIN toCore' /\ toCore'[i] = toCore[i]
      BY <1>5, <2>2, <3>1
    <3> QED
      BY <3>1, <3>2 DEF Provided
  <2> QED
    BY <2>1, <2>3, <2>4 DEF Provided
<1> QED
  BY <1>6, <1>7

LEMMA ProvidedAfterReceipt ==
    ASSUME TypeInv, CoreReceives, NEW k \in Kinds, NEW t \in Types,
           Provided(k, t)
    PROVE  Provided(k, t)'
<1> DEFINE m == Head(toCore)
<1>1. /\ m \in ToCoreMessage /\ m = toCore[1] /\ 1 \in DOMAIN toCore
      /\ DOMAIN toCore = 1 .. Len(toCore) /\ Len(toCore) \in Nat
      /\ DOMAIN toCore' = 1 .. Len(toCore) - 1
      /\ \A i \in DOMAIN toCore' : toCore'[i] = toCore[i + 1]
  BY DEF CoreReceives, TypeInv
<1>2. ASSUME NEW i \in Nat, NoneLeaves(i + 1, k, t)
      PROVE  NoneLeaves(i, k, t)'
  BY <1>1, <1>2 DEF NoneLeaves
<1>3. core[k][t] \in Nat
  BY DEF TypeInv, Row
<1>4. core' = IF m.op = "register" THEN Insert(core, m.kind, m.type)
                                   ELSE EraseOne(core, m.kind, m.type)
  BY DEF CoreReceives
<1>5. m.kind \in Kinds /\ m.type \in Types /\ m.op \in Ops
  BY <1>1 DEF ToCoreMessage
<1> HIDE DEF m
<1>6. ~About(m, "unregister", k, t) => core'[k][t] >= core[k][t]
  BY <1>3, <1>4, <1>5 DEF TypeInv, Row, Insert, EraseOne, Less, About, Ops
<1>7. About(m, "register", k, t) => core'[k][t] = core[k][t] + 1
  BY <1>3, <1>4, <1>5 DEF TypeInv, Row, Insert, About
<1>8. core'[k][t] \in Nat
  BY TypeInvCoreReceives DEF TypeInv, Row
<1>9. CASE core[k][t] > 0 /\ NoneLeaves(0, k, t)
  <2>1. ~About(m, "unregister", k, t) /\ NoneLeaves(1, k, t)
    BY <1>1, <1>9 DEF NoneLeaves
  <2> QED
    BY <1>2, <1>3, <1>6, <1>8, <1>9, <2>1 DEF Provided
<1>10. CASE \E i \in DOMAIN toCore : /\ About(toCore[i], "register", k, t)
                                    /\ NoneLeaves(i, k, t)
  <2>1. PICK i \in DOMAIN toCore : /\ About(toCore[i], "register", k, t)
                                  /\ NoneLeaves(i, k, t)
    BY <1>10
  <2>2. CASE i = 1
    <3>1. core'[k][t] > 0
      BY <1>1, <1>3, <1>7, <2>1, <2>2
    <3>2. NoneLeaves(0, k, t)'
      BY <1>2, <2>1, <2>2
    <3> QED
      BY <3>1, <3>2 DEF Provided
  <2>3. CASE i # 1
    <3>1. i - 1 \in DOMAIN toCore' /\ i - 1 \in Nat /\ toCore'[i - 1] = toCore[i]
      BY <1>1, <2>3
    <3>2. NoneLeaves(i - 1, k, t)'
      BY <1>1, <1>2, <2>1, <3>1
    <3> QED
      BY <2>1, <3>1, <3>2 DEF Provided
  <2> QED
    BY <2>2, <2>3
<1> QED
  BY <1>9, <1>10 DEF Provided

(* A step that leaves what is on its way and what the core has alone and   *)
(* makes nobody wait.                                                      *)
LEMMA RoutedWhenNobodyNew ==
    ASSUME RoutedInv, connected' => connected, call' # Constructor,
           UNCHANGED <<toCore, core>>,
           \A k \in Kinds, t \in Types : Told(k) /\ Waiting(k, t)' => Waiting(k, t)
    PROVE  RoutedInv'
  BY DEF RoutedInv, Provided, NoneLeaves, Told

LEMMA RoutedInvNext ==
    ASSUME TypeInv, HandlerInv, RoutedInv, [Next]_vars
    PROVE  RoutedInv'
<1>1. CASE SetParentConnector
  <2>1. \A k \in Kinds, t \in Types : ~Waiting(k, t)'
    BY <1>1 DEF SetParentConnector, RoutedInv, Waiting, About, Idle
  <2>2. call' # Constructor
    BY <1>1 DEF SetParentConnector, Idle, Constructor
  <2> QED
    BY <2>1, <2>2 DEF RoutedInv
<1>2. CASE SendMessage
  <2>1. call' # Constructor /\ connected' = connected
    BY <1>2 DEF SendMessage, TypeInv, CallRecord, Idle, Constructor
  <2> QED
    BY <1>2, <2>1, ProvidedAfterSend DEF RoutedInv
<1>3. CASE UpdateListeners
  <2>1. call \in CallRecord /\ call' = Idle
    BY <1>3 DEF UpdateListeners, TypeInv, Idle, Constructor
  <2>2. ASSUME NEW k \in Kinds, NEW t \in Types, Waiting(k, t)'
        PROVE  Waiting(k, t)
    <3>1. listeners'[k][t] # None
      BY <2>1, <2>2 DEF Waiting, About, Idle
    <3>2. CASE call.kind = k /\ call.type = t
      <4>1. call.listener # None
        BY <1>3, <2>1, <3>1, <3>2 DEF UpdateListeners, TypeInv, Updated
      <4> QED
        BY <1>3, <2>1, <3>2, <4>1 DEF UpdateListeners, TypeInv, Waiting, About
    <3>3. CASE ~(call.kind = k /\ call.type = t)
      <4>1. listeners'[k][t] = listeners[k][t]
        BY <1>3, <2>1, <3>3 DEF UpdateListeners, TypeInv, Updated, CallRecord
      <4> QED
        BY <3>1, <3>3, <4>1 DEF Waiting, About
    <3> QED
      BY <3>2, <3>3
  <2> QED
    BY <1>3, <2>1, <2>2, RoutedWhenNobodyNew
       DEF UpdateListeners, Idle, Constructor
<1>4. CASE CoreReceives
  <2>1. \A k \in Kinds, t \in Types : Waiting(k, t)' <=> Waiting(k, t)
    BY <1>4 DEF CoreReceives, Waiting, About
  <2> QED
    BY <1>4, <2>1, ProvidedAfterReceipt DEF CoreReceives, RoutedInv
<1>5. CASE Disconnect
  <2>1. ~connected' /\ call' # Constructor
    BY <1>5 DEF Disconnect, OnDisconnectReceived, HandlerInv
  <2> QED
    BY <2>1 DEF RoutedInv
<1>6. ASSUME NEW op \in Ops, NEW k \in Kinds, NEW t \in Types, NEW l,
             Begin(op, k, t, l)
      PROVE  RoutedInv'
  <2>1. call' # Constructor /\ call' # Idle
    BY <1>6 DEF Begin, Call, Idle, Constructor, Ops
  <2>2. call'.kind = k /\ Told(k) => call'.at = "send"
    BY <1>6 DEF Begin, Call
  <2>3. call'.kind = k /\ call = Idle /\ listeners' = listeners
    BY <1>6 DEF Begin, Call
  <2>4. ASSUME NEW j \in Kinds, NEW u \in Types, Told(j), Waiting(j, u)'
        PROVE  Waiting(j, u)
    BY <2>2, <2>3, <2>4 DEF Waiting, About, Idle
  <2> QED
    BY <1>6, <2>1, <2>4, RoutedWhenNobodyNew DEF Begin
<1> USE DEF RoutedInv, Waiting, Provided, NoneLeaves
<1>7. ASSUME NEW k \in Kinds, NEW t \in Types, CoreSends(k, t)
      PROVE  RoutedInv'
  BY <1>7 DEF CoreSends
<1>8. ASSUME NEW m \in fromCore, OnMessage(m)
      PROVE  RoutedInv'
  BY <1>8 DEF OnMessage
<1>9. CASE UNCHANGED vars
  BY <1>9 DEF vars
<1> QED
  BY <1>1, <1>2, <1>3, <1>4, <1>5, <1>6, <1>7, <1>8, <1>9
     DEF Next, Register, Unregister, Ops

(* Between calls, once the core has heard of them, every listener in a     *)
(* table has a registration in the core: however listeners are replaced    *)
(* and types unregistered, the message that was sent last for a type is a  *)
(* registration exactly if somebody listens.                               *)
THEOREM EveryListenerIsRouted == Spec => []ListenersAreRouted
<1>1. Init => RoutedInv
  BY DEF Init, RoutedInv
<1>2. TypeInv /\ RoutedInv => ListenersAreRouted
  BY DEF TypeInv, RoutedInv, ListenersAreRouted, Waiting, Provided, About, Idle
<1>3. HandlerInv /\ TypeInv /\ RoutedInv /\ [Next]_vars => RoutedInv'
  BY RoutedInvNext
<1>4. Init => HandlerInv
  BY DEF Init, HandlerInv, NoHandlerAfterEnd, Constructor, Ops
<1> QED
  BY <1>1, <1>2, <1>3, <1>4, TypeInvInit, TypeInvNext, HandlerInvNext, PTL
     DEF Spec
=============================================================================
