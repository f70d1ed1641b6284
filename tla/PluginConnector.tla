-------------------------- MODULE PluginConnector ---------------------------
(***************************************************************************)
(* GatewayConnector, the library by which C++ plugins talk to the gateway  *)
(* core.  A thread of the plugin registers and unregisters listeners, each *)
(* call a few steps; the reactor's thread hands what arrives to the        *)
(* listeners and sees the connection end.  The two share the tables of     *)
(* listeners, the flag `connected' and the handler of the connection, and  *)
(* no lock.  The core is there with its row of registrations for this      *)
(* connection (GatewayCore.tla has all of it).                             *)
(***************************************************************************)
EXTENDS CoreTables, Sequences

CONSTANTS
    Listeners,
    Kinds,          \* of listeners: among "push", "pull" and "response"
    MaxCalls,       \* bound on the calls of the plugin
    MaxMessages     \* bound on the messages that come from the core

None == "none"

ASSUME ConnectorAssumption ==
    /\ Kinds \subseteq {"push", "pull", "response"}
    /\ None \notin Listeners
    /\ MaxCalls \in Nat /\ MaxMessages \in Nat

VARIABLES
    connected,      \* the flag of the connector
    parent,         \* the handler knows the connector
    handler,        \* the handler of the connection: "live" or "gone"
    call,           \* the call the plugin is in, or Idle
    listeners,      \* receiverListeners, pullRequestListeners and
                    \* pullResponseListeners, by kind
    toCore,         \* messages on their way to the core
    core,           \* by kind, the registrations the core has
    fromCore,       \* messages on their way from the core
    usedGone,       \* history: the uses of the handler after its end
    cut,            \* history: the connection ended in the middle of a call
    owed,           \* history: the <<message, registered type>> to be heard
    calls, sent     \* counted against their bounds

history == <<usedGone, cut, owed>>

vars == <<connected, parent, handler, call, listeners, toCore, core, fromCore,
          history, calls, sent>>

Idle == [op |-> "idle"]
Constructor == [op |-> "connect"]
Call(op, kind, t, l, at) == [op |-> op, kind |-> kind, type |-> t,
                             listener |-> l, at |-> at]

(* Interest in responses is a matter of the plugin alone. *)
Told(kind) == kind # "response"

(* The connection has just been opened, in the constructor. *)
Init ==
    /\ connected = FALSE /\ parent = FALSE /\ handler = "live"
    /\ call = Constructor
    /\ listeners = [k \in Kinds |-> [t \in Types |-> None]]
    /\ toCore = << >> /\ fromCore = {}
    /\ core = [k \in Kinds |-> EmptyRow]
    /\ usedGone = 0 /\ cut = FALSE
    /\ owed = {}
    /\ calls = 0 /\ sent = 0
-----------------------------------------------------------------------------
(* The thread of the plugin. *)

(* init() goes on after connect(): the connector introduces itself to the  *)
(* handler.                                                                *)
SetParentConnector ==
    /\ call = Constructor
    /\ connected' = TRUE
    /\ parent' = TRUE
    /\ call' = Idle
    /\ UNCHANGED <<handler, listeners, toCore, core, fromCore, history, calls,
                   sent>>

(* A call begins with a look at `connected'. *)
Begin(op, kind, t, l) ==
    /\ call = Idle
    /\ calls < MaxCalls
    /\ calls' = calls + 1
    /\ Told(kind) => connected
    /\ call' = Call(op, kind, t, l, IF Told(kind) THEN "send" ELSE "table")
    /\ owed' = IF op = "unregister" THEN {o \in owed : o[2] # t \/ o[1].kind # kind}
                                    ELSE owed
    /\ UNCHANGED <<connected, parent, handler, listeners, toCore, core,
                   fromCore, usedGone, cut, sent>>

Register(kind, t, l) == Begin("register", kind, t, l)
Unregister(kind, t) == Begin("unregister", kind, t, None)

(* The message for the core goes to the handler the call has found, which  *)
(* may have been deleted since; what that does is not known.               *)
SendMessage ==
    /\ call.op \in {"register", "unregister"} /\ call.at = "send"
    /\ call' = [call EXCEPT !.at = "table"]
    /\ IF handler = "live"
       THEN /\ toCore' = Append(toCore, [call EXCEPT !.at = "core"])
            /\ UNCHANGED usedGone
       ELSE /\ usedGone' = usedGone + 1
            /\ UNCHANGED toCore
    /\ UNCHANGED <<connected, parent, handler, listeners, core, fromCore, cut,
                   owed, calls, sent>>

(* Listeners are added and never erased. *)
FaultyUpdated(table, t, l) == [table EXCEPT ![t] = IF l = None THEN @ ELSE l]

(* Whoever listens to a type that begins with t goes with it. *)
FaultyErased(table, t, l) ==
    [u \in Types |-> IF u = t THEN l
                     ELSE IF l = None /\ t \in Prefix[u] THEN None ELSE table[u]]

(* One listener for a type, the one registered last. *)
Updated(table, t, l) == [table EXCEPT ![t] = l]

(* Then the table changes, and the call returns. *)
UpdateListeners ==
    /\ call.op \in {"register", "unregister"} /\ call.at = "table"
    /\ listeners' = [listeners EXCEPT
                        ![call.kind] = Updated(@, call.type, call.listener)]
    /\ call' = Idle
    /\ UNCHANGED <<connected, parent, handler, toCore, core, fromCore, history,
                   calls, sent>>
-----------------------------------------------------------------------------
(* The gateway core. *)

(* It makes an entry for each registration, and takes one out for each     *)
(* unregistration.                                                         *)
CoreReceives ==
    /\ toCore # << >>
    /\ LET m == Head(toCore) IN
         core' = IF m.op = "register" THEN Insert(core, m.kind, m.type)
                                      ELSE EraseOne(core, m.kind, m.type)
    /\ toCore' = Tail(toCore)
    /\ UNCHANGED <<connected, parent, handler, call, listeners, fromCore,
                   history, calls, sent>>

(* The registered types that a message of type t is for: the whole type    *)
(* counts for a pull request, and a prefix of it otherwise.                *)
Keys(kind, t) == IF kind = "pull" THEN {t} ELSE Prefix[t]

(* Whether the core has a reason to send a message here. *)
Routed(kind, t) ==
    Told(kind) => \E p \in Keys(kind, t) : core[kind][p] > 0

(* An unregistration that the plugin has begun, or that the core is still  *)
(* to hear of.                                                             *)
Leaving(kind, t) ==
    \/ call.op = "unregister" /\ call.kind = kind /\ call.type = t
    \/ \E i \in DOMAIN toCore : /\ toCore[i].op = "unregister"
                                /\ toCore[i].kind = kind /\ toCore[i].type = t

(* The call in progress has still to put a listener for a type in. *)
Registering(kind, t) ==
    call.op = "register" /\ call.kind = kind /\ call.type = t
        /\ call.at = "table"

(* A type that somebody listens to, or whose registration the core has     *)
(* while the call that made it goes on.                                    *)
Promised(kind, t) ==
    \/ listeners[kind][t] # None
    \/ Told(kind) /\ core[kind][t] > 0 /\ Registering(kind, t)

(* Pushed data, a pull request or a response for this plugin.  It is owed  *)
(* to whoever it is promised to and will not be taken out.                 *)
CoreSends(kind, t) ==
    LET m == [kind |-> kind, type |-> t, number |-> sent] IN
    /\ handler = "live" /\ parent
    /\ sent < MaxMessages
    /\ sent' = sent + 1
    /\ Routed(kind, t)
    /\ fromCore' = fromCore \cup {m}
    /\ owed' = owed \cup {<<m, p>> : p \in {p \in Keys(kind, t) :
                              Promised(kind, p) /\ ~Leaving(kind, p)}}
    /\ UNCHANGED <<connected, parent, handler, call, listeners, toCore, core,
                   usedGone, cut, calls>>
-----------------------------------------------------------------------------
(* The reactor's thread. *)

(* The entries of the table whose listeners are called. *)
Hearing(m) == {p \in Keys(m.kind, m.type) : listeners[m.kind][p] # None}

(* Messages arrive in any order: their priorities differ. *)
OnMessage(m) ==
    /\ handler = "live"
    /\ m \in fromCore
    /\ fromCore' = fromCore \ {m}
    /\ LET unheard == {o \in owed : /\ o[1] = m /\ o[2] \notin Hearing(m)
                                   /\ Registering(m.kind, o[2])} IN
         owed' = owed \ ({<<m, p>> : p \in Hearing(m)} \cup unheard)
    /\ UNCHANGED <<connected, parent, handler, call, listeners, toCore, core,
                   usedGone, cut, calls, sent>>

(* The flag stays as it is. *)
FaultyOnDisconnectReceived == UNCHANGED connected

(* The handler tells the connector, if it knows one. *)
OnDisconnectReceived == connected' = IF parent THEN FALSE ELSE connected

(* The connection ends, with what is on its way either way; the core       *)
(* forgets the registrations and nobody connects again.  Connectors are    *)
(* constructed by the thread that runs the reactor or is about to, calls   *)
(* are made by any thread.                                                 *)
Disconnect ==
    /\ handler = "live"
    /\ call # Constructor
    /\ OnDisconnectReceived
    /\ cut' = (call.op \in {"register", "unregister"} /\ call.at = "send")
    /\ handler' = "gone"
    /\ toCore' = << >> /\ fromCore' = {}
    /\ core' = [k \in Kinds |-> EmptyRow]
    /\ owed' = {}
    /\ UNCHANGED <<parent, call, listeners, usedGone, calls, sent>>
-----------------------------------------------------------------------------
Next ==
    \/ SetParentConnector
    \/ SendMessage
    \/ UpdateListeners
    \/ CoreReceives
    \/ Disconnect
    \/ \E k \in Kinds, t \in Types :
         \/ \E l \in Listeners : Register(k, t, l)
         \/ Unregister(k, t)
         \/ CoreSends(k, t)
    \/ \E m \in fromCore : OnMessage(m)

Spec == Init /\ [][Next]_vars
-----------------------------------------------------------------------------
(* Properties *)

(* The handler is deleted by the reactor's thread, and calls look at        *)
(* `connected' before they use it: only the one call that had looked when  *)
(* the connection ended may use it after its end, whatever is called then. *)
NoHandlerAfterEnd == usedGone <= (IF cut THEN 1 ELSE 0)

(* Between calls, once the core has heard of them, every listener in a     *)
(* table has a registration in the core, however listeners were replaced   *)
(* and types unregistered: nobody waits for data that are never sent.      *)
ListenersAreRouted ==
    connected /\ call = Idle /\ toCore = << >> =>
        \A k \in Kinds, t \in Types :
            Told(k) /\ listeners[k][t] # None => core[k][t] > 0

(* What the core sent for a registered type is heard by the listener of    *)
(* that type, though calls replace and erase listeners while it is on its  *)
(* way, unless it arrives while the call that registers the type goes on.  *)
OwedAreHeard == \A o \in owed : o[1] \in fromCore
=============================================================================
