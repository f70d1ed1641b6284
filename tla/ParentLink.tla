----------------------------- MODULE ParentLink -----------------------------
(***************************************************************************)
(* The link of a gateway to its parent.  A thread of its own               *)
(* (CrossGatewayConnectionManager::svc) tries to connect until it          *)
(* succeeds, notifies the reactor and ends; the reactor's thread, on the   *)
(* notification, tells GatewayCore which connection is the parent's, so    *)
(* that the thread can be started again when that one is destroyed.        *)
(*                                                                         *)
(* ACE registers the new connection with the reactor at the beginning of   *)
(* NetworkServiceHandler::open, so the reactor's thread may already serve  *)
(* it while the manager's thread is still opening it.                      *)
(***************************************************************************)
EXTENDS Naturals, FiniteSets

CONSTANTS
    Conns,         \* addresses of CrossGatewayEventHandler objects
    None,          \* NULL
    MaxBreaks      \* how often the parent breaks a connection

ASSUME LinkAssumption ==
    /\ None \notin Conns
    /\ MaxBreaks \in Nat

VARIABLES
    (* the manager's thread *)
    thread,         \* none, starting, connecting, trying, opening, opened,
                    \* ending
    attempt,        \* the connection it is opening
    handler,        \* the member it leaves the finished connection in
    cancelled,
    (* the reactor's thread *)
    notified,       \* the manager's notification is in the reactor's queue
    parentHandler,
    route,          \* the parent's entry in crossGatewayHandlers
    registeredWithGateway, \* the connections that have associated
    (* the network *)
    live,           \* the connections there are
    greeted,        \* those the parent's association is on its way to
    broken,         \* those the parent has closed
    breaks,
    reachable,      \* connections to the parent can be made
    (* history, which no step depends on *)
    overtaken,      \* connections that associated before onConnect
    untimely        \* connections destroyed before they were set up

managerVars == <<thread, attempt, handler, cancelled>>
coreVars == <<notified, parentHandler, route, registeredWithGateway>>
netVars == <<live, greeted, broken, breaks, reachable>>
history == <<overtaken, untimely>>
linkVars == <<managerVars, coreVars, netVars, history>>

(* initCrossGateway has activated the manager. *)
LinkInit ==
    /\ thread = "starting"
    /\ attempt = None
    /\ handler = None
    /\ cancelled = FALSE
    /\ notified = FALSE
    /\ parentHandler = None
    /\ route = None
    /\ registeredWithGateway = {}
    /\ live = {} /\ greeted = {} /\ broken = {}
    /\ breaks = 0
    /\ reachable = TRUE
    /\ overtaken = {} /\ untimely = {}
-----------------------------------------------------------------------------
(* The manager's thread. *)

Svc ==
    /\ thread = "starting"
    /\ thread' = "connecting"
    /\ handler' = None
    /\ UNCHANGED <<attempt, cancelled, coreVars, netVars, history>>

FaultyMayTry == TRUE

(* The condition of the loop. *)
MayTry == ~cancelled

(* An attempt begins: from here on a shutdown is not noticed before its    *)
(* outcome is known, which the blocking connect may take its time for.     *)
Attempt ==
    /\ thread = "connecting"
    /\ MayTry
    /\ thread' = "trying"
    /\ UNCHANGED <<attempt, handler, cancelled, coreVars, netVars, history>>

(* The attempt fails; the thread sleeps and comes back to the condition.   *)
AttemptFails ==
    /\ thread = "trying"
    /\ thread' = "connecting"
    /\ UNCHANGED <<attempt, handler, cancelled, coreVars, netVars, history>>

(* ACE connects and registers the connection with the reactor; the parent, *)
(* which has accepted it, sends its association.                           *)
ConnectionOpens(c) ==
    /\ thread = "trying"
    /\ reachable
    /\ c \notin live
    /\ thread' = "opening"
    /\ attempt' = c
    /\ live' = live \cup {c}
    /\ greeted' = greeted \cup {c}
    /\ UNCHANGED <<handler, cancelled, coreVars, broken, breaks, reachable,
                   history>>

(* onConnect: registeredWithGateway is initialised here. *)
OnConnect ==
    /\ thread = "opening"
    /\ thread' = "opened"
    /\ registeredWithGateway' = registeredWithGateway \ {attempt}
    /\ UNCHANGED <<attempt, handler, cancelled, notified, parentHandler,
                   route, netVars, history>>

Notify ==
    /\ thread = "opened"
    /\ thread' = "ending"
    /\ handler' = attempt
    /\ attempt' = None
    /\ notified' = TRUE
    /\ UNCHANGED <<cancelled, parentHandler, route, registeredWithGateway,
                   netVars, history>>

(* The loop has seen that it is cancelled. *)
GiveUp ==
    /\ thread = "connecting"
    /\ ~MayTry
    /\ thread' = "ending"
    /\ UNCHANGED <<attempt, handler, cancelled, coreVars, netVars, history>>

Exit ==
    /\ thread = "ending"
    /\ thread' = "none"
    /\ UNCHANGED <<attempt, handler, cancelled, coreVars, netVars, history>>

ManagerStep ==
    \/ Svc \/ Attempt \/ AttemptFails \/ OnConnect \/ Notify \/ GiveUp \/ Exit
    \/ \E c \in Conns : ConnectionOpens(c)
-----------------------------------------------------------------------------
(* The reactor's thread, until the event loop is left. *)

(* handle_input of the manager. *)
SetParentHandler ==
    /\ notified /\ ~cancelled
    /\ notified' = FALSE
    /\ parentHandler' = handler
    /\ UNCHANGED <<managerVars, route, registeredWithGateway, netVars,
                   history>>

(* ASSOCIATE_CROSS_GATEWAY from the parent. *)
ReceiveAssociate(c) ==
    /\ c \in greeted /\ ~cancelled
    /\ greeted' = greeted \ {c}
    /\ registeredWithGateway' = registeredWithGateway \cup {c}
    /\ route' = c
    /\ overtaken' = IF thread = "opening" /\ attempt = c
                    THEN overtaken \cup {c} ELSE overtaken
    /\ UNCHANGED <<managerVars, notified, parentHandler, live, broken, breaks,
                   reachable, untimely>>

(* The restart is forgotten. *)
FaultyActivate == thread

(* ACE_Task::activate does nothing while the task has a running thread. *)
Activate == IF thread = "none" THEN "starting" ELSE thread

(* The entry of a dead connection is kept. *)
FaultyErased(c) == route

(* crossGatewayHandlers without the connection's id. *)
Erased(c) == None

(* The pointer to the dead parent is kept. *)
FaultyOrphan(h) == h

(* parentHandler once the parent's connection h is destroyed. *)
Orphan(h) == None

(* A connection is set up once the core knows it as a neighbour and as the *)
(* parent, and the thread that made it has ended.                          *)
SetUp(c) == c \in registeredWithGateway /\ c = parentHandler /\ thread = "none"

(* handle_input reads the end of the stream: the connection is destroyed,  *)
(* which unregisters it only if it has associated.                         *)
Disconnect(c) ==
    /\ c \in broken /\ ~cancelled
    /\ c # attempt  \* else the thread crashes, as it goes on opening a
                    \* connection that has been deleted
    /\ live' = live \ {c}
    /\ broken' = broken \ {c}
    /\ greeted' = greeted \ {c}
    /\ registeredWithGateway' = registeredWithGateway \ {c}
    /\ IF c \in registeredWithGateway
       THEN /\ route' = Erased(c)
            /\ IF route = parentHandler
               THEN /\ parentHandler' = Orphan(parentHandler)
                    /\ thread' = Activate
               ELSE UNCHANGED <<parentHandler, thread>>
       ELSE UNCHANGED <<route, parentHandler, thread>>
    /\ untimely' = IF SetUp(c) THEN untimely ELSE untimely \cup {c}
    /\ UNCHANGED <<attempt, handler, cancelled, notified, breaks, reachable,
                   overtaken>>

ReactorStep ==
    \/ SetParentHandler
    \/ \E c \in Conns : ReceiveAssociate(c) \/ Disconnect(c)
-----------------------------------------------------------------------------
(* The parent breaks a connection, at any time. *)
Break(c) ==
    /\ c \in live \ broken
    /\ breaks < MaxBreaks
    /\ broken' = broken \cup {c}
    /\ breaks' = breaks + 1
    /\ UNCHANGED <<managerVars, coreVars, live, greeted, reachable, history>>

(* The parent, or the network in front of it, goes away for good. *)
ParentGoes ==
    /\ reachable
    /\ reachable' = FALSE
    /\ UNCHANGED <<managerVars, coreVars, live, greeted, broken, breaks,
                   history>>

(* The event loop has ended: terminate() cancels the manager and waits. *)
Terminate ==
    /\ ~cancelled
    /\ cancelled' = TRUE
    /\ UNCHANGED <<thread, attempt, handler, coreVars, netVars, history>>

LinkNext ==
    \/ ManagerStep \/ ReactorStep \/ Terminate \/ ParentGoes
    \/ \E c \in Conns : Break(c)

(* Both threads run, every attempt has an outcome, and attempts to reach a *)
(* parent that can be reached do not fail for ever.                        *)
LinkFairness ==
    /\ WF_linkVars(ManagerStep) /\ WF_linkVars(ReactorStep)
    /\ SF_linkVars(\E c \in Conns : ConnectionOpens(c))

LinkSpec == LinkInit /\ [][LinkNext]_linkVars /\ LinkFairness
-----------------------------------------------------------------------------
(* Properties *)

(* Types; a pointer to the parent's connection is NULL, or points to a     *)
(* connection there is or to one that was destroyed before it was set up.  *)
TypeOK ==
    /\ thread \in {"none", "starting", "connecting", "trying", "opening",
                   "opened", "ending"}
    /\ attempt \in Conns \cup {None}
    /\ attempt # None <=> thread \in {"opening", "opened"}
    /\ handler \in Conns \cup {None}
    /\ parentHandler \in live \cup untimely \cup {None}
    /\ route \in Conns \cup {None}
    /\ cancelled \in BOOLEAN /\ notified \in BOOLEAN
    /\ registeredWithGateway \subseteq live
    /\ live \subseteq Conns /\ greeted \subseteq live /\ broken \subseteq live
    /\ breaks \in 0..MaxBreaks /\ reachable \in BOOLEAN
    /\ overtaken \subseteq Conns /\ untimely \subseteq Conns

(* The routing table leads to the parent's connection only as long as that *)
(* connection will take itself out of the table: it exists and knows that  *)
(* it is registered.  The exception is what CrossGatewayEventHandler's     *)
(* onConnect makes of a connection whose association it comes after.       *)
RouteIsRegistered ==
    route \notin overtaken \cup {None} =>
        route \in live /\ route \in registeredWithGateway

Link == INSTANCE ReconnectingLink WITH
    Connections <- Conns, NoConnection <- None,
    link <- route,
    dead <- route # None /\ (route \in broken \/ route \notin live),
    over <- cancelled \/ untimely # {},
    gone <- ~reachable

(* The manager and the reactor together implement a link that reconnects,  *)
(* until the gateway shuts down or a connection is lost before it is set   *)
(* up, which unregisterCrossGatewayConnection does not recover from.       *)
ImplementsLink == Link!Spec

(* terminate() waits for the manager's thread, and the thread does end,    *)
(* whether an attempt is under way, succeeds late or goes on failing.      *)
ShutdownEnds == cancelled ~> (thread = "none")
=============================================================================
