----------------------------- MODULE JavaConnector -----------------------------
(***************************************************************************)
(* The connection of a Java plugin to the gateway (NetworkConnector.java). *)
(* A connector thread makes a connection and gives it a sender and a       *)
(* receiver; the first of these that fails disconnects, and by setting the *)
(* state back lets the connector make the next connection.  All of them    *)
(* share five fields of two objects without a lock.                        *)
(*                                                                         *)
(* A connection, its SocketChannel and its two threads go by one number.   *)
(***************************************************************************)
EXTENDS Integers

CONSTANTS
    MaxConnections, \* how many connections are made
    Messages,       \* what the plugin may send, once each
    Priority,       \* of a message
    None            \* null

Connections == 1..MaxConnections

(* The sender and the receiver of a connection. *)
S(n) == <<"sender", n>>
R(n) == <<"receiver", n>>
Threads == {S(n) : n \in Connections} \cup {R(n) : n \in Connections}

ASSUME ConnectorAssumption ==
    /\ MaxConnections \in Nat \ {0}
    /\ Priority \in [Messages -> Int]
    /\ None \notin Messages /\ None \notin Connections /\ None \notin Threads

VARIABLES
    connector,      \* what the connector thread does next
    made,           \* the number of connections made
    thread,         \* likewise for every sender and receiver
    socketOf,       \* the channel a thread was given
    taken,          \* the message a sender has taken out of the queue
    interrupted,    \* the threads that have been interrupted
    (* fields of NetworkConnector and of its ConnectorThread *)
    mSocketChannel, mSender, mReceiver,
    mIsConnected, state,
    (* the network and the application *)
    broken,         \* connections the gateway, or the network, has broken
    closed,         \* channels closed by this program
    where,          \* how far a message has come
    (* history, which no step depends on *)
    threw,          \* connections whose receiver has thrown an exception
    torn            \* connections whose flag a thread of an older one reset

threadVars == <<thread, socketOf, taken, interrupted>>
fields == <<mSocketChannel, mSender, mReceiver>>
flags == <<mIsConnected, state>>
history == <<threw, torn>>
vars == <<connector, made, threadVars, fields, flags, broken, closed, where,
          history>>

Init ==
    /\ connector = "run" /\ made = 0
    /\ thread = [t \in Threads |-> "none"]
    /\ socketOf = [t \in Threads |-> None]
    /\ taken = [t \in Threads |-> None]
    /\ interrupted = {}
    /\ mSocketChannel = None /\ mSender = None /\ mReceiver = None
    /\ mIsConnected = FALSE /\ state = "DISCONNECTED"
    /\ broken = {} /\ closed = {}
    /\ where = [m \in Messages |-> "plugin"]
    /\ threw = {} /\ torn = {}
-----------------------------------------------------------------------------
(* The connector thread: run and connect. *)

Ended == {t \in Threads : thread[t] \in {"none", "ended"}}

(* An attempt to connect that fails is repeated, and changes nothing. *)
Open ==
    /\ connector = "run" /\ state = "DISCONNECTED"
    /\ made < MaxConnections
    /\ made' = made + 1
    /\ mSocketChannel' = made'
    /\ connector' = "opened"
    /\ UNCHANGED <<threadVars, mSender, mReceiver, flags, broken, closed,
                   where, history>>

SetIsConnected ==
    /\ connector = "opened"
    /\ mIsConnected' = TRUE
    /\ connector' = "flagged"
    /\ UNCHANGED <<made, threadVars, fields, state, broken, closed, where,
                   history>>

SetConnected ==
    /\ connector = "flagged"
    /\ state' = "CONNECTED"
    /\ connector' = "connected"
    /\ UNCHANGED <<made, threadVars, fields, mIsConnected, broken, closed,
                   where, history>>

(* A new thread is given the channel that the field holds by now. *)
Start(t, first) ==
    /\ thread' = [thread EXCEPT ![t] = first]
    /\ socketOf' = [socketOf EXCEPT ![t] = mSocketChannel]

StartSender ==
    /\ connector = "connected"
    /\ mSender' = S(made)
    /\ Start(S(made), "take")
    /\ connector' = "sending"
    /\ UNCHANGED <<made, taken, interrupted, mSocketChannel, mReceiver, flags,
                   broken, closed, where, history>>

StartReceiver ==
    /\ connector = "sending"
    /\ mReceiver' = R(made)
    /\ Start(R(made), "read")
    /\ connector' = "run"
    /\ UNCHANGED <<made, taken, interrupted, mSocketChannel, mSender, flags,
                   broken, closed, where, history>>

Connect == Open \/ SetIsConnected \/ SetConnected \/ StartSender \/ StartReceiver
-----------------------------------------------------------------------------
(* The sender and the receiver. *)

Become(t, s) == thread' = [thread EXCEPT ![t] = s]

Usable(n) == n \notin {None} \cup broken \cup closed

(* take() returns the least element of the PriorityBlockingQueue, and that *)
(* is the one with the lowest priority; it does not if it is interrupted.  *)
Take(n) ==
    /\ thread[S(n)] = "take"
    /\ S(n) \notin interrupted
    /\ \E m \in Messages :
         /\ where[m] = "queue"
         /\ \A o \in Messages : where[o] = "queue" => Priority[m] <= Priority[o]
         /\ taken' = [taken EXCEPT ![S(n)] = m]
         /\ where' = [where EXCEPT ![m] = "sender"]
    /\ Become(S(n), "write")
    /\ UNCHANGED <<connector, made, socketOf, interrupted, fields, flags,
                   broken, closed, history>>

TakeInterrupted(n) ==
    /\ thread[S(n)] = "take"
    /\ S(n) \in interrupted
    /\ interrupted' = interrupted \ {S(n)}
    /\ Become(S(n), "failed")
    /\ UNCHANGED <<connector, made, socketOf, taken, fields, flags, broken,
                   closed, where, history>>

(* Written to the socket; if the gateway has broken the connection already *)
(* the write may still succeed, but what was written is lost.              *)
Write(n) ==
    /\ thread[S(n)] = "write"
    /\ S(n) \notin interrupted
    /\ socketOf[S(n)] \notin {None} \cup closed
    /\ where' = [where EXCEPT ![taken[S(n)]] =
                    IF Usable(socketOf[S(n)]) THEN "sent" ELSE "lost"]
    /\ taken' = [taken EXCEPT ![S(n)] = None]
    /\ Become(S(n), "take")
    /\ UNCHANGED <<connector, made, socketOf, interrupted, fields, flags,
                   broken, closed, history>>

(* An interrupted write closes the channel. *)
WriteFails(n) ==
    /\ thread[S(n)] = "write"
    /\ S(n) \in interrupted \/ ~Usable(socketOf[S(n)])
    /\ where' = [where EXCEPT ![taken[S(n)]] = "lost"]
    /\ taken' = [taken EXCEPT ![S(n)] = None]
    /\ closed' = closed \cup (IF S(n) \in interrupted
                              THEN {socketOf[S(n)]} \ {None} ELSE {})
    /\ Become(S(n), "failed")
    /\ UNCHANGED <<connector, made, socketOf, interrupted, fields, flags,
                   broken, history>>

(* A read that yields nothing is taken for the end of the stream. *)
FaultyReadEnds(n) == TRUE

(* read() ends or throws once the channel is gone, or if it is interrupted. *)
ReadEnds(n) == R(n) \in interrupted \/ ~Usable(socketOf[R(n)])

(* The stream ends, or the channel is gone; an interrupt closes it.  What  *)
(* is read before is handed to the plugin, and nothing here changes.       *)
ReadFails(n) ==
    /\ thread[R(n)] = "read"
    /\ ReadEnds(n)
    /\ closed' = closed \cup (IF R(n) \in interrupted
                              THEN {socketOf[R(n)]} \ {None} ELSE {})
    /\ Become(R(n), "failed")
    /\ UNCHANGED <<connector, made, socketOf, taken, interrupted, fields,
                   flags, broken, where, history>>

(* What has been read cannot be parsed, or the plugin throws an exception  *)
(* when it is delivered: the receiver ends although nothing is wrong with  *)
(* the connection.  On the last one it does not happen.                    *)
ReadThrows(n) ==
    /\ thread[R(n)] = "read"
    /\ socketOf[R(n)] # None
    /\ n < MaxConnections
    /\ threw' = threw \cup {n}
    /\ Become(R(n), "failed")
    /\ UNCHANGED <<connector, made, socketOf, taken, interrupted, fields,
                   flags, broken, closed, where, torn>>

(* The flag is reset, but nobody disconnects. *)
FaultyAfterFailure(t) == "ended"

(* compareAndSet lets one of the threads that have failed disconnect. *)
AfterFailure(t) == IF mIsConnected THEN "disconnect" ELSE "ended"

SocketOperationFailed(t) ==
    /\ thread[t] = "failed"
    /\ Become(t, AfterFailure(t))
    /\ mIsConnected' = FALSE
    /\ torn' = IF mIsConnected /\ t \notin {S(made), R(made)}
               THEN torn \cup {made} ELSE torn
    /\ UNCHANGED <<connector, made, socketOf, taken, interrupted, fields,
                   state, broken, closed, where, threw>>
-----------------------------------------------------------------------------
(* disconnect, by the thread t. *)

(* The null check is missing. *)
FaultyInterrupted(t) == interrupted \cup {t}

(* Thread t, if there is one, and if it is alive, is interrupted. *)
Interrupted(t) ==
    interrupted \cup ({t} \ ({None} \cup Ended))

InterruptSender(t) ==
    /\ thread[t] = "disconnect"
    /\ interrupted' = Interrupted(mSender)
    /\ Become(t, "interrupt")
    /\ UNCHANGED <<connector, made, socketOf, taken, fields, flags, broken,
                   closed, where, history>>

InterruptReceiver(t) ==
    /\ thread[t] = "interrupt"
    /\ interrupted' = Interrupted(mReceiver)
    /\ Become(t, "close")
    /\ UNCHANGED <<connector, made, socketOf, taken, fields, flags, broken,
                   closed, where, history>>

CloseChannel(t) ==
    /\ thread[t] = "close"
    /\ closed' = closed \cup ({mSocketChannel} \ {None})
    /\ mSocketChannel' = None
    /\ Become(t, "clear")
    /\ UNCHANGED <<connector, made, socketOf, taken, interrupted, mSender,
                   mReceiver, flags, broken, where, history>>

Clear(t) ==
    /\ thread[t] = "clear"
    /\ mSender' = None /\ mReceiver' = None
    /\ Become(t, "join")
    /\ UNCHANGED <<connector, made, socketOf, taken, interrupted,
                   mSocketChannel, flags, broken, closed, where, history>>

(* Wait for the thread u, which the fields, null since Clear, do not name  *)
(* any more, so that threads outlive their connection; a thread that has   *)
(* itself been interrupted does not wait.                                  *)
Join(t, u) ==
    LET waits == u \notin {None, t} \cup Ended
    IN  /\ waits => t \in interrupted
        /\ interrupted' = IF waits THEN interrupted \ {t} ELSE interrupted

JoinSender(t) ==
    /\ thread[t] = "join"
    /\ Join(t, mSender)
    /\ Become(t, "joined")
    /\ UNCHANGED <<connector, made, socketOf, taken, fields, flags, broken,
                   closed, where, history>>

JoinReceiver(t) ==
    /\ thread[t] = "joined"
    /\ Join(t, mReceiver)
    /\ Become(t, "set")
    /\ UNCHANGED <<connector, made, socketOf, taken, fields, flags, broken,
                   closed, where, history>>

SetDisconnected(t) ==
    /\ thread[t] = "set"
    /\ state' = "DISCONNECTED"
    /\ Become(t, "ended")
    /\ UNCHANGED <<connector, made, socketOf, taken, interrupted, fields,
                   mIsConnected, broken, closed, where, history>>

Disconnect(t) ==
    \/ InterruptSender(t) \/ InterruptReceiver(t) \/ CloseChannel(t)
    \/ Clear(t) \/ JoinSender(t) \/ JoinReceiver(t) \/ SetDisconnected(t)

Fail(t) == SocketOperationFailed(t) \/ Disconnect(t)

RunSender(n) ==
    Take(n) \/ TakeInterrupted(n) \/ Write(n) \/ WriteFails(n) \/ Fail(S(n))

RunReceiver(n) == ReadFails(n) \/ ReadThrows(n) \/ Fail(R(n))
-----------------------------------------------------------------------------
(* A method of GatewayConnector: isConnected() is looked at, ... *)
IsConnected(m) ==
    /\ where[m] = "plugin"
    /\ state = "CONNECTED"
    /\ where' = [where EXCEPT ![m] = "checked"]
    /\ UNCHANGED <<connector, made, threadVars, fields, flags, broken, closed,
                   history>>

(* ... and then the message goes into the queue, which never is full. *)
SendMessage(m) ==
    /\ where[m] = "checked"
    /\ where' = [where EXCEPT ![m] = "queue"]
    /\ UNCHANGED <<connector, made, threadVars, fields, flags, broken, closed,
                   history>>

(* The gateway breaks a connection, but not the last. *)
Break(n) ==
    /\ n \in 1..made \ broken
    /\ n < MaxConnections
    /\ broken' = broken \cup {n}
    /\ UNCHANGED <<connector, made, threadVars, fields, flags, closed, where,
                   history>>

Next ==
    \/ Connect
    \/ \E n \in Connections : RunSender(n) \/ RunReceiver(n) \/ Break(n)
    \/ \E m \in Messages : IsConnected(m) \/ SendMessage(m)

(* Threads run, and an attempt to connect at last succeeds. *)
Fairness ==
    /\ WF_vars(Connect)
    /\ \A n \in Connections : WF_vars(RunSender(n)) /\ WF_vars(RunReceiver(n))

Spec == Init /\ [][Next]_vars /\ Fairness
-----------------------------------------------------------------------------
(* Properties *)

Disconnecting ==
    {"disconnect", "interrupt", "close", "clear", "join", "joined", "set"}

(* Types of the fields and of the threads' states; a sender holds a        *)
(* message while it writes, and only then.                                 *)
TypeOK ==
    /\ connector \in {"run", "opened", "flagged", "connected", "sending"}
    /\ made \in 0..MaxConnections
    /\ thread \in [Threads -> {"none", "take", "write", "read", "failed",
                               "ended"} \cup Disconnecting]
    /\ socketOf \in [Threads -> Connections \cup {None}]
    /\ taken \in [Threads -> Messages \cup {None}]
    /\ \A t \in Threads : taken[t] # None <=> thread[t] = "write"
    /\ interrupted \subseteq Threads
    /\ mSocketChannel \in Connections \cup {None}
    /\ mSender \in Threads \cup {None} /\ mReceiver \in Threads \cup {None}
    /\ mIsConnected \in BOOLEAN /\ state \in {"CONNECTED", "DISCONNECTED"}
    /\ broken \subseteq 1..made /\ closed \subseteq 1..made
    /\ where \in [Messages -> {"plugin", "checked", "queue", "sender",
                               "sent", "lost"}]
    /\ threw \subseteq 1..made /\ torn \subseteq 1..made

(* What may end a connection. *)
Ending == broken \cup threw \cup torn

(* However late its threads notice what happens, the program closes a      *)
(* channel only if the gateway has broken the connection, its receiver has *)
(* thrown, or a thread that an older connection left behind has taken it   *)
(* for its own (compareAndSet of the flag they share).                     *)
ClosedForCause == closed \subseteq Ending

(* The two records of being connected do not part for good: if the flag is *)
(* reset while the connector waits in CONNECTED, somebody is on the way to *)
(* wake it.  Otherwise it would wait for ever, since a thread that fails   *)
(* does nothing once the flag is reset.  The exception is a thread of an   *)
(* older connection that resets the flag, and the state, before the        *)
(* connector sets the state to CONNECTED.                                  *)
SomebodyDisconnects ==
    connector = "run" /\ state = "CONNECTED" /\ ~mIsConnected =>
        \/ \E t \in Threads : thread[t] \in Disconnecting
        \/ made \in torn

(* After a connection has been lost the plugin gets another one, unless a  *)
(* thread of an older one tears it down again.                             *)
Reconnects ==
    \A n \in Connections :
        (n \in broken \cup threw) ~>
            \/ state = "CONNECTED" /\ mIsConnected /\ Usable(mSocketChannel)
            \/ made \in torn

(* What has gone into the queue comes out of it: it is sent, or lost with  *)
(* the connection it was written to, but not forgotten.                    *)
QueueDrains ==
    \A m \in Messages :
        (where[m] = "queue") ~> (where[m] \in {"sent", "lost"} \/ made \in torn)
=============================================================================
