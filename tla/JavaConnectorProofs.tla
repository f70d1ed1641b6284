-------------------------- MODULE JavaConnectorProofs --------------------------
(* Proofs of the safety properties of JavaConnector. *)
EXTENDS JavaConnector, TLAPS

Running(t) == thread[t] \notin {"none", "ended"}

(***************************************************************************)
(* Types                                                                   *)
(***************************************************************************)

(* A number that has been given to a connection, or null. *)
Given == (1..made) \cup {None}

(* The threads of a connection are new until the connector starts them. *)
NewUntilStarted ==
    /\ \A n \in Connections : n > made =>
          thread[S(n)] = "none" /\ thread[R(n)] = "none"
    /\ connector \in {"opened", "flagged", "connected"} =>
          thread[S(made)] = "none" /\ thread[R(made)] = "none"
    /\ connector = "sending" => thread[R(made)] = "none"

(* Channels are only closed by number, and the numbers come from the field *)
(* and from the threads: this is what TypeOK needs.                        *)
TypeInv ==
    /\ TypeOK
    /\ connector # "run" => made \in Connections
    /\ mSocketChannel \in Given
    /\ \A t \in Threads : socketOf[t] \in Given
    /\ NewUntilStarted

LEMMA ThreadsDiffer ==
    /\ \A n \in Connections : S(n) \in Threads /\ R(n) \in Threads
    /\ \A n, k \in Connections :
          S(n) # R(k) /\ (S(n) = S(k) => n = k) /\ (R(n) = R(k) => n = k)
    /\ \A t \in Threads : \E n \in Connections : t = S(n) \/ t = R(n)
BY DEF Threads, S, R

LEMMA TypeInvInit == Init => TypeInv
<1> SUFFICES ASSUME Init PROVE TypeInv
  OBVIOUS
<1> USE ConnectorAssumption DEF Init
<1>1. TypeOK
  <2>1. /\ thread \in [Threads -> {"none"}] /\ taken \in [Threads -> {None}]
        /\ socketOf \in [Threads -> {None}] /\ where \in [Messages -> {"plugin"}]
    OBVIOUS
  <2>2. \A t \in Threads : taken[t] # None <=> thread[t] = "write"
    OBVIOUS
  <2>3. /\ connector = "run" /\ made \in 0..MaxConnections
        /\ interrupted = {} /\ broken = {} /\ closed = {}
        /\ threw = {} /\ torn = {}
        /\ mSocketChannel = None /\ mSender = None /\ mReceiver = None
        /\ mIsConnected = FALSE /\ state = "DISCONNECTED"
    OBVIOUS
  <2> HIDE DEF Init
  <2> QED
    BY <2>1, <2>2, <2>3 DEF TypeOK
<1>2. NewUntilStarted
  BY ThreadsDiffer DEF NewUntilStarted
<1> QED
  BY <1>1, <1>2 DEF TypeInv, Given

LEMMA TypeInvConnect ==
    ASSUME TypeInv, Connect
    PROVE  TypeInv'
<1> USE ConnectorAssumption, ThreadsDiffer
        DEF TypeInv, TypeOK, Given, NewUntilStarted, Connections, flags,
            fields, threadVars, history
<1>1. CASE Open
  BY <1>1 DEF Open
<1>2. CASE SetIsConnected
  BY <1>2 DEF SetIsConnected
<1>3. CASE SetConnected
  BY <1>3 DEF SetConnected
<1>4. CASE StartSender
  BY <1>4 DEF StartSender, Start
<1>5. CASE StartReceiver
  BY <1>5 DEF StartReceiver, Start
<1> QED
  BY <1>1, <1>2, <1>3, <1>4, <1>5 DEF Connect

(* A step of a disconnecting or failed thread. *)
LEMMA TypeInvFail ==
    ASSUME NEW t \in Threads, TypeInv, Fail(t)
    PROVE  TypeInv'
<1> USE ConnectorAssumption, ThreadsDiffer
        DEF TypeInv, TypeOK, Given, NewUntilStarted, Connections, flags,
            fields, Become, Disconnecting, history
<1>1. CASE SocketOperationFailed(t)
  <2>1. torn' \subseteq 1..made
    BY <1>1 DEF SocketOperationFailed
  <2>2. /\ thread' \in [Threads -> {"none", "take", "write", "read", "failed",
                                   "ended"} \cup Disconnecting]
        /\ mIsConnected' \in BOOLEAN
    BY <1>1 DEF SocketOperationFailed, AfterFailure
  <2>3. \A u \in Threads : /\ (thread'[u] = "write") = (thread[u] = "write")
                            /\ (thread'[u] = "none") = (thread[u] = "none")
    BY <1>1 DEF SocketOperationFailed, AfterFailure
  <2>4. UNCHANGED <<connector, made, socketOf, taken, interrupted,
                    mSocketChannel, mSender, mReceiver, state, broken, closed,
                    where, threw>>
    BY <1>1 DEF SocketOperationFailed
  <2> QED
    BY <2>1, <2>2, <2>3, <2>4
<1>2. CASE InterruptSender(t)
  BY <1>2 DEF InterruptSender, Interrupted
<1>3. CASE InterruptReceiver(t)
  BY <1>3 DEF InterruptReceiver, Interrupted
<1>4. CASE CloseChannel(t)
  BY ZenonT(40), <1>4 DEF CloseChannel
<1>5. CASE Clear(t)
  BY <1>5 DEF Clear
<1>6. CASE JoinSender(t)
  BY <1>6 DEF JoinSender, Join
<1>7. CASE JoinReceiver(t)
  BY <1>7 DEF JoinReceiver, Join
<1>8. CASE SetDisconnected(t)
  BY <1>8 DEF SetDisconnected
<1> QED
  BY <1>1, <1>2, <1>3, <1>4, <1>5, <1>6, <1>7, <1>8 DEF Fail, Disconnect

LEMMA TypeInvThreads ==
    ASSUME NEW n \in Connections, TypeInv, RunSender(n) \/ RunReceiver(n)
    PROVE  TypeInv'
<1> USE ConnectorAssumption, ThreadsDiffer
        DEF TypeInv, TypeOK, Given, NewUntilStarted, Connections, flags,
            fields, Become, Disconnecting, history
<1>1. CASE Take(n)
  BY <1>1 DEF Take
<1>2. CASE TakeInterrupted(n)
  BY <1>2 DEF TakeInterrupted
<1>3. CASE Write(n)
  BY <1>3 DEF Write
<1>4. CASE WriteFails(n)
  BY ZenonT(40), <1>4 DEF WriteFails
<1>5. CASE ReadFails(n)
  BY ZenonT(40), <1>5 DEF ReadFails
<1>6. CASE ReadThrows(n)
  BY <1>6 DEF ReadThrows
<1>7. CASE Fail(S(n)) \/ Fail(R(n))
  BY <1>7, TypeInvFail
<1> QED
  BY <1>1, <1>2, <1>3, <1>4, <1>5, <1>6, <1>7 DEF RunSender, RunReceiver

LEMMA TypeInvNext == TypeInv /\ [Next]_vars => TypeInv'
<1> SUFFICES ASSUME TypeInv, [Next]_vars PROVE TypeInv'
  OBVIOUS
<1> USE ConnectorAssumption
        DEF TypeInv, TypeOK, Given, NewUntilStarted, Connections, flags,
            fields, threadVars, history
<1>1. CASE \E n \in Connections : Break(n)
  BY <1>1 DEF Break
<1>2. CASE \E m \in Messages : IsConnected(m) \/ SendMessage(m)
  <2> PICK m \in Messages : IsConnected(m) \/ SendMessage(m)
    BY <1>2
  <2>1. where' \in [Messages -> {"plugin", "checked", "queue", "sender",
                                "sent", "lost"}]
    BY DEF IsConnected, SendMessage
  <2>2. UNCHANGED <<connector, made, thread, socketOf, taken, interrupted,
                    mSocketChannel, mSender, mReceiver, mIsConnected, state,
                    broken, closed, threw, torn>>
    BY DEF IsConnected, SendMessage
  <2> QED
    BY <2>1, <2>2
<1>3. CASE UNCHANGED vars
  BY <1>3 DEF vars
<1> QED
  BY <1>1, <1>2, <1>3, TypeInvConnect, TypeInvThreads DEF Next

(* Fields, threads and messages keep their types, whether or not threads   *)
(* of an old connection are still running when the next is made.           *)
THEOREM ConnectorTypeCorrect == Spec => []TypeOK
<1>1. Spec => []TypeInv
  BY TypeInvInit, TypeInvNext, PTL DEF Spec
<1>2. TypeInv => TypeOK
  BY DEF TypeInv
<1> QED
  BY <1>1, <1>2, PTL

(***************************************************************************)
(* Causes                                                                  *)
(***************************************************************************)

(* A thread works with the channel of its own connection, or with none;    *)
(* once it has found no channel, has been interrupted or has failed, there *)
(* is a cause for that connection to end.                                  *)
ThreadCause(n, t) ==
    Running(t) =>
        /\ socketOf[t] \in {n, None}
        /\ socketOf[t] = None => n \in Ending
        /\ thread[t] = "failed" => n \in Ending
        /\ t \in interrupted => n \in Ending

ThreadsHaveCause ==
    /\ \A n \in Connections : ThreadCause(n, S(n)) /\ ThreadCause(n, R(n))
    /\ \A t \in interrupted : thread[t] # "none"

(* The next connection is made only when there is a cause for the last one *)
(* to end, and the field never holds the channel of an older one.          *)
ConnectionsHaveCause ==
    /\ \A n \in Connections : n < made => n \in Ending
    /\ mSocketChannel \in {made, None}
    /\ mSocketChannel = None => made = 0 \/ made \in Ending

(* One thread disconnects at a time, after it has reset the flag, and it   *)
(* disconnects the last connection, whatever connection is its own.        *)
OneDisconnects ==
    /\ \A t \in Threads : thread[t] \in Disconnecting =>
           ~mIsConnected /\ made \in Ending
    /\ \A t, u \in Threads :
           thread[t] \in Disconnecting /\ thread[u] \in Disconnecting => t = u

NobodyDisconnects == \A t \in Threads : thread[t] \notin Disconnecting

(* How the flag and the state go together, step by step of connect().      *)
FlagAndState ==
    /\ connector \in {"opened", "flagged"} => state = "DISCONNECTED"
    /\ connector = "opened" => ~mIsConnected /\ NobodyDisconnects
    /\ connector \in {"flagged", "connected"} /\ ~mIsConnected => made \in torn
    /\ connector \in {"run", "connected", "sending"} /\ state = "DISCONNECTED" =>
           ~mIsConnected /\ NobodyDisconnects /\ (made = 0 \/ made \in Ending)
    /\ state = "CONNECTED" /\ ~mIsConnected =>
           made \in torn \/ \E t \in Threads : thread[t] \in Disconnecting

SafetyInv ==
    /\ TypeInv
    /\ ClosedForCause
    /\ ThreadsHaveCause
    /\ ConnectionsHaveCause
    /\ OneDisconnects
    /\ FlagAndState

LEMMA SafetyInvInit == Init => SafetyInv
<1> SUFFICES ASSUME Init PROVE SafetyInv
  OBVIOUS
<1>1. \A t \in Threads : thread[t] = "none"
  BY DEF Init
<1>2. ThreadsHaveCause
  BY <1>1, ThreadsDiffer DEF Init, ThreadsHaveCause, ThreadCause, Running
<1>3. ConnectionsHaveCause
  BY DEF Init, ConnectionsHaveCause, Connections
<1>4. NobodyDisconnects
  BY <1>1 DEF NobodyDisconnects, Disconnecting
<1> QED
  BY <1>2, <1>3, <1>4, TypeInvInit
  DEF Init, SafetyInv, ClosedForCause, OneDisconnects, FlagAndState,
      NobodyDisconnects

(* The connector goes on to a new connection only when nobody disconnects. *)
LEMMA SafetyInvConnect ==
    ASSUME SafetyInv, Connect
    PROVE  SafetyInv'
<1>1. TypeInv'
  BY TypeInvConnect DEF SafetyInv
<1>2. /\ Ending' = Ending /\ closed' = closed /\ interrupted' = interrupted
      /\ torn' = torn
  BY DEF Connect, Open, SetIsConnected, SetConnected, StartSender,
         StartReceiver, threadVars, fields, history, Ending
<1> USE ConnectorAssumption, ThreadsDiffer, <1>1, <1>2
        DEF SafetyInv, TypeInv, TypeOK, NewUntilStarted, Connections, flags,
            fields, threadVars, history, ClosedForCause, ThreadsHaveCause,
            ThreadCause, ConnectionsHaveCause, OneDisconnects, FlagAndState,
            NobodyDisconnects, Running, Disconnecting
<1>3. CASE Open
  BY <1>3 DEF Open
<1>4. CASE SetIsConnected
  BY <1>4 DEF SetIsConnected
<1>5. CASE SetConnected
  BY <1>5 DEF SetConnected
<1>6. CASE StartSender
  BY <1>6 DEF StartSender, Start
<1>7. CASE StartReceiver
  BY <1>7 DEF StartReceiver, Start
<1> QED
  BY <1>3, <1>4, <1>5, <1>6, <1>7 DEF Connect

(* Whoever disconnects has reset the flag, so there is a cause for the last *)
(* connection to end: the one of its own thread, or else it is torn down.  *)
LEMMA SafetyInvFail ==
    ASSUME NEW t \in Threads, SafetyInv, Fail(t)
    PROVE  SafetyInv'
<1>1. TypeInv'
  BY TypeInvFail DEF SafetyInv
<1> USE ConnectorAssumption, ThreadsDiffer, <1>1
        DEF SafetyInv, TypeInv, TypeOK, NewUntilStarted, Connections, flags,
            fields, history, ClosedForCause, ThreadsHaveCause, ThreadCause,
            ConnectionsHaveCause, OneDisconnects, FlagAndState,
            NobodyDisconnects, Running, Disconnecting, Become, Ending
<1>2. CASE SocketOperationFailed(t)
  BY <1>2 DEF SocketOperationFailed, AfterFailure
<1>3. CASE InterruptSender(t)
  BY <1>3 DEF InterruptSender, Interrupted, Ended
<1>4. CASE InterruptReceiver(t)
  BY <1>4 DEF InterruptReceiver, Interrupted, Ended
<1>5. CASE CloseChannel(t)
  BY <1>5 DEF CloseChannel
<1>6. CASE Clear(t)
  BY <1>6 DEF Clear
<1>7. CASE JoinSender(t)
  BY <1>7 DEF JoinSender, Join
<1>8. CASE JoinReceiver(t)
  BY <1>8 DEF JoinReceiver, Join
<1>9. CASE SetDisconnected(t)
  BY <1>9 DEF SetDisconnected
<1> QED
  BY <1>2, <1>3, <1>4, <1>5, <1>6, <1>7, <1>8, <1>9 DEF Fail, Disconnect

(* A thread fails only if it was interrupted, its channel is of no use, or *)
(* it throws.                                                              *)
LEMMA SafetyInvThreads ==
    ASSUME NEW n \in Connections, SafetyInv, RunSender(n) \/ RunReceiver(n)
    PROVE  SafetyInv'
<1>1. TypeInv'
  BY TypeInvThreads DEF SafetyInv
<1> USE ConnectorAssumption, ThreadsDiffer, <1>1
        DEF SafetyInv, TypeInv, TypeOK, NewUntilStarted, Connections, flags,
            fields, history, ClosedForCause, ThreadsHaveCause, ThreadCause,
            ConnectionsHaveCause, OneDisconnects, FlagAndState,
            NobodyDisconnects, Running, Disconnecting, Become, Ending, Usable
<1>2. CASE Take(n)
  BY <1>2 DEF Take
<1>3. CASE TakeInterrupted(n)
  BY <1>3 DEF TakeInterrupted
<1>4. CASE Write(n)
  BY <1>4 DEF Write
<1>5. CASE WriteFails(n)
  BY <1>5 DEF WriteFails
<1>6. CASE ReadFails(n)
  BY <1>6 DEF ReadFails, ReadEnds
<1>7. CASE ReadThrows(n)
  BY <1>7 DEF ReadThrows
<1>8. CASE Fail(S(n)) \/ Fail(R(n))
  BY <1>8, SafetyInvFail
<1> QED
  BY <1>2, <1>3, <1>4, <1>5, <1>6, <1>7, <1>8 DEF RunSender, RunReceiver

LEMMA SafetyInvNext == SafetyInv /\ [Next]_vars => SafetyInv'
<1> SUFFICES ASSUME SafetyInv, [Next]_vars PROVE SafetyInv'
  OBVIOUS
<1>1. TypeInv'
  BY TypeInvNext DEF SafetyInv
<1>2. CASE \E n \in Connections : RunSender(n) \/ RunReceiver(n)
  BY <1>2, SafetyInvThreads
<1>3. CASE Connect
  BY <1>3, SafetyInvConnect
<1> USE <1>1
        DEF SafetyInv, TypeInv, ClosedForCause, ThreadsHaveCause, ThreadCause,
            ConnectionsHaveCause, OneDisconnects, FlagAndState,
            NobodyDisconnects, Running, threadVars, fields, flags, history,
            Ending
<1>4. CASE \E n \in Connections : Break(n)
  BY <1>4 DEF Break
<1>5. CASE \E m \in Messages : IsConnected(m) \/ SendMessage(m)
  BY <1>5 DEF IsConnected, SendMessage
<1>6. CASE UNCHANGED vars
  BY <1>6 DEF vars
<1> QED
  BY <1>2, <1>3, <1>4, <1>5, <1>6 DEF Next

(* For any number of connections and however long their threads outlive    *)
(* them: the program closes a channel only if there is a cause for that    *)
(* connection to end.                                                      *)
THEOREM ConnectorSafe == Spec => []ClosedForCause
<1>1. SafetyInv => ClosedForCause
  BY DEF SafetyInv
<1> QED
  BY <1>1, SafetyInvInit, SafetyInvNext, PTL DEF Spec

(* A connector that waits in CONNECTED with its flag reset has a thread on *)
(* the way through disconnect() to wake it, unless a thread of an older    *)
(* connection has torn down its own.                                       *)
THEOREM ConnectorIsWoken == Spec => []SomebodyDisconnects
<1>1. SafetyInv => SomebodyDisconnects
  BY DEF SafetyInv, FlagAndState, SomebodyDisconnects
<1> QED
  BY <1>1, SafetyInvInit, SafetyInvNext, PTL DEF Spec
=============================================================================
