----------------------- MODULE AndroidConnectionProofs -----------------------
(***************************************************************************)
(* Proofs about AndroidConnection, for any set of messages and priorities, *)
(* whether or not the processor is prompt.                                 *)
(***************************************************************************)
EXTENDS AndroidConnection, WellFoundedInduction, TLAPS

(* Writing has a wake-up throughout.  When handle_output is about to       *)
(* cancel it, whatever is in the queue was put there by a processor that   *)
(* has yet to ask for the wake-up, and cannot before the reactor's lock is *)
(* free; this is what makes WritesAreAwaited inductive.                    *)
WriteInv ==
    /\ WritesAreAwaited
    /\ reactor = "write" => wakeup
    /\ reactor = "cancel" => /\ dataToSend = None
                             /\ sendQueue # << >> => processor = "wake"

(* Nothing has been queued before the connection is used. *)
LEMMA InitWriteInv == Init => WriteInv
  BY DEF Init, WriteInv, WritesAreAwaited

(* Every dispatch of the reactor keeps the invariant. *)
LEMMA DispatchWriteInv ==
    ASSUME WriteInv, Dispatch
    PROVE  WriteInv'
<1> USE DEF WriteInv, WritesAreAwaited
<1>1. CASE SignalNewMessageAvailable
  <2>1. processor = "wake" => processor' = "wake"
    BY <1>1 DEF SignalNewMessageAvailable, Signal
  <2> QED
    BY <1>1, <2>1 DEF SignalNewMessageAvailable, queues, output, closing
<1>2. CASE Stamp
  BY <1>2 DEF Stamp, queues, output, closing
<1>3. CASE CheckTimeout
  BY <1>3 DEF CheckTimeout, queues, output, closing
<1>4. CASE ScheduleDeferredClose
  BY <1>4 DEF ScheduleDeferredClose, queues, output
<1>5. CASE HandleOutput
  BY <1>5 DEF HandleOutput, queues, output, closing
<1>6. CASE GetNextMessageToSend
  BY <1>6 DEF GetNextMessageToSend, closing
<1>7. CASE CancelWakeup
  BY <1>7 DEF CancelWakeup, queues, closing
<1>8. CASE DeferredClose
  BY <1>8 DEF DeferredClose, OnDisconnect, queues, output
<1>9. CASE SignalClose
  <2>1. processor = "wake" => processor' = "wake"
    BY <1>9 DEF SignalClose, Signal
  <2> QED
    BY <1>9, <2>1 DEF SignalClose, queues, output, closing
<1>10. CASE Destroy
  BY <1>10 DEF Destroy, closing
<1>11. CASE LateClose
  BY <1>11 DEF LateClose, queues, output
<1> QED
  BY <1>1, <1>2, <1>3, <1>4, <1>5, <1>6, <1>7, <1>8, <1>9, <1>10, <1>11
  DEF Dispatch

(* So does every step of the processor, whose wake-up needs the lock. *)
LEMMA ProcessWriteInv ==
    ASSUME WriteInv, Process
    PROVE  WriteInv'
<1> USE DEF WriteInv, WritesAreAwaited
<1>1. CASE TestClosed
  BY <1>1 DEF TestClosed, queues, output, closing
<1>2. CASE GetNextReceivedMessage
  BY <1>2 DEF GetNextReceivedMessage, output, closing
<1>3. CASE Answer
  BY <1>3 DEF Answer, output, closing
<1>4. CASE ScheduleWakeup
  BY <1>4 DEF ScheduleWakeup, LockIsFree, queues, closing
<1>5. CASE ProcessorSchedulesClose
  BY <1>5 DEF ProcessorSchedulesClose, queues, output
<1>6. CASE TestClosedAgain
  BY <1>6 DEF TestClosedAgain, queues, output, closing
<1>7. CASE WaitForMessage
  BY <1>7 DEF WaitForMessage, queues, output, closing
<1> QED
  BY <1>1, <1>2, <1>3, <1>4, <1>5, <1>6, <1>7 DEF Process

(* And so does everything else. *)
LEMMA NextWriteInv ==
    ASSUME WriteInv, [Next]_vars
    PROVE  WriteInv'
<1> USE DEF WriteInv, WritesAreAwaited
<1>1. CASE SendAll
  BY <1>1 DEF SendAll, queues, closing
<1>2. CASE WouldBlock
  BY <1>2 DEF WouldBlock, queues, closing
<1>3. CASE ConnectionLost
  BY <1>3 DEF ConnectionLost, OnDisconnect, queues, output
<1>4. ASSUME NEW m \in Requests, Receive(m)
      PROVE  WriteInv'
  BY <1>4 DEF Receive, output, closing
<1>5. ASSUME NEW d \in Pushes, OnPushDataReceived(d)
      PROVE  WriteInv'
  BY <1>5 DEF OnPushDataReceived, closing
<1>6. CASE FallSilent
  BY <1>6 DEF FallSilent, queues, output, closing
<1>7. CASE UNCHANGED vars
  BY <1>7 DEF vars, queues, output, closing
<1> QED
  BY <1>1, <1>2, <1>3, <1>4, <1>5, <1>6, <1>7, DispatchWriteInv,
     ProcessWriteInv DEF Next

(* handle_output and sendMessage of the network library, on two threads,   *)
(* never leave a message without a write wake-up.                          *)
THEOREM WritesAlwaysAwaited == Spec => []WritesAreAwaited
<1>1. WriteInv => WritesAreAwaited
  BY DEF WriteInv
<1> QED
  BY <1>1, InitWriteInv, NextWriteInv, PTL DEF Spec
-----------------------------------------------------------------------------
(* The queues. *)

(* A set of natural numbers has a least one. *)
LEMMA LeastNumber ==
    ASSUME NEW T \in SUBSET Nat, T # {}
    PROVE  \E x \in T : \A y \in T : x <= y
<1> DEFINE R == OpToRel(<, Nat)
<1>1. IsWellFoundedOn(R, Nat)
  BY NatLessThanWellFounded
<1>2. \A x, y \in Nat : y < x => <<y, x>> \in R
  BY DEF OpToRel
<1> HIDE DEF R
<1>3. PICK x \in T : \A y \in T : ~(<<y, x>> \in R)
  BY <1>1, WFMin
<1>4. ASSUME NEW y \in T
      PROVE  x <= y
  <2>1. ~(y < x)
    BY <1>2, <1>3, Zenon
  <2> QED
    BY <2>1
<1> QED
  BY <1>4

Messages == Requests \cup Pushes

LEMMA PriorityIsInt ==
    \A m \in Messages : Priority[m] \in Int /\ Priority[m] <= 127
<1>1. Priority \in [Messages -> -128..127]
  BY ConnectionAssumption DEF Messages
<1>2. \A x \in -128..127 : x \in Int /\ x <= 127
  OBVIOUS
<1>3. \A m \in Messages : Priority[m] \in -128..127
  BY ONLY <1>1
<1> QED
  BY <1>2, <1>3

(* The message that the queue gives out next. *)
Comes(q, i) ==
    \A j \in DOMAIN q : \/ Priority[q[j]] < Priority[q[i]]
                        \/ Priority[q[j]] = Priority[q[i]] /\ i <= j

(* The comparison of the queue singles out a message whenever there is one. *)
LEMMA NextExists ==
    ASSUME NEW q \in Seq(Messages), q # << >>
    PROVE  NextOf(q) \in DOMAIN q /\ Comes(q, NextOf(q))
<1> DEFINE rank(i) == 127 - Priority[q[i]]
           ranks == {rank(i) : i \in DOMAIN q}
<1>1. /\ DOMAIN q \in SUBSET Nat /\ DOMAIN q # {}
      /\ \A i \in DOMAIN q : q[i] \in Messages
  <2>1. Len(q) \in Nat /\ Len(q) # 0 /\ DOMAIN q = 1 .. Len(q)
    OBVIOUS
  <2>2. 1 \in DOMAIN q /\ \A i \in DOMAIN q : q[i] \in Messages
    BY <2>1
  <2> QED
    BY <2>1, <2>2
<1>2. \A i \in DOMAIN q : Priority[q[i]] \in Int /\ rank(i) \in Nat
  BY <1>1, PriorityIsInt
<1>3. ranks \in SUBSET Nat /\ ranks # {}
  BY <1>1, <1>2
<1> HIDE DEF ranks
<1>4. PICK x \in ranks : \A y \in ranks : x <= y
  BY <1>3, LeastNumber
<1> DEFINE best == {i \in DOMAIN q : rank(i) = x}
<1>5. best \in SUBSET Nat /\ best # {}
  BY <1>1 DEF ranks
<1>6. PICK i \in best : \A j \in best : i <= j
  <2> HIDE DEF best
  <2> QED
    BY <1>5, LeastNumber
<1>7. ASSUME NEW j \in DOMAIN q
      PROVE  \/ Priority[q[j]] < Priority[q[i]]
             \/ Priority[q[j]] = Priority[q[i]] /\ i <= j
  <2>1. rank(j) \in ranks
    BY DEF ranks
  <2>2. rank(i) <= rank(j) /\ i \in DOMAIN q
    BY <1>4, <2>1
  <2>3. rank(j) = rank(i) => i <= j
    BY <1>6
  <2> QED
    BY <1>2, <2>2, <2>3
<1>8. i \in DOMAIN q /\ Comes(q, i)
  BY <1>7 DEF Comes
<1> QED
  BY <1>8 DEF NextOf, Comes

(* What is left of a queue is in it, in the same order. *)
LEMMA RestOfQueue ==
    ASSUME NEW S, NEW q \in Seq(S), NEW i \in DOMAIN q
    PROVE  /\ RemoveAt(q, i) \in Seq(S)
           /\ Len(RemoveAt(q, i)) = Len(q) - 1
           /\ \A j \in 1..Len(q) - 1 :
                RemoveAt(q, i)[j] = q[IF j < i THEN j ELSE j + 1]
<1>1. Len(q) \in Nat /\ i \in 1..Len(q)
  OBVIOUS
<1> DEFINE a == SubSeq(q, 1, i - 1)
           b == SubSeq(q, i + 1, Len(q))
<1>2. /\ a \in Seq(S) /\ Len(a) = i - 1
      /\ \A j \in 1..(i - 1) : a[j] = q[j]
  BY <1>1
<1>3. /\ b \in Seq(S) /\ Len(b) = Len(q) - i
      /\ \A j \in 1..(Len(q) - i) : b[j] = q[i + j]
  BY <1>1
<1> HIDE DEF a, b
<1>4. /\ a \o b \in Seq(S) /\ Len(a \o b) = Len(q) - 1
      /\ \A j \in 1..(Len(q) - 1) :
           (a \o b)[j] = IF j <= i - 1 THEN a[j] ELSE b[j - (i - 1)]
  BY SMTT(40), <1>1, <1>2, <1>3
<1>5. ASSUME NEW j \in 1..(Len(q) - 1)
      PROVE  (a \o b)[j] = q[IF j < i THEN j ELSE j + 1]
  <2>1. CASE j < i
    BY <1>1, <1>2, <1>4, <2>1
  <2>2. CASE ~(j < i)
    <3> DEFINE k == j - (i - 1)
    <3>1. k \in 1..(Len(q) - i) /\ i + k = j + 1 /\ ~(j <= i - 1)
      BY <1>1, <2>2
    <3>2. (a \o b)[j] = b[k]
      BY <1>4, <3>1
    <3> HIDE DEF k
    <3>3. b[k] = q[i + k]
      BY <1>3, <3>1
    <3> QED
      BY <2>2, <3>1, <3>2, <3>3
  <2> QED
    BY <2>1, <2>2
<1> QED
  BY <1>4, <1>5 DEF RemoveAt, a, b
-----------------------------------------------------------------------------
(* Types. *)

LEMMA TypeInit == Init => TypeOK
<1> SUFFICES ASSUME Init
             PROVE  TypeOK
  OBVIOUS
<1>1. /\ closed = FALSE /\ wakeup = FALSE /\ silent = FALSE /\ closeScheduled = FALSE
      /\ receiveQueue \in Seq(Requests) /\ sendQueue \in Seq(Answered \cup Pushes)
      /\ reactor = "select" /\ processor = "test" /\ handling = None
      /\ dataToSend = None /\ deferred = 0
  BY DEF Init
<1> QED
  BY <1>1 DEF TypeOK

LEMMA NextIsTaken ==
    ASSUME NEW S \in SUBSET Messages, NEW q \in Seq(S), q # << >>
    PROVE  q[NextOf(q)] \in S /\ RemoveAt(q, NextOf(q)) \in Seq(S)
<1>1. q \in Seq(Messages)
  OBVIOUS
<1>2. NextOf(q) \in DOMAIN q
  BY <1>1, NextExists
<1> QED
  BY <1>2, RestOfQueue

LEMMA AreMessages ==
    /\ Requests \in SUBSET Messages
    /\ Answered \cup Pushes \in SUBSET Messages
    /\ None \notin Messages /\ Answered \subseteq Requests
  BY ConnectionAssumption DEF Messages

LEMMA DispatchTypes ==
    ASSUME TypeOK, Dispatch
    PROVE  TypeOK'
<1> USE DEF TypeOK
<1>1. CASE SignalNewMessageAvailable
  BY <1>1 DEF SignalNewMessageAvailable, Signal, queues, output, closing, device
<1>2. CASE Stamp
  BY <1>2 DEF Stamp, queues, output, closing
<1>3. CASE CheckTimeout
  BY <1>3 DEF CheckTimeout, queues, output, closing, device
<1>4. CASE ScheduleDeferredClose
  BY <1>4 DEF ScheduleDeferredClose, PostClose, queues, output, device
<1>5. CASE HandleOutput
  BY <1>5 DEF HandleOutput, queues, output, closing, device
<1>6. CASE GetNextMessageToSend
  <2>1. CASE sendQueue = << >>
    BY <1>6, <2>1 DEF GetNextMessageToSend, closing, device
  <2>2. CASE sendQueue # << >>
    <3>1. /\ sendQueue[NextOf(sendQueue)] \in Answered \cup Pushes
          /\ RemoveAt(sendQueue, NextOf(sendQueue)) \in Seq(Answered \cup Pushes)
      BY <2>2, NextIsTaken, AreMessages
    <3> QED
      BY <1>6, <2>2, <3>1 DEF GetNextMessageToSend, closing, device
  <2> QED
    BY <2>1, <2>2
<1>7. CASE CancelWakeup
  BY <1>7 DEF CancelWakeup, queues, closing, device
<1>8. CASE DeferredClose
  BY <1>8 DEF DeferredClose, OnDisconnect, queues, output, device
<1>9. CASE SignalClose
  BY <1>9 DEF SignalClose, Signal, queues, output, closing, device
<1>10. CASE Destroy
  <2>1. /\ reactor' = "gone" /\ processor' = "ended" /\ handling' = handling
        /\ processor = "ended" /\ dataToSend' = None /\ wakeup' = FALSE
        /\ receiveQueue' \in Seq(Requests)
        /\ sendQueue' \in Seq(Answered \cup Pushes)
    BY <1>10 DEF Destroy, Joined
  <2>2. /\ closed /\ closed' = closed /\ closeScheduled' = closeScheduled
        /\ deferred' = deferred /\ silent' = silent
    BY <1>10 DEF Destroy, closing, device
  <2> QED
    BY <2>1, <2>2
<1>11. CASE LateClose
  BY <1>11 DEF LateClose, queues, output, device
<1> QED
  BY <1>1, <1>2, <1>3, <1>4, <1>5, <1>6, <1>7, <1>8, <1>9, <1>10, <1>11
  DEF Dispatch

LEMMA ProcessTypes ==
    ASSUME TypeOK, Process
    PROVE  TypeOK'
<1> USE DEF TypeOK
<1>1. CASE TestClosed
  BY <1>1 DEF TestClosed, queues, output, closing, device
<1>2. CASE GetNextReceivedMessage
  <2>1. CASE receiveQueue = << >>
    BY <1>2, <2>1 DEF GetNextReceivedMessage, output, closing, device
  <2>2. CASE receiveQueue # << >>
    <3>1. RemoveAt(receiveQueue, NextOf(receiveQueue)) \in Seq(Requests)
      BY <2>2, NextIsTaken, AreMessages
    <3> QED
      BY <1>2, <2>2, <3>1, AreMessages DEF GetNextReceivedMessage, output, closing, device
  <2> QED
    BY <2>1, <2>2
<1>3. CASE Answer
  BY <1>3 DEF Answer, MayClose, output, closing, device
<1>4. CASE ScheduleWakeup
  BY <1>4 DEF ScheduleWakeup, queues, closing, device
<1>5. CASE ProcessorSchedulesClose
  BY <1>5 DEF ProcessorSchedulesClose, PostClose, queues, output, device
<1>6. CASE TestClosedAgain
  BY <1>6 DEF TestClosedAgain, queues, output, closing, device
<1>7. CASE WaitForMessage
  BY <1>7 DEF WaitForMessage, queues, output, closing, device
<1> QED
  BY <1>1, <1>2, <1>3, <1>4, <1>5, <1>6, <1>7 DEF Process

LEMMA NextTypes ==
    ASSUME TypeOK, [Next]_vars
    PROVE  TypeOK'
<1> USE DEF TypeOK
<1>1. CASE SendAll
  BY <1>1 DEF SendAll, queues, closing
<1>2. CASE WouldBlock
  BY <1>2 DEF WouldBlock, queues, closing, device
<1>3. CASE ConnectionLost
  BY <1>3 DEF ConnectionLost, OnDisconnect, queues, output, device
<1>4. CASE FallSilent
  BY <1>4 DEF FallSilent, queues, output, closing
<1>5. ASSUME NEW m \in Requests, Receive(m)
      PROVE  TypeOK'
  BY <1>5 DEF Receive, output, closing
<1>6. ASSUME NEW d \in Pushes, OnPushDataReceived(d)
      PROVE  TypeOK'
  BY <1>6 DEF OnPushDataReceived, closing, device
<1>7. CASE UNCHANGED vars
  BY <1>7 DEF vars, queues, output, closing, device
<1> QED
  BY <1>1, <1>2, <1>3, <1>4, <1>5, <1>6, <1>7, DispatchTypes, ProcessTypes
  DEF Next

(* Threads and queues keep their types: the processor holds a request      *)
(* exactly while it answers it, it ends only once it has been told to, and *)
(* the handler is deleted only once it has ended.                          *)
THEOREM DeviceTypeCorrect == Spec => []TypeOK
  BY TypeInit, NextTypes, PTL DEF Spec
-----------------------------------------------------------------------------
(***************************************************************************)
(* Order.  A request goes through the receive queue, the processor's       *)
(* hands, the send queue and the reactor's hands to the device.  Of two    *)
(* that are answered and have one priority the one that was received first *)
(* is never behind the other.                                              *)
(***************************************************************************)
Before(r, a, b) == \E i, j \in DOMAIN r : i < j /\ r[i] = a /\ r[j] = b

Follow(r, a, b) ==
    {a, b} \subseteq Answered /\ Priority[a] = Priority[b] => Before(r, a, b)

InLine(r, q) == \A i, j \in DOMAIN q : i < j => Follow(r, q[i], q[j])

Ahead(r, A, B) == \A a \in A, b \in B : Follow(r, a, b)

(* The device, the reactor, the send queue, the processor, and the receive *)
(* queue have these messages.                                              *)
Stages(r, D, X, S, H, Q) ==
    /\ Ahead(r, D, X \cup S \cup H \cup Q)
    /\ Ahead(r, X, S \cup H \cup Q)
    /\ Ahead(r, S, H \cup Q)
    /\ Ahead(r, H, Q)
    /\ (D \cup X \cup S \cup H \cup Q) \cap Answered \subseteq ToSet(r)

OrderInv ==
    /\ received \in Seq(Requests) /\ delivered \in Seq(Messages)
    /\ \A i, j \in DOMAIN received : received[i] = received[j] => i = j
    /\ InLine(received, delivered)
    /\ InLine(received, sendQueue)
    /\ InLine(received, receiveQueue)
    /\ Stages(received, ToSet(delivered), {dataToSend}, ToSet(sendQueue),
              {handling}, ToSet(receiveQueue))

LEMMA AppendedSet ==
    ASSUME NEW S, NEW q \in Seq(S), NEW m \in S
    PROVE  /\ Append(q, m) \in Seq(S)
           /\ ToSet(Append(q, m)) = ToSet(q) \cup {m}
<1>1. /\ Append(q, m) \in Seq(S) /\ Len(q) \in Nat
      /\ DOMAIN q = 1..Len(q) /\ DOMAIN Append(q, m) = 1..(Len(q) + 1)
      /\ Append(q, m)[Len(q) + 1] = m
      /\ \A i \in DOMAIN q : Append(q, m)[i] = q[i]
  OBVIOUS
<1>2. ASSUME NEW x \in ToSet(Append(q, m))
      PROVE  x \in ToSet(q) \cup {m}
  BY <1>1 DEF ToSet
<1>3. ASSUME NEW x \in ToSet(q) \cup {m}
      PROVE  x \in ToSet(Append(q, m))
  <2>1. Len(q) + 1 \in DOMAIN Append(q, m) /\ \A i \in DOMAIN q : i \in DOMAIN Append(q, m)
    BY <1>1
  <2> QED
    BY <1>1, <2>1 DEF ToSet
<1> QED
  BY <1>1, <1>2, <1>3

(* One more at the end, that may not be overtaken by what is there. *)
LEMMA AppendedInLine ==
    ASSUME NEW S, NEW q \in Seq(S), NEW m \in S, NEW r,
           InLine(r, q), Ahead(r, ToSet(q), {m})
    PROVE  InLine(r, Append(q, m))
<1>1. /\ Len(q) \in Nat /\ DOMAIN q = 1..Len(q)
      /\ DOMAIN Append(q, m) = 1..(Len(q) + 1)
      /\ Append(q, m)[Len(q) + 1] = m
      /\ \A i \in DOMAIN q : Append(q, m)[i] = q[i]
  OBVIOUS
<1>2. ASSUME NEW i \in DOMAIN Append(q, m), NEW j \in DOMAIN Append(q, m), i < j
      PROVE  Follow(r, Append(q, m)[i], Append(q, m)[j])
  <2>1. i \in DOMAIN q /\ (j \in DOMAIN q \/ j = Len(q) + 1)
    BY <1>1, <1>2
  <2>2. CASE j \in DOMAIN q
    BY <1>1, <1>2, <2>1, <2>2 DEF InLine
  <2>3. CASE j = Len(q) + 1
    <3>1. q[i] \in ToSet(q)
      BY <2>1 DEF ToSet
    <3> QED
      BY <1>1, <2>1, <2>3, <3>1 DEF Ahead
  <2> QED
    BY <2>1, <2>2, <2>3
<1> QED
  BY <1>2 DEF InLine

(* The queue gives out the first of its priority. *)
LEMMA TakenInLine ==
    ASSUME NEW S \in SUBSET Messages, NEW q \in Seq(S), q # << >>, NEW r,
           InLine(r, q)
    PROVE  LET i == NextOf(q) IN
           /\ q[i] \in ToSet(q)
           /\ ToSet(RemoveAt(q, i)) \subseteq ToSet(q)
           /\ InLine(r, RemoveAt(q, i))
           /\ Ahead(r, {q[i]}, ToSet(RemoveAt(q, i)))
<1> DEFINE i == NextOf(q)
           p == RemoveAt(q, i)
           at(j) == IF j < i THEN j ELSE j + 1
<1>1. i \in DOMAIN q /\ Comes(q, i)
  <2>1. q \in Seq(Messages)
    OBVIOUS
  <2> QED
    BY <2>1, NextExists
<1> HIDE DEF i
<1>2. /\ p \in Seq(S) /\ Len(p) = Len(q) - 1
      /\ \A j \in 1..Len(q) - 1 : p[j] = q[at(j)]
  BY <1>1, RestOfQueue
<1>3. /\ Len(q) \in Nat /\ DOMAIN q = 1..Len(q) /\ i \in 1..Len(q)
      /\ DOMAIN p = 1..Len(q) - 1
  BY <1>1, <1>2
<1> HIDE DEF p
<1>4. ASSUME NEW j \in DOMAIN p
      PROVE  /\ at(j) \in DOMAIN q /\ p[j] = q[at(j)] /\ at(j) # i
             /\ \A k \in DOMAIN p : j < k => at(j) < at(k)
  BY <1>2, <1>3
<1> HIDE DEF at
<1>5. q[i] \in ToSet(q)
  BY <1>1 DEF ToSet
<1>6. ToSet(p) \subseteq ToSet(q)
  BY <1>4 DEF ToSet
<1>7. InLine(r, p)
  BY <1>4 DEF InLine
<1>8. ASSUME NEW b \in ToSet(p)
      PROVE  Follow(r, q[i], b)
  <2>1. PICK j \in DOMAIN p : b = p[j]
    BY DEF ToSet
  <2>2. /\ at(j) \in DOMAIN q /\ b = q[at(j)] /\ at(j) # i
    BY <1>4, <2>1
  <2>3. Priority[b] < Priority[q[i]] \/ (Priority[b] = Priority[q[i]] /\ i <= at(j))
    BY <1>1, <2>2 DEF Comes
  <2>4. ASSUME Priority[q[i]] = Priority[b], q[i] \in Answered
        PROVE  i < at(j)
    <3>1. Priority[q[i]] \in Int
      BY <2>4, PriorityIsInt, AreMessages
    <3> QED
      BY <1>3, <2>2, <2>3, <2>4, <3>1
  <2> QED
    BY <1>1, <2>2, <2>4 DEF InLine, Follow
<1> QED
  BY <1>5, <1>6, <1>7, <1>8 DEF Ahead, p, i

LEMMA BeforeLasts ==
    ASSUME NEW r \in Seq(Requests), NEW m \in Requests, NEW a, NEW b,
           Follow(r, a, b)
    PROVE  Follow(Append(r, m), a, b)
<1>1. \A i \in DOMAIN r : i \in DOMAIN Append(r, m) /\ Append(r, m)[i] = r[i]
  OBVIOUS
<1> QED
  BY <1>1 DEF Follow, Before

(* Everything was received before what is received next. *)
LEMMA NewIsLast ==
    ASSUME NEW r \in Seq(Requests), NEW m \in Requests, NEW A,
           A \cap Answered \subseteq ToSet(r)
    PROVE  Ahead(Append(r, m), A, {m})
<1>1. /\ Len(r) \in Nat /\ DOMAIN r = 1..Len(r)
      /\ Len(r) + 1 \in DOMAIN Append(r, m) /\ Append(r, m)[Len(r) + 1] = m
      /\ \A i \in DOMAIN r : i \in DOMAIN Append(r, m) /\ Append(r, m)[i] = r[i]
  OBVIOUS
<1>2. ASSUME NEW a \in A, a \in Answered
      PROVE  Before(Append(r, m), a, m)
  <2>1. PICK i \in DOMAIN r : r[i] = a
    BY <1>2 DEF ToSet
  <2>2. i < Len(r) + 1
    BY <1>1
  <2> QED
    BY <1>1, <2>1, <2>2 DEF Before
<1> QED
  BY <1>2 DEF Ahead, Follow

LEMMA OrderInit == Init => OrderInv
<1> SUFFICES ASSUME Init
             PROVE  OrderInv
  OBVIOUS
<1>1. /\ received = << >> /\ delivered = << >> /\ sendQueue = << >>
      /\ receiveQueue = << >> /\ dataToSend = None /\ handling = None
  BY DEF Init
<1>2. ToSet(<< >>) = {} /\ DOMAIN << >> = {}
  BY DEF ToSet
<1>3. \A r : InLine(r, << >>)
  BY <1>2 DEF InLine
<1>4. None \notin Answered
  BY AreMessages
<1>5. Stages(<< >>, {}, {None}, {}, {None}, {})
  BY <1>4 DEF Stages, Ahead, Follow
<1>6. << >> \in Seq(Requests) /\ << >> \in Seq(Messages)
  OBVIOUS
<1>7. \A i, j \in DOMAIN received : received[i] = received[j] => i = j
  BY <1>1, <1>2
<1>8. Stages(received, ToSet(delivered), {dataToSend}, ToSet(sendQueue),
             {handling}, ToSet(receiveQueue))
  BY <1>1, <1>2, <1>5
<1> HIDE DEF Stages
<1> QED
  BY <1>1, <1>3, <1>6, <1>7, <1>8 DEF OrderInv

(* Receive: a new request is behind all others. *)
LEMMA ReceiveKeepsOrder ==
    ASSUME TypeOK, OrderInv, NEW m \in Requests, Receive(m)
    PROVE  OrderInv'
<1> DEFINE r == Append(received, m)
<1>1. /\ received' = r /\ receiveQueue' = Append(receiveQueue, m)
      /\ m \notin ToSet(received)
      /\ UNCHANGED <<handling, sendQueue, dataToSend, delivered>>
  BY DEF Receive, output
<1>2. /\ received \in Seq(Requests) /\ r \in Seq(Requests)
      /\ ToSet(r) = ToSet(received) \cup {m}
  BY AppendedSet DEF OrderInv
<1>3. \A i, j \in DOMAIN r : r[i] = r[j] => i = j
  <2>1. /\ Len(received) \in Nat /\ DOMAIN received = 1..Len(received)
        /\ DOMAIN r = 1..(Len(received) + 1) /\ r[Len(received) + 1] = m
        /\ \A i \in DOMAIN received : r[i] = received[i]
    BY <1>2
  <2>2. \A i \in DOMAIN received : received[i] # m
    BY <1>1 DEF ToSet
  <2> HIDE DEF r
  <2> QED
    BY <2>1, <2>2 DEF OrderInv
<1>4. \A a, b : Follow(received, a, b) => Follow(r, a, b)
  BY <1>2, BeforeLasts
<1>5. InLine(r, delivered) /\ InLine(r, sendQueue) /\ InLine(r, receiveQueue)
  BY <1>4 DEF OrderInv, InLine
<1> DEFINE all == ToSet(delivered) \cup {dataToSend} \cup ToSet(sendQueue)
                    \cup {handling} \cup ToSet(receiveQueue)
<1>6. Ahead(r, all, {m})
  <2>1. all \cap Answered \subseteq ToSet(received)
    BY DEF OrderInv, Stages
  <2> HIDE DEF all
  <2> QED
    BY <1>2, <2>1, NewIsLast
<1>7. Ahead(r, ToSet(receiveQueue), {m})
  BY <1>6 DEF Ahead
<1>8. receiveQueue \in Seq(Requests)
  BY DEF TypeOK
<1>9. InLine(r, Append(receiveQueue, m))
  BY <1>5, <1>7, <1>8, AppendedInLine
<1>10. ToSet(Append(receiveQueue, m)) = ToSet(receiveQueue) \cup {m}
  BY <1>8, AppendedSet
<1>11. Stages(r, ToSet(delivered), {dataToSend}, ToSet(sendQueue), {handling},
              ToSet(receiveQueue) \cup {m})
  <2>1. Stages(received, ToSet(delivered), {dataToSend}, ToSet(sendQueue),
               {handling}, ToSet(receiveQueue))
    BY DEF OrderInv
  <2> HIDE DEF r
  <2> QED
    BY <1>2, <1>4, <1>6, <2>1 DEF Stages, Ahead
<1> QED
  BY <1>1, <1>2, <1>3, <1>5, <1>9, <1>10, <1>11 DEF OrderInv

(* A message that is not an answer may stand anywhere. *)
LEMMA PushKeepsOrder ==
    ASSUME TypeOK, OrderInv, NEW d \in Pushes, OnPushDataReceived(d)
    PROVE  OrderInv'
<1>1. /\ sendQueue' = Append(sendQueue, d)
      /\ UNCHANGED <<received, receiveQueue, handling, dataToSend, delivered>>
  BY DEF OnPushDataReceived, device
<1>2. d \notin Answered /\ sendQueue \in Seq(Answered \cup Pushes)
  BY ConnectionAssumption DEF TypeOK
<1>3. Ahead(received, ToSet(sendQueue), {d})
  BY <1>2 DEF Ahead, Follow
<1>4. InLine(received, Append(sendQueue, d))
  BY <1>2, <1>3, AppendedInLine DEF OrderInv
<1>5. ToSet(Append(sendQueue, d)) = ToSet(sendQueue) \cup {d}
  BY <1>2, AppendedSet
<1>6. Stages(received, ToSet(delivered), {dataToSend}, ToSet(sendQueue) \cup {d},
             {handling}, ToSet(receiveQueue))
  <2>1. Stages(received, ToSet(delivered), {dataToSend}, ToSet(sendQueue),
               {handling}, ToSet(receiveQueue))
    BY DEF OrderInv
  <2>2. \A x : Follow(received, x, d) /\ Follow(received, d, x)
    BY <1>2 DEF Follow
  <2> QED
    BY <1>2, <2>1, <2>2 DEF Stages, Ahead
<1> QED
  BY <1>1, <1>4, <1>5, <1>6 DEF OrderInv

(* The reactor takes a message to write: those of its priority that it     *)
(* leaves in the queue are behind it.                                      *)
LEMMA NextToSendKeepsOrder ==
    ASSUME TypeOK, OrderInv, GetNextMessageToSend
    PROVE  OrderInv'
<1>1. CASE sendQueue = << >>
  BY <1>1 DEF GetNextMessageToSend, OrderInv, device
<1>2. CASE sendQueue # << >>
  <2> DEFINE m == sendQueue[NextOf(sendQueue)]
             rest == RemoveAt(sendQueue, NextOf(sendQueue))
  <2>1. /\ dataToSend' = m /\ sendQueue' = rest
        /\ UNCHANGED <<received, delivered, handling, receiveQueue>>
    BY <1>2 DEF GetNextMessageToSend, device
  <2>2. /\ m \in ToSet(sendQueue) /\ ToSet(rest) \subseteq ToSet(sendQueue)
        /\ InLine(received, rest) /\ Ahead(received, {m}, ToSet(rest))
    BY <1>2, AreMessages, TakenInLine DEF TypeOK, OrderInv
  <2> HIDE DEF m, rest
  <2>3. Stages(received, ToSet(delivered), {m}, ToSet(rest), {handling},
               ToSet(receiveQueue))
    <3>1. Stages(received, ToSet(delivered), {dataToSend}, ToSet(sendQueue),
                 {handling}, ToSet(receiveQueue))
      BY DEF OrderInv
    <3> QED
      BY <2>2, <3>1 DEF Stages, Ahead
  <2> QED
    BY <2>1, <2>2, <2>3 DEF OrderInv
<1> QED
  BY <1>1, <1>2

(* The device has what was being written. *)
LEMMA SendAllKeepsOrder ==
    ASSUME TypeOK, OrderInv, SendAll
    PROVE  OrderInv'
<1>1. /\ delivered' = Append(delivered, dataToSend) /\ dataToSend' = None
      /\ UNCHANGED <<received, sendQueue, handling, receiveQueue>>
  BY DEF SendAll, queues
<1>2. delivered \in Seq(Messages) /\ dataToSend \in Messages
  BY AreMessages DEF SendAll, TypeOK, OrderInv
<1>3. Stages(received, ToSet(delivered), {dataToSend}, ToSet(sendQueue),
             {handling}, ToSet(receiveQueue))
  BY DEF OrderInv
<1>4. Ahead(received, ToSet(delivered), {dataToSend})
  BY <1>3 DEF Stages, Ahead
<1>5. /\ InLine(received, delivered')
      /\ delivered' \in Seq(Messages)
      /\ ToSet(delivered') = ToSet(delivered) \cup {dataToSend}
  BY <1>1, <1>2, <1>4, AppendedInLine, AppendedSet DEF OrderInv
<1>6. Stages(received, ToSet(delivered'), {None}, ToSet(sendQueue), {handling},
             ToSet(receiveQueue))
  <2>1. \A x : Follow(received, x, None) /\ Follow(received, None, x)
    BY AreMessages DEF Follow
  <2> QED
    BY <1>3, <1>5, <2>1, AreMessages DEF Stages, Ahead
<1> QED
  BY <1>1, <1>5, <1>6 DEF OrderInv

(* The processor takes a request. *)
LEMMA NextReceivedKeepsOrder ==
    ASSUME TypeOK, OrderInv, GetNextReceivedMessage
    PROVE  OrderInv'
<1>1. CASE receiveQueue = << >>
  BY <1>1 DEF GetNextReceivedMessage, OrderInv, output, device
<1>2. CASE receiveQueue # << >>
  <2> DEFINE m == receiveQueue[NextOf(receiveQueue)]
             rest == RemoveAt(receiveQueue, NextOf(receiveQueue))
  <2>1. /\ receiveQueue' = rest
        /\ handling' \in {m, handling}
        /\ UNCHANGED <<received, delivered, dataToSend, sendQueue>>
    BY <1>2 DEF GetNextReceivedMessage, output, device
  <2>2. /\ m \in ToSet(receiveQueue) /\ ToSet(rest) \subseteq ToSet(receiveQueue)
        /\ InLine(received, rest) /\ Ahead(received, {m}, ToSet(rest))
    BY <1>2, AreMessages, TakenInLine DEF TypeOK, OrderInv
  <2> HIDE DEF m, rest
  <2>3. Stages(received, ToSet(delivered), {dataToSend}, ToSet(sendQueue),
               {handling'}, ToSet(rest))
    <3>1. Stages(received, ToSet(delivered), {dataToSend}, ToSet(sendQueue),
                 {handling}, ToSet(receiveQueue))
      BY DEF OrderInv
    <3>2. CASE handling' = m
      BY <2>2, <3>1, <3>2 DEF Stages, Ahead
    <3>3. CASE handling' = handling
      BY <2>2, <3>1, <3>3 DEF Stages, Ahead
    <3> QED
      BY <2>1, <3>2, <3>3
  <2> QED
    BY <2>1, <2>2, <2>3 DEF OrderInv
<1> QED
  BY <1>1, <1>2

(* The processor queues its answer, or drops it. *)
LEMMA AnswerKeepsOrder ==
    ASSUME TypeOK, OrderInv, Answer
    PROVE  OrderInv'
<1>1. /\ handling \in Answered /\ sendQueue \in Seq(Answered \cup Pushes)
      /\ handling' = None
      /\ UNCHANGED <<received, delivered, dataToSend, receiveQueue>>
      /\ sendQueue' \in {sendQueue, Append(sendQueue, handling)}
  BY DEF Answer, TypeOK, output, device
<1>2. Stages(received, ToSet(delivered), {dataToSend}, ToSet(sendQueue),
             {handling}, ToSet(receiveQueue))
  BY DEF OrderInv
<1>3. Ahead(received, ToSet(sendQueue), {handling})
  BY <1>2 DEF Stages, Ahead
<1>4. InLine(received, sendQueue')
  BY <1>1, <1>3, AppendedInLine DEF OrderInv
<1>5. ToSet(sendQueue') \in {ToSet(sendQueue), ToSet(sendQueue) \cup {handling}}
  <2>1. ToSet(Append(sendQueue, handling)) = ToSet(sendQueue) \cup {handling}
    BY <1>1, AppendedSet
  <2> QED
    BY <1>1, <2>1, Zenon
<1>6. Stages(received, ToSet(delivered), {dataToSend}, ToSet(sendQueue'), {None},
             ToSet(receiveQueue))
  <2>1. \A x : Follow(received, x, None) /\ Follow(received, None, x)
    BY AreMessages DEF Follow
  <2> QED
    BY <1>2, <1>5, <2>1, AreMessages DEF Stages, Ahead
<1> QED
  BY <1>1, <1>4, <1>6 DEF OrderInv

(* What is deleted with the handler is in nobody's way. *)
LEMMA DestroyKeepsOrder ==
    ASSUME TypeOK, OrderInv, Destroy
    PROVE  OrderInv'
<1>1. /\ receiveQueue' = << >> /\ sendQueue' = << >> /\ dataToSend' = None
      /\ UNCHANGED <<received, delivered, handling>>
  BY DEF Destroy, device
<1>2. ToSet(<< >>) = {} /\ InLine(received, << >>)
  BY DEF ToSet, InLine
<1>3. Stages(received, ToSet(delivered), {None}, {}, {handling}, {})
  <2>1. Stages(received, ToSet(delivered), {dataToSend}, ToSet(sendQueue),
               {handling}, ToSet(receiveQueue))
    BY DEF OrderInv
  <2>2. \A x : Follow(received, x, None) /\ Follow(received, None, x)
    BY AreMessages DEF Follow
  <2> QED
    BY <2>1, <2>2, AreMessages DEF Stages, Ahead
<1> QED
  BY <1>1, <1>2, <1>3 DEF OrderInv

line == <<received, delivered, dataToSend, sendQueue, handling, receiveQueue>>

LEMMA OthersKeepOrder ==
    ASSUME OrderInv, UNCHANGED line
    PROVE  OrderInv'
  BY DEF OrderInv, line

LEMMA NextOrder ==
    ASSUME TypeOK, OrderInv, [Next]_vars
    PROVE  OrderInv'
<1>1. ASSUME Dispatch
      PROVE  GetNextMessageToSend \/ Destroy \/ UNCHANGED line
  BY <1>1 DEF Dispatch, SignalNewMessageAvailable, Stamp, CheckTimeout,
     ScheduleDeferredClose, HandleOutput, CancelWakeup, DeferredClose,
     OnDisconnect, SignalClose, LateClose, line, queues, output, device
<1>2. ASSUME Process
      PROVE  GetNextReceivedMessage \/ Answer \/ UNCHANGED line
  BY <1>2 DEF Process, TestClosed, ScheduleWakeup, ProcessorSchedulesClose,
     TestClosedAgain, WaitForMessage, line, queues, output, device
<1>3. ASSUME WouldBlock \/ ConnectionLost \/ FallSilent \/ UNCHANGED vars
      PROVE  UNCHANGED line
  BY <1>3 DEF WouldBlock, ConnectionLost, OnDisconnect, FallSilent, vars, line,
     queues, output, device
<1> QED
  BY <1>1, <1>2, <1>3, ReceiveKeepsOrder, PushKeepsOrder, NextToSendKeepsOrder,
     SendAllKeepsOrder, NextReceivedKeepsOrder, AnswerKeepsOrder,
     DestroyKeepsOrder, OthersKeepOrder DEF Next

(* The device is answered in the order of its requests, whatever becomes   *)
(* of those of other priorities, however the two threads take turns, and   *)
(* though answers may be dropped: none is answered twice.                  *)
THEOREM AnswersComeInOrder == Spec => []AnswersInOrder
<1>1. OrderInv => AnswersInOrder
  <2> SUFFICES ASSUME OrderInv, NEW i \in DOMAIN delivered, NEW j \in DOMAIN delivered,
                      i < j, {delivered[i], delivered[j]} \subseteq Answered,
                      Priority[delivered[i]] = Priority[delivered[j]]
               PROVE  Position(received, delivered[i]) < Position(received, delivered[j])
    BY DEF AnswersInOrder
  <2>1. Before(received, delivered[i], delivered[j])
    BY DEF OrderInv, InLine, Follow
  <2>2. PICK k \in DOMAIN received, l \in DOMAIN received :
          k < l /\ received[k] = delivered[i] /\ received[l] = delivered[j]
    BY <2>1 DEF Before
  <2>3. \A x \in DOMAIN received : Position(received, received[x]) = x
    BY DEF OrderInv, Position
  <2> QED
    BY <2>2, <2>3
<1> QED
  BY <1>1, TypeInit, NextTypes, OrderInit, NextOrder, PTL DEF Spec
=============================================================================
