-------------------------- MODULE AndroidConnection --------------------------
(***************************************************************************)
(* The connection of one device to the Android plugin.  The reactor's      *)
(* thread reads messages, writes answers and pushed data, looks at the     *)
(* clock and closes the connection; a thread of the connection's own, the  *)
(* message processor, handles what was read.  Two queues, a condition      *)
(* variable, the reactor's lock and a deferred close are between them.     *)
(*                                                                         *)
(* The reactor's thread holds the reactor's lock while it dispatches, and  *)
(* gives it up while it selects and, in onDisconnect, while it waits for   *)
(* the processor.  A state of a thread names the step it takes next.       *)
(***************************************************************************)
EXTENDS Integers, FiniteSetsExt, SequencesExt

CONSTANTS
    Requests,   \* what the device may send, once each
    Answered,   \* the heartbeats and the data to be acknowledged
    Pushes,     \* what the gateway core may push to the device, once each
    Priority,   \* of a message; an answer has that of its request
    None,
    PromptWaiter   \* the processor, having found the queue empty, is in
                   \* wait() before the reactor's next signal

ASSUME ConnectionAssumption ==
    /\ Answered \subseteq Requests
    /\ Requests \cap Pushes = {}
    /\ Priority \in [Requests \cup Pushes -> -128..127]
    /\ None \notin Requests \cup Pushes
    /\ PromptWaiter \in BOOLEAN

VARIABLES
    reactor,        \* the reactor's thread
    processor,      \* the message processor's thread
    handling,       \* the request the processor answers
    receiveQueue, sendQueue,
    closed,         \* the processor has been told to end
    dataToSend,     \* the message that is being written
    wakeup,         \* the reactor dispatches handle_output when writable
    closeScheduled,
    deferred,       \* CloseConnectionTasks in the reactor's queue
    silent,         \* latestMessageTime is too long ago
    received, delivered \* by the plugin and by the device, in this order

queues == <<receiveQueue, sendQueue>>
output == <<dataToSend, wakeup>>
closing == <<closed, closeScheduled, deferred>>
device == <<silent, received, delivered>>
vars == <<reactor, processor, handling, queues, output, closing, device>>

Init ==
    /\ reactor = "select" /\ processor = "test"
    /\ handling = None
    /\ receiveQueue = << >> /\ sendQueue = << >>
    /\ closed = FALSE
    /\ dataToSend = None
    /\ wakeup = FALSE
    /\ closeScheduled = FALSE /\ deferred = 0
    /\ silent = FALSE
    /\ received = << >> /\ delivered = << >>

(* Messages of one priority come out in any order. *)
FaultyNext(q) ==
    CHOOSE i \in DOMAIN q : \A j \in DOMAIN q :
        \/ Priority[q[j]] < Priority[q[i]]
        \/ Priority[q[j]] = Priority[q[i]] /\ i >= j

(* QueuedMessageComparison: the highest priority, and of those the first. *)
NextOf(q) ==
    CHOOSE i \in DOMAIN q : \A j \in DOMAIN q :
        \/ Priority[q[j]] < Priority[q[i]]
        \/ Priority[q[j]] = Priority[q[i]] /\ i <= j

(* The token does not keep other threads out during a dispatch, ... *)
FaultyLockIsFree == TRUE

(* ... or onDisconnect does not give it up. *)
KeptLockIsFree == reactor = "select"

(* Whether another thread can take the reactor's lock. *)
LockIsFree == reactor \in {"select", "wait"}
-----------------------------------------------------------------------------
(* The reactor's thread. *)

(* handle_input has a whole message, and addReceivedMessage queues it. *)
Receive(m) ==
    /\ reactor = "select"
    /\ m \notin ToSet(received)
    /\ received' = Append(received, m)
    /\ receiveQueue' = Append(receiveQueue, m)
    /\ reactor' = "signal"
    /\ UNCHANGED <<processor, handling, sendQueue, output, closing, silent,
                   delivered>>

(* The signal is left out. *)
FaultySignal == UNCHANGED processor

(* newMessageAvailable.signal(): lost unless the processor waits.  That a  *)
(* wait may also end without a signal is left out: it could only hide what *)
(* a lost one leads to.                                                    *)
Signal ==
    /\ PromptWaiter => processor \notin {"decide", "block"}
    /\ processor' = IF processor = "wait" THEN "test" ELSE processor

SignalNewMessageAvailable ==
    /\ reactor = "signal"
    /\ Signal
    /\ reactor' = "stamp"
    /\ UNCHANGED <<handling, queues, output, closing, device>>

(* Only then is latestMessageTime set. *)
Stamp ==
    /\ reactor = "stamp"
    /\ silent' = FALSE
    /\ reactor' = "select"
    /\ UNCHANGED <<processor, handling, queues, output, closing, received,
                   delivered>>

(* The core pushes d: send() puts it in the queue, with a wake-up, unless  *)
(* the device is silent.                                                   *)
OnPushDataReceived(d) ==
    /\ reactor = "select"
    /\ ~silent
    /\ d \notin ToSet(sendQueue) \cup ToSet(delivered) \cup {dataToSend}
    /\ sendQueue' = Append(sendQueue, d)
    /\ wakeup' = TRUE
    /\ UNCHANGED <<reactor, processor, handling, receiveQueue, dataToSend,
                   closing, device>>

(* The first half of scheduleDeferredClose. *)
MayClose == ~closeScheduled

(* checkTimeout, from ConnectionManager's timer or from send(). *)
CheckTimeout ==
    /\ reactor = "select"
    /\ silent
    /\ MayClose
    /\ reactor' = "schedule"
    /\ UNCHANGED <<processor, handling, queues, output, closing, device>>

(* The second half: the task is posted, by either thread. *)
PostClose ==
    /\ closeScheduled' = TRUE
    /\ deferred' = deferred + 1

ScheduleDeferredClose ==
    /\ reactor = "schedule"
    /\ PostClose
    /\ reactor' = "select"
    /\ UNCHANGED <<processor, handling, queues, output, closed, device>>

HandleOutput ==
    /\ reactor = "select" /\ wakeup
    /\ reactor' = "write"
    /\ UNCHANGED <<processor, handling, queues, output, closing, device>>

(* getNextMessageToSend, when nothing is being written. *)
GetNextMessageToSend ==
    /\ reactor = "write" /\ dataToSend = None
    /\ IF sendQueue = << >>
       THEN /\ reactor' = "cancel"
            /\ UNCHANGED <<sendQueue, dataToSend>>
       ELSE /\ dataToSend' = sendQueue[NextOf(sendQueue)]
            /\ sendQueue' = RemoveAt(sendQueue, NextOf(sendQueue))
            /\ UNCHANGED reactor
    /\ UNCHANGED <<processor, handling, receiveQueue, wakeup, closing,
                   device>>

CancelWakeup ==
    /\ reactor = "cancel"
    /\ wakeup' = FALSE
    /\ reactor' = "select"
    /\ UNCHANGED <<processor, handling, queues, dataToSend, closing, device>>

(* The rest of the message is written, and the loop goes on. *)
SendAll ==
    /\ reactor = "write" /\ dataToSend # None
    /\ delivered' = Append(delivered, dataToSend)
    /\ dataToSend' = None
    /\ UNCHANGED <<reactor, processor, handling, queues, wakeup, closing,
                   silent, received>>

(* Some or none of it is, and the next write would block. *)
WouldBlock ==
    /\ reactor = "write" /\ dataToSend # None
    /\ wakeup' = TRUE
    /\ reactor' = "select"
    /\ UNCHANGED <<processor, handling, queues, dataToSend, closing, device>>

(* onDisconnect: the processor is closed, ... *)
OnDisconnect ==
    /\ closed' = TRUE
    /\ reactor' = "close"
    /\ UNCHANGED <<processor, handling, queues, output, closeScheduled,
                   device>>

(* A read or a write finds that the device has gone. *)
ConnectionLost ==
    /\ reactor = "select" \/ (reactor = "write" /\ dataToSend # None)
    /\ OnDisconnect
    /\ UNCHANGED deferred

DeferredClose ==
    /\ reactor = "select" /\ deferred > 0
    /\ deferred' = deferred - 1
    /\ OnDisconnect

(* ... signalled, and waited for without the lock. *)
SignalClose ==
    /\ reactor = "close"
    /\ Signal
    /\ reactor' = "wait"
    /\ UNCHANGED <<handling, queues, output, closing, device>>

(* Nobody waits for the processor. *)
FaultyJoined == TRUE

Joined == processor = "ended"

(* The service handler, the event handler and the processor are deleted.   *)
Destroy ==
    /\ reactor = "wait" /\ Joined
    /\ reactor' = "gone"
    /\ receiveQueue' = << >> /\ sendQueue' = << >>
    /\ dataToSend' = None
    /\ wakeup' = FALSE
    /\ UNCHANGED <<processor, handling, closing, device>>

(* A task outlives the handler it points to, and calls close() on what is  *)
(* left of it; what comes of that is not followed further.                 *)
LateClose ==
    /\ reactor = "gone" /\ deferred > 0
    /\ deferred' = deferred - 1
    /\ UNCHANGED <<reactor, processor, handling, queues, output, closed,
                   closeScheduled, device>>

(* What the reactor does of itself, whatever the device does. *)
Dispatch ==
    \/ SignalNewMessageAvailable \/ Stamp
    \/ CheckTimeout \/ ScheduleDeferredClose
    \/ HandleOutput \/ GetNextMessageToSend \/ CancelWakeup
    \/ DeferredClose \/ SignalClose \/ Destroy \/ LateClose
-----------------------------------------------------------------------------
(* The message processor's thread: svc. *)

TestClosed ==
    /\ processor = "test"
    /\ processor' = IF closed THEN "ended" ELSE "fetch"
    /\ UNCHANGED <<reactor, handling, queues, output, closing, device>>

(* Take a message and process it; what processMessage tells the gateway    *)
(* core is not looked at here, only its answer to the device.              *)
GetNextReceivedMessage ==
    /\ processor = "fetch"
    /\ IF receiveQueue = << >>
       THEN /\ processor' = "decide"
            /\ UNCHANGED <<handling, receiveQueue>>
       ELSE LET i == NextOf(receiveQueue) IN
            /\ receiveQueue' = RemoveAt(receiveQueue, i)
            /\ IF receiveQueue[i] \in Answered
               THEN processor' = "answer" /\ handling' = receiveQueue[i]
               ELSE UNCHANGED <<processor, handling>>
    /\ UNCHANGED <<reactor, sendQueue, output, closing, device>>

(* send(): no answer if the device seems to be silent. *)
Answer ==
    /\ processor = "answer"
    /\ IF silent
       THEN /\ processor' = IF MayClose THEN "schedule" ELSE "fetch"
            /\ UNCHANGED sendQueue
       ELSE /\ processor' = "wake"
            /\ sendQueue' = Append(sendQueue, handling)
    /\ handling' = None
    /\ UNCHANGED <<reactor, receiveQueue, output, closing, device>>

(* schedule_wakeup takes the reactor's lock. *)
ScheduleWakeup ==
    /\ processor = "wake"
    /\ LockIsFree
    /\ wakeup' = TRUE
    /\ processor' = "fetch"
    /\ UNCHANGED <<reactor, handling, queues, dataToSend, closing, device>>

ProcessorSchedulesClose ==
    /\ processor = "schedule"
    /\ PostClose
    /\ processor' = "fetch"
    /\ UNCHANGED <<reactor, handling, queues, output, closed, device>>

(* The second test, with nothing held. *)
TestClosedAgain ==
    /\ processor = "decide"
    /\ processor' = IF closed THEN "test" ELSE "block"
    /\ UNCHANGED <<reactor, handling, queues, output, closing, device>>

WaitForMessage ==
    /\ processor = "block"
    /\ processor' = "wait"
    /\ UNCHANGED <<reactor, handling, queues, output, closing, device>>

Process ==
    \/ TestClosed \/ GetNextReceivedMessage \/ Answer \/ ScheduleWakeup
    \/ ProcessorSchedulesClose \/ TestClosedAgain \/ WaitForMessage
-----------------------------------------------------------------------------
(* More than heartbeatTimeoutTime has gone by since the last message. *)
FallSilent ==
    /\ ~silent
    /\ silent' = TRUE
    /\ UNCHANGED <<reactor, processor, handling, queues, output, closing,
                   received, delivered>>

Next ==
    \/ Dispatch \/ SendAll \/ WouldBlock \/ ConnectionLost
    \/ \E m \in Requests : Receive(m)
    \/ \E d \in Pushes : OnPushDataReceived(d)
    \/ Process \/ FallSilent

(* Both threads run; the device reads what is written to it. *)
Fairness ==
    /\ WF_vars(Dispatch)
    /\ SF_vars(SendAll)
    /\ WF_vars(Process)

Spec == Init /\ [][Next]_vars /\ Fairness
-----------------------------------------------------------------------------
(* Properties *)

TypeOK ==
    /\ reactor \in {"select", "signal", "stamp", "schedule", "write",
                    "cancel", "close", "wait", "gone"}
    /\ processor \in {"test", "fetch", "answer", "wake", "schedule",
                      "decide", "block", "wait", "ended"}
    /\ handling \in Answered \cup {None}
    /\ handling # None <=> processor = "answer"
    /\ receiveQueue \in Seq(Requests)
    /\ sendQueue \in Seq(Answered \cup Pushes)
    /\ dataToSend \in Answered \cup Pushes \cup {None}
    /\ closed <=> reactor \in {"close", "wait", "gone"}
    /\ wakeup \in BOOLEAN /\ silent \in BOOLEAN /\ closeScheduled \in BOOLEAN
    /\ deferred \in Nat
    /\ processor = "ended" => closed
    /\ reactor = "gone" => processor = "ended"

Position(q, m) == CHOOSE i \in DOMAIN q : q[i] = m

(* The device gets the answers to requests of one priority in the order in *)
(* which it sent them, and each only once, although they pass through two  *)
(* queues and two threads.                                                 *)
AnswersInOrder ==
    \A i, j \in DOMAIN delivered :
        LET a == delivered[i]
            b == delivered[j]
        IN  (i < j /\ {a, b} \subseteq Answered /\ Priority[a] = Priority[b])
                => Position(received, a) < Position(received, b)

(* The write wake-up is never lost: as long as there is something to write *)
(* the reactor will call handle_output, or somebody is about to ask it to. *)
(* handle_output finds the queue empty under one lock and cancels the      *)
(* wake-up under another, and the processor queues a message in between.   *)
WritesAreAwaited ==
    sendQueue # << >> \/ dataToSend # None =>
        wakeup \/ processor = "wake" \/ closed

(* Whatever asks for an answer is answered, or the connection ends. *)
RequestsAreAnswered ==
    \A m \in Answered :
        (m \in ToSet(received)) ~> (m \in ToSet(delivered) \/ closed)

(* "release the lock, or we'll hang" (AndroidEventHandler.cpp:69): the     *)
(* reactor's thread, which serves all devices, does not wait for ever for  *)
(* the processor of one that has disconnected.                             *)
DisconnectEnds == (reactor = "close") ~> (reactor = "gone")
=============================================================================
