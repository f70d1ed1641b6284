------------------------------ MODULE SerialSlots ------------------------------
(***************************************************************************)
(* The sending side of the serial radio plugin: GatewayReceiver collects   *)
(* what the gateway pushes and what the radio hears, SerialTransmitThread  *)
(* sends it in the slot of this radio.  Radios share a channel by time     *)
(* division: a cycle has NumberOfSlots slots, aligned with GPS time.       *)
(*                                                                         *)
(* A tick is the time a unit of data takes on the air, so that lengths and *)
(* times are compared without bytesPerMs.  Time goes on while the thread   *)
(* sleeps; when it could run it is delayed by Lateness ticks at most, from *)
(* the end of one sleep to the beginning of the next.  A write puts data   *)
(* in the buffer of the port, and returns; the port drains it.             *)
(***************************************************************************)
EXTENDS Integers, Sequences, FiniteSets, FiniteSetsExt

CONSTANTS
    SlotDuration, NumberOfSlots, SlotNumber, TransmitDuration,
    MaxTweak,       \* the 50 milliseconds that a slot may be stretched by
    HeaderLength,   \* of a SerialHeader
    Lateness,
    Chats,          \* chat messages of other devices
    ChatLength,     \* their length
    PliUsers,       \* 1..n: the users with a position, as pliMap sorts them
    RelayLength,    \* the length of a relay packet with a set of them
    PliRelayPerCycle, PliSendFrequency,
    Outdated        \* how often a position gets too old to be relayed

CycleDuration == SlotDuration * NumberOfSlots

(* The slot of this radio in a cycle. *)
Begin == ((SlotNumber - 1) % NumberOfSlots) * SlotDuration
Tweak == IF MaxTweak < TransmitDuration \div 10 THEN MaxTweak
                                                ELSE TransmitDuration \div 10
End == Begin + TransmitDuration + Tweak

ASSUME SlotAssumption ==
    /\ SlotDuration \in Nat /\ NumberOfSlots \in Nat \ {0, 1}
    /\ SlotNumber \in Nat \ {0}
    /\ TransmitDuration \in Nat /\ MaxTweak \in Nat
    /\ HeaderLength \in Nat \ {0}
    /\ TransmitDuration + Tweak + HeaderLength <= SlotDuration

ASSUME LatenessAssumption == Lateness \in 0..Tweak

ASSUME MessageAssumption ==
    /\ ChatLength \in [Chats -> Nat \ {0}]
    /\ PliUsers \subseteq Nat
    /\ RelayLength \in [SUBSET PliUsers -> Nat \ {0}]
    /\ PliRelayPerCycle \in Nat /\ PliSendFrequency \in Nat
    /\ Outdated \in Nat

VARIABLES
    (* the transmit thread *)
    pc,             \* "top", "asleep", "slot" or "checked"
    time,           \* gpsTime - cycleStartTime
    sleep,          \* ticks to sleep
    late,           \* ticks it has been delayed
    next,           \* the message to be sent next
    consumed,       \* thisSlotConsumed
    sentPliRelayThisCycle, pliCycleCount,
    (* GatewayReceiver and GpsThread *)
    chatQueue,      \* receiveQueue
    pliState,       \* pliMap, of a position only whether it can be relayed
    pliIndex, fixAcquired,
    (* the radio *)
    line,           \* data in the buffer of the port
    onAir,          \* the users of the relay packet that is being sent
    (* history *)
    where,          \* how far a chat message has come
    outdated,       \* how often a position has become outdated
    started         \* the thread has been in step with the slots

clock == <<time, sleep, late>>
relay == <<sentPliRelayThisCycle, pliCycleCount>>
receiver == <<chatQueue, pliState, pliIndex, fixAcquired>>
history == <<where, outdated, started>>
slotsVars ==
    <<pc, clock, next, consumed, relay, receiver, line, onAir, history>>

(* Nothing to be sent; a relay packet of the users us; a chat message. *)
Nothing == [kind |-> "none", users |-> {}, length |-> 0]
RelayPacket(us) == [kind |-> "relay", users |-> us, length |-> RelayLength[us]]
Message(m) == [kind |-> "chat", chat |-> m,
               length |-> ChatLength[m] + HeaderLength]

(* A position is known, and can be relayed as a difference to this radio's *)
(* position and time, or it is too far away or too old for that.           *)
Positions == {"none", "near", "far"}

(* The thread may be started at any time of the cycle. *)
SlotsInit ==
    /\ pc = "top" /\ time \in 0..CycleDuration - 1
    /\ sleep = 0 /\ late = 0
    /\ next = Nothing /\ consumed = 0
    /\ sentPliRelayThisCycle = FALSE /\ pliCycleCount = 0
    /\ chatQueue = << >>
    /\ pliState = [u \in PliUsers |-> "none"] /\ pliIndex = 0
    /\ fixAcquired = FALSE
    /\ line = 0 /\ onAir = {}
    /\ where = [m \in Chats |-> "gateway"] /\ outdated = 0
    /\ started = FALSE
-----------------------------------------------------------------------------
(* GatewayReceiver. *)

Mapped == {u \in PliUsers : pliState[u] # "none"}

(* The user at an index of pliMap, which is sorted. *)
UserAt(i) == CHOOSE u \in Mapped : Cardinality({v \in Mapped : v < u}) = i

(* The users met in n steps from pliIndex, which wraps at the end. *)
Walk(n) == {UserAt((pliIndex + i) % Cardinality(Mapped)) : i \in 0..n - 1}

Near(us) == {u \in us : pliState[u] = "near"}

(* The walk ends when the packet is full or the map has been gone round. *)
Steps ==
    Min({n \in 0..Cardinality(Mapped) :
           \/ Cardinality(Near(Walk(n))) >= PliRelayPerCycle
           \/ n = Cardinality(Mapped)})

CanRelay == Mapped # {} /\ fixAcquired

(* addReceivedMessage, for a chat message pushed by the gateway. *)
OnChat(m) ==
    /\ where[m] = "gateway"
    /\ chatQueue' = Append(chatQueue, m)
    /\ where' = [where EXCEPT ![m] = "queue"]
    /\ UNCHANGED <<pc, clock, next, consumed, relay, pliState, pliIndex,
                   fixAcquired, line, onAir, outdated, started>>

(* A position pushed by the gateway, or heard by the radio (addPli).       *)
OnPosition(u, p) ==
    /\ p # "none" /\ pliState[u] # p
    /\ p = "far" => outdated < Outdated
    /\ pliState' = [pliState EXCEPT ![u] = p]
    /\ outdated' = outdated + (IF p = "far" THEN 1 ELSE 0)
    /\ UNCHANGED <<pc, clock, next, consumed, relay, chatQueue, pliIndex,
                   fixAcquired, line, onAir, where, started>>

(* setPosition: the position of this radio becomes known, or unknown again. *)
OnFix ==
    /\ fixAcquired' = ~fixAcquired
    /\ UNCHANGED <<pc, clock, next, consumed, relay, chatQueue, pliState,
                   pliIndex, line, onAir, history>>

Receive ==
    \/ \E m \in Chats : OnChat(m)
    \/ \E u \in PliUsers, p \in Positions : OnPosition(u, p)
    \/ OnFix
-----------------------------------------------------------------------------
(* SerialTransmitThread. *)

Runnable == pc # "asleep" \/ sleep = 0

(* The cycle is forgotten that has to pass first. *)
FaultyToBegin(t) == Begin - t

(* From the time t of a cycle to the next beginning of the slot. *)
ToBegin(t) == IF t < Begin THEN Begin - t ELSE Begin + CycleDuration - t

GpsTime == time % CycleDuration

AtTop == pc = "top" \/ (pc = "asleep" /\ sleep = 0)

WaitForSlot ==
    /\ AtTop
    /\ GpsTime < Begin \/ GpsTime > End
    /\ pc' = "asleep"
    /\ time' = GpsTime
    /\ sleep' = ToBegin(GpsTime)
    /\ late' = 0
    /\ UNCHANGED <<next, consumed, relay, receiver, line, onAir, history>>

EnterSlot ==
    /\ AtTop
    /\ GpsTime \in Begin..End
    /\ pc' = "slot"
    /\ time' = GpsTime
    /\ consumed' = 0
    /\ started' = (pc = "asleep")
    /\ UNCHANGED <<sleep, late, next, relay, receiver, line, onAir, where,
                   outdated>>

(* Every packet begins with the first users. *)
FaultyNextIndex == 0

(* Where the next packet begins. *)
NextIndex == (pliIndex + Steps) % Cardinality(Mapped)

(* getNextPliRelayPacket.  The users in it count as relayed from now on,   *)
(* whatever becomes of the packet.                                         *)
TakeRelayPacket ==
    /\ pc = "slot"
    /\ ~sentPliRelayThisCycle /\ CanRelay
    /\ next' = RelayPacket(Near(Walk(Steps)))
    /\ pliIndex' = NextIndex
    /\ pc' = "checked"
    /\ UNCHANGED <<clock, consumed, relay, chatQueue, pliState, fixAcquired,
                   line, onAir, history>>

(* A chat message takes the turn of the relay if there is none. *)
LookAtMessage ==
    /\ pc = "slot"
    /\ sentPliRelayThisCycle \/ ~CanRelay
    /\ chatQueue # << >>
    /\ next' = Message(Head(chatQueue))
    /\ sentPliRelayThisCycle' = TRUE
    /\ pc' = "checked"
    /\ UNCHANGED <<clock, consumed, pliCycleCount, receiver, line, onAir,
                   history>>

(* The payload that has been sent in this slot is not counted. *)
FaultyFits == next.length <= TransmitDuration /\ next.length <= End - time

(* There is room in what the slot may carry, and time until its end. *)
Fits == /\ next.length <= TransmitDuration - consumed
        /\ next.length <= End - time

TooLong == next.length > TransmitDuration

(* A message that is too long is not taken out of the queue. *)
FaultyDequeued == IF TooLong THEN chatQueue ELSE Tail(chatQueue)

Dequeued == Tail(chatQueue)

(* A chat message that is too long is dropped.  A relay packet that is is  *)
(* not sent either, but the thread asks for another one immediately.       *)
Drop ==
    /\ pc = "checked" /\ TooLong
    /\ IF sentPliRelayThisCycle
         THEN /\ chatQueue' = Dequeued
              /\ where' = [where EXCEPT ![next.chat] = "dropped"]
         ELSE UNCHANGED <<chatQueue, where>>
    /\ next' = Nothing
    /\ pc' = "slot"
    /\ UNCHANGED <<clock, consumed, relay, pliState, pliIndex, fixAcquired,
                   line, onAir, outdated, started>>

(* The length that has been checked includes the header of a message, but  *)
(* not that of a relay packet.                                             *)
SendChat ==
    /\ pc = "checked" /\ sentPliRelayThisCycle /\ Fits
    /\ line' = line + next.length
    /\ chatQueue' = Tail(chatQueue)
    /\ where' = [where EXCEPT ![next.chat] = "sent"]
    /\ consumed' = consumed + next.length
    /\ next' = Nothing
    /\ pc' = "slot"
    /\ UNCHANGED <<clock, relay, pliState, pliIndex, fixAcquired, onAir,
                   outdated, started>>

SendRelay ==
    /\ pc = "checked" /\ ~sentPliRelayThisCycle /\ Fits
    /\ line' = line + next.length + HeaderLength
    /\ onAir' = next.users
    /\ consumed' = consumed + next.length
    /\ sentPliRelayThisCycle' = TRUE
    /\ next' = Nothing
    /\ pc' = "slot"
    /\ UNCHANGED <<clock, pliCycleCount, receiver, history>>

NothingToSend ==
    pc = "slot" /\ chatQueue = << >> /\ (sentPliRelayThisCycle \/ ~CanRelay)

OutOfSlotSpace == pc = "checked" /\ ~TooLong /\ ~Fits

(* The thread sleeps until its slot begins again.  A message remains in    *)
(* the queue, a relay packet is forgotten.                                 *)
LeaveSlot ==
    /\ NothingToSend \/ OutOfSlotSpace
    /\ pc' = "asleep"
    /\ sleep' = Begin + CycleDuration - time
    /\ late' = 0
    /\ next' = Nothing
    /\ LET last == pliCycleCount + 1 = PliSendFrequency
       IN  /\ pliCycleCount' = IF last THEN 0 ELSE pliCycleCount + 1
           /\ sentPliRelayThisCycle' = (sentPliRelayThisCycle /\ ~last)
    /\ UNCHANGED <<time, consumed, receiver, line, onAir, history>>

Transmit ==
    \/ WaitForSlot \/ EnterSlot
    \/ TakeRelayPacket \/ LookAtMessage
    \/ Drop \/ SendChat \/ SendRelay
    \/ LeaveSlot
-----------------------------------------------------------------------------
Minus1(n) == IF n = 0 THEN 0 ELSE n - 1

PassTime ==
    /\ Runnable => late < Lateness
    /\ time' = time + 1
    /\ sleep' = Minus1(sleep)
    /\ late' = late + (IF Runnable THEN 1 ELSE 0)
    /\ line' = Minus1(line)
    /\ onAir' = IF line' = 0 THEN {} ELSE onAir
    /\ UNCHANGED <<pc, next, consumed, relay, receiver, history>>

SlotsNext == Receive \/ Transmit \/ PassTime

(* Time passes, and the thread runs. *)
SlotsSpec ==
    /\ SlotsInit /\ [][SlotsNext]_slotsVars
    /\ WF_slotsVars(Transmit) /\ WF_slotsVars(PassTime)
-----------------------------------------------------------------------------
(* Properties *)

(* The thread does not sleep for a negative time, which usleep would take  *)
(* for more than an hour, and the index stays within the map.              *)
TypeOK ==
    /\ pc \in {"top", "asleep", "slot", "checked"}
    /\ time \in Nat /\ sleep \in Nat /\ late \in 0..Lateness
    /\ consumed \in Nat
    /\ sentPliRelayThisCycle \in BOOLEAN /\ pliCycleCount \in Nat
    /\ chatQueue \in Seq(Chats)
    /\ pliState \in [PliUsers -> Positions]
    /\ pliIndex = 0 \/ pliIndex \in 0..Cardinality(Mapped) - 1
    /\ fixAcquired \in BOOLEAN
    /\ line \in Nat /\ onAir \subseteq PliUsers
    /\ where \in [Chats -> {"gateway", "queue", "sent", "dropped"}]
    /\ outdated \in 0..Outdated /\ started \in BOOLEAN

(* This radio is on the air in its own slot only: what is in the buffer of *)
(* the port goes out before the next radio's slot begins.  A relay packet  *)
(* is sent with a header that has not been counted, and the thread may run *)
(* late; the pause at the end of a slot makes up for both.  The slot in    *)
(* which the thread was started, when part of it had passed, is excepted.  *)
StaysInSlot ==
    started /\ line > 0 =>
        /\ Begin <= GpsTime
        /\ GpsTime + line <= Begin + SlotDuration

(* "hold the message until the next slot" (SerialTransmitThread.cpp:160):  *)
(* no chat message is held for ever, neither by relay packets, which go    *)
(* first, nor by a message that does not fit.                              *)
ChatsLeave ==
    \A m \in Chats : where[m] = "queue" ~> where[m] \in {"sent", "dropped"}

(* The position of every user is relayed again and again, whatever other   *)
(* users are added to the map meanwhile, as long as it is near enough and  *)
(* this radio knows its own.                                               *)
PositionsAreRelayed ==
    \A u \in PliUsers :
        pliState[u] = "near" /\ fixAcquired ~>
            \/ u \in onAir
            \/ pliState[u] # "near"
            \/ ~fixAcquired
=============================================================================
