---------------------------- MODULE SerialProofs -----------------------------
(***************************************************************************)
(* Proofs about the serial radio plugin.                                   *)
(*                                                                         *)
(* About its sending side (SerialSlots), for any durations and number of   *)
(* slots, messages, users and packets: the thread never sleeps for a       *)
(* negative time, the walk over the positions stays within the map, and    *)
(* the radio is on the air in its own slot only.                           *)
(*                                                                         *)
(* About the relay of positions between radios (SerialRelay), for any      *)
(* radios, users, places and times, any length of the queues, and any      *)
(* integer widths and scales: what is published is as its user reported    *)
(* it, except for what a scale above 1 distorts on the way through a relay *)
(* packet (see the run serial_scaled).                                     *)
(***************************************************************************)
EXTENDS SerialSlots, SerialRelay, FiniteSetTheorems, TLAPS

(* Where the thread is in the cycle.  It wakes up at the beginning of the  *)
(* slot of this cycle or the next, with nothing left on the line; within   *)
(* the slot, the line holds no more than has been counted, and the header  *)
(* of the relay packet, if that has been sent.                             *)
SlotInv ==
    /\ IsFiniteSet(Mapped)
    /\ next.length \in Nat
    /\ pc = "top" => ~started /\ line = 0
    /\ pc = "asleep" =>
        /\ \E target \in {Begin, Begin + CycleDuration} :
              time + sleep = target + late
        /\ late > 0 => sleep = 0
        /\ line <= sleep
    /\ pc \in {"slot", "checked"} =>
        /\ Begin <= time /\ time <= End + late
        /\ started => time = Begin + late
        /\ consumed <= TransmitDuration
        /\ line <= consumed
                     + (IF sentPliRelayThisCycle THEN HeaderLength ELSE 0)
    /\ pc = "checked" =>
        IF sentPliRelayThisCycle
          THEN chatQueue # << >> /\ next = Message(Head(chatQueue))
          ELSE \E us \in SUBSET PliUsers : next = RelayPacket(us)
    /\ started /\ line > 0 =>
        Begin <= time /\ time + line <= Begin + SlotDuration

IInv == TypeOK /\ SlotInv
-----------------------------------------------------------------------------
(* The smallest of a set of natural numbers, and the principle of          *)
(* induction as a fact about sets, which needs no operator.                *)
LEMMA WellOrder ==
    ASSUME NEW T \in SUBSET Nat, T # {}
    PROVE  \E x \in T : \A y \in T : x <= y
<1> DEFINE R == OpToRel(<, Nat)
<1>1. IsWellFoundedOn(R, Nat)
  BY NatLessThanWellFounded
<1>2. \A x, y \in Nat : y < x => <<y, x>> \in R
  BY DEF OpToRel
<1> HIDE DEF R
<1>3. PICK x \in T : \A y \in T : ~(<<y, x>> \in R)
  BY <1>1, WFMin
<1>4. ASSUME NEW y \in T
      PROVE  x <= y
  <2>1. ~(y < x)
    BY <1>2, <1>3, Zenon
  <2> QED
    BY <2>1
<1> QED
  BY <1>4

LEMMA SetInduction ==
    ASSUME NEW S, 0 \in S, \A n \in Nat : n \in S => n + 1 \in S
    PROVE  Nat \subseteq S
<1> DEFINE T == Nat \ S
<1>1. SUFFICES ASSUME T # {} PROVE FALSE
  OBVIOUS
<1>2. PICK x \in T : \A y \in T : x <= y
  BY <1>1, WellOrder
<1>3. x # 0 /\ x - 1 \in Nat /\ x - 1 \notin T
  BY <1>2
<1> QED
  BY <1>3

(* By induction on the number of elements.                                 *)
LEMMA Greatest ==
    ASSUME NEW K \in SUBSET Nat, IsFiniteSet(K), K # {}
    PROVE  \E x \in K : \A y \in K : y <= x
<1> DEFINE HasGreatest(M) == \E x \in M : \A y \in M : y <= x
           Counted == {n \in Nat : \A M \in SUBSET Nat :
                        IsFiniteSet(M) /\ Cardinality(M) = n + 1 =>
                            HasGreatest(M)}
<1>1. 0 \in Counted
  <2>1. ASSUME NEW M \in SUBSET Nat, IsFiniteSet(M), Cardinality(M) = 1
        PROVE  HasGreatest(M)
    <3>1. PICK x : M = {x}
      BY <2>1, FS_Singleton
    <3> QED
      BY <3>1
  <2> QED
    BY <2>1
<1>2. ASSUME NEW n \in Nat, n \in Counted PROVE n + 1 \in Counted
  <2>1. ASSUME NEW M \in SUBSET Nat, IsFiniteSet(M), Cardinality(M) = n + 2
        PROVE  HasGreatest(M)
    <3>1. M # {}
      BY <2>1, FS_EmptySet
    <3>2. PICK z \in M : TRUE
      BY <3>1
    <3> DEFINE M0 == M \ {z}
    <3>3. IsFiniteSet(M0) /\ Cardinality(M0) = n + 1 /\ M0 \in SUBSET Nat
      BY <2>1, FS_RemoveElement
    <3>4. HasGreatest(M0)
      BY <1>2, <3>3
    <3>5. PICK x \in M0 : \A y \in M0 : y <= x
      BY <3>4
    <3>6. CASE z <= x
      BY <3>5, <3>6
    <3>7. CASE x < z
      <4>1. \A y \in M : y <= z
        BY <3>5, <3>7
      <4> QED
        BY <4>1
    <3> QED
      BY <3>6, <3>7
  <2>2. \A M \in SUBSET Nat :
            IsFiniteSet(M) /\ Cardinality(M) = (n + 1) + 1 => HasGreatest(M)
    BY <2>1
  <2> QED
    BY <2>2
<1> HIDE DEF Counted
<1>3. Nat \subseteq Counted
  BY <1>1, <1>2, SetInduction
<1>4. Cardinality(K) \in Nat /\ Cardinality(K) # 0
  BY FS_CardinalityType, FS_EmptySet
<1>5. Cardinality(K) - 1 \in Counted
  BY <1>3, <1>4
<1> QED
  BY <1>4, <1>5 DEF Counted

(* There is a user at every index of the map.                              *)
LEMMA Ranked ==
    ASSUME NEW K \in SUBSET Nat, IsFiniteSet(K),
           NEW i \in 0 .. Cardinality(K) - 1
    PROVE  \E u \in K : Cardinality({v \in K : v < u}) = i
<1> DEFINE HasRank(M, j) == \E u \in M : Cardinality({v \in M : v < u}) = j
           Counted == {n \in Nat : \A M \in SUBSET Nat :
                        IsFiniteSet(M) /\ Cardinality(M) = n =>
                            \A j \in 0 .. n - 1 : HasRank(M, j)}
<1>1. 0 \in Counted
  OBVIOUS
<1>2. ASSUME NEW n \in Nat, n \in Counted PROVE n + 1 \in Counted
  <2>1. ASSUME NEW M \in SUBSET Nat, IsFiniteSet(M), Cardinality(M) = n + 1,
               NEW j \in 0 .. n
        PROVE  HasRank(M, j)
    <3>1. M # {}
      BY <2>1, FS_EmptySet
    <3>2. PICK z \in M : \A y \in M : y <= z
      BY <2>1, <3>1, Greatest
    <3> DEFINE M0 == M \ {z}
    <3>3. IsFiniteSet(M0) /\ Cardinality(M0) = n /\ M0 \in SUBSET Nat
      <4>1. IsFiniteSet(M0) /\ Cardinality(M0) = Cardinality(M) - 1
        BY <2>1, <3>2, FS_RemoveElement
      <4> QED
        BY <2>1, <4>1
    <3>4. CASE j = n
      <4>1. {v \in M : v < z} = M0
        <5>1. \A v \in M : (v # z) = (v < z)
          BY <3>2
        <5> QED
          BY <5>1
      <4> QED
        BY <3>3, <3>4, <4>1
    <3>5. CASE j # n
      <4>1. HasRank(M0, j)
        BY <1>2, <3>3, <3>5
      <4>2. PICK u \in M0 : Cardinality({v \in M0 : v < u}) = j
        BY <4>1
      <4>3. {v \in M : v < u} = {v \in M0 : v < u}
        <5>1. ~(z < u)
          BY <3>2
        <5> QED
          BY <5>1
      <4> QED
        BY <4>2, <4>3
    <3> QED
      BY <3>4, <3>5
  <2>2. \A M \in SUBSET Nat : IsFiniteSet(M) /\ Cardinality(M) = n + 1 =>
                            \A j \in 0 .. (n + 1) - 1 : HasRank(M, j)
    BY <2>1
  <2> QED
    BY <2>2
<1> HIDE DEF Counted
<1>3. Nat \subseteq Counted
  BY <1>1, <1>2, SetInduction
<1>4. Cardinality(K) \in Counted
  BY <1>3, FS_CardinalityType
<1> QED
  BY <1>4 DEF Counted

(* The walk over the map takes no more steps than it has users, and meets  *)
(* only these.                                                             *)
LEMMA WalkStaysInMap ==
    ASSUME PliUsers \subseteq Nat, IsFiniteSet(Mapped), Mapped # {},
           pliIndex \in Nat
    PROVE  /\ Steps \in Nat
           /\ \A n : Near(Walk(n)) \subseteq PliUsers
           /\ NextIndex \in 0 .. Cardinality(Mapped) - 1
<1>1. Cardinality(Mapped) \in Nat \ {0}
  BY FS_CardinalityType, FS_EmptySet
<1>2. Mapped \in SUBSET Nat
  BY DEF Mapped
<1>3. Steps \in Nat
  <2> DEFINE Ends == {n \in 0..Cardinality(Mapped) :
                        \/ Cardinality(Near(Walk(n))) >= PliRelayPerCycle
                        \/ n = Cardinality(Mapped)}
  <2>1. Ends \in SUBSET Nat /\ Cardinality(Mapped) \in Ends
    BY <1>1
  <2>2. Steps = Min(Ends)
    BY DEF Steps
  <2> HIDE DEF Ends
  <2>3. PICK x \in Ends : \A y \in Ends : x <= y
    BY <2>1, WellOrder
  <2>4. Min(Ends) \in Ends
    BY <2>3 DEF Min
  <2> QED
    BY <2>1, <2>2, <2>4
<1>4. \A n : Near(Walk(n)) \subseteq PliUsers
  <2>1. ASSUME NEW j \in 0 .. Cardinality(Mapped) - 1
        PROVE  UserAt(j) \in Mapped
    <3>1. \E u \in Mapped : Cardinality({v \in Mapped : v < u}) = j
      BY <1>2, Ranked
    <3> QED
      BY <3>1 DEF UserAt
  <2>2. \A n : Walk(n) \subseteq PliUsers
    <3> SUFFICES ASSUME NEW n, NEW i \in 0 .. n - 1
                 PROVE  UserAt((pliIndex + i) % Cardinality(Mapped))
                          \in PliUsers
      BY DEF Walk
    <3>1. (pliIndex + i) % Cardinality(Mapped) \in 0 .. Cardinality(Mapped) - 1
      BY <1>1
    <3> QED
      BY <2>1, <3>1 DEF Mapped
  <2> QED
    BY <2>2 DEF Near
<1>5. NextIndex \in 0 .. Cardinality(Mapped) - 1
  BY <1>1, <1>3 DEF NextIndex
<1> QED
  BY <1>3, <1>4, <1>5

(* The slot lies in the cycle, with the pause at its end.                  *)
LEMMA SlotInCycle ==
    /\ Begin \in Nat /\ CycleDuration \in Nat \ {0}
    /\ SlotDuration \in Nat \ {0} /\ Tweak \in Nat
    /\ Begin + SlotDuration <= CycleDuration
    /\ 2 * SlotDuration <= CycleDuration
<1>1. SlotDuration \in Nat \ {0} /\ Tweak \in Nat
  BY SlotAssumption DEF Tweak
<1> DEFINE k == (SlotNumber - 1) % NumberOfSlots
<1>2. k \in 0 .. NumberOfSlots - 1
  BY SlotAssumption
<1>3. Begin = k * SlotDuration
  BY DEF Begin
<1> HIDE DEF k
<1>4. \A x, y, z \in Nat : x <= y => x * z \in Nat /\ x * z <= y * z
  OBVIOUS
<1>5. NumberOfSlots \in Nat /\ 2 <= NumberOfSlots
  BY SlotAssumption
<1>6. k \in Nat /\ k + 1 \in Nat /\ k + 1 <= NumberOfSlots
  BY <1>2, <1>5
<1>7. (k + 1) * SlotDuration <= NumberOfSlots * SlotDuration
  BY <1>1, <1>4, <1>5, <1>6
<1>8. 2 * SlotDuration <= NumberOfSlots * SlotDuration
  BY <1>1, <1>4, <1>5
<1>9. /\ k * SlotDuration \in Nat
      /\ (k + 1) * SlotDuration = k * SlotDuration + SlotDuration
  BY <1>1, <1>6
<1>10. CycleDuration = NumberOfSlots * SlotDuration
  BY <1>1, <1>5 DEF CycleDuration
<1> QED
  BY <1>1, <1>3, <1>5, <1>7, <1>8, <1>9, <1>10

LEMMA Wrapped ==
    ASSUME NEW t \in Nat, NEW c \in Nat \ {0}
    PROVE  /\ t % c \in 0 .. c - 1
           /\ t < c => t % c = t
           /\ c <= t /\ t < 2 * c => t % c = t - c
  OBVIOUS

LEMMA Durations ==
    /\ TransmitDuration \in Nat /\ HeaderLength \in Nat \ {0}
    /\ Lateness \in Nat /\ Tweak \in Nat /\ Lateness <= Tweak
    /\ Begin \in Nat /\ SlotDuration \in Nat
    /\ TransmitDuration + Tweak + HeaderLength <= SlotDuration
    /\ End = Begin + TransmitDuration + Tweak
  BY SlotAssumption, LatenessAssumption, SlotInCycle DEF End
-----------------------------------------------------------------------------
LEMMA InitEstablishes == SlotsInit => IInv
<1> SUFFICES ASSUME SlotsInit PROVE IInv
  OBVIOUS
<1>1. Mapped = {}
  BY DEF SlotsInit, Mapped
<1>2. TypeOK
  <2>1. time \in Nat /\ sleep \in Nat /\ late \in 0..Lateness
        /\ consumed \in Nat /\ pliCycleCount \in Nat /\ line \in Nat
    BY Durations, SlotInCycle DEF SlotsInit
  <2>2. outdated \in 0..Outdated
    BY MessageAssumption DEF SlotsInit
  <2>3. pliState \in [PliUsers -> Positions]
    BY DEF SlotsInit, Positions
  <2>4. where \in [Chats -> {"gateway", "queue", "sent", "dropped"}]
    BY DEF SlotsInit
  <2>5. chatQueue \in Seq(Chats)
    BY DEF SlotsInit
  <2>6. /\ sentPliRelayThisCycle \in BOOLEAN
        /\ fixAcquired \in BOOLEAN /\ started \in BOOLEAN
    BY DEF SlotsInit
  <2>7. /\ pc \in {"top", "asleep", "slot", "checked"}
        /\ pliIndex = 0 /\ onAir \subseteq PliUsers
    BY DEF SlotsInit
  <2> QED
    BY <2>1, <2>2, <2>3, <2>4, <2>5, <2>6, <2>7 DEF TypeOK
<1>3. SlotInv
  BY <1>1, FS_EmptySet DEF SlotsInit, SlotInv, Nothing
<1> QED
  BY <1>2, <1>3 DEF IInv

(* What GatewayReceiver is given does not concern the thread in its slot.  *)
LEMMA ReceivePreserves ==
    ASSUME IInv, Receive
    PROVE  IInv'
<1> USE DEF IInv
<1>1. ASSUME NEW m \in Chats, OnChat(m) PROVE IInv'
  <2>1. TypeOK'
    BY <1>1 DEF OnChat, TypeOK, clock, relay, Mapped
  <2>2. chatQueue # << >> =>
            chatQueue' # << >> /\ Head(chatQueue') = Head(chatQueue)
    BY <1>1 DEF OnChat, TypeOK
  <2>3. SlotInv'
    BY <1>1, <2>2 DEF OnChat, SlotInv, clock, relay, Mapped
  <2> QED
    BY <2>1, <2>3
<1>2. ASSUME NEW u \in PliUsers, NEW p \in Positions, OnPosition(u, p)
      PROVE  IInv'
  <2>1. Mapped' = Mapped \cup {u}
    BY <1>2 DEF OnPosition, Mapped, TypeOK
  <2>2. /\ IsFiniteSet(Mapped')
        /\ Cardinality(Mapped) \in Nat /\ Cardinality(Mapped') \in Nat
        /\ Cardinality(Mapped) <= Cardinality(Mapped')
    <3>1. IsFiniteSet(Mapped) /\ Cardinality(Mapped) \in Nat
      BY FS_CardinalityType DEF SlotInv
    <3>2. IsFiniteSet(Mapped \cup {u})
          /\ Cardinality(Mapped \cup {u}) \in
                 {Cardinality(Mapped), Cardinality(Mapped) + 1}
      BY <3>1, FS_AddElement
    <3> QED
      BY <2>1, <3>1, <3>2
  <2>3. pliIndex' = 0 \/ pliIndex' \in 0..Cardinality(Mapped') - 1
    BY <1>2, <2>2 DEF OnPosition, TypeOK
  <2>4. TypeOK'
    BY <1>2, <2>3, MessageAssumption DEF OnPosition, TypeOK, clock, relay
  <2>5. SlotInv'
    BY <1>2, <2>2 DEF OnPosition, SlotInv, clock, relay
  <2> QED
    BY <2>4, <2>5
<1>3. ASSUME OnFix PROVE IInv'
  <2>1. TypeOK'
    BY <1>3 DEF OnFix, TypeOK, clock, relay, Mapped, history
  <2>2. SlotInv'
    BY <1>3 DEF OnFix, SlotInv, clock, relay, Mapped, history
  <2> QED
    BY <2>1, <2>2
<1> QED
  BY <1>1, <1>2, <1>3 DEF Receive

LEMMA WaitForSlotPreserves ==
    ASSUME IInv, WaitForSlot
    PROVE  IInv'
<1> USE DEF IInv
<1>1. GpsTime \in Nat /\ GpsTime < CycleDuration
  BY SlotInCycle, Wrapped DEF GpsTime, TypeOK
<1>2. /\ ToBegin(GpsTime) \in Nat
      /\ GpsTime + ToBegin(GpsTime) \in {Begin, Begin + CycleDuration}
  BY <1>1, SlotInCycle DEF ToBegin
<1>3. line = 0
  BY SlotInCycle DEF WaitForSlot, AtTop, SlotInv, TypeOK
<1>4. TypeOK'
  BY <1>1, <1>2, Durations
  DEF WaitForSlot, TypeOK, relay, receiver, Mapped, history
<1>5. SlotInv'
  BY <1>1, <1>2, <1>3
  DEF WaitForSlot, SlotInv, relay, receiver, Mapped, history
<1> QED
  BY <1>4, <1>5

(* The thread comes too late by no more than it has been delayed.          *)
LEMMA EnterSlotPreserves ==
    ASSUME IInv, EnterSlot
    PROVE  IInv'
<1> USE DEF IInv
<1>1. GpsTime \in Nat /\ Begin <= GpsTime /\ GpsTime <= End
  BY SlotInCycle, Wrapped, Durations DEF GpsTime, TypeOK, EnterSlot
<1>2. pc = "asleep" => GpsTime = Begin + late
  <2> SUFFICES ASSUME pc = "asleep" PROVE GpsTime = Begin + late
    OBVIOUS
  <2>1. sleep = 0 /\ time \in {Begin + late, Begin + CycleDuration + late}
    BY DEF EnterSlot, AtTop, SlotInv, TypeOK
  <2>2. Begin + late \in Nat /\ Begin + late < CycleDuration
    BY SlotInCycle, Durations DEF TypeOK
  <2>3. /\ (Begin + late) % CycleDuration = Begin + late
        /\ (Begin + CycleDuration + late) % CycleDuration = Begin + late
    <3>1. (Begin + late) % CycleDuration = Begin + late
      BY <2>2, SlotInCycle, Wrapped
    <3> DEFINE t == Begin + CycleDuration + late
    <3>2. t \in Nat /\ CycleDuration <= t /\ t < 2 * CycleDuration
          /\ t - CycleDuration = Begin + late
      BY <2>2, SlotInCycle DEF TypeOK
    <3> HIDE DEF t
    <3>3. t % CycleDuration = t - CycleDuration
      BY <3>2, SlotInCycle, Wrapped
    <3> QED
      BY <3>1, <3>2, <3>3 DEF t
  <2> QED
    BY <2>1, <2>3 DEF GpsTime
<1>3. line = 0
  BY SlotInCycle DEF EnterSlot, AtTop, SlotInv, TypeOK
<1>4. TypeOK'
  BY <1>1 DEF EnterSlot, TypeOK, relay, receiver, Mapped
<1>5. SlotInv'
  <2>1. /\ pc' = "slot" /\ line' = 0 /\ consumed' = 0
        /\ late' = late /\ time' = GpsTime
    BY <1>3 DEF EnterSlot
  <2>2. started' => time' = Begin + late'
    BY <1>2, <2>1 DEF EnterSlot
  <2>3. Begin <= time' /\ time' <= End + late'
    BY <1>1, <2>1, SlotInCycle, Durations DEF TypeOK
  <2>4. IsFiniteSet(Mapped') /\ next'.length \in Nat
    BY DEF EnterSlot, SlotInv, receiver, Mapped
  <2>5. line' <= consumed'
                    + (IF sentPliRelayThisCycle' THEN HeaderLength ELSE 0)
    BY <2>1, Durations
  <2> QED
    BY <2>1, <2>2, <2>3, <2>4, <2>5, Durations DEF SlotInv
<1> QED
  BY <1>4, <1>5

LEMMA TakeRelayPacketPreserves ==
    ASSUME IInv, TakeRelayPacket
    PROVE  IInv'
<1> USE DEF IInv
<1>1. Mapped # {} /\ IsFiniteSet(Mapped) /\ Mapped' = Mapped
  BY DEF TakeRelayPacket, CanRelay, SlotInv, Mapped
<1>2. Cardinality(Mapped) \in Nat
  BY <1>1, FS_CardinalityType
<1>3. pliIndex \in Nat
  BY <1>2 DEF TypeOK
<1>4. /\ Near(Walk(Steps)) \in SUBSET PliUsers
      /\ NextIndex \in 0 .. Cardinality(Mapped) - 1
  BY <1>1, <1>3, WalkStaysInMap, MessageAssumption
<1>5. TypeOK'
  BY <1>1, <1>4 DEF TakeRelayPacket, TypeOK, clock, relay, history
<1>6. next' = RelayPacket(Near(Walk(Steps))) /\ next'.length \in Nat
  BY <1>4, MessageAssumption DEF TakeRelayPacket, RelayPacket
<1>7. SlotInv'
  BY <1>1, <1>4, <1>6 DEF TakeRelayPacket, SlotInv, clock, relay, history
<1> QED
  BY <1>5, <1>7

LEMMA LookAtMessagePreserves ==
    ASSUME IInv, LookAtMessage
    PROVE  IInv'
<1> USE DEF IInv
<1>1. Head(chatQueue) \in Chats
  BY DEF LookAtMessage, TypeOK
<1>2. next'.length \in Nat
  BY <1>1, MessageAssumption, Durations DEF LookAtMessage, Message
<1>3. TypeOK'
  BY DEF LookAtMessage, TypeOK, clock, receiver, Mapped, history
<1>4. line <= consumed + HeaderLength
  BY Durations DEF LookAtMessage, SlotInv, TypeOK
<1>5. SlotInv'
  BY <1>2, <1>4 DEF LookAtMessage, SlotInv, clock, receiver, Mapped, history
<1> QED
  BY <1>3, <1>5

LEMMA DropPreserves ==
    ASSUME IInv, Drop
    PROVE  IInv'
<1> USE DEF IInv
<1>1. chatQueue' \in Seq(Chats)
  <2>1. CASE sentPliRelayThisCycle
    <3>1. chatQueue \in Seq(Chats) /\ chatQueue # << >>
      BY <2>1 DEF Drop, TypeOK, SlotInv
    <3>2. chatQueue' = Tail(chatQueue)
      BY <2>1 DEF Drop, Dequeued
    <3> QED
      BY <3>1, <3>2
  <2>2. CASE ~sentPliRelayThisCycle
    BY <2>2 DEF Drop, TypeOK
  <2> QED
    BY <2>1, <2>2
<1>2. where' \in [Chats -> {"gateway", "queue", "sent", "dropped"}]
  BY DEF Drop, TypeOK
<1>3. TypeOK'
  BY <1>1, <1>2 DEF Drop, TypeOK, clock, relay, Mapped
<1>4. SlotInv'
  BY DEF Drop, SlotInv, Nothing, clock, relay, Mapped
<1> QED
  BY <1>3, <1>4

(* What is sent fits into the slot, even if the header has not been        *)
(* counted and the slot was entered late.                                  *)
LEMMA SendPreserves ==
    ASSUME IInv, SendChat \/ SendRelay
    PROVE  IInv'
<1> USE DEF IInv
<1>1. chatQueue' \in Seq(Chats)
  <2>1. CASE SendChat
    <3>1. chatQueue \in Seq(Chats) /\ chatQueue # << >>
      BY <2>1 DEF SendChat, TypeOK, SlotInv
    <3>2. chatQueue' = Tail(chatQueue)
      BY <2>1 DEF SendChat
    <3> QED
      BY <3>1, <3>2
  <2>2. CASE SendRelay
    BY <2>2 DEF SendRelay, TypeOK, receiver
  <2> QED
    BY <2>1, <2>2
<1>2. where' \in [Chats -> {"gateway", "queue", "sent", "dropped"}]
  BY DEF SendChat, SendRelay, TypeOK, history
<1>3. next.length \in Nat /\ consumed \in Nat /\ line \in Nat /\ time \in Nat
  BY DEF SlotInv, TypeOK
<1>4. onAir' \subseteq PliUsers
  BY DEF SendChat, SendRelay, TypeOK, SlotInv, RelayPacket
<1>5. consumed' \in Nat /\ line' \in Nat /\ consumed' <= TransmitDuration
  <2>1. /\ consumed' = consumed + next.length
        /\ line' \in {line + next.length, line + next.length + HeaderLength}
        /\ next.length <= TransmitDuration - consumed
    BY DEF SendChat, SendRelay, Fits
  <2> QED
    BY <1>3, <2>1, Durations
<1>6. TypeOK'
  BY <1>1, <1>2, <1>4, <1>5
  DEF SendChat, SendRelay, TypeOK, clock, relay, receiver, Mapped, history
<1>7. /\ sentPliRelayThisCycle'
      /\ line' <= consumed' + HeaderLength
  <2>1. line <= consumed + (IF sentPliRelayThisCycle THEN HeaderLength ELSE 0)
    BY DEF SendChat, SendRelay, SlotInv
  <2>2. CASE SendChat
    <3>1. /\ sentPliRelayThisCycle
          /\ sentPliRelayThisCycle' = sentPliRelayThisCycle
          /\ line' = line + next.length /\ consumed' = consumed + next.length
      BY <2>2 DEF SendChat, relay
    <3> QED
      BY <1>3, <2>1, <3>1, Durations
  <2>3. CASE SendRelay
    <3>1. ~sentPliRelayThisCycle /\ sentPliRelayThisCycle'
          /\ line' = line + next.length + HeaderLength
          /\ consumed' = consumed + next.length
      BY <2>3 DEF SendRelay
    <3> QED
      BY <1>3, <2>1, <3>1, Durations
  <2> QED
    BY <2>2, <2>3
<1>8. /\ pc' = "slot" /\ pc \in {"slot", "checked"}
      /\ time' = time /\ late' = late /\ started' = started
      /\ Mapped' = Mapped /\ next' = Nothing
  BY DEF SendChat, SendRelay, clock, history, receiver, Mapped
<1>9. started => Begin <= time /\ time + line' <= Begin + SlotDuration
  <2> SUFFICES ASSUME started
               PROVE  Begin <= time /\ time + line' <= Begin + SlotDuration
    OBVIOUS
  <2>1. time = Begin + late /\ late \in Nat /\ late <= Tweak
    BY <1>8, Durations, SlotInCycle DEF SlotInv, TypeOK
  <2>2. PICK l \in Nat, c \in Nat : l = line' /\ c = consumed'
    BY <1>5
  <2>3. l <= c + HeaderLength /\ c <= TransmitDuration
    BY <1>5, <1>7, <2>2
  <2>4. Begin <= time /\ time + l <= Begin + SlotDuration
    BY <2>1, <2>3, Durations
  <2> QED
    BY <2>2, <2>4
<1>10. SlotInv'
  BY <1>5, <1>7, <1>8, <1>9 DEF SlotInv, Nothing
<1> QED
  BY <1>6, <1>10

LEMMA LeaveSlotPreserves ==
    ASSUME IInv, LeaveSlot
    PROVE  IInv'
<1> USE DEF IInv
<1>1. pc \in {"slot", "checked"}
  BY DEF LeaveSlot, NothingToSend, OutOfSlotSpace
<1>2. /\ time \in Nat /\ time <= End + Lateness
      /\ line \in Nat /\ line <= TransmitDuration + HeaderLength
  BY <1>1, Durations, SlotInCycle DEF SlotInv, TypeOK
<1>3. sleep' \in Nat /\ line <= sleep' /\ time + sleep' = Begin + CycleDuration
  BY <1>2, Durations, SlotInCycle DEF LeaveSlot
<1>4. pliCycleCount' \in Nat /\ sentPliRelayThisCycle' \in BOOLEAN
  BY DEF LeaveSlot, TypeOK
<1>5. TypeOK'
  BY <1>3, <1>4, Durations DEF LeaveSlot, TypeOK, receiver, Mapped, history
<1>6. SlotInv'
  BY <1>3, SlotInCycle DEF LeaveSlot, SlotInv, Nothing, receiver, Mapped,
      history
<1> QED
  BY <1>5, <1>6

LEMMA TickPreserves ==
    ASSUME IInv, PassTime
    PROVE  IInv'
<1> USE DEF IInv
<1>1. /\ time' = time + 1 /\ time \in Nat /\ time' \in Nat
      /\ sleep \in Nat /\ sleep' \in Nat /\ sleep' = Minus1(sleep)
      /\ line \in Nat /\ line' \in Nat /\ line' = Minus1(line)
      /\ late \in 0 .. Lateness /\ late' \in 0 .. Lateness
      /\ late' = late + (IF Runnable THEN 1 ELSE 0)
  BY Durations DEF PassTime, TypeOK, Minus1
<1>2. TypeOK'
  BY <1>1 DEF PassTime, TypeOK, relay, receiver, Mapped, history
<1>3. /\ pc' = pc /\ started' = started /\ consumed' = consumed
      /\ sentPliRelayThisCycle' = sentPliRelayThisCycle
      /\ Mapped' = Mapped /\ next' = next /\ chatQueue' = chatQueue
  BY DEF PassTime, relay, receiver, Mapped, history
<1>4. pc = "asleep" =>
        /\ \E target \in {Begin, Begin + CycleDuration} :
              time' + sleep' = target + late'
        /\ late' > 0 => sleep' = 0
        /\ line' <= sleep'
  BY <1>1, SlotInCycle DEF SlotInv, Minus1, Runnable
<1>5. pc \in {"slot", "checked"} =>
        /\ Begin <= time' /\ time' <= End + late'
        /\ started => time' = Begin + late'
        /\ line' <= line
  BY <1>1, SlotInCycle, Durations DEF SlotInv, Minus1, Runnable
<1>6. started /\ line' > 0 =>
        Begin <= time' /\ time' + line' <= Begin + SlotDuration
  BY <1>1, SlotInCycle DEF SlotInv, Minus1
<1>7. pc = "top" => line' = 0
  BY <1>1 DEF SlotInv, Minus1
<1>8. pc \in {"slot", "checked"} =>
        line' <= consumed + (IF sentPliRelayThisCycle THEN HeaderLength ELSE 0)
  BY <1>1, <1>5, Durations DEF SlotInv, TypeOK
<1>9. SlotInv'
  BY <1>3, <1>4, <1>5, <1>6, <1>7, <1>8 DEF SlotInv
<1> QED
  BY <1>2, <1>9

LEMMA Inductive == IInv /\ [SlotsNext]_slotsVars => IInv'
<1>1. ASSUME IInv, UNCHANGED slotsVars PROVE IInv'
  BY <1>1 DEF IInv, TypeOK, SlotInv, slotsVars, clock, relay, receiver,
              history,
              Mapped
<1> QED
  BY <1>1, ReceivePreserves, WaitForSlotPreserves, EnterSlotPreserves,
     TakeRelayPacketPreserves, LookAtMessagePreserves, DropPreserves,
     SendPreserves, LeaveSlotPreserves, TickPreserves
  DEF SlotsNext, Transmit

LEMMA InSlot == IInv => StaysInSlot
<1> SUFFICES ASSUME IInv, started, line > 0
             PROVE  Begin <= GpsTime /\ GpsTime + line <= Begin + SlotDuration
  BY DEF StaysInSlot
<1>1. time \in Nat /\ time < CycleDuration
  BY SlotInCycle DEF IInv, SlotInv, TypeOK
<1>2. GpsTime = time
  BY <1>1, SlotInCycle, Wrapped DEF GpsTime
<1> QED
  BY <1>2 DEF IInv, SlotInv

LEMMA AlwaysIInv == SlotsSpec => []IInv
  BY InitEstablishes, Inductive, PTL DEF SlotsSpec

(* Sleeps and times are natural numbers and the index stays in the map,    *)
(* whatever is received while the thread runs, and however late it runs.   *)
THEOREM SlotsTypeCorrect == SlotsSpec => []TypeOK
<1>1. IInv => TypeOK
  BY DEF IInv
<1> QED
  BY <1>1, AlwaysIInv, PTL

(* What is sent in a slot has gone out when the slot of the next radio     *)
(* begins: the pause at the end of a slot is longer than a header that is  *)
(* not counted and the delay of the thread.                                *)
THEOREM RadioStaysInSlot == SlotsSpec => []StaysInSlot
  BY InSlot, AlwaysIInv, PTL
-----------------------------------------------------------------------------
PositionRecord == [time : Int, place : Int, of : Int, relayed : BOOLEAN]
EntryRecord == [user : Users, dPlace : Int, dTime : Int, of : Times]
Packet == [user : Users, own : PositionRecord, entries : SUBSET EntryRecord]
Push == [user : Users, position : PositionRecord]

(* What u itself has reported at the time t, but for what is distorted. *)
FromReport(u, p, t) ==
    /\ p.of = t
    /\ Undistorted(p, TimeScale) => p.time = t
    /\ Undistorted(p, RangeScale) => p.place = Place[u][t]

(* Nothing but what u has reported by the time n. *)
Truthful(u, p, n) == \E t \in Times : t <= n /\ FromReport(u, p, t)

(* The differences of a packet undo to what users have reported. *)
TruthfulPacket(m, n) ==
    /\ Truthful(m.user, m.own, n)
    /\ ~m.own.relayed
    /\ IsFiniteSet(m.entries)
    /\ \A e \in m.entries :
        /\ e.of <= m.own.of
        /\ TimeScale = 1 => e.dTime = m.own.of - e.of
        /\ RangeScale = 1 => e.dPlace = m.own.place - Place[e.user][e.of]

TypeInv ==
    /\ now \in Times
    /\ receiveQueue \in [Radios -> Seq(Packet)]
    /\ gatewayQueue \in [Radios -> Seq(Push)]
    /\ latest \in [Radios -> [Users -> PositionRecord]]
    /\ pliMap \in [Radios -> [Users -> PositionRecord]]

(* Packets are heard in the order in which they were sent, and a plugin    *)
(* knows of no later report than the packets it has still to process.      *)
TruthInv ==
    \A r \in Radios :
        /\ \A i \in DOMAIN receiveQueue[r] :
            /\ TruthfulPacket(receiveQueue[r][i], now)
            /\ \A j \in DOMAIN receiveQueue[r] :
                 i <= j => receiveQueue[r][i].own.of <= receiveQueue[r][j].own.of
            /\ \A u \in Users : latest[r][u].of <= receiveQueue[r][i].own.of
        /\ \A i \in DOMAIN gatewayQueue[r] :
            Truthful(gatewayQueue[r][i].user, gatewayQueue[r][i].position, now)
        /\ \A u \in Users :
            /\ latest[r][u] = Unknown \/ Truthful(u, latest[r][u], now)
            /\ pliMap[r][u] = Unknown \/ Truthful(u, pliMap[r][u], now)

RelayInv == TypeInv /\ TruthInv
-----------------------------------------------------------------------------
(* The arithmetic of the packets. *)

LEMMA TimesAreNaturals ==
    /\ TimeModulus \in Nat
    /\ MinTime \in Times
    /\ \A t \in Times : t \in Nat /\ 0 < t /\ t < TimeModulus
  BY RelayAssumption DEF Times

LEMMA Remainder ==
    ASSUME NEW a \in Nat, NEW m \in Nat, a < m
    PROVE  a % m = a
  OBVIOUS

LEMMA NarrowKeepsWhatFits ==
    ASSUME NEW half \in Nat \ {0}, NEW x \in Int, FitsWidth(x, half)
    PROVE  Narrow(x, half) = x
<1>1. x + half \in Nat /\ 2 * half \in Nat /\ x + half < 2 * half
  BY DEF FitsWidth
<1>2. (x + half) % (2 * half) = x + half
  BY <1>1, Remainder
<1> QED
  BY <1>2 DEF Narrow

LEMMA QuotientByOne ==
    ASSUME NEW x \in Int
    PROVE  Quotient(x, 1) = x
<1>1. \A y \in Nat : y \div 1 = y
  OBVIOUS
<1> QED
  BY <1>1 DEF Quotient

LEMMA QuotientType ==
    ASSUME NEW x \in Int, NEW n \in Nat \ {0}
    PROVE  Quotient(x, n) \in Int
  BY DEF Quotient

LEMMA UnknownType ==
    /\ Unknown \in PositionRecord
    /\ Unknown.time = 0 /\ Unknown.of = 0 /\ ~Unknown.relayed
  BY DEF Unknown, Position, PositionRecord

LEMMA ReportedIsTruthful ==
    ASSUME NEW u \in Users, now \in Times
    PROVE  /\ Reported(u) \in PositionRecord /\ ~Reported(u).relayed
           /\ Reported(u).of = now /\ Reported(u).place = Place[u][now]
           /\ Truthful(u, Reported(u), now)
<1>1. Place[u][now] \in Int /\ now \in Int
  BY RelayAssumption, TimesAreNaturals
<1>2. /\ Reported(u) \in PositionRecord /\ Reported(u).relayed = FALSE
      /\ Reported(u).of = now /\ Reported(u).place = Place[u][now]
      /\ Reported(u).time = now
  BY <1>1 DEF Reported, Position, PositionRecord
<1> QED
  BY <1>1, <1>2 DEF Truthful, FromReport

LEMMA TruthLasts ==
    ASSUME NEW u, NEW p, NEW n \in Int, NEW k \in Int, n <= k,
           Truthful(u, p, n)
    PROVE  Truthful(u, p, k)
  BY TimesAreNaturals DEF Truthful

(* An entry is relayed only if both its differences fit their integers. *)
LEMMA EntriesAreTruthful ==
    ASSUME RelayInv, NEW r \in Radios,
           NEW us \in SUBSET Known(r), NEW e \in Entries(r, us)
    PROVE  /\ e \in EntryRecord
           /\ e.of <= now
           /\ TimeScale = 1 => e.dTime = now - e.of
           /\ RangeScale = 1 => e.dPlace = Place[r][now] - Place[e.user][e.of]
<1> DEFINE dPlace(u) == Quotient(Place[r][now] - pliMap[r][u].place, RangeScale)
           dTime(u) == Quotient(now - pliMap[r][u].time, TimeScale)
<1>1. PICK u \in us :
        /\ Relayable(dPlace(u), dTime(u))
        /\ e = [user |-> u, dPlace |-> Narrow(dPlace(u), HalfRange),
                dTime |-> Narrow(dTime(u), HalfAge), of |-> pliMap[r][u].of]
  BY DEF Entries
<1>2. r \in Users /\ u \in Users /\ pliMap[r][u] # Unknown
  BY RelayAssumption DEF Known
<1>3. Truthful(u, pliMap[r][u], now)
  BY <1>2 DEF RelayInv, TruthInv
<1>4. PICK t \in Times : t <= now /\ FromReport(u, pliMap[r][u], t)
  BY <1>3 DEF Truthful
<1>5. pliMap[r][u] \in PositionRecord /\ now \in Times
  BY <1>2 DEF RelayInv, TypeInv
<1>6. /\ pliMap[r][u].time \in Int /\ pliMap[r][u].place \in Int
      /\ pliMap[r][u].of = t /\ Place[u][t] \in Int
      /\ Place[r][now] \in Int /\ now \in Int /\ t \in Int
  BY <1>2, <1>4, <1>5, RelayAssumption, TimesAreNaturals
     DEF PositionRecord, FromReport
<1>7. dPlace(u) \in Int /\ dTime(u) \in Int
  <2>1. PICK x \in Int : x = Place[r][now] - pliMap[r][u].place
    BY <1>6
  <2>2. PICK y \in Int : y = now - pliMap[r][u].time
    BY <1>6
  <2>3. Quotient(x, RangeScale) \in Int /\ Quotient(y, TimeScale) \in Int
    BY QuotientType, RelayAssumption
  <2> QED
    BY <2>1, <2>2, <2>3
<1>8. /\ TimeScale = 1 => dTime(u) = now - t
      /\ RangeScale = 1 => dPlace(u) = Place[r][now] - Place[u][t]
  BY <1>4, <1>6, QuotientByOne DEF FromReport, Undistorted
<1> HIDE DEF dPlace, dTime
<1>9. /\ Narrow(dPlace(u), HalfRange) = dPlace(u)
      /\ Narrow(dTime(u), HalfAge) = dTime(u)
  BY <1>1, <1>7, NarrowKeepsWhatFits, RelayAssumption DEF Relayable
<1> QED
  BY <1>1, <1>2, <1>4, <1>6, <1>7, <1>8, <1>9 DEF EntryRecord

LEMMA EntriesAreFinite ==
    ASSUME NEW r \in Radios, NEW us \in SUBSET Users
    PROVE  IsFiniteSet(Entries(r, us))
<1> DEFINE dPlace(u) == Quotient(Place[r][now] - pliMap[r][u].place, RangeScale)
           dTime(u) == Quotient(now - pliMap[r][u].time, TimeScale)
           S == {v \in us : Relayable(dPlace(v), dTime(v))}
           entry(u) == [user |-> u, dPlace |-> Narrow(dPlace(u), HalfRange),
                        dTime |-> Narrow(dTime(u), HalfAge),
                        of |-> pliMap[r][u].of]
           f == [u \in S |-> entry(u)]
<1>1. Entries(r, us) = {entry(u) : u \in S}
  BY DEF Entries
<1>2. IsFiniteSet(S)
  BY RelayAssumption, FS_Subset
<1> HIDE DEF S, entry
<1>3. f \in Surjection(S, {entry(u) : u \in S})
  BY DEF Surjection
<1> QED
  BY <1>1, <1>2, <1>3, FS_Surjection

(* What a packet says of a user is what that user reported, but for the    *)
(* scales.                                                                 *)
LEMMA DecodedIsFromReport ==
    ASSUME NEW n, NEW m \in Packet, TruthfulPacket(m, n), NEW e \in m.entries
    PROVE  /\ e.user \in Users /\ e.of \in Times
           /\ Decoded(m, e) \in PositionRecord
           /\ Decoded(m, e).relayed = TRUE
           /\ FromReport(e.user, Decoded(m, e), e.of)
<1>1. PICK t \in Times : FromReport(m.user, m.own, t)
  BY DEF TruthfulPacket, Truthful
<1>2. e \in EntryRecord /\ m.user \in Users /\ m.own \in PositionRecord
  BY DEF Packet
<1>3. /\ e.user \in Users /\ e.of \in Times
      /\ e.dTime \in Int /\ e.dPlace \in Int
  BY <1>2 DEF EntryRecord
<1>4. /\ m.own.time = t /\ m.own.of = t /\ m.own.place \in Int
      /\ t \in Nat /\ e.of \in Nat /\ e.of < TimeModulus
      /\ TimeModulus \in Nat \ {0} /\ Place[e.user][e.of] \in Int
      /\ TimeScale \in Nat /\ RangeScale \in Nat
  <2>1. m.own.time = t /\ m.own.of = t
    BY <1>1 DEF TruthfulPacket, FromReport, Undistorted
  <2>2. m.own.place \in Int
    BY <1>2 DEF PositionRecord
  <2>3. /\ t \in Nat /\ e.of \in Nat /\ e.of < TimeModulus
        /\ TimeModulus \in Nat \ {0}
    BY <1>3, TimesAreNaturals
  <2>4. /\ Place[e.user][e.of] \in Int
        /\ TimeScale \in Nat /\ RangeScale \in Nat
    BY <1>3, RelayAssumption
  <2> QED
    BY <2>1, <2>2, <2>3, <2>4
<1> DEFINE then == ((m.own.time - e.dTime) * TimeScale) % TimeModulus
           there == (m.own.place - e.dPlace) * RangeScale
<1>5. (m.own.time - e.dTime) * TimeScale \in Int /\ there \in Int
  BY <1>3, <1>4
<1>6. then \in Int
  BY <1>4, <1>5
<1>7. TimeScale = 1 => then = e.of
  <2>1. TimeScale = 1 => (m.own.time - e.dTime) * TimeScale = e.of
    BY <1>3, <1>4 DEF TruthfulPacket
  <2> QED
    BY <1>4, <2>1, Remainder
<1>8. RangeScale = 1 => there = Place[e.user][e.of]
  BY <1>3, <1>4 DEF TruthfulPacket
<1>9. Decoded(m, e) = Position(then, there, e.of, TRUE)
  BY DEF Decoded
<1> HIDE DEF then, there
<1>10. /\ Decoded(m, e) \in PositionRecord /\ Decoded(m, e).relayed = TRUE
       /\ Decoded(m, e).time = then /\ Decoded(m, e).place = there
       /\ Decoded(m, e).of = e.of
  BY <1>4, <1>5, <1>6, <1>9 DEF Position, PositionRecord
<1> QED
  BY <1>3, <1>7, <1>8, <1>10 DEF FromReport, Undistorted

LEMMA SetToSeqType ==
    ASSUME NEW S, IsFiniteSet(S)
    PROVE  SetToSeq(S) \in Seq(S)
<1>1. Cardinality(S) \in Nat /\ ExistsBijection(1 .. Cardinality(S), S)
  BY FS_CardinalityType
<1>2. \E f \in [1 .. Cardinality(S) -> S] : IsInjective(f)
  BY <1>1 DEF ExistsBijection, Bijection, Injection
<1>3. SetToSeq(S) \in [1 .. Cardinality(S) -> S]
  BY <1>2 DEF SetToSeq
<1> QED
  BY <1>1, <1>3
-----------------------------------------------------------------------------
(* The queues. *)

(* A packet that is sent now goes behind all that was sent before. *)
LEMMA HeardKeepsTruth ==
    ASSUME RelayInv, NEW rs \in SUBSET Radios, NEW m \in Packet,
           TruthfulPacket(m, now), m.own.of = now, Heard(rs, m),
           UNCHANGED <<now, gatewayQueue, latest, pliMap>>
    PROVE  RelayInv'
<1>1. \A r \in Radios : receiveQueue[r] \in Seq(Packet)
  BY DEF RelayInv, TypeInv
<1>2. TypeInv'
  <2>1. \A r \in Radios : Append(receiveQueue[r], m) \in Seq(Packet)
    BY <1>1
  <2>2. receiveQueue' \in [Radios -> Seq(Packet)]
    BY <1>1, <2>1 DEF Heard
  <2> QED
    BY <2>2 DEF RelayInv, TypeInv
<1>3. \A p \in PositionRecord : p.of \in Int
  BY DEF PositionRecord
<1>4. now \in Int
  BY TimesAreNaturals DEF RelayInv, TypeInv
<1>5. ASSUME NEW r \in Radios, NEW u \in Users
      PROVE  latest[r][u].of <= now
  <2>1. CASE latest[r][u] = Unknown
    BY <1>4, <2>1, UnknownType, TimesAreNaturals DEF RelayInv, TypeInv
  <2>2. CASE Truthful(u, latest[r][u], now)
    BY <2>2 DEF Truthful, FromReport
  <2> QED
    BY <2>1, <2>2 DEF RelayInv, TruthInv
<1>6. ASSUME NEW n \in Packet, TruthfulPacket(n, now)
      PROVE  n.own.of <= now
  BY <1>6 DEF TruthfulPacket, Truthful, FromReport
<1>7. ASSUME NEW r \in Radios
      PROVE  /\ \A i \in DOMAIN receiveQueue'[r] :
                  /\ TruthfulPacket(receiveQueue'[r][i], now)
                  /\ \A j \in DOMAIN receiveQueue'[r] :
                      i <= j => receiveQueue'[r][i].own.of
                                  <= receiveQueue'[r][j].own.of
                  /\ \A u \in Users :
                      latest[r][u].of <= receiveQueue'[r][i].own.of
  <2>1. CASE r \notin rs
    BY <2>1 DEF RelayInv, TruthInv, Heard
  <2>2. CASE r \in rs
    <3> DEFINE q == receiveQueue[r]
    <3>1. q \in Seq(Packet) /\ receiveQueue'[r] = Append(q, m)
      BY <1>1, <2>2 DEF Heard
    <3> HIDE DEF q
    <3>2. /\ Len(q) \in Nat /\ DOMAIN q = 1 .. Len(q)
          /\ DOMAIN receiveQueue'[r] = 1 .. Len(q) + 1
          /\ \A i \in DOMAIN q : receiveQueue'[r][i] = q[i] /\ q[i] \in Packet
          /\ receiveQueue'[r][Len(q) + 1] = m
      BY <3>1
    <3>3. \A i \in DOMAIN q :
            /\ TruthfulPacket(q[i], now)
            /\ \A j \in DOMAIN q : i <= j => q[i].own.of <= q[j].own.of
            /\ \A u \in Users : latest[r][u].of <= q[i].own.of
            /\ q[i].own.of <= now
      BY <1>6, <3>2 DEF q, RelayInv, TruthInv
    <3> QED
      BY SMTT(40), <1>4, <1>5, <3>2, <3>3
  <2> QED
    BY <2>1, <2>2
<1>8. TruthInv'
  BY <1>7 DEF RelayInv, TruthInv
<1> QED
  BY <1>2, <1>8 DEF RelayInv

LEMMA PushedKeepsTruth ==
    ASSUME RelayInv, NEW rs \in SUBSET Radios, NEW pushes \in Seq(Push),
           \A i \in DOMAIN pushes : Truthful(pushes[i].user, pushes[i].position, now),
           Pushed(rs, pushes)
    PROVE  /\ gatewayQueue' \in [Radios -> Seq(Push)]
           /\ \A r \in Radios : \A i \in DOMAIN gatewayQueue'[r] :
                Truthful(gatewayQueue'[r][i].user, gatewayQueue'[r][i].position, now)
<1>1. \A r \in Radios : gatewayQueue[r] \in Seq(Push)
  BY DEF RelayInv, TypeInv
<1>2. \A r \in Radios : gatewayQueue[r] \o pushes \in Seq(Push)
  BY <1>1
<1>3. gatewayQueue' \in [Radios -> Seq(Push)]
  BY <1>1, <1>2 DEF Pushed
<1>4. ASSUME NEW r \in Radios, NEW i \in DOMAIN gatewayQueue'[r]
      PROVE  Truthful(gatewayQueue'[r][i].user, gatewayQueue'[r][i].position, now)
  <2>1. CASE r \notin rs
    BY <1>4, <2>1 DEF Pushed, RelayInv, TruthInv
  <2>2. CASE r \in rs
    <3> DEFINE q == gatewayQueue[r]
    <3>1. q \in Seq(Push) /\ gatewayQueue'[r] = q \o pushes
      BY <1>1, <2>2 DEF Pushed
    <3>2. \A j \in DOMAIN q : Truthful(q[j].user, q[j].position, now)
      BY DEF RelayInv, TruthInv
    <3> HIDE DEF q
    <3>3. i \in 1 .. Len(q) + Len(pushes)
      BY <3>1
    <3>4. CASE i <= Len(q)
      BY <3>1, <3>2, <3>3, <3>4
    <3>5. CASE i > Len(q)
      <4>1. /\ i - Len(q) \in DOMAIN pushes
            /\ gatewayQueue'[r][i] = pushes[i - Len(q)]
        BY <3>1, <3>3, <3>5
      <4> QED
        BY <4>1
    <3> QED
      BY <3>1, <3>3, <3>4, <3>5
  <2> QED
    BY <2>1, <2>2
<1> QED
  BY <1>3, <1>4
-----------------------------------------------------------------------------
(* The actions. *)

LEMMA RelayInvInit == Init => RelayInv
<1> SUFFICES ASSUME Init
             PROVE  RelayInv
  OBVIOUS
<1>1. Unknown \in PositionRecord
  BY UnknownType
<1>2. << >> \in Seq(Packet) /\ << >> \in Seq(Push)
  OBVIOUS
<1>3. /\ receiveQueue \in [Radios -> Seq(Packet)]
      /\ gatewayQueue \in [Radios -> Seq(Push)]
      /\ \A r \in Radios : receiveQueue[r] = << >> /\ gatewayQueue[r] = << >>
  BY <1>2 DEF Init
<1>4. /\ latest \in [Radios -> [Users -> PositionRecord]]
      /\ \A r \in Radios, u \in Users : latest[r][u] = Unknown
  BY <1>1 DEF Init
<1>5. TypeInv
  BY <1>3, <1>4, TimesAreNaturals DEF Init, TypeInv
<1>6. TruthInv
  BY <1>3, <1>4 DEF Init, TruthInv
<1> QED
  BY <1>5, <1>6 DEF RelayInv

LEMMA RelayInvReport ==
    ASSUME RelayInv, NEW u \in Users, NEW rs \in SUBSET Radios
    PROVE  /\ ReportOnAir(u, rs) => RelayInv'
           /\ ReportToGateway(u) => RelayInv'
           /\ \A us \in SUBSET Users :
                u \in Radios /\ Relay(u, us, rs) => RelayInv'
<1>1. now \in Times /\ now \in Int
  BY TimesAreNaturals DEF RelayInv, TypeInv
<1>2. /\ Reported(u) \in PositionRecord /\ Truthful(u, Reported(u), now)
      /\ Reported(u).of = now /\ Reported(u).place = Place[u][now]
      /\ ~Reported(u).relayed
  BY <1>1, ReportedIsTruthful
<1>3. ASSUME ReportOnAir(u, rs)
      PROVE  RelayInv'
  <2> DEFINE m == [user |-> u, own |-> Reported(u), entries |-> {}]
  <2>1. m \in Packet
    BY <1>2 DEF Packet
  <2>2. TruthfulPacket(m, now) /\ m.own.of = now
    BY <1>2, FS_EmptySet DEF TruthfulPacket
  <2>3. Heard(rs, m) /\ UNCHANGED <<now, gatewayQueue, latest, pliMap>>
    BY <1>3 DEF ReportOnAir, Report
  <2> HIDE DEF m
  <2> QED
    BY <2>1, <2>2, <2>3, HeardKeepsTruth
<1>4. ASSUME ReportToGateway(u)
      PROVE  RelayInv'
  <2> DEFINE pushes == <<[user |-> u, position |-> Reported(u)]>>
  <2>1. pushes \in Seq(Push) /\ DOMAIN pushes = {1}
    BY <1>2 DEF Push
  <2>2. \A i \in DOMAIN pushes : Truthful(pushes[i].user, pushes[i].position, now)
    BY <1>2, <2>1
  <2>3. Pushed(Radios, pushes) /\ UNCHANGED <<now, receiveQueue, latest, pliMap>>
    BY <1>4 DEF ReportToGateway, Report
  <2> HIDE DEF pushes
  <2>4. /\ gatewayQueue' \in [Radios -> Seq(Push)]
        /\ \A r \in Radios : \A i \in DOMAIN gatewayQueue'[r] :
              Truthful(gatewayQueue'[r][i].user, gatewayQueue'[r][i].position, now)
    BY <2>1, <2>2, <2>3, PushedKeepsTruth
  <2> QED
    BY <2>3, <2>4 DEF RelayInv, TypeInv, TruthInv
<1>5. ASSUME NEW us \in SUBSET Users, u \in Radios, Relay(u, us, rs)
      PROVE  RelayInv'
  <2> DEFINE m == [user |-> u, own |-> Reported(u), entries |-> Entries(u, us)]
  <2>1. us \in SUBSET Known(u)
    BY <1>5 DEF Relay
  <2>2. \A e \in Entries(u, us) :
           /\ e \in EntryRecord /\ e.of <= now
           /\ TimeScale = 1 => e.dTime = now - e.of
           /\ RangeScale = 1 => e.dPlace = Place[u][now] - Place[e.user][e.of]
    BY <1>5, <2>1, EntriesAreTruthful
  <2>3. IsFiniteSet(Entries(u, us))
    BY <1>5, EntriesAreFinite
  <2>4. m \in Packet
    BY <1>2, <2>2 DEF Packet
  <2>5. TruthfulPacket(m, now) /\ m.own.of = now
    BY <1>2, <2>2, <2>3 DEF TruthfulPacket
  <2>6. Heard(rs, m) /\ UNCHANGED <<now, gatewayQueue, latest, pliMap>>
    BY <1>5 DEF Relay, Report
  <2> HIDE DEF m
  <2> QED
    BY <2>4, <2>5, <2>6, HeardKeepsTruth
<1> QED
  BY <1>3, <1>4, <1>5

LEMMA RelayInvTick == RelayInv /\ Tick => RelayInv'
<1> SUFFICES ASSUME RelayInv, Tick
             PROVE  RelayInv'
  OBVIOUS
<1>1. now' \in Times /\ now \in Int /\ now' \in Int /\ now <= now'
  BY RelayAssumption DEF RelayInv, TypeInv, Tick, Times
<1>2. ASSUME NEW m, TruthfulPacket(m, now)
      PROVE  TruthfulPacket(m, now')
  BY <1>1, <1>2, TruthLasts DEF TruthfulPacket
<1>3. ASSUME NEW u, NEW p, Truthful(u, p, now)
      PROVE  Truthful(u, p, now')
  BY <1>1, <1>3, TruthLasts
<1>4. UNCHANGED <<receiveQueue, gatewayQueue, latest, pliMap>>
  BY DEF Tick, queues
<1>5. TypeInv'
  BY <1>1, <1>4 DEF RelayInv, TypeInv
<1>6. TruthInv'
  BY <1>2, <1>3, <1>4 DEF RelayInv, TruthInv
<1> QED
  BY <1>5, <1>6 DEF RelayInv

LEMMA RelayInvPush ==
    ASSUME RelayInv, NEW r \in Radios, OnPushDataReceived(r)
    PROVE  RelayInv'
<1> DEFINE q == gatewayQueue[r]
           p == Head(q)
<1>1. /\ q \in Seq(Push) /\ q # << >>
      /\ gatewayQueue' = [gatewayQueue EXCEPT ![r] = Tail(q)]
      /\ pliMap' = [pliMap EXCEPT ![r][p.user] = p.position]
      /\ UNCHANGED <<now, receiveQueue, latest>>
  BY DEF OnPushDataReceived, RelayInv, TypeInv
<1>2. \A i \in DOMAIN q : Truthful(q[i].user, q[i].position, now)
  BY DEF RelayInv, TruthInv
<1>3. gatewayQueue \in [Radios -> Seq(Push)]
  BY DEF RelayInv, TypeInv
<1> HIDE DEF q
<1>4. /\ p \in Push /\ Truthful(p.user, p.position, now)
      /\ Tail(q) \in Seq(Push)
      /\ \A i \in DOMAIN Tail(q) : Tail(q)[i] = q[i + 1] /\ i + 1 \in DOMAIN q
  BY <1>1, <1>2
<1>5. /\ gatewayQueue' \in [Radios -> Seq(Push)]
      /\ gatewayQueue'[r] = Tail(q)
      /\ \A s \in Radios : s # r => gatewayQueue'[s] = gatewayQueue[s]
  BY <1>1, <1>3, <1>4
<1> HIDE DEF p
<1>6. p.user \in Users /\ p.position \in PositionRecord
  BY <1>4 DEF Push
<1>7. /\ pliMap' \in [Radios -> [Users -> PositionRecord]]
      /\ \A s \in Radios, u \in Users :
          pliMap'[s][u] = IF s = r /\ u = p.user THEN p.position ELSE pliMap[s][u]
  BY <1>1, <1>6 DEF RelayInv, TypeInv
<1>8. TypeInv'
  BY <1>1, <1>5, <1>7 DEF RelayInv, TypeInv
<1>9. TruthInv'
  BY <1>1, <1>2, <1>4, <1>5, <1>7 DEF RelayInv, TruthInv
<1> QED
  BY <1>8, <1>9 DEF RelayInv
-----------------------------------------------------------------------------
(* The message processor. *)

(* A report of u, no younger than the packet that it comes with and, unless *)
(* times are distorted, no older than what r published of u.               *)
Fresh(r, u, p, packet) ==
    \E t \in Times :
        /\ FromReport(u, p, t) /\ t <= packet.own.of
        /\ Undistorted(p, TimeScale) => latest[r][u].of <= t

LEMMA FirstPacket ==
    ASSUME RelayInv, NEW r \in Radios, receiveQueue[r] # << >>
    PROVE  LET packet == Head(receiveQueue[r]) IN
           /\ packet \in Packet /\ TruthfulPacket(packet, now)
           /\ packet.user \in Users /\ packet.own \in PositionRecord
           /\ packet.own.of \in Times /\ packet.own.of <= now
           /\ Fresh(r, packet.user, packet.own, packet)
           /\ \A i \in DOMAIN receiveQueue[r] :
                packet.own.of <= receiveQueue[r][i].own.of
<1> DEFINE q == receiveQueue[r]
           packet == Head(q)
<1>1. /\ q \in Seq(Packet) /\ packet = q[1] /\ packet \in Packet
      /\ 1 \in DOMAIN q /\ \A i \in DOMAIN q : 1 <= i
  BY DEF RelayInv, TypeInv
<1>2. /\ TruthfulPacket(packet, now)
      /\ \A i \in DOMAIN q : packet.own.of <= q[i].own.of
      /\ \A u \in Users : latest[r][u].of <= packet.own.of
  BY <1>1 DEF RelayInv, TruthInv
<1> HIDE DEF q, packet
<1>3. packet.user \in Users /\ packet.own \in PositionRecord
  BY <1>1 DEF Packet
<1>4. PICK t \in Times : t <= now /\ FromReport(packet.user, packet.own, t)
  BY <1>2 DEF TruthfulPacket, Truthful
<1>5. packet.own.of = t /\ t \in Nat
  BY <1>4, TimesAreNaturals DEF FromReport
<1>6. Fresh(r, packet.user, packet.own, packet)
  BY <1>2, <1>3, <1>4, <1>5 DEF Fresh
<1> QED
  BY <1>1, <1>2, <1>3, <1>4, <1>5, <1>6 DEF q, packet

LEMMA NewsAreFresh ==
    ASSUME RelayInv, NEW r \in Radios,
           NEW packet \in Packet, TruthfulPacket(packet, now)
    PROVE  /\ IsFiniteSet(News(r, packet))
           /\ \A n \in News(r, packet) :
                n \in Push /\ Fresh(r, n.user, n.position, packet)
<1> DEFINE S == {e \in packet.entries : ~IsOlder(r, e.user, Decoded(packet, e))}
           push(e) == [user |-> e.user, position |-> Decoded(packet, e)]
           f == [e \in S |-> push(e)]
<1>1. News(r, packet) = {push(e) : e \in S}
  BY DEF News
<1>2. IsFiniteSet(S)
  BY FS_Subset DEF TruthfulPacket
<1>3. ASSUME NEW n \in News(r, packet)
      PROVE  n \in Push /\ Fresh(r, n.user, n.position, packet)
  <2>1. PICK e \in S : n = push(e)
    BY <1>1
  <2> DEFINE p == Decoded(packet, e)
  <2>2. /\ e.user \in Users /\ e.of \in Times /\ e.of \in Nat
        /\ p \in PositionRecord /\ FromReport(e.user, p, e.of)
    BY DecodedIsFromReport, TimesAreNaturals
  <2>3. n.user = e.user /\ n.position = p
    BY <2>1
  <2>4. ~(p.time < latest[r][e.user].time)
    BY DEF IsOlder
  <2> HIDE DEF p
  <2>5. latest[r][e.user] \in PositionRecord
    BY <2>2 DEF RelayInv, TypeInv
  <2>6. TimeScale = 1 => latest[r][e.user].time = latest[r][e.user].of
    <3>1. CASE latest[r][e.user] = Unknown
      BY <3>1, UnknownType
    <3>2. CASE Truthful(e.user, latest[r][e.user], now)
      BY <3>2 DEF Truthful, FromReport, Undistorted
    <3> QED
      BY <2>2, <3>1, <3>2 DEF RelayInv, TruthInv
  <2>7. Undistorted(p, TimeScale) => latest[r][e.user].of <= e.of
    <3>1. CASE TimeScale = 1
      BY <2>2, <2>4, <2>5, <2>6, <3>1
         DEF FromReport, Undistorted, PositionRecord
    <3>2. CASE TimeScale # 1
      <4>1. p.relayed
        BY DecodedIsFromReport DEF p
      <4> QED
        BY <3>2, <4>1 DEF Undistorted
    <3> QED
      BY <3>1, <3>2
  <2>8. e.of <= packet.own.of
    BY DEF TruthfulPacket
  <2> QED
    BY <2>1, <2>2, <2>3, <2>7, <2>8 DEF Push, Fresh
<1> HIDE DEF S, push
<1>4. f \in Surjection(S, {push(e) : e \in S})
  BY DEF Surjection
<1>5. IsFiniteSet(News(r, packet))
  BY <1>1, <1>2, <1>4, FS_Surjection
<1> QED
  BY <1>3, <1>5

(* What a radio publishes and relays of a user either stays as it is or is *)
(* replaced by news.                                                       *)
LEMMA ProcessedIsFresh ==
    ASSUME RelayInv, NEW r \in Radios, ProcessMessage(r)
    PROVE  LET packet == Head(receiveQueue[r]) IN
           /\ latest' \in [Radios -> [Users -> PositionRecord]]
           /\ pliMap' \in [Radios -> [Users -> PositionRecord]]
           /\ \A s \in Radios, u \in Users :
               \/ /\ latest'[s][u] = latest[s][u]
                  /\ pliMap'[s][u] = pliMap[s][u]
               \/ /\ s = r
                  /\ latest'[s][u] = pliMap'[s][u]
                  /\ Fresh(r, u, latest'[s][u], packet)
<1> DEFINE packet == Head(receiveQueue[r])
           news == News(r, packet)
           new(u) == IF u = packet.user THEN packet.own
                     ELSE (CHOOSE n \in news : n.user = u).position
           Told(u) == u = packet.user \/ \E n \in news : n.user = u
           updated(f) == [u \in Users |-> IF Told(u) THEN new(u) ELSE f[u]]
<1>1. receiveQueue[r] # << >>
  BY DEF ProcessMessage
<1>2. /\ packet \in Packet /\ TruthfulPacket(packet, now)
      /\ packet.user \in Users /\ packet.own \in PositionRecord
      /\ Fresh(r, packet.user, packet.own, packet)
  BY <1>1, FirstPacket
<1>3. \A n \in news : n \in Push /\ Fresh(r, n.user, n.position, packet)
  BY <1>2, NewsAreFresh
<1>4. /\ latest' = [latest EXCEPT ![r] = updated(latest[r])]
      /\ pliMap' = [pliMap EXCEPT ![r] = updated(pliMap[r])]
  BY DEF ProcessMessage
<1> HIDE DEF packet, news
<1>5. ASSUME NEW u \in Users, Told(u)
      PROVE  Fresh(r, u, new(u), packet) /\ new(u) \in PositionRecord
  <2>1. CASE u = packet.user
    BY <1>2, <2>1
  <2>2. CASE u # packet.user
    <3>1. PICK n \in news : n.user = u /\ new(u) = n.position
      BY <1>5, <2>2
    <3> QED
      BY <1>3, <3>1 DEF Push
  <2> QED
    BY <2>1, <2>2
<1> HIDE DEF new, Told
<1>6. /\ latest \in [Radios -> [Users -> PositionRecord]]
      /\ pliMap \in [Radios -> [Users -> PositionRecord]]
  BY DEF RelayInv, TypeInv
<1>7. /\ updated(latest[r]) \in [Users -> PositionRecord]
      /\ updated(pliMap[r]) \in [Users -> PositionRecord]
  BY <1>5, <1>6
<1>8. /\ latest' \in [Radios -> [Users -> PositionRecord]]
      /\ pliMap' \in [Radios -> [Users -> PositionRecord]]
  BY <1>4, <1>6, <1>7
<1>9. ASSUME NEW s \in Radios, NEW u \in Users
      PROVE  \/ latest'[s][u] = latest[s][u] /\ pliMap'[s][u] = pliMap[s][u]
             \/ /\ s = r /\ latest'[s][u] = pliMap'[s][u]
                /\ Fresh(r, u, latest'[s][u], packet)
  <2>1. CASE s # r
    BY <1>4, <1>6, <2>1
  <2>2. CASE s = r
    <3>1. /\ latest'[s][u] = IF Told(u) THEN new(u) ELSE latest[s][u]
          /\ pliMap'[s][u] = IF Told(u) THEN new(u) ELSE pliMap[s][u]
      BY <1>4, <1>6, <2>2
    <3> QED
      BY <1>5, <2>2, <3>1
  <2> QED
    BY <2>1, <2>2
<1> QED
  BY <1>8, <1>9 DEF packet

LEMMA RelayInvProcess ==
    ASSUME RelayInv, NEW r \in Radios, ProcessMessage(r)
    PROVE  RelayInv'
<1> DEFINE q == receiveQueue[r]
           packet == Head(q)
           own == [user |-> packet.user, position |-> packet.own]
           news == News(r, packet)
           pushes == Append(SetToSeq(news), own)
<1>1. q # << >> /\ now' = now /\ now \in Int
  BY TimesAreNaturals DEF ProcessMessage, RelayInv, TypeInv
<1>2. /\ packet \in Packet /\ TruthfulPacket(packet, now)
      /\ packet.user \in Users /\ packet.own \in PositionRecord
      /\ packet.own.of \in Times /\ packet.own.of <= now
      /\ \A i \in DOMAIN q : packet.own.of <= q[i].own.of
  BY <1>1, FirstPacket
<1>3. /\ IsFiniteSet(news)
      /\ \A n \in news : n \in Push /\ Fresh(r, n.user, n.position, packet)
  BY <1>2, NewsAreFresh
<1>4. /\ latest' \in [Radios -> [Users -> PositionRecord]]
      /\ pliMap' \in [Radios -> [Users -> PositionRecord]]
      /\ \A s \in Radios, u \in Users :
          \/ latest'[s][u] = latest[s][u] /\ pliMap'[s][u] = pliMap[s][u]
          \/ /\ s = r /\ latest'[s][u] = pliMap'[s][u]
             /\ Fresh(r, u, latest'[s][u], packet)
  BY ProcessedIsFresh
<1>5. /\ receiveQueue' = [receiveQueue EXCEPT ![r] = Tail(q)]
      /\ Pushed(IF Linked THEN Radios \ {r} ELSE {}, pushes)
  BY DEF ProcessMessage
<1>6. ASSUME NEW u \in Users, NEW p, Fresh(r, u, p, packet)
      PROVE  Truthful(u, p, now) /\ p.of <= packet.own.of
  <2>1. PICK t \in Times : FromReport(u, p, t) /\ t <= packet.own.of
    BY <1>6 DEF Fresh
  <2>2. p.of = t /\ t \in Nat /\ packet.own.of \in Nat
    BY <1>2, <2>1, TimesAreNaturals DEF FromReport
  <2> QED
    BY <1>1, <1>2, <2>1, <2>2 DEF Truthful
<1>7. /\ pushes \in Seq(Push)
      /\ \A i \in DOMAIN pushes : Truthful(pushes[i].user, pushes[i].position, now)
  <2> DEFINE TruePush == {n \in Push : Truthful(n.user, n.position, now)}
  <2>1. news \in SUBSET TruePush
    BY <1>3, <1>6 DEF Push
  <2>2. own \in TruePush
    BY <1>2 DEF TruthfulPacket, Push
  <2>3. SetToSeq(news) \in Seq(news)
    BY <1>3, SetToSeqType
  <2> HIDE DEF news, own
  <2>4. SetToSeq(news) \in Seq(TruePush)
    BY <2>1, <2>3
  <2> HIDE DEF TruePush
  <2>5. pushes \in Seq(TruePush)
    BY <2>2, <2>4
  <2>6. \A i \in DOMAIN pushes : pushes[i] \in TruePush
    BY <2>5
  <2>7. TruePush \in SUBSET Push
    BY DEF TruePush
  <2> HIDE DEF pushes
  <2>8. pushes \in Seq(Push)
    BY <2>5, <2>7
  <2> QED
    BY <2>6, <2>8 DEF TruePush
<1> HIDE DEF pushes
<1>8. /\ gatewayQueue' \in [Radios -> Seq(Push)]
      /\ \A s \in Radios : \A i \in DOMAIN gatewayQueue'[s] :
            Truthful(gatewayQueue'[s][i].user, gatewayQueue'[s][i].position, now)
  <2> DEFINE rs == IF Linked THEN Radios \ {r} ELSE {}
  <2>1. rs \in SUBSET Radios
    OBVIOUS
  <2> HIDE DEF rs
  <2>2. Pushed(rs, pushes)
    BY <1>5 DEF rs
  <2> QED
    BY <1>7, <2>1, <2>2, PushedKeepsTruth
<1>9. /\ receiveQueue \in [Radios -> Seq(Packet)] /\ q \in Seq(Packet)
      /\ q = receiveQueue[r]
  BY DEF RelayInv, TypeInv
<1> HIDE DEF q
<1>10. /\ Tail(q) \in Seq(Packet)
       /\ \A i \in DOMAIN Tail(q) : Tail(q)[i] = q[i + 1] /\ i + 1 \in DOMAIN q
                                   /\ i \in Nat
  BY <1>1, <1>9
<1>11. /\ receiveQueue' \in [Radios -> Seq(Packet)]
       /\ receiveQueue'[r] = Tail(q)
       /\ \A s \in Radios : s # r => receiveQueue'[s] = receiveQueue[s]
  BY <1>5, <1>9, <1>10
<1>12. TypeInv'
  BY <1>1, <1>4, <1>8, <1>11 DEF RelayInv, TypeInv
<1> HIDE DEF packet
<1>13. ASSUME NEW s \in Radios
       PROVE  /\ \A i \in DOMAIN receiveQueue'[s] :
                 /\ TruthfulPacket(receiveQueue'[s][i], now)
                 /\ \A j \in DOMAIN receiveQueue'[s] :
                     i <= j => receiveQueue'[s][i].own.of
                                 <= receiveQueue'[s][j].own.of
                 /\ \A u \in Users :
                     latest'[s][u].of <= receiveQueue'[s][i].own.of
              /\ \A u \in Users :
                 /\ latest'[s][u] = Unknown \/ Truthful(u, latest'[s][u], now)
                 /\ pliMap'[s][u] = Unknown \/ Truthful(u, pliMap'[s][u], now)
  <2>1. \A i \in DOMAIN receiveQueue[s] :
           /\ TruthfulPacket(receiveQueue[s][i], now)
           /\ \A j \in DOMAIN receiveQueue[s] :
               i <= j => receiveQueue[s][i].own.of <= receiveQueue[s][j].own.of
           /\ \A u \in Users : latest[s][u].of <= receiveQueue[s][i].own.of
    BY DEF RelayInv, TruthInv
  <2>2. \A u \in Users :
           /\ latest[s][u] = Unknown \/ Truthful(u, latest[s][u], now)
           /\ pliMap[s][u] = Unknown \/ Truthful(u, pliMap[s][u], now)
    BY DEF RelayInv, TruthInv
  <2>3. CASE s # r
    BY <1>4, <1>11, <2>1, <2>2, <2>3
  <2>4. CASE s = r
    <3>1. \A i \in DOMAIN receiveQueue'[s] :
             /\ receiveQueue'[s][i] = receiveQueue[s][i + 1]
             /\ i + 1 \in DOMAIN receiveQueue[s] /\ i \in Nat
      BY <1>9, <1>10, <1>11, <2>4
    <3>2. \A i \in DOMAIN receiveQueue'[s] :
             /\ receiveQueue'[s][i].own.of \in Int
             /\ packet.own.of <= receiveQueue'[s][i].own.of
      <4>1. \A m \in Packet : m.own.of \in Int
        BY DEF Packet, PositionRecord
      <4> QED
        BY <1>2, <1>9, <1>10, <1>11, <2>4, <4>1
    <3>3. ASSUME NEW u \in Users, NEW i \in DOMAIN receiveQueue'[s]
          PROVE  latest'[s][u].of <= receiveQueue'[s][i].own.of
      <4>1. CASE latest'[s][u] = latest[s][u]
        BY <2>1, <3>1, <4>1
      <4>2. CASE Fresh(r, u, latest'[s][u], packet)
        <5>1. /\ latest'[s][u].of <= packet.own.of
              /\ latest'[s][u].of \in Int /\ packet.own.of \in Int
          <6>1. latest'[s][u] \in PositionRecord
            BY <1>4
          <6> QED
            BY <1>2, <1>6, <4>2, <6>1, TimesAreNaturals DEF PositionRecord
        <5> QED
          BY <3>2, <5>1
      <4> QED
        BY <1>4, <4>1, <4>2
    <3>4. \A u \in Users :
             /\ latest'[s][u] = Unknown \/ Truthful(u, latest'[s][u], now)
             /\ pliMap'[s][u] = Unknown \/ Truthful(u, pliMap'[s][u], now)
      BY <1>4, <1>6, <2>2
    <3> QED
      BY <2>1, <3>1, <3>3, <3>4
  <2> QED
    BY <2>3, <2>4
<1>14. TruthInv'
  BY <1>1, <1>8, <1>13 DEF TruthInv
<1> QED
  BY <1>12, <1>14 DEF RelayInv

LEMMA RelayInvNext ==
    ASSUME RelayInv, [Next]_vars
    PROVE  RelayInv'
<1>1. CASE Tick
  BY <1>1, RelayInvTick
<1>2. CASE \E u \in Users : \/ ReportToGateway(u)
                           \/ \E rs \in SUBSET Radios : ReportOnAir(u, rs)
  BY <1>2, RelayInvReport
<1>3. CASE \E r \in Radios, us \in SUBSET Users, rs \in SUBSET Radios :
             Relay(r, us, rs)
  BY <1>3, RelayInvReport, RelayAssumption
<1>4. CASE \E r \in Radios : ProcessMessage(r)
  BY <1>4, RelayInvProcess
<1>5. CASE \E r \in Radios : OnPushDataReceived(r)
  BY <1>5, RelayInvPush
<1>6. CASE UNCHANGED vars
  BY <1>6 DEF vars, queues, RelayInv, TypeInv, TruthInv
<1> QED
  BY <1>1, <1>2, <1>3, <1>4, <1>5, <1>6 DEF Next
-----------------------------------------------------------------------------
(* However often and however late a position has been relayed, what a      *)
(* radio publishes of a user has the time and the place of a report of     *)
(* that user, exactly, except that relaying distorts the one whose scale   *)
(* is not 1; what has not been relayed has both at every scale.            *)
THEOREM PositionsPassThrough == Spec => []PassedExactly
<1>1. RelayInv => PassedExactly
  BY DEF RelayInv, TruthInv, Truthful, FromReport, PassedExactly
<1>2. RelayInv /\ [Next]_vars => RelayInv'
  BY RelayInvNext
<1> QED
  BY <1>1, <1>2, RelayInvInit, PTL DEF Spec

(* No step replaces what a radio publishes of a user by a report of that   *)
(* user that is older, nor by an older one that has been relayed if times  *)
(* are not scaled, though the same position comes back by other radios,    *)
(* relays overtake each other, and nobody looks at the times of reports.   *)
THEOREM OldNewsNeverReplace == Spec => NewsIsNewer
<1> DEFINE Kept == \A r \in Radios, u \in Users :
                      Undistorted(latest'[r][u], TimeScale) =>
                          latest'[r][u].of >= latest[r][u].of
<1>1. RelayInv /\ [Next]_vars => [Kept]_vars
  <2> SUFFICES ASSUME RelayInv, Next, NEW s \in Radios, NEW u \in Users,
                      Undistorted(latest'[s][u], TimeScale)
               PROVE  latest'[s][u].of >= latest[s][u].of
    BY Zenon
  <2>1. latest[s][u].of \in Int
    BY DEF RelayInv, TypeInv, PositionRecord
  <2>2. CASE latest' = latest
    BY <2>1, <2>2
  <2>3. ASSUME NEW r \in Radios, ProcessMessage(r)
        PROVE  latest'[s][u].of >= latest[s][u].of
    <3>1. CASE latest'[s][u] = latest[s][u]
      BY <2>1, <3>1
    <3>2. CASE s = r /\ Fresh(r, u, latest'[s][u], Head(receiveQueue[r]))
      BY <2>1, <3>2, TimesAreNaturals DEF Fresh, FromReport
    <3> QED
      BY <2>3, <3>1, <3>2, ProcessedIsFresh
  <2> QED
    BY <2>2, <2>3
       DEF Next, Tick, ReportToGateway, ReportOnAir, Relay, Report,
           OnPushDataReceived
<1>2. RelayInv /\ [Next]_vars => RelayInv'
  BY RelayInvNext
<1> QED
  BY <1>1, <1>2, RelayInvInit, PTL DEF Spec, NewsIsNewer
=============================================================================
