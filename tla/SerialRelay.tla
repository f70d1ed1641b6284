---------------------------- MODULE SerialRelay ----------------------------
(***************************************************************************)
(* Serial radio plugins that hear the positions of users over the air,     *)
(* publish them to their gateway, and relay to each other what they know.  *)
(* A relay packet has the sender's own position and time and, for some     *)
(* users, the differences to these, divided by a scale, as narrow integers.*)
(*                                                                         *)
(* What is on the air is heard by any of the radios, at once.  A plugin    *)
(* queues what it hears; its message processor takes it from there in      *)
(* order, as all frames have priority 0 (SerialServiceHandler.cpp:257).    *)
(* What a gateway is given it pushes to the other plugins, too, if the     *)
(* gateways are linked.                                                    *)
(***************************************************************************)
EXTENDS Integers, Sequences, FiniteSets, SequencesExt

CONSTANTS
    Radios,
    Users,           \* with the radios themselves
    Linked,          \* the gateways of the radios are linked
    MinTime, MaxTime,
    TimeModulus,     \* times are unsigned, 32 bits wide
    Place,           \* of a user, at a time
    RangeScale, TimeScale,
    HalfRange,       \* places differ by an int16, -HalfRange .. HalfRange - 1
    HalfAge,         \* times by an int8, likewise
    Cycle,           \* of the slots
    MaxEntries,      \* of a packet, pliRelayPerCycle
    MaxQueue,        \* bounds what a plugin has heard and not processed yet,
    MaxPushes        \* and what its gateway has for it

Times == MinTime .. MaxTime

ASSUME RelayAssumption ==
    /\ IsFiniteSet(Users)
    /\ Radios \subseteq Users
    /\ Linked \in BOOLEAN
    /\ {MinTime, MaxTime, TimeModulus} \subseteq Nat
    /\ MinTime \in Times
    /\ Times \subseteq 1 .. TimeModulus - 1
    /\ Place \in [Users -> [Times -> Int]]
    /\ {RangeScale, TimeScale, HalfRange, HalfAge, Cycle, MaxEntries,
        MaxQueue, MaxPushes} \subseteq Nat \ {0}

VARIABLES
    now,
    reported,       \* when a user last reported or a radio relayed, or 0
    receiveQueue,   \* of a plugin: packets heard
    gatewayQueue,   \* and positions pushed to it by its gateway
    latest,         \* what it published last of a user; the code keeps its
                    \* time, in latestPliTimestamps
    pliMap          \* the positions that it relays

queues == <<receiveQueue, gatewayQueue>>
vars == <<now, reported, queues, latest, pliMap>>

(* A position says where a user was and when.  Nobody sends the history of *)
(* it: the time of the report that it comes from, and whether it has been  *)
(* an entry of a packet since.                                             *)
Position(time, place, of, relayed) ==
    [time |-> time, place |-> place, of |-> of, relayed |-> relayed]

Reported(u) == Position(now, Place[u][now], now, FALSE)
Unknown == Position(0, 0, 0, FALSE)

Init ==
    /\ now = MinTime
    /\ reported = [u \in Users |-> 0]
    /\ receiveQueue = [r \in Radios |-> << >>]
    /\ gatewayQueue = [r \in Radios |-> << >>]
    /\ latest = [r \in Radios |-> [u \in Users |-> Unknown]]
    /\ pliMap = latest

Tick ==
    /\ now < MaxTime
    /\ now' = now + 1
    /\ UNCHANGED <<reported, queues, latest, pliMap>>

(* What is sent on the air is heard by the radios rs.                      *)
Heard(rs, packet) ==
    /\ \A r \in rs : Len(receiveQueue[r]) < MaxQueue
    /\ receiveQueue' = [r \in Radios |->
            IF r \in rs THEN Append(receiveQueue[r], packet) ELSE receiveQueue[r]]

Pushed(rs, pushes) ==
    /\ \A r \in rs : Len(gatewayQueue[r] \o pushes) <= MaxPushes
    /\ gatewayQueue' = [r \in Radios |->
            IF r \in rs THEN gatewayQueue[r] \o pushes ELSE gatewayQueue[r]]

-----------------------------------------------------------------------------
(* Users report at most once in a unit of time, over the air or to a       *)
(* gateway; radios relay once in a cycle of the slots.                     *)

Report(u) ==
    /\ now >= reported[u] + IF u \in Radios THEN Cycle ELSE 1
    /\ reported' = [reported EXCEPT ![u] = now]
    /\ UNCHANGED <<now, latest, pliMap>>

ReportOnAir(u, rs) ==
    /\ u \notin Radios
    /\ Report(u)
    /\ Heard(rs, [user |-> u, own |-> Reported(u), entries |-> {}])
    /\ UNCHANGED gatewayQueue

ReportToGateway(u) ==
    /\ u \notin Radios
    /\ Report(u)
    /\ Pushed(Radios, <<[user |-> u, position |-> Reported(u)]>>)
    /\ UNCHANGED receiveQueue

-----------------------------------------------------------------------------
(* getNextPliRelayPacket.                                                  *)

(* Division of integers truncates.                                         *)
Quotient(x, n) == IF x >= 0 THEN x \div n ELSE -((-x) \div n)

(* A value stored in a signed integer of 2 * half values.                  *)
Narrow(x, half) == ((x + half) % (2 * half)) - half

FitsWidth(x, half) == x \in -half .. half - 1

(* The age is not looked at.                                               *)
FaultyRelayable(dPlace, dTime) == FitsWidth(dPlace, HalfRange)

Relayable(dPlace, dTime) ==
    FitsWidth(dPlace, HalfRange) /\ FitsWidth(dTime, HalfAge)

(* The positions of some of the users, without those that do not fit;      *)
(* which users get their turn is in SerialSlots.                           *)
Entries(r, us) ==
    LET dPlace(u) == Quotient(Place[r][now] - pliMap[r][u].place, RangeScale)
        dTime(u) == Quotient(now - pliMap[r][u].time, TimeScale)
    IN {[user |-> u,
         dPlace |-> Narrow(dPlace(u), HalfRange),
         dTime |-> Narrow(dTime(u), HalfAge),
         of |-> pliMap[r][u].of] :
            u \in {v \in us : Relayable(dPlace(v), dTime(v))}}

Known(r) == {u \in Users : pliMap[r][u] # Unknown}

Relay(r, us, rs) ==
    /\ us # {} /\ us \subseteq Known(r)
    /\ Cardinality(Entries(r, us)) <= MaxEntries
    /\ rs \subseteq Radios \ {r}
    /\ Report(r)
    /\ Heard(rs, [user |-> r, own |-> Reported(r), entries |-> Entries(r, us)])
    /\ UNCHANGED gatewayQueue

-----------------------------------------------------------------------------
(* SerialMessageProcessor: first the entries of a packet, then the         *)
(* position of its sender.                                                 *)

Decoded(packet, e) ==
    Position(((packet.own.time - e.dTime) * TimeScale) % TimeModulus,
             (packet.own.place - e.dPlace) * RangeScale,
             e.of, TRUE)

(* The position is taken whatever is known already.                        *)
FaultyIsOlder(r, u, p) == FALSE

IsOlder(r, u, p) == p.time < latest[r][u].time

News(r, packet) ==
    {[user |-> e.user, position |-> Decoded(packet, e)] :
        e \in {e \in packet.entries : ~IsOlder(r, e.user, Decoded(packet, e))}}

(* A gateway does not push to the plugin that publishes.                   *)
ProcessMessage(r) ==
    LET packet == Head(receiveQueue[r])
        own == [user |-> packet.user, position |-> packet.own]
        news == News(r, packet)
        updated(f) == [u \in Users |->
            IF u = packet.user THEN packet.own
            ELSE IF \E n \in news : n.user = u
            THEN (CHOOSE n \in news : n.user = u).position
            ELSE f[u]]
    IN
    /\ receiveQueue[r] # << >>
    /\ receiveQueue' = [receiveQueue EXCEPT ![r] = Tail(@)]
    /\ latest' = [latest EXCEPT ![r] = updated(@)]
    /\ pliMap' = [pliMap EXCEPT ![r] = updated(@)]
    /\ Pushed(IF Linked THEN Radios \ {r} ELSE {}, Append(SetToSeq(news), own))
    /\ UNCHANGED <<now, reported>>

-----------------------------------------------------------------------------
(* GatewayReceiver: what the gateway pushes is relayed, whether or not     *)
(* something newer is known.                                               *)
OnPushDataReceived(r) ==
    /\ gatewayQueue[r] # << >>
    /\ gatewayQueue' = [gatewayQueue EXCEPT ![r] = Tail(@)]
    /\ LET p == Head(gatewayQueue[r]) IN
        pliMap' = [pliMap EXCEPT ![r][p.user] = p.position]
    /\ UNCHANGED <<now, reported, receiveQueue, latest>>

Next ==
    \/ Tick
    \/ \E u \in Users :
        \/ ReportToGateway(u)
        \/ \E rs \in SUBSET Radios : ReportOnAir(u, rs)
    \/ \E r \in Radios :
        \/ \E us \in SUBSET Users, rs \in SUBSET Radios : Relay(r, us, rs)
        \/ ProcessMessage(r)
        \/ OnPushDataReceived(r)

Spec == Init /\ [][Next]_vars

-----------------------------------------------------------------------------
(* "Use PLI relay to pass through PLI" (GatewayReceiver.cpp:142): however  *)
(* often a position has been relayed, and however late, what a plugin      *)
(* publishes is where the user was at the time it says, up to the          *)
(* precision of the packets (getNextPliRelayPacket,                        *)
(* GatewayReceiver.cpp:277-369, against parseGroupPliBlob,                 *)
(* SerialMessageProcessor.cpp:555-598).                                    *)
About(x, y, scale) == x - y \in -scale + 1 .. scale - 1

PassedThrough ==
    \A r \in Radios, u \in Users :
        LET p == latest[r][u] IN
        p # Unknown =>
            /\ About(p.time, p.of, TimeScale)
            /\ About(p.place, Place[u][p.of], RangeScale)

(* The scale distorts what was an entry of a packet, and nothing else.     *)
Undistorted(p, scale) == p.relayed => scale = 1

(* At every scale: a position that its user reported on the air is         *)
(* published as it was reported, and of a relayed one the time and the     *)
(* place are right whose scale is 1.                                       *)
PassedExactly ==
    \A r \in Radios, u \in Users :
        LET p == latest[r][u] IN
        p # Unknown =>
            /\ Undistorted(p, TimeScale) => p.time = p.of
            /\ Undistorted(p, RangeScale) => p.place = Place[u][p.of]

(* "received delta PLI is older than the one we already have; discard it"  *)
(* (SerialMessageProcessor.cpp:574): what a plugin publishes of a user     *)
(* does not come from an older report than what it published before, if    *)
(* times are not scaled.  A user's own report, at every scale, never does, *)
(* though nobody looks at its time (line 513).                             *)
NewsIsNewer ==
    [][\A r \in Radios, u \in Users :
        Undistorted(latest'[r][u], TimeScale) =>
            latest'[r][u].of >= latest[r][u].of]_vars
=============================================================================
