# Verification of the Ammo gateway

TLA+ models of the Ammo gateway (`src/`), TLC configurations that check them on
small instances, and proofs checked by TLAPS. Definitions keep the names of the
code; a comment in each module says which handler an action stands for, and
`PROJECT.json` has the source lines of every definition.

## 1. The system

A *gateway* routes typed messages between *plugins* (processes connected to it
by TCP: one per kind of device or service) and other gateways. Gateways form a
tree: each may have one configured parent. Plugins push data of a MIME type to
whoever subscribed to a prefix of the type, and send pull requests to whoever
registered to answer them. A subscription or a message has a scope: LOCAL stays
on one gateway, GLOBAL crosses to others.

| Component | State | Operations | Interacts with |
| --- | --- | --- | --- |
| **Gateway core, plugins** (`GatewayCore/GatewayCore.cpp`, `GatewayEventHandler.cpp`) | multimaps of push and pull registrations by type, with raw handler pointers; `plugins`, from plugin id to handler; in each handler the lists of what it registered | the messages of a plugin: register and unregister push and pull interest, push data, acknowledge, pull request, pull response; the destructor | plugins, by messages; gateway connections, by calls |
| **Gateway core, other gateways** (`CrossGatewayEventHandler.cpp`, `SubscriptionDataStore.cpp`) | `crossGatewayHandlers` (connection by id), push subscriptions and pull reference counts by id, return ids of pull requests, each connection's lists | associate, subscribe, unsubscribe, pull interest, push, pull request and response; the destructor | neighbouring gateways, by messages |
| **Gateway core, parent link** (`CrossGatewayConnectionManager.cpp`) | a thread, the connection it made, a cancel flag, `parentHandler` | connect until it succeeds, notify the reactor, adopt, reactivate, terminate | reactor thread, by notification and by shared members |
| **Gateway core, process** (`main.cpp`, configuration) | configuration | start, signals, stop | - |
| **Network library** (`LibAmmoNetwork/`) | reader state, message being written, priority send queue, write wake-up, `closeScheduled` | `handle_input`, `handle_output`, `sendMessage`, `scheduleDeferredClose`, `open`, destructor | every C++ process uses it |
| **C++ plugin library** (`LibGatewayConnector/`) | one listener per type and kind (push, pull, response), the `connected` flag, the handler of the connection | register, unregister, deliver to listeners, notice the end | core, by messages; plugin, by calls and callbacks on another thread |
| **Android plugin** (`AndroidGatewayPlugin/`) | per device: receive queue, processor thread, condition variable, `closed`, time of the last message | receive, process, answer, push, heartbeat timeout, disconnect | devices, core |
| **Serial radio plugin** (`SerialGatewayPlugin/`) | message queue, map of positions with the index of the next, state of the slot, times of the last positions, byte state machine of the reader | transmit in a slot, relay positions, publish what is heard, resynchronise | radio, GPS, core |
| **Java plugin library** (`JavaGatewayConnector/`) | `connected` flag, sender and receiver threads, send queue | connect, reconnect, disconnect, send | core |
| **Multicast plugins** (`MCastPlugin/`, `RMCastPlugin/`) | as the Java library | translate multicast packets | core |
| **Data store** (`DataStoreGatewayPlugin/`) | SQLite tables | store pushes, answer pulls | core |
| **LDAP, ATS, SPOT plugins**, **samples and drivers** | - | adaptors and clients | core |
| **Manager, monitor** | - | start and stop services, sample statistics | processes |
| **Vendored** JSON, coordinate conversion | - | - | - |

What is hard, and what makes each part correct:

- *Core.* One reactor thread runs all handlers, so a handler is atomic; what is
  hard is the bookkeeping. Tables hold raw pointers, and the destructor of an
  object takes out only what the object remembers of itself: no pointer may
  outlive its object (**NoDanglingHandler**, **NoDanglingConnection**), no
  route may name a gateway that is not there (**RoutesResolve**), and nothing
  may be sent through NULL or a dead pointer (**CallsAreValid**), whatever is
  registered twice, under two scopes, or taken over by another plugin.
- *Between gateways.* Subscriptions are reference counted, and the counts have
  to be right while messages are in flight, while associations cross, and after
  a connection has broken (**RefCounts**, **CountsAreTotals**); data has to
  reach every subscriber once (**AtMostOnce**, **NoneMissed**). Answers follow
  the trail that requests leave, one entry for each plugin id and gateway, while
  the device may move and leave an old trail behind (**AnswersReturn**,
  **NoneReturns**), and requests are routed to connections without a look
  whether they exist (**InterestsAreHandled**).
- *Framing.* Reads and writes cut frames anywhere, and an error packet may have
  to be sent in the middle of a frame: the reader must not lose step
  (**InStep**), both ends have to close after an error (**ErrorsEndBoth**), and what
  comes of it all is a channel of messages in the order of their priority
  (**ImplementsChannel**).
- *C++ plugins.* Two threads share the listener tables, the flag and the handler
  without a lock, and tables and core are changed one after the other: nobody
  may wait for data that are never sent (**ListenersAreRouted**) or miss what was sent
  to them (**OwedAreHeard**), and no handler may be used after its end but by a call that
  was already past its test (**NoHandlerAfterEnd**).
- *Parent link.* Two threads share `parentHandler`, the reactor and the thread
  object: the link has to come back (**ImplementsLink**), a route has to lead to a
  connection that will take itself out (**RouteIsRegistered**), and shutting down has to
  end, also in the middle of an attempt to connect (**ShutdownEnds**).
- *Device connections.* Reactor and processor thread share two queues, a
  condition variable, the reactor's lock and a deferred close: answers keep
  their order (**AnswersInOrder**), no write wake-up and no request is lost
  (**WritesAreAwaited**, **RequestsAreAnswered**), and closing never blocks the
  thread that serves all devices (**DisconnectEnds**).
- *Java plugins.* Three threads share five fields without a lock: a failure of
  an old connection may tear down the new one, because its threads are not waited for,
  but nothing else may (**ClosedForCause**),
  the two records of being connected must not part for good
  (**SomebodyDisconnects**), the plugin has to reconnect (**Reconnects**) and
  its queue has to drain (**QueueDrains**).
- *Serial radio.* Radios share a channel by time alone: a thread that is late,
  a header that is not counted and a buffered port decide whether one talks into
  the slot of the next (**StaysInSlot**); messages and positions share the slot
  and neither may starve (**ChatsLeave**, **PositionsAreRelayed**). Positions go
  round through radios and gateways and have to stay those reported
  (**PassedThrough**, **PassedExactly**) and not go back in time (**NewsIsNewer**).

`PROJECT.json` lists these hazards line by line.

## 2. Modules

| Module | Models | Checked by |
| --- | --- | --- |
| `CoreTables` | the multimaps and subscription stores as values | with the two below |
| `GatewayCore` | one gateway's core, complete | `core_*`, `GatewayCoreProofs` |
| `GatewayLinks` | the links of a tree of gateways: association, channels, loss | extended by the two below |
| `CrossGateway` | push subscriptions and data in a tree of gateways | `network_chain`, `CrossGatewayProofs` |
| `PullNetwork` | pull interest, requests and answers in the tree, and a device that moves | `pull_network`, `PullNetworkProofs` |
| `MessageChannel` | abstract: messages that arrive whole, by priority | refined by `WireStream` |
| `WireStream` | both ends of a connection of the network library, byte by byte | `wire_stream`, `ConnectionProofs` |
| `PluginConnector` | the C++ library in a plugin, with the row of the core | `plugin_connector`, `PluginConnectorProofs` |
| `SerialSlots` | the sending side of a serial radio, with time | `serial_slots`, `SerialProofs` |
| `SerialRelay` | radios that relay positions, and their gateways | `serial_relay`, `serial_scaled`, `SerialProofs` |
| `ReconnectingLink` | abstract: a link that is kept until it is broken and comes back | refined by `ParentLink` |
| `ParentLink` | manager thread, reactor thread, parent | `parent_link`, `ConnectionProofs` |
| `AndroidConnection` | one device's connection, with the network library's queue, wake-ups and deferred close | `android_device`, `AndroidConnectionProofs` |
| `JavaConnector` | a Java plugin's connection and its three threads | `java_connector`, `JavaConnectorProofs` |
| `GatewayCoreProofs`, `CrossGatewayProofs`, `PullNetworkProofs`, `PluginConnectorProofs`, `AndroidConnectionProofs`, `JavaConnectorProofs` | theorems about the module each is named after | TLAPS |
| `ConnectionProofs` | theorems about `ParentLink` and `WireStream` | TLAPS |
| `SerialProofs` | theorems about `SerialSlots` and `SerialRelay` | TLAPS |
| `MC...` | constants for TLC | - |

Definitions named `Faulty...`, and `KeptLockIsFree`, are not the code: each is
a definition of the code with a bug, kept to show that a property notices it.

### CoreTables and GatewayCore

A multimap from types to handlers is `table[owner][type]`, a number of equal
entries: the order of equal keys is never observed. `Prefix[t]` abstracts the
string comparison, that pushed data of type `t` goes to those registered for a
prefix of `t`. `Types`, `Handlers`, `Conns`, `GatewayIds` and `PluginIds` are
sets of model values. An element of `Handlers` or `Conns` is an *address*: it
may be used again by a new object once the old one is destroyed, as an
allocator may.

There is one action per message (`RegisterDataInterest`, `PullRequestCrossGateway`,
...), one per destructor (`Disconnect`, `DisconnectCrossGateway`), one for an
accepted connection and one for each step of the parent link. The destructor
actions are whole: they take out of every table what the lists of the object
name, the lists being multisets, and when registrations of both scopes exist it is
left open which of them a call with `SCOPE_ALL` finds first.

Messages between objects are not followed. A step records in `wild` whether
anything was sent through NULL or a dead object, and in `exported` how many
subscriptions less retractions each connection was sent, which is what
the neighbour's reference count has to be. These two are history variables;
no guard reads them, and `MaxExported` only caps what is kept of the second.

Assumed: a connection's `onConnect` runs before its first message (`ParentLink`
looks at the case where it does not), and the association is the first
message, because it is queued first and nothing has a higher priority.
`OneConnectionPerGateway` (a gateway reconnects only when its old connection
has been torn down) and `BalancedPeers` (a gateway retracts only what it
registered) are constants: a run or a theorem that relies on one says so.

### GatewayLinks and CrossGateway

Each gateway is reduced to its GLOBAL push subscriptions and each link to two
ends and two channels. A channel is what has been queued and has not arrived:
`Arrivals` lets a control message overtake data, and data overtake other data,
since the send queue is ordered by the priority of the messages, but nothing
overtakes a control message and control messages keep their order. An end of
a link is closed, open, or open and associated. When an end closes, what was on its
way to it is lost, what it sent may yet arrive, and its destructor retracts what
it remembers from the other neighbours.

`Connected`, `Beyond` (the part of the tree that a link leads to) and `Entries` (a
multimap as a set, whose size is a sum of counts) are defined without recursion, as
least closed sets and as a set of pairs, so that they can be reasoned about.

Assumed: gateways form a tree, that is, following `Parent` never leads in a circle
(`TreeAssumption`; the configuration decides it); both ends of a link have been torn
down before it is made again, and, in `CrossGateway`, a link breaks only while nothing has been retracted on it (`NothingRetracted`):
`core_two_exports` shows that the counts go wrong otherwise.

### ParentLink and ReconnectingLink

The manager thread's steps are those between which the reactor may run: start,
begin an attempt after looking at the cancel flag (`Attempt`), its outcome
(`AttemptFails`, or `ConnectionOpens`, where ACE registers the connection with the
reactor), `onConnect`, notify, end. The connect is a blocking one, so a shutdown may come
between the test and the outcome, and a connection may be made after it. The reactor
thread adopts the connection (`SetParentHandler`), takes in the association, and destroys
a connection that the parent has closed. `ACE_Task::activate` does nothing while the old
thread still runs, as in ACE.

Two orders of these steps are not provided for in the code. They are in the model, and
two history variables keep the connections that met them:

- `overtaken`: the association was processed before `onConnect`, which resets what it
  had set (`NetworkServiceHandler.h:198`). Such a connection dies without leaving the
  routing table, and `RouteIsRegistered` excepts it.
- `untimely`: the connection was destroyed before it was set up, that is, registered,
  adopted, and the thread that made it ended. Nothing connects again then, against the
  comments at `CrossGatewayConnectionManager.cpp:71-72` ("so it can restart the
  connection loop when it disconnects") and `GatewayCore.cpp:328`. No run ends in it: the
  invariant `live = {} /\ ~notified /\ ~cancelled => thread # "none"`, which says
  that the loop runs as long as there is no connection, fails when it is added to
  `parent_link.cfg`, by a connection that the parent breaks before it is adopted.

`ReconnectingLink` says what a user expects. It knows the connection that is the route and
whether the parent has broken it: a link is kept until it is broken, is then
dropped, is never exchanged for another one directly, does not change once it is over, and
comes back as long as there is a parent. `ParentLink` implements it under a mapping in
which the link is over after a shutdown or an untimely loss, without any
assumption on the parent. In one state the model stops short of the code: a connection
deleted while its own `open()` still runs would crash the manager thread, so
`Disconnect` excludes it.

### AndroidConnection

`reactor` and `processor` are program counters: between two of their values a
thread holds no lock that the other thread may need, or the lock is the
reactor's, which `LockIsFree` accounts for. A dispatch of the
reactor is cut where the processor can see it: between queueing a message,
signalling and setting `latestMessageTime`; between the test and the setting of
`closeScheduled`; between finding the send queue empty and cancelling the
wake-up; between closing the processor, signalling it, and waiting for it. The
clock is the step `FallSilent`. Frames and checksums are left out: a message
arrives whole or the connection ends. Of what the processor does with a
message only the answer is kept, since what it asks of the core is in
`GatewayCore`.

`PromptWaiter` assumes that a processor that has found its queue empty reaches
`wait()` before the next signal. That a condition variable may wake up by itself is
left out: it could only hide a lost signal. Without the assumption `DisconnectEnds`
fails: `close()` may signal between the processor's last test
(`AndroidMessageProcessor.cpp:91-92`) and its `wait()`, and the reactor thread, which
serves every device, waits for the processor for ever.

`closeScheduled` is tested and set by both threads without a lock, so `deferred`
reaches 2 in the model as in the code, and the second close may be dispatched
after the handler is gone (`LateClose`). Nothing is stated of this: the hazard is
listed, and no property of it holds.

### JavaConnector

The connector thread of `NetworkConnector.java` makes a connection, sets
`mIsConnected` and then `state`, and starts a sender and a receiver; whichever of
these fails first resets `mIsConnected` and disconnects, step by step: interrupt
both threads, close the channel, clear the fields, join both threads, set the
state. `mSocketChannel`, `mSender`, `mReceiver`, `mIsConnected` and `state` are
read and written without a lock. A connection, its channel and its two threads
go by one number. Every step between two accesses to a shared field is an action;
creating a thread and starting it are one step, since nothing is shared in between.

A receiver ends when its channel is gone or it is interrupted (`ReadFails`), and also
when what it has read cannot be parsed, or its delivery throws (`ReadThrows`, lines
764-776), on a connection that is in order; `threw` keeps these connections.

The joins wait for nobody: lines 486-487 have cleared the fields by the time of the joins
at 499-506, against the comment at line 497 ("we need to pend on the sender / receiver
thread before we attempt a reconnect"). A thread of an old
connection may therefore fail once the flag is set for the new one, and tear that one
down; `torn` keeps the connections to which this happens, and the properties except them. If
it happens between lines 428 and 429, the connector remains in CONNECTED for ever.

Assumed: a field is read as it was last written (stale values, which the Java
memory model allows for a field that is not volatile, are left out); the callbacks
`onConnect` and `onDisconnect` of the plugin do not throw. On the last of `MaxConnections`
connections nothing breaks or throws, so that there is a last time.
The queue is bounded by the set `Messages`. `Take` returns the message with the
*lowest* priority, as the comparator of the code does, although `PushData.java:90-91`
says the reverse. The table of listeners is not modelled.

### PullNetwork

The tables of requests have one entry for each plugin id, so one device is
modelled, and one type. A request or an answer carries its path, and the
variables `owed`, `reached` and `missed` keep what has been promised; these are
history, which no guard reads. Requests have a priority of their own and may be
overtaken by control messages, as data may in `CrossGateway`.

What the model shows of the code besides its properties, and no document
contradicts: an unregistration is never told to other gateways, because line 134 of
`GatewayCore.cpp` records a scope that line 139 does not accept, so requests go on
coming; and a registration is not repeated for a link that comes up later
(lines 298-316), yet it is retracted over that link when another one breaks.
`AnswersReturn` therefore owes nothing to a device for a registration that did
not reach its gateway, and nothing at all once a link has come up too late.

### WireStream and MessageChannel

A frame is a sequence of bytes that know which frame they belong to, at which
place, and whether they have been damaged; checksums and the magic number are
right exactly if the bytes are those of one frame, in order and undamaged. Each of
the two ends is a reactor; `Write` and `Read` move any number of bytes that the
socket takes or has. `sendErrorPacket` blocks its reactor until everything is
written (`send_n`), and so does `conn` in "flushing" and "reporting". The header of
an error packet announces no data and is never looked at: the reader that has it
awaits nothing, and the next thing to come is the end of the connection (`Broken`).

`MessageChannel` is the abstract specification: messages wait in the order in which
they were sent, leave in the order of their priority, arrive whole and in the
order they left, are dropped only if something was damaged, and arrive at last as
long as nobody closes and nothing is damaged. Each direction implements it:
`waiting` is the send queue sorted by message count, `underway` the messages whose
last byte has been taken for writing and not been read (`AsSent`, `EndedBy`: both list
what belongs to the numbers of a set, counts or places, in ascending order).

Assumed: a message has at least one byte (after the header of an empty one, `recv` would
be asked for no bytes and return 0, which `handle_input` takes for the end), and checksums detect all damage. `MaxDamage` is 1: if the two
ends found damage at once, both would be in `sendErrorPacket` and neither would
read, so that with full buffers each could wait for the other for ever (with a
`MaxDamage` of 2 `ErrorsEndBoth` fails).

### PluginConnector

The thread of the plugin is in one `call` at a time; a call is cut after its test of
`connected`, after the message has been queued, and after the table has been
changed. The three maps of listeners are one table by kind. The core is its row of
registrations, with the operators of `CoreTables`: one entry more for each
registration, one less for an unregistration, though the header of the library
(`GatewayConnector.h:326-328`) promises that all go. A prefix of a type hears pushes
and responses, only the type itself hears requests.

The connection may end at any time, also in the middle of a call. A call that has found
`connected` set may then use a handler that the reactor thread has deleted: `usedGone`
counts such uses, and `cut` says whether the connection ended within a call.
`NoHandlerAfterEnd` says that no other call ever does. The one that does returns true,
although `GatewayConnector.h:321` has it return "true if the operation succeeded". The
connection does not end in the middle of the constructor: a connector is constructed by
the thread that runs the reactor (`AndroidEventHandler`) or by the main thread before it
does (`SerialMessageProcessor.cpp:64-65`, and each `main`).

`owed` is what the core has sent for a registration that has, or is about to have, a
listener. What arrives while its listener is still to be put into the table (line 240 sends,
line 241 changes the table) is heard by nobody and owed no longer; `OwedAreHeard` says that
all the rest is heard. A map that is changed by one thread while the other iterates over
it is left out, and so is the destructor. The library never connects again, and neither does the model.

### SerialSlots

A tick is the time that a unit of data takes on the air. The transmit thread's
steps are cut where its clock readings and the receiver's locks are; `PassTime` lets
time pass while it sleeps, and for at most `Lateness` ticks in all while it does not.
Writing puts data into the buffer of the port at once, and the port drains it with
time (`line`). The position map is a function from users, which it sorts, to whether
a position is known and can be relayed; whether it can depends on distance and age,
and changes with every new position.

Assumed: slots leave a pause as long as the tweak and a header; the thread is late by
at most the tweak. The configuration decides the first, and nothing the second.
A relay packet that does not fit into the rest of the slot is lost: `pliIndex` has
advanced. One that is longer than a whole slot would be asked for again for ever,
without leaving the slot (`Drop`); the run has none. `PliSendFrequency` is 2, as
shipped: at 1 the relay takes its turn in every slot before the messages do, and at 0
`sentPliRelayThisCycle` is never reset. The wrap of GPS time at midnight, which the
average in `GpsThread.cpp:168-188` does not allow for, is left out.

### SerialRelay

Radios hear positions of users, publish them to their gateway and relay what they
know; gateways push to each other's plugin. A position is a place and a time, and
carries the time of the report it comes from, which the code does not have. Places are
differences within an int16, ages within an int8, both after division by a scale:
`Entries` encodes as `getNextPliRelayPacket` does, `Decoded` decodes as
`parseGroupPliBlob` does, modulo `TimeModulus` for the 32 bits of a time. Any set of
users may have its turn, since turns are in `SerialSlots`; any set of radios may
hear a packet, so packets are lost in any way. `latest` keeps what was published,
where the code keeps only its time (`latestPliTimestamps`). `gatewayQueue` pushes
overwrite `pliMap` without a look at the time, as in lines 142-150 of
`GatewayReceiver.cpp`, and do not touch `latest`: an older position may therefore be
relayed, and is discarded by whoever knows better.

`relayed` is history, too: whether a position has been an entry of a packet. The encoder and
the decoder are inverse only at a scale of 1 (`serial_scaled`), which `PassedThrough`,
the claim of the comment in `GatewayReceiver.cpp`, does not survive. `PassedExactly` and
`NewsIsNewer` say at every scale what is left of it: at a scale of 1, which the run
`serial_relay` has, that every position is exact and none goes back in time; at
others, that of positions which have not been relayed, and of the place or the time whose
scale is 1.

## 3. Runs

Each run that passes lists, in `PROJECT.json`, one bug of the code per property
that the property detects.

| Run | Instance | Shows |
| --- | --- | --- |
| `core_peers` (260,384 states up to symmetry) | two plugins with one plugin id, two connections of two gateways, one of them the configured parent; one push and one pull registration per object and type, of either scope, peers that retract what they never registered | **TypeOK**, **NoDanglingHandler**, **NoDanglingConnection**, **RoutesResolve**, **CallsAreValid** under `OneConnectionPerGateway`. Two plugins are what makes an id change hands, two gateways what routing from one to the other takes. Addresses and gateway ids are symmetric: no definition tells them apart. A second registration of one type by one handler is left to the proof of `HandlersDoNotDangle` |
| `network_chain` (57,912) | a root, a gateway below it and a leaf; three changes of subscriptions, one datum, one break | **TypeOK**, **RefCounts**, **CountsAreTotals**, **AtMostOnce**, **NoneMissed**. Three in a chain is the smallest network where a gateway relays counts, and three changes allow two subscriptions and a retraction |
| `pull_network` (168,089) | the same chain; providers in the middle and at the leaf, a device at the root or the leaf; two requests and five events (registrations, unregistrations, requests, moves, breaks) | **TypeOK**, **InterestsAreHandled**, **NoneReturns**, **AnswersReturn**. Two requests and a move are what an old trail takes, two providers behind one link what a count takes |
| `parent_link` (1,268) | two addresses, three breaks at any time, shutdown at any time, a parent that may go for good | **TypeOK**, **RouteIsRegistered**, **ImplementsLink**, **ShutdownEnds**. Two addresses let a new connection coexist with the pointer to an old one, three breaks let a link come back after it came back |
| `android_device` (139,356) | a device that sends two heartbeats and data and is pushed one datum, and that falls silent or goes away at any time | **TypeOK**, **AnswersInOrder**, **WritesAreAwaited**, **RequestsAreAnswered**, **DisconnectEnds** under `PromptWaiter`. Two answers of one priority and one push are what ordering takes; both queues hold two or more |
| `java_connector` (77,474) | two connections, the first of which the gateway breaks or its receiver throws on at any time, and two messages of different priority | **TypeOK**, **ClosedForCause**, **SomebodyDisconnects**, **Reconnects**, **QueueDrains**. Two connections let threads of the first meet the second, and the theorems extend the safety of it to any number; TLC has also found no violation with a third connection, of the safety properties in 1,131,039 states (one message) and of **Reconnects** in 108,434 (none) |
| `wire_stream` (98,062) | three messages one way, two of them of one priority, and one the other way, of one or two bytes after a header of two; two bytes of buffer; one damaged byte | **InStep**, **ImplementsChannel**, **ErrorsEndBoth**. Headers, data and frames can each be cut, and an error can be found while a frame is half written |
| `plugin_connector` (428,082) | two types, one a prefix of the other, two listeners, three kinds; three calls, two messages; the connection ends at any time | **NoHandlerAfterEnd**, **ListenersAreRouted**, **OwedAreHeard**. Three calls are a registration, a replacement and an unregistration |
| `serial_slots` (156,550) | the second of three slots of 12 ticks, 10 of them to transmit; a message that fills a slot and one that is too long, two users, one per packet, one position that gets too old | **TypeOK**, **StaysInSlot**, **ChatsLeave**, **PositionsAreRelayed**. Time goes on without end: `time` is a time of the current cycle |
| `serial_relay` (86,088 up to symmetry) | two radios of linked gateways and a user who walks out of range once; three units of time, scale 1, one packet heard and two positions pushed at a time | **PassedExactly**, **NewsIsNewer**. Two radios are what a position takes to come back, and the user's walk what makes a difference not fit |

`network_chain`, `pull_network` and the run of the core use one MIME type: a second
type multiplies the states, and the tables treat types independently except for
prefixes, which `plugin_connector` has. Every run but `core_peers`, `core_two_exports`
and `serial_slots` may stop by design, once its bounds are reached or everything is
closed, and does not check for deadlock.

Two runs end in a counterexample, each against a sentence of the code:

| Run | Property | What happens |
| --- | --- | --- |
| `core_two_exports` | **ExportsMatch** | `unsubscribeCrossGateway` returns false even when it has unsubscribed (`GatewayCore.cpp:362`), so the connection goes on remembering the type and retracts it again when it closes; the other gateways' counts end up one too low |
| `serial_scaled` | **PassedThrough** | at the scale of 4 that is the default and is shipped, `(base - d) * scale` (`SerialMessageProcessor.cpp:568-570`) does not undo `(base - x) / scale` (`GatewayReceiver.cpp:322-324`): a position that is relayed is published elsewhere and at another time |

In `serial_scaled` a time has 58 values instead of 2^32, so that the product wraps as
it does in the code, where seconds since 1970 times 4 do not fit 32 bits.

## 4. Fairness

- `CrossGateway`: weak fairness of the reception on each link. The reactor
  dispatches every connection that is readable.
- `ParentLink`: weak fairness of the manager's thread and of the reactor's
  thread; so every attempt to connect has an outcome (a blocking connect fails at last).
  Attempts may fail, but not for ever while the parent is reachable, which is strong
  fairness of `ConnectionOpens`; the parent may become unreachable for good.
- `AndroidConnection`: weak fairness of each thread, and strong fairness of the
  completion of a write, which says that the device reads what is sent
  to it. Nothing is assumed of what devices send, of silence, or of disconnects.
- `JavaConnector`: weak fairness of the connector thread, whose attempts to connect
  at last succeed, and of each sender and receiver thread: the JVM runs them. Nothing
  is assumed of when the gateway breaks a connection, a receiver throws or the
  application sends.
- `WireStream`: weak fairness of each kind of dispatch of both reactors, and of
  their blocking writes while the peer's buffer has room. Nothing is assumed of when
  messages are sent, a side hangs up or a byte is damaged.
- `SerialSlots`: weak fairness of the transmit thread and of time. Nothing is
  assumed of messages, positions or GPS fixes.
- `GatewayCore`, `PullNetwork`, `PluginConnector` and `SerialRelay` have no fairness:
  only safety is stated of them. `AnswersReturn` says what has happened by the time
  nothing is under way.

## 5. Theorems

Proved for every number of plugins, connections, gateways, types and messages:

| Theorem | States |
| --- | --- |
| `TypeCorrect` | `Spec => []TypeOK` of `GatewayCore` |
| `HandlersDoNotDangle` | `Spec => []NoDanglingHandler` |
| `ConnectionsDoNotDangle` | `Spec => []NoDanglingConnection`, also when connections of one gateway overlap |
| `RoutesAlwaysResolve` | `Spec => []RoutesResolve`, assuming `OneConnectionPerGateway` |
| `CallsAlwaysValid` | `Spec => []CallsAreValid`, under the same assumption |
| `LinkTypeCorrect` | `LinkSpec => []TypeOK` of `ParentLink`: `parentHandler` dangles only after an untimely loss |
| `ParentRouteIsRegistered` | `LinkSpec => []RouteIsRegistered` |
| `ImplementsLinkSafely` | `LinkSpec => Link!Init /\ [][Link!Next]_Link!vars`, the steps of `ReconnectingLink` |
| `DeviceTypeCorrect`, `AnswersComeInOrder` | `Spec => []TypeOK` and `Spec => []AnswersInOrder` of `AndroidConnection` |
| `WritesAlwaysAwaited` | `Spec => []WritesAreAwaited` of `AndroidConnection`, whether or not the processor is prompt |
| `ConnectorTypeCorrect` | `Spec => []TypeOK` of `JavaConnector` |
| `ConnectorSafe`, `ConnectorIsWoken` | `Spec => []ClosedForCause` and `Spec => []SomebodyDisconnects`, however long threads outlive their connection |
| `TreeTypeCorrect` | `Spec => []TypeOK` of `CrossGateway` |
| `CountsAreRight` | `Spec => []RefCounts` |
| `NoRetractionIsVoid` | `Spec => []RetractionsFindCounts`: a retraction that arrives finds a subscription to erase |
| `CountsReachAcross` | `Spec => []CountsAreTotals` |
| `NothingArrivesTwice` | `Spec => []AtMostOnce` |
| `NetworkTypeCorrect` | `Spec => []TypeOK` of `PullNetwork` |
| `InterestsAlwaysHandled` | `Spec => []InterestsAreHandled` |
| `NothingReturns` | `Spec => []NoneReturns` |
| `AnswersAlwaysReturn` | `Spec => []AnswersReturn` of `PullNetwork` |
| `StaysInStep` | `Spec => []InStep` of `WireStream` |
| `ImplementsChannelSafely` | `Spec` implies `Init` and `[][Next]_vars` of `MessageChannel`, for `FromA` and for `FromB` |
| `HandlersAreNotUsedAfterEnd` | `Spec => []NoHandlerAfterEnd` of `PluginConnector` |
| `OwedIsHeard` | `Spec => []OwedAreHeard` |
| `EveryListenerIsRouted` | `Spec => []ListenersAreRouted`, also when connections end in the middle of calls |
| `SlotsTypeCorrect` | `SlotsSpec => []TypeOK` of `SerialSlots`: no negative sleep, no walk out of the map |
| `RadioStaysInSlot` | `SlotsSpec => []StaysInSlot` |
| `PositionsPassThrough` | `Spec => []PassedExactly` of `SerialRelay`, at every scale |
| `OldNewsNeverReplace` | `Spec => NewsIsNewer`, an action property, at every scale |

None of these invariants is inductive by itself.

- `NoDanglingHandler` says nothing of live handlers, whose entries the destructor
  must find. `HandlerInv` adds that the lists of a handler *mirror* the
  tables: a type is in the list as often as in the table, both scopes
  together. Each operation changes both sides alike; the destructor then takes
  out as many entries as there are.
- `ConnectionInv` of `GatewayCore` adds to `NoDanglingConnection` that a closed address has no id:
  the destructor of a connection erases the entry of its own id only, which is
  either its own or that of a successor.
- `RouteInv` adds to `RoutesResolve` that an associated connection is the entry
  of its id and that its lists name *at least* what the tables hold for its
  gateway. At least, because of the defect that `core_two_exports` shows: the
  lists may name more, so the destructor withdraws enough, but possibly too much.
  It also carries that a gateway without a configured parent never has a
  parent connection; else a NULL `parentHandler` would equal the NULL that
  `operator[]` yields, and a manager that is not there would be started.
- `CallsAlwaysValid` needs no invariant of its own: every pointer a handler
  uses comes out of a table that the invariants above say is clean.
- `WriteInv` adds to `WritesAreAwaited` that a dispatch of `handle_output` has a
  wake-up, and that when it is about to cancel the wake-up, whatever is in the queue
  was put there by a processor that has yet to ask for one, and cannot before the
  reactor's lock is free.
- `OrderInv` of `AndroidConnection` follows the requests through five stages: the receive
  queue, the processor, the send queue, the reactor, the device (`Stages`). Of two that
  are answered and have one priority, the one in the later stage, or in front in the same
  queue, was received earlier. A queue gives out the first of its priority (`NextExists`:
  there always is one), so what it keeps stays behind.
- `TypeInv` of `JavaConnector` adds that a number in a field or a thread is that of a
  connection that has been made, and that threads are new until they are started.
  `SafetyInv` says what is left in common of threads that may outlive their connection:
  one that has failed, was interrupted or has no channel belongs to a connection that has
  a cause to end (`ThreadsHaveCause`), every connection but the last has one, and the field
  `mSocketChannel` never holds the channel of an older connection (`ConnectionsHaveCause`).
- `LinkInv` says which connection there is in each state of the manager's thread, and
  never more than one; that the route is that one until one is lost before it
  was set up, and that nothing is connected after that; and that only a connection that
  was overtaken does not know of its route.

- `SafetyInv` of `JavaConnector` also gives `SomebodyDisconnects`: one thread at a time
  disconnects (`OneDisconnects`), whatever connection is its own, and `FlagAndState`
  follows flag and state through the steps of `connect()`, in which only a thread of an
  older connection can come in between.
- In `CrossGateway` nothing can be said of a count alone, since the messages that
  change it are under way. `WayOK` speaks of one direction between two gateways: from
  the count that the receiver has, the messages in the channel, taken one by one,
  *lead to* the count the sender has (`Leads`), without passing below zero, in each of
  the states of the two ends, among them those in which an end has closed
  and the other has not noticed. `NetworkInv` says that of every direction. It is kept
  because registrations and retractions commute with data, which overtake no control
  message, and because a link that breaks has no retraction on it. `RefCounts` is
  then a sum over the channel, and `RetractionsFindCounts` speaks of its first step.
- `CountsAreTotals` follows from `RefCounts`, by induction over the number of gateways
  beyond a link: `BeyondSplits` shows that these are the neighbour and what lies
  beyond its other links, all apart, and `TotalOfParts` that totals over parts add up.
  Induction is over a *set* of numbers (`SetInduction`), which the library's
  well-foundedness of `Nat` gives without a theorem that takes an operator.
- `DataInv` is what makes `AtMostOnce` inductive. For each datum, a channel holds at
  most one copy (`Alone`), the copies under way head for parts of the tree that are apart, and
  no gateway in such a part has had it (`FlowOK`). A copy that arrives is replaced by copies that head
  for smaller parts. It needs no assumption on the links: a copy that is lost with
  its link only leaves a part without the datum.
- `NetworkInv` of `PullNetwork` is `ChannelInv`, which says of every message
  under way that the gateways on its path are on the sender's side of the link,
  with `TableInv` and `InterestsAreHandled` itself. The latter needs that what comes first
  to an end that has not associated is the association (`LinkInv`), so that no registration
  is counted for a neighbour without a connection. `NoneReturns` follows, since in a tree the receiver is not on the sender's side.
- `AnswersReturn` speaks of what has happened by the time nothing is under way, so its
  invariant, `PullInv`, says of each answer owed to the device what is under way for it.
  The gateways on the path from the device to the provider are found by what lies beyond
  each link (`OnWay`), not by a list: a gateway on the path has a next link and one that
  it came by (`NextHop`, `HopBack`), and what comes from the device can enter by no
  other (`WayInIsUnique`). `OwedInv` says that every gateway on the path passes
  requests on, and that the request is in a channel of the path, with the return ids
  right that far, or waits at the provider, with all of them right, or the answer is in a channel
  and the return ids are right as far as it has to go (`UnderWay`). That the gateways pass
  the request on follows, when the device asks, from `FlowInv`: a count and what
  is on its way to it never fall short of what the neighbour tells, though it may be more,
  since the providers that unregister do not say so. By a well-founded
  choice of the link nearest to the provider whose count were zero, none is
  (`WayIsCounted`). `ReachInv` says that the links of the path are up where a
  registration has been told.
- `HandlerInv` of `PluginConnector` adds that a call past its test of `connected` has a
  live handler or is the one that the end of the connection has cut. `RoutedInv` says of every type that
  has a listener, or for which a call is about to set one, that it is provided for: by the core's
  table with no unregistration on its way, or by a registration on its way with none
  behind it. `OwedInv` says that a message that is owed is on its way to a listener that is in
  its table or that the call in progress puts there, and that this call will not take out.
- `StreamInv` of `WireStream` makes `InStep` inductive. The stream from an end is what the
  peer has begun to read, what is on the wire and what is still to be written (`Stream`).
  `Aligned` says that it is *chained*: its first byte starts a frame, and after each byte
  comes the next one of its frame or, after the last, the start of another. It is *whole*
  unless the end is closed: its last byte ends a frame. And it is *good* while nothing
  has been damaged. A write or a read moves bytes inside the stream, so that it keeps
  all of this; a frame is appended only when nothing is left to be written, hence
  after a whole stream, be it a message or the error packet; and the end of a sender
  cuts off a last part, which leaves a chained stream. A reader that has collected a header's worth
  of a chained stream has the header of a frame, and
  all that it awaits belongs to that frame, so what it
  takes out is one whole frame.
- `ConnectionInv` of `WireStream` adds that counts in a send queue are all different and
  below the next one (`Numbered`). A message taken from the queue is then the first
  of its priority in `AsSent` (`OneTakenOut`), and its last byte comes behind all others in the stream.
  What is under way changes only when a last byte
  is taken, read, or cut off, which `ChannelStep` says case by case; with the invariant each
  case is a step of `MessageChannel`. That the lists of numbers are
  determined by their sets (`EnumerationIsUnique`), and how they change when a set gains a greatest number,
  loses one or is shifted, is shown by well-founded choice, without induction.
- `SlotInv` of `SerialSlots` says where the thread is in the cycle: asleep until the beginning of its
  slot in this cycle or the next, or in its slot and late by no more than `late`. What is on
  the line is at most what has been counted, and the header of a relay packet, which
  the code does not count (`SlotAssumption` leaves room for one). So the
  line is empty before the slot ends, and the time to sleep, computed from the
  clock after a late awakening, is never negative. The walk over the positions ends inside the map
  (`WalkStaysInMap`), whose elements are counted by their ranks (`Ranked`).
- `SerialProofs` also shows that a difference that fits its width is, at a scale of 1,
  decoded to what was encoded, modulo the clock, for the place and for the time apart, and
  that every packet, queue, map and push then holds only positions as they were
  reported, but for what relaying at another scale has distorted (`TruthInv`). It adds that
  packets are heard in the order in which they were sent, and that a plugin knows of no
  later report than the packets that it has still to process: an own report therefore
  never comes too late. `RelayAssumption` says that the times of the model are smaller
  than the modulus of the clock: seconds since 1970 fit 32 bits until 2106.

The lemmas about trees occur in `CrossGatewayProofs` and in `PullNetworkProofs`: the
modules they would be shared by extend different specifications.

The proofs go action by action, with lemmas for what the operators of
`CoreTables` keep. Assumptions are the named `ASSUME`s of the modules, which TLC
evaluates in the runs.

## 6. Only model-checked, and why

Liveness and fairness (`NoneMissed`, `ImplementsLink` as a whole, `ShutdownEnds`,
`RequestsAreAnswered`, `DisconnectEnds`, `Reconnects`, `QueueDrains`,
`ImplementsChannel` as a whole, `ErrorsEndBoth`, `ChatsLeave`,
`PositionsAreRelayed`) are beyond the prover, as are `ENABLED` and what a recursive
definition computes.

What is left of the two refinements is their liveness: that the link comes back
(`ReconnectingLink`) and that messages arrive (`Arrives` of `MessageChannel`). The
step-by-step part of both is proved. Every invariant that a passing run checks is proved, and so
is the one action property without fairness.

Two of the runs and two theorems rest on assumptions that the code does not enforce:
`core_peers`, `RoutesAlwaysResolve` and `CallsAlwaysValid` on `OneConnectionPerGateway` (the
comment at `GatewayCore.cpp:306-307` makes it: "assuming the old gateway has disconnected
first"), `android_device` on `PromptWaiter`, in its liveness only. `NothingRetracted` in
`CrossGateway` excludes the defect of `core_two_exports`, and `AnswersReturn` of
`PullNetwork` promises an answer only where the trail is clear and no link came up late.

## 7. Plan

1. *Done*: `CoreTables`, `GatewayCore` and its proofs; `CrossGateway`;
   `ParentLink`, `ReconnectingLink` and their proofs; `AndroidConnection` and
   `JavaConnector` with their first proofs.
2. *Done*: `GatewayLinks` and `PullNetwork`; `MessageChannel` and `WireStream`;
   `PluginConnector`; `SerialSlots` and `SerialRelay`.
3. *Done*: the proofs of `CrossGateway`, `PullNetwork`, `PluginConnector`,
   `SerialSlots` and `SerialRelay`; the refinement of `MessageChannel` by
   `WireStream`, step by step.
4. The reader of the serial port, which looks for frames in a stream that has lost
   bytes, and what a device may do before it has authenticated.

## 8. Not modelled, and why

- Process start-up, configuration and logging, and the serialisation of protocol
  buffers and JSON: pure input and output.
- Of the serial plugin, the reader that resynchronises on a magic number (it never
  compares the checksum of a header, `SerialServiceHandler.cpp:228-262`), the GPS parser,
  and the processor's wait for messages, which has the race between test and wait
  (`SerialMessageProcessor.cpp:109-127`) that `AndroidConnection` models.
- Of the Java library, the table of listeners; `PluginConnector` has its C++
  counterpart.
- The multicast plugins, whose connectors have the threads of `JavaConnector`; the
  databases, directories and web services behind the adaptor plugins, which keep no
  state that the gateway depends on; the Qt manager and the Python monitor; vendored
  libraries; sample clients and test drivers.
- The denial of access to devices that have not authenticated; the result sent to
  the device, which is always success (`AndroidMessageProcessor.cpp:383`), is left out.

## 9. Running the checks

    tlc -workers 2 -config core_peers.cfg MCGatewayCore.tla
    tlapm GatewayCoreProofs.tla
