----------------------------- MODULE WireStream -----------------------------
(***************************************************************************)
(* The frames of the network library, byte by byte: two ends of one TCP    *)
(* connection, each with a send queue, the rest of the frame it is         *)
(* writing, and a reader that collects a header and then as much data as   *)
(* the header announces.  A write and a read move as many bytes as the     *)
(* socket takes or has.  A byte may be damaged on the way.                 *)
(*                                                                         *)
(* The two ends are two reactors.  Within one, handle_input, handle_output *)
(* and sendErrorPacket exclude each other; sendErrorPacket does not return *)
(* before everything is written (send_n), and nothing is read meanwhile.   *)
(* If both ends find damage at once, both are in sendErrorPacket and       *)
(* neither reads: with full buffers each waits for the other for ever.  A  *)
(* single damaged byte (MaxDamage = 1, as in the run) excludes that.       *)
(***************************************************************************)
EXTENDS Integers, FiniteSetsExt, SequencesExt

CONSTANTS
    Messages,
    Sender,       \* the end that sends a message, once
    Priority,
    Size,         \* of a message, in bytes; a message is never empty
    HeaderSize,
    Capacity,     \* of the socket's buffers, in one direction
    MaxDamage,    \* how many bytes are damaged at most
    ErrorPacket   \* a header with an error code, and no data

Ends == {"a", "b"}

ASSUME StreamAssumption ==
    /\ Sender \in [Messages -> Ends]
    /\ Priority \in [Messages -> -128..127]
    /\ Size \in [Messages -> Nat \ {0}]
    /\ HeaderSize \in Nat \ {0}
    /\ Capacity \in Nat \ {0}
    /\ MaxDamage \in Nat
    /\ ErrorPacket \notin Messages

Frames == Messages \cup {ErrorPacket}

VARIABLES
    unsent,            \* messages that have not been sent yet
    sendQueue,         \* at an end: messages with their messageCount
    sentMessageCount,
    dataToSend,        \* what is still to be written of a frame
    wire,              \* from an end: bytes in the socket's buffers
    conn,              \* an end is open, closed, or in sendErrorPacket,
                       \* where it is flushing and then reporting
    state,             \* of the reader
    messageHeader,     \* the frame whose header was read last
    collectedData,     \* bytes read of a header or of data
    received,          \* messages handed to the event handler, in order
    damaged

output == <<unsent, sendQueue, sentMessageCount, dataToSend>>
input == <<state, messageHeader, collectedData, received>>
vars == <<output, wire, conn, input, damaged>>

Peer(e) == CHOOSE other \in Ends : other # e

DataSize(f) == IF f = ErrorPacket THEN 0 ELSE Size[f]

Frame(f) ==
    [i \in 1 .. HeaderSize + DataSize(f) |-> [of |-> f, at |-> i, good |-> TRUE]]

Init ==
    /\ unsent = Messages
    /\ sendQueue = [e \in Ends |-> {}]
    /\ sentMessageCount = [e \in Ends |-> 0]
    /\ dataToSend = [e \in Ends |-> << >>]
    /\ wire = [e \in Ends |-> << >>]
    /\ conn = [e \in Ends |-> "open"]
    /\ state = [e \in Ends |-> "READING_HEADER"]
    /\ messageHeader = [e \in Ends |-> ErrorPacket]
    /\ collectedData = [e \in Ends |-> << >>]
    /\ received = [e \in Ends |-> << >>]
    /\ damaged = 0

-----------------------------------------------------------------------------
(* Sending.                                                                *)

Counted(e) == [sentMessageCount EXCEPT ![e] = @ + 1]

SendMessage(m) ==
    LET e == Sender[m] IN
    /\ m \in unsent
    /\ conn[e] # "closed"
    /\ unsent' = unsent \ {m}
    /\ sendQueue' = [sendQueue EXCEPT ![e] =
                        @ \cup {[message |-> m, messageCount |-> sentMessageCount[e]]}]
    /\ sentMessageCount' = Counted(e)
    /\ UNCHANGED <<dataToSend, wire, conn, input, damaged>>

FaultyBelow(first, second) ==
    \/ Priority[first.message] < Priority[second.message]
    \/ /\ Priority[first.message] = Priority[second.message]
       /\ first.messageCount < second.messageCount

(* QueuedMessageComparison: first comes out after second.                  *)
Below(first, second) ==
    \/ Priority[first.message] < Priority[second.message]
    \/ /\ Priority[first.message] = Priority[second.message]
       /\ first.messageCount > second.messageCount

GetNextMessageToSend(e) ==
    /\ conn[e] = "open"
    /\ dataToSend[e] = << >>
    /\ \E top \in sendQueue[e] :
        /\ \A other \in sendQueue[e] \ {top} : Below(other, top)
        /\ sendQueue' = [sendQueue EXCEPT ![e] = @ \ {top}]
        /\ dataToSend' = [dataToSend EXCEPT ![e] = Frame(top.message)]
    /\ UNCHANGED <<unsent, sentMessageCount, wire, conn, input, damaged>>

(* One call of send(), from handle_output or within send_n: the socket     *)
(* takes n bytes.  That it takes none (EWOULDBLOCK) changes nothing.       *)
Write(e) ==
    /\ conn[e] # "closed" /\ conn[Peer(e)] # "closed"
    /\ \E n \in 1 .. Min({Len(dataToSend[e]), Capacity - Len(wire[e])}) :
        /\ wire' = [wire EXCEPT ![e] = @ \o SubSeq(dataToSend[e], 1, n)]
        /\ dataToSend' = [dataToSend EXCEPT ![e] = SubSeq(@, n + 1, Len(@))]
    /\ UNCHANGED <<unsent, sendQueue, sentMessageCount, conn, input, damaged>>

-----------------------------------------------------------------------------
(* The end of an end: what it has queued and not written is gone.  What    *)
(* it has written can still be read; what was sent to it cannot.           *)

ClosedEnd(e) ==
    /\ conn' = [conn EXCEPT ![e] = "closed"]
    /\ sendQueue' = [sendQueue EXCEPT ![e] = {}]
    /\ dataToSend' = [dataToSend EXCEPT ![e] = << >>]
    /\ UNCHANGED <<unsent, sentMessageCount, wire, input, damaged>>

(* The application closes the connection.                                  *)
HangUp(e) ==
    /\ conn[e] = "open"
    /\ ClosedEnd(e)

(* The peer has gone: recv returns 0 after the last byte, and before that  *)
(* recv or send may fail, since the peer may have left bytes unread.  An   *)
(* error packet is not looked at: a reader that has its header awaits no   *)
(* data, and the next thing to come is the end.                            *)
Broken(e) ==
    /\ conn[e] # "closed" /\ conn[Peer(e)] = "closed"
    /\ ClosedEnd(e)

-----------------------------------------------------------------------------
(* Receiving: handle_input.                                                *)

Awaited(e) ==
    (IF state[e] = "READING_HEADER" THEN HeaderSize ELSE DataSize(messageHeader[e]))
        - Len(collectedData[e])

(* One call of recv(): n bytes, appended to those collected so far.        *)
Read(e, n) ==
    /\ n \in 1 .. Min({Awaited(e), Len(wire[Peer(e)])})
    /\ wire' = [wire EXCEPT ![Peer(e)] = SubSeq(@, n + 1, Len(@))]

Collected(e, n) == collectedData[e] \o SubSeq(wire[Peer(e)], 1, n)

(* The magic number and the checksum of the header are right.              *)
ValidHeader(bytes) == bytes = SubSeq(Frame(bytes[1].of), 1, HeaderSize)

(* The checksum of the data is that in the header.                         *)
ValidData(bytes, f) ==
    bytes = SubSeq(Frame(f), HeaderSize + 1, HeaderSize + DataSize(f))

SendErrorPacket(e) == conn' = [conn EXCEPT ![e] = "flushing"]

ReadHeader(e) ==
    /\ conn[e] = "open"
    /\ state[e] = "READING_HEADER"
    /\ \E n \in 1 .. HeaderSize :
        LET bytes == Collected(e, n) IN
        /\ Read(e, n)
        /\ \/ /\ Len(bytes) # HeaderSize
              /\ collectedData' = [collectedData EXCEPT ![e] = bytes]
              /\ UNCHANGED <<state, messageHeader, conn>>
           \/ /\ Len(bytes) = HeaderSize /\ ValidHeader(bytes)
              /\ messageHeader' = [messageHeader EXCEPT ![e] = bytes[1].of]
              /\ collectedData' = [collectedData EXCEPT ![e] = << >>]
              /\ state' = [state EXCEPT ![e] = "READING_DATA"]
              /\ UNCHANGED conn
           \/ /\ Len(bytes) = HeaderSize /\ ~ValidHeader(bytes)
              /\ collectedData' = [collectedData EXCEPT ![e] = bytes]
              /\ SendErrorPacket(e)
              /\ UNCHANGED <<state, messageHeader>>
    /\ UNCHANGED <<output, received, damaged>>

(* Data that does not have its checksum is dropped without notice.         *)
ProcessData(e, bytes) ==
    \/ /\ ValidData(bytes, messageHeader[e])
       /\ received' = [received EXCEPT ![e] = Append(@, messageHeader[e])]
    \/ /\ ~ValidData(bytes, messageHeader[e])
       /\ UNCHANGED received

ReadData(e) ==
    /\ conn[e] = "open"
    /\ state[e] = "READING_DATA"
    /\ \E n \in 1 .. Len(wire[Peer(e)]) :
        LET bytes == Collected(e, n) IN
        /\ Read(e, n)
        /\ \/ /\ Len(bytes) # DataSize(messageHeader[e])
              /\ collectedData' = [collectedData EXCEPT ![e] = bytes]
              /\ UNCHANGED <<state, received>>
           \/ /\ Len(bytes) = DataSize(messageHeader[e])
              /\ ProcessData(e, bytes)
              /\ collectedData' = [collectedData EXCEPT ![e] = << >>]
              /\ state' = [state EXCEPT ![e] = "READING_HEADER"]
    /\ UNCHANGED <<output, messageHeader, conn, damaged>>

(* Having sent the error packet, handle_input goes on with the next header *)
(* instead of returning -1.                                                *)
FaultyReturned(e) ==
    /\ conn' = [conn EXCEPT ![e] = "open"]
    /\ collectedData' = [collectedData EXCEPT ![e] = << >>]
    /\ UNCHANGED <<output, wire, state, messageHeader, received, damaged>>

Returned(e) == ClosedEnd(e)

(* The error packet does not wait for the frame that is being written.     *)
FaultyReport(e) ==
    \/ /\ conn[e] = "flushing"
       /\ dataToSend' = [dataToSend EXCEPT ![e] = Frame(ErrorPacket)]
       /\ conn' = [conn EXCEPT ![e] = "reporting"]
       /\ UNCHANGED <<unsent, sendQueue, sentMessageCount, wire, input, damaged>>
    \/ /\ dataToSend[e] = << >>
       /\ conn[e] = "reporting"
       /\ Returned(e)

(* sendErrorPacket: first the rest of the frame that is being written,     *)
(* then the error packet; then handle_input returns -1.                    *)
Report(e) ==
    /\ dataToSend[e] = << >>
    /\ \/ /\ conn[e] = "flushing"
          /\ dataToSend' = [dataToSend EXCEPT ![e] = Frame(ErrorPacket)]
          /\ conn' = [conn EXCEPT ![e] = "reporting"]
          /\ UNCHANGED <<unsent, sendQueue, sentMessageCount, wire, input, damaged>>
       \/ /\ conn[e] = "reporting"
          /\ Returned(e)

-----------------------------------------------------------------------------
Damage(e) ==
    /\ damaged < MaxDamage
    /\ \E i \in DOMAIN wire[e] :
        /\ wire[e][i].good
        /\ wire' = [wire EXCEPT ![e][i].good = FALSE]
    /\ damaged' = damaged + 1
    /\ UNCHANGED <<output, conn, input>>

HandleInput(e) == ReadHeader(e) \/ ReadData(e)

Next ==
    \/ \E m \in Messages : SendMessage(m)
    \/ \E e \in Ends :
        \/ GetNextMessageToSend(e) \/ Write(e) \/ HandleInput(e)
        \/ Report(e) \/ HangUp(e) \/ Broken(e) \/ Damage(e)

(* Both reactors dispatch what is ready.                                   *)
Fairness ==
    \A e \in Ends :
        /\ WF_vars(GetNextMessageToSend(e))
        /\ WF_vars(Write(e))
        /\ WF_vars(HandleInput(e))
        /\ WF_vars(Report(e))
        /\ WF_vars(Broken(e))

Spec == Init /\ [][Next]_vars /\ Fairness

-----------------------------------------------------------------------------
(* What the peer of e has read of a frame it has not finished, what is on  *)
(* its way to it, and what is still to be written.                         *)
Stream(e) ==
    (IF state[Peer(e)] = "READING_DATA"
     THEN SubSeq(Frame(messageHeader[Peer(e)]), 1, HeaderSize) ELSE << >>)
        \o collectedData[Peer(e)] \o wire[e] \o dataToSend[e]

StartsFrame(byte) == byte.at = 1
EndsFrame(byte) == byte.at = HeaderSize + DataSize(byte.of)

(* However writes and reads cut the frames up, and whether or not an error *)
(* packet comes between, the reader stays in step with the writer: what it *)
(* takes for the start of a header is one, and only the end of the         *)
(* sender cuts a frame short (handle_input, handle_output and              *)
(* sendErrorPacket, NetworkServiceHandler.h:214-438).                      *)
InStep ==
    \A e \in Ends :
        LET s == Stream(e) IN
        s # << >> =>
            /\ StartsFrame(s[1])
            /\ conn[e] # "closed" => EndsFrame(s[Len(s)])
            /\ \A i \in 1 .. Len(s) - 1 :
                \/ s[i + 1].of = s[i].of /\ s[i + 1].at = s[i].at + 1
                \/ EndsFrame(s[i]) /\ StartsFrame(s[i + 1])

(* A header that arrives damaged ends the connection at both ends, even    *)
(* though the end that found it has to finish the frame it is writing      *)
(* before it can say so (sendErrorPacket, NetworkServiceHandler.h:405-438),*)
(* unless both ends find damage at once, which takes MaxDamage > 1.        *)
ErrorsEndBoth ==
    \A e \in Ends :
        (conn[e] = "flushing") ~> (conn[e] = "closed" /\ conn[Peer(e)] = "closed")

-----------------------------------------------------------------------------
(* What one end still has of the messages it sends: those in its queue, as *)
(* they were sent, and those under way, as they were taken.                *)

(* The numbers of S, ascending.                                            *)
InOrder(S) ==
    CHOOSE f \in [1 .. Cardinality(S) -> S] :
        /\ \A i, j \in DOMAIN f : i < j => f[i] < f[j]
        /\ \A x \in S : \E i \in DOMAIN f : f[i] = x

Counts(queue) == {q.messageCount : q \in queue}

Queued(queue, n) == CHOOSE q \in queue : q.messageCount = n

AsSent(queue) ==
    LET counts == InOrder(Counts(queue))
    IN [i \in DOMAIN counts |-> Queued(queue, counts[i]).message]

(* A message is under way from being taken until its last byte is read.    *)
IsLastOfMessage(byte) == EndsFrame(byte) /\ byte.of # ErrorPacket

Ending(s) == {i \in DOMAIN s : IsLastOfMessage(s[i])}

EndedBy(s) ==
    LET last == InOrder(Ending(s)) IN [i \in DOMAIN last |-> s[last[i]].of]

Unread(e) == wire[e] \o dataToSend[e]

SentFrom(e) == {m \in Messages : Sender[m] = e}

Up == conn["a"] # "closed" /\ conn["b"] # "closed"

FromA == INSTANCE MessageChannel WITH
    Messages <- SentFrom("a"),
    waiting <- AsSent(sendQueue["a"]),
    underway <- EndedBy(Unread("a")),
    delivered <- received["b"], intact <- damaged = 0, up <- Up

FromB == INSTANCE MessageChannel WITH
    Messages <- SentFrom("b"),
    waiting <- AsSent(sendQueue["b"]),
    underway <- EndedBy(Unread("b")),
    delivered <- received["a"], intact <- damaged = 0, up <- Up

(* In each direction the connection is a channel of whole messages.        *)
ImplementsChannel == FromA!Spec /\ FromB!Spec

=============================================================================
