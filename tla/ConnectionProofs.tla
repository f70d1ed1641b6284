-------------------------- MODULE ConnectionProofs --------------------------
(***************************************************************************)
(* Proofs about the connections between gateways.                          *)
(*                                                                         *)
(* About the link to the parent (ParentLink), for any number of            *)
(* connections made in any number of addresses.  The routing table and the *)
(* pointer to the parent are safe because there is never more than one     *)
(* connection to the parent: LinkInv says which one it is in each state of *)
(* the manager's thread, and what a connection leaves behind that was      *)
(* lost before it was set up.                                              *)
(*                                                                         *)
(* About the bytes of a connection (WireStream), for any messages, sizes,  *)
(* priorities, buffers and damage.  Aligned says of the stream from an end *)
(* that its bytes are whole frames one after the other, of which the       *)
(* reader has the beginning of the first; so a reader takes for a header   *)
(* what is one, and what it completes is the oldest message under way.     *)
(* With that, each direction is shown to be a MessageChannel.              *)
(***************************************************************************)
EXTENDS ParentLink, WireStream, FiniteSetTheorems, SequenceTheorems, TLAPS

(***************************************************************************)
(* The link to the parent.                                                 *)
(***************************************************************************)
(* The only connection is the one the thread is opening, or else the one it *)
(* has left in handler.  Once one has been destroyed before it was set up  *)
(* there are no others; until then the route leads to the connection that  *)
(* there is, and only one that was overtaken does not know about it.       *)
LinkInv ==
    /\ thread \in {"starting", "connecting", "trying"} =>
           live = {} /\ untimely = {} /\ ~notified
    /\ thread \in {"opening", "opened"} =>
           live = {attempt} /\ parentHandler = None /\ ~notified
    /\ thread \in {"ending", "none"} => live \subseteq {handler}
    /\ untimely # {} => live = {} /\ untimely = {handler}
    /\ notified => parentHandler = None /\ handler \in live \cup untimely
    /\ registeredWithGateway \subseteq {route}
    /\ untimely = {} =>
           route \in live \cup {None} /\ overtaken \subseteq {route} \ {None}
    /\ greeted # {} => route = None
    /\ thread = "opening" => overtaken = {route} \ {None}
    /\ thread # "opening" => overtaken \cap registeredWithGateway = {}
    /\ RouteIsRegistered

IInv == TypeOK /\ LinkInv

(* Nothing is connected, and nothing is registered, before the manager runs. *)
LEMMA InitIInv == LinkInit => IInv
<1> SUFFICES ASSUME LinkInit PROVE IInv
  OBVIOUS
<1>1. TypeOK
  <2>1. cancelled \in BOOLEAN /\ notified \in BOOLEAN /\ reachable \in BOOLEAN
    BY DEF LinkInit
  <2>2. breaks \in 0 .. MaxBreaks
    BY LinkAssumption DEF LinkInit
  <2> QED
    BY <2>1, <2>2 DEF LinkInit, TypeOK
<1>2. LinkInv
  BY DEF LinkInit, LinkInv, RouteIsRegistered
<1> QED
  BY <1>1, <1>2 DEF IInv

(* What a lost connection leaves behind.  One that was set up takes itself *)
(* out of the table and starts the thread again; any other is the last.    *)
LEMMA DisconnectIInv ==
    ASSUME IInv, NEW c \in Conns, Disconnect(c)
    PROVE  IInv'
<1> USE LinkAssumption DEF IInv, TypeOK, LinkInv, RouteIsRegistered
<1>1. /\ thread \in {"ending", "none"} /\ c = handler /\ c # None
      /\ live = {c} /\ untimely = {}
  BY DEF Disconnect
<1>2. /\ live' = {} /\ broken' = {} /\ greeted' = {}
      /\ registeredWithGateway' = {}
      /\ attempt' = attempt /\ handler' = handler /\ cancelled' = cancelled
      /\ notified' = notified /\ breaks' = breaks /\ reachable' = reachable
      /\ overtaken' = overtaken
  BY <1>1 DEF Disconnect
<1>3. CASE SetUp(c)
  <2>1. route = c /\ c = parentHandler /\ thread = "none" /\ ~notified
    BY <1>1, <1>3 DEF SetUp
  <2>2. route' = None /\ parentHandler' = None /\ thread' = "starting"
    BY <1>3, <2>1 DEF Disconnect, SetUp, Erased, Orphan, Activate
  <2>3. untimely' = {} /\ overtaken = {}
    BY <1>1, <1>3, <2>1 DEF Disconnect, SetUp
  <2> QED
    BY <1>2, <2>1, <2>2, <2>3
<1>4. CASE ~SetUp(c) /\ c \in registeredWithGateway
  <2>1. route = c
    BY <1>4
  <2>2. thread' = thread
    BY <1>1, <1>4, <2>1 DEF Disconnect, SetUp, Activate
  <2>3. route' = None /\ parentHandler' \in {None, parentHandler}
    BY <1>4 DEF Disconnect, Erased, Orphan
  <2>4. parentHandler' \in {None, c}
    BY <1>1, <2>3
  <2>5. untimely' = {c}
    BY <1>1, <1>4 DEF Disconnect
  <2>6. notified => parentHandler' = None
    BY <2>3
  <2> QED
    BY <1>1, <1>2, <2>2, <2>3, <2>4, <2>5, <2>6
<1>5. CASE ~SetUp(c) /\ c \notin registeredWithGateway
  <2>1. route' = route /\ parentHandler' = parentHandler /\ thread' = thread
    BY <1>5 DEF Disconnect
  <2>2. untimely' = {c}
    BY <1>1, <1>5 DEF Disconnect
  <2>3. registeredWithGateway = {} /\ route \in overtaken \cup {None}
    BY <1>1, <1>5
  <2> QED
    BY <1>1, <1>2, <2>1, <2>2, <2>3
<1> QED
  BY <1>3, <1>4, <1>5

(* Every step of either thread, of the parent and of the shutdown keeps    *)
(* the invariant, in whatever order they come.                             *)
LEMMA NextIInv ==
    ASSUME IInv, [LinkNext]_linkVars
    PROVE  IInv'
<1> USE LinkAssumption DEF IInv, TypeOK, LinkInv, RouteIsRegistered
<1>1. CASE Svc
  BY <1>1 DEF Svc, coreVars, netVars, history
<1>2. CASE Attempt \/ AttemptFails
  BY <1>2 DEF Attempt, AttemptFails, coreVars, netVars, history
<1>3. ASSUME NEW c \in Conns, ConnectionOpens(c)
      PROVE  IInv'
  <2>1. /\ live = {} /\ broken = {} /\ greeted = {} /\ ~notified
        /\ registeredWithGateway = {} /\ route = None /\ parentHandler = None
        /\ untimely = {} /\ overtaken = {}
    BY <1>3 DEF ConnectionOpens
  <2>2. /\ live' = {c} /\ greeted' = {c} /\ thread' = "opening"
        /\ attempt' = c
    BY <1>3, <2>1 DEF ConnectionOpens
  <2> QED
    BY <1>3, <2>1, <2>2 DEF ConnectionOpens, coreVars, history
<1>4. CASE OnConnect
  <2>1. overtaken = {route} \ {None} /\ live = {attempt}
    BY <1>4 DEF OnConnect
  <2>2. registeredWithGateway' = {}
    BY <1>4, <2>1 DEF OnConnect
  <2> QED
    BY <1>4, <2>1, <2>2 DEF OnConnect, netVars, history
<1>5. CASE Notify
  BY <1>5 DEF Notify, netVars, history
<1>6. CASE GiveUp
  BY <1>6 DEF GiveUp, coreVars, netVars, history
<1>7. CASE Exit
  BY <1>7 DEF Exit, coreVars, netVars, history
<1>8. CASE SetParentHandler
  BY <1>8 DEF SetParentHandler, managerVars, netVars, history
<1>9. ASSUME NEW c \in Conns, ReceiveAssociate(c)
      PROVE  IInv'
  <2>1. /\ live = {c} /\ c # None /\ untimely = {} /\ route = None
        /\ overtaken = {} /\ greeted = {c} /\ registeredWithGateway = {}
    BY <1>9 DEF ReceiveAssociate
  <2>2. registeredWithGateway' = {c} /\ route' = c /\ greeted' = {}
    BY <1>9, <2>1 DEF ReceiveAssociate
  <2>3. overtaken' = IF thread = "opening" THEN {c} ELSE {}
    BY <1>9, <2>1 DEF ReceiveAssociate
  <2> QED
    BY <1>9, <2>1, <2>2, <2>3 DEF ReceiveAssociate, managerVars
<1>10. ASSUME NEW c \in Conns, Disconnect(c)
       PROVE  IInv'
  BY <1>10, DisconnectIInv
<1>11. ASSUME NEW c \in Conns, Break(c)
       PROVE  IInv'
  BY <1>11 DEF Break, managerVars, coreVars, history
<1>12. CASE ParentGoes
  BY <1>12 DEF ParentGoes, managerVars, coreVars, history
<1>13. CASE Terminate
  BY <1>13 DEF Terminate, coreVars, netVars, history
<1>14. CASE UNCHANGED linkVars
  BY <1>14 DEF linkVars, managerVars, coreVars, netVars, history
<1> QED
  BY <1>1, <1>2, <1>3, <1>4, <1>5, <1>6, <1>7, <1>8, <1>9, <1>10, <1>11,
     <1>12, <1>13, <1>14 DEF LinkNext, ManagerStep, ReactorStep

(* The pointer to the parent's connection, which the manager and the       *)
(* reactor share without a lock, dangles only when a connection has been   *)
(* destroyed before it was set up.                                         *)
THEOREM LinkTypeCorrect == LinkSpec => []TypeOK
<1>1. LinkSpec => []IInv
  BY InitIInv, NextIInv, PTL DEF LinkSpec
<1>2. IInv => TypeOK
  BY DEF IInv
<1> QED
  BY <1>1, <1>2, PTL

(* crossGatewayHandlers leads to the parent only by a connection that will *)
(* take itself out of it when it is destroyed, unless onConnect came after *)
(* the association: no other order of the two threads' steps does harm.    *)
THEOREM ParentRouteIsRegistered == LinkSpec => []RouteIsRegistered
<1>1. LinkSpec => []IInv
  BY InitIInv, NextIInv, PTL DEF LinkSpec
<1>2. IInv => RouteIsRegistered
  BY DEF IInv, LinkInv
<1> QED
  BY <1>1, <1>2, PTL

(* The safety part of the refinement.  In whatever order the threads run,  *)
(* the route goes from no connection to one, which it keeps until the      *)
(* parent has broken it, and back to none, never from one to another; and  *)
(* after a shutdown or an untimely loss it does not change any more.       *)
THEOREM ImplementsLinkSafely ==
    LinkSpec => Link!Init /\ [][Link!Next]_(Link!vars)
<1>1. LinkInit => Link!Init
  BY DEF LinkInit, Link!Init
<1>2. LinkSpec => []IInv
  BY InitIInv, NextIInv, PTL DEF LinkSpec
<1>3. IInv /\ [LinkNext]_linkVars => [Link!Next]_(Link!vars)
  <2> SUFFICES ASSUME IInv, [LinkNext]_linkVars
               PROVE  [Link!Next]_(Link!vars)
    OBVIOUS
  <2> USE LinkAssumption DEF IInv, TypeOK, LinkInv, Link!vars, Link!Next
  <2>1. ASSUME NEW c \in Conns, ConnectionOpens(c)
        PROVE  UNCHANGED Link!vars
    BY <2>1 DEF ConnectionOpens, coreVars, history
  <2>2. CASE \/ Svc \/ Attempt \/ AttemptFails \/ OnConnect \/ Notify
             \/ GiveUp \/ Exit
    BY <2>2 DEF Svc, Attempt, AttemptFails, OnConnect, Notify, GiveUp, Exit,
                coreVars, netVars, history
  <2>3. CASE SetParentHandler
    BY <2>3 DEF SetParentHandler, managerVars, netVars, history
  <2>4. ASSUME NEW c \in Conns, ReceiveAssociate(c)
        PROVE  Link!Establish(c)
    <3>1. live = {c} /\ untimely = {} /\ route = None
      BY <2>4 DEF ReceiveAssociate
    <3>2. /\ route' = c /\ live' = live /\ broken' = broken
          /\ untimely' = untimely /\ cancelled' = cancelled /\ ~cancelled
          /\ reachable' = reachable
      BY <2>4 DEF ReceiveAssociate, managerVars
    <3> QED
      BY <3>1, <3>2 DEF Link!Establish
  <2>5. ASSUME NEW c \in Conns, Disconnect(c)
        PROVE  Link!Lose \/ Link!End
    <3>1. /\ live = {c} /\ untimely = {} /\ c \in broken /\ ~cancelled
          /\ route \in {c, None} /\ c # None
      BY <2>5 DEF Disconnect
    <3>2. /\ live' = {} /\ broken' = {} /\ cancelled' = cancelled
          /\ reachable' = reachable /\ untimely' \in {{}, {c}}
      BY <2>5, <3>1 DEF Disconnect
    <3>3. CASE c \in registeredWithGateway
      <4>1. route = c /\ route' = None
        BY <2>5, <3>1, <3>3 DEF Disconnect, Erased
      <4> QED
        BY <3>1, <3>2, <4>1 DEF Link!Lose
    <3>4. CASE c \notin registeredWithGateway
      <4>1. route' = route /\ untimely' = {c}
        BY <2>5, <3>1, <3>4 DEF Disconnect, SetUp
      <4> QED
        BY <3>1, <3>2, <4>1 DEF Link!End
    <3> QED
      BY <3>3, <3>4
  <2>6. ASSUME NEW c \in Conns, Break(c)
        PROVE  Link!Break \/ UNCHANGED Link!vars
    <3>1. c \in live /\ c \notin broken /\ route \in live \cup {None}
          /\ live = {c} /\ c # None
      BY <2>6 DEF Break
    <3>2. /\ broken' = broken \cup {c} /\ route' = route /\ live' = live
          /\ cancelled' = cancelled /\ untimely' = untimely
          /\ reachable' = reachable
      BY <2>6 DEF Break, managerVars, coreVars, history
    <3> QED
      BY <3>1, <3>2 DEF Link!Break
  <2>7. CASE ParentGoes
    BY <2>7 DEF ParentGoes, managerVars, coreVars, history, Link!Go
  <2>8. CASE Terminate
    BY <2>8 DEF Terminate, coreVars, netVars, history, Link!End
  <2>9. CASE UNCHANGED linkVars
    BY <2>9 DEF linkVars, managerVars, coreVars, netVars, history
  <2> QED
    BY <2>1, <2>2, <2>3, <2>4, <2>5, <2>6, <2>7, <2>8, <2>9
       DEF LinkNext, ManagerStep, ReactorStep
<1> QED
  BY <1>1, <1>2, <1>3, PTL DEF LinkSpec

(***************************************************************************)
(* The bytes of a connection: the streams are in step.                     *)
(***************************************************************************)

FrameSize(f) == HeaderSize + DataSize(f)
Byte == {b \in [of : Frames, at : Nat, good : BOOLEAN] :
            b.at \in 1 .. FrameSize(b.of)}

(* One byte comes after another, as InStep says. *)
Succeeds(x, y) ==
    \/ y.of = x.of /\ y.at = x.at + 1
    \/ EndsFrame(x) /\ StartsFrame(y)

Chained(s) ==
    /\ s # << >> => StartsFrame(s[1])
    /\ \A i \in 1 .. Len(s) - 1 : Succeeds(s[i], s[i + 1])

Whole(s) == s # << >> => EndsFrame(s[Len(s)])

(* A frame has a header, and only a message has data. *)
LEMMA FrameSizes ==
    /\ HeaderSize \in Nat /\ HeaderSize > 0
    /\ \A f \in Frames : DataSize(f) \in Nat /\ FrameSize(f) \in Nat
    /\ \A f \in Frames : FrameSize(f) = HeaderSize + DataSize(f)
    /\ \A f \in Frames : f # ErrorPacket <=> DataSize(f) > 0
  BY StreamAssumption DEF Frames, DataSize, FrameSize

(* What the bytes of the stream say of themselves. *)
LEMMA ByteFields ==
    ASSUME NEW b \in Byte
    PROVE  /\ b.of \in Frames
           /\ b.at \in Nat /\ b.at >= 1 /\ b.at <= FrameSize(b.of)
           /\ b.good \in BOOLEAN
           /\ FrameSize(b.of) \in Nat
  BY FrameSizes DEF Byte

(* After the last byte of a frame comes the first of another. *)
LEMMA LastByte ==
    ASSUME NEW x \in Byte, NEW y \in Byte, Succeeds(x, y), EndsFrame(x)
    PROVE  StartsFrame(y)
<1>1. y.of = x.of => y.at <= x.at
  BY ByteFields DEF EndsFrame, FrameSize
<1>2. x.at \in Nat /\ y.at \in Nat
  BY ByteFields
<1>3. ~(y.of = x.of /\ y.at = x.at + 1)
  BY <1>1, <1>2
<1> QED
  BY <1>3 DEF Succeeds

(* The bytes of a frame, in their order. *)
LEMMA FrameBytes ==
    ASSUME NEW f \in Frames
    PROVE  /\ Frame(f) \in Seq(Byte)
           /\ Len(Frame(f)) = FrameSize(f)
           /\ \A i \in 1 .. FrameSize(f) :
                Frame(f)[i] = [of |-> f, at |-> i, good |-> TRUE]
<1>1. FrameSize(f) \in Nat /\ FrameSize(f) = HeaderSize + DataSize(f)
  BY FrameSizes
<1>2. \A i \in 1 .. FrameSize(f) :
        [of |-> f, at |-> i, good |-> TRUE] \in Byte
  BY <1>1 DEF Byte
<1>3. Frame(f) = [i \in 1 .. FrameSize(f) |->
                    [of |-> f, at |-> i, good |-> TRUE]]
  BY <1>1 DEF Frame
<1> QED
  BY <1>1, <1>2, <1>3

(* A frame is a stream of its own. *)
LEMMA FrameChained ==
    ASSUME NEW f \in Frames
    PROVE  Chained(Frame(f)) /\ Whole(Frame(f))
<1>1. FrameSize(f) \in Nat /\ FrameSize(f) >= 1
  BY FrameSizes
<1>2. StartsFrame(Frame(f)[1])
  <2>1. Frame(f)[1] = [of |-> f, at |-> 1, good |-> TRUE]
    BY <1>1, FrameBytes
  <2> QED
    BY <2>1 DEF StartsFrame
<1>3. EndsFrame(Frame(f)[FrameSize(f)])
  <2>1. Frame(f)[FrameSize(f)]
          = [of |-> f, at |-> FrameSize(f), good |-> TRUE]
    BY <1>1, FrameBytes
  <2> QED
    BY <2>1 DEF EndsFrame, FrameSize
<1>4. ASSUME NEW i \in 1 .. FrameSize(f) - 1
      PROVE  Succeeds(Frame(f)[i], Frame(f)[i + 1])
  <2>1. /\ Frame(f)[i] = [of |-> f, at |-> i, good |-> TRUE]
        /\ Frame(f)[i + 1] = [of |-> f, at |-> i + 1, good |-> TRUE]
    BY <1>1, FrameBytes
  <2> QED
    BY <2>1 DEF Succeeds
<1> QED
  BY <1>2, <1>3, <1>4, FrameBytes DEF Chained, Whole

(* Whole frames may be followed by more. *)
LEMMA ChainedConcat ==
    ASSUME NEW s \in Seq(Byte), NEW t \in Seq(Byte),
           Chained(s), Whole(s), Chained(t)
    PROVE  /\ Chained(s \o t)
           /\ Whole(t) => Whole(s \o t)
<1> DEFINE st == s \o t
<1>1. /\ Len(st) = Len(s) + Len(t)
      /\ \A i \in 1 .. Len(s) : st[i] = s[i]
      /\ \A i \in Len(s) + 1 .. Len(s) + Len(t) : st[i] = t[i - Len(s)]
      /\ Len(s) \in Nat /\ Len(t) \in Nat
      /\ s # << >> <=> Len(s) > 0
      /\ t # << >> <=> Len(t) > 0
      /\ st # << >> <=> Len(st) > 0
  BY ConcatProperties, EmptySeq
<1> HIDE DEF st
<1>2. st # << >> => StartsFrame(st[1])
  <2>1. CASE s # << >>
    BY <1>1, <2>1 DEF Chained
  <2>2. CASE s = << >> /\ t # << >>
    BY <1>1, <2>2 DEF Chained
  <2> QED
    BY <1>1, <2>1, <2>2
<1>3. ASSUME NEW i \in 1 .. Len(st) - 1
      PROVE  Succeeds(st[i], st[i + 1])
  <2>1. CASE i < Len(s)
    <3>1. i \in 1 .. Len(s) - 1 /\ st[i] = s[i] /\ st[i + 1] = s[i + 1]
      BY <1>1, <2>1
    <3> QED
      BY <3>1 DEF Chained
  <2>2. CASE i = Len(s)
    <3>1. st[i] = s[Len(s)] /\ st[i + 1] = t[1] /\ s # << >> /\ t # << >>
      BY <1>1, <2>2
    <3> QED
      BY <3>1 DEF Chained, Whole, Succeeds
  <2>3. CASE i > Len(s)
    <3>1. /\ i - Len(s) \in 1 .. Len(t) - 1
          /\ st[i] = t[i - Len(s)] /\ st[i + 1] = t[(i - Len(s)) + 1]
      BY <1>1, <2>3
    <3> QED
      BY <3>1 DEF Chained
  <2> QED
    BY <1>1, <2>1, <2>2, <2>3
<1>4. ASSUME Whole(t) PROVE Whole(st)
  <2>1. CASE t # << >>
    <3>1. st[Len(st)] = t[Len(t)]
      BY <1>1, <2>1
    <3> QED
      BY <1>4, <2>1, <3>1 DEF Whole
  <2>2. CASE t = << >>
    <3>1. st # << >> => s # << >> /\ st[Len(st)] = s[Len(s)]
      BY <1>1, <2>2
    <3> QED
      BY <3>1 DEF Whole
  <2> QED
    BY <2>1, <2>2
<1> QED
  BY <1>2, <1>3, <1>4 DEF Chained, st

(* A part of a stream: what comes first, and what comes after whole frames. *)
LEMMA ChainedParts ==
    ASSUME NEW s \in Seq(Byte), NEW t \in Seq(Byte), Chained(s \o t)
    PROVE  /\ Chained(s)
           /\ Whole(s) => Chained(t)
           /\ Whole(s) /\ Whole(s \o t) => Whole(t)
<1> DEFINE st == s \o t
<1>1. /\ Len(st) = Len(s) + Len(t)
      /\ \A i \in 1 .. Len(s) : st[i] = s[i]
      /\ \A i \in 1 .. Len(t) : st[Len(s) + i] = t[i]
      /\ Len(s) \in Nat /\ Len(t) \in Nat
      /\ s # << >> <=> Len(s) > 0
      /\ t # << >> <=> Len(t) > 0
      /\ st # << >> <=> Len(st) > 0
      /\ st \in Seq(Byte)
      /\ Chained(st)
  BY ConcatProperties, EmptySeq
<1> HIDE DEF st
<1>2. Chained(s)
  <2>1. s # << >> => StartsFrame(s[1])
    BY <1>1 DEF Chained
  <2>2. ASSUME NEW i \in 1 .. Len(s) - 1 PROVE Succeeds(s[i], s[i + 1])
    <3>1. i \in 1 .. Len(st) - 1 /\ st[i] = s[i] /\ st[i + 1] = s[i + 1]
      BY <1>1
    <3> QED
      BY <1>1, <3>1 DEF Chained
  <2> QED
    BY <2>1, <2>2 DEF Chained
<1>3. ASSUME Whole(s) PROVE Chained(t)
  <2>1. ASSUME t # << >> PROVE StartsFrame(t[1])
    <3>1. CASE s = << >>
      <4>1. st # << >> /\ st[1] = t[1]
        BY <1>1, <2>1, <3>1
      <4> QED
        BY <1>1, <4>1 DEF Chained
    <3>2. CASE s # << >>
      <4>1. /\ Len(s) \in 1 .. Len(st) - 1
            /\ st[Len(s)] = s[Len(s)] /\ st[Len(s) + 1] = t[1]
        BY <1>1, <2>1, <3>2
      <4>2. Succeeds(st[Len(s)], st[Len(s) + 1])
        BY <1>1, <4>1 DEF Chained
      <4>3. Succeeds(s[Len(s)], t[1])
        BY <4>1, <4>2
      <4>4. EndsFrame(s[Len(s)])
        BY <1>3, <3>2 DEF Whole
      <4>5. s[Len(s)] \in Byte /\ t[1] \in Byte
        BY <1>1, <2>1, <3>2, ElementOfSeq
      <4> QED
        BY <4>3, <4>4, <4>5, LastByte
    <3> QED
      BY <3>1, <3>2
  <2>2. ASSUME NEW i \in 1 .. Len(t) - 1 PROVE Succeeds(t[i], t[i + 1])
    <3>1. /\ Len(s) + i \in 1 .. Len(st) - 1
          /\ st[Len(s) + i] = t[i]
          /\ st[(Len(s) + i) + 1] = t[i + 1]
      BY <1>1
    <3> QED
      BY <1>1, <3>1 DEF Chained
  <2> QED
    BY <2>1, <2>2 DEF Chained
<1>4. Whole(st) => Whole(t)
  <2>1. t # << >> => st # << >> /\ st[Len(st)] = t[Len(t)]
    BY <1>1
  <2> QED
    BY <2>1 DEF Whole
<1> QED
  BY <1>2, <1>3, <1>4 DEF st

(* Every set of numbers has a least one. *)
LEMMA WellOrder ==
    ASSUME NEW T \in SUBSET Nat, T # {}
    PROVE  \E x \in T : \A y \in T : x <= y
<1> DEFINE R == OpToRel(<, Nat)
<1>1. IsWellFoundedOn(R, Nat)
  BY NatLessThanWellFounded
<1>2. \A x, y \in Nat : y < x => <<y, x>> \in R
  BY DEF OpToRel
<1> HIDE DEF R
<1>3. PICK x \in T : \A y \in T : ~(<<y, x>> \in R)
  BY <1>1, WFMin
<1>4. ASSUME NEW y \in T
      PROVE  x <= y
  <2>1. ~(y < x)
    BY <1>2, <1>3, Zenon
  <2> QED
    BY <2>1
<1> QED
  BY <1>4

(* The bytes of the first frame of a stream, by induction on their place. *)
LEMMA FirstFrame ==
    ASSUME NEW s \in Seq(Byte), Chained(s),
           NEW k \in 1 .. Len(s), k <= FrameSize(s[1].of)
    PROVE  s[k].of = s[1].of /\ s[k].at = k
<1> DEFINE f == s[1].of
           Wrong == {i \in 1 .. k : ~(s[i].of = f /\ s[i].at = i)}
<1>1. Len(s) \in Nat /\ s # << >> /\ 1 \in 1 .. Len(s)
  BY EmptySeq
<1>2. f \in Frames /\ FrameSize(f) \in Nat /\ k <= FrameSize(f)
  BY <1>1, ElementOfSeq, ByteFields
<1> SUFFICES ASSUME Wrong # {} PROVE FALSE
  OBVIOUS
<1>3. PICK i \in Wrong : \A j \in Wrong : i <= j
  <2>1. Wrong \in SUBSET Nat
    BY <1>1
  <2> HIDE DEF Wrong
  <2> QED
    BY <2>1, WellOrder
<1>4. i \in 1 .. k /\ i \in Nat /\ ~(s[i].of = f /\ s[i].at = i)
  BY <1>3
<1>5. i # 1
  BY <1>1, <1>4 DEF Chained, StartsFrame
<1>6. i - 1 \in 1 .. k /\ i - 1 \notin Wrong /\ i - 1 \in 1 .. Len(s) - 1
  BY <1>1, <1>3, <1>4, <1>5
<1>7. s[i - 1].of = f /\ s[i - 1].at = i - 1
  BY <1>6
<1>8. Succeeds(s[i - 1], s[(i - 1) + 1])
  BY <1>6 DEF Chained
<1>9. (i - 1) + 1 = i
  BY <1>4
<1>10. ~EndsFrame(s[i - 1])
  BY <1>2, <1>4, <1>7 DEF EndsFrame, FrameSize
<1> QED
  BY <1>4, <1>7, <1>8, <1>9, <1>10 DEF Succeeds
-----------------------------------------------------------------------------
TypeInv ==
    /\ unsent \subseteq Messages
    /\ sendQueue \in
            [Ends -> SUBSET [message : Messages, messageCount : Nat]]
    /\ sentMessageCount \in [Ends -> Nat]
    /\ dataToSend \in [Ends -> Seq(Byte)]
    /\ wire \in [Ends -> Seq(Byte)]
    /\ conn \in [Ends -> {"open", "closed", "flushing", "reporting"}]
    /\ state \in [Ends -> {"READING_HEADER", "READING_DATA"}]
    /\ messageHeader \in [Ends -> Frames]
    /\ collectedData \in [Ends -> Seq(Byte)]
    /\ received \in [Ends -> Seq(Frames)]
    /\ damaged \in Nat

(* There are two ends. *)
LEMMA PeerIs ==
    ASSUME NEW e \in Ends
    PROVE  /\ Peer(e) \in Ends /\ Peer(e) # e /\ Peer(Peer(e)) = e
           /\ \A other \in Ends : other # e => other = Peer(e)
<1>1. \A x \in Ends : Peer(x) \in Ends /\ Peer(x) # x
  <2>1. ASSUME NEW x \in Ends PROVE Peer(x) \in Ends /\ Peer(x) # x
    <3>1. \E other \in Ends : other # x
      BY DEF Ends
    <3> QED
      BY <3>1 DEF Peer
  <2> QED
    BY <2>1
<1>2. \A x, y, z \in Ends : x # y /\ z # y => x = z
  BY DEF Ends
<1> QED
  BY <1>1, <1>2

(* Min, of two numbers. *)
LEMMA MinOfTwo ==
    ASSUME NEW x \in Int, NEW y \in Int
    PROVE  Min({x, y}) = IF x <= y THEN x ELSE y
<1>1. \E z \in {x, y} : \A w \in {x, y} : z <= w
  OBVIOUS
<1>2. Min({x, y}) \in {x, y} /\ \A w \in {x, y} : Min({x, y}) <= w
  BY <1>1 DEF Min
<1> QED
  BY <1>2

(* A sequence cut in two. *)
LEMMA Pieces ==
    ASSUME NEW s \in Seq(Byte), NEW n \in 0 .. Len(s)
    PROVE  /\ SubSeq(s, 1, n) \in Seq(Byte)
           /\ SubSeq(s, n + 1, Len(s)) \in Seq(Byte)
           /\ SubSeq(s, 1, n) \o SubSeq(s, n + 1, Len(s)) = s
           /\ Len(SubSeq(s, 1, n)) = n
<1>1. Len(s) \in Nat /\ n \in Nat /\ n <= Len(s)
  BY LenProperties
<1>2. \A i \in 1 .. Len(s) : s[i] \in Byte
  BY ElementOfSeq
<1>3. SubSeq(s, 1, n) \in Seq(Byte) /\ Len(SubSeq(s, 1, n)) = n
  BY <1>1, <1>2, SubSeqProperties
<1>4. SubSeq(s, n + 1, Len(s)) \in Seq(Byte)
  BY <1>1, <1>2, SubSeqProperties
<1>5. SubSeq(s, 1, n) \o SubSeq(s, n + 1, Len(s)) = SubSeq(s, 1, Len(s))
  <2>1. /\ 1 \in 1 .. Len(s) + 1
        /\ n \in 1 - 1 .. Len(s) /\ Len(s) \in n .. Len(s)
    BY <1>1
  <2> QED
    BY <2>1, ConcatAdjacentSubSeq
<1> QED
  BY <1>3, <1>4, <1>5, SubSeqFull

(* What a call of recv moves. *)
LEMMA ReadMoves ==
    ASSUME TypeInv, NEW e \in Ends, NEW n \in Int, Read(e, n)
    PROVE  LET p == Peer(e)
               moved == SubSeq(wire[p], 1, n)
           IN  /\ n \in Nat /\ n >= 1 /\ n <= Awaited(e)
               /\ Awaited(e) \in Int
               /\ moved \in Seq(Byte) /\ Len(moved) = n
               /\ wire' \in [Ends -> Seq(Byte)]
               /\ wire[p] = moved \o wire'[p]
               /\ \A o \in Ends : o # p => wire'[o] = wire[o]
               /\ Collected(e, n) = collectedData[e] \o moved
               /\ Collected(e, n) \in Seq(Byte)
               /\ Len(Collected(e, n)) = Len(collectedData[e]) + n
<1> DEFINE p == Peer(e)
           moved == SubSeq(wire[p], 1, n)
<1>1. p \in Ends
  BY PeerIs
<1>2. wire[p] \in Seq(Byte) /\ collectedData[e] \in Seq(Byte)
  BY <1>1 DEF TypeInv
<1>3. Len(wire[p]) \in Nat /\ Len(collectedData[e]) \in Nat
  BY <1>2, LenProperties
<1>4. Awaited(e) \in Int
  BY <1>3, FrameSizes DEF Awaited, TypeInv
<1>5. n \in 1 .. Min({Awaited(e), Len(wire[p])})
  BY DEF Read
<1>6. n \in 1 .. (IF Awaited(e) <= Len(wire[p]) THEN Awaited(e)
                                                ELSE Len(wire[p]))
  BY <1>3, <1>4, <1>5, MinOfTwo
<1>7. n \in Nat /\ n >= 1 /\ n <= Awaited(e) /\ n \in 0 .. Len(wire[p])
  BY <1>3, <1>4, <1>6
<1>8. /\ moved \in Seq(Byte) /\ Len(moved) = n
      /\ SubSeq(wire[p], n + 1, Len(wire[p])) \in Seq(Byte)
      /\ wire[p] = moved \o SubSeq(wire[p], n + 1, Len(wire[p]))
  BY <1>2, <1>7, Pieces
<1>9. wire' = [wire EXCEPT ![p] = SubSeq(wire[p], n + 1, Len(wire[p]))]
  BY DEF Read
<1>10. /\ wire' \in [Ends -> Seq(Byte)]
       /\ wire'[p] = SubSeq(wire[p], n + 1, Len(wire[p]))
       /\ \A o \in Ends : o # p => wire'[o] = wire[o]
  BY <1>1, <1>8, <1>9 DEF TypeInv
<1>11. Collected(e, n) = collectedData[e] \o moved
  BY DEF Collected
<1> HIDE DEF moved
<1>12. /\ Collected(e, n) \in Seq(Byte)
       /\ Len(Collected(e, n)) = Len(collectedData[e]) + n
  <2> DEFINE c == collectedData[e]
  <2>1. c \in Seq(Byte) /\ moved \in Seq(Byte)
    BY <1>2, <1>8
  <2> HIDE DEF c
  <2>2. c \o moved \in Seq(Byte) /\ Len(c \o moved) = Len(c) + Len(moved)
    BY <2>1, ConcatProperties
  <2> QED
    BY <1>8, <1>11, <2>2 DEF c
<1>13. wire[p] = moved \o wire'[p]
  BY <1>8, <1>10
<1> QED
  BY <1>4, <1>7, <1>8, <1>10, <1>11, <1>12, <1>13 DEF moved

(* The types, to begin with. *)
LEMMA TypeInit == Init => TypeInv
  BY EmptySeq, StreamAssumption DEF Init, TypeInv, Ends, Frames

(* Queueing a message keeps the types. *)
LEMMA TypeSend ==
    ASSUME TypeInv, NEW m \in Messages, SendMessage(m)
    PROVE  TypeInv'
<1> DEFINE e == Sender[m]
<1>1. e \in Ends
  BY StreamAssumption
<1>2. [message |-> m, messageCount |-> sentMessageCount[e]]
        \in [message : Messages, messageCount : Nat]
  BY <1>1 DEF TypeInv
<1>3. sendQueue' \in [Ends -> SUBSET [message : Messages, messageCount : Nat]]
  BY <1>1, <1>2 DEF TypeInv, SendMessage
<1>4. sentMessageCount' \in [Ends -> Nat]
  BY <1>1 DEF TypeInv, SendMessage, Counted
<1> QED
  BY <1>3, <1>4 DEF TypeInv, SendMessage, input

(* Taking a message out of the queue keeps the types. *)
LEMMA TypeGetNext ==
    ASSUME TypeInv, NEW e \in Ends, GetNextMessageToSend(e)
    PROVE  TypeInv'
<1>1. PICK top \in sendQueue[e] :
        /\ sendQueue' = [sendQueue EXCEPT ![e] = @ \ {top}]
        /\ dataToSend' = [dataToSend EXCEPT ![e] = Frame(top.message)]
  BY DEF GetNextMessageToSend
<1>2. top.message \in Frames
  BY <1>1 DEF TypeInv, Frames
<1>3. dataToSend' \in [Ends -> Seq(Byte)]
  BY <1>1, <1>2, FrameBytes DEF TypeInv
<1>4. sendQueue' \in [Ends -> SUBSET [message : Messages, messageCount : Nat]]
  BY <1>1 DEF TypeInv
<1> QED
  BY <1>3, <1>4 DEF TypeInv, GetNextMessageToSend, input

(* What a call of send moves. *)
LEMMA WriteMoves ==
    ASSUME TypeInv, NEW e \in Ends, Write(e)
    PROVE  /\ wire' \in [Ends -> Seq(Byte)]
           /\ dataToSend' \in [Ends -> Seq(Byte)]
           /\ wire'[e] \o dataToSend'[e] = wire[e] \o dataToSend[e]
           /\ \A o \in Ends : o # e => /\ wire'[o] = wire[o]
                                       /\ dataToSend'[o] = dataToSend[o]
           /\ \E moved \in Seq(Byte) :
                /\ wire'[e] = wire[e] \o moved
                /\ dataToSend[e] = moved \o dataToSend'[e]
<1> DEFINE data == dataToSend[e]
<1>1. data \in Seq(Byte) /\ wire[e] \in Seq(Byte)
  BY DEF TypeInv
<1>2. Len(data) \in Nat /\ Len(wire[e]) \in Nat /\ Capacity \in Nat
  BY <1>1, LenProperties, StreamAssumption
<1>3. PICK n \in 1 .. Min({Len(data), Capacity - Len(wire[e])}) :
        /\ wire' = [wire EXCEPT ![e] = wire[e] \o SubSeq(data, 1, n)]
        /\ dataToSend' = [dataToSend EXCEPT ![e] =
                                SubSeq(data, n + 1, Len(data))]
  BY DEF Write
<1>4. n \in 0 .. Len(data)
  <2>1. PICK x \in Nat, y \in Int :
          x = Len(data) /\ y = Capacity - Len(wire[e])
    <3>1. PICK l \in Nat : l = Len(wire[e])
      BY <1>2
    <3>2. Capacity - l \in Int
      BY <1>2
    <3> QED
      BY <1>2, <3>1, <3>2
  <2>2. n \in 1 .. Min({x, y})
    BY <1>3, <2>1
  <2>3. Min({x, y}) = IF x <= y THEN x ELSE y
    BY MinOfTwo
  <2>4. n \in 0 .. x
    BY <2>2, <2>3
  <2> QED
    BY <2>1, <2>4
<1> DEFINE moved == SubSeq(data, 1, n)
           rest == SubSeq(data, n + 1, Len(data))
<1>5. moved \in Seq(Byte) /\ rest \in Seq(Byte) /\ moved \o rest = data
  BY <1>1, <1>4, Pieces
<1> HIDE DEF data
<1>6. /\ wire' = [wire EXCEPT ![e] = wire[e] \o moved]
      /\ dataToSend' = [dataToSend EXCEPT ![e] = rest]
  BY <1>3
<1> HIDE DEF moved, rest
<1>7. wire[e] \o moved \in Seq(Byte)
  BY <1>1, <1>5, ConcatProperties
<1>8. /\ wire' \in [Ends -> Seq(Byte)]
      /\ dataToSend' \in [Ends -> Seq(Byte)]
      /\ wire'[e] = wire[e] \o moved
      /\ dataToSend'[e] = rest
      /\ \A o \in Ends : o # e => /\ wire'[o] = wire[o]
                                  /\ dataToSend'[o] = dataToSend[o]
  BY <1>5, <1>6, <1>7 DEF TypeInv
<1>9. (wire[e] \o moved) \o rest = wire[e] \o data
  <2> DEFINE w == wire[e]
  <2>1. w \in Seq(Byte)
    BY <1>1
  <2> HIDE DEF w
  <2>2. moved \in Seq(Byte) /\ rest \in Seq(Byte)
    BY <1>5
  <2>3. (w \o moved) \o rest = w \o (moved \o rest)
    BY ONLY <2>2, <2>1, ConcatAssociative
  <2> QED
    BY <1>5, <2>3 DEF w
<1> QED
  BY <1>5, <1>8, <1>9 DEF data

(* Writing keeps the types. *)
LEMMA TypeWrite ==
    ASSUME TypeInv, NEW e \in Ends, Write(e)
    PROVE  TypeInv'
<1>1. wire' \in [Ends -> Seq(Byte)] /\ dataToSend' \in [Ends -> Seq(Byte)]
  BY WriteMoves
<1> QED
  BY <1>1 DEF TypeInv, Write, input

(* Closing an end keeps the types. *)
LEMMA TypeClosed ==
    ASSUME TypeInv, NEW e \in Ends, ClosedEnd(e)
    PROVE  TypeInv'
<1>1. dataToSend' \in [Ends -> Seq(Byte)]
  BY EmptySeq DEF TypeInv, ClosedEnd
<1>2. sendQueue' \in [Ends -> SUBSET [message : Messages, messageCount : Nat]]
  BY DEF TypeInv, ClosedEnd
<1>3. conn' \in [Ends -> {"open", "closed", "flushing", "reporting"}]
  BY DEF TypeInv, ClosedEnd
<1> QED
  BY <1>1, <1>2, <1>3 DEF TypeInv, ClosedEnd, input

(* Reporting a damaged header keeps the types. *)
LEMMA TypeReport ==
    ASSUME TypeInv, NEW e \in Ends, Report(e)
    PROVE  TypeInv'
<1>1. CASE /\ dataToSend' = [dataToSend EXCEPT ![e] = Frame(ErrorPacket)]
           /\ conn' = [conn EXCEPT ![e] = "reporting"]
           /\ UNCHANGED <<unsent, sendQueue, sentMessageCount, wire, input,
                          damaged>>
  <2>1. dataToSend' \in [Ends -> Seq(Byte)]
    BY <1>1, FrameBytes DEF TypeInv, Frames
  <2>2. conn' \in [Ends -> {"open", "closed", "flushing", "reporting"}]
    BY <1>1 DEF TypeInv
  <2> QED
    BY <1>1, <2>1, <2>2 DEF TypeInv, input
<1> QED
  BY <1>1, TypeClosed DEF Report, Returned

(* Reading a header keeps the types. *)
LEMMA TypeReadHeader ==
    ASSUME TypeInv, NEW e \in Ends, ReadHeader(e)
    PROVE  TypeInv'
<1>1. PICK n \in 1 .. HeaderSize :
        /\ Read(e, n)
        /\ LET bytes == Collected(e, n) IN
           \/ /\ Len(bytes) # HeaderSize
              /\ collectedData' = [collectedData EXCEPT ![e] = bytes]
              /\ UNCHANGED <<state, messageHeader, conn>>
           \/ /\ Len(bytes) = HeaderSize /\ ValidHeader(bytes)
              /\ messageHeader' = [messageHeader EXCEPT ![e] = bytes[1].of]
              /\ collectedData' = [collectedData EXCEPT ![e] = << >>]
              /\ state' = [state EXCEPT ![e] = "READING_DATA"]
              /\ UNCHANGED conn
           \/ /\ Len(bytes) = HeaderSize /\ ~ValidHeader(bytes)
              /\ collectedData' = [collectedData EXCEPT ![e] = bytes]
              /\ SendErrorPacket(e)
              /\ UNCHANGED <<state, messageHeader>>
  BY DEF ReadHeader
<1> DEFINE bytes == Collected(e, n)
<1>2. n \in Int
  BY FrameSizes
<1>3. bytes \in Seq(Byte) /\ wire' \in [Ends -> Seq(Byte)]
  BY <1>1, <1>2, ReadMoves
<1>4. Len(bytes) = HeaderSize => bytes[1].of \in Frames
  BY <1>3, FrameSizes, ElementOfSeq, ByteFields
<1> HIDE DEF bytes
<1>5. collectedData' \in [Ends -> Seq(Byte)]
  <2>1. \E c \in Seq(Byte) : collectedData' = [collectedData EXCEPT ![e] = c]
    BY <1>1, <1>3, EmptySeq DEF bytes
  <2> QED
    BY <2>1 DEF TypeInv
<1>6. messageHeader' \in [Ends -> Frames]
  BY <1>1, <1>4 DEF TypeInv, bytes
<1>7. state' \in [Ends -> {"READING_HEADER", "READING_DATA"}]
  BY <1>1 DEF TypeInv
<1>8. conn' \in [Ends -> {"open", "closed", "flushing", "reporting"}]
  BY <1>1 DEF TypeInv, SendErrorPacket
<1> QED
  BY <1>3, <1>5, <1>6, <1>7, <1>8 DEF TypeInv, ReadHeader, output

(* Reading data keeps the types. *)
LEMMA TypeReadData ==
    ASSUME TypeInv, NEW e \in Ends, ReadData(e)
    PROVE  TypeInv'
<1>1. PICK n \in 1 .. Len(wire[Peer(e)]) :
        /\ Read(e, n)
        /\ LET bytes == Collected(e, n) IN
           \/ /\ Len(bytes) # DataSize(messageHeader[e])
              /\ collectedData' = [collectedData EXCEPT ![e] = bytes]
              /\ UNCHANGED <<state, received>>
           \/ /\ Len(bytes) = DataSize(messageHeader[e])
              /\ ProcessData(e, bytes)
              /\ collectedData' = [collectedData EXCEPT ![e] = << >>]
              /\ state' = [state EXCEPT ![e] = "READING_HEADER"]
  BY DEF ReadData
<1>2. n \in Int
  BY PeerIs, LenProperties DEF TypeInv
<1> DEFINE bytes == Collected(e, n)
<1>3. bytes \in Seq(Byte) /\ wire' \in [Ends -> Seq(Byte)]
  BY <1>1, <1>2, ReadMoves
<1> HIDE DEF bytes
<1>4. collectedData' \in [Ends -> Seq(Byte)]
  <2>1. \E c \in Seq(Byte) : collectedData' = [collectedData EXCEPT ![e] = c]
    BY <1>1, <1>3, EmptySeq DEF bytes
  <2> QED
    BY <2>1 DEF TypeInv
<1>5. state' \in [Ends -> {"READING_HEADER", "READING_DATA"}]
  BY <1>1 DEF TypeInv
<1>6. received' \in [Ends -> Seq(Frames)]
  <2>1. received[e] \in Seq(Frames) /\ messageHeader[e] \in Frames
    BY DEF TypeInv
  <2>2. Append(received[e], messageHeader[e]) \in Seq(Frames)
    BY <2>1, AppendProperties
  <2>3. \/ received' = received
        \/ received' = [received EXCEPT ![e] =
                            Append(received[e], messageHeader[e])]
    BY <1>1 DEF ProcessData
  <2> QED
    BY <2>2, <2>3 DEF TypeInv
<1> QED
  BY <1>3, <1>4, <1>5, <1>6 DEF TypeInv, ReadData, output

(* Damage keeps the types, and everything about a byte but that it is good. *)
LEMMA TypeDamage ==
    ASSUME TypeInv, NEW e \in Ends, Damage(e)
    PROVE  /\ TypeInv'
           /\ \A o \in Ends : o # e => wire'[o] = wire[o]
           /\ Len(wire'[e]) = Len(wire[e])
           /\ \A i \in 1 .. Len(wire[e]) :
                /\ wire'[e][i].of = wire[e][i].of
                /\ wire'[e][i].at = wire[e][i].at
<1>1. PICK i \in DOMAIN wire[e] :
        wire' = [wire EXCEPT ![e][i].good = FALSE]
  BY DEF Damage
<1> DEFINE s == wire[e]
           bad == [s[i] EXCEPT !.good = FALSE]
           t == [s EXCEPT ![i] = bad]
<1>2. s \in Seq(Byte) /\ i \in 1 .. Len(s)
  BY <1>1, LenProperties DEF TypeInv
<1>3. s[i] \in Byte
  BY <1>2, ElementOfSeq
<1>4. bad \in Byte /\ bad.of = s[i].of /\ bad.at = s[i].at
  BY <1>3 DEF Byte
<1>5. wire' = [wire EXCEPT ![e] = t]
  BY <1>1
<1> HIDE DEF bad, s
<1>6. /\ t \in Seq(Byte) /\ Len(t) = Len(s)
      /\ \A j \in 1 .. Len(s) : t[j] = IF j = i THEN bad ELSE s[j]
  BY <1>2, <1>4, ExceptSeq
<1> HIDE DEF t
<1>7. /\ wire' \in [Ends -> Seq(Byte)] /\ wire'[e] = t
      /\ \A o \in Ends : o # e => wire'[o] = wire[o]
  BY <1>5, <1>6 DEF TypeInv
<1>8. \A j \in 1 .. Len(s) : t[j].of = s[j].of /\ t[j].at = s[j].at
  BY <1>4, <1>6
<1>9. TypeInv'
  BY <1>7 DEF TypeInv, Damage, output, input
<1> QED
  BY <1>6, <1>7, <1>8, <1>9 DEF s

(* Every step keeps the types. *)
LEMMA TypeNext == TypeInv /\ [Next]_vars => TypeInv'
<1> SUFFICES ASSUME TypeInv, [Next]_vars PROVE TypeInv'
  OBVIOUS
<1>1. CASE UNCHANGED vars
  BY <1>1 DEF TypeInv, vars, output, input
<1>2. ASSUME NEW e \in Ends, HangUp(e) \/ Broken(e) PROVE TypeInv'
  BY <1>2, TypeClosed DEF HangUp, Broken
<1> QED
  BY <1>1, <1>2, TypeSend, TypeGetNext, TypeWrite, TypeReport,
     TypeReadHeader, TypeReadData, TypeDamage
  DEF Next, HandleInput

(* What the peer of e has of a frame that it has not finished.             *)
Begun(e) ==
    (IF state[Peer(e)] = "READING_DATA"
       THEN SubSeq(Frame(messageHeader[Peer(e)]), 1, HeaderSize) ELSE << >>)
      \o collectedData[Peer(e)]

(* The header of a frame tells whose it is. *)
LEMMA HeaderBytes ==
    ASSUME NEW f \in Frames
    PROVE  /\ SubSeq(Frame(f), 1, HeaderSize) \in Seq(Byte)
           /\ Len(SubSeq(Frame(f), 1, HeaderSize)) = HeaderSize
           /\ SubSeq(Frame(f), 1, HeaderSize)[1].of = f
<1>1. /\ Frame(f) \in Seq(Byte) /\ HeaderSize \in 0 .. Len(Frame(f))
      /\ 1 \in 1 .. FrameSize(f)
      /\ \A i \in 1 .. Len(Frame(f)) : Frame(f)[i] \in Byte
  BY FrameBytes, FrameSizes, ElementOfSeq
<1>2. Frame(f)[1] = [of |-> f, at |-> 1, good |-> TRUE]
  BY <1>1, FrameBytes
<1>3. SubSeq(Frame(f), 1, HeaderSize)[1] = Frame(f)[1]
  BY FrameSizes
<1>4. /\ SubSeq(Frame(f), 1, HeaderSize) \in Seq(Byte)
      /\ Len(SubSeq(Frame(f), 1, HeaderSize)) = HeaderSize
  <2> DEFINE s == Frame(f)
  <2>1. s \in Seq(Byte) /\ HeaderSize \in 0 .. Len(s)
    BY <1>1
  <2> HIDE DEF s
  <2>2. SubSeq(s, 1, HeaderSize) \in Seq(Byte)
        /\ Len(SubSeq(s, 1, HeaderSize)) = HeaderSize
    BY <2>1, Pieces
  <2> QED
    BY <2>2 DEF s
<1>5. SubSeq(Frame(f), 1, HeaderSize)[1].of = f
  <2>1. [of |-> f, at |-> 1, good |-> TRUE].of = f
    OBVIOUS
  <2> QED
    BY <1>2, <1>3, <2>1, Zenon
<1> QED
  BY <1>4, <1>5, Zenon

(* A stream is what has been begun and what has not been read. *)
LEMMA StreamParts ==
    ASSUME TypeInv, NEW e \in Ends
    PROVE  /\ Begun(e) \in Seq(Byte) /\ Unread(e) \in Seq(Byte)
           /\ Stream(e) = Begun(e) \o Unread(e)
<1> DEFINE p == Peer(e)
           h == IF state[p] = "READING_DATA"
                  THEN SubSeq(Frame(messageHeader[p]), 1, HeaderSize)
                  ELSE << >>
           c == collectedData[p]
           w == wire[e]
           d == dataToSend[e]
<1>1. p \in Ends
  BY PeerIs
<1>2. h \in Seq(Byte)
  BY <1>1, HeaderBytes, EmptySeq DEF TypeInv
<1>3. c \in Seq(Byte) /\ w \in Seq(Byte) /\ d \in Seq(Byte)
  BY <1>1 DEF TypeInv
<1>4. /\ Begun(e) = h \o c /\ Unread(e) = w \o d
      /\ Stream(e) = ((h \o c) \o w) \o d
  BY DEF Begun, Unread, Stream
<1> HIDE DEF h, c, w, d
<1>5. h \o c \in Seq(Byte) /\ w \o d \in Seq(Byte)
  BY ONLY <1>2, <1>3, ConcatProperties
<1>6. \A b \in Seq(Byte) : (b \o w) \o d = b \o (w \o d)
  BY ONLY <1>3, ConcatAssociative, SMTT(40)
<1>7. ((h \o c) \o w) \o d = (h \o c) \o (w \o d)
  BY <1>5, <1>6
<1> QED
  BY <1>4, <1>5, <1>7

(* InStep says that every stream is chained, and whole unless its sender is*)
(* closed.                                                                 *)
LEMMA InStepIs ==
    ASSUME TypeInv
    PROVE  InStep <=> \A e \in Ends : /\ Chained(Stream(e))
                                      /\ conn[e] # "closed" => Whole(Stream(e))
<1>1. ASSUME NEW e \in Ends
      PROVE  LET s == Stream(e) IN
             (s # << >> =>
                /\ StartsFrame(s[1])
                /\ conn[e] # "closed" => EndsFrame(s[Len(s)])
                /\ \A i \in 1 .. Len(s) - 1 :
                    \/ s[i + 1].of = s[i].of /\ s[i + 1].at = s[i].at + 1
                    \/ EndsFrame(s[i]) /\ StartsFrame(s[i + 1]))
             <=> Chained(s) /\ (conn[e] # "closed" => Whole(s))
  <2> DEFINE s == Stream(e)
  <2>1. s = << >> => \A i \in 1 .. Len(s) - 1 : FALSE
    BY EmptySeq
  <2> HIDE DEF s
  <2>2. (s # << >> =>
           /\ StartsFrame(s[1])
           /\ conn[e] # "closed" => EndsFrame(s[Len(s)])
           /\ \A i \in 1 .. Len(s) - 1 :
               \/ s[i + 1].of = s[i].of /\ s[i + 1].at = s[i].at + 1
               \/ EndsFrame(s[i]) /\ StartsFrame(s[i + 1]))
        <=> Chained(s) /\ (conn[e] # "closed" => Whole(s))
    BY <2>1 DEF Chained, Whole, Succeeds
  <2> QED
    BY <2>2 DEF s
<1> QED
  BY <1>1 DEF InStep

(* How each action moves the bytes of the two directions. *)
Same(e) == Begun(e)' = Begun(e) /\ Unread(e)' = Unread(e)

(* A message in a queue is not in the stream. *)
LEMMA SendKeeps ==
    ASSUME TypeInv, NEW m \in Messages, SendMessage(m), NEW e \in Ends
    PROVE  Same(e) /\ conn' = conn
  BY DEF Same, Begun, Unread, SendMessage, input

(* A frame is begun when the one before has been written. *)
LEMMA FrameAppended ==
    ASSUME TypeInv, NEW e \in Ends, NEW f \in Frames, dataToSend[e] = << >>,
           dataToSend' = [dataToSend EXCEPT ![e] = Frame(f)],
           UNCHANGED <<wire, input>>
    PROVE  /\ Begun(e)' = Begun(e) /\ Unread(e)' = Unread(e) \o Frame(f)
           /\ Same(Peer(e))
<1>1. wire[e] \in Seq(Byte)
  BY DEF TypeInv
<1>2. Unread(e) = wire[e]
  BY <1>1, ConcatEmptySeq DEF Unread
<1>3. Unread(e)' = wire[e] \o Frame(f)
  BY DEF Unread, TypeInv
<1>4. Unread(Peer(e))' = Unread(Peer(e))
  BY PeerIs DEF Unread, TypeInv
<1>5. \A o \in Ends : Begun(o)' = Begun(o)
  BY DEF Begun, input
<1> QED
  BY <1>2, <1>3, <1>4, <1>5, PeerIs DEF Same

(* Writing moves bytes within the stream. *)
LEMMA WriteKeeps ==
    ASSUME TypeInv, NEW e \in Ends, Write(e)
    PROVE  \A o \in Ends : Same(o)
<1>1. \A o \in Ends : Begun(o)' = Begun(o)
  BY DEF Begun, input, Write
<1>2. \A o \in Ends : Unread(o)' = Unread(o)
  BY WriteMoves DEF Unread
<1> QED
  BY <1>1, <1>2 DEF Same

(* A closed end cuts off what it has not written. *)
LEMMA ClosedCuts ==
    ASSUME TypeInv, NEW e \in Ends, ClosedEnd(e)
    PROVE  /\ Same(Peer(e))
           /\ Begun(e)' = Begun(e)
           /\ Unread(e)' = wire[e]
           /\ wire[e] \in Seq(Byte) /\ dataToSend[e] \in Seq(Byte)
           /\ Unread(e) = wire[e] \o dataToSend[e]
           /\ conn'[e] = "closed" /\ conn'[Peer(e)] = conn[Peer(e)]
<1>1. wire[e] \in Seq(Byte) /\ dataToSend[e] \in Seq(Byte)
  BY DEF TypeInv
<1>2. Unread(e)' = wire[e] \o << >>
  BY DEF Unread, TypeInv, ClosedEnd
<1>3. Unread(Peer(e))' = Unread(Peer(e))
  BY PeerIs DEF Unread, TypeInv, ClosedEnd
<1>4. \A o \in Ends : Begun(o)' = Begun(o)
  BY DEF Begun, input, ClosedEnd
<1>5. conn'[e] = "closed" /\ conn'[Peer(e)] = conn[Peer(e)]
  BY PeerIs DEF ClosedEnd, TypeInv
<1> QED
  BY <1>1, <1>2, <1>3, <1>4, <1>5, PeerIs, ConcatEmptySeq DEF Same, Unread

(* The bytes read go from what has not been read to what has been. *)
LEMMA ReadUnread ==
    ASSUME TypeInv, NEW e \in Ends, NEW n \in Int, Read(e, n),
           UNCHANGED dataToSend
    PROVE  LET o == Peer(e)
               moved == SubSeq(wire[o], 1, n)
           IN  /\ Unread(o) = moved \o Unread(o)'
               /\ Unread(o)' \in Seq(Byte)
               /\ Unread(e)' = Unread(e)
<1> DEFINE o == Peer(e)
           moved == SubSeq(wire[o], 1, n)
           d == dataToSend[o]
           w == wire'[o]
<1>1. o \in Ends /\ o # e
  BY PeerIs
<1>2. /\ moved \in Seq(Byte) /\ wire[o] = moved \o w
      /\ w \in Seq(Byte)
      /\ wire'[e] = wire[e]
  BY <1>1, ReadMoves
<1>3. d \in Seq(Byte)
  BY <1>1 DEF TypeInv
<1>4. Unread(o) = (moved \o w) \o d
  BY <1>2 DEF Unread
<1>5. Unread(o)' = w \o d
  BY DEF Unread
<1>6. Unread(e)' = Unread(e)
  BY <1>2 DEF Unread
<1> HIDE DEF moved, w, d
<1>7. (moved \o w) \o d = moved \o (w \o d)
  <2>1. moved \in Seq(Byte) /\ w \in Seq(Byte)
    BY <1>2
  <2> QED
    BY ONLY <2>1, <1>3, ConcatAssociative
<1>8. w \o d \in Seq(Byte)
  <2>1. w \in Seq(Byte)
    BY <1>2
  <2> QED
    BY ONLY <2>1, <1>3, ConcatProperties
<1> QED
  BY <1>4, <1>5, <1>6, <1>7, <1>8 DEF moved

(* Reading a header moves bytes to the beginning of a frame, a header at   *)
(* most.                                                                   *)
LEMMA ReadHeaderMoves ==
    ASSUME TypeInv, NEW e \in Ends, ReadHeader(e)
    PROVE  /\ Same(e)
           /\ conn'[e] # "closed" /\ conn'[Peer(e)] = conn[Peer(e)]
           /\ conn[e] # "closed"
           /\ \E moved \in Seq(Byte) :
                /\ Unread(Peer(e)) = moved \o Unread(Peer(e))'
                /\ Unread(Peer(e))' \in Seq(Byte)
                /\ Begun(Peer(e))' = Begun(Peer(e)) \o moved
                /\ Len(Begun(Peer(e)) \o moved) <= HeaderSize
<1> DEFINE o == Peer(e)
<1>1. PICK n \in 1 .. HeaderSize :
        /\ Read(e, n)
        /\ LET bytes == Collected(e, n) IN
           \/ /\ Len(bytes) # HeaderSize
              /\ collectedData' = [collectedData EXCEPT ![e] = bytes]
              /\ UNCHANGED <<state, messageHeader, conn>>
           \/ /\ Len(bytes) = HeaderSize /\ ValidHeader(bytes)
              /\ messageHeader' = [messageHeader EXCEPT ![e] = bytes[1].of]
              /\ collectedData' = [collectedData EXCEPT ![e] = << >>]
              /\ state' = [state EXCEPT ![e] = "READING_DATA"]
              /\ UNCHANGED conn
           \/ /\ Len(bytes) = HeaderSize /\ ~ValidHeader(bytes)
              /\ collectedData' = [collectedData EXCEPT ![e] = bytes]
              /\ SendErrorPacket(e)
              /\ UNCHANGED <<state, messageHeader>>
  BY DEF ReadHeader
<1> DEFINE bytes == Collected(e, n)
           moved == SubSeq(wire[o], 1, n)
<1>2. n \in Int /\ o \in Ends /\ o # e /\ Peer(o) = e /\ conn[e] = "open"
  BY FrameSizes, PeerIs DEF ReadHeader
<1>3. /\ moved \in Seq(Byte) /\ bytes = collectedData[e] \o moved
      /\ bytes \in Seq(Byte) /\ n <= Awaited(e) /\ n \in Nat
      /\ Len(bytes) = Len(collectedData[e]) + n
  BY <1>1, <1>2, ReadMoves
<1>4. /\ Unread(o) = moved \o Unread(o)' /\ Unread(o)' \in Seq(Byte)
      /\ Unread(e)' = Unread(e)
  BY <1>1, <1>2, ReadUnread DEF ReadHeader, output
<1>5. Begun(o) = << >> \o collectedData[e]
  BY <1>2 DEF Begun, ReadHeader
<1>6. collectedData[e] \in Seq(Byte)
  BY DEF TypeInv
<1>7. Begun(o) = collectedData[e]
  BY <1>5, <1>6, ConcatEmptySeq
<1>8. Len(bytes) <= HeaderSize
  <2>1. Awaited(e) = HeaderSize - Len(collectedData[e])
    BY DEF Awaited, ReadHeader
  <2>2. Len(collectedData[e]) \in Nat
    BY <1>6, LenProperties
  <2> QED
    BY <1>3, <2>1, <2>2, FrameSizes
<1>9. /\ \A a \in Ends : a # e => /\ state'[a] = state[a]
                                  /\ messageHeader'[a] = messageHeader[a]
                                  /\ collectedData'[a] = collectedData[a]
                                  /\ conn'[a] = conn[a]
      /\ conn'[e] # "closed"
  BY <1>1, <1>2 DEF TypeInv, SendErrorPacket
<1>10. Begun(e)' = Begun(e)
  BY <1>2, <1>9 DEF Begun
<1>11. Begun(o)' = bytes
  <2>1. CASE state'[e] = "READING_DATA"
    <3>1. /\ ValidHeader(bytes) /\ messageHeader'[e] = bytes[1].of
          /\ collectedData'[e] = << >>
      BY <1>1, <2>1 DEF TypeInv, ReadHeader
    <3>2. Begun(o)' = SubSeq(Frame(messageHeader'[e]), 1, HeaderSize) \o << >>
      BY <1>2, <2>1, <3>1 DEF Begun
    <3>3. Begun(o)' = bytes \o << >>
      BY <3>1, <3>2 DEF ValidHeader
    <3> QED
      BY <1>3, <3>3, ConcatEmptySeq
  <2>2. CASE state'[e] # "READING_DATA"
    <3>1. collectedData'[e] = bytes
      BY <1>1, <2>2 DEF TypeInv, ReadHeader
    <3>2. Begun(o)' = << >> \o bytes
      BY <1>2, <2>2, <3>1 DEF Begun
    <3> QED
      BY <1>3, <3>2, ConcatEmptySeq
  <2> QED
    BY <2>1, <2>2
<1> HIDE DEF bytes, moved
<1> QED
  BY <1>2, <1>3, <1>4, <1>7, <1>8, <1>9, <1>10, <1>11 DEF Same

(* Reading data moves bytes to the frame whose header has been read, and   *)
(* processes it when it is complete.                                       *)
LEMMA ReadDataMoves ==
    ASSUME TypeInv, NEW e \in Ends, ReadData(e)
    PROVE  LET o == Peer(e)
               f == messageHeader[e]
           IN  /\ Same(e) /\ conn' = conn /\ conn[e] = "open"
               /\ f \in Messages
               /\ Begun(o) # << >> /\ Begun(o)[1].of = f
               /\ \E moved \in Seq(Byte), bytes \in Seq(Byte) :
                    /\ Unread(o) = moved \o Unread(o)'
                    /\ Unread(o)' \in Seq(Byte)
                    /\ moved # << >>
                    /\ Begun(o) \o moved
                         = SubSeq(Frame(f), 1, HeaderSize) \o bytes
                    /\ \/ /\ Len(bytes) < DataSize(f)
                          /\ Begun(o)' = Begun(o) \o moved
                          /\ UNCHANGED received
                       \/ /\ Len(bytes) = DataSize(f)
                          /\ Begun(o)' = << >>
                          /\ ProcessData(e, bytes)
<1> DEFINE o == Peer(e)
           f == messageHeader[e]
           h == SubSeq(Frame(f), 1, HeaderSize)
           c == collectedData[e]
<1>1. PICK n \in 1 .. Len(wire[Peer(e)]) :
        /\ Read(e, n)
        /\ LET bytes == Collected(e, n) IN
           \/ /\ Len(bytes) # DataSize(messageHeader[e])
              /\ collectedData' = [collectedData EXCEPT ![e] = bytes]
              /\ UNCHANGED <<state, received>>
           \/ /\ Len(bytes) = DataSize(messageHeader[e])
              /\ ProcessData(e, bytes)
              /\ collectedData' = [collectedData EXCEPT ![e] = << >>]
              /\ state' = [state EXCEPT ![e] = "READING_HEADER"]
  BY DEF ReadData
<1> DEFINE bytes == Collected(e, n)
           moved == SubSeq(wire[o], 1, n)
<1>2. /\ n \in Int /\ o \in Ends /\ o # e /\ Peer(o) = e
      /\ f \in Frames /\ c \in Seq(Byte)
      /\ conn[e] = "open" /\ state[e] = "READING_DATA"
  BY PeerIs, LenProperties DEF TypeInv, ReadData
<1>3. /\ moved \in Seq(Byte) /\ Len(moved) = n
      /\ bytes = c \o moved
      /\ bytes \in Seq(Byte) /\ n <= Awaited(e) /\ n \in Nat /\ n >= 1
      /\ Len(bytes) = Len(c) + n
  BY <1>1, <1>2, ReadMoves
<1>4. /\ Unread(o) = moved \o Unread(o)' /\ Unread(o)' \in Seq(Byte)
      /\ Unread(e)' = Unread(e)
  BY <1>1, <1>2, ReadUnread DEF ReadData, output
<1>5. Begun(o) = h \o c
  BY <1>2 DEF Begun
<1>6. h \in Seq(Byte) /\ Len(h) = HeaderSize /\ h[1].of = f
  BY <1>2, HeaderBytes
<1>7. Len(bytes) <= DataSize(f) /\ DataSize(f) > 0 /\ DataSize(f) \in Nat
  <2>1. Awaited(e) = DataSize(f) - Len(c)
    BY <1>2 DEF Awaited
  <2>2. Len(c) \in Nat /\ DataSize(f) \in Nat
    BY <1>2, LenProperties, FrameSizes
  <2> QED
    BY <1>3, <2>1, <2>2
<1>8. f \in Messages
  BY <1>2, <1>7, FrameSizes DEF Frames
<1>9. \A a \in Ends : a # e => /\ state'[a] = state[a]
                               /\ messageHeader'[a] = messageHeader[a]
                               /\ collectedData'[a] = collectedData[a]
  BY <1>1, <1>2 DEF TypeInv, ReadData
<1>10. Same(e) /\ conn' = conn
  BY <1>2, <1>4, <1>9 DEF Begun, Same, ReadData
<1>11. Begun(o) \o moved = h \o bytes
  <2> HIDE DEF h, c, moved
  <2>1. moved \in Seq(Byte) /\ h \in Seq(Byte) /\ c \in Seq(Byte)
    BY <1>2, <1>3, <1>6
  <2>2. (h \o c) \o moved = h \o (c \o moved)
    BY ONLY <2>1, ConcatAssociative
  <2> QED
    BY <1>3, <1>5, <2>2
<1>12. Begun(o) # << >> /\ Begun(o)[1].of = f
  <2> HIDE DEF h, c
  <2>1. h \in Seq(Byte) /\ c \in Seq(Byte)
    BY <1>2, <1>6
  <2>2. /\ Len(h \o c) = Len(h) + Len(c)
        /\ Len(h) \in Nat /\ Len(c) \in Nat
        /\ \A i \in 1 .. Len(h) + Len(c) :
             (h \o c)[i] = IF i <= Len(h) THEN h[i] ELSE c[i - Len(h)]
    BY ONLY <2>1, ConcatProperties, LenProperties
  <2>3. /\ Len(h \o c) = Len(h) + Len(c) /\ Len(c) \in Nat
        /\ (h \o c)[1] = h[1]
    BY <1>6, <2>2, FrameSizes
  <2>4. h \o c # << >>
    BY <1>6, <2>3, FrameSizes, EmptySeq
  <2> QED
    BY <1>5, <1>6, <2>3, <2>4
<1>13. moved # << >>
  <2> HIDE DEF moved
  <2> QED
    BY <1>3, EmptySeq
<1>14. \/ /\ Len(bytes) < DataSize(f)
          /\ Begun(o)' = Begun(o) \o moved
          /\ UNCHANGED received
       \/ /\ Len(bytes) = DataSize(f)
          /\ Begun(o)' = << >>
          /\ ProcessData(e, bytes)
  <2>1. CASE Len(bytes) # DataSize(f)
    <3>1. /\ collectedData'[e] = bytes /\ UNCHANGED <<state, received>>
          /\ UNCHANGED messageHeader
      BY <1>1, <2>1 DEF TypeInv, ReadData
    <3>2. Begun(o)' = h \o bytes
      BY <1>2, <3>1 DEF Begun
    <3>3. Len(bytes) < DataSize(f)
      <4> DEFINE l == Len(bytes)
      <4>1. l \in Nat
        BY <1>3, LenProperties
      <4>2. l <= DataSize(f) /\ l # DataSize(f)
        BY <1>7, <2>1
      <4> HIDE DEF l
      <4>3. l < DataSize(f)
        BY <1>7, <4>1, <4>2
      <4> QED
        BY <4>3 DEF l
    <3> QED
      BY <1>11, <3>1, <3>2, <3>3
  <2>2. CASE Len(bytes) = DataSize(f)
    <3>1. /\ collectedData'[e] = << >> /\ state'[e] = "READING_HEADER"
          /\ ProcessData(e, bytes)
      BY <1>1, <1>2, <2>2 DEF TypeInv, ReadData
    <3>2. Begun(o)' = << >> \o << >>
      BY <1>2, <3>1 DEF Begun
    <3>3. Begun(o)' = << >>
      BY <3>2, EmptySeq, ConcatEmptySeq
    <3> QED
      BY <2>2, <3>1, <3>3
  <2> QED
    BY <2>1, <2>2
<1> HIDE DEF bytes, moved
<1> QED
  BY <1>2, <1>3, <1>4, <1>8, <1>10, <1>11, <1>12, <1>13, <1>14

(* A header and the data that it announces are a frame of the stream. *)
LEMMA FrameDone ==
    ASSUME NEW f \in Frames, NEW b \in Seq(Byte), Len(b) = DataSize(f),
           Chained(SubSeq(Frame(f), 1, HeaderSize) \o b)
    PROVE  LET s == SubSeq(Frame(f), 1, HeaderSize) \o b
           IN  /\ s \in Seq(Byte) /\ Len(s) = FrameSize(f)
               /\ \A k \in 1 .. FrameSize(f) : s[k].of = f /\ s[k].at = k
               /\ Whole(s)
<1> DEFINE h == SubSeq(Frame(f), 1, HeaderSize)
           s == h \o b
<1>1. h \in Seq(Byte) /\ Len(h) = HeaderSize /\ h[1].of = f
  BY HeaderBytes
<1>2. /\ FrameSize(f) = HeaderSize + DataSize(f) /\ HeaderSize \in Nat
      /\ HeaderSize > 0 /\ DataSize(f) \in Nat /\ FrameSize(f) \in Nat
  BY FrameSizes
<1> HIDE DEF h
<1>3. /\ s \in Seq(Byte) /\ Len(s) = Len(h) + Len(b)
      /\ \A i \in 1 .. Len(h) + Len(b) :
            s[i] = IF i <= Len(h) THEN h[i] ELSE b[i - Len(h)]
  BY ONLY <1>1, ConcatProperties
<1> HIDE DEF s
<1>4. Len(s) = FrameSize(f) /\ s[1] = h[1]
  BY <1>1, <1>2, <1>3
<1>5. Chained(s)
  BY DEF s, h
<1>6. \A k \in 1 .. FrameSize(f) : s[k].of = f /\ s[k].at = k
  <2>1. ASSUME NEW k \in 1 .. FrameSize(f)
        PROVE  s[k].of = f /\ s[k].at = k
    <3>1. s[1].of = f
      BY <1>1, <1>4
    <3>2. k \in 1 .. Len(s) /\ k <= FrameSize(s[1].of)
      BY <1>2, <1>4, <3>1
    <3> QED
      BY <1>3, <1>5, <3>1, <3>2, FirstFrame
  <2> QED
    BY <2>1
<1>7. EndsFrame(s[Len(s)])
  BY <1>2, <1>4, <1>6 DEF EndsFrame
<1> QED
  BY <1>3, <1>4, <1>6, <1>7 DEF s, h, Whole

(* The same bytes, but for damage. *)
Alike(s, t) ==
    /\ Len(s) = Len(t)
    /\ \A i \in 1 .. Len(s) : s[i].of = t[i].of /\ s[i].at = t[i].at

(* Two streams alike, in two parts. *)
LEMMA AlikeConcat ==
    ASSUME NEW a \in Seq(Byte), NEW b \in Seq(Byte), Alike(a, b),
           NEW c \in Seq(Byte), NEW d \in Seq(Byte), Alike(c, d)
    PROVE  Alike(a \o c, b \o d)
<1>1. PICK m \in Nat, n \in Nat :
        m = Len(a) /\ m = Len(b) /\ n = Len(c) /\ n = Len(d)
  BY LenProperties DEF Alike
<1>2. /\ Len(a \o c) = m + n
      /\ \A i \in 1 .. m + n :
           (a \o c)[i] = IF i <= m THEN a[i] ELSE c[i - m]
  <2>1. /\ Len(a \o c) = Len(a) + Len(c)
        /\ \A i \in 1 .. Len(a) + Len(c) :
             (a \o c)[i] = IF i <= Len(a) THEN a[i] ELSE c[i - Len(a)]
    BY ONLY a \in Seq(Byte), c \in Seq(Byte), ConcatProperties
  <2> QED
    BY <1>1, <2>1
<1>3. /\ Len(b \o d) = m + n
      /\ \A i \in 1 .. m + n :
           (b \o d)[i] = IF i <= m THEN b[i] ELSE d[i - m]
  <2>1. /\ Len(b \o d) = Len(b) + Len(d)
        /\ \A i \in 1 .. Len(b) + Len(d) :
             (b \o d)[i] = IF i <= Len(b) THEN b[i] ELSE d[i - Len(b)]
    BY ONLY b \in Seq(Byte), d \in Seq(Byte), ConcatProperties
  <2> QED
    BY <1>1, <2>1
<1>4. ASSUME NEW i \in 1 .. m + n
      PROVE  (a \o c)[i].of = (b \o d)[i].of /\ (a \o c)[i].at = (b \o d)[i].at
  <2>1. CASE i <= m
    BY <1>1, <1>2, <1>3, <2>1 DEF Alike
  <2>2. CASE ~(i <= m)
    <3>1. i - m \in 1 .. n
      BY <2>2
    <3>2. (a \o c)[i] = c[i - m] /\ (b \o d)[i] = d[i - m]
      BY <1>2, <1>3, <2>2
    <3> QED
      BY <1>1, <3>1, <3>2 DEF Alike
  <2> QED
    BY <2>1, <2>2
<1> QED
  BY <1>2, <1>3, <1>4 DEF Alike

(* Damage does not bring a stream out of step. *)
LEMMA SameShape ==
    ASSUME NEW s \in Seq(Byte), NEW t \in Seq(Byte), Alike(s, t)
    PROVE  /\ Chained(s) => Chained(t)
           /\ Whole(s) => Whole(t)
<1> USE DEF Alike
<1>1. /\ Len(s) \in Nat /\ (s # << >> <=> Len(s) > 0)
      /\ (t # << >> <=> Len(t) > 0)
  BY EmptySeq, LenProperties
<1>2. \A i \in 1 .. Len(s) : /\ StartsFrame(s[i]) <=> StartsFrame(t[i])
                             /\ EndsFrame(s[i]) <=> EndsFrame(t[i])
  BY DEF StartsFrame, EndsFrame
<1>3. ASSUME Chained(s) PROVE Chained(t)
  <2>1. t # << >> => StartsFrame(t[1])
    BY <1>1, <1>2, <1>3 DEF Chained
  <2>2. ASSUME NEW i \in 1 .. Len(t) - 1 PROVE Succeeds(t[i], t[i + 1])
    <3>1. i \in 1 .. Len(s) /\ i + 1 \in 1 .. Len(s) /\ i \in 1 .. Len(s) - 1
      BY <1>1
    <3>2. Succeeds(s[i], s[i + 1])
      BY <1>3, <3>1 DEF Chained
    <3> QED
      BY <1>2, <3>1, <3>2 DEF Succeeds
  <2> QED
    BY <2>1, <2>2 DEF Chained
<1>4. ASSUME Whole(s) PROVE Whole(t)
  BY <1>1, <1>2, <1>4 DEF Whole
<1> QED
  BY <1>3, <1>4

Good(s) == \A i \in 1 .. Len(s) : s[i].good

(* A stream is good when its parts are. *)
LEMMA GoodConcat ==
    ASSUME NEW s \in Seq(Byte), NEW t \in Seq(Byte)
    PROVE  Good(s \o t) <=> Good(s) /\ Good(t)
<1>1. PICK m \in Nat, n \in Nat : m = Len(s) /\ n = Len(t)
  BY LenProperties
<1> DEFINE u == s \o t
<1>2. /\ Len(u) = Len(s) + Len(t)
      /\ \A i \in 1 .. Len(s) + Len(t) :
            u[i] = IF i <= Len(s) THEN s[i] ELSE t[i - Len(s)]
  BY ConcatProperties
<1> HIDE DEF u
<1>3. /\ Len(u) = m + n
      /\ \A i \in 1 .. m + n : u[i] = IF i <= m THEN s[i] ELSE t[i - m]
  BY <1>1, <1>2
<1>4. \A i \in 1 .. m : i \in 1 .. m + n /\ u[i] = s[i]
  BY <1>3
<1>5. \A i \in 1 .. n : m + i \in 1 .. m + n /\ u[m + i] = t[i]
  <2>1. \A i \in 1 .. n : /\ m + i \in 1 .. m + n /\ ~(m + i <= m)
                          /\ (m + i) - m = i
    OBVIOUS
  <2> QED
    BY <1>3, <2>1
<1>6. ASSUME Good(u) PROVE Good(s) /\ Good(t)
  BY <1>1, <1>3, <1>4, <1>6, <1>5 DEF Good
<1>7. ASSUME Good(s), Good(t) PROVE Good(u)
  <2>1. ASSUME NEW i \in 1 .. m + n PROVE u[i].good
    <3>1. CASE i <= m
      <4>1. i \in 1 .. m /\ u[i] = s[i]
        BY <1>3, <3>1
      <4> QED
        BY <1>1, <1>7, <4>1 DEF Good
    <3>2. CASE ~(i <= m)
      <4>1. i - m \in 1 .. n /\ u[i] = t[i - m]
        BY <1>3, <3>2
      <4> QED
        BY <1>1, <1>7, <4>1 DEF Good
    <3> QED
      BY <3>1, <3>2
  <2> QED
    BY <1>3, <2>1 DEF Good
<1> QED
  BY <1>6, <1>7 DEF u

(* The stream from e is in step, and as it was sent as long as nothing has *)
(* been damaged.                                                           *)
Aligned(e) ==
    /\ Chained(Stream(e))
    /\ conn[e] # "closed" => Whole(Stream(e))
    /\ damaged = 0 => Good(Stream(e))

(* StreamParts at both ends. *)
LEMMA StreamIsParts ==
    TypeInv => \A e \in Ends :
                 /\ Begun(e) \in Seq(Byte) /\ Unread(e) \in Seq(Byte)
                 /\ Stream(e) = Begun(e) \o Unread(e)
  BY StreamParts

(* The same after a step. *)
LEMMA StreamIsPartsNext ==
    TypeInv' => \A e \in Ends :
                  /\ Begun(e)' \in Seq(Byte) /\ Unread(e)' \in Seq(Byte)
                  /\ Stream(e)' = Begun(e)' \o Unread(e)'
<1>1. (TypeInv => \A e \in Ends :
                 /\ Begun(e) \in Seq(Byte) /\ Unread(e) \in Seq(Byte)
                 /\ Stream(e) = Begun(e) \o Unread(e))'
  BY StreamIsParts, PTL
<1> QED
  BY <1>1

(* Nothing happens to the stream. *)
LEMMA AlignedSame ==
    ASSUME TypeInv, TypeInv', NEW e \in Ends, Aligned(e), Same(e),
           conn'[e] # "closed" => conn[e] # "closed", damaged' = damaged
    PROVE  Aligned(e)'
<1>1. Stream(e) = Begun(e) \o Unread(e)
  BY StreamParts
<1>2. Stream(e)' = Begun(e)' \o Unread(e)'
  BY StreamIsPartsNext
<1>3. Stream(e)' = Stream(e)
  BY <1>1, <1>2 DEF Same
<1> QED
  BY <1>3 DEF Aligned

(* A frame is added to a whole stream. *)
LEMMA AlignedFrame ==
    ASSUME TypeInv, TypeInv', NEW e \in Ends, NEW f \in Frames,
           dataToSend[e] = << >>,
           dataToSend' = [dataToSend EXCEPT ![e] = Frame(f)],
           UNCHANGED <<wire, input, damaged>>,
           Aligned(e), conn[e] # "closed"
    PROVE  Aligned(e)'
<1> DEFINE b == Begun(e)
           u == Unread(e)
           t == Frame(f)
<1>1. b \in Seq(Byte) /\ u \in Seq(Byte) /\ Stream(e) = b \o u
  BY StreamIsParts
<1>2. t \in Seq(Byte) /\ Chained(t) /\ Whole(t)
  BY FrameBytes, FrameChained
<1>3. Stream(e)' = b \o (u \o t)
  BY StreamIsPartsNext, FrameAppended
<1> HIDE DEF b, u, t
<1>4. (b \o u) \o t = b \o (u \o t)
  BY ONLY <1>1, <1>2, ConcatAssociative
<1>5. Stream(e)' = Stream(e) \o t /\ Stream(e) \in Seq(Byte)
  <2>1. b \o u \in Seq(Byte)
    BY ONLY <1>1, ConcatProperties
  <2> QED
    BY <1>1, <1>3, <1>4, <2>1
<1>6. Chained(Stream(e)) /\ Whole(Stream(e))
  BY DEF Aligned
<1>7. Chained(Stream(e) \o t) /\ Whole(Stream(e) \o t)
  BY <1>2, <1>5, <1>6, ChainedConcat
<1>8. Good(t)
  <2>1. /\ Len(Frame(f)) = FrameSize(f)
        /\ \A i \in 1 .. FrameSize(f) :
             Frame(f)[i] = [of |-> f, at |-> i, good |-> TRUE]
    BY FrameBytes
  <2>2. \A i \in 1 .. FrameSize(f) : Frame(f)[i].good
    BY <2>1
  <2> QED
    BY <2>1, <2>2 DEF Good, t
<1>9. damaged' = 0 => Good(Stream(e) \o t)
  BY <1>2, <1>5, <1>8, GoodConcat DEF Aligned
<1> QED
  BY <1>5, <1>7, <1>9 DEF Aligned

(* The sender is closed. *)
LEMMA AlignedClosed ==
    ASSUME TypeInv, TypeInv', NEW e \in Ends, ClosedEnd(e), Aligned(e)
    PROVE  Aligned(e)'
<1> DEFINE b == Begun(e)
           w == wire[e]
           d == dataToSend[e]
<1>1. b \in Seq(Byte) /\ w \in Seq(Byte) /\ d \in Seq(Byte)
  BY StreamIsParts DEF TypeInv
<1>2. Stream(e) = b \o (w \o d)
  BY StreamIsParts, ClosedCuts
<1>3. Stream(e)' = b \o w /\ conn'[e] = "closed"
  BY StreamIsPartsNext, ClosedCuts
<1>4. Chained(Stream(e))
  BY DEF Aligned
<1> HIDE DEF b, w, d
<1>5. (b \o w) \o d = b \o (w \o d) /\ b \o w \in Seq(Byte)
  BY ONLY <1>1, ConcatAssociative, ConcatProperties, SMTT(40)
<1>6. Chained((b \o w) \o d)
  BY <1>2, <1>4, <1>5
<1>7. Chained(b \o w)
  BY <1>1, <1>5, <1>6, ChainedParts
<1>8. damaged = 0 => Good((b \o w) \o d)
  BY <1>2, <1>5 DEF Aligned
<1>9. damaged' = 0 => Good(b \o w)
  BY <1>1, <1>5, <1>8, GoodConcat DEF ClosedEnd
<1> QED
  BY <1>3, <1>7, <1>9 DEF Aligned

(* Bytes are read, and none is lost. *)
LEMMA AlignedRead ==
    ASSUME TypeInv, TypeInv', NEW e \in Ends, NEW moved \in Seq(Byte),
           Unread(e) = moved \o Unread(e)',
           Begun(e)' = Begun(e) \o moved,
           Aligned(e), conn'[e] = conn[e], damaged' = damaged
    PROVE  Aligned(e)'
<1> DEFINE b == Begun(e)
           v == Unread(e)'
<1>1. b \in Seq(Byte) /\ v \in Seq(Byte)
  BY StreamIsParts, StreamIsPartsNext
<1>2. Stream(e) = b \o (moved \o v) /\ Stream(e)' = (b \o moved) \o v
  BY StreamIsParts, StreamIsPartsNext
<1> HIDE DEF b, v
<1>3. (b \o moved) \o v = b \o (moved \o v)
  BY ONLY <1>1, moved \in Seq(Byte), ConcatAssociative
<1>4. Stream(e)' = Stream(e)
  BY <1>2, <1>3
<1> QED
  BY <1>4 DEF Aligned

(* A frame has been read, and is gone from the stream. *)
LEMMA AlignedDone ==
    ASSUME TypeInv, TypeInv', NEW e \in Ends, NEW moved \in Seq(Byte),
           NEW f \in Frames, NEW bytes \in Seq(Byte),
           Unread(e) = moved \o Unread(e)',
           Begun(e) \o moved = SubSeq(Frame(f), 1, HeaderSize) \o bytes,
           Len(bytes) = DataSize(f),
           Begun(e)' = << >>,
           Aligned(e), conn'[e] = conn[e], damaged' = damaged
    PROVE  /\ Aligned(e)'
           /\ \A k \in 1 .. FrameSize(f) :
                (Begun(e) \o moved)[k].of = f /\ (Begun(e) \o moved)[k].at = k
           /\ Len(Begun(e) \o moved) = FrameSize(f)
           /\ damaged = 0 => Good(Begun(e) \o moved)
<1> DEFINE b == Begun(e)
           v == Unread(e)'
           s == SubSeq(Frame(f), 1, HeaderSize) \o bytes
<1>1. b \in Seq(Byte) /\ v \in Seq(Byte)
  BY StreamIsParts, StreamIsPartsNext
<1>2. Stream(e) = b \o (moved \o v) /\ Stream(e)' = << >> \o v
  BY StreamIsParts, StreamIsPartsNext
<1>3. Stream(e)' = v
  BY <1>1, <1>2, ConcatEmptySeq
<1> HIDE DEF b, v
<1>4. (b \o moved) \o v = b \o (moved \o v)
  BY ONLY <1>1, moved \in Seq(Byte), ConcatAssociative
<1>5. s \o v = Stream(e)
  BY <1>2, <1>4 DEF b
<1>6. s \in Seq(Byte)
  <2>1. b \o moved \in Seq(Byte)
    BY ONLY <1>1, moved \in Seq(Byte), ConcatProperties
  <2> QED
    BY <2>1 DEF b
<1>7. Chained(s \o v)
  BY <1>5 DEF Aligned
<1>8. Chained(s)
  <2> HIDE DEF s
  <2> QED
    BY <1>1, <1>6, <1>7, ChainedParts
<1>9. /\ Whole(s) /\ Len(s) = FrameSize(f)
      /\ \A k \in 1 .. FrameSize(f) : s[k].of = f /\ s[k].at = k
  BY <1>8, FrameDone
<1> HIDE DEF s
<1>10. Chained(v) /\ (Whole(s \o v) => Whole(v))
  BY <1>1, <1>6, <1>7, <1>9, ChainedParts
<1>11. damaged = 0 => Good(s \o v)
  BY <1>5 DEF Aligned
<1>12. damaged = 0 => Good(s) /\ Good(v)
  BY <1>1, <1>6, <1>11, GoodConcat
<1>13. Aligned(e)'
  BY <1>3, <1>5, <1>10, <1>12 DEF Aligned
<1> QED
  BY <1>9, <1>12, <1>13 DEF s

(* A byte is damaged. *)
LEMMA AlignedDamage ==
    ASSUME TypeInv, TypeInv', NEW e \in Ends, NEW o \in Ends, Damage(o),
           Aligned(e)
    PROVE  Aligned(e)'
<1> DEFINE b == Begun(e)
           w == wire[e]
           w1 == wire'[e]
           d == dataToSend[e]
<1>1. b \in Seq(Byte) /\ w \in Seq(Byte) /\ d \in Seq(Byte) /\ w1 \in Seq(Byte)
  BY StreamIsParts DEF TypeInv
<1>2. /\ Len(w1) = Len(w)
      /\ \A i \in 1 .. Len(w) : w[i].of = w1[i].of /\ w[i].at = w1[i].at
  BY TypeDamage
<1>3. Begun(e)' = b /\ Unread(e)' = w1 \o d /\ conn' = conn
  BY DEF Begun, Unread, Damage, output, input
<1>4. Stream(e) = b \o (w \o d) /\ Stream(e)' = b \o (w1 \o d)
  BY <1>3, StreamIsParts, StreamIsPartsNext DEF Unread
<1> HIDE DEF b, w, w1, d
<1> DEFINE s == b \o (w \o d)
           t == b \o (w1 \o d)
<1>5. Alike(w, w1) /\ Alike(b, b) /\ Alike(d, d)
  BY <1>2 DEF Alike
<1>6. Alike(w \o d, w1 \o d) /\ w \o d \in Seq(Byte) /\ w1 \o d \in Seq(Byte)
  BY <1>1, <1>5, AlikeConcat, ConcatProperties
<1>7. Alike(s, t) /\ s \in Seq(Byte) /\ t \in Seq(Byte)
  <2> DEFINE x == w \o d
             y == w1 \o d
  <2>1. x \in Seq(Byte) /\ y \in Seq(Byte) /\ Alike(x, y)
    BY <1>6
  <2> HIDE DEF x, y
  <2>2. /\ Alike(b \o x, b \o y)
        /\ b \o x \in Seq(Byte) /\ b \o y \in Seq(Byte)
    BY <1>1, <1>5, <2>1, AlikeConcat, ConcatProperties
  <2> QED
    BY <2>2 DEF x, y
<1> HIDE DEF s, t
<1>8. (Chained(s) => Chained(t)) /\ (Whole(s) => Whole(t))
  BY <1>7, SameShape
<1>9. damaged' # 0
  BY DEF Damage, TypeInv
<1> QED
  BY <1>3, <1>4, <1>8, <1>9 DEF Aligned, s, t

StreamInv == TypeInv /\ \A e \in Ends : Aligned(e)

(* The invariant implies InStep. *)
LEMMA AlignedMeans == StreamInv => InStep
  BY InStepIs DEF Aligned, StreamInv

(* The streams are empty to begin with. *)
LEMMA AlignedInit == Init => \A e \in Ends : Aligned(e)
<1> SUFFICES ASSUME Init, NEW e \in Ends PROVE Aligned(e)
  OBVIOUS
<1>1. /\ state[Peer(e)] = "READING_HEADER" /\ collectedData[Peer(e)] = << >>
      /\ wire[e] = << >> /\ dataToSend[e] = << >>
  BY PeerIs DEF Init
<1>2. Stream(e) = ((<< >> \o << >>) \o << >>) \o << >>
  BY <1>1 DEF Stream
<1>3. Stream(e) = << >>
  BY <1>2, EmptySeq, ConcatEmptySeq
<1> QED
  BY <1>3, EmptySeq DEF Aligned, Chained, Whole, Good

(* An end that reads changes the stream to it, and no other. *)
LEMMA AlignedReading ==
    ASSUME TypeInv, TypeInv', NEW e \in Ends, HandleInput(e),
           Aligned(e), Aligned(Peer(e))
    PROVE  Aligned(e)' /\ Aligned(Peer(e))'
<1> DEFINE o == Peer(e)
<1>1. o \in Ends
  BY PeerIs
<1>2. damaged' = damaged
  BY DEF HandleInput, ReadHeader, ReadData
<1>3. CASE ReadHeader(e)
  <2>1. PICK moved \in Seq(Byte) :
          /\ Unread(o) = moved \o Unread(o)'
          /\ Begun(o)' = Begun(o) \o moved
    BY <1>3, ReadHeaderMoves
  <2>2. Same(e) /\ conn'[o] = conn[o] /\ conn[e] # "closed"
    BY <1>3, ReadHeaderMoves
  <2>3. Aligned(e)'
    BY <1>2, <2>2, AlignedSame
  <2>4. Aligned(o)'
    BY <1>2, <1>1, <2>1, <2>2, AlignedRead
  <2> QED
    BY <2>3, <2>4
<1>4. CASE ReadData(e)
  <2> DEFINE f == messageHeader[e]
  <2>1. /\ Same(e) /\ conn' = conn /\ f \in Frames
    BY <1>4, ReadDataMoves DEF Frames
  <2>2. PICK moved \in Seq(Byte), bytes \in Seq(Byte) :
          /\ Unread(o) = moved \o Unread(o)'
          /\ Begun(o) \o moved = SubSeq(Frame(f), 1, HeaderSize) \o bytes
          /\ \/ Begun(o)' = Begun(o) \o moved
             \/ Len(bytes) = DataSize(f) /\ Begun(o)' = << >>
    BY <1>4, ReadDataMoves
  <2>3. Aligned(e)'
    BY <1>2, <2>1, AlignedSame
  <2>4. conn'[o] = conn[o] /\ Aligned(o)
    BY <2>1
  <2>5. ASSUME Begun(o)' = Begun(o) \o moved PROVE Aligned(o)'
    <3> HIDE DEF o, f
    <3> QED
      BY <1>2, <1>1, <2>2, <2>5, <2>4, AlignedRead
  <2>6. ASSUME Len(bytes) = DataSize(f), Begun(o)' = << >>
        PROVE  Aligned(o)'
    <3> HIDE DEF o, f
    <3>1. conn'[o] = conn[o] /\ Aligned(o)
      BY <2>4
    <3> QED
      BY <1>2, <1>1, <2>1, <2>2, <2>6, <3>1, AlignedDone
  <2> QED
    BY <2>2, <2>3, <2>5, <2>6
<1> QED
  BY <1>3, <1>4 DEF HandleInput

(* Every step keeps the streams in step. *)
LEMMA AlignedNext ==
    ASSUME TypeInv, TypeInv', [Next]_vars, \A e \in Ends : Aligned(e)
    PROVE  \A e \in Ends : Aligned(e)'
<1>1. CASE UNCHANGED vars
  BY <1>1 DEF Aligned, Stream, vars, output, input
<1>2. ASSUME NEW m \in Messages, SendMessage(m), NEW e \in Ends
      PROVE  Aligned(e)'
  BY <1>2, SendKeeps, AlignedSame DEF SendMessage
<1>3. ASSUME NEW a \in Ends, NEW f \in Frames, dataToSend[a] = << >>,
             dataToSend' = [dataToSend EXCEPT ![a] = Frame(f)],
             UNCHANGED <<wire, input, damaged>>, conn[a] # "closed",
             conn'[Peer(a)] = conn[Peer(a)], NEW e \in Ends
      PROVE  Aligned(e)'
  <2>1. CASE e = a
    BY <1>3, <2>1, AlignedFrame
  <2>2. CASE e = Peer(a)
    BY <1>3, <2>2, FrameAppended, AlignedSame
  <2> QED
    BY <2>1, <2>2, PeerIs
<1>4. ASSUME NEW a \in Ends, GetNextMessageToSend(a), NEW e \in Ends
      PROVE  Aligned(e)'
  <2>1. PICK m \in Messages :
          dataToSend' = [dataToSend EXCEPT ![a] = Frame(m)]
    <3>1. PICK top \in sendQueue[a] :
            dataToSend' = [dataToSend EXCEPT ![a] = Frame(top.message)]
      BY <1>4 DEF GetNextMessageToSend
    <3>2. top.message \in Messages
      BY DEF TypeInv
    <3> QED
      BY <3>1, <3>2
  <2>2. /\ dataToSend[a] = << >> /\ UNCHANGED <<wire, input, damaged>>
        /\ conn[a] # "closed" /\ conn' = conn /\ m \in Frames
    BY <1>4 DEF GetNextMessageToSend, Frames
  <2> QED
    BY <1>3, <2>1, <2>2
<1>5. ASSUME NEW a \in Ends, Write(a), NEW e \in Ends
      PROVE  Aligned(e)'
  <2>1. Same(e) /\ conn' = conn /\ damaged' = damaged
    BY <1>5, WriteKeeps DEF Write
  <2> QED
    BY <2>1, AlignedSame
<1>6. ASSUME NEW a \in Ends, ClosedEnd(a), NEW e \in Ends
      PROVE  Aligned(e)'
  <2>1. CASE e = a
    BY <1>6, <2>1, AlignedClosed
  <2>2. CASE e = Peer(a)
    BY <1>6, <2>2, ClosedCuts, AlignedSame DEF ClosedEnd
  <2> QED
    BY <2>1, <2>2, PeerIs
<1>7. ASSUME NEW a \in Ends, Report(a), NEW e \in Ends
      PROVE  Aligned(e)'
  <2>1. CASE /\ conn[a] = "flushing"
             /\ dataToSend' = [dataToSend EXCEPT ![a] = Frame(ErrorPacket)]
             /\ conn' = [conn EXCEPT ![a] = "reporting"]
             /\ UNCHANGED <<wire, input, damaged>>
    <3>1. conn'[Peer(a)] = conn[Peer(a)] /\ ErrorPacket \in Frames
      BY <2>1, PeerIs DEF TypeInv, Frames
    <3>2. dataToSend[a] = << >> /\ conn[a] # "closed"
      BY <1>7, <2>1 DEF Report
    <3> QED
      BY <1>3, <2>1, <3>1, <3>2
  <2> QED
    BY <1>6, <1>7, <2>1 DEF Report, Returned
<1>8. ASSUME NEW a \in Ends, HandleInput(a), NEW e \in Ends
      PROVE  Aligned(e)'
  BY <1>8, PeerIs, AlignedReading
<1>9. ASSUME NEW a \in Ends, Damage(a), NEW e \in Ends
      PROVE  Aligned(e)'
  BY <1>9, AlignedDamage
<1> QED
  BY <1>1, <1>2, <1>4, <1>5, <1>6, <1>7, <1>8, <1>9
  DEF Next, HangUp, Broken

(* The reader never takes for the start of a header a byte that is not one,*)
(* however writes and reads cut the frames up, an error packet among them  *)
(* or not; and only a closed sender leaves a frame unfinished: handle_input*)
(* and sendErrorPacket let the frame being written end before the error    *)
(* packet (NetworkServiceHandler.h:214-438).                               *)
THEOREM StaysInStep == Spec => []InStep
<1>1. Init => StreamInv
  BY TypeInit, AlignedInit DEF StreamInv
<1>2. StreamInv /\ [Next]_vars => StreamInv'
  BY TypeNext, AlignedNext DEF StreamInv
<1> QED
  BY <1>1, <1>2, AlignedMeans, PTL DEF Spec

(***************************************************************************)
(* Each direction is a channel of messages.  What waits and what is under  *)
(* way are values listed by ascending numbers: counts in a queue, places   *)
(* of last bytes in a stream.                                              *)
(***************************************************************************)

(* g lists the m elements of S in order. *)
Enumerates(g, m, S) ==
    /\ g \in [1 .. m -> S]
    /\ \A i, j \in 1 .. m : i < j => g[i] < g[j]
    /\ \A x \in S : \E i \in 1 .. m : g[i] = x

(* Induction over the natural numbers, for a set. *)
LEMMA SetInduction ==
    ASSUME NEW S, 0 \in S, \A n \in Nat : n \in S => n + 1 \in S
    PROVE  Nat \subseteq S
<1> DEFINE T == Nat \ S
<1>1. SUFFICES ASSUME T # {} PROVE FALSE
  OBVIOUS
<1>2. PICK x \in T : \A y \in T : x <= y
  BY <1>1, WellOrder
<1>3. x # 0 /\ x - 1 \in Nat /\ x - 1 \notin T
  BY <1>2
<1> QED
  BY <1>3

(* Two lists of one set agree as far as both reach: at the first place     *)
(* where they differ the smaller number would be missing in one.           *)
LEMMA EnumerationsAgree ==
    ASSUME NEW S \in SUBSET Nat, NEW m \in Nat, NEW n \in Nat,
           NEW g, NEW h, Enumerates(g, m, S), Enumerates(h, n, S)
    PROVE  \A i \in 1 .. m : i <= n => g[i] = h[i]
<1> DEFINE Wrong == {i \in 1 .. m : i <= n /\ g[i] # h[i]}
<1> SUFFICES ASSUME Wrong # {} PROVE FALSE
  OBVIOUS
<1>1. PICK i \in Wrong : \A j \in Wrong : i <= j
  <2>1. Wrong \in SUBSET Nat
    OBVIOUS
  <2> HIDE DEF Wrong
  <2> QED
    BY <2>1, WellOrder
<1>2. i \in 1 .. m /\ i \in 1 .. n /\ i \in Nat /\ g[i] # h[i]
  BY <1>1
<1>3. ASSUME NEW j \in 1 .. m, j < i PROVE g[j] = h[j]
  <2>1. j \notin Wrong /\ j <= n
    BY <1>1, <1>2, <1>3
  <2> QED
    BY <2>1
<1> HIDE DEF Wrong
<1>4. g[i] \in S /\ h[i] \in S /\ g[i] \in Nat /\ h[i] \in Nat
  BY <1>2 DEF Enumerates
<1>5. CASE g[i] < h[i]
  <2>1. PICK k \in 1 .. n : h[k] = g[i]
    BY <1>4 DEF Enumerates
  <2>2. k < i
    BY <1>2, <1>4, <1>5, <2>1 DEF Enumerates
  <2>3. g[k] = g[i] /\ k \in 1 .. m
    BY <1>2, <1>3, <2>1, <2>2
  <2>4. g[k] < g[i]
    BY <1>2, <2>2, <2>3 DEF Enumerates
  <2> QED
    BY <1>4, <2>3, <2>4
<1>6. CASE h[i] < g[i]
  <2>1. PICK k \in 1 .. m : g[k] = h[i]
    BY <1>4 DEF Enumerates
  <2>2. k < i
    BY <1>2, <1>4, <1>6, <2>1 DEF Enumerates
  <2>3. h[k] = h[i] /\ k \in 1 .. n
    BY <1>2, <1>3, <2>1, <2>2
  <2>4. h[k] < h[i]
    BY <1>2, <2>2, <2>3 DEF Enumerates
  <2> QED
    BY <1>4, <2>3, <2>4
<1> QED
  BY <1>2, <1>4, <1>5, <1>6

(* Two lists of one set are of one length. *)
LEMMA EnumerationIsNotLonger ==
    ASSUME NEW S \in SUBSET Nat, NEW m \in Nat, NEW n \in Nat,
           NEW g, NEW h, Enumerates(g, m, S), Enumerates(h, n, S)
    PROVE  m <= n
<1> SUFFICES ASSUME n < m PROVE FALSE
  OBVIOUS
<1>1. n + 1 \in 1 .. m /\ g[n + 1] \in S
  BY DEF Enumerates
<1>2. PICK k \in 1 .. n : h[k] = g[n + 1]
  BY <1>1 DEF Enumerates
<1>3. k \in 1 .. m /\ k <= n /\ k < n + 1
  OBVIOUS
<1>4. g[k] = h[k]
  BY <1>3, EnumerationsAgree
<1>5. g[k] < g[n + 1] /\ g[k] \in Nat
  BY <1>1, <1>3 DEF Enumerates
<1> QED
  BY <1>2, <1>4, <1>5

(* There is one ascending list of a set. *)
LEMMA EnumerationIsUnique ==
    ASSUME NEW S \in SUBSET Nat, NEW m \in Nat, NEW n \in Nat,
           NEW g, NEW h, Enumerates(g, m, S), Enumerates(h, n, S)
    PROVE  m = n /\ g = h
<1>1. m = n
  BY EnumerationIsNotLonger
<1>2. \A i \in 1 .. m : g[i] = h[i]
  BY <1>1, EnumerationsAgree
<1> QED
  BY <1>1, <1>2 DEF Enumerates

(* A finite set has a greatest number, by induction on how many it has. *)
LEMMA Greatest ==
    ASSUME NEW K \in SUBSET Nat, IsFiniteSet(K), K # {}
    PROVE  \E x \in K : \A y \in K : y <= x
<1> DEFINE HasGreatest(M) == \E x \in M : \A y \in M : y <= x
           Proved == {n \in Nat : \A M \in SUBSET Nat :
                        IsFiniteSet(M) /\ Cardinality(M) = n + 1 =>
                            HasGreatest(M)}
<1>1. 0 \in Proved
  <2>1. ASSUME NEW M \in SUBSET Nat, IsFiniteSet(M), Cardinality(M) = 1
        PROVE  HasGreatest(M)
    <3>1. PICK x : M = {x}
      BY <2>1, FS_Singleton
    <3> QED
      BY <3>1
  <2> QED
    BY <2>1
<1>2. ASSUME NEW n \in Nat, n \in Proved PROVE n + 1 \in Proved
  <2>1. ASSUME NEW M \in SUBSET Nat, IsFiniteSet(M), Cardinality(M) = n + 2
        PROVE  HasGreatest(M)
    <3>1. M # {}
      BY <2>1, FS_EmptySet
    <3>2. PICK z \in M : TRUE
      BY <3>1
    <3> DEFINE M0 == M \ {z}
    <3>3. IsFiniteSet(M0) /\ Cardinality(M0) = n + 1 /\ M0 \in SUBSET Nat
      BY <2>1, FS_RemoveElement
    <3>4. HasGreatest(M0)
      BY <1>2, <3>3
    <3>5. PICK x \in M0 : \A y \in M0 : y <= x
      BY <3>4
    <3>6. CASE z <= x
      BY <3>5, <3>6
    <3>7. CASE x < z
      <4>1. \A y \in M : y <= z
        BY <3>5, <3>7
      <4> QED
        BY <4>1
    <3> QED
      BY <3>5, <3>6, <3>7
  <2> QED
    BY <2>1
<1> HIDE DEF Proved
<1>3. Nat \subseteq Proved
  BY <1>1, <1>2, SetInduction
<1>4. PICK n \in Nat : Cardinality(K) = n + 1
  <2>1. Cardinality(K) \in Nat /\ Cardinality(K) # 0
    BY FS_CardinalityType, FS_EmptySet
  <2>2. Cardinality(K) - 1 \in Nat
    BY <2>1
  <2> QED
    BY <2>1, <2>2
<1> QED
  BY <1>3, <1>4 DEF Proved

(* A finite set has an ascending list, by induction on how many it has: the*)
(* greatest comes last.                                                    *)
LEMMA EnumerationExists ==
    ASSUME NEW K \in SUBSET Nat, IsFiniteSet(K)
    PROVE  /\ Cardinality(K) \in Nat
           /\ \E g : Enumerates(g, Cardinality(K), K)
<1> DEFINE Proved == {n \in Nat : \A M \in SUBSET Nat :
                        IsFiniteSet(M) /\ Cardinality(M) = n =>
                            \E g : Enumerates(g, n, M)}
<1>1. 0 \in Proved
  <2>1. ASSUME NEW M \in SUBSET Nat, IsFiniteSet(M), Cardinality(M) = 0
        PROVE  \E g : Enumerates(g, 0, M)
    <3>1. M = {}
      BY <2>1, FS_EmptySet
    <3>2. Enumerates([i \in 1 .. 0 |-> 0], 0, M)
      BY <3>1 DEF Enumerates
    <3> QED
      BY <3>2
  <2> QED
    BY <2>1
<1>2. ASSUME NEW n \in Nat, n \in Proved PROVE n + 1 \in Proved
  <2>1. ASSUME NEW M \in SUBSET Nat, IsFiniteSet(M), Cardinality(M) = n + 1
        PROVE  \E g : Enumerates(g, n + 1, M)
    <3>1. M # {}
      BY <2>1, FS_EmptySet
    <3>2. PICK x \in M : \A y \in M : y <= x
      BY <2>1, <3>1, Greatest
    <3> DEFINE M0 == M \ {x}
    <3>3. IsFiniteSet(M0) /\ Cardinality(M0) = n /\ M0 \in SUBSET Nat
      <4>1. IsFiniteSet(M0) /\ Cardinality(M0) = Cardinality(M) - 1
        BY <2>1, <3>2, FS_RemoveElement
      <4>2. Cardinality(M0) = n
        BY <2>1, <4>1
      <4> QED
        BY <4>1, <4>2
    <3>4. PICK g : Enumerates(g, n, M0)
      BY <1>2, <3>3
    <3> DEFINE h == [i \in 1 .. n + 1 |-> IF i = n + 1 THEN x ELSE g[i]]
    <3>5. h \in [1 .. n + 1 -> M]
      BY <3>4 DEF Enumerates
    <3>6. ASSUME NEW i \in 1 .. n + 1, NEW j \in 1 .. n + 1, i < j
          PROVE  h[i] < h[j]
      <4>1. i \in 1 .. n /\ h[i] = g[i] /\ g[i] \in M0
        BY <3>4, <3>6 DEF Enumerates
      <4>2. CASE j = n + 1
        <5>1. h[j] = x
          BY <4>2
        <5>2. g[i] <= x /\ g[i] # x /\ g[i] \in Nat /\ x \in Nat
          BY <3>2, <4>1
        <5> QED
          BY <4>1, <5>1, <5>2
      <4>3. CASE j # n + 1
        BY <3>4, <3>6, <4>1, <4>3 DEF Enumerates
      <4> QED
        BY <4>2, <4>3
    <3>7. ASSUME NEW y \in M PROVE \E i \in 1 .. n + 1 : h[i] = y
      <4>1. CASE y = x
        BY <4>1
      <4>2. CASE y # x
        <5>1. PICK i \in 1 .. n : g[i] = y
          BY <3>4, <4>2 DEF Enumerates
        <5>2. i \in 1 .. n + 1 /\ h[i] = y
          BY <5>1
        <5> QED
          BY <5>2
      <4> QED
        BY <4>1, <4>2
    <3>8. Enumerates(h, n + 1, M)
      BY <3>5, <3>6, <3>7 DEF Enumerates
    <3> QED
      BY <3>8
  <2> QED
    BY <2>1
<1> HIDE DEF Proved
<1>3. Nat \subseteq Proved
  BY <1>1, <1>2, SetInduction
<1>4. Cardinality(K) \in Nat
  BY FS_CardinalityType
<1> QED
  BY <1>3, <1>4 DEF Proved

(* InOrder is that list. *)
LEMMA InOrderEnumerates ==
    ASSUME NEW S \in SUBSET Nat, IsFiniteSet(S)
    PROVE  /\ Enumerates(InOrder(S), Cardinality(S), S)
           /\ Cardinality(S) \in Nat
           /\ DOMAIN InOrder(S) = 1 .. Cardinality(S)
<1> DEFINE n == Cardinality(S)
<1>1. n \in Nat
  BY EnumerationExists
<1>2. PICK g : Enumerates(g, n, S)
  BY EnumerationExists
<1> HIDE DEF n
<1>3. /\ g \in [1 .. n -> S] /\ DOMAIN g = 1 .. n
      /\ \A i, j \in DOMAIN g : i < j => g[i] < g[j]
      /\ \A x \in S : \E i \in DOMAIN g : g[i] = x
  BY <1>2 DEF Enumerates
<1>4. InOrder(S) = CHOOSE f \in [1 .. n -> S] :
                     /\ \A i, j \in DOMAIN f : i < j => f[i] < f[j]
                     /\ \A x \in S : \E i \in DOMAIN f : f[i] = x
  BY DEF InOrder, n
<1>5. /\ InOrder(S) \in [1 .. n -> S]
      /\ \A i, j \in DOMAIN InOrder(S) : i < j => InOrder(S)[i] < InOrder(S)[j]
      /\ \A x \in S : \E i \in DOMAIN InOrder(S) : InOrder(S)[i] = x
  BY <1>3, <1>4
<1>6. DOMAIN InOrder(S) = 1 .. n
  BY <1>5
<1>7. Enumerates(InOrder(S), n, S)
  BY <1>5, <1>6 DEF Enumerates
<1> QED
  BY <1>1, <1>6, <1>7 DEF n

(* A list found in any way is InOrder. *)
LEMMA InOrderIs ==
    ASSUME NEW S \in SUBSET Nat, IsFiniteSet(S),
           NEW m \in Nat, NEW g, Enumerates(g, m, S)
    PROVE  InOrder(S) = g
  BY InOrderEnumerates, EnumerationIsUnique

(* What F says of the elements of S, in their order. *)
Values(S, F) == [i \in DOMAIN InOrder(S) |-> F[InOrder(S)[i]]]

(* Values, by any ascending list. *)
LEMMA ValuesBy ==
    ASSUME NEW S \in SUBSET Nat, IsFiniteSet(S), NEW F,
           NEW m \in Nat, NEW g, Enumerates(g, m, S)
    PROVE  Values(S, F) = [i \in 1 .. m |-> F[g[i]]]
<1>1. InOrder(S) = g
  BY InOrderIs
<1>2. DOMAIN g = 1 .. m
  BY DEF Enumerates
<1> QED
  BY <1>1, <1>2 DEF Values

(* The type of the values. *)
LEMMA ValuesType ==
    ASSUME NEW S \in SUBSET Nat, IsFiniteSet(S), NEW V, NEW F,
           \A k \in S : F[k] \in V
    PROVE  Values(S, F) \in Seq(V)
<1>1. PICK m \in Nat : \E f : Enumerates(f, m, S)
  BY EnumerationExists
<1>2. PICK g : Enumerates(g, m, S)
  BY <1>1
<1>3. Values(S, F) = [i \in 1 .. m |-> F[g[i]]]
  BY <1>2, ValuesBy
<1>4. \A i \in 1 .. m : F[g[i]] \in V
  BY <1>2 DEF Enumerates
<1>5. [i \in 1 .. m |-> F[g[i]]] \in [1 .. m -> V]
  BY <1>4
<1> QED
  BY <1>3, <1>5

(* Each of the values is that of an element. *)
LEMMA ValuesFrom ==
    ASSUME NEW S \in SUBSET Nat, IsFiniteSet(S), NEW F
    PROVE  \A j \in 1 .. Len(Values(S, F)) :
             \E k \in S : Values(S, F)[j] = F[k]
<1> DEFINE V == {F[k] : k \in S}
           v == Values(S, F)
<1>1. \A k \in S : F[k] \in V
  OBVIOUS
<1>2. v \in Seq(V)
  <2> HIDE DEF V
  <2> QED
    BY <1>1, ValuesType
<1> HIDE DEF v
<1>3. \A j \in 1 .. Len(v) : v[j] \in V
  <2> HIDE DEF V
  <2> QED
    BY <1>2, ElementOfSeq
<1> QED
  BY <1>3 DEF v

(* The values of no element. *)
LEMMA ValuesNone ==
    ASSUME NEW F
    PROVE  Values({}, F) = << >>
<1>1. Enumerates([i \in 1 .. 0 |-> 0], 0, {})
  BY DEF Enumerates
<1>2. Values({}, F) = [i \in 1 .. 0 |-> F[[j \in 1 .. 0 |-> 0][i]]]
  BY <1>1, ValuesBy, FS_EmptySet
<1>3. [i \in 1 .. 0 |-> F[[j \in 1 .. 0 |-> 0][i]]] = << >>
  OBVIOUS
<1> QED
  BY <1>2, <1>3

(* The value of one element. *)
LEMMA ValuesOne ==
    ASSUME NEW k \in Nat, NEW F
    PROVE  Values({k}, F) = <<F[k]>>
<1> DEFINE g == [i \in 1 .. 1 |-> k]
           S == {k}
           m == 1
<1>1. Enumerates(g, m, S)
  BY DEF Enumerates
<1>2. IsFiniteSet(S) /\ S \in SUBSET Nat
  BY FS_Singleton
<1>3. g[1] = k
  OBVIOUS
<1>4. m \in Nat
  OBVIOUS
<1> HIDE DEF g, S, m
<1>5. Values(S, F) = [i \in 1 .. m |-> F[g[i]]]
  BY <1>1, <1>2, <1>4, ValuesBy
<1>6. [i \in 1 .. 1 |-> F[g[i]]] = [i \in 1 .. 1 |-> F[k]]
  BY <1>3
<1>7. [i \in 1 .. 1 |-> F[k]] = <<F[k]>>
  OBVIOUS
<1> QED
  BY <1>5, <1>6, <1>7 DEF S, m

(* The values depend on the elements only. *)
LEMMA ValuesSame ==
    ASSUME NEW S \in SUBSET Nat, IsFiniteSet(S), NEW F, NEW G,
           \A k \in S : F[k] = G[k]
    PROVE  Values(S, F) = Values(S, G)
<1>1. \A i \in DOMAIN InOrder(S) : InOrder(S)[i] \in S
  BY InOrderEnumerates DEF Enumerates
<1> QED
  BY <1>1 DEF Values

(* S lies n above T, and F says of it what G says of T. *)
Shifted(n, S, F, T, G) ==
    /\ n \in Nat
    /\ T \in SUBSET Nat /\ IsFiniteSet(T)
    /\ S \in SUBSET Nat /\ IsFiniteSet(S)
    /\ \A j \in T : n + j \in S /\ F[n + j] = G[j]
    /\ \A x \in S : \E j \in T : x = n + j

(* The values do not depend on where the elements lie. *)
LEMMA ValuesShift ==
    ASSUME NEW n, NEW S, NEW F, NEW T, NEW G, Shifted(n, S, F, T, G)
    PROVE  Values(S, F) = Values(T, G)
<1>1. /\ n \in Nat
      /\ T \in SUBSET Nat /\ IsFiniteSet(T)
      /\ S \in SUBSET Nat /\ IsFiniteSet(S)
      /\ \A j \in T : n + j \in S /\ F[n + j] = G[j]
      /\ \A x \in S : \E j \in T : x = n + j
  BY DEF Shifted
<1>2. PICK m \in Nat : \E f : Enumerates(f, m, T)
  BY <1>1, EnumerationExists
<1>3. PICK g : Enumerates(g, m, T)
  BY <1>2
<1> DEFINE h == [i \in 1 .. m |-> n + g[i]]
<1>4. \A i \in 1 .. m : g[i] \in T /\ g[i] \in Nat /\ h[i] = n + g[i]
  BY <1>3, <1>1 DEF Enumerates
<1>5. h \in [1 .. m -> S]
  BY <1>4, <1>1
<1> HIDE DEF h
<1>6. ASSUME NEW i \in 1 .. m, NEW j \in 1 .. m, i < j PROVE h[i] < h[j]
  <2>1. g[i] < g[j]
    BY <1>3, <1>6 DEF Enumerates
  <2> QED
    BY <1>4, <2>1, <1>1
<1>7. ASSUME NEW x \in S PROVE \E i \in 1 .. m : h[i] = x
  <2>1. PICK j \in T : x = n + j
    BY <1>1
  <2>2. PICK i \in 1 .. m : g[i] = j
    BY <1>3 DEF Enumerates
  <2> QED
    BY <1>4, <2>1, <2>2, <1>1
<1>8. Enumerates(h, m, S) /\ S \in SUBSET Nat
  BY <1>1, <1>5, <1>6, <1>7 DEF Enumerates
<1>9. Values(S, F) = [i \in 1 .. m |-> F[h[i]]]
  BY <1>1, <1>8, ValuesBy
<1>10. Values(T, G) = [i \in 1 .. m |-> G[g[i]]]
  <2>1. T \in SUBSET Nat
    BY <1>1
  <2>2. IsFiniteSet(T)
    BY <1>1
  <2> QED
    BY <1>3, <2>1, <2>2, ValuesBy
<1>11. \A i \in 1 .. m : F[h[i]] = G[g[i]]
  BY <1>1, <1>4
<1> QED
  BY <1>9, <1>10, <1>11

(* The values of a set and of one that lies above it. *)
LEMMA ValuesConcat ==
    ASSUME NEW S \in SUBSET Nat, IsFiniteSet(S),
           NEW T \in SUBSET Nat, IsFiniteSet(T),
           \A x \in S, y \in T : x < y, NEW F
    PROVE  Values(S \cup T, F) = Values(S, F) \o Values(T, F)
<1> DEFINE V == {F[x] : x \in S \cup T}
<1>1. \A x \in S \cup T : F[x] \in V
  OBVIOUS
<1> HIDE DEF V
<1>2. PICK m \in Nat : \E f : Enumerates(f, m, S)
  BY EnumerationExists
<1>3. PICK g : Enumerates(g, m, S)
  BY <1>2
<1>4. PICK n \in Nat : \E f : Enumerates(f, n, T)
  BY EnumerationExists
<1>5. PICK h : Enumerates(h, n, T)
  BY <1>4
<1> DEFINE k == [i \in 1 .. m + n |-> IF i <= m THEN g[i] ELSE h[i - m]]
<1>6. /\ \A i \in 1 .. m : k[i] = g[i] /\ g[i] \in S
      /\ \A i \in 1 .. m + n : ~(i <= m) => /\ i - m \in 1 .. n
                                            /\ k[i] = h[i - m]
                                            /\ h[i - m] \in T
  BY <1>3, <1>5 DEF Enumerates
<1>7. ASSUME NEW i \in 1 .. m + n PROVE k[i] \in S \cup T
  <2>1. CASE i <= m
    <3>1. i \in 1 .. m
      BY <2>1
    <3>2. k[i] = g[i] /\ g[i] \in S
      BY <1>6, <3>1
    <3> QED
      BY <3>2
  <2>2. CASE ~(i <= m)
    BY <1>6, <2>2
  <2> QED
    BY <2>1, <2>2
<1>8. DOMAIN k = 1 .. m + n /\ k = [i \in 1 .. m + n |-> k[i]]
  OBVIOUS
<1>9. k \in [1 .. m + n -> S \cup T]
  BY <1>7
<1> HIDE DEF k
<1>10. ASSUME NEW i \in 1 .. m + n, NEW j \in 1 .. m + n, i < j
       PROVE  k[i] < k[j]
  <2>1. CASE j <= m
    <3>1. i \in 1 .. m /\ j \in 1 .. m
      BY <1>10, <2>1
    <3> QED
      BY <1>3, <1>6, <1>10, <3>1 DEF Enumerates
  <2>2. CASE i <= m /\ ~(j <= m)
    <3>1. k[i] \in S /\ k[j] \in T
      BY <1>6, <2>2
    <3> QED
      BY <3>1
  <2>3. CASE ~(i <= m)
    <3>1. ~(j <= m) /\ i - m < j - m
      BY <1>10, <2>3
    <3>2. /\ i - m \in 1 .. n /\ j - m \in 1 .. n
          /\ k[i] = h[i - m] /\ k[j] = h[j - m]
      BY <1>6, <2>3, <3>1
    <3> QED
      BY <1>5, <3>1, <3>2 DEF Enumerates
  <2> QED
    BY <2>1, <2>2, <2>3
<1>11. ASSUME NEW x \in S \cup T PROVE \E i \in 1 .. m + n : k[i] = x
  <2>1. CASE x \in S
    <3>1. PICK i \in 1 .. m : g[i] = x
      BY <1>3, <2>1 DEF Enumerates
    <3>2. i \in 1 .. m + n /\ k[i] = x
      BY <1>6, <3>1
    <3> QED
      BY <3>2
  <2>2. CASE x \in T
    <3>1. PICK i \in 1 .. n : h[i] = x
      BY <1>5, <2>2 DEF Enumerates
    <3>2. m + i \in 1 .. m + n /\ ~(m + i <= m) /\ (m + i) - m = i
      OBVIOUS
    <3>3. k[m + i] = x
      BY <1>6, <3>1, <3>2
    <3> QED
      BY <3>2, <3>3
  <2> QED
    BY <2>1, <2>2
<1>12. Enumerates(k, m + n, S \cup T) /\ IsFiniteSet(S \cup T)
  BY <1>9, <1>10, <1>11, FS_Union DEF Enumerates
<1>13. Values(S \cup T, F) = [i \in 1 .. m + n |-> F[k[i]]]
  BY <1>12, ValuesBy
<1> DEFINE v == [i \in 1 .. m |-> F[g[i]]]
           w == [i \in 1 .. n |-> F[h[i]]]
           u == [i \in 1 .. m + n |-> F[k[i]]]
<1>14. Values(S, F) = v /\ Values(T, F) = w
  BY <1>3, <1>5, ValuesBy
<1>15. \A i \in 1 .. n : h[i] \in T
  BY <1>5 DEF Enumerates
<1>16. \A i \in 1 .. m : F[g[i]] \in V
  BY <1>1, <1>6
<1>17. \A i \in 1 .. n : F[h[i]] \in V
  BY <1>1, <1>15
<1>18. v \in [1 .. m -> V] /\ w \in [1 .. n -> V]
  BY <1>16, <1>17
<1>19. /\ v \in Seq(V) /\ Len(v) = m
       /\ w \in Seq(V) /\ Len(w) = n
  BY <1>18
<1>20. \A i \in 1 .. m + n : F[k[i]] \in V
  BY <1>1, <1>9
<1>21. m + n \in Nat /\ u \in [1 .. m + n -> V]
  BY <1>20
<1>22. u \in Seq(V) /\ Len(u) = m + n
  BY <1>21
<1>23. ASSUME NEW i \in 1 .. m + n
       PROVE  u[i] = IF i <= m THEN v[i] ELSE w[i - m]
  <2>1. CASE i <= m
    BY <1>6, <2>1
  <2>2. CASE ~(i <= m)
    BY <1>6, <2>2
  <2> QED
    BY <2>1, <2>2
<1> HIDE DEF u, v, w
<1>24. /\ v \o w \in Seq(V) /\ Len(v \o w) = m + n
       /\ \A i \in 1 .. m + n :
            (v \o w)[i] = IF i <= m THEN v[i] ELSE w[i - m]
  <2>1. /\ v \o w \in Seq(V) /\ Len(v \o w) = Len(v) + Len(w)
        /\ \A i \in 1 .. Len(v) + Len(w) :
             (v \o w)[i] = IF i <= Len(v) THEN v[i] ELSE w[i - Len(v)]
    BY ONLY <1>19, ConcatProperties
  <2> QED
    BY <1>19, <2>1
<1>25. u = v \o w
  <2> DEFINE z == v \o w
  <2>1. z \in Seq(V) /\ Len(z) = m + n /\ \A i \in 1 .. m + n : u[i] = z[i]
    BY <1>23, <1>24
  <2> HIDE DEF z
  <2>2. u = z
    BY <1>22, <2>1, SeqEqual
  <2> QED
    BY <2>2 DEF z
<1> QED
  BY <1>13, <1>14, <1>25 DEF u

Origins(s) == [k \in DOMAIN s |-> s[k].of]

(* The places of last bytes are places of the stream, and of messages. *)
LEMMA EndingIs ==
    ASSUME NEW s \in Seq(Byte)
    PROVE  /\ Ending(s) \in SUBSET Nat /\ IsFiniteSet(Ending(s))
           /\ Ending(s) \subseteq 1 .. Len(s)
           /\ \A k \in Ending(s) : s[k].of \in Messages
           /\ \A k \in Ending(s) : Origins(s)[k] = s[k].of
<1>1. DOMAIN s = 1 .. Len(s) /\ Len(s) \in Nat
  BY LenProperties
<1>2. Ending(s) \subseteq 1 .. Len(s)
  BY <1>1 DEF Ending
<1>3. 1 .. Len(s) \in SUBSET Nat /\ IsFiniteSet(1 .. Len(s))
  BY <1>1, FS_Interval
<1>4. Ending(s) \in SUBSET Nat /\ IsFiniteSet(Ending(s))
  BY <1>2, <1>3, FS_Subset
<1>5. ASSUME NEW k \in Ending(s) PROVE s[k].of \in Messages
  <2>1. s[k] \in Byte
    BY <1>1, <1>2, ElementOfSeq
  <2>2. s[k].of \in Frames /\ s[k].of # ErrorPacket
    BY <2>1, ByteFields DEF Ending, IsLastOfMessage
  <2> QED
    BY <2>2 DEF Frames
<1>6. \A k \in Ending(s) : Origins(s)[k] = s[k].of
  BY <1>1, <1>2 DEF Origins
<1> QED
  BY <1>2, <1>4, <1>5, <1>6

(* EndedBy in terms of Values. *)
LEMMA EndedByIs ==
    ASSUME NEW s \in Seq(Byte)
    PROVE  EndedBy(s) = Values(Ending(s), Origins(s))
<1>1. \A i \in DOMAIN InOrder(Ending(s)) : InOrder(Ending(s))[i] \in Ending(s)
  BY EndingIs, InOrderEnumerates DEF Enumerates
<1> QED
  BY <1>1, EndingIs DEF EndedBy, Values

(* Error packets are not messages under way. *)
LEMMA EndedByType ==
    ASSUME NEW s \in Seq(Byte)
    PROVE  EndedBy(s) \in Seq(Messages)
<1>1. \A k \in Ending(s) : Origins(s)[k] \in Messages
  BY EndingIs
<1>2. Values(Ending(s), Origins(s)) \in Seq(Messages)
  BY <1>1, EndingIs, ValuesType
<1> QED
  BY <1>2, EndedByIs

(* The messages whose last bytes are in two parts of a stream. *)
LEMMA EndedByBoth ==
    ASSUME NEW s \in Seq(Byte), NEW t \in Seq(Byte)
    PROVE  EndedBy(s \o t) = EndedBy(s) \o EndedBy(t)
<1> DEFINE u == s \o t
           S == Ending(s)
           T == Ending(t)
           F == Origins(u)
<1>1. PICK n \in Nat, m \in Nat : n = Len(s) /\ m = Len(t)
  BY LenProperties
<1> DEFINE U == {n + j : j \in T}
<1>2. /\ u \in Seq(Byte) /\ Len(u) = Len(s) + Len(t)
      /\ \A i \in 1 .. Len(s) + Len(t) :
            u[i] = IF i <= Len(s) THEN s[i] ELSE t[i - Len(s)]
  BY ConcatProperties
<1>3. /\ u \in Seq(Byte) /\ Len(u) = n + m
      /\ \A i \in 1 .. n + m : u[i] = IF i <= n THEN s[i] ELSE t[i - n]
  BY <1>1, <1>2
<1> HIDE DEF u
<1>4. DOMAIN u = 1 .. n + m /\ DOMAIN s = 1 .. n /\ DOMAIN t = 1 .. m
  BY <1>1, <1>3, LenProperties
<1>5. /\ S \in SUBSET Nat /\ IsFiniteSet(S) /\ S \subseteq 1 .. n
      /\ T \in SUBSET Nat /\ IsFiniteSet(T) /\ T \subseteq 1 .. m
      /\ Ending(u) \in SUBSET Nat /\ IsFiniteSet(Ending(u))
  BY <1>1, <1>3, EndingIs
<1>6. \A i \in 1 .. n : u[i] = s[i]
  BY <1>3
<1>7. \A j \in 1 .. m : n + j \in 1 .. n + m /\ u[n + j] = t[j]
  <2>1. \A j \in 1 .. m : /\ n + j \in 1 .. n + m /\ ~(n + j <= n)
                          /\ (n + j) - n = j
    OBVIOUS
  <2> QED
    BY <1>3, <2>1
<1>8. Ending(u) = S \cup U
  <2>1. ASSUME NEW i \in Ending(u) PROVE i \in S \cup U
    <3>1. i \in 1 .. n + m /\ IsLastOfMessage(u[i])
      BY <1>4 DEF Ending
    <3>2. CASE i <= n
      BY <1>4, <1>6, <3>1, <3>2 DEF Ending
    <3>3. CASE ~(i <= n)
      <4>1. i - n \in 1 .. m /\ n + (i - n) = i /\ u[i] = t[i - n]
        BY <1>3, <3>1, <3>3
      <4>2. i - n \in T
        BY <1>4, <3>1, <4>1 DEF Ending
      <4> QED
        BY <4>1, <4>2
    <3> QED
      BY <3>2, <3>3
  <2>2. ASSUME NEW i \in S PROVE i \in Ending(u)
    <3>1. i \in 1 .. n /\ IsLastOfMessage(s[i]) /\ i \in 1 .. n + m
      BY <1>4, <1>5 DEF Ending
    <3> QED
      BY <1>4, <1>6, <3>1 DEF Ending
  <2>3. ASSUME NEW j \in T PROVE n + j \in Ending(u)
    <3>1. j \in 1 .. m /\ IsLastOfMessage(t[j])
      BY <1>4 DEF Ending
    <3> QED
      BY <1>4, <1>7, <3>1 DEF Ending
  <2> QED
    BY <2>1, <2>2, <2>3
<1>9. U \in SUBSET Nat /\ IsFiniteSet(U)
  <2>1. U \in SUBSET Nat
    BY <1>5
  <2>2. U \subseteq Ending(u)
    BY <1>8
  <2> QED
    BY <1>5, <2>1, <2>2, FS_Subset
<1>10. \A x \in S, y \in U : x < y
  BY <1>5
<1>11. \A k \in S : F[k] = Origins(s)[k]
  <2>1. \A k \in S : F[k] = u[k].of /\ Origins(s)[k] = s[k].of /\ u[k] = s[k]
    BY <1>3, <1>5, <1>6, <1>8, EndingIs
  <2> QED
    BY <2>1
<1>12. \A j \in T : F[n + j] = Origins(t)[j]
  <2>1. \A j \in T : F[n + j] = u[n + j].of /\ Origins(t)[j] = t[j].of
                     /\ u[n + j] = t[j]
    BY <1>3, <1>5, <1>7, <1>8, EndingIs
  <2> QED
    BY <2>1
<1> DEFINE Fs == Origins(s)
           Ft == Origins(t)
<1>13. (\A j \in T : n + j \in U) /\ (\A x \in U : \E j \in T : x = n + j)
  OBVIOUS
<1> HIDE DEF S, T, U, F, Fs, Ft
<1>14. Values(S \cup U, F) = Values(S, F) \o Values(U, F)
  <2>1. S \in SUBSET Nat
    BY <1>5
  <2>2. IsFiniteSet(S)
    BY <1>5
  <2>3. U \in SUBSET Nat
    BY <1>9
  <2>4. IsFiniteSet(U)
    BY <1>9
  <2> QED
    BY <2>1, <2>2, <2>3, <2>4, <1>10, ValuesConcat
<1>15. Values(S, F) = Values(S, Fs)
  <2>1. \A k \in S : F[k] = Fs[k]
    BY <1>11 DEF Fs
  <2> QED
    BY <1>5, <2>1, ValuesSame
<1>16. Values(U, F) = Values(T, Ft)
  <2>1. \A j \in T : F[n + j] = Ft[j]
    BY <1>12 DEF Ft
  <2>2. T \in SUBSET Nat
    BY <1>5
  <2>3. IsFiniteSet(T)
    BY <1>5
  <2>4. U \in SUBSET Nat
    BY <1>9
  <2>5. IsFiniteSet(U)
    BY <1>9
  <2>6. n \in Nat
    BY <1>1
  <2>7. \A j \in T : n + j \in U
    BY <1>13
  <2>8. \A x \in U : \E j \in T : x = n + j
    BY <1>13
  <2>9. Shifted(n, U, F, T, Ft)
    BY <2>1, <2>2, <2>3, <2>4, <2>5, <2>6, <2>7, <2>8 DEF Shifted
  <2> QED
    BY <2>9, ValuesShift
<1>17. EndedBy(u) = Values(S \cup U, F)
  BY <1>3, <1>8, EndedByIs DEF F
<1>18. EndedBy(s) = Values(S, Fs) /\ EndedBy(t) = Values(T, Ft)
  BY EndedByIs DEF S, T, Fs, Ft
<1> QED
  BY <1>14, <1>15, <1>16, <1>17, <1>18 DEF u

(* Without a last byte there is no message. *)
LEMMA EndedByNone ==
    ASSUME NEW s \in Seq(Byte),
           \A k \in 1 .. Len(s) : ~IsLastOfMessage(s[k])
    PROVE  EndedBy(s) = << >>
<1>1. Ending(s) = {}
  BY LenProperties DEF Ending
<1> QED
  BY <1>1, EndedByIs, ValuesNone

(* With one last byte there is one message. *)
LEMMA EndedByOne ==
    ASSUME NEW s \in Seq(Byte), NEW n \in 1 .. Len(s), IsLastOfMessage(s[n]),
           \A k \in 1 .. Len(s) : k # n => ~IsLastOfMessage(s[k])
    PROVE  EndedBy(s) = <<s[n].of>>
<1>1. DOMAIN s = 1 .. Len(s) /\ Len(s) \in Nat
  BY LenProperties
<1>2. Ending(s) = {n} /\ n \in Nat
  BY <1>1 DEF Ending
<1>3. EndedBy(s) = Values({n}, Origins(s))
  BY <1>2, EndedByIs
<1>4. Values({n}, Origins(s)) = <<Origins(s)[n]>>
  BY <1>2, ValuesOne
<1> QED
  BY <1>2, <1>3, <1>4, EndingIs

(* Damage does not change how many messages are under way, nor which. *)
LEMMA EndedByAlike ==
    ASSUME NEW s \in Seq(Byte), NEW t \in Seq(Byte), Alike(s, t)
    PROVE  EndedBy(s) = EndedBy(t)
<1>1. DOMAIN s = 1 .. Len(s) /\ DOMAIN t = 1 .. Len(s)
  BY LenProperties DEF Alike
<1>2. \A k \in 1 .. Len(s) : IsLastOfMessage(s[k]) <=> IsLastOfMessage(t[k])
  BY DEF Alike, IsLastOfMessage, EndsFrame
<1>3. Ending(s) = Ending(t)
  BY <1>1, <1>2 DEF Ending
<1>4. Origins(s) = Origins(t)
  BY <1>1 DEF Origins, Alike
<1> QED
  BY <1>3, <1>4, EndedByIs

(* No part of a frame without its last byte ends a message. *)
LEMMA EndedByPart ==
    ASSUME NEW s \in Seq(Byte), Chained(s), s # << >>,
           \/ Len(s) <= HeaderSize
           \/ Len(s) < FrameSize(s[1].of)
    PROVE  EndedBy(s) = << >>
<1>1. PICK n \in Nat : n = Len(s) /\ n >= 1
  BY EmptySeq, LenProperties
<1> DEFINE f == s[1].of
<1>2. f \in Frames
  <2>1. s[1] \in Byte
    BY <1>1, ElementOfSeq
  <2> QED
    BY <2>1, ByteFields
<1>3. /\ HeaderSize \in Nat /\ FrameSize(f) \in Nat /\ DataSize(f) \in Nat
      /\ FrameSize(f) = HeaderSize + DataSize(f)
      /\ f # ErrorPacket => DataSize(f) > 0
  BY <1>2, FrameSizes
<1>4. ASSUME NEW k \in 1 .. n PROVE ~IsLastOfMessage(s[k])
  <2>1. k <= FrameSize(f)
    BY <1>1, <1>3
  <2>2. s[k].of = f /\ s[k].at = k
    BY <1>1, <2>1, FirstFrame
  <2>3. f # ErrorPacket => k < FrameSize(f)
    BY <1>1, <1>3
  <2>4. ~(EndsFrame(s[k]) /\ f # ErrorPacket)
    <3>1. f # ErrorPacket => k # FrameSize(f)
      BY <1>3, <2>3
    <3> QED
      BY <2>2, <3>1 DEF EndsFrame, FrameSize
  <2> QED
    BY <2>2, <2>4 DEF IsLastOfMessage
<1> QED
  BY <1>1, <1>4, EndedByNone

(* A whole frame ends its message, read well or not. *)
LEMMA EndedByFrame ==
    ASSUME NEW f \in Frames, NEW s \in Seq(Byte), Len(s) = FrameSize(f),
           \A k \in 1 .. FrameSize(f) : s[k].of = f /\ s[k].at = k
    PROVE  EndedBy(s) = IF f = ErrorPacket THEN << >> ELSE <<f>>
<1>1. PICK n \in Nat : n = FrameSize(f) /\ n >= 1
  BY FrameSizes
<1>2. \A k \in 1 .. n : IsLastOfMessage(s[k]) <=> k = n /\ f # ErrorPacket
  BY <1>1 DEF IsLastOfMessage, EndsFrame, FrameSize
<1>3. CASE f = ErrorPacket
  BY <1>1, <1>2, <1>3, EndedByNone
<1>4. CASE f # ErrorPacket
  <2>1. n \in 1 .. Len(s) /\ IsLastOfMessage(s[n]) /\ s[n].of = f
    BY <1>1, <1>2, <1>4
  <2>2. \A k \in 1 .. Len(s) : k # n => ~IsLastOfMessage(s[k])
    BY <1>1, <1>2
  <2>3. EndedBy(s) = <<s[n].of>>
    BY <2>1, <2>2, EndedByOne
  <2> QED
    BY <1>4, <2>1, <2>3
<1> QED
  BY <1>3, <1>4

(* A frame, as it is written, ends its message. *)
LEMMA EndedByNext ==
    ASSUME NEW f \in Frames
    PROVE  EndedBy(Frame(f)) = IF f = ErrorPacket THEN << >> ELSE <<f>>
<1>1. /\ Frame(f) \in Seq(Byte) /\ Len(Frame(f)) = FrameSize(f)
      /\ \A i \in 1 .. FrameSize(f) :
           Frame(f)[i] = [of |-> f, at |-> i, good |-> TRUE]
  BY FrameBytes
<1>2. \A i \in 1 .. FrameSize(f) : Frame(f)[i].of = f /\ Frame(f)[i].at = i
  BY <1>1
<1> QED
  BY <1>1, <1>2, EndedByFrame

QueueEntry == [message : Messages, messageCount : Nat]

(* Of a queue, the messages by the count each was given.                   *)
ByCount(queue) == [n \in Counts(queue) |-> Queued(queue, n).message]

(* What is queued was counted, each differently, and below count.          *)
Numbered(queue, count) ==
    /\ queue \in SUBSET QueueEntry /\ count \in Nat
    /\ \A q \in queue : q.messageCount < count
    /\ \A q, r \in queue : q.messageCount = r.messageCount => q = r

(* Messages and counts of a queue determine each other. *)
LEMMA CountsAre ==
    ASSUME NEW Q, NEW c, Numbered(Q, c)
    PROVE  /\ Counts(Q) \in SUBSET Nat /\ IsFiniteSet(Counts(Q))
           /\ \A n \in Counts(Q) : n < c
           /\ \A q \in Q : /\ q.messageCount \in Counts(Q)
                           /\ q.message \in Messages
                           /\ Queued(Q, q.messageCount) = q
                           /\ ByCount(Q)[q.messageCount] = q.message
           /\ \A n \in Counts(Q) : /\ Queued(Q, n) \in Q
                                   /\ Queued(Q, n).messageCount = n
                                   /\ ByCount(Q)[n] = Queued(Q, n).message
                                   /\ ByCount(Q)[n] \in Messages
<1>1. Q \in SUBSET QueueEntry /\ c \in Nat
  BY DEF Numbered
<1>2. Counts(Q) \in SUBSET Nat /\ \A n \in Counts(Q) : n < c
  BY <1>1 DEF Counts, Numbered, QueueEntry
<1>3. Counts(Q) \subseteq 0 .. c
  BY <1>1, <1>2
<1>4. IsFiniteSet(Counts(Q))
  <2>1. IsFiniteSet(0 .. c)
    BY <1>1, FS_Interval
  <2> QED
    BY <1>3, <2>1, FS_Subset
<1>5. \A q \in Q : q.messageCount \in Counts(Q) /\ q.message \in Messages
  BY <1>1 DEF Counts, QueueEntry
<1>6. ASSUME NEW n \in Counts(Q)
      PROVE  /\ Queued(Q, n) \in Q /\ Queued(Q, n).messageCount = n
             /\ ByCount(Q)[n] = Queued(Q, n).message
             /\ ByCount(Q)[n] \in Messages
  <2>1. \E q \in Q : q.messageCount = n
    BY DEF Counts
  <2>2. Queued(Q, n) \in Q /\ Queued(Q, n).messageCount = n
    BY <2>1 DEF Queued
  <2> QED
    BY <1>5, <2>2 DEF ByCount
<1>7. \A q \in Q : Queued(Q, q.messageCount) = q
  BY <1>5, <1>6 DEF Numbered
<1>8. \A q \in Q : ByCount(Q)[q.messageCount] = q.message
  BY <1>5, <1>7 DEF ByCount
<1> QED
  BY <1>2, <1>4, <1>5, <1>6, <1>7, <1>8

(* AsSent in terms of Values. *)
LEMMA AsSentIs ==
    ASSUME NEW Q, NEW c, Numbered(Q, c)
    PROVE  /\ AsSent(Q) = Values(Counts(Q), ByCount(Q))
           /\ AsSent(Q) \in Seq(Messages)
<1>1. \A i \in DOMAIN InOrder(Counts(Q)) : InOrder(Counts(Q))[i] \in Counts(Q)
  BY CountsAre, InOrderEnumerates DEF Enumerates
<1>2. AsSent(Q) = Values(Counts(Q), ByCount(Q))
  BY <1>1 DEF AsSent, Values, ByCount
<1>3. \A n \in Counts(Q) : ByCount(Q)[n] \in Messages
  BY CountsAre
<1>4. Values(Counts(Q), ByCount(Q)) \in Seq(Messages)
  BY <1>3, CountsAre, ValuesType
<1> QED
  BY <1>2, <1>4

(* Taking messages out does not change the others. *)
LEMMA SameValues ==
    ASSUME NEW Q, NEW c, Numbered(Q, c), NEW R \in SUBSET Q
    PROVE  /\ Numbered(R, c)
           /\ Counts(R) \subseteq Counts(Q)
           /\ \A n \in Counts(R) : ByCount(R)[n] = ByCount(Q)[n]
<1>1. Numbered(R, c)
  BY DEF Numbered
<1>2. Counts(R) \subseteq Counts(Q)
  BY DEF Counts
<1>3. ASSUME NEW n \in Counts(R) PROVE ByCount(R)[n] = ByCount(Q)[n]
  <2>1. /\ Queued(R, n) \in R /\ Queued(R, n).messageCount = n
        /\ ByCount(R)[n] = Queued(R, n).message
    BY <1>1, CountsAre
  <2>2. /\ Queued(Q, n) \in Q /\ Queued(Q, n).messageCount = n
        /\ ByCount(Q)[n] = Queued(Q, n).message
    BY <1>2, CountsAre
  <2>3. Queued(R, n) = Queued(Q, n)
    BY <2>1, <2>2 DEF Numbered
  <2> QED
    BY <2>1, <2>2, <2>3
<1> QED
  BY <1>1, <1>2, <1>3

(* The empty queue. *)
LEMMA AsSentNone ==
    AsSent({}) = << >> /\ \A c \in Nat : Numbered({}, c)
<1>1. \A c \in Nat : Numbered({}, c)
  BY DEF Numbered
<1>2. Counts({}) = {}
  BY DEF Counts
<1>3. AsSent({}) = Values({}, ByCount({}))
  <2>1. Numbered({}, 0)
    BY <1>1
  <2> QED
    BY <1>2, <2>1, AsSentIs
<1> QED
  BY <1>1, <1>3, ValuesNone

(* What is counted last is queued last. *)
LEMMA AsSentPut ==
    ASSUME NEW Q, NEW c, Numbered(Q, c), NEW m \in Messages
    PROVE  LET R == Q \cup {[message |-> m, messageCount |-> c]}
           IN  /\ Numbered(R, c + 1)
               /\ AsSent(R) = Append(AsSent(Q), m)
<1> DEFINE last == [message |-> m, messageCount |-> c]
           R == Q \cup {last}
<1>1. Q \in SUBSET QueueEntry /\ c \in Nat
  BY DEF Numbered
<1>2. last \in QueueEntry /\ last.message = m /\ last.messageCount = c
  BY <1>1 DEF QueueEntry
<1> HIDE DEF last
<1>3. Numbered(R, c + 1)
  <2>1. \A q \in Q : q.messageCount < c /\ q.messageCount \in Nat
    BY <1>1 DEF Numbered, QueueEntry
  <2> QED
    BY <1>1, <1>2, <2>1 DEF Numbered
<1>4. Counts(R) = Counts(Q) \cup {c}
  BY <1>2 DEF Counts
<1>5. /\ Counts(Q) \in SUBSET Nat /\ IsFiniteSet(Counts(Q))
      /\ \A n \in Counts(Q) : n < c
  BY CountsAre
<1>6. ByCount(R)[c] = m
  <2>1. last \in R
    OBVIOUS
  <2> QED
    BY <1>2, <1>3, <2>1, CountsAre
<1>7. \A n \in Counts(Q) : ByCount(Q)[n] = ByCount(R)[n]
  <2>1. Q \in SUBSET R
    OBVIOUS
  <2> QED
    BY <1>3, <2>1, SameValues
<1> DEFINE S == Counts(Q)
           T == {c}
           F == ByCount(R)
           G == ByCount(Q)
<1>8. T \in SUBSET Nat /\ IsFiniteSet(T)
  BY <1>1, FS_Singleton
<1>9. \A x \in S, y \in T : x < y
  BY <1>5
<1>10. \A k \in S : F[k] = G[k]
  BY <1>7
<1>11. S \in SUBSET Nat /\ IsFiniteSet(S)
  BY <1>5
<1>12. Values(T, F) = <<m>>
  BY <1>1, <1>6, ValuesOne
<1> HIDE DEF S, T, F, G
<1>13. Values(S \cup T, F) = Values(S, F) \o Values(T, F)
  BY <1>8, <1>9, <1>11, ValuesConcat
<1>14. Values(S, F) = Values(S, G)
  BY <1>10, <1>11, ValuesSame
<1>15. AsSent(R) = Values(S \cup T, F)
  BY <1>3, <1>4, AsSentIs DEF S, T, F
<1>16. AsSent(Q) = Values(S, G) /\ AsSent(Q) \in Seq(Messages)
  BY AsSentIs DEF S, G
<1>17. AsSent(R) = AsSent(Q) \o <<m>>
  BY <1>12, <1>13, <1>14, <1>15, <1>16
<1>18. AsSent(Q) \o <<m>> = Append(AsSent(Q), m)
  BY <1>16, AppendIsConcat
<1> QED
  BY <1>3, <1>17, <1>18 DEF last

(* Cutting where two sequences have been joined. *)
LEMMA PartsOfConcat ==
    ASSUME NEW V, NEW s \in Seq(V), NEW t \in Seq(V)
    PROVE  /\ SubSeq(s \o t, 1, Len(s)) = s
           /\ SubSeq(s \o t, Len(s) + 1, Len(s \o t)) = t
<1>1. PICK m \in Nat, n \in Nat : m = Len(s) /\ n = Len(t)
  BY LenProperties
<1> DEFINE u == s \o t
<1>2. /\ u \in Seq(V) /\ Len(u) = Len(s) + Len(t)
      /\ \A i \in 1 .. Len(s) + Len(t) :
            u[i] = IF i <= Len(s) THEN s[i] ELSE t[i - Len(s)]
  BY ConcatProperties
<1> HIDE DEF u
<1>3. /\ Len(u) = m + n
      /\ \A i \in 1 .. m + n : u[i] = IF i <= m THEN s[i] ELSE t[i - m]
      /\ \A i \in 1 .. m + n : u[i] \in V
  BY <1>1, <1>2, ElementOfSeq
<1> DEFINE p == SubSeq(u, 1, m)
           q == SubSeq(u, m + 1, m + n)
<1>4. /\ p \in Seq(V) /\ Len(p) = m
      /\ \A i \in 1 .. m : p[i] = u[i]
  <2>1. /\ SubSeq(u, 1, m) \in Seq(V)
        /\ Len(SubSeq(u, 1, m)) = IF 1 <= m THEN m - 1 + 1 ELSE 0
        /\ \A i \in 1 .. m - 1 + 1 : SubSeq(u, 1, m)[i] = u[1 + i - 1]
    <3>1. \A i \in 1 .. m : u[i] \in V
      BY <1>3
    <3> QED
      BY <3>1, SubSeqProperties
  <2> HIDE DEF p
  <2>2. /\ p \in Seq(V) /\ Len(p) = IF 1 <= m THEN m - 1 + 1 ELSE 0
        /\ \A i \in 1 .. m - 1 + 1 : p[i] = u[1 + i - 1]
    BY <2>1 DEF p
  <2> QED
    BY <2>2
<1>5. /\ q \in Seq(V) /\ Len(q) = n
      /\ \A i \in 1 .. n : q[i] = u[m + i]
  <2>1. /\ SubSeq(u, m + 1, m + n) \in Seq(V)
        /\ Len(SubSeq(u, m + 1, m + n))
             = IF m + 1 <= m + n THEN m + n - (m + 1) + 1 ELSE 0
        /\ \A i \in 1 .. m + n - (m + 1) + 1 :
             SubSeq(u, m + 1, m + n)[i] = u[m + 1 + i - 1]
    <3> DEFINE a == m + 1
               b == m + n
    <3>1. a \in Int /\ b \in Int /\ \A i \in a .. b : u[i] \in V
      BY <1>3
    <3> HIDE DEF a, b
    <3>2. /\ SubSeq(u, a, b) \in Seq(V)
          /\ Len(SubSeq(u, a, b)) = IF a <= b THEN b - a + 1 ELSE 0
          /\ \A i \in 1 .. b - a + 1 : SubSeq(u, a, b)[i] = u[a + i - 1]
      BY <3>1, SubSeqProperties
    <3> QED
      BY <3>2 DEF a, b
  <2> HIDE DEF q
  <2>2. /\ q \in Seq(V)
        /\ Len(q) = IF m + 1 <= m + n THEN m + n - (m + 1) + 1 ELSE 0
        /\ \A i \in 1 .. m + n - (m + 1) + 1 : q[i] = u[m + 1 + i - 1]
    BY <2>1 DEF q
  <2>3. m + n - (m + 1) + 1 = n /\ \A i \in 1 .. n : m + 1 + i - 1 = m + i
    OBVIOUS
  <2> QED
    BY <2>2, <2>3
<1> HIDE DEF p, q
<1>6. p = s
  <2>1. \A i \in 1 .. m : p[i] = s[i]
    BY <1>3, <1>4
  <2> QED
    BY <1>1, <1>4, <2>1, SeqEqual
<1>7. q = t
  <2>1. \A i \in 1 .. n : q[i] = t[i]
    <3>1. \A i \in 1 .. n : /\ m + i \in 1 .. m + n /\ ~(m + i <= m)
                            /\ (m + i) - m = i
      OBVIOUS
    <3> QED
      BY <1>3, <1>5, <3>1
  <2> QED
    BY <1>1, <1>5, <2>1, SeqEqual
<1> QED
  BY <1>1, <1>3, <1>6, <1>7 DEF p, q, u

(* Removing what stands between two sequences. *)
LEMMA OneTakenOut ==
    ASSUME NEW s \in Seq(Messages), NEW x \in Messages,
           NEW t \in Seq(Messages)
    PROVE  LET u == (s \o <<x>>) \o t
               i == Len(s) + 1
           IN  /\ i \in DOMAIN u /\ u[i] = x
               /\ RemoveAt(u, i) = s \o t
               /\ \A j \in DOMAIN u :
                    \/ j = i
                    \/ j \in 1 .. Len(s) /\ j < i /\ u[j] = s[j]
                    \/ j - i \in 1 .. Len(t) /\ i < j /\ u[j] = t[j - i]
<1> DEFINE V == Messages
           one == <<x>>
           a == s \o one
           u == a \o t
<1>1. PICK m \in Nat, n \in Nat : m = Len(s) /\ n = Len(t)
  BY LenProperties
<1>2. one \in Seq(V) /\ Len(one) = 1 /\ one[1] = x
  OBVIOUS
<1>3. s \in Seq(V) /\ x \in V /\ t \in Seq(V)
  OBVIOUS
<1> HIDE DEF one, V
<1>4. /\ a \in Seq(V) /\ Len(a) = m + 1
      /\ \A i \in 1 .. m + 1 : a[i] = IF i <= m THEN s[i] ELSE one[i - m]
  <2>1. /\ a \in Seq(V) /\ Len(a) = Len(s) + Len(one)
        /\ \A i \in 1 .. Len(s) + Len(one) :
              a[i] = IF i <= Len(s) THEN s[i] ELSE one[i - Len(s)]
    BY <1>3, <1>2, ConcatProperties
  <2> QED
    BY <1>1, <1>2, <2>1
<1> DEFINE c == one \o t
<1>5. u = s \o c /\ c \in Seq(V)
  BY <1>3, <1>2, ConcatAssociative, ConcatProperties
<1>6. SubSeq(u, 1, m) = s
  <2> HIDE DEF c, u
  <2>1. SubSeq(s \o c, 1, Len(s)) = s
    BY <1>3, <1>5, PartsOfConcat
  <2> QED
    BY <1>1, <1>5, <2>1
<1> HIDE DEF a
<1>7. /\ u \in Seq(V) /\ Len(u) = m + 1 + n
      /\ \A i \in 1 .. m + 1 + n :
            u[i] = IF i <= m + 1 THEN a[i] ELSE t[i - (m + 1)]
  <2>1. /\ u \in Seq(V) /\ Len(u) = Len(a) + Len(t)
        /\ \A i \in 1 .. Len(a) + Len(t) :
              u[i] = IF i <= Len(a) THEN a[i] ELSE t[i - Len(a)]
    BY <1>3, <1>4, ConcatProperties
  <2> QED
    BY <1>1, <1>4, <2>1
<1>8. SubSeq(u, m + 2, Len(u)) = t
  <2>1. SubSeq(u, Len(a) + 1, Len(u)) = t
    BY <1>3, <1>4, PartsOfConcat
  <2>2. Len(a) + 1 = m + 2
    BY <1>4
  <2> QED
    BY <2>1, <2>2
<1> HIDE DEF u
<1>9. DOMAIN u = 1 .. m + 1 + n
  BY <1>3, <1>7, LenProperties
<1>10. m + 1 \in DOMAIN u /\ u[m + 1] = x
  <2>1. m + 1 \in 1 .. m + 1 + n /\ m + 1 \in 1 .. m + 1 /\ (m + 1) - m = 1
    OBVIOUS
  <2>2. a[m + 1] = one[1]
    BY <1>4, <2>1
  <2> QED
    BY <1>2, <1>7, <1>9, <2>1, <2>2
<1>11. RemoveAt(u, m + 1) = s \o t
  <2>1. (m + 1) - 1 = m /\ (m + 1) + 1 = m + 2
    OBVIOUS
  <2> QED
    BY <1>6, <1>8, <2>1 DEF RemoveAt
<1>12. ASSUME NEW j \in DOMAIN u
       PROVE  \/ j = m + 1
              \/ j \in 1 .. m /\ j < m + 1 /\ u[j] = s[j]
              \/ j - (m + 1) \in 1 .. n /\ m + 1 < j /\ u[j] = t[j - (m + 1)]
  <2>1. j \in 1 .. m + 1 + n
    BY <1>9
  <2>2. CASE j <= m
    <3>1. j \in 1 .. m /\ j \in 1 .. m + 1 /\ j <= m + 1 /\ j < m + 1
      BY <2>1, <2>2
    <3>2. u[j] = s[j]
      BY <1>4, <1>7, <2>1, <2>2, <3>1
    <3> QED
      BY <3>1, <3>2
  <2>3. CASE j > m + 1
    <3>1. j - (m + 1) \in 1 .. n /\ ~(j <= m + 1)
      BY <2>1, <2>3
    <3> QED
      BY <1>7, <2>1, <2>3, <3>1
  <2> QED
    BY <2>1, <2>2, <2>3
<1> QED
  BY <1>1, <1>10, <1>11, <1>12 DEF u, a, one

(* The message that is above all others in QueuedMessageComparison is the  *)
(* channel's next: those before it are less urgent, and those after it at  *)
(* most as urgent.                                                         *)
LEMMA AsSentTake ==
    ASSUME NEW Q, NEW c, Numbered(Q, c), NEW top \in Q,
           \A other \in Q \ {top} : Below(other, top)
    PROVE  LET R == Q \ {top}
               w == AsSent(Q)
           IN  /\ Numbered(R, c)
               /\ \E i \in DOMAIN w :
                    /\ w[i] = top.message
                    /\ AsSent(R) = RemoveAt(w, i)
                    /\ \A j \in DOMAIN w \ {i} :
                        \/ Priority[w[j]] < Priority[w[i]]
                        \/ Priority[w[j]] = Priority[w[i]] /\ i < j
<1> DEFINE R == Q \ {top}
           k == top.messageCount
           S == Counts(Q)
           F == ByCount(Q)
           G == ByCount(R)
           L == {n \in S : n < k}
           T == {n \in S : n > k}
           K == {k}
<1>1. /\ S \in SUBSET Nat /\ IsFiniteSet(S) /\ k \in S /\ k \in Nat
      /\ F[k] = top.message /\ top.message \in Messages
      /\ \A n \in S : F[n] \in Messages
  BY CountsAre
<1>2. R \in SUBSET Q
  OBVIOUS
<1>3. /\ Numbered(R, c) /\ Counts(R) \subseteq S
      /\ \A n \in Counts(R) : G[n] = F[n]
  BY <1>2, SameValues
<1>4. Counts(R) = L \cup T
  <2>1. ASSUME NEW n \in Counts(R) PROVE n \in L \cup T
    <3>1. PICK q \in R : q.messageCount = n
      BY DEF Counts
    <3>2. n # k
      BY <3>1 DEF Numbered
    <3>3. n \in S /\ n \in Nat
      BY <1>1, <1>3
    <3> QED
      BY <1>1, <3>2, <3>3
  <2>2. ASSUME NEW n \in L \cup T PROVE n \in Counts(R)
    <3>1. n \in S /\ n # k
      BY <1>1
    <3>2. Queued(Q, n) \in Q /\ Queued(Q, n).messageCount = n
      BY <3>1, CountsAre
    <3>3. Queued(Q, n) # top
      BY <3>1, <3>2
    <3> QED
      BY <3>2, <3>3 DEF Counts
  <2> QED
    BY <2>1, <2>2
<1>5. ASSUME NEW n \in S, n # k
      PROVE  \/ Priority[F[n]] < Priority[F[k]]
             \/ Priority[F[n]] = Priority[F[k]] /\ n > k
  <2>1. /\ Queued(Q, n) \in Q /\ Queued(Q, n).messageCount = n
        /\ F[n] = Queued(Q, n).message
    BY CountsAre
  <2>2. Queued(Q, n) \in Q \ {top}
    BY <1>5, <2>1
  <2>3. Below(Queued(Q, n), top)
    BY <2>2
  <2> QED
    BY <1>1, <2>1, <2>3 DEF Below
<1>6. /\ L \in SUBSET Nat /\ IsFiniteSet(L)
      /\ T \in SUBSET Nat /\ IsFiniteSet(T)
      /\ K \in SUBSET Nat /\ IsFiniteSet(K)
  <2>1. L \in SUBSET S /\ T \in SUBSET S
    OBVIOUS
  <2>2. IsFiniteSet(L) /\ IsFiniteSet(T)
    BY <1>1, <2>1, FS_Subset
  <2>3. IsFiniteSet(K) /\ K \in SUBSET Nat
    BY <1>1, FS_Singleton
  <2> QED
    BY <1>1, <2>1, <2>2, <2>3
<1>7. S = (L \cup K) \cup T
  BY <1>1
<1>8. /\ \A x \in L, y \in K : x < y
      /\ \A x \in L \cup K, y \in T : x < y
      /\ \A x \in L, y \in T : x < y
  <2>1. \A x \in L : x \in Nat /\ x < k
    BY <1>6
  <2>2. \A x \in T : x \in Nat /\ k < x
    BY <1>6
  <2> QED
    BY <1>1, <2>1, <2>2
<1>9. /\ \A n \in L : F[n] \in Messages /\ Priority[F[n]] < Priority[F[k]]
      /\ \A n \in T : /\ F[n] \in Messages
                      /\ \/ Priority[F[n]] < Priority[F[k]]
                         \/ Priority[F[n]] = Priority[F[k]]
  <2>1. \A n \in L : n \in S /\ n \in Nat /\ n < k
    BY <1>6
  <2>2. \A n \in T : n \in S /\ n \in Nat /\ k < n
    BY <1>6
  <2> QED
    BY <1>1, <1>5, <2>1, <2>2
<1>10. \A n \in L \cup T : G[n] = F[n]
  BY <1>3, <1>4
<1>11. AsSent(R) = Values(L \cup T, G)
  BY <1>3, <1>4, AsSentIs
<1>12. AsSent(Q) = Values((L \cup K) \cup T, F)
  BY <1>7, AsSentIs
<1> DEFINE m == top.message
<1>13. F[k] = m /\ m \in Messages
  BY <1>1
<1>14. Values(K, F) = <<m>>
  <2>1. Values({k}, F) = <<F[k]>>
    BY <1>1, ValuesOne
  <2> QED
    BY <1>13, <2>1
<1> HIDE DEF L, T, K, F, G, S, k, m
<1>15. IsFiniteSet(L \cup K) /\ L \cup K \in SUBSET Nat
  BY <1>6, FS_Union
<1>16. IsFiniteSet(L \cup T) /\ L \cup T \in SUBSET Nat
  BY <1>6, FS_Union
<1>17. Values((L \cup K) \cup T, F) = Values(L \cup K, F) \o Values(T, F)
  <2> DEFINE M == L \cup K
  <2>1. M \in SUBSET Nat /\ IsFiniteSet(M) /\ \A x \in M, y \in T : x < y
    BY <1>8, <1>15
  <2> HIDE DEF M
  <2>2. T \in SUBSET Nat /\ IsFiniteSet(T)
    BY <1>6
  <2>3. Values(M \cup T, F) = Values(M, F) \o Values(T, F)
    BY <2>1, <2>2, ValuesConcat
  <2> QED
    BY <2>3 DEF M
<1>18. Values(L \cup K, F) = Values(L, F) \o Values(K, F)
  BY <1>6, <1>8, ValuesConcat, ZenonT(40)
<1>19. Values(L \cup T, F) = Values(L, F) \o Values(T, F)
  BY <1>6, <1>8, ValuesConcat, ZenonT(40)
<1>20. Values(L \cup T, G) = Values(L \cup T, F)
  <2> DEFINE M == L \cup T
  <2>1. M \in SUBSET Nat /\ IsFiniteSet(M) /\ \A n \in M : G[n] = F[n]
    BY <1>10, <1>16
  <2> HIDE DEF M
  <2>2. Values(M, G) = Values(M, F)
    BY <2>1, ValuesSame
  <2> QED
    BY <2>2 DEF M
<1> DEFINE s == Values(L, F)
           t == Values(T, F)
           u == (s \o <<m>>) \o t
<1>21. s \in Seq(Messages) /\ \A j \in 1 .. Len(s) : \E n \in L : s[j] = F[n]
  <2>1. L \in SUBSET Nat
    BY <1>6
  <2>2. IsFiniteSet(L)
    BY <1>6
  <2>3. \A n \in L : F[n] \in Messages
    BY <1>9
  <2>4. s \in Seq(Messages)
    BY <2>1, <2>2, <2>3, ValuesType
  <2>5. \A j \in 1 .. Len(s) : \E n \in L : s[j] = F[n]
    BY <2>1, <2>2, ValuesFrom
  <2> QED
    BY <2>4, <2>5
<1>22. t \in Seq(Messages) /\ \A j \in 1 .. Len(t) : \E n \in T : t[j] = F[n]
  <2>1. T \in SUBSET Nat
    BY <1>6
  <2>2. IsFiniteSet(T)
    BY <1>6
  <2>3. \A n \in T : F[n] \in Messages
    BY <1>9
  <2>4. t \in Seq(Messages)
    BY <2>1, <2>2, <2>3, ValuesType
  <2>5. \A j \in 1 .. Len(t) : \E n \in T : t[j] = F[n]
    BY <2>1, <2>2, ValuesFrom
  <2> QED
    BY <2>4, <2>5
<1>23. AsSent(Q) = u /\ AsSent(R) = s \o t
  BY <1>11, <1>12, <1>14, <1>17, <1>18, <1>19, <1>20
<1> HIDE DEF s, t
<1> DEFINE i == Len(s) + 1
<1>24. /\ i \in DOMAIN u /\ u[i] = m
       /\ RemoveAt(u, i) = s \o t
       /\ \A j \in DOMAIN u :
            \/ j = i
            \/ j \in 1 .. Len(s) /\ j < i /\ u[j] = s[j]
            \/ j - i \in 1 .. Len(t) /\ i < j /\ u[j] = t[j - i]
  BY <1>13, <1>21, <1>22, OneTakenOut, ZenonT(40)
<1> HIDE DEF u, i
<1>25. ASSUME NEW j \in DOMAIN u \ {i}
       PROVE  \/ Priority[u[j]] < Priority[u[i]]
              \/ Priority[u[j]] = Priority[u[i]] /\ i < j
  <2>1. CASE j \in 1 .. Len(s) /\ j < i /\ u[j] = s[j]
    BY <1>9, <1>13, <1>21, <1>24, <2>1
  <2>2. CASE j - i \in 1 .. Len(t) /\ i < j /\ u[j] = t[j - i]
    <3>1. PICK n \in T : t[j - i] = F[n]
      BY <1>22, <2>2
    <3>2. \/ Priority[F[n]] < Priority[F[k]]
          \/ Priority[F[n]] = Priority[F[k]]
      BY <1>9
    <3>3. u[j] = F[n] /\ u[i] = F[k]
      BY <1>13, <1>24, <2>2, <3>1
    <3> QED
      BY <2>2, <3>2, <3>3
  <2> QED
    BY <1>24, <2>1, <2>2
<1> QED
  BY <1>3, <1>23, <1>24, <1>25 DEF m

(* What MessageChannel says of the direction from e.                       *)
Waiting(e) == AsSent(sendQueue[e])
Underway(e) == EndedBy(Unread(e))

PutAt(e) ==
    \E m \in SentFrom(e) :
        /\ Waiting(e)' = Append(Waiting(e), m)
        /\ Underway(e)' = Underway(e)
        /\ received'[Peer(e)] = received[Peer(e)]
        /\ (damaged' = 0) = (damaged = 0)
        /\ Up' = Up

TakeAt(e) ==
    /\ \E i \in DOMAIN Waiting(e) :
        /\ \A j \in DOMAIN Waiting(e) \ {i} :
            \/ Priority[Waiting(e)[j]] < Priority[Waiting(e)[i]]
            \/ Priority[Waiting(e)[j]] = Priority[Waiting(e)[i]] /\ i < j
        /\ Underway(e)' = Append(Underway(e), Waiting(e)[i])
        /\ Waiting(e)' = RemoveAt(Waiting(e), i)
    /\ received'[Peer(e)] = received[Peer(e)]
    /\ (damaged' = 0) = (damaged = 0)
    /\ Up' = Up

DeliverAt(e) ==
    /\ Underway(e) # << >>
    /\ received'[Peer(e)] = Append(received[Peer(e)], Head(Underway(e)))
    /\ Underway(e)' = Tail(Underway(e))
    /\ Waiting(e)' = Waiting(e)
    /\ (damaged' = 0) = (damaged = 0)
    /\ Up' = Up

DropAt(e) ==
    /\ ~(damaged = 0)
    /\ Underway(e) # << >>
    /\ Underway(e)' = Tail(Underway(e))
    /\ Waiting(e)' = Waiting(e)
    /\ received'[Peer(e)] = received[Peer(e)]
    /\ (damaged' = 0) = (damaged = 0)
    /\ Up' = Up

DamageAt(e) ==
    /\ (damaged' = 0) = FALSE
    /\ Waiting(e)' = Waiting(e) /\ Underway(e)' = Underway(e)
    /\ received'[Peer(e)] = received[Peer(e)]
    /\ Up' = Up

EndAt(e) ==
    /\ Up' = FALSE
    /\ (damaged' = 0) = (damaged = 0)
    /\ received'[Peer(e)] = received[Peer(e)]
    /\ Waiting(e)' \in {Waiting(e), << >>}
    /\ \E n \in 0 .. Len(Underway(e)) :
         Underway(e)' = SubSeq(Underway(e), 1, n)

StutterAt(e) ==
    /\ Waiting(e)' = Waiting(e) /\ Underway(e)' = Underway(e)
    /\ received'[Peer(e)] = received[Peer(e)]
    /\ (damaged' = 0) = (damaged = 0)
    /\ Up' = Up

ChannelStep(e) ==
    \/ PutAt(e) \/ TakeAt(e) \/ DeliverAt(e) \/ DropAt(e) \/ DamageAt(e)
    \/ EndAt(e) \/ StutterAt(e)

(* Which end is whose peer. *)
LEMMA PeerOfA == Peer("a") = "b" /\ Peer("b") = "a"
  BY PeerIs DEF Ends

(* ChannelStep, in the terms of MessageChannel, from one end. *)
LEMMA StepFromA == ChannelStep("a") => [FromA!Next]_(FromA!vars)
<1> SUFFICES ASSUME ChannelStep("a") PROVE [FromA!Next]_(FromA!vars)
  OBVIOUS
<1>1. Peer("a") = "b"
  BY PeerOfA
<1>2. ASSUME PutAt("a") PROVE \E m \in SentFrom("a") : FromA!Put(m)
  BY <1>1, <1>2 DEF PutAt, FromA!Put, Waiting, Underway
<1>3. ASSUME TakeAt("a") PROVE FromA!Take
  BY <1>1, <1>3 DEF TakeAt, FromA!Take, FromA!IsNext, FromA!RemoveAt,
                    RemoveAt, Waiting, Underway
<1>4. ASSUME DeliverAt("a") PROVE FromA!Deliver
  BY <1>1, <1>4 DEF DeliverAt, FromA!Deliver, Waiting, Underway
<1>5. ASSUME DropAt("a") PROVE FromA!Drop
  BY <1>1, <1>5 DEF DropAt, FromA!Drop, Waiting, Underway
<1>6. ASSUME DamageAt("a") PROVE FromA!Damage
  BY <1>1, <1>6 DEF DamageAt, FromA!Damage, Waiting, Underway
<1>7. ASSUME EndAt("a") PROVE FromA!End
  BY <1>1, <1>7 DEF EndAt, FromA!End, Waiting, Underway
<1>8. ASSUME StutterAt("a") PROVE UNCHANGED FromA!vars
  BY <1>1, <1>8 DEF StutterAt, FromA!vars, Waiting, Underway
<1> QED
  BY <1>2, <1>3, <1>4, <1>5, <1>6, <1>7, <1>8 DEF ChannelStep, FromA!Next

(* The same from the other. *)
LEMMA StepFromB == ChannelStep("b") => [FromB!Next]_(FromB!vars)
<1> SUFFICES ASSUME ChannelStep("b") PROVE [FromB!Next]_(FromB!vars)
  OBVIOUS
<1>1. Peer("b") = "a"
  BY PeerOfA
<1>2. ASSUME PutAt("b") PROVE \E m \in SentFrom("b") : FromB!Put(m)
  BY <1>1, <1>2 DEF PutAt, FromB!Put, Waiting, Underway
<1>3. ASSUME TakeAt("b") PROVE FromB!Take
  BY <1>1, <1>3 DEF TakeAt, FromB!Take, FromB!IsNext, FromB!RemoveAt,
                    RemoveAt, Waiting, Underway
<1>4. ASSUME DeliverAt("b") PROVE FromB!Deliver
  BY <1>1, <1>4 DEF DeliverAt, FromB!Deliver, Waiting, Underway
<1>5. ASSUME DropAt("b") PROVE FromB!Drop
  BY <1>1, <1>5 DEF DropAt, FromB!Drop, Waiting, Underway
<1>6. ASSUME DamageAt("b") PROVE FromB!Damage
  BY <1>1, <1>6 DEF DamageAt, FromB!Damage, Waiting, Underway
<1>7. ASSUME EndAt("b") PROVE FromB!End
  BY <1>1, <1>7 DEF EndAt, FromB!End, Waiting, Underway
<1>8. ASSUME StutterAt("b") PROVE UNCHANGED FromB!vars
  BY <1>1, <1>8 DEF StutterAt, FromB!vars, Waiting, Underway
<1> QED
  BY <1>2, <1>3, <1>4, <1>5, <1>6, <1>7, <1>8 DEF ChannelStep, FromB!Next

Queues == \A e \in Ends : Numbered(sendQueue[e], sentMessageCount[e])

(* Whether the connection is up depends on which ends are closed. *)
LEMMA UpIs ==
    /\ (\A e \in Ends : (conn'[e] = "closed") = (conn[e] = "closed"))
       => Up' = Up
    /\ \A e \in Ends : conn'[e] = "closed" => Up' = FALSE
  BY DEF Up, Ends

(* What a step does not touch. *)
LEMMA Kept ==
    ASSUME NEW e \in Ends, sendQueue'[e] = sendQueue[e],
           received'[Peer(e)] = received[Peer(e)], damaged' = damaged
    PROVE  /\ Waiting(e)' = Waiting(e)
           /\ Unread(e)' = Unread(e) => Underway(e)' = Underway(e)
           /\ /\ Underway(e)' = Underway(e)
              /\ \A o \in Ends : (conn'[o] = "closed") = (conn[o] = "closed")
              => StutterAt(e)
  BY UpIs DEF Waiting, Underway, StutterAt

(* Sending a message puts it last among those that wait. *)
LEMMA PutStep ==
    ASSUME TypeInv, Queues, NEW m \in Messages, SendMessage(m), NEW e \in Ends
    PROVE  ChannelStep(e) /\ Numbered(sendQueue[e], sentMessageCount[e])'
<1> DEFINE a == Sender[m]
           Q == sendQueue[a]
           c == sentMessageCount[a]
<1>1. a \in Ends
  BY StreamAssumption
<1>2. /\ sendQueue' = [sendQueue EXCEPT ![a] =
                         Q \cup {[message |-> m, messageCount |-> c]}]
      /\ sentMessageCount' = [sentMessageCount EXCEPT ![a] = c + 1]
      /\ conn' = conn /\ damaged' = damaged /\ received' = received
  BY DEF SendMessage, Counted, input
<1>3. Unread(e)' = Unread(e)
  BY SendKeeps DEF Same
<1>4. /\ sendQueue \in [Ends -> SUBSET QueueEntry]
      /\ sentMessageCount \in [Ends -> Nat]
  BY DEF TypeInv, QueueEntry
<1>5. CASE e = a
  <2>1. /\ sendQueue'[e] = Q \cup {[message |-> m, messageCount |-> c]}
        /\ sentMessageCount'[e] = c + 1
    BY <1>1, <1>2, <1>4, <1>5
  <2>2. Numbered(Q, c)
    BY <1>1 DEF Queues
  <2> HIDE DEF Q, c
  <2>3. /\ Numbered(sendQueue'[e], sentMessageCount'[e])
        /\ AsSent(sendQueue'[e]) = Append(AsSent(Q), m)
    BY <2>1, <2>2, AsSentPut
  <2>4. m \in SentFrom(e)
    BY <1>5 DEF SentFrom
  <2>5. Waiting(e)' = Append(Waiting(e), m)
    BY <1>5, <2>3 DEF Waiting, Q
  <2>6. Underway(e)' = Underway(e)
    BY <1>3 DEF Underway
  <2>7. Up' = Up
    BY <1>2, UpIs
  <2>8. PutAt(e)
    BY <1>2, <2>4, <2>5, <2>6, <2>7 DEF PutAt
  <2> QED
    BY <2>3, <2>8 DEF ChannelStep
<1>6. CASE e # a
  <2>1. /\ sendQueue'[e] = sendQueue[e]
        /\ sentMessageCount'[e] = sentMessageCount[e]
    BY <1>2, <1>4, <1>6
  <2>2. StutterAt(e)
    BY <1>2, <1>3, <2>1, Kept
  <2> QED
    BY <2>1, <2>2 DEF ChannelStep, Queues
<1> QED
  BY <1>5, <1>6

(* The message taken from the queue is the channel's next, and goes under  *)
(* way behind all others.                                                  *)
LEMMA TakeStep ==
    ASSUME TypeInv, TypeInv', Queues, NEW a \in Ends, GetNextMessageToSend(a),
           NEW e \in Ends
    PROVE  ChannelStep(e) /\ Numbered(sendQueue[e], sentMessageCount[e])'
<1> DEFINE Q == sendQueue[a]
           c == sentMessageCount[a]
<1>1. PICK top \in Q :
        /\ \A other \in Q \ {top} : Below(other, top)
        /\ sendQueue' = [sendQueue EXCEPT ![a] = Q \ {top}]
        /\ dataToSend' = [dataToSend EXCEPT ![a] = Frame(top.message)]
  BY DEF GetNextMessageToSend
<1>2. /\ sentMessageCount' = sentMessageCount
      /\ conn' = conn /\ damaged' = damaged /\ received' = received
      /\ UNCHANGED <<wire, input>> /\ dataToSend[a] = << >>
  BY DEF GetNextMessageToSend, input
<1>3. sendQueue \in [Ends -> SUBSET QueueEntry]
  BY DEF TypeInv, QueueEntry
<1> DEFINE m == top.message
<1>4. m \in Messages /\ m \in Frames /\ m # ErrorPacket
  BY <1>3, StreamAssumption DEF QueueEntry, Frames
<1>5. Unread(a)' = Unread(a) \o Frame(m) /\ Same(Peer(a))
  BY <1>1, <1>2, <1>4, FrameAppended
<1>6. CASE e = a
  <2>1. sendQueue'[e] = Q \ {top}
    BY <1>1, <1>3, <1>6
  <2>2. Numbered(Q, c)
    BY DEF Queues
  <2> HIDE DEF c
  <2> DEFINE w == AsSent(Q)
  <2>3. /\ Numbered(Q \ {top}, c)
        /\ \E i \in DOMAIN w :
             /\ w[i] = top.message
             /\ AsSent(Q \ {top}) = RemoveAt(w, i)
             /\ \A j \in DOMAIN w \ {i} :
                 \/ Priority[w[j]] < Priority[w[i]]
                 \/ Priority[w[j]] = Priority[w[i]] /\ i < j
    <3> DEFINE q == Q
    <3>1. /\ Numbered(q, c) /\ top \in q
          /\ \A other \in q \ {top} : Below(other, top)
      BY <1>1, <2>2
    <3> HIDE DEF q
    <3>2. /\ Numbered(q \ {top}, c)
          /\ \E i \in DOMAIN AsSent(q) :
               /\ AsSent(q)[i] = top.message
               /\ AsSent(q \ {top}) = RemoveAt(AsSent(q), i)
               /\ \A j \in DOMAIN AsSent(q) \ {i} :
                   \/ Priority[AsSent(q)[j]] < Priority[AsSent(q)[i]]
                   \/ /\ Priority[AsSent(q)[j]] = Priority[AsSent(q)[i]]
                      /\ i < j
      BY <3>1, AsSentTake
    <3> QED
      BY <3>2 DEF q
  <2>4. Underway(e)' = Append(Underway(e), m)
    <3> DEFINE u == Unread(a)
               t == Frame(m)
    <3>1. u \in Seq(Byte) /\ t \in Seq(Byte)
      BY <1>4, StreamIsParts, FrameBytes
    <3>2. EndedBy(t) = <<m>>
      BY <1>4, EndedByNext
    <3> HIDE DEF u, t
    <3>3. EndedBy(u \o t) = EndedBy(u) \o EndedBy(t)
      BY <3>1, EndedByBoth
    <3>4. EndedBy(u) \in Seq(Messages)
      BY <3>1, EndedByType
    <3> HIDE DEF m
    <3>5. EndedBy(u) \o <<m>> = Append(EndedBy(u), m)
      BY <1>4, <3>4, AppendIsConcat
    <3> QED
      BY <1>5, <1>6, <3>2, <3>3, <3>5 DEF Underway, u, t, m
  <2>5. Up' = Up
    BY <1>2, UpIs
  <2>6. TakeAt(e)
    <3>1. w = Waiting(e) /\ Waiting(e)' = AsSent(Q \ {top})
      BY <1>6, <2>1 DEF Waiting
    <3> HIDE DEF w, Q
    <3> QED
      BY <1>2, <2>3, <2>4, <2>5, <3>1 DEF TakeAt
  <2>7. Numbered(sendQueue[e], sentMessageCount[e])'
    BY <1>2, <1>6, <2>1, <2>3 DEF c
  <2> QED
    BY <2>6, <2>7 DEF ChannelStep
<1>7. CASE e # a
  <2>1. sendQueue'[e] = sendQueue[e]
    BY <1>1, <1>3, <1>7
  <2>2. Unread(e)' = Unread(e)
    BY <1>5, <1>7, PeerIs DEF Same
  <2>3. StutterAt(e)
    BY <1>2, <2>1, <2>2, Kept
  <2> QED
    BY <1>2, <2>1, <2>3 DEF ChannelStep, Queues
<1> QED
  BY <1>6, <1>7

(* Writing is no step of the channel. *)
LEMMA WriteStep ==
    ASSUME TypeInv, Queues, NEW a \in Ends, Write(a), NEW e \in Ends
    PROVE  ChannelStep(e)
<1>1. /\ sendQueue' = sendQueue /\ conn' = conn /\ damaged' = damaged
      /\ received' = received
  BY DEF Write, input
<1>2. Unread(e)' = Unread(e)
  BY WriteKeeps DEF Same
<1> QED
  BY <1>1, <1>2, Kept DEF ChannelStep

(* When an end is closed, what waits there and what it has not written is  *)
(* lost; what it was sent is not affected.                                 *)
LEMMA ClosedStep ==
    ASSUME TypeInv, TypeInv', Queues, NEW a \in Ends, ClosedEnd(a),
           NEW e \in Ends
    PROVE  ChannelStep(e) /\ Numbered(sendQueue[e], sentMessageCount[e])'
<1>1. /\ sendQueue' = [sendQueue EXCEPT ![a] = {}]
      /\ sentMessageCount' = sentMessageCount
      /\ damaged' = damaged /\ received' = received /\ conn'[a] = "closed"
  BY ClosedCuts DEF ClosedEnd, input
<1>2. Up' = FALSE
  BY <1>1, UpIs
<1>3. /\ sendQueue \in [Ends -> SUBSET QueueEntry]
      /\ sentMessageCount \in [Ends -> Nat]
  BY DEF TypeInv, QueueEntry
<1>4. CASE e = a
  <2>1. sendQueue'[e] = {}
    BY <1>1, <1>3, <1>4
  <2>2. Waiting(e)' = << >> /\ Numbered(sendQueue[e], sentMessageCount[e])'
    BY <1>1, <1>3, <2>1, AsSentNone DEF Waiting
  <2> DEFINE w == wire[a]
             d == dataToSend[a]
             p == EndedBy(w)
             q == EndedBy(d)
  <2>3. w \in Seq(Byte) /\ d \in Seq(Byte)
    BY DEF TypeInv
  <2>4. Underway(e) = EndedBy(w \o d) /\ Underway(e)' = p
    BY <1>4, ClosedCuts DEF Underway
  <2> HIDE DEF w, d
  <2>5. p \in Seq(Messages) /\ q \in Seq(Messages) /\ EndedBy(w \o d) = p \o q
    BY <2>3, EndedByType, EndedByBoth
  <2> HIDE DEF p, q
  <2>6. SubSeq(p \o q, 1, Len(p)) = p
    BY <2>5, PartsOfConcat
  <2>7. Len(p) \in 0 .. Len(p \o q)
    <3>1. Len(p \o q) = Len(p) + Len(q) /\ Len(p) \in Nat /\ Len(q) \in Nat
      BY <2>5, ConcatProperties, LenProperties
    <3> QED
      BY <3>1
  <2>8. \E n \in 0 .. Len(Underway(e)) :
          Underway(e)' = SubSeq(Underway(e), 1, n)
    BY <2>4, <2>5, <2>6, <2>7
  <2>9. EndAt(e)
    BY <1>1, <1>2, <2>2, <2>8 DEF EndAt
  <2> QED
    BY <2>2, <2>9 DEF ChannelStep
<1>5. CASE e # a
  <2>1. sendQueue'[e] = sendQueue[e]
    BY <1>1, <1>3, <1>5
  <2>2. Unread(e)' = Unread(e)
    BY <1>5, ClosedCuts, PeerIs DEF Same
  <2>3. Waiting(e)' = Waiting(e) /\ Underway(e)' = Underway(e)
    BY <1>1, <2>1, <2>2, Kept
  <2>4. \E n \in 0 .. Len(Underway(e)) :
          Underway(e)' = SubSeq(Underway(e), 1, n)
    <3> DEFINE u == Underway(e)
    <3>1. u \in Seq(Messages) /\ Len(u) \in Nat
      BY StreamIsParts, EndedByType DEF Underway
    <3>2. Len(u) \in 0 .. Len(u)
      BY <3>1
    <3> HIDE DEF u
    <3>3. SubSeq(u, 1, Len(u)) = u
      BY <3>1, SubSeqFull
    <3>4. Underway(e)' = u
      BY <2>3 DEF u
    <3>5. \E n \in 0 .. Len(u) : Underway(e)' = SubSeq(u, 1, n)
      BY <3>2, <3>3, <3>4
    <3> QED
      BY <3>5 DEF u
  <2>5. EndAt(e)
    BY <1>1, <1>2, <2>3, <2>4 DEF EndAt
  <2> QED
    BY <1>1, <2>1, <2>5 DEF ChannelStep, Queues
<1> QED
  BY <1>4, <1>5

(* Error packets are no messages. *)
LEMMA ReportStep ==
    ASSUME TypeInv, TypeInv', Queues, NEW a \in Ends, Report(a), NEW e \in Ends
    PROVE  ChannelStep(e) /\ Numbered(sendQueue[e], sentMessageCount[e])'
<1>1. CASE /\ conn[a] = "flushing"
           /\ dataToSend' = [dataToSend EXCEPT ![a] = Frame(ErrorPacket)]
           /\ conn' = [conn EXCEPT ![a] = "reporting"]
           /\ UNCHANGED <<unsent, sendQueue, sentMessageCount, wire, input,
                          damaged>>
  <2>1. \A o \in Ends : (conn'[o] = "closed") = (conn[o] = "closed")
    BY <1>1 DEF TypeInv
  <2>2. /\ UNCHANGED <<sendQueue, sentMessageCount, wire, input, damaged>>
        /\ received' = received /\ dataToSend[a] = << >>
        /\ ErrorPacket \in Frames
    BY <1>1 DEF Report, input, Frames
  <2>3. Unread(a)' = Unread(a) \o Frame(ErrorPacket) /\ Same(Peer(a))
    BY <1>1, <2>2, FrameAppended
  <2>4. Underway(e)' = Underway(e)
    <3>1. CASE e = a
      <4> DEFINE u == Unread(a)
                 t == Frame(ErrorPacket)
      <4>1. u \in Seq(Byte) /\ t \in Seq(Byte)
        BY <2>2, StreamIsParts, FrameBytes
      <4>2. EndedBy(t) = << >>
        BY <2>2, EndedByNext
      <4> HIDE DEF u, t
      <4>3. EndedBy(u \o t) = EndedBy(u) \o EndedBy(t)
        BY <4>1, EndedByBoth
      <4>4. EndedBy(u) \in Seq(Messages)
        BY <4>1, EndedByType
      <4>5. EndedBy(u) \o << >> = EndedBy(u)
        BY <4>4, ConcatEmptySeq
      <4> QED
        BY <2>3, <3>1, <4>2, <4>3, <4>5 DEF Underway, u, t
    <3>2. CASE e # a
      BY <2>3, <3>2, PeerIs DEF Same, Underway
    <3> QED
      BY <3>1, <3>2
  <2>5. StutterAt(e)
    BY <2>1, <2>2, <2>4, Kept
  <2> QED
    BY <2>2, <2>5 DEF ChannelStep, Queues
<1> QED
  BY <1>1, ClosedStep DEF Report, Returned

(* Damage is the channel's. *)
LEMMA DamageStep ==
    ASSUME TypeInv, TypeInv', Queues, NEW a \in Ends, Damage(a), NEW e \in Ends
    PROVE  ChannelStep(e)
<1>1. /\ sendQueue' = sendQueue /\ conn' = conn /\ received' = received
      /\ dataToSend' = dataToSend /\ damaged' # 0
  BY DEF Damage, output, input, TypeInv
<1> DEFINE w == wire[e]
           w1 == wire'[e]
           d == dataToSend[e]
<1>2. w \in Seq(Byte) /\ w1 \in Seq(Byte) /\ d \in Seq(Byte)
  BY DEF TypeInv
<1>3. Alike(w, w1) /\ Alike(d, d)
  <2>1. CASE e = a
    BY <2>1, TypeDamage DEF Alike
  <2>2. CASE e # a
    <3>1. w1 = w
      BY <2>2, TypeDamage
    <3> QED
      BY <3>1 DEF Alike
  <2> QED
    BY <2>1, <2>2
<1>4. Underway(e) = EndedBy(w \o d) /\ Underway(e)' = EndedBy(w1 \o d)
  BY <1>1 DEF Underway, Unread
<1> HIDE DEF w, w1, d
<1>5. EndedBy(w \o d) = EndedBy(w1 \o d)
  <2>1. w \o d \in Seq(Byte) /\ w1 \o d \in Seq(Byte) /\ Alike(w \o d, w1 \o d)
    BY <1>2, <1>3, AlikeConcat, ConcatProperties
  <2> QED
    BY <2>1, EndedByAlike
<1>6. Up' = Up
  BY <1>1, UpIs
<1>7. DamageAt(e)
  BY <1>1, <1>4, <1>5, <1>6 DEF DamageAt, Waiting
<1> QED
  BY <1>7 DEF ChannelStep

(* Reading moves bytes from what is unread to what has been begun. *)
LEMMA BytesRead ==
    ASSUME TypeInv, TypeInv', NEW e \in Ends, Aligned(e),
           NEW moved \in Seq(Byte), Unread(e) = moved \o Unread(e)'
    PROVE  /\ Begun(e) \in Seq(Byte) /\ Begun(e) \o moved \in Seq(Byte)
           /\ Len(Begun(e) \o moved) = Len(Begun(e)) + Len(moved)
           /\ Chained(Begun(e)) /\ Chained(Begun(e) \o moved)
           /\ EndedBy(Begun(e) \o moved) = EndedBy(Begun(e)) \o EndedBy(moved)
           /\ Underway(e) = EndedBy(moved) \o Underway(e)'
           /\ EndedBy(moved) \in Seq(Messages)
           /\ Underway(e)' \in Seq(Messages)
<1> DEFINE b == Begun(e)
           v == Unread(e)'
           s == b \o moved
<1>1. b \in Seq(Byte) /\ v \in Seq(Byte)
  BY StreamIsParts, StreamIsPartsNext
<1>2. Stream(e) = b \o (moved \o v)
  BY StreamIsParts
<1>3. Underway(e) = EndedBy(moved \o v) /\ Underway(e)' = EndedBy(v)
  BY DEF Underway
<1> HIDE DEF b, v
<1>4. (b \o moved) \o v = b \o (moved \o v)
  BY ONLY <1>1, moved \in Seq(Byte), ConcatAssociative
<1>5. s \in Seq(Byte) /\ Len(s) = Len(b) + Len(moved)
  BY <1>1, ConcatProperties
<1>6. Chained(s \o v)
  BY <1>2, <1>4 DEF Aligned
<1>7. Chained(s)
  <2> HIDE DEF s
  <2> QED
    BY <1>1, <1>5, <1>6, ChainedParts
<1>8. Chained(b)
  BY <1>1, <1>7, ChainedParts
<1>9. EndedBy(s) = EndedBy(b) \o EndedBy(moved)
  BY <1>1, EndedByBoth
<1>10. EndedBy(moved \o v) = EndedBy(moved) \o EndedBy(v)
  BY <1>1, EndedByBoth
<1>11. EndedBy(moved) \in Seq(Messages) /\ EndedBy(v) \in Seq(Messages)
  BY <1>1, EndedByType
<1> QED
  BY <1>1, <1>3, <1>5, <1>7, <1>8, <1>9, <1>10, <1>11 DEF b, s

(* A header ends no message, be it valid or not. *)
LEMMA HeaderStep ==
    ASSUME TypeInv, TypeInv', Queues, \A o \in Ends : Aligned(o),
           NEW a \in Ends, ReadHeader(a), NEW e \in Ends
    PROVE  ChannelStep(e)
<1>1. /\ sendQueue' = sendQueue /\ received' = received /\ damaged' = damaged
  BY DEF ReadHeader, output
<1>2. \A o \in Ends : (conn'[o] = "closed") = (conn[o] = "closed")
  BY ReadHeaderMoves, PeerIs
<1>3. CASE e = a
  BY <1>1, <1>2, <1>3, ReadHeaderMoves, Kept DEF Same, ChannelStep
<1>4. CASE e = Peer(a)
  <2> DEFINE b == Begun(e)
  <2>1. PICK moved \in Seq(Byte) :
          /\ Unread(e) = moved \o Unread(e)'
          /\ Len(b \o moved) <= HeaderSize
    BY <1>4, ReadHeaderMoves
  <2> DEFINE s == b \o moved
  <2>2. /\ b \in Seq(Byte) /\ s \in Seq(Byte)
        /\ Len(s) = Len(b) + Len(moved)
        /\ Chained(b) /\ Chained(s)
        /\ EndedBy(s) = EndedBy(b) \o EndedBy(moved)
        /\ Underway(e) = EndedBy(moved) \o Underway(e)'
        /\ EndedBy(moved) \in Seq(Messages)
        /\ Underway(e)' \in Seq(Messages)
    BY <2>1, BytesRead
  <2>3. Len(s) <= HeaderSize
    BY <2>1
  <2> HIDE DEF s, b
  <2>4. EndedBy(s) = << >>
    <3>1. CASE s = << >>
      BY <2>2, <3>1, EmptySeq, EndedByNone
    <3>2. CASE s # << >>
      BY <2>2, <2>3, <3>2, EndedByPart
    <3> QED
      BY <3>1, <3>2
  <2>5. EndedBy(b) \in Seq(Messages)
    BY <2>2, EndedByType
  <2>6. EndedBy(moved) = << >>
    <3> DEFINE x == EndedBy(b)
               y == EndedBy(moved)
    <3>1. x \in Seq(Messages) /\ y \in Seq(Messages) /\ x \o y = << >>
      BY <2>2, <2>4, <2>5
    <3> HIDE DEF x, y
    <3>2. y = << >>
      BY <3>1, ConcatEqualIffEmpty
    <3> QED
      BY <3>2 DEF y
  <2>7. Underway(e) = << >> \o Underway(e)'
    BY <2>2, <2>6
  <2>8. Underway(e)' = Underway(e)
    BY <2>2, <2>7, ConcatEmptySeq
  <2> QED
    BY <1>1, <1>2, <2>8, Kept DEF ChannelStep
<1> QED
  BY <1>3, <1>4, PeerIs

(* Undamaged data has its checksum. *)
LEMMA GoodIsValid ==
    ASSUME NEW f \in Messages, NEW bytes \in Seq(Byte),
           Len(bytes) = DataSize(f),
           LET s == SubSeq(Frame(f), 1, HeaderSize) \o bytes
           IN  /\ \A k \in 1 .. FrameSize(f) : s[k].of = f /\ s[k].at = k
               /\ Good(s)
    PROVE  ValidData(bytes, f)
<1> DEFINE h == SubSeq(Frame(f), 1, HeaderSize)
           s == h \o bytes
           t == SubSeq(Frame(f), HeaderSize + 1, HeaderSize + DataSize(f))
<1>1. f \in Frames
  BY DEF Frames
<1>2. PICK m \in Nat, n \in Nat :
        m = HeaderSize /\ n = DataSize(f) /\ FrameSize(f) = m + n
  BY <1>1, FrameSizes
<1>3. h \in Seq(Byte) /\ Len(h) = m
  BY <1>1, <1>2, HeaderBytes
<1>4. (\A k \in 1 .. m + n : s[k].of = f /\ s[k].at = k) /\ Good(s)
  BY <1>2
<1>5. /\ s \in Seq(Byte) /\ Len(s) = m + n
      /\ \A i \in 1 .. m + n : s[i] = IF i <= m THEN h[i] ELSE bytes[i - m]
  <2> HIDE DEF h
  <2>1. /\ s \in Seq(Byte) /\ Len(s) = Len(h) + Len(bytes)
        /\ \A i \in 1 .. Len(h) + Len(bytes) :
              s[i] = IF i <= Len(h) THEN h[i] ELSE bytes[i - Len(h)]
    BY <1>3, ConcatProperties
  <2> QED
    BY <1>2, <1>3, <2>1
<1> HIDE DEF s
<1>6. ASSUME NEW i \in 1 .. n
      PROVE  bytes[i] = [of |-> f, at |-> m + i, good |-> TRUE]
  <2>1. m + i \in 1 .. m + n /\ ~(m + i <= m) /\ (m + i) - m = i
    OBVIOUS
  <2>2. bytes[i] = s[m + i]
    BY <1>5, <2>1
  <2>3. bytes[i].of = f /\ bytes[i].at = m + i /\ bytes[i].good
    BY <1>4, <1>5, <2>1, <2>2 DEF Good
  <2>4. bytes[i] \in [of : Frames, at : Nat, good : BOOLEAN]
    <3>1. i \in 1 .. Len(bytes)
      BY <1>2
    <3> QED
      BY <3>1, ElementOfSeq DEF Byte
  <2>5. bytes[i].good = TRUE
    BY <2>3, <2>4
  <2> QED
    BY <2>3, <2>4, <2>5
<1>7. /\ \A i \in 1 .. m + n :
            Frame(f)[i] = [of |-> f, at |-> i, good |-> TRUE]
      /\ \A i \in 1 .. m + n : Frame(f)[i] \in Byte
  <2>1. /\ Frame(f) \in Seq(Byte)
        /\ Len(Frame(f)) = FrameSize(f)
        /\ \A i \in 1 .. FrameSize(f) :
                Frame(f)[i] = [of |-> f, at |-> i, good |-> TRUE]
    BY <1>1, FrameBytes
  <2> QED
    BY <1>2, <2>1, ElementOfSeq
<1>8. /\ t \in Seq(Byte) /\ Len(t) = n
      /\ \A i \in 1 .. n : t[i] = Frame(f)[m + i]
  <2> DEFINE a == m + 1
             b == m + n
             u == Frame(f)
  <2>1. a \in Int /\ b \in Int /\ \A i \in a .. b : u[i] \in Byte
    BY <1>7
  <2>2. t = SubSeq(u, a, b)
    BY <1>2
  <2> HIDE DEF a, b, u, t
  <2>3. /\ SubSeq(u, a, b) \in Seq(Byte)
        /\ Len(SubSeq(u, a, b)) = IF a <= b THEN b - a + 1 ELSE 0
        /\ \A i \in 1 .. b - a + 1 : SubSeq(u, a, b)[i] = u[a + i - 1]
    BY <2>1, SubSeqProperties
  <2>4. /\ t \in Seq(Byte)
        /\ Len(t) = IF a <= b THEN b - a + 1 ELSE 0
        /\ \A i \in 1 .. b - a + 1 : t[i] = u[a + i - 1]
    BY <2>2, <2>3
  <2>5. b - a + 1 = n /\ (a <= b <=> n >= 1)
        /\ \A i \in 1 .. n : a + i - 1 = m + i
    BY DEF a, b
  <2>6. Len(t) = n
    BY <2>4, <2>5
  <2>7. \A i \in 1 .. n : t[i] = u[m + i]
    BY <2>4, <2>5
  <2> QED
    BY <2>4, <2>6, <2>7 DEF u
<1> HIDE DEF t
<1>9. \A i \in 1 .. n : bytes[i] = t[i]
  <2>1. \A i \in 1 .. n : m + i \in 1 .. m + n
    OBVIOUS
  <2> QED
    BY <1>6, <1>7, <1>8, <2>1
<1>10. bytes = t
  BY <1>2, <1>8, <1>9, SeqEqual
<1> QED
  BY <1>10 DEF ValidData, t

(* The first of a sequence, and the rest. *)
LEMMA HeadOf ==
    ASSUME NEW f \in Messages, NEW s \in Seq(Messages)
    PROVE  LET u == <<f>> \o s
           IN  u # << >> /\ Head(u) = f /\ Tail(u) = s
<1> DEFINE one == <<f>>
           u == one \o s
<1>1. one \in Seq(Messages) /\ Len(one) = 1 /\ one[1] = f
  OBVIOUS
<1> HIDE DEF one
<1>2. PICK n \in Nat : n = Len(s)
  BY LenProperties
<1>3. /\ u \in Seq(Messages) /\ Len(u) = 1 + n
      /\ \A i \in 1 .. 1 + n : u[i] = IF i <= 1 THEN one[i] ELSE s[i - 1]
  <2>1. /\ u \in Seq(Messages) /\ Len(u) = Len(one) + Len(s)
        /\ \A i \in 1 .. Len(one) + Len(s) :
              u[i] = IF i <= Len(one) THEN one[i] ELSE s[i - Len(one)]
    BY <1>1, ConcatProperties
  <2> QED
    BY <1>1, <1>2, <2>1
<1>4. SubSeq(u, Len(one) + 1, Len(u)) = s
  BY <1>1, PartsOfConcat
<1>5. u # << >>
  <2> HIDE DEF u
  <2> QED
    BY <1>3, EmptySeq
<1> HIDE DEF u
<1>6. Tail(u) = SubSeq(u, 2, Len(u))
  BY <1>3, <1>5, TailIsSubSeq
<1>7. Head(u) = u[1]
  BY <1>3, <1>5
<1> QED
  BY <1>1, <1>3, <1>4, <1>5, <1>6, <1>7 DEF u, one

(* Reading data delivers the oldest message under way, or drops it when it *)
(* has been damaged, or changes nothing yet.                               *)
LEMMA DataStep ==
    ASSUME TypeInv, TypeInv', Queues, \A o \in Ends : Aligned(o),
           NEW a \in Ends, ReadData(a), NEW e \in Ends
    PROVE  ChannelStep(e)
<1> DEFINE f == messageHeader[a]
           h == SubSeq(Frame(f), 1, HeaderSize)
<1>1. /\ sendQueue' = sendQueue /\ damaged' = damaged /\ conn' = conn
      /\ Same(a) /\ f \in Messages /\ f \in Frames /\ f # ErrorPacket
  BY ReadDataMoves, StreamAssumption DEF ReadData, output, Frames
<1>2. Up' = Up
  BY <1>1, UpIs
<1>3. CASE e = a
  <2>1. received'[Peer(a)] = received[Peer(a)]
    BY PeerIs, SMTT(40) DEF ReadData, ProcessData, TypeInv
  <2> QED
    BY <1>1, <1>3, <2>1, Kept DEF Same, ChannelStep
<1>4. CASE e = Peer(a)
  <2> DEFINE b == Begun(e)
  <2>1. PICK moved \in Seq(Byte), bytes \in Seq(Byte) :
          /\ Unread(e) = moved \o Unread(e)'
          /\ moved # << >>
          /\ b \o moved = h \o bytes
          /\ \/ /\ Len(bytes) < DataSize(f)
                /\ Begun(e)' = b \o moved
                /\ UNCHANGED received
             \/ /\ Len(bytes) = DataSize(f)
                /\ Begun(e)' = << >>
                /\ ProcessData(a, bytes)
    BY <1>4, ReadDataMoves
  <2>2. b # << >> /\ b[1].of = f
    BY <1>4, ReadDataMoves
  <2> DEFINE s == b \o moved
             u == Underway(e)'
             x == EndedBy(b)
             y == EndedBy(moved)
  <2>3. /\ b \in Seq(Byte) /\ s \in Seq(Byte)
        /\ Len(s) = Len(b) + Len(moved)
        /\ Chained(b) /\ Chained(s)
        /\ EndedBy(s) = x \o y
        /\ Underway(e) = y \o u
        /\ y \in Seq(Messages) /\ u \in Seq(Messages)
    BY <2>1, BytesRead
  <2>4. h \in Seq(Byte) /\ Len(h) = HeaderSize
    BY <1>1, HeaderBytes
  <2>5. Len(s) = HeaderSize + Len(bytes)
    <3>1. s = h \o bytes
      BY <2>1
    <3> HIDE DEF h, s
    <3> QED
      BY <2>4, <3>1, ConcatProperties
  <2>6. PICK m \in Nat, n \in Nat, l \in Nat, k \in Nat, z \in Nat :
          /\ m = HeaderSize /\ n = DataSize(f) /\ FrameSize(f) = m + n
          /\ l = Len(bytes) /\ k = Len(moved) /\ z = Len(b)
          /\ k > 0
    <3>1. Len(moved) \in Nat /\ Len(moved) > 0
      BY <2>1, EmptySeq, LenProperties
    <3> QED
      BY <1>1, <2>3, <3>1, FrameSizes, LenProperties
  <2>7. Len(bytes) <= DataSize(f)
    BY <2>1, <2>6
  <2>8. Len(b) < FrameSize(f)
    <3>1. z + k = m + l /\ l <= n
      BY <2>3, <2>5, <2>6, <2>7
    <3> QED
      BY <2>6, <3>1
  <2>9. x = << >>
    <3> HIDE DEF b, f
    <3> QED
      BY <2>2, <2>3, <2>8, EndedByPart DEF x
  <2>10. EndedBy(s) = y
    <3> HIDE DEF x, y
    <3> QED
      BY <2>3, <2>9, ConcatEmptySeq
  <2>11. CASE /\ Len(bytes) < DataSize(f)
              /\ UNCHANGED received
    <3>1. s # << >> /\ s[1] = b[1]
      <4> HIDE DEF b
      <4>1. /\ Len(s) = Len(b) + Len(moved) /\ Len(b) \in Nat
            /\ Len(moved) \in Nat /\ Len(b) > 0
            /\ \A i \in 1 .. Len(b) + Len(moved) :
                 s[i] = IF i <= Len(b) THEN b[i] ELSE moved[i - Len(b)]
        BY <2>2, <2>3, ConcatProperties, LenProperties, EmptySeq
      <4> HIDE DEF s
      <4>2. Len(s) > 0 /\ s[1] = b[1]
        BY <4>1
      <4> QED
        BY <2>3, <4>2, EmptySeq
    <3>2. Len(s) < FrameSize(f)
      BY <2>5, <2>6, <2>11
    <3>3. EndedBy(s) = << >>
      <4> HIDE DEF s, b, f
      <4> QED
        BY <2>2, <2>3, <3>1, <3>2, EndedByPart
    <3>4. Underway(e) = << >> \o u
      BY <2>3, <2>10, <3>3
    <3>5. Underway(e)' = Underway(e)
      <4> HIDE DEF u
      <4>1. Underway(e) = u
        BY <2>3, <3>4, ConcatEmptySeq
      <4> QED
        BY <4>1 DEF u
    <3> QED
      BY <1>1, <2>11, <3>5, Kept DEF ChannelStep
  <2>12. CASE /\ Len(bytes) = DataSize(f)
              /\ Begun(e)' = << >>
              /\ ProcessData(a, bytes)
    <3>1. /\ \A i \in 1 .. FrameSize(f) : s[i].of = f /\ s[i].at = i
          /\ Len(s) = FrameSize(f)
          /\ damaged = 0 => Good(s)
      <4>1. Aligned(e) /\ conn'[e] = conn[e]
        BY <1>1
      <4>2. Begun(e) \o moved = SubSeq(Frame(f), 1, HeaderSize) \o bytes
        BY <2>1
      <4> HIDE DEF f
      <4> QED
        BY <1>1, <2>1, <2>12, <4>1, <4>2, AlignedDone
    <3>2. EndedBy(s) = <<f>>
      <4> HIDE DEF s, f
      <4> QED
        BY <1>1, <2>3, <3>1, EndedByFrame
    <3>3. Underway(e) = <<f>> \o u
      BY <2>3, <2>10, <3>2
    <3>4. /\ Underway(e) # << >> /\ Head(Underway(e)) = f
          /\ Tail(Underway(e)) = Underway(e)'
      <4> HIDE DEF f, u
      <4>1. /\ <<f>> \o u # << >> /\ Head(<<f>> \o u) = f
            /\ Tail(<<f>> \o u) = u
        BY <1>1, <2>3, HeadOf
      <4> QED
        BY <3>3, <4>1 DEF u
    <3>5. Waiting(e)' = Waiting(e)
      BY <1>1 DEF Waiting
    <3>6. Peer(e) = a
      BY <1>4, PeerIs
    <3>7. CASE ValidData(bytes, f)
      <4>1. received'[a] = Append(received[a], f)
        BY <2>12, <3>7 DEF ProcessData, TypeInv
      <4>2. DeliverAt(e)
        BY <1>1, <1>2, <3>4, <3>5, <3>6, <4>1 DEF DeliverAt
      <4> QED
        BY <4>2 DEF ChannelStep
    <3>8. CASE ~ValidData(bytes, f)
      <4>1. received' = received
        BY <2>12, <3>8 DEF ProcessData
      <4>2. damaged # 0
        <5>1. SUFFICES ASSUME damaged = 0 PROVE FALSE
          OBVIOUS
        <5>2. s = h \o bytes /\ Good(s)
          BY <2>1, <3>1, <5>1
        <5>3. /\ \A i \in 1 .. FrameSize(f) :
                    (h \o bytes)[i].of = f /\ (h \o bytes)[i].at = i
              /\ Good(h \o bytes)
          <6> HIDE DEF s, h
          <6> QED
            BY <3>1, <5>2
        <5>4. ValidData(bytes, f)
          <6> HIDE DEF f
          <6> QED
            BY <1>1, <2>12, <5>3, GoodIsValid DEF h
        <5> QED
          BY <3>8, <5>4
      <4>3. DropAt(e)
        BY <1>1, <1>2, <3>4, <3>5, <4>1, <4>2 DEF DropAt
      <4> QED
        BY <4>3 DEF ChannelStep
    <3> QED
      BY <3>7, <3>8
  <2> QED
    BY <2>1, <2>11, <2>12
<1> QED
  BY <1>3, <1>4, PeerIs

ConnectionInv == StreamInv /\ Queues

(* Every step of the connection is a step of the channel in each direction,*)
(* or none.                                                                *)
LEMMA StepOfChannel ==
    ASSUME ConnectionInv, TypeInv', [Next]_vars, NEW e \in Ends
    PROVE  ChannelStep(e) /\ Numbered(sendQueue[e], sentMessageCount[e])'
<1>1. TypeInv /\ Queues /\ \A o \in Ends : Aligned(o)
  BY DEF ConnectionInv, StreamInv
<1>2. CASE UNCHANGED vars
  <2>1. /\ sendQueue' = sendQueue /\ conn' = conn /\ damaged' = damaged
        /\ received' = received /\ sentMessageCount' = sentMessageCount
        /\ wire' = wire /\ dataToSend' = dataToSend
    BY <1>2 DEF vars, output, input
  <2>2. Unread(e)' = Unread(e)
    BY <2>1 DEF Unread
  <2> QED
    BY <1>1, <2>1, <2>2, Kept DEF ChannelStep, Queues
<1>3. ASSUME NEW a \in Ends, UNCHANGED <<sendQueue, sentMessageCount>>
      PROVE  Numbered(sendQueue[e], sentMessageCount[e])'
  BY <1>1, <1>3 DEF Queues
<1>4. ASSUME NEW a \in Ends, HandleInput(a)
      PROVE  ChannelStep(e) /\ UNCHANGED <<sendQueue, sentMessageCount>>
  <2>1. UNCHANGED <<sendQueue, sentMessageCount>>
    BY <1>4 DEF HandleInput, ReadHeader, ReadData, output
  <2> QED
    BY <1>1, <1>4, <2>1, HeaderStep, DataStep DEF HandleInput
<1>5. ASSUME NEW a \in Ends, Write(a)
      PROVE  ChannelStep(e) /\ UNCHANGED <<sendQueue, sentMessageCount>>
  BY <1>1, <1>5, WriteStep DEF Write
<1>6. ASSUME NEW a \in Ends, Damage(a)
      PROVE  ChannelStep(e) /\ UNCHANGED <<sendQueue, sentMessageCount>>
  BY <1>1, <1>6, DamageStep DEF Damage, output
<1>7. ASSUME NEW m \in Messages, SendMessage(m)
      PROVE  ChannelStep(e) /\ Numbered(sendQueue[e], sentMessageCount[e])'
  BY <1>1, <1>7, PutStep
<1>8. ASSUME NEW a \in Ends,
             GetNextMessageToSend(a) \/ Report(a) \/ HangUp(a) \/ Broken(a)
      PROVE  ChannelStep(e) /\ Numbered(sendQueue[e], sentMessageCount[e])'
  BY <1>1, <1>8, TakeStep, ReportStep, ClosedStep DEF HangUp, Broken
<1> QED
  BY <1>2, <1>3, <1>4, <1>5, <1>6, <1>7, <1>8 DEF Next

(* The invariant, to begin with. *)
LEMMA ConnectionInit == Init => ConnectionInv
<1> SUFFICES ASSUME Init PROVE ConnectionInv
  OBVIOUS
<1>1. Queues
  BY AsSentNone DEF Init, Queues
<1> QED
  BY <1>1, TypeInit, AlignedInit DEF ConnectionInv, StreamInv

(* The invariant is inductive. *)
LEMMA ConnectionNext == ConnectionInv /\ [Next]_vars => ConnectionInv'
<1> SUFFICES ASSUME ConnectionInv, [Next]_vars PROVE ConnectionInv'
  OBVIOUS
<1>1. TypeInv'
  BY TypeNext DEF ConnectionInv, StreamInv
<1>2. StreamInv'
  BY <1>1, AlignedNext DEF ConnectionInv, StreamInv
<1>3. \A e \in Ends : Numbered(sendQueue[e], sentMessageCount[e])'
  BY <1>1, StepOfChannel
<1> QED
  BY <1>2, <1>3 DEF ConnectionInv, Queues

(* Both channels are empty to begin with. *)
LEMMA ChannelInit == Init => FromA!Init /\ FromB!Init
<1> SUFFICES ASSUME Init PROVE FromA!Init /\ FromB!Init
  OBVIOUS
<1>1. \A e \in Ends : /\ sendQueue[e] = {} /\ wire[e] = << >>
                      /\ dataToSend[e] = << >>
                      /\ received[e] = << >> /\ conn[e] = "open"
  BY DEF Init
<1>2. \A e \in Ends : AsSent(sendQueue[e]) = << >>
  BY <1>1, AsSentNone
<1>3. \A e \in Ends : Unread(e) = << >>
  BY <1>1, ConcatEmptySeq, EmptySeq DEF Unread
<1>4. EndedBy(<< >>) = << >>
  <2> DEFINE s == << >>
  <2>1. s \in Seq(Byte) /\ \A k \in 1 .. Len(s) : ~IsLastOfMessage(s[k])
    OBVIOUS
  <2>2. s = << >>
    OBVIOUS
  <2> HIDE DEF s
  <2> QED
    BY <2>1, <2>2, EndedByNone
<1>5. Up = TRUE /\ (damaged = 0) = TRUE
  BY <1>1 DEF Up, Ends, Init
<1> QED
  BY <1>1, <1>2, <1>3, <1>4, <1>5 DEF FromA!Init, FromB!Init, Ends

(* Every step of the connection is a step of both channels, or none. *)
LEMMA ChannelNext ==
    ConnectionInv /\ ConnectionInv' /\ [Next]_vars
    => [FromA!Next]_(FromA!vars) /\ [FromB!Next]_(FromB!vars)
<1> SUFFICES ASSUME ConnectionInv, ConnectionInv', [Next]_vars
             PROVE  [FromA!Next]_(FromA!vars) /\ [FromB!Next]_(FromB!vars)
  OBVIOUS
<1>1. TypeInv'
  BY DEF ConnectionInv, StreamInv
<1>2. \A e \in Ends : ChannelStep(e)
  BY <1>1, StepOfChannel
<1>3. ChannelStep("a") /\ ChannelStep("b")
  BY <1>2 DEF Ends
<1> QED
  BY <1>3, StepFromA, StepFromB

(* Each direction of a connection is a channel of whole messages.  The one *)
(* taken next is the oldest of the highest priority among those that       *)
(* wait; messages arrive once each, in the order in which they were taken, *)
(* whole and undamaged; none is lost while the connection is up and        *)
(* nothing damages it (QueuedMessage.h:67-77, handle_output and            *)
(* handle_input, NetworkServiceHandler.h:109-396).                         *)
THEOREM ImplementsChannelSafely ==
    Spec => /\ FromA!Init /\ [][FromA!Next]_(FromA!vars)
            /\ FromB!Init /\ [][FromB!Next]_(FromB!vars)
<1>1. Spec => []ConnectionInv
  BY ConnectionInit, ConnectionNext, PTL DEF Spec
<1> QED
  BY <1>1, ChannelInit, ChannelNext, PTL DEF Spec
=============================================================================
