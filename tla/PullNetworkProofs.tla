------------------------- MODULE PullNetworkProofs --------------------------
(***************************************************************************)
(* Proofs about pull requests, for any tree of gateways and any number of  *)
(* providers, requests and events: the types of the tables, that every     *)
(* neighbour with a registration has a connection, that no request or      *)
(* answer returns to a gateway it has been through, and that every answer  *)
(* the device is owed comes back to it.                                    *)
(***************************************************************************)
EXTENDS PullNetwork, FiniteSetTheorems, FunctionTheorems, WellFoundedInduction, TLAPS

(***************************************************************************)
(* The tree.  Below(n) is the least set with n and the children of its     *)
(* elements; Behind(g, n) has the gateways on g's side of the link between *)
(* the neighbours g and n.                                                 *)
(***************************************************************************)
DownwardClosed(S) == \A y \in DOMAIN Parent : Parent[y] \in S => y \in S

Below(n) == {x \in Gateways : \A S \in SUBSET Gateways :
                                n \in S /\ DownwardClosed(S) => x \in S}

Behind(g, n) == IF g \in DOMAIN Parent /\ Parent[g] = n THEN Below(g)
                                                       ELSE Gateways \ Below(n)

LEMMA Depth ==
    \E depth \in [Gateways -> Nat] :
        \A g \in DOMAIN Parent : depth[Parent[g]] < depth[g]
<1>1. Cardinality(Gateways) \in Nat
  BY TreeAssumption, FS_CardinalityType
<1>2. PICK depth \in [Gateways -> 0..Cardinality(Gateways)] :
        \A g \in DOMAIN Parent : depth[Parent[g]] < depth[g]
  BY TreeAssumption
<1>3. depth \in [Gateways -> Nat]
  BY <1>1, <1>2
<1> QED
  BY <1>2, <1>3

LEMMA BelowIsClosed ==
    ASSUME NEW n \in Gateways
    PROVE  n \in Below(n) /\ DownwardClosed(Below(n)) /\ Below(n) \subseteq Gateways
  BY TreeAssumption DEF Below, DownwardClosed

LEMMA BelowIsLeast ==
    ASSUME NEW n \in Gateways, NEW S \in SUBSET Gateways, n \in S,
           DownwardClosed(S)
    PROVE  Below(n) \subseteq S
  BY DEF Below

LEMMA BelowByParent ==
    ASSUME NEW n \in Gateways, NEW x \in Below(n), x # n
    PROVE  x \in DOMAIN Parent /\ Parent[x] \in Below(n)
<1>1. SUFFICES ASSUME ~(x \in DOMAIN Parent /\ Parent[x] \in Below(n))
               PROVE  FALSE
  OBVIOUS
<1>2. DownwardClosed(Below(n) \ {x})
  BY <1>1, BelowIsClosed DEF DownwardClosed
<1>3. Below(n) \subseteq Below(n) \ {x}
  BY <1>2, BelowIsClosed, BelowIsLeast
<1> QED
  BY <1>3

LEMMA ParentIsNotBelow ==
    ASSUME NEW c \in DOMAIN Parent
    PROVE  Parent[c] \notin Below(c)
<1>1. PICK depth \in [Gateways -> Nat] :
        \A g \in DOMAIN Parent : depth[Parent[g]] < depth[g]
  BY Depth
<1>2. c \in Gateways /\ \A g \in DOMAIN Parent : g \in Gateways /\ Parent[g] \in Gateways
  BY TreeAssumption
<1> DEFINE S == {x \in Gateways : depth[c] <= depth[x]}
<1>3. c \in S /\ DownwardClosed(S)
  BY <1>1, <1>2 DEF DownwardClosed
<1>4. Parent[c] \notin S
  BY <1>1, <1>2
<1> QED
  BY <1>2, <1>3, <1>4, BelowIsLeast

LEMMA BelowOfChild ==
    ASSUME NEW c \in DOMAIN Parent
    PROVE  c \in Gateways /\ Parent[c] \in Gateways /\ Below(c) \subseteq Below(Parent[c])
<1>1. c \in Gateways /\ Parent[c] \in Gateways
  BY TreeAssumption
<1>2. c \in Below(Parent[c])
  BY <1>1, BelowIsClosed DEF DownwardClosed
<1> QED
  BY <1>1, <1>2, BelowIsClosed, BelowIsLeast

LEMMA SiblingsAreApart ==
    ASSUME NEW a \in DOMAIN Parent, NEW b \in DOMAIN Parent,
           Parent[a] = Parent[b], a # b
    PROVE  Below(a) \cap Below(b) = {}
<1> DEFINE S == Below(a) \ Below(b)
<1>1. a \in Gateways /\ b \in Gateways
  BY TreeAssumption
<1>2. a \in S
  BY <1>1, BelowIsClosed, BelowByParent, ParentIsNotBelow
<1>3. DownwardClosed(S)
  <2> SUFFICES ASSUME NEW y \in DOMAIN Parent, Parent[y] \in S
               PROVE  y \in S
    BY DEF DownwardClosed
  <2>1. y \in Below(a) /\ y # b
    BY <1>1, BelowIsClosed, ParentIsNotBelow DEF DownwardClosed
  <2> QED
    BY <1>1, <2>1, BelowByParent
<1> QED
  BY <1>1, <1>2, <1>3, BelowIsLeast, BelowIsClosed

LEMMA NeighbourBehind ==
    ASSUME NEW g \in Gateways, NEW n \in Neighbours(g)
    PROVE  /\ n \in Gateways /\ n # g /\ g \in Neighbours(n)
           /\ Behind(g, n) \subseteq Gateways
           /\ g \in Behind(g, n) /\ n \notin Behind(g, n)
<1>1. n \in Gateways /\ n # g /\ g \in Neighbours(n)
  BY TreeAssumption DEF Neighbours
<1> QED
  BY <1>1, BelowIsClosed, ParentIsNotBelow DEF Behind, Neighbours

(* What comes from n to g and goes on to k leaves the gateways behind. *)
LEMMA BehindGrows ==
    ASSUME NEW g \in Gateways, NEW n \in Neighbours(g), NEW k \in Neighbours(g),
           n # k
    PROVE  Behind(n, g) \cup {g} \subseteq Behind(g, k)
<1>1. g \in Behind(g, k) /\ Behind(n, g) \subseteq Gateways
  BY NeighbourBehind
<1>2. CASE n \in DOMAIN Parent /\ Parent[n] = g
  <2>1. Behind(n, g) = Below(n) /\ Below(n) \subseteq Below(g)
    BY <1>2, BelowOfChild DEF Behind
  <2>2. CASE g \in DOMAIN Parent /\ Parent[g] = k
    BY <1>1, <2>1, <2>2 DEF Behind
  <2>3. CASE ~(g \in DOMAIN Parent /\ Parent[g] = k)
    <3>1. k \in DOMAIN Parent /\ Parent[k] = g
      BY <2>3 DEF Neighbours
    <3> QED
      BY <1>1, <1>2, <2>1, <2>3, <3>1, SiblingsAreApart DEF Behind
  <2> QED
    BY <2>2, <2>3
<1>3. CASE ~(n \in DOMAIN Parent /\ Parent[n] = g)
  <2>1. g \in DOMAIN Parent /\ Parent[g] = n /\ k \in DOMAIN Parent /\ Parent[k] = g
    BY <1>3 DEF Neighbours
  <2>2. Below(k) \subseteq Below(g)
    BY <2>1, BelowOfChild
  <2> QED
    BY <1>1, <1>3, <2>1, <2>2 DEF Behind
<1> QED
  BY <1>2, <1>3
-----------------------------------------------------------------------------
(* Messages and channels. *)

Message ==
    {AssociateMsg, RegisterMsg, UnregisterMsg} \cup
    [type : {"Request", "Response"}, request : Nat, from : Gateways,
     path : SUBSET Gateways]

(* A request or an answer on its way from g to n, after r requests, has    *)
(* been through gateways on g's side of the link only.                     *)
Good(g, n, r) ==
    {m \in Message : ~IsControl(m) => /\ m.request \in 1..r /\ m.from \in m.path
                                     /\ m.path \subseteq Behind(g, n)}

(* Between neighbours, an end that is open still has the association of    *)
(* the other before it, ahead of everything else.                          *)
LinkInv(ends, chs, r) ==
    /\ ends \in [Gateways -> [Gateways -> {"closed", "open", "associated"}]]
    /\ chs \in [Gateways -> [Gateways -> Seq(Message)]]
    /\ \A g, n \in Gateways :
        /\ chs[g][n] \in Seq(Good(g, n, r))
        /\ ends[g][n] # "closed" => n \in Neighbours(g)
        /\ chs[g][n] # << >> => ends[n][g] # "closed"
        /\ ends[n][g] = "open" => chs[g][n] # << >> /\ chs[g][n][1] = AssociateMsg

ChannelInv == requests \in Nat /\ LinkInv(side, channel, requests)

LEMMA ControlMessages ==
    /\ IsControl(AssociateMsg) /\ IsControl(RegisterMsg) /\ IsControl(UnregisterMsg)
    /\ RegisterMsg # AssociateMsg /\ UnregisterMsg # AssociateMsg
    /\ \A m \in Message : ~IsControl(m) =>
         /\ m.type \in {"Request", "Response"} /\ m.request \in Nat
         /\ m.from \in Gateways /\ m.path \in SUBSET Gateways
    /\ \A g, n, r : {AssociateMsg, RegisterMsg, UnregisterMsg} \subseteq Good(g, n, r)
<1>1. /\ AssociateMsg.type = "Associate" /\ RegisterMsg.type = "Register"
      /\ UnregisterMsg.type = "Unregister"
  BY DEF AssociateMsg, RegisterMsg, UnregisterMsg
<1>2. IsControl(AssociateMsg) /\ IsControl(RegisterMsg) /\ IsControl(UnregisterMsg)
  BY <1>1 DEF IsControl
<1>3. \A m \in Message : ~IsControl(m) =>
         /\ m.type \in {"Request", "Response"} /\ m.request \in Nat
         /\ m.from \in Gateways /\ m.path \in SUBSET Gateways
  BY <1>2 DEF Message
<1>4. \A g, n, r : {AssociateMsg, RegisterMsg, UnregisterMsg} \subseteq Good(g, n, r)
  BY <1>2 DEF Good, Message
<1> QED
  BY <1>1, <1>2, <1>3, <1>4

LEMMA MessageIsGood ==
    ASSUME NEW type \in {"Request", "Response"}, NEW r \in Nat \ {0},
           NEW g \in Gateways, NEW n \in Neighbours(g)
    PROVE  /\ Msg(type, r, g, {g}) \in Message
           /\ Msg(type, r, g, {g}) \in Good(g, n, r)
<1>1. g \in Behind(g, n)
  BY NeighbourBehind
<1> QED
  BY <1>1 DEF Msg, Message, Good

(* A message that g passes on. *)
LEMMA ThroughIsGood ==
    ASSUME NEW g \in Gateways, NEW n \in Neighbours(g), NEW k \in Neighbours(g),
           k # n, NEW r, NEW m \in Good(n, g, r), ~IsControl(m)
    PROVE  Through(g, m) \in Good(g, k, r)
<1>1. /\ m \in Message /\ m.request \in 1..r /\ m.from \in m.path
      /\ m.path \subseteq Behind(n, g)
  BY DEF Good
<1>2. Behind(n, g) \cup {g} \subseteq Behind(g, k)
  BY BehindGrows
<1>3. m \in [type : {"Request", "Response"}, request : Nat, from : Gateways,
            path : SUBSET Gateways]
  BY <1>1, ControlMessages DEF Message
<1>4. /\ Through(g, m) \in Message
      /\ Through(g, m).request = m.request /\ Through(g, m).from = m.from
      /\ Through(g, m).path = m.path \cup {g}
  BY <1>3 DEF Through, Message
<1> QED
  BY <1>1, <1>2, <1>4 DEF Good

LEMMA RemoveType ==
    ASSUME NEW S, NEW s \in Seq(S), NEW i \in DOMAIN s
    PROVE  LET t == SubSeq(s, 1, i - 1) \o SubSeq(s, i + 1, Len(s)) IN
           /\ t \in Seq(S)
           /\ i # 1 => t # << >> /\ t[1] = s[1]
<1>1. Len(s) \in Nat /\ i \in 1 .. Len(s)
  OBVIOUS
<1>2. /\ SubSeq(s, 1, i - 1) \in Seq(S) /\ SubSeq(s, i + 1, Len(s)) \in Seq(S)
      /\ Len(SubSeq(s, 1, i - 1)) = i - 1
      /\ i # 1 => SubSeq(s, 1, i - 1)[1] = s[1]
  BY <1>1
<1> QED
  BY <1>1, <1>2

LEMMA SentType ==
    ASSUME NEW chs \in [Gateways -> [Gateways -> Seq(Message)]],
           NEW g \in Gateways, NEW to, NEW msgs \in Seq(Message)
    PROVE  Sent(chs, g, to, msgs) \in [Gateways -> [Gateways -> Seq(Message)]]
<1>1. \A b \in Gateways : chs[g][b] \in Seq(Message) /\ chs[g][b] \o msgs \in Seq(Message)
  OBVIOUS
<1> QED
  BY <1>1 DEF Sent

LEMMA ConcatKeepsHead ==
    ASSUME NEW S, NEW s \in Seq(S), NEW t \in Seq(S)
    PROVE  /\ s \o t \in Seq(S)
           /\ s # << >> => s \o t # << >> /\ (s \o t)[1] = s[1]
  OBVIOUS

(* What was on its way after fewer requests. *)
LEMMA GoodLasts ==
    ASSUME NEW g, NEW n, NEW r \in Nat, NEW k \in Nat, r <= k,
           NEW q \in Seq(Good(g, n, r))
    PROVE  q \in Seq(Good(g, n, k))
<1>1. Good(g, n, r) \subseteq Good(g, n, k)
  BY DEF Good
<1> QED
  BY <1>1

(* Sending is safe if what is sent is good on each link it is sent over.   *)
LEMMA SendKeepsLinks ==
    ASSUME NEW ends, NEW chs, NEW r \in Nat, NEW k \in Nat, r <= k,
           LinkInv(ends, chs, r),
           NEW g \in Gateways, NEW to, NEW msgs \in Seq(Message),
           \A b \in to : b \in Gateways => msgs \in Seq(Good(g, b, k)) /\ ends[b][g] = side[b][g]
    PROVE  LinkInv(ends, Sent(chs, g, to, msgs), k)
<1> DEFINE new == Sent(chs, g, to, msgs)
           hit(a, b) == a = g /\ b \in to /\ side[b][a] # "closed"
<1>1. chs \in [Gateways -> [Gateways -> Seq(Message)]]
  BY DEF LinkInv
<1>2. new \in [Gateways -> [Gateways -> Seq(Message)]]
  BY <1>1, SentType
<1>3. ASSUME NEW a \in Gateways, NEW b \in Gateways
      PROVE  /\ hit(a, b) => new[a][b] = chs[a][b] \o msgs
             /\ ~hit(a, b) => new[a][b] = chs[a][b]
  BY <1>1 DEF Sent
<1> HIDE DEF new
<1>4. ASSUME NEW a \in Gateways, NEW b \in Gateways
      PROVE  /\ new[a][b] \in Seq(Good(a, b, k))
             /\ ends[a][b] # "closed" => b \in Neighbours(a)
             /\ new[a][b] # << >> => ends[b][a] # "closed"
             /\ ends[b][a] = "open" => new[a][b] # << >> /\ new[a][b][1] = AssociateMsg
  <2>1. /\ chs[a][b] \in Seq(Good(a, b, k))
        /\ ends[a][b] # "closed" => b \in Neighbours(a)
        /\ chs[a][b] # << >> => ends[b][a] # "closed"
        /\ ends[b][a] = "open" => chs[a][b] # << >> /\ chs[a][b][1] = AssociateMsg
    BY GoodLasts DEF LinkInv
  <2>2. CASE hit(a, b)
    <3>1. /\ new[a][b] = chs[a][b] \o msgs /\ msgs \in Seq(Good(a, b, k))
          /\ ends[b][a] # "closed"
      BY <1>3, <2>2
    <3> QED
      BY <2>1, <3>1, ConcatKeepsHead
  <2>3. CASE ~hit(a, b)
    BY <1>3, <2>1, <2>3
  <2> QED
    BY <2>2, <2>3
<1>5. ends \in [Gateways -> [Gateways -> {"closed", "open", "associated"}]]
  BY DEF LinkInv
<1>6. LinkInv(ends, new, k)
  BY <1>2, <1>4, <1>5 DEF LinkInv
<1> QED
  BY <1>6 DEF new

(* Taking out a message, unless it is the association an open end awaits.  *)
LEMMA RemoveKeepsLinks ==
    ASSUME NEW ends, NEW chs, NEW r, LinkInv(ends, chs, r),
           NEW g \in Gateways, NEW n \in Gateways, NEW i \in DOMAIN chs[n][g],
           ends[g][n] = "open" => i # 1
    PROVE  LinkInv(ends, [chs EXCEPT ![n][g] =
                     SubSeq(@, 1, i - 1) \o SubSeq(@, i + 1, Len(@))], r)
<1> DEFINE q == SubSeq(chs[n][g], 1, i - 1) \o SubSeq(chs[n][g], i + 1, Len(chs[n][g]))
           new == [chs EXCEPT ![n][g] = q]
<1>1. chs \in [Gateways -> [Gateways -> Seq(Message)]]
  BY DEF LinkInv
<1>2. q \in Seq(Message) /\ q \in Seq(Good(n, g, r))
  BY RemoveType DEF LinkInv
<1>3. i # 1 => q # << >> /\ q[1] = chs[n][g][1]
  BY <1>1, RemoveType
<1> HIDE DEF q
<1>4. new \in [Gateways -> [Gateways -> Seq(Message)]]
  BY <1>1, <1>2
<1>5. ASSUME NEW a \in Gateways, NEW b \in Gateways
      PROVE  new[a][b] = IF a = n /\ b = g THEN q ELSE chs[a][b]
  BY <1>1
<1> HIDE DEF new
<1>6. chs[n][g] # << >>
  BY <1>1
<1>7. ASSUME NEW a \in Gateways, NEW b \in Gateways
      PROVE  /\ new[a][b] \in Seq(Good(a, b, r))
             /\ new[a][b] # << >> => ends[b][a] # "closed"
             /\ ends[b][a] = "open" => new[a][b] # << >> /\ new[a][b][1] = AssociateMsg
  <2>1. CASE a = n /\ b = g
    <3>1. new[a][b] = q
      BY <1>5, <2>1
    <3>2. ends[b][a] = "open" => chs[a][b][1] = AssociateMsg
      BY DEF LinkInv
    <3>3. ends[b][a] # "closed"
      BY <1>6, <2>1 DEF LinkInv
    <3> QED
      BY <1>2, <1>3, <2>1, <3>1, <3>2, <3>3
  <2>2. CASE ~(a = n /\ b = g)
    <3>1. new[a][b] = chs[a][b]
      BY <1>5, <2>2
    <3> QED
      BY <3>1 DEF LinkInv
  <2> QED
    BY <2>1, <2>2
<1>8. LinkInv(ends, new, r)
  BY <1>4, <1>7 DEF LinkInv
<1> QED
  BY <1>8 DEF new, q
-----------------------------------------------------------------------------
(* The inductive invariant.  A neighbour with a registration is associated *)
(* (InterestsAreHandled) because only the association can arrive first.    *)
TableInv ==
    /\ pullHandlers \subseteq Gateways
    /\ crossGatewayPullRequestHandlers \in [Gateways -> [Gateways -> Nat]]
    /\ cgPullRequestReturnIds \in [Gateways -> Gateways \cup {Nowhere}]
    /\ device \in handlers
    /\ plugins \subseteq handlers /\ handlers \subseteq Gateways
    /\ requests \in 0..MaxRequests
    /\ held \in [Gateways -> SUBSET (1..requests)]
    /\ reached \in [Gateways -> SUBSET Gateways]
    /\ missed \in BOOLEAN
    /\ owed \subseteq (1..requests) \X pullHandlers

NetworkInv == ChannelInv /\ TableInv /\ InterestsAreHandled

(* Only the association arrives at an end that awaits it. *)
LEMMA OthersComeLater ==
    ASSUME ChannelInv, NEW g \in Gateways, NEW n \in Gateways,
           NEW i \in Arrivals(channel[n][g]), side[g][n] # "closed"
    PROVE  /\ i \in DOMAIN channel[n][g]
           /\ channel[n][g][i] \in Good(n, g, requests)
           /\ channel[n][g][i] # AssociateMsg => side[g][n] = "associated"
<1> DEFINE q == channel[n][g]
<1>1. q \in Seq(Good(n, g, requests)) /\ side[g][n] \in {"closed", "open", "associated"}
  BY DEF ChannelInv, LinkInv
<1>2. i \in DOMAIN q /\ \A j \in 1..(i - 1) : ~IsControl(q[j])
  BY DEF Arrivals
<1>3. ASSUME side[g][n] = "open"
      PROVE  q[i] = AssociateMsg
  <2>1. q[1] = AssociateMsg /\ IsControl(q[1])
    BY <1>3, ControlMessages DEF ChannelInv, LinkInv
  <2>2. i = 1
    BY <1>1, <1>2, <2>1
  <2> QED
    BY <2>1, <2>2
<1> QED
  BY <1>1, <1>2, <1>3

LEMMA ReceiveKeepsChannels ==
    ASSUME ChannelInv, NEW g \in Gateways, NEW n \in Gateways, NEW to,
           NEW i \in Arrivals(channel[n][g]), NEW msgs \in Seq(Message),
           channel[n][g][i] # AssociateMsg, Receive(g, n, i, to, msgs),
           side' = side, requests' = requests,
           \A b \in to : b \in Gateways => msgs \in Seq(Good(g, b, requests))
    PROVE  ChannelInv'
<1> DEFINE rest == [channel EXCEPT ![n][g] =
                       SubSeq(@, 1, i - 1) \o SubSeq(@, i + 1, Len(@))]
<1>1. side[g][n] = "associated" /\ i \in DOMAIN channel[n][g]
  BY OthersComeLater DEF Receive
<1>2. requests \in Nat /\ LinkInv(side, channel, requests)
  BY DEF ChannelInv
<1>3. LinkInv(side, rest, requests)
  BY <1>1, <1>2, RemoveKeepsLinks
<1>4. channel' = Sent(rest, g, to, msgs)
  BY DEF Receive
<1> HIDE DEF rest
<1>5. LinkInv(side, channel', requests)
  BY <1>2, <1>3, <1>4, SendKeepsLinks
<1> QED
  BY <1>2, <1>5 DEF ChannelInv

LEMMA SendKeepsChannels ==
    ASSUME ChannelInv, NEW g \in Gateways, NEW to, NEW msgs \in Seq(Message),
           channel' = Sent(channel, g, to, msgs), side' = side,
           requests' \in Nat, requests <= requests',
           \A b \in to : b \in Gateways => msgs \in Seq(Good(g, b, requests'))
    PROVE  ChannelInv'
<1>1. requests \in Nat /\ LinkInv(side, channel, requests)
  BY DEF ChannelInv
<1>2. LinkInv(side, channel', requests')
  BY <1>1, SendKeepsLinks
<1> QED
  BY <1>2 DEF ChannelInv

(* The association arrives: the end awaits nothing any more. *)
LEMMA AssociateKeepsChannels ==
    ASSUME ChannelInv, NEW g \in Gateways, NEW n \in Gateways,
           NEW i \in Arrivals(channel[n][g]), ReceiveAssociate(g, n, i)
    PROVE  ChannelInv'
<1> DEFINE rest == [channel EXCEPT ![n][g] =
                       SubSeq(@, 1, i - 1) \o SubSeq(@, i + 1, Len(@))]
           ends == [side EXCEPT ![g][n] = "associated"]
<1>1. requests \in Nat /\ LinkInv(side, channel, requests) /\ requests' = requests
  BY DEF ChannelInv, ReceiveAssociate, work
<1>2. i \in DOMAIN channel[n][g] /\ side[g][n] # "closed"
  BY OthersComeLater DEF ReceiveAssociate, Receive
<1>3. LinkInv(ends, channel, requests)
  <2>1. ends \in [Gateways -> [Gateways -> {"closed", "open", "associated"}]]
    BY <1>1 DEF LinkInv
  <2>2. \A a, b \in Gateways :
          ends[a][b] = IF a = g /\ b = n THEN "associated" ELSE side[a][b]
    BY <1>1 DEF LinkInv
  <2> QED
    BY SMTT(40), <1>1, <1>2, <2>1, <2>2 DEF LinkInv
<1>4. ends[g][n] = "associated"
  BY <1>1 DEF LinkInv
<1>5. channel' = Sent(rest, g, {}, << >>) /\ side' = ends
  BY DEF ReceiveAssociate, Receive
<1> HIDE DEF ends
<1>6. LinkInv(ends, rest, requests)
  BY <1>2, <1>3, <1>4, RemoveKeepsLinks
<1> HIDE DEF rest
<1>7. Sent(rest, g, {}, << >>) = rest
  BY <1>6 DEF Sent, LinkInv
<1> QED
  BY <1>1, <1>5, <1>6, <1>7 DEF ChannelInv

(* An end is closed, and its gateway retracts what came over it.           *)
LEMMA CloseKeepsChannels ==
    ASSUME ChannelInv, NEW g \in Gateways, NEW n \in Neighbours(g),
           NEW msgs \in Seq(Message), CloseEnd(g, n, msgs), requests' = requests,
           \A a, b : msgs \in Seq(Good(a, b, requests))
    PROVE  ChannelInv'
<1> DEFINE rest == [channel EXCEPT ![n][g] = << >>]
           ends == [side EXCEPT ![g][n] = "closed"]
<1>1. requests \in Nat /\ LinkInv(side, channel, requests)
  BY DEF ChannelInv
<1>2. n \in Gateways /\ n # g
  BY NeighbourBehind
<1>3. \A a, b \in Gateways :
        /\ ends[a][b] = IF a = g /\ b = n THEN "closed" ELSE side[a][b]
        /\ rest[a][b] = IF a = n /\ b = g THEN << >> ELSE channel[a][b]
  BY <1>1, <1>2 DEF LinkInv
<1>4. /\ ends \in [Gateways -> [Gateways -> {"closed", "open", "associated"}]]
      /\ rest \in [Gateways -> [Gateways -> Seq(Message)]]
  <2>1. << >> \in Seq(Message)
    OBVIOUS
  <2> QED
    BY <1>1, <2>1 DEF LinkInv
<1>5. channel' = Sent(rest, g, Handled(g) \ {n}, msgs) /\ side' = ends
  BY DEF CloseEnd
<1> HIDE DEF ends, rest
<1>6. LinkInv(ends, rest, requests)
  <2>1. ASSUME NEW a \in Gateways, NEW b \in Gateways
        PROVE  /\ rest[a][b] \in Seq(Good(a, b, requests))
               /\ ends[a][b] # "closed" => b \in Neighbours(a)
               /\ rest[a][b] # << >> => ends[b][a] # "closed"
               /\ ends[b][a] = "open" => rest[a][b] # << >> /\ rest[a][b][1] = AssociateMsg
    <3>1. CASE a = n /\ b = g
      <4>1. rest[a][b] = << >> /\ ends[b][a] = "closed" /\ ends[a][b] = side[a][b]
        BY <1>2, <1>3, <3>1
      <4> QED
        BY <1>1, <4>1 DEF LinkInv
    <3>2. CASE ~(a = n /\ b = g)
      <4>1. rest[a][b] = channel[a][b] /\ ends[b][a] = side[b][a]
        BY <1>3, <3>2
      <4>2. ends[a][b] # "closed" => side[a][b] # "closed"
        BY <1>3
      <4> QED
        BY <1>1, <4>1, <4>2 DEF LinkInv
    <3> QED
      BY <3>1, <3>2
  <2> QED
    BY <1>4, <2>1 DEF LinkInv
<1>7. \A b \in Handled(g) \ {n} : b \in Gateways => ends[b][g] = side[b][g]
  BY <1>2, <1>3
<1>8. LinkInv(ends, Sent(rest, g, Handled(g) \ {n}, msgs), requests)
  BY <1>1, <1>6, <1>7, SendKeepsLinks
<1> QED
  BY <1>1, <1>5, <1>8 DEF ChannelInv

(* A link is made: the association is the first message on it.             *)
LEMMA OpenKeepsChannels ==
    ASSUME ChannelInv, NEW g \in DOMAIN Parent, OpenLink(g), requests' = requests
    PROVE  ChannelInv'
<1> DEFINE n == Parent[g]
<1>1. requests \in Nat /\ LinkInv(side, channel, requests)
  BY DEF ChannelInv
<1>2. /\ g \in Gateways /\ n \in Gateways /\ n # g
      /\ n \in Neighbours(g) /\ g \in Neighbours(n)
  BY TreeAssumption DEF Neighbours
<1>3. /\ side' = [side EXCEPT ![g][n] = "open", ![n][g] = "open"]
      /\ channel' = [channel EXCEPT ![g][n] = <<AssociateMsg>>,
                                    ![n][g] = <<AssociateMsg>>]
  BY DEF OpenLink
<1>4. AssociateMsg \in Message /\ \A a, b : AssociateMsg \in Good(a, b, requests)
  BY ControlMessages DEF Message
<1>5. /\ <<AssociateMsg>> \in Seq(Message)
      /\ \A a, b : <<AssociateMsg>> \in Seq(Good(a, b, requests))
      /\ <<AssociateMsg>> # << >> /\ <<AssociateMsg>>[1] = AssociateMsg
  BY <1>4
<1> DEFINE one == <<AssociateMsg>>
           linked(a, b) == (a = g /\ b = n) \/ (a = n /\ b = g)
<1> HIDE DEF n, one
<1>6. /\ side' \in [Gateways -> [Gateways -> {"closed", "open", "associated"}]]
      /\ channel' \in [Gateways -> [Gateways -> Seq(Message)]]
  BY <1>1, <1>2, <1>3, <1>5 DEF LinkInv, one
<1>7. \A a, b \in Gateways :
        /\ side'[a][b] = IF linked(a, b) THEN "open" ELSE side[a][b]
        /\ channel'[a][b] = IF linked(a, b) THEN one ELSE channel[a][b]
  BY <1>1, <1>2, <1>3 DEF LinkInv, one
<1>8. LinkInv(side', channel', requests)
  <2>1. ASSUME NEW a \in Gateways, NEW b \in Gateways
        PROVE  /\ channel'[a][b] \in Seq(Good(a, b, requests))
               /\ side'[a][b] # "closed" => b \in Neighbours(a)
               /\ channel'[a][b] # << >> => side'[b][a] # "closed"
               /\ side'[b][a] = "open" => /\ channel'[a][b] # << >>
                                           /\ channel'[a][b][1] = AssociateMsg
    <3>1. CASE linked(a, b)
      <4>1. channel'[a][b] = one /\ side'[a][b] = "open" /\ side'[b][a] = "open"
        BY <1>7, <3>1
      <4> QED
        BY <1>2, <1>5, <3>1, <4>1 DEF one
    <3>2. CASE ~linked(a, b)
      <4>1. channel'[a][b] = channel[a][b] /\ side'[a][b] = side[a][b] /\ side'[b][a] = side[b][a]
        BY <1>7, <3>2
      <4> QED
        BY <1>1, <4>1 DEF LinkInv
    <3> QED
      BY <3>1, <3>2
  <2> QED
    BY <1>6, <2>1 DEF LinkInv
<1> QED
  BY <1>1, <1>8 DEF ChannelInv
-----------------------------------------------------------------------------
(* Providers and the device: the ends of the links stay as they are.       *)
LEMMA SameEnds ==
    ASSUME InterestsAreHandled, UNCHANGED <<side, crossGatewayPullRequestHandlers>>
    PROVE  InterestsAreHandled'
  BY DEF InterestsAreHandled, Interested, Handled

LEMMA ProviderSteps ==
    ASSUME NetworkInv, NEW g \in Providers,
           \/ RegisterPullInterest(g)
           \/ UnregisterPullInterest(g)
           \/ \E r \in Requests : PullResponse(g, r)
    PROVE  NetworkInv'
<1> USE DEF NetworkInv
<1>1. g \in Gateways /\ requests \in Nat
  BY ClientAssumption DEF ChannelInv
<1>2. CASE RegisterPullInterest(g)
  <2> USE <1>2 DEF RegisterPullInterest
  <2>1. RegisterMsg \in Message /\ \A a, b : RegisterMsg \in Good(a, b, requests)
    BY ControlMessages DEF Message
  <2> DEFINE told == <<RegisterMsg>>
  <2>2. told \in Seq(Message) /\ \A a, b : told \in Seq(Good(a, b, requests))
    BY <2>1
  <2>3. /\ requests' \in Nat /\ requests <= requests' /\ requests' = requests
        /\ side' = side /\ channel' = Sent(channel, g, Handled(g), told)
    BY <1>1 DEF work
  <2> HIDE DEF told
  <2>4. ChannelInv'
    BY <1>1, <2>2, <2>3, SendKeepsChannels
  <2>5. TableInv'
    <3>1. Connected(g) \in SUBSET Gateways
      BY DEF Connected
    <3> QED
      BY <1>1, <3>1 DEF TableInv, trail, clients, work
  <2> QED
    BY <2>4, <2>5, SameEnds
<1>3. CASE UnregisterPullInterest(g)
  <2> USE <1>3 DEF UnregisterPullInterest
  <2>1. ChannelInv'
    BY DEF ChannelInv, LinkInv, links
  <2>2. TableInv'
    BY <1>1 DEF TableInv, trail, clients
  <2> QED
    BY <2>1, <2>2, SameEnds DEF links
<1>4. ASSUME NEW r \in Requests, PullResponse(g, r)
      PROVE  NetworkInv'
  <2> USE <1>4 DEF PullResponse
  <2>1. r \in 1..requests /\ r \in Nat \ {0} /\ requests' = requests /\ side' = side
    BY <1>1 DEF TableInv
  <2>2. ChannelInv'
    <3>1. CASE GivenToDevice(g)
      BY <2>1, <3>1 DEF ChannelInv, LinkInv
    <3>2. CASE ~GivenToDevice(g)
      <4> DEFINE answer == Msg("Response", r, g, {g})
      <4>1. answer \in Message
        BY <1>1, <2>1 DEF Msg, Message
      <4>2. ASSUME NEW b \in ReturnHop(g, g), b \in Gateways
            PROVE  <<answer>> \in Seq(Good(g, b, requests))
        <5>1. side[g][b] # "closed"
          BY <4>2 DEF ReturnHop, Handled
        <5>2. b \in Neighbours(g)
          BY <1>1, <4>2, <5>1 DEF ChannelInv, LinkInv
        <5>3. answer \in Good(g, b, r)
          BY <1>1, <2>1, <5>2, MessageIsGood
        <5>4. answer \in Good(g, b, requests)
          BY <1>1, <2>1, <5>3 DEF Good
        <5> QED
          BY <5>4
      <4>3. /\ channel' = Sent(channel, g, ReturnHop(g, g), <<answer>>)
            /\ requests' \in Nat /\ requests <= requests'
        BY <1>1, <2>1, <3>2
      <4>4. <<answer>> \in Seq(Message)
        BY <4>1
      <4> HIDE DEF answer
      <4> QED
        BY <1>1, <2>1, <4>2, <4>3, <4>4, SendKeepsChannels
    <3> QED
      BY <3>1, <3>2
  <2>3. TableInv'
    <3>1. owed' \subseteq owed
      BY DEF Deliver
    <3> QED
      BY <1>1, <3>1 DEF TableInv, interests, trail, clients
  <2> QED
    BY <2>2, <2>3, SameEnds DEF interests
<1> QED
  BY <1>2, <1>3, <1>4

LEMMA DeviceSteps ==
    ASSUME NetworkInv,
           PullRequest \/ \E g \in Places : Move(g) \/ Leave(g)
    PROVE  NetworkInv'
<1> USE DEF NetworkInv
<1>1. requests \in Nat /\ device \in Gateways
  BY DEF ChannelInv, TableInv
<1>2. CASE PullRequest
  <2> DEFINE r == requests + 1
             ask == Msg("Request", r, device, {device})
  <2>1. /\ r \in Requests /\ requests' = r /\ side' = side
        /\ channel' = Sent(channel, device, Interested(device), <<ask>>)
    BY <1>2 DEF PullRequest
  <2>2. r \in Nat \ {0} /\ requests <= r /\ r <= MaxRequests
    BY <1>1, <2>1, ClientAssumption DEF Requests
  <2>3. ChannelInv'
    <3>1. ask \in Message
      BY <1>1, <2>2 DEF Msg, Message
    <3>2. ASSUME NEW b \in Interested(device), b \in Gateways
          PROVE  <<ask>> \in Seq(Good(device, b, r))
      <4>1. side[device][b] # "closed"
        BY <1>1, <3>2 DEF InterestsAreHandled, Handled
      <4>2. b \in Neighbours(device)
        BY <1>1, <3>2, <4>1 DEF ChannelInv, LinkInv
      <4>3. ask \in Good(device, b, r)
        BY <1>1, <2>2, <4>2, MessageIsGood
      <4> QED
        BY <4>3
    <3>3. <<ask>> \in Seq(Message)
      BY <3>1
    <3> HIDE DEF ask, r
    <3> QED
      BY <1>1, <2>1, <2>2, <3>2, <3>3, SendKeepsChannels
  <2>4. TableInv'
    <3>1. held' \in [Gateways -> SUBSET (1..requests')]
      BY <1>1, <1>2, <2>1 DEF PullRequest, Ask, TableInv
    <3>2. owed' \subseteq (1..requests') \X pullHandlers'
      BY <1>1, <1>2, <2>1 DEF PullRequest, TableInv, interests
    <3> QED
      BY <1>1, <1>2, <2>1, <2>2, <3>1, <3>2
      DEF PullRequest, TableInv, interests, clients
  <2> QED
    BY <1>2, <2>1, <2>3, <2>4, SameEnds DEF PullRequest, interests
<1>3. ASSUME NEW g \in Places, Move(g) \/ Leave(g)
      PROVE  NetworkInv'
  <2>1. UNCHANGED <<interests, links, requests>>
    BY <1>3 DEF Move, Leave, work
  <2>2. ChannelInv'
    BY <2>1 DEF ChannelInv, LinkInv, links
  <2>3. TableInv'
    BY <1>3, ClientAssumption
    DEF Move, Leave, ForgetPlugin, TableInv, interests, trail, work, ledger
  <2> QED
    BY <2>1, <2>2, <2>3, SameEnds DEF links, interests
<1> QED
  BY <1>2, <1>3

(* Links that are made and broken: a closed end has no registrations left. *)
LEMMA LinkSteps ==
    ASSUME NetworkInv,
           \/ \E g \in DOMAIN Parent : Connect(g)
           \/ \E g \in Gateways : \E n \in Neighbours(g) : Close(g, n)
    PROVE  NetworkInv'
<1> USE DEF NetworkInv
<1>1. /\ side \in [Gateways -> [Gateways -> {"closed", "open", "associated"}]]
      /\ requests \in Nat
      /\ crossGatewayPullRequestHandlers \in [Gateways -> [Gateways -> Nat]]
  BY DEF ChannelInv, LinkInv, TableInv
<1>2. \A a, b \in Gateways :
        crossGatewayPullRequestHandlers[a][b] > 0 => side[a][b] = "associated"
  BY DEF InterestsAreHandled, Interested, Handled
<1>3. ASSUME NEW g \in DOMAIN Parent, Connect(g)
      PROVE  NetworkInv'
  <2>1. OpenLink(g) /\ UNCHANGED <<interests, trail, clients, work, ledger>>
    BY <1>3 DEF Connect
  <2>2. ChannelInv'
    BY <2>1, OpenKeepsChannels DEF work
  <2>3. TableInv'
    BY <2>1 DEF TableInv, interests, trail, clients, work, ledger
  <2>4. \A a, b \in Gateways : side[a][b] = "associated" => side'[a][b] = "associated"
    <3>1. g \in Gateways /\ Parent[g] \in Gateways /\ Parent[g] # g
      BY TreeAssumption
    <3> QED
      BY <1>1, <2>1, <3>1 DEF OpenLink
  <2>5. InterestsAreHandled'
    BY <1>2, <2>1, <2>4 DEF InterestsAreHandled, Interested, Handled, interests
  <2> QED
    BY <2>2, <2>3, <2>5
<1>4. ASSUME NEW g \in Gateways, NEW n \in Neighbours(g), Close(g, n)
      PROVE  NetworkInv'
  <2>1. /\ CloseEnd(g, n, Retracted(g, n))
        /\ crossGatewayPullRequestHandlers' = Withdrawn(g, n)
        /\ cgPullRequestReturnIds' =
             [cgPullRequestReturnIds EXCEPT ![g] = IF @ = n THEN Nowhere ELSE @]
        /\ reached' = CutOff(g, n) /\ owed' = {}
        /\ UNCHANGED <<pullHandlers, plugins, clients, work, missed>>
    BY <1>4 DEF Close
  <2>2. n \in Gateways /\ n # g
    BY NeighbourBehind
  <2>3. ChannelInv'
    <3>1. UnregisterMsg \in Message /\ \A a, b : UnregisterMsg \in Good(a, b, requests)
      BY ControlMessages DEF Message
    <3>2. crossGatewayPullRequestHandlers[g][n] \in Nat
      BY <1>1, <2>2
    <3>3. /\ Retracted(g, n) \in Seq(Message)
          /\ \A a, b : Retracted(g, n) \in Seq(Good(a, b, requests))
      BY <3>1, <3>2 DEF Retracted
    <3>4. requests' = requests
      BY <2>1 DEF work
    <3> QED
      BY <2>1, <3>3, <3>4, CloseKeepsChannels
  <2>4. crossGatewayPullRequestHandlers' \in [Gateways -> [Gateways -> Nat]]
    BY <1>1, <2>1 DEF Withdrawn
  <2>5. TableInv'
    <3>1. reached' \in [Gateways -> SUBSET Gateways]
      BY <2>1 DEF TableInv, CutOff
    <3>2. cgPullRequestReturnIds' \in [Gateways -> Gateways \cup {Nowhere}]
      BY <2>1 DEF TableInv
    <3> QED
      BY <2>1, <2>4, <3>1, <3>2 DEF TableInv, clients, work
  <2>6. InterestsAreHandled'
    <3>1. \A a, b \in Gateways :
            /\ side'[a][b] = IF a = g /\ b = n THEN "closed" ELSE side[a][b]
            /\ crossGatewayPullRequestHandlers'[a][b] =
                 IF a = g /\ b = n THEN 0 ELSE crossGatewayPullRequestHandlers[a][b]
      BY <1>1, <2>1, <2>2 DEF CloseEnd, Withdrawn
    <3> QED
      BY <1>2, <3>1 DEF InterestsAreHandled, Interested, Handled
  <2> QED
    BY <2>3, <2>5, <2>6
<1> QED
  BY <1>3, <1>4

(* A (de)registration arrives, is counted, and goes on to the others.      *)
LEMMA ControlSteps ==
    ASSUME NetworkInv, NEW g \in Gateways, NEW n \in Neighbours(g),
           NEW i \in Arrivals(channel[n][g]),
           \/ ReceiveAssociate(g, n, i)
           \/ ReceiveRegister(g, n, i)
           \/ ReceiveUnregister(g, n, i)
    PROVE  NetworkInv'
<1> USE DEF NetworkInv
<1>1. /\ side \in [Gateways -> [Gateways -> {"closed", "open", "associated"}]]
      /\ requests \in Nat
      /\ crossGatewayPullRequestHandlers \in [Gateways -> [Gateways -> Nat]]
      /\ n \in Gateways
  BY NeighbourBehind DEF ChannelInv, LinkInv, TableInv
<1>2. \A a, b \in Gateways :
        crossGatewayPullRequestHandlers[a][b] > 0 => side[a][b] = "associated"
  BY DEF InterestsAreHandled, Interested, Handled
<1>3. CASE ReceiveAssociate(g, n, i)
  <2>1. ChannelInv'
    BY <1>1, <1>3, AssociateKeepsChannels
  <2>2. TableInv'
    BY <1>3 DEF ReceiveAssociate, TableInv, interests, trail, clients, work
  <2>3. \A a, b \in Gateways : side[a][b] = "associated" => side'[a][b] = "associated"
    BY <1>1, <1>3 DEF ReceiveAssociate
  <2>4. InterestsAreHandled'
    BY <1>2, <1>3, <2>3
    DEF ReceiveAssociate, InterestsAreHandled, Interested, Handled, interests
  <2> QED
    BY <2>1, <2>2, <2>4
<1>4. ASSUME NEW m \in {RegisterMsg, UnregisterMsg},
             channel[n][g][i] = m, Receive(g, n, i, Handled(g) \ {n}, <<m>>),
             \E c \in Nat : crossGatewayPullRequestHandlers' =
                            [crossGatewayPullRequestHandlers EXCEPT ![g][n] = c],
             UNCHANGED <<pullHandlers, side, trail, clients, work, ledger>>
      PROVE  NetworkInv'
  <2>1. m \in Message /\ (\A a, b : m \in Good(a, b, requests)) /\ m # AssociateMsg
    BY ControlMessages DEF Message
  <2> DEFINE told == <<m>>
  <2>2. told \in Seq(Message) /\ \A a, b : told \in Seq(Good(a, b, requests))
    BY <2>1
  <2>3. /\ Receive(g, n, i, Handled(g) \ {n}, told) /\ channel[n][g][i] # AssociateMsg
        /\ side' = side /\ requests' = requests
    BY <1>4, <2>1 DEF work
  <2> HIDE DEF told
  <2>4. ChannelInv'
    BY <1>1, <2>2, <2>3, ReceiveKeepsChannels
  <2>5. side[g][n] = "associated"
    BY <1>1, <2>3, OthersComeLater DEF Receive
  <2>6. TableInv'
    BY <1>1, <1>4 DEF TableInv, trail, clients, work, ledger
  <2>7. InterestsAreHandled'
    BY <1>1, <1>2, <1>4, <2>5 DEF InterestsAreHandled, Interested, Handled
  <2> QED
    BY <2>4, <2>6, <2>7
<1>5. CASE ReceiveRegister(g, n, i)
  <2> DEFINE c == crossGatewayPullRequestHandlers[g][n]
  <2>1. c + 1 \in Nat
    BY <1>1
  <2>2. crossGatewayPullRequestHandlers' =
          [crossGatewayPullRequestHandlers EXCEPT ![g][n] = c + 1]
    BY <1>1, <1>5 DEF ReceiveRegister, Counted
  <2> QED
    BY <1>4, <1>5, <2>1, <2>2 DEF ReceiveRegister
<1>6. CASE ReceiveUnregister(g, n, i)
  <2> DEFINE c == crossGatewayPullRequestHandlers[g][n]
  <2>1. (IF c = 0 THEN 0 ELSE c - 1) \in Nat
    BY <1>1
  <2> QED
    BY <1>1, <1>4, <1>6, <2>1 DEF ReceiveUnregister
<1> QED
  BY <1>3, <1>5, <1>6

(* A request or an answer arrives, and goes on to neighbours it did not    *)
(* come from.                                                              *)
LEMMA DataSteps ==
    ASSUME NetworkInv, NEW g \in Gateways, NEW n \in Neighbours(g),
           NEW i \in Arrivals(channel[n][g]),
           ReceiveRequest(g, n, i) \/ ReceiveResponse(g, n, i)
    PROVE  NetworkInv'
<1> USE DEF NetworkInv
<1> DEFINE m == channel[n][g][i]
           on == <<Through(g, m)>>
<1>1. n \in Gateways /\ requests \in Nat
  BY NeighbourBehind DEF ChannelInv
<1>2. side[g][n] # "closed" /\ m.type \in {"Request", "Response"}
  BY DEF ReceiveRequest, ReceiveResponse, Receive
<1>3. m # AssociateMsg /\ ~IsControl(m) /\ m \in Good(n, g, requests)
  BY <1>1, <1>2, OthersComeLater DEF AssociateMsg, IsControl
<1>4. m.request \in 1..requests
  BY <1>3 DEF Good
<1>5. ASSUME NEW b \in Gateways, side[g][b] # "closed", b # n
      PROVE  on \in Seq(Good(g, b, requests))
  <2>1. b \in Neighbours(g)
    BY <1>5 DEF ChannelInv, LinkInv
  <2>2. Through(g, m) \in Good(g, b, requests)
    BY <1>3, <1>5, <2>1, ThroughIsGood
  <2> QED
    BY <2>2
<1>6. on \in Seq(Message)
  <2>1. m \in [type : {"Request", "Response"}, request : Nat, from : Gateways,
                path : SUBSET Gateways]
    BY <1>3, ControlMessages DEF Good, Message
  <2>2. Through(g, m) \in Message
    BY <2>1 DEF Through, Message
  <2> QED
    BY <2>2
<1>7. ASSUME NEW to, Receive(g, n, i, to, on), UNCHANGED <<side, requests>>,
             \A b \in to : b \in Gateways => side[g][b] # "closed" /\ b # n
      PROVE  ChannelInv'
  <2>1. \A b \in to : b \in Gateways => on \in Seq(Good(g, b, requests))
    BY <1>5, <1>7
  <2>2. side' = side /\ requests' = requests
    BY <1>7
  <2> HIDE DEF on
  <2> QED
    BY <1>1, <1>3, <1>6, <1>7, <2>1, <2>2, ReceiveKeepsChannels
<1>8. CASE ReceiveRequest(g, n, i)
  <2>1. /\ Receive(g, n, i, NextHops(g, n), on) /\ Ask(g, m.request)
        /\ cgPullRequestReturnIds' = [cgPullRequestReturnIds EXCEPT ![g] = n]
        /\ UNCHANGED <<interests, plugins, clients, requests, ledger, side>>
    BY <1>8 DEF ReceiveRequest
  <2>2. \A b \in NextHops(g, n) : b \in Gateways => side[g][b] # "closed" /\ b # n
    BY DEF NextHops, InterestsAreHandled, Handled
  <2>3. ChannelInv'
    BY <1>7, <2>1, <2>2
  <2>4. TableInv'
    BY <1>1, <1>4, <2>1 DEF Ask, TableInv, interests, clients, ledger
  <2> QED
    BY <2>1, <2>3, <2>4, SameEnds DEF interests
<1>9. CASE ReceiveResponse(g, n, i)
  <2> DEFINE to == IF GivenToDevice(g) THEN {} ELSE ReturnHop(g, n)
  <2>1. /\ Receive(g, n, i, to, on) /\ Deliver(g, m.request, m.from)
        /\ UNCHANGED <<interests, trail, clients, work, reached, missed, side>>
    BY <1>9 DEF ReceiveResponse
  <2>2. \A b \in to : b \in Gateways => side[g][b] # "closed" /\ b # n
    BY DEF ReturnHop, Handled
  <2>3. ChannelInv'
    <3> HIDE DEF to
    <3> QED
      BY <1>7, <2>1, <2>2 DEF work
  <2>4. TableInv'
    <3>1. owed' \subseteq owed
      BY <2>1 DEF Deliver
    <3> QED
      BY <2>1, <3>1 DEF TableInv, interests, trail, clients, work
  <2> QED
    BY <2>1, <2>3, <2>4, SameEnds DEF interests
<1> QED
  BY <1>8, <1>9
-----------------------------------------------------------------------------
LEMMA NetworkInitially == Init => NetworkInv
<1> SUFFICES ASSUME Init PROVE NetworkInv
  OBVIOUS
<1>1. requests = 0 /\ LinksUp
  BY DEF Init
<1>2. /\ side \in [Gateways -> [Gateways -> {"closed", "open", "associated"}]]
      /\ \A g, n \in Gateways : /\ channel[g][n] = << >> /\ side[g][n] # "open"
                                /\ side[g][n] # "closed" => n \in Neighbours(g)
  BY <1>1 DEF LinksUp
<1>3. channel \in [Gateways -> [Gateways -> Seq(Message)]]
  <2>1. << >> \in Seq(Message)
    OBVIOUS
  <2> QED
    BY <1>1, <2>1 DEF LinksUp
<1>4. ChannelInv
  <2>1. \A g, n \in Gateways : << >> \in Seq(Good(g, n, requests))
    OBVIOUS
  <2> QED
    BY <1>1, <1>2, <1>3, <2>1 DEF ChannelInv, LinkInv
<1>5. TableInv
  <2>1. /\ crossGatewayPullRequestHandlers \in [Gateways -> [Gateways -> Nat]]
        /\ cgPullRequestReturnIds \in [Gateways -> Gateways \cup {Nowhere}]
        /\ held \in [Gateways -> SUBSET (1..requests)]
        /\ reached \in [Gateways -> SUBSET Gateways]
    BY DEF Init
  <2>2. requests \in 0..MaxRequests
    BY <1>1, ClientAssumption
  <2>3. /\ pullHandlers = {} /\ owed = {} /\ plugins = {} /\ missed = FALSE
        /\ device \in handlers /\ handlers \subseteq Gateways
    BY ClientAssumption DEF Init
  <2> QED
    BY <2>1, <2>2, <2>3 DEF TableInv
<1>6. InterestsAreHandled
  BY DEF Init, InterestsAreHandled, Interested
<1> QED
  BY <1>4, <1>5, <1>6 DEF NetworkInv

LEMMA NetworkStep == NetworkInv /\ [Next]_vars => NetworkInv'
<1> SUFFICES ASSUME NetworkInv, [Next]_vars PROVE NetworkInv'
  OBVIOUS
<1>1. CASE UNCHANGED vars
  BY <1>1 DEF vars, interests, trail, clients, work, ledger, links, NetworkInv,
     ChannelInv, LinkInv, TableInv, InterestsAreHandled, Interested, Handled
<1>2. CASE \E g \in Providers : \/ RegisterPullInterest(g)
                               \/ UnregisterPullInterest(g)
                               \/ \E r \in Requests : PullResponse(g, r)
  BY <1>2, ProviderSteps
<1>3. CASE PullRequest \/ \E g \in Places : Move(g) \/ Leave(g)
  BY <1>3, DeviceSteps
<1>4. CASE \/ \E g \in DOMAIN Parent : Connect(g)
           \/ \E g \in Gateways : \E n \in Neighbours(g) : Close(g, n)
  BY <1>4, LinkSteps
<1>5. ASSUME NEW g \in Gateways, NEW n \in Neighbours(g), ReceiveSome(g, n)
      PROVE  NetworkInv'
  BY <1>5, ControlSteps, DataSteps DEF ReceiveSome
<1> QED
  BY <1>1, <1>2, <1>3, <1>4, <1>5 DEF Next

(* The tables keep their types, and gateways that are not neighbours never *)
(* exchange a message, in whatever order connections are made and torn     *)
(* down and messages arrive at their handlers (GatewayCore.cpp).           *)
THEOREM NetworkTypeCorrect == Spec => []TypeOK
<1>1. NetworkInv => TypeOK
  BY DEF NetworkInv, ChannelInv, LinkInv, TableInv, TypeOK, LinksOK
<1> QED
  BY <1>1, NetworkInitially, NetworkStep, PTL DEF Spec

(* The pointer that GatewayCore takes out of crossGatewayHandlers for a    *)
(* neighbour with a registration is never NULL.                            *)
THEOREM InterestsAlwaysHandled == Spec => []InterestsAreHandled
<1>1. NetworkInv => InterestsAreHandled
  BY DEF NetworkInv
<1> QED
  BY <1>1, NetworkInitially, NetworkStep, PTL DEF Spec

(* No request and no answer is sent to a gateway that it has been through, *)
(* in a tree of any shape: the return ids of two gateways may point at     *)
(* each other, and still nothing runs in a circle.                         *)
THEOREM NothingReturns == Spec => []NoneReturns
<1>1. ASSUME NetworkInv
      PROVE  NoneReturns
  <2> SUFFICES ASSUME NEW g \in Gateways, NEW n \in Gateways,
                      NEW i \in DOMAIN channel[g][n], ~IsControl(channel[g][n][i])
               PROVE  n \notin channel[g][n][i].path
    BY DEF NoneReturns
  <2>1. channel[g][n][i] \in Good(g, n, requests) /\ channel[g][n] # << >>
    BY <1>1 DEF NetworkInv, ChannelInv, LinkInv
  <2>2. n \in Neighbours(g)
    BY <1>1, <2>1 DEF NetworkInv, ChannelInv, LinkInv, Neighbours
  <2> QED
    BY <2>1, <2>2, NeighbourBehind DEF Good
<1> QED
  BY <1>1, NetworkInitially, NetworkStep, PTL DEF Spec
-----------------------------------------------------------------------------
(***************************************************************************)
(* The way between two gateways.  Beyond(g, n) is one of the parts that    *)
(* the tree falls into without g.                                          *)
(***************************************************************************)
LEMMA SidesAreApart ==
    ASSUME NEW g \in Gateways, NEW n \in Neighbours(g)
    PROVE  Behind(g, n) \cap Behind(n, g) = {}
<1>1. CASE n \in DOMAIN Parent /\ Parent[n] = g
  <2>1. ~(g \in DOMAIN Parent /\ Parent[g] = n)
    <3>1. g \notin Below(n) /\ n \in Below(g) /\ n \in Gateways /\ g \in Gateways
      BY <1>1, ParentIsNotBelow, BelowOfChild, BelowIsClosed
    <3>2. g \in DOMAIN Parent /\ Parent[g] = n => n \notin Below(g)
      BY ParentIsNotBelow
    <3> QED
      BY <3>1, <3>2
  <2> QED
    BY <1>1, <2>1 DEF Behind
<1>2. CASE ~(n \in DOMAIN Parent /\ Parent[n] = g)
  BY <1>2 DEF Behind, Neighbours
<1> QED
  BY <1>1, <1>2

LEMMA BeyondIsClosed ==
    ASSUME NEW n \in Gateways, NEW g \in Neighbours(n)
    PROVE  /\ g \in Beyond(n, g) /\ Beyond(n, g) \subseteq Gateways
           /\ \A m \in Beyond(n, g) : Neighbours(m) \ {n} \subseteq Beyond(n, g)
<1>1. g \in Gateways /\ \A m : Neighbours(m) \subseteq Gateways
  BY NeighbourBehind DEF Neighbours
<1> QED
  BY <1>1 DEF Beyond

LEMMA BeyondIsLeast ==
    ASSUME NEW n, NEW g, NEW S \in SUBSET Gateways, g \in S,
           \A m \in S : Neighbours(m) \ {n} \subseteq S
    PROVE  Beyond(n, g) \subseteq S
  BY DEF Beyond

LEMMA BeyondIsBehind ==
    ASSUME NEW n \in Gateways, NEW g \in Neighbours(n)
    PROVE  Beyond(n, g) \subseteq Behind(g, n)
<1>1. g \in Gateways /\ n \in Neighbours(g)
  BY NeighbourBehind
<1>2. Behind(g, n) \subseteq Gateways /\ g \in Behind(g, n)
  BY <1>1, NeighbourBehind
<1>3. ASSUME NEW m \in Behind(g, n), NEW y \in Neighbours(m), y # n
      PROVE  y \in Behind(g, n)
  <2>1. m \in Gateways /\ y \in Gateways
    BY <1>2 DEF Neighbours
  <2>2. CASE g \in DOMAIN Parent /\ Parent[g] = n
    <3>1. Behind(g, n) = Below(g) /\ m \in Below(g)
      BY <2>2 DEF Behind
    <3>2. CASE y \in DOMAIN Parent /\ Parent[y] = m
      BY <1>1, <3>1, <3>2, BelowIsClosed DEF DownwardClosed
    <3>3. CASE m \in DOMAIN Parent /\ Parent[m] = y
      <4>1. m # g
        BY <1>3, <2>2, <3>3
      <4> QED
        BY <1>1, <3>1, <3>3, <4>1, BelowByParent
    <3> QED
      BY <3>2, <3>3 DEF Neighbours
  <2>3. CASE ~(g \in DOMAIN Parent /\ Parent[g] = n)
    <3>1. Behind(g, n) = Gateways \ Below(n) /\ m \notin Below(n)
      BY <2>3 DEF Behind
    <3>2. CASE y \in DOMAIN Parent /\ Parent[y] = m
      BY <1>3, <2>1, <3>1, <3>2, BelowByParent
    <3>3. CASE m \in DOMAIN Parent /\ Parent[m] = y
      BY <2>1, <3>1, <3>3, BelowIsClosed DEF DownwardClosed
    <3> QED
      BY <3>2, <3>3 DEF Neighbours
  <2> QED
    BY <2>2, <2>3
<1> QED
  BY <1>2, <1>3, BeyondIsLeast

LEMMA BeyondShrinks ==
    ASSUME NEW n \in Gateways, NEW g \in Neighbours(n), NEW k \in Neighbours(g), k # n
    PROVE  Beyond(g, k) \subseteq Beyond(n, g) \ {g}
<1> DEFINE S == Beyond(n, g) \ {g}
<1>1. g \in Gateways /\ n \in Neighbours(g) /\ k \in Gateways /\ k # g
  BY NeighbourBehind
<1>2. /\ g \in Beyond(n, g) /\ Beyond(n, g) \subseteq Gateways
      /\ \A m \in Beyond(n, g) : Neighbours(m) \ {n} \subseteq Beyond(n, g)
  BY BeyondIsClosed
<1>3. k \in S
  BY <1>1, <1>2
<1>4. ASSUME NEW m \in S, NEW y \in Neighbours(m), y # g
      PROVE  y \in S
  <2>1. CASE y = n
    <3>1. m \in Gateways /\ m \in Neighbours(n)
      BY <1>2, <2>1, NeighbourBehind
    <3>2. m \in Behind(m, n) /\ m \in Behind(g, n)
      BY <3>1, NeighbourBehind, BeyondIsBehind
    <3>3. Behind(m, n) \subseteq Behind(n, g)
      BY <3>1, BehindGrows
    <3> QED
      BY <1>1, <3>2, <3>3, SidesAreApart
  <2> QED
    BY <1>2, <1>4, <2>1
<1>5. S \subseteq Gateways
  BY <1>2
<1> HIDE DEF S
<1>6. Beyond(g, k) \subseteq S
  BY <1>3, <1>4, <1>5, BeyondIsLeast
<1> QED
  BY <1>6 DEF S

LEMMA BeyondSplits ==
    ASSUME NEW n \in Gateways, NEW g \in Neighbours(n)
    PROVE  Beyond(n, g) = {g} \cup UNION {Beyond(g, k) : k \in Neighbours(g) \ {n}}
<1> DEFINE S == {g} \cup UNION {Beyond(g, k) : k \in Neighbours(g) \ {n}}
<1>1. g \in Gateways
  BY NeighbourBehind
<1>2. S \subseteq Beyond(n, g)
  BY BeyondIsClosed, BeyondShrinks
<1>3. Beyond(n, g) \subseteq S
  <2>1. S \subseteq Gateways
    BY <1>2, BeyondIsClosed
  <2>2. ASSUME NEW m \in S, NEW y \in Neighbours(m), y # n
        PROVE  y \in S
    <3>1. CASE m = g
      BY <1>1, <2>2, <3>1, BeyondIsClosed
    <3>2. CASE m # g
      <4>1. PICK k \in Neighbours(g) \ {n} : m \in Beyond(g, k)
        BY <3>2
      <4>2. y = g \/ y \in Beyond(g, k)
        BY <1>1, <2>2, <4>1, BeyondIsClosed
      <4> QED
        BY <4>2
    <3> QED
      BY <3>1, <3>2
  <2>3. g \in S
    OBVIOUS
  <2> HIDE DEF S
  <2> QED
    BY <2>1, <2>2, <2>3, BeyondIsLeast
<1> QED
  BY <1>2, <1>3

(* A link leads out of what lies beyond it only at its own end.            *)
LEMMA OneWayIn ==
    ASSUME NEW n \in Gateways, NEW g \in Neighbours(n),
           NEW m \in Beyond(n, g), n \in Neighbours(m)
    PROVE  m = g
<1>1. SUFFICES ASSUME m # g PROVE FALSE
  OBVIOUS
<1>2. /\ m \in Gateways /\ m \in Neighbours(n)
      /\ g \in Gateways /\ n \in Neighbours(g)
  BY BeyondIsClosed, NeighbourBehind
<1>3. m \in Behind(m, n) /\ m \in Behind(g, n)
  BY <1>2, NeighbourBehind, BeyondIsBehind
<1>4. Behind(m, n) \subseteq Behind(n, g)
  BY <1>1, <1>2, BehindGrows
<1> QED
  BY <1>2, <1>3, <1>4, SidesAreApart

(* The two parts that a link joins are apart. *)
LEMMA BeyondEndsApart ==
    ASSUME NEW n \in Gateways, NEW g \in Neighbours(n)
    PROVE  Beyond(n, g) \cap Beyond(g, n) = {}
<1>1. g \in Gateways /\ n \in Neighbours(g)
  BY NeighbourBehind
<1> QED
  BY <1>1, BeyondIsBehind, SidesAreApart

(* What lies beyond a link that is itself beyond another, and faces away   *)
(* from it.                                                                *)
LEMMA Inside ==
    ASSUME NEW u \in Gateways, NEW v \in Neighbours(u),
           NEW y \in Gateways, NEW x \in Neighbours(y),
           x \in Beyond(u, v), u \notin Beyond(y, x)
    PROVE  Beyond(y, x) \subseteq Beyond(u, v)
<1> DEFINE S == Beyond(y, x) \cap Beyond(u, v)
<1>1. /\ x \in Beyond(y, x) /\ Beyond(y, x) \subseteq Gateways
      /\ \A m \in Beyond(y, x) : Neighbours(m) \ {y} \subseteq Beyond(y, x)
  BY BeyondIsClosed
<1>2. \A m \in Beyond(u, v) : Neighbours(m) \ {u} \subseteq Beyond(u, v)
  BY BeyondIsClosed
<1>3. x \in S /\ S \subseteq Gateways /\ \A m \in S : Neighbours(m) \ {y} \subseteq S
  BY <1>1, <1>2
<1> HIDE DEF S
<1>4. Beyond(y, x) \subseteq S
  BY <1>3, BeyondIsLeast
<1> QED
  BY <1>4 DEF S

(* The link from a to b is on the way from d to p.                         *)
OnWay(a, b, d, p) == b \in Neighbours(a) /\ d \in Beyond(b, a) /\ p \in Beyond(a, b)

(* There is a way: a next hop from x, and a last one to p.                 *)
Joined(x, p) ==
    x # p => /\ \E k \in Neighbours(x) : p \in Beyond(x, k)
             /\ \E u \in Neighbours(p) : x \in Beyond(p, u)

LEMMA WayTypes ==
    ASSUME NEW a \in Gateways, NEW b \in Gateways, NEW d, NEW p, OnWay(a, b, d, p)
    PROVE  /\ b \in Neighbours(a) /\ a \in Neighbours(b) /\ a # b
           /\ d \in Gateways /\ p \in Gateways
  BY NeighbourBehind, BeyondIsClosed DEF OnWay

LEMMA NoWay ==
    ASSUME NEW a \in Gateways, NEW b \in Gateways, NEW d
    PROVE  ~OnWay(a, b, d, d)
  BY BeyondEndsApart DEF OnWay

(* The way to b is the way to its neighbour a, and at most the link there. *)
LEMMA WayByLink ==
    ASSUME NEW a \in Gateways, NEW b \in Neighbours(a), NEW d,
           NEW u \in Gateways, NEW v \in Gateways, OnWay(u, v, d, b)
    PROVE  OnWay(u, v, d, a) \/ (u = a /\ v = b)
<1>1. v \in Neighbours(u) /\ b \in Beyond(u, v) /\ a \in Neighbours(b)
  BY NeighbourBehind DEF OnWay
<1>2. a \in Beyond(u, v) \/ a = u
  BY <1>1, BeyondIsClosed
<1>3. a = u => v = b
  BY <1>1, OneWayIn
<1> QED
  BY <1>2, <1>3 DEF OnWay

(* The way to a link on the way is part of the way.                        *)
LEMMA WayExtends ==
    ASSUME NEW a \in Gateways, NEW b \in Gateways, NEW d, NEW p, OnWay(a, b, d, p),
           NEW u \in Gateways, NEW v \in Gateways, OnWay(u, v, d, a)
    PROVE  OnWay(u, v, d, p)
<1>1. /\ b \in Neighbours(a) /\ a \in Neighbours(b)
      /\ d \in Beyond(b, a) /\ p \in Beyond(a, b)
      /\ v \in Neighbours(u) /\ d \in Beyond(v, u) /\ a \in Beyond(u, v)
  BY WayTypes DEF OnWay
<1>2. u \notin Beyond(a, b)
  <2>1. SUFFICES ASSUME u \in Beyond(a, b) PROVE FALSE
    OBVIOUS
  <2>2. u \notin Beyond(b, a)
    BY <1>1, <2>1, BeyondEndsApart
  <2>3. Beyond(b, a) \subseteq Beyond(u, v)
    BY <1>1, <2>2, Inside
  <2> QED
    BY <1>1, <2>3, BeyondEndsApart
<1>3. b \in Beyond(u, v)
  <2>1. b # u
    BY <1>1, <1>2, BeyondIsClosed
  <2> QED
    BY <1>1, <2>1, BeyondIsClosed
<1>4. Beyond(a, b) \subseteq Beyond(u, v)
  BY <1>1, <1>2, <1>3, Inside
<1> QED
  BY <1>1, <1>4 DEF OnWay

(* The way goes on at the end of a link on it, unless that is where it     *)
(* leads.                                                                  *)
LEMMA NextHop ==
    ASSUME NEW a \in Gateways, NEW b \in Gateways, NEW d, NEW p, OnWay(a, b, d, p), b # p
    PROVE  \E k \in Neighbours(b) \ {a} : OnWay(b, k, d, p)
<1>1. b \in Neighbours(a) /\ a \in Neighbours(b) /\ d \in Beyond(b, a) /\ p \in Beyond(a, b)
  BY WayTypes DEF OnWay
<1>2. PICK k \in Neighbours(b) \ {a} : p \in Beyond(b, k)
  BY <1>1, BeyondSplits
<1>3. k \in Gateways /\ b \in Neighbours(k)
  BY <1>2, NeighbourBehind
<1>4. d \in Beyond(k, b)
  BY <1>1, <1>2, <1>3, BeyondShrinks
<1> QED
  BY <1>2, <1>4 DEF OnWay

LEMMA FirstHop ==
    ASSUME NEW d \in Gateways, NEW p, Joined(d, p), d # p
    PROVE  \E k \in Neighbours(d) : OnWay(d, k, d, p)
<1>1. PICK k \in Neighbours(d) : p \in Beyond(d, k)
  BY DEF Joined
<1>2. d \in Beyond(k, d)
  BY NeighbourBehind, BeyondIsClosed
<1> QED
  BY <1>1, <1>2 DEF OnWay

(* The link that the way came by. *)
LEMMA HopBack ==
    ASSUME NEW a \in Gateways, NEW b \in Gateways, NEW d, NEW p, OnWay(a, b, d, p), a # d
    PROVE  \E u \in Neighbours(a) \ {b} : OnWay(u, a, d, a)
<1>1. b \in Neighbours(a) /\ a \in Neighbours(b) /\ d \in Beyond(b, a)
  BY WayTypes DEF OnWay
<1>2. PICK u \in Neighbours(a) \ {b} : d \in Beyond(a, u)
  BY <1>1, BeyondSplits
<1>3. u \in Gateways /\ a \in Neighbours(u)
  BY <1>2, NeighbourBehind
<1> QED
  BY <1>2, <1>3, BeyondIsClosed DEF OnWay

LEMMA LastHop ==
    ASSUME NEW d, NEW p \in Gateways, Joined(d, p), d # p
    PROVE  \E u \in Neighbours(p) : OnWay(u, p, d, p)
<1>1. PICK u \in Neighbours(p) : d \in Beyond(p, u)
  BY DEF Joined
<1>2. u \in Gateways /\ p \in Neighbours(u)
  BY NeighbourBehind
<1> QED
  BY <1>1, <1>2, BeyondIsClosed DEF OnWay

(* The way enters a gateway by one link, the only one that what came from  *)
(* d can have come by.                                                     *)
LEMMA WayInIsUnique ==
    ASSUME NEW g \in Gateways, NEW n \in Neighbours(g), NEW d, d \in Behind(n, g),
           NEW u \in Gateways, NEW x, OnWay(u, g, d, x)
    PROVE  u = n
<1>1. SUFFICES ASSUME u # n PROVE FALSE
  OBVIOUS
<1>2. u \in Neighbours(g) /\ d \in Beyond(g, u) /\ n \in Gateways /\ g \in Neighbours(n)
  BY WayTypes, NeighbourBehind DEF OnWay
<1>3. d \in Behind(u, g)
  BY <1>2, BeyondIsBehind
<1>4. Behind(u, g) \subseteq Behind(g, n)
  BY <1>1, <1>2, BehindGrows
<1> QED
  BY <1>2, <1>3, <1>4, SidesAreApart
-----------------------------------------------------------------------------
LEMMA WellOrder ==
    ASSUME NEW T \in SUBSET Nat, T # {}
    PROVE  \E x \in T : \A y \in T : x <= y
<1> DEFINE R == OpToRel(<, Nat)
<1>1. IsWellFoundedOn(R, Nat)
  BY NatLessThanWellFounded
<1>2. \A x, y \in Nat : y < x => <<y, x>> \in R
  BY DEF OpToRel
<1> HIDE DEF R
<1>3. PICK x \in T : \A y \in T : ~(<<y, x>> \in R)
  BY <1>1, WFMin
<1>4. ASSUME NEW y \in T
      PROVE  x <= y
  <2>1. ~(y < x)
    BY <1>2, <1>3, Zenon
  <2> QED
    BY <2>1
<1> QED
  BY <1>4

LEMMA SetInduction ==
    ASSUME NEW S, 0 \in S, \A n \in Nat : n \in S => n + 1 \in S
    PROVE  Nat \subseteq S
<1> DEFINE T == Nat \ S
<1>1. SUFFICES ASSUME T # {} PROVE FALSE
  OBVIOUS
<1>2. PICK x \in T : \A y \in T : x <= y
  BY <1>1, WellOrder
<1>3. x # 0 /\ x - 1 \in Nat /\ x - 1 \notin T
  BY <1>2
<1> QED
  BY <1>3

(* What a channel does to a count.  Applied is what one message does to    *)
(* it; Leads says that c becomes w, and is never asked to go below none,   *)
(* when the messages of q arrive in turn.                                  *)
Applied(c, m) ==
    IF m = RegisterMsg THEN c + 1 ELSE IF m = UnregisterMsg THEN c - 1 ELSE c

Traces(q) == {f \in [0..Len(q) -> Nat] :
                 \A i \in 1..Len(q) : f[i] = Applied(f[i - 1], q[i])}

Leads(c, q, w) == \E f \in Traces(q) : f[0] = c /\ f[Len(q)] = w

Without(q, i) == SubSeq(q, 1, i - 1) \o SubSeq(q, i + 1, Len(q))

LEMMA WithoutEffect ==
    ASSUME NEW S, NEW q \in Seq(S), NEW i \in DOMAIN q
    PROVE  /\ Without(q, i) \in Seq(S)
           /\ Len(q) \in Nat /\ i \in 1..Len(q)
           /\ Len(Without(q, i)) = Len(q) - 1
           /\ \A j \in 1..(Len(q) - 1) :
                Without(q, i)[j] = IF j < i THEN q[j] ELSE q[j + 1]
<1>1. Len(q) \in Nat /\ i \in 1..Len(q)
  OBVIOUS
<1> DEFINE a == SubSeq(q, 1, i - 1)
           b == SubSeq(q, i + 1, Len(q))
<1>2. /\ a \in Seq(S) /\ Len(a) = i - 1
      /\ \A j \in 1..(i - 1) : a[j] = q[j]
  BY <1>1
<1>3. /\ b \in Seq(S) /\ Len(b) = Len(q) - i
      /\ \A j \in 1..(Len(q) - i) : b[j] = q[i + j]
  BY <1>1
<1> HIDE DEF a, b
<1>4. /\ a \o b \in Seq(S) /\ Len(a \o b) = Len(q) - 1
      /\ \A j \in 1..(Len(q) - 1) :
           (a \o b)[j] = IF j <= i - 1 THEN a[j] ELSE b[j - (i - 1)]
  BY SMTT(40), <1>1, <1>2, <1>3
<1>5. ASSUME NEW j \in 1..(Len(q) - 1)
      PROVE  (a \o b)[j] = IF j < i THEN q[j] ELSE q[j + 1]
  <2>1. CASE j < i
    BY <1>1, <1>2, <1>4, <2>1
  <2>2. CASE ~(j < i)
    <3> DEFINE k == j - (i - 1)
    <3>1. k \in 1..(Len(q) - i) /\ i + k = j + 1 /\ ~(j <= i - 1)
      BY <1>1, <2>2
    <3>2. (a \o b)[j] = b[k]
      BY <1>4, <3>1
    <3> HIDE DEF k
    <3>3. b[k] = q[i + k]
      BY <1>3, <3>1
    <3> QED
      BY <2>2, <3>1, <3>2, <3>3
  <2> QED
    BY <2>1, <2>2
<1> QED
  BY <1>1, <1>4, <1>5 DEF Without, a, b

LEMMA LeadsNowhere ==
    ASSUME NEW c \in Nat
    PROVE  Leads(c, << >>, c)
<1> DEFINE q == << >>
           f == [i \in 0..0 |-> c]
<1>1. Len(q) = 0
  OBVIOUS
<1>2. f \in [0..Len(q) -> Nat] /\ f[0] = c /\ f[Len(q)] = c
  BY <1>1
<1>3. \A i \in 1..Len(q) : f[i] = Applied(f[i - 1], q[i])
  BY <1>1
<1> QED
  BY <1>2, <1>3 DEF Leads, Traces

LEMMA LeadsByOne ==
    ASSUME NEW c \in Nat, NEW m, Applied(c, m) \in Nat
    PROVE  Leads(c, <<m>>, Applied(c, m))
<1> DEFINE q == <<m>>
           f == [i \in 0..1 |-> IF i = 0 THEN c ELSE Applied(c, m)]
<1>1. Len(q) = 1 /\ q[1] = m
  OBVIOUS
<1>2. f \in [0..Len(q) -> Nat] /\ f[0] = c /\ f[Len(q)] = Applied(c, m)
  BY <1>1
<1>3. \A i \in 1..Len(q) : f[i] = Applied(f[i - 1], q[i])
  BY <1>1
<1> QED
  BY <1>2, <1>3 DEF Leads, Traces

LEMMA LeadsOn ==
    ASSUME NEW S, NEW q \in Seq(S), NEW p \in Seq(S), NEW c, NEW v, NEW w,
           Leads(c, q, v), Leads(v, p, w)
    PROVE  Leads(c, q \o p, w)
<1>1. PICK f \in [0..Len(q) -> Nat] :
        /\ f[0] = c /\ f[Len(q)] = v
        /\ \A i \in 1..Len(q) : f[i] = Applied(f[i - 1], q[i])
  BY DEF Leads, Traces
<1>2. PICK h \in [0..Len(p) -> Nat] :
        /\ h[0] = v /\ h[Len(p)] = w
        /\ \A i \in 1..Len(p) : h[i] = Applied(h[i - 1], p[i])
  BY DEF Leads, Traces
<1> DEFINE a == Len(q)
           b == Len(p)
           u == q \o p
           k == [i \in 0..(a + b) |-> IF i <= a THEN f[i] ELSE h[i - a]]
<1>3. a \in Nat /\ b \in Nat
  OBVIOUS
<1>4. /\ Len(u) = a + b
      /\ \A i \in 1..(a + b) : u[i] = IF i <= a THEN q[i] ELSE p[i - a]
  OBVIOUS
<1>5. k \in [0..(a + b) -> Nat] /\ k[0] = c /\ k[a + b] = w
  <2>1. \A i \in 0..(a + b) : ~(i <= a) => i - a \in 0..b
    BY <1>3
  <2>2. k[a + b] = w
    <3>1. CASE b = 0
      BY <1>1, <1>2, <1>3, <3>1
    <3>2. CASE b # 0
      BY <1>2, <1>3, <3>2
    <3> QED
      BY <3>1, <3>2
  <2> QED
    BY <1>1, <1>2, <1>3, <2>1, <2>2
<1>6. ASSUME NEW i \in 1..(a + b)
      PROVE  k[i] = Applied(k[i - 1], u[i])
  <2>1. CASE i <= a
    BY <1>1, <1>3, <1>4, <2>1
  <2>2. CASE i = a + 1
    <3>1. k[i] = h[1] /\ k[i - 1] = h[0] /\ u[i] = p[1] /\ 1 \in 1..b
      BY <1>1, <1>2, <1>3, <1>4, <2>2
    <3> QED
      BY <1>2, <3>1
  <2>3. CASE i > a + 1
    <3>1. k[i] = h[i - a] /\ k[i - 1] = h[(i - a) - 1] /\ u[i] = p[i - a] /\ i - a \in 1..b
      BY <1>3, <1>4, <2>3
    <3> QED
      BY <1>2, <3>1
  <2> QED
    BY <1>3, <2>1, <2>2, <2>3
<1> HIDE DEF k, u
<1> QED
  BY <1>4, <1>5, <1>6 DEF Leads, Traces, u

LEMMA QuietPrefix ==
    ASSUME NEW S, NEW q \in Seq(S), NEW f \in Traces(q),
           NEW k \in 0..Len(q),
           \A i \in 1..k : q[i] # RegisterMsg /\ q[i] # UnregisterMsg
    PROVE  \A j \in 0..k : f[j] = f[0]
<1> DEFINE T == {j \in Nat : j <= k => f[j] = f[0]}
<1>1. /\ Len(q) \in Nat /\ f \in [0..Len(q) -> Nat]
      /\ \A i \in 1..Len(q) : f[i] = Applied(f[i - 1], q[i])
  BY DEF Traces
<1>2. 0 \in T
  OBVIOUS
<1>3. ASSUME NEW j \in Nat, j \in T
      PROVE  j + 1 \in T
  <2>1. SUFFICES ASSUME j + 1 <= k PROVE f[j + 1] = f[0]
    OBVIOUS
  <2>2. j + 1 \in 1..Len(q) /\ j + 1 \in 1..k /\ f[j] = f[0] /\ (j + 1) - 1 = j
    BY <1>1, <1>3, <2>1
  <2>3. f[j + 1] = Applied(f[(j + 1) - 1], q[j + 1])
    BY <1>1, <2>2
  <2> QED
    BY <2>2, <2>3 DEF Applied
<1> HIDE DEF T
<1>4. Nat \subseteq T
  BY <1>2, <1>3, SetInduction
<1> QED
  BY <1>1, <1>4 DEF T

LEMMA LeadsWithout ==
    ASSUME NEW S, NEW q \in Seq(S), NEW i \in DOMAIN q, NEW c, NEW w,
           Leads(c, q, w),
           \A j \in 1..(i - 1) : q[j] # RegisterMsg /\ q[j] # UnregisterMsg
    PROVE  /\ Applied(c, q[i]) \in Nat
           /\ Leads(Applied(c, q[i]), Without(q, i), w)
<1>1. PICK f \in [0..Len(q) -> Nat] :
        /\ f[0] = c /\ f[Len(q)] = w
        /\ \A j \in 1..Len(q) : f[j] = Applied(f[j - 1], q[j])
  BY DEF Leads, Traces
<1> DEFINE n == Len(q)
           d == Applied(c, q[i])
           r == Without(q, i)
           h == [j \in 0..(n - 1) |-> IF j < i THEN d ELSE f[j + 1]]
<1>2. n \in Nat /\ i \in 1..n /\ i - 1 \in 0..n
  OBVIOUS
<1>3. \A j \in 0..(i - 1) : f[j] = c
  <2> DEFINE k == i - 1
  <2>0. k \in 0..Len(q) /\ \A j \in 1..k : q[j] # RegisterMsg /\ q[j] # UnregisterMsg
    BY <1>2
  <2> HIDE DEF k
  <2>1. f \in Traces(q)
    BY <1>1 DEF Traces
  <2>2. \A j \in 0..k : f[j] = f[0]
    BY <2>0, <2>1, QuietPrefix
  <2> QED
    BY <1>1, <2>2 DEF k
<1>4. f[i] = d /\ d \in Nat
  <2>1. f[i] = Applied(f[i - 1], q[i]) /\ f[i - 1] = c /\ f[i] \in Nat
    BY <1>1, <1>2, <1>3
  <2> QED
    BY <2>1
<1>5. /\ Len(r) = n - 1
      /\ \A j \in 1..(n - 1) : r[j] = IF j < i THEN q[j] ELSE q[j + 1]
  BY WithoutEffect
<1> HIDE DEF d, r
<1>6. h \in [0..(n - 1) -> Nat] /\ h[0] = d
  BY <1>2, <1>4
<1>7. h[n - 1] = w
  <2>1. CASE n - 1 < i
    <3>1. i = n /\ h[n - 1] = d
      BY <1>2, <2>1
    <3> QED
      BY <1>1, <1>4, <3>1
  <2>2. CASE ~(n - 1 < i)
    BY <1>1, <1>2, <2>2
  <2> QED
    BY <2>1, <2>2
<1>8. ASSUME NEW j \in 1..(n - 1)
      PROVE  h[j] = Applied(h[j - 1], r[j])
  <2>1. CASE j < i
    <3>1. h[j] = d /\ h[j - 1] = d /\ r[j] = q[j] /\ j \in 1..(i - 1)
      BY <1>2, <1>5, <2>1
    <3> QED
      BY <3>1 DEF Applied
  <2>2. CASE j = i
    <3>1. h[j] = f[i + 1] /\ h[j - 1] = d /\ r[j] = q[i + 1] /\ i + 1 \in 1..n /\ (i + 1) - 1 = i
      BY <1>2, <1>5, <2>2
    <3>2. f[i + 1] = Applied(f[(i + 1) - 1], q[i + 1])
      BY <1>1, <3>1
    <3> QED
      BY <1>4, <3>1, <3>2
  <2>3. CASE j > i
    <3>1. /\ h[j] = f[j + 1] /\ h[j - 1] = f[j] /\ r[j] = q[j + 1]
          /\ j + 1 \in 1..n /\ (j + 1) - 1 = j
      BY <1>2, <1>5, <2>3, SMTT(40)
    <3>2. f[j + 1] = Applied(f[(j + 1) - 1], q[j + 1])
      BY <1>1, <3>1
    <3> QED
      BY <3>1, <3>2
  <2> QED
    BY <1>2, <2>1, <2>2, <2>3
<1> HIDE DEF h
<1>9. Leads(d, r, w)
  BY <1>5, <1>6, <1>7, <1>8 DEF Leads, Traces
<1> QED
  BY <1>4, <1>9 DEF d, r

LEMMA LeadsQuietly ==
    ASSUME NEW S, NEW q \in Seq(S), NEW c, NEW w, Leads(c, q, w),
           \A i \in DOMAIN q : q[i] # RegisterMsg /\ q[i] # UnregisterMsg
    PROVE  c = w
<1>1. PICK f \in [0..Len(q) -> Nat] :
        /\ f[0] = c /\ f[Len(q)] = w
        /\ \A j \in 1..Len(q) : f[j] = Applied(f[j - 1], q[j])
  BY DEF Leads, Traces
<1>2. Len(q) \in 0..Len(q) /\ \A i \in 1..Len(q) : q[i] # RegisterMsg /\ q[i] # UnregisterMsg
  OBVIOUS
<1>3. f[Len(q)] = f[0]
  <2>1. f \in Traces(q)
    BY <1>1 DEF Traces
  <2> QED
    BY <1>2, <2>1, QuietPrefix
<1> QED
  BY <1>1, <1>3

(* Registrations: the entries of a gateway for its neighbours. *)
Entries(count) == UNION {{x} \X (1..count[x]) : x \in DOMAIN count}

LEMMA Column ==
    ASSUME NEW x, NEW k \in Nat
    PROVE  IsFiniteSet({x} \X (1..k)) /\ Cardinality({x} \X (1..k)) = k
<1>1. IsFiniteSet(1..k) /\ Cardinality(1..k) = k
  BY FS_Interval
<1>2. IsFiniteSet({x}) /\ Cardinality({x}) = 1
  BY FS_Singleton
<1>3. Cardinality({x} \X (1..k)) = 1 * k /\ IsFiniteSet({x} \X (1..k))
  BY ZenonT(40), <1>1, <1>2, FS_Product
<1> QED
  BY <1>3

LEMMA EntriesSplit ==
    ASSUME NEW D, NEW count \in [D -> Nat], NEW x \in D
    PROVE  LET rest == [y \in D \ {x} |-> count[y]] IN
           /\ Entries(count) = Entries(rest) \cup ({x} \X (1..count[x]))
           /\ Entries(rest) \cap ({x} \X (1..count[x])) = {}
  BY DEF Entries

LEMMA EntriesFinite ==
    ASSUME NEW D, IsFiniteSet(D), NEW count \in [D -> Nat]
    PROVE  IsFiniteSet(Entries(count)) /\ Cardinality(Entries(count)) \in Nat
<1> DEFINE columns == {{x} \X (1..count[x]) : x \in D}
           column == [x \in D |-> {x} \X (1..count[x])]
<1>1. column \in Surjection(D, columns)
  <2>1. column \in [D -> columns] /\ \A s \in columns : \E x \in D : column[x] = s
    OBVIOUS
  <2> QED
    BY <2>1, Fun_IsSurj
<1>2. IsFiniteSet(columns)
  BY <1>1, FS_Surjection
<1>3. \A s \in columns : IsFiniteSet(s)
  <2>1. \A x \in D : count[x] \in Nat
    OBVIOUS
  <2>2. \A x \in D : IsFiniteSet({x} \X (1..count[x]))
    BY <2>1, Column
  <2> QED
    BY <2>2
<1>4. IsFiniteSet(UNION columns)
  BY <1>2, <1>3, FS_UNION
<1> QED
  BY <1>4, FS_CardinalityType DEF Entries

LEMMA EntriesChange ==
    ASSUME NEW D, IsFiniteSet(D), NEW x \in D, NEW count \in [D -> Nat],
           NEW other \in [D -> Nat], \A y \in D \ {x} : other[y] = count[y]
    PROVE  Cardinality(Entries(other)) + count[x] = Cardinality(Entries(count)) + other[x]
<1> DEFINE rest == [y \in D \ {x} |-> count[y]]
<1>1. rest = [y \in D \ {x} |-> other[y]] /\ rest \in [D \ {x} -> Nat]
  OBVIOUS
<1>2. IsFiniteSet(Entries(rest)) /\ Cardinality(Entries(rest)) \in Nat
  BY <1>1, FS_RemoveElement, EntriesFinite
<1> HIDE DEF rest
<1>3. ASSUME NEW c \in [D -> Nat], rest = [y \in D \ {x} |-> c[y]]
      PROVE  Cardinality(Entries(c)) = Cardinality(Entries(rest)) + c[x]
  <2> DEFINE last == {x} \X (1..c[x])
  <2>1. Entries(c) = Entries(rest) \cup last /\ Entries(rest) \cap last = {}
    BY <1>3, EntriesSplit
  <2>2. IsFiniteSet(last) /\ Cardinality(last) = c[x] /\ c[x] \in Nat
    BY Column
  <2> HIDE DEF last
  <2>3. Cardinality(Entries(c)) = Cardinality(Entries(rest)) + Cardinality(last) - Cardinality({})
    BY <1>2, <2>1, <2>2, FS_Union
  <2> QED
    BY <1>2, <2>2, <2>3, FS_EmptySet
<1>4. /\ Cardinality(Entries(count)) = Cardinality(Entries(rest)) + count[x]
      /\ Cardinality(Entries(other)) = Cardinality(Entries(rest)) + other[x]
  BY <1>1, <1>3 DEF rest
<1> QED
  BY <1>2, <1>4

LEMMA LeadsDown ==
    ASSUME NEW v \in Nat, NEW k \in Nat, k <= v
    PROVE  Leads(v, [i \in 1..k |-> UnregisterMsg], v - k)
<1> DEFINE q == [i \in 1..k |-> UnregisterMsg]
           f == [i \in 0..k |-> v - i]
<1>1. Len(q) = k /\ \A i \in 1..k : q[i] = UnregisterMsg
  OBVIOUS
<1>2. UnregisterMsg # RegisterMsg
  BY DEF UnregisterMsg, RegisterMsg
<1>3. f \in [0..k -> Nat] /\ f[0] = v /\ f[k] = v - k
  OBVIOUS
<1>4. \A i \in 1..k : f[i] = Applied(f[i - 1], q[i])
  BY <1>1, <1>2 DEF Applied
<1> HIDE DEF q, f
<1>5. Leads(v, q, v - k)
  BY <1>1, <1>3, <1>4 DEF Leads, Traces
<1> QED
  BY <1>5 DEF q

(* What is on its way keeps the count from falling short: once all of q    *)
(* has arrived it is at least w, if on.                                    *)
Flows(c, q, on, w) == \E v \in Nat : Leads(c, q, v) /\ (on => w <= v)

LEMMA FlowsLess ==
    ASSUME NEW c, NEW q, NEW on, NEW also, NEW w \in Nat, NEW less \in Nat,
           Flows(c, q, on, w), less <= w, also => on
    PROVE  Flows(c, q, also, less)
  BY DEF Flows

(* A message that arrives, where no control message precedes it. *)
LEMMA FlowsOnArrival ==
    ASSUME NEW q \in Seq(Message), NEW i \in Arrivals(q), NEW c, NEW on, NEW w,
           Flows(c, q, on, w)
    PROVE  /\ Applied(c, q[i]) \in Nat
           /\ Flows(Applied(c, q[i]), Without(q, i), on, w)
<1>1. i \in DOMAIN q /\ \A j \in 1..(i - 1) : q[j] # RegisterMsg /\ q[j] # UnregisterMsg
  BY ControlMessages DEF Arrivals
<1>2. PICK v \in Nat : Leads(c, q, v) /\ (on => w <= v)
  BY DEF Flows
<1>3. Applied(c, q[i]) \in Nat /\ Leads(Applied(c, q[i]), Without(q, i), v)
  BY <1>1, <1>2, LeadsWithout
<1> QED
  BY <1>2, <1>3 DEF Flows

(* Messages that are sent. *)
LEMMA FlowsOnRegister ==
    ASSUME NEW q \in Seq(Message), NEW c, NEW w \in Nat, Flows(c, q, TRUE, w)
    PROVE  Flows(c, q \o <<RegisterMsg>>, TRUE, w + 1)
<1>1. PICK v \in Nat : Leads(c, q, v) /\ w <= v
  BY DEF Flows
<1>2. Applied(v, RegisterMsg) = v + 1 /\ v + 1 \in Nat
  BY DEF Applied
<1>3. Leads(v, <<RegisterMsg>>, v + 1)
  BY <1>2, LeadsByOne
<1>4. <<RegisterMsg>> \in Seq(Message)
  BY DEF Message
<1>5. Leads(c, q \o <<RegisterMsg>>, v + 1)
  BY <1>1, <1>3, <1>4, LeadsOn
<1> QED
  BY <1>1, <1>5 DEF Flows

LEMMA FlowsOnRetraction ==
    ASSUME NEW q \in Seq(Message), NEW c, NEW w \in Nat, Flows(c, q, TRUE, w),
           NEW k \in Nat, k <= w
    PROVE  Flows(c, q \o [i \in 1..k |-> UnregisterMsg], TRUE, w - k)
<1>1. PICK v \in Nat : Leads(c, q, v) /\ w <= v
  BY DEF Flows
<1> DEFINE down == [i \in 1..k |-> UnregisterMsg]
<1>2. Leads(v, down, v - k)
  BY <1>1, LeadsDown
<1>3. down \in Seq(Message)
  BY DEF Message
<1> HIDE DEF down
<1>4. Leads(c, q \o down, v - k)
  BY <1>1, <1>2, <1>3, LeadsOn
<1>5. v - k \in Nat /\ w - k <= v - k
  BY <1>1
<1> QED
  BY <1>4, <1>5 DEF Flows, down

LEMMA FlowsOnData ==
    ASSUME NEW q \in Seq(Message), NEW m \in Message, NEW c, NEW on, NEW w,
           m # RegisterMsg, m # UnregisterMsg, Flows(c, q, on, w)
    PROVE  Flows(c, q \o <<m>>, on, w)
<1>1. PICK v \in Nat : Leads(c, q, v) /\ (on => w <= v)
  BY DEF Flows
<1>2. Applied(v, m) = v
  BY DEF Applied
<1>3. Leads(v, <<m>>, v)
  BY <1>2, LeadsByOne
<1>4. <<m>> \in Seq(Message)
  OBVIOUS
<1>5. Leads(c, q \o <<m>>, v)
  BY <1>1, <1>3, <1>4, LeadsOn
<1> QED
  BY <1>1, <1>5 DEF Flows

(* Once every registration has arrived the count is what it must be.       *)
LEMMA FlowsWhenQuiet ==
    ASSUME NEW q \in Seq(Message), NEW c, NEW w \in Nat, Flows(c, q, TRUE, w),
           \A i \in DOMAIN q : ~IsControl(q[i])
    PROVE  c \in Nat /\ w <= c
<1>1. PICK v \in Nat : Leads(c, q, v) /\ w <= v
  BY DEF Flows
<1>2. \A i \in DOMAIN q : q[i] # RegisterMsg /\ q[i] # UnregisterMsg
  BY ControlMessages
<1>3. c = v
  BY <1>1, <1>2, LeadsQuietly
<1> QED
  BY <1>1, <1>3
-----------------------------------------------------------------------------
(* The registrations that b tells its neighbour a of: those that it has    *)
(* heard of from others, and its own.                                      *)
Heard(b, a) == [k \in Gateways |-> IF k = a THEN 0
                                   ELSE crossGatewayPullRequestHandlers[b][k]]

Told(b, a) == Cardinality(Entries(Heard(b, a))) + (IF b \in pullHandlers THEN 1 ELSE 0)

LEMMA ToldType ==
    ASSUME TableInv, NEW a \in Gateways, NEW b \in Gateways
    PROVE  /\ Heard(b, a) \in [Gateways -> Nat]
           /\ IsFiniteSet(Entries(Heard(b, a)))
           /\ Cardinality(Entries(Heard(b, a))) \in Nat /\ Told(b, a) \in Nat
<1>1. Heard(b, a) \in [Gateways -> Nat]
  BY DEF Heard, TableInv
<1>2. /\ IsFiniteSet(Entries(Heard(b, a)))
      /\ Cardinality(Entries(Heard(b, a))) \in Nat
  BY <1>1, TreeAssumption, EntriesFinite
<1> QED
  BY <1>1, <1>2 DEF Told

LEMMA ToldAtLeast ==
    ASSUME TableInv, NEW a \in Gateways, NEW b \in Gateways
    PROVE  /\ b \in pullHandlers => 1 <= Told(b, a)
           /\ \A k \in Gateways \ {a} : crossGatewayPullRequestHandlers[b][k] <= Told(b, a)
<1> DEFINE E == Entries(Heard(b, a))
<1>1. IsFiniteSet(E) /\ Cardinality(E) \in Nat
  BY ToldType
<1>2. ASSUME NEW k \in Gateways \ {a}
      PROVE  crossGatewayPullRequestHandlers[b][k] <= Cardinality(E)
  <2> DEFINE c == crossGatewayPullRequestHandlers[b][k]
             column == {k} \X (1..c)
  <2>1. c \in Nat
    BY DEF TableInv
  <2>2. column \subseteq E
    BY DEF Entries, Heard
  <2>3. IsFiniteSet(column) /\ Cardinality(column) = c
    BY <2>1, Column
  <2> HIDE DEF E, column, c
  <2>4. Cardinality(column) <= Cardinality(E)
    BY <1>1, <2>2, FS_Subset
  <2> QED
    BY <2>3, <2>4 DEF c
<1>3. \A k \in Gateways \ {a} : crossGatewayPullRequestHandlers[b][k] \in Nat
  BY DEF TableInv
<1> QED
  BY <1>1, <1>2, <1>3 DEF Told

LEMMA ToldNothing ==
    ASSUME NEW a \in Gateways, NEW b \in Gateways, b \notin pullHandlers,
           \A k \in Gateways : crossGatewayPullRequestHandlers[b][k] = 0
    PROVE  Told(b, a) = 0
<1>1. Entries(Heard(b, a)) = {}
  BY DEF Entries, Heard
<1> QED
  BY <1>1, FS_EmptySet DEF Told

LEMMA ToldSame ==
    ASSUME NEW a \in Gateways, NEW b \in Gateways,
           crossGatewayPullRequestHandlers'[b] = crossGatewayPullRequestHandlers[b],
           b \in pullHandlers' <=> b \in pullHandlers
    PROVE  Told(b, a)' = Told(b, a)
  BY DEF Told, Heard

(* A change of one count changes what the others are told by as much.      *)
CountsNow(g, n, k) ==
    /\ crossGatewayPullRequestHandlers' =
          [crossGatewayPullRequestHandlers EXCEPT ![g][n] = k]
    /\ pullHandlers' = pullHandlers

LEMMA ToldChange ==
    ASSUME TableInv, NEW g \in Gateways, NEW n \in Gateways, NEW k \in Nat,
           CountsNow(g, n, k), NEW a \in Gateways
    PROVE  /\ a = n => Told(g, a)' = Told(g, a)
           /\ a # n => /\ Told(g, a)' \in Nat
                       /\ Told(g, a)' + crossGatewayPullRequestHandlers[g][n]
                            = Told(g, a) + k
<1> DEFINE old == Heard(g, a)
           new == Heard(g, a)'
           c == crossGatewayPullRequestHandlers[g][n]
<1>1. crossGatewayPullRequestHandlers \in [Gateways -> [Gateways -> Nat]]
  BY DEF TableInv
<1>2. c \in Nat
  BY <1>1
<1>3. new = [old EXCEPT ![n] = IF n = a THEN 0 ELSE k] /\ pullHandlers' = pullHandlers
  BY <1>1 DEF Heard, CountsNow
<1>4. old \in [Gateways -> Nat] /\ old[n] = IF n = a THEN 0 ELSE c
  BY <1>1 DEF Heard
<1>5. CASE a = n
  <2>1. new = old
    BY <1>3, <1>4, <1>5
  <2> QED
    BY <1>3, <1>5, <2>1 DEF Told
<1>6. CASE a # n
  <2>1. /\ new \in [Gateways -> Nat] /\ new[n] = k /\ old[n] = c
        /\ \A y \in Gateways \ {n} : new[y] = old[y]
    BY <1>3, <1>4, <1>6
  <2> HIDE DEF old, new, c
  <2>2. Cardinality(Entries(new)) + c = Cardinality(Entries(old)) + k
    BY <1>4, <2>1, TreeAssumption, EntriesChange
  <2>3. Cardinality(Entries(new)) \in Nat /\ Cardinality(Entries(old)) \in Nat
    BY <1>4, <2>1, TreeAssumption, EntriesFinite
  <2> DEFINE own == IF g \in pullHandlers THEN 1 ELSE 0
  <2>4. /\ Told(g, a) = Cardinality(Entries(old)) + own
        /\ Told(g, a)' = Cardinality(Entries(new)) + own
    BY <1>3 DEF Told, old, new
  <2>5. own \in Nat
    OBVIOUS
  <2> HIDE DEF own
  <2>6. /\ Told(g, a)' \in Nat
        /\ Told(g, a)' + c = Told(g, a) + k
    BY <1>2, <2>2, <2>3, <2>4, <2>5
  <2> QED
    BY <1>6, <2>6 DEF c
<1> QED
  BY <1>5, <1>6
-----------------------------------------------------------------------------
(* What the steps do to the channels. *)
LEMMA ChannelType ==
    ASSUME NetworkInv
    PROVE  /\ channel \in [Gateways -> [Gateways -> Seq(Message)]]
           /\ side \in [Gateways -> [Gateways -> {"closed", "open", "associated"}]]
           /\ crossGatewayPullRequestHandlers \in [Gateways -> [Gateways -> Nat]]
           /\ requests \in Nat /\ device \in Gateways
           /\ \A g, n \in Gateways : side[g][n] # "closed" => n \in Neighbours(g)
           /\ \A g, n \in Gateways : \A i \in DOMAIN channel[g][n] :
                channel[g][n][i] \in Good(g, n, requests)
<1>1. LinkInv(side, channel, requests) /\ requests \in Nat /\ TableInv
  BY DEF NetworkInv, ChannelInv
<1>2. \A g, n \in Gateways : channel[g][n] \in Seq(Good(g, n, requests))
  BY <1>1 DEF LinkInv
<1>3. \A g, n \in Gateways : \A i \in DOMAIN channel[g][n] :
        channel[g][n][i] \in Good(g, n, requests)
  BY <1>2
<1>4. device \in Gateways /\ crossGatewayPullRequestHandlers \in [Gateways -> [Gateways -> Nat]]
  BY <1>1 DEF TableInv
<1> QED
  BY <1>1, <1>3, <1>4 DEF LinkInv

LEMMA ReceiveEffect ==
    ASSUME NetworkInv, NEW g \in Gateways, NEW n \in Neighbours(g),
           NEW i \in Arrivals(channel[n][g]), NEW to, NEW msgs,
           Receive(g, n, i, to, msgs)
    PROVE  /\ channel'[n][g] = Without(channel[n][g], i)
           /\ \A a, b \in Gateways : ~(a = g /\ b = n) =>
                channel'[b][a] = IF b = g /\ a \in to /\ side[a][b] # "closed"
                                 THEN channel[b][a] \o msgs ELSE channel[b][a]
<1> DEFINE rest == [channel EXCEPT ![n][g] = Without(channel[n][g], i)]
<1>1. n \in Gateways /\ n # g /\ channel \in [Gateways -> [Gateways -> Seq(Message)]]
  BY NeighbourBehind, ChannelType
<1>2. channel' = Sent(rest, g, to, msgs)
  BY DEF Receive, Without
<1>3. Without(channel[n][g], i) \in Seq(Message)
  <2>1. channel[n][g] \in Seq(Message) /\ i \in DOMAIN channel[n][g]
    BY <1>1 DEF Arrivals
  <2> QED
    BY <2>1, WithoutEffect
<1>4. rest \in [Gateways -> [Gateways -> Seq(Message)]]
  BY <1>1, <1>3
<1>5. \A a, b \in Gateways :
        rest[b][a] = IF a = g /\ b = n THEN Without(channel[n][g], i) ELSE channel[b][a]
  BY <1>1
<1> HIDE DEF rest
<1>6. \A a, b \in Gateways :
        channel'[b][a] = IF b = g /\ a \in to /\ side[a][b] # "closed"
                         THEN rest[b][a] \o msgs ELSE rest[b][a]
  BY <1>2, <1>4 DEF Sent
<1> QED
  BY <1>1, <1>5, <1>6

LEMMA CloseEffect ==
    ASSUME NetworkInv, NEW g \in Gateways, NEW n \in Neighbours(g), NEW msgs,
           CloseEnd(g, n, msgs)
    PROVE  \A a, b \in Gateways :
             /\ side'[a][b] = IF a = g /\ b = n THEN "closed" ELSE side[a][b]
             /\ ~(a = g /\ b = n) =>
                  channel'[b][a] =
                    IF b = g /\ a # n /\ side[g][a] = "associated" /\ side[a][g] # "closed"
                    THEN channel[b][a] \o msgs ELSE channel[b][a]
<1> DEFINE rest == [channel EXCEPT ![n][g] = << >>]
<1>1. /\ n \in Gateways /\ n # g /\ channel \in [Gateways -> [Gateways -> Seq(Message)]]
      /\ side \in [Gateways -> [Gateways -> {"closed", "open", "associated"}]]
  BY NeighbourBehind, ChannelType
<1>2. << >> \in Seq(Message)
  OBVIOUS
<1>3. rest \in [Gateways -> [Gateways -> Seq(Message)]]
  BY <1>1, <1>2
<1>4. \A a, b \in Gateways : ~(a = g /\ b = n) => rest[b][a] = channel[b][a]
  BY <1>1
<1>5. channel' = Sent(rest, g, Handled(g) \ {n}, msgs)
  BY DEF CloseEnd
<1> HIDE DEF rest
<1>6. \A a, b \in Gateways :
        channel'[b][a] = IF b = g /\ a \in Handled(g) \ {n} /\ side[a][b] # "closed"
                         THEN rest[b][a] \o msgs ELSE rest[b][a]
  BY <1>3, <1>5 DEF Sent
<1>7. \A a, b \in Gateways : side'[a][b] = IF a = g /\ b = n THEN "closed" ELSE side[a][b]
  BY <1>1 DEF CloseEnd
<1> QED
  BY <1>4, <1>6, <1>7 DEF Handled

LEMMA OpenEffect ==
    ASSUME NetworkInv, NEW g \in DOMAIN Parent, OpenLink(g)
    PROVE  LET n == Parent[g] IN
           /\ g \in Gateways /\ n \in Gateways
           /\ side[g][n] = "closed" /\ side[n][g] = "closed"
           /\ \A a, b \in Gateways :
                IF (a = g /\ b = n) \/ (a = n /\ b = g)
                THEN side'[a][b] = "open" /\ channel'[a][b] = <<AssociateMsg>>
                ELSE side'[a][b] = side[a][b] /\ channel'[a][b] = channel[a][b]
<1> DEFINE n == Parent[g]
           one == <<AssociateMsg>>
<1>1. /\ channel \in [Gateways -> [Gateways -> Seq(Message)]]
      /\ side \in [Gateways -> [Gateways -> {"closed", "open", "associated"}]]
  BY ChannelType
<1>2. g \in Gateways /\ n \in Gateways /\ n # g
  BY TreeAssumption
<1>3. /\ side[g][n] = "closed" /\ side[n][g] = "closed"
      /\ side' = [side EXCEPT ![g][n] = "open", ![n][g] = "open"]
      /\ channel' = [channel EXCEPT ![g][n] = one, ![n][g] = one]
  BY DEF OpenLink
<1> HIDE DEF n, one
<1>4. \A a, b \in Gateways :
        IF (a = g /\ b = n) \/ (a = n /\ b = g)
        THEN side'[a][b] = "open" /\ channel'[a][b] = one
        ELSE side'[a][b] = side[a][b] /\ channel'[a][b] = channel[a][b]
  BY <1>1, <1>2, <1>3
<1> QED
  BY <1>2, <1>3, <1>4 DEF n, one

LEMMA ThroughType ==
    ASSUME NEW g \in Gateways, NEW m \in Message, ~IsControl(m)
    PROVE  /\ Through(g, m) \in Message /\ ~IsControl(Through(g, m))
           /\ Through(g, m).type = m.type /\ Through(g, m).request = m.request
           /\ Through(g, m).from = m.from
<1>1. m \in [type : {"Request", "Response"}, request : Nat, from : Gateways,
            path : SUBSET Gateways]
  BY ControlMessages DEF Message
<1> QED
  BY <1>1 DEF Through, Message, IsControl

LEMMA MsgType ==
    ASSUME NEW type \in {"Request", "Response"}, NEW r \in Nat, NEW g \in Gateways
    PROVE  LET m == Msg(type, r, g, {g}) IN
           /\ m \in Message /\ ~IsControl(m)
           /\ m.type = type /\ m.request = r /\ m.from = g
  BY DEF Msg, Message, IsControl
-----------------------------------------------------------------------------
(* Between gateways that know each other the count of one and what is on   *)
(* its way to it never fall short of what the other tells it, unless a     *)
(* registration was missed when the link came up.                          *)
FlowAt(a, b) ==
    side[a][b] # "closed" =>
        Flows(crossGatewayPullRequestHandlers[a][b], channel[b][a],
              side[b][a] = "associated", Told(b, a))

FlowInv == ~missed => \A a, b \in Gateways : FlowAt(a, b)

(* Requests and answers do not change the counts. *)
LEMMA FlowByData ==
    ASSUME NetworkInv, FlowInv, UNCHANGED <<interests, side, missed>>,
           \A a, b \in Gateways :
             \/ channel'[b][a] = channel[b][a]
             \/ \E m \in Message : ~IsControl(m) /\ channel'[b][a] = channel[b][a] \o <<m>>
             \/ \E i \in Arrivals(channel[b][a]) :
                  ~IsControl(channel[b][a][i]) /\ channel'[b][a] = Without(channel[b][a], i)
    PROVE  FlowInv'
<1> SUFFICES ASSUME ~missed', NEW a \in Gateways, NEW b \in Gateways,
                    side'[a][b] # "closed"
             PROVE  Flows(crossGatewayPullRequestHandlers'[a][b], channel'[b][a],
                          side'[b][a] = "associated", Told(b, a)')
  BY DEF FlowInv, FlowAt
<1> DEFINE q == channel[b][a]
           c == crossGatewayPullRequestHandlers[a][b]
           on == side[b][a] = "associated"
           w == Told(b, a)
<1>1. /\ side' = side /\ missed' = missed /\ pullHandlers' = pullHandlers
      /\ crossGatewayPullRequestHandlers' = crossGatewayPullRequestHandlers
  BY DEF interests
<1>2. Flows(c, q, on, w) /\ q \in Seq(Message)
  BY <1>1, ChannelType DEF FlowInv, FlowAt
<1>3. Told(b, a)' = w
  BY <1>1, ToldSame
<1>4. crossGatewayPullRequestHandlers'[a][b] = c /\ (side'[b][a] = "associated") = on
  BY <1>1
<1>5. \/ channel'[b][a] = q
      \/ \E m \in Message : ~IsControl(m) /\ channel'[b][a] = q \o <<m>>
      \/ \E i \in Arrivals(q) : ~IsControl(q[i]) /\ channel'[b][a] = Without(q, i)
  OBVIOUS
<1> HIDE DEF q, c, on, w
<1>6. ASSUME NEW m \in Message, ~IsControl(m)
      PROVE  Flows(c, q \o <<m>>, on, w)
  <2>1. m # RegisterMsg /\ m # UnregisterMsg
    BY <1>6, ControlMessages
  <2> QED
    BY <1>2, <2>1, FlowsOnData
<1>7. ASSUME NEW i \in Arrivals(q), ~IsControl(q[i])
      PROVE  Flows(c, Without(q, i), on, w)
  <2>1. q[i] # RegisterMsg /\ q[i] # UnregisterMsg
    BY <1>7, ControlMessages
  <2>2. Applied(c, q[i]) = c
    BY <2>1 DEF Applied
  <2> QED
    BY <1>2, <2>2, FlowsOnArrival
<1>8. Flows(c, channel'[b][a], on, w)
  BY <1>2, <1>5, <1>6, <1>7
<1> QED
  BY <1>3, <1>4, <1>8

(* Requests, answers and the device. *)
LEMMA FlowDataSteps ==
    ASSUME NetworkInv, FlowInv,
           \/ PullRequest
           \/ \E g \in Places : Move(g) \/ Leave(g)
           \/ \E g \in Providers : \E r \in Requests : PullResponse(g, r)
           \/ \E g \in Gateways : \E n \in Neighbours(g) :
                \E i \in Arrivals(channel[n][g]) :
                   ReceiveRequest(g, n, i) \/ ReceiveResponse(g, n, i)
    PROVE  FlowInv'
<1>1. /\ channel \in [Gateways -> [Gateways -> Seq(Message)]]
      /\ requests \in Nat /\ device \in Gateways
  BY ChannelType
<1>2. ASSUME NEW g, NEW to, NEW m \in Message, ~IsControl(m),
             channel' = Sent(channel, g, to, <<m>>), UNCHANGED <<interests, side, missed>>
      PROVE  FlowInv'
  <2> DEFINE sent == <<m>>
  <2>1. channel' = Sent(channel, g, to, sent)
    BY <1>2
  <2> HIDE DEF sent
  <2>2. \A a, b \in Gateways :
          channel'[b][a] = channel[b][a] \/ channel'[b][a] = channel[b][a] \o sent
    BY <1>1, <2>1 DEF Sent
  <2> QED
    BY <1>2, <2>2, FlowByData DEF sent
<1>3. CASE PullRequest
  <2> DEFINE m == Msg("Request", requests + 1, device, {device})
  <2>1. /\ channel' = Sent(channel, device, Interested(device), <<m>>)
        /\ UNCHANGED <<interests, side, missed>>
    BY <1>3 DEF PullRequest
  <2>2. m \in Message /\ ~IsControl(m)
    BY <1>1, MsgType
  <2> HIDE DEF m
  <2> QED
    BY <1>2, <2>1, <2>2
<1>4. CASE \E g \in Places : Move(g) \/ Leave(g)
  <2>1. UNCHANGED <<interests, side, missed, channel>>
    BY <1>4 DEF Move, Leave, links, ledger
  <2> QED
    BY <2>1, FlowByData
<1>5. ASSUME NEW g \in Providers, NEW r \in Requests, PullResponse(g, r)
      PROVE  FlowInv'
  <2> DEFINE m == Msg("Response", r, g, {g})
  <2>1. UNCHANGED <<interests, side, missed>>
    BY <1>5 DEF PullResponse
  <2>2. channel' = channel \/ channel' = Sent(channel, g, ReturnHop(g, g), <<m>>)
    BY <1>5 DEF PullResponse
  <2>3. m \in Message /\ ~IsControl(m)
    BY ClientAssumption, MsgType DEF Requests
  <2> HIDE DEF m
  <2>4. CASE channel' = channel
    BY <2>1, <2>4, FlowByData
  <2> QED
    BY <1>2, <2>1, <2>2, <2>3, <2>4
<1>6. ASSUME NEW g \in Gateways, NEW n \in Neighbours(g), NEW i \in Arrivals(channel[n][g]),
             ReceiveRequest(g, n, i) \/ ReceiveResponse(g, n, i)
      PROVE  FlowInv'
  <2> DEFINE m == channel[n][g][i]
             on == <<Through(g, m)>>
  <2>1. m.type \in {"Request", "Response"} /\ UNCHANGED <<interests, side, missed>>
    BY <1>6 DEF ReceiveRequest, ReceiveResponse, ledger
  <2>2. \E to : Receive(g, n, i, to, on)
    BY <1>6 DEF ReceiveRequest, ReceiveResponse
  <2>3. n \in Gateways /\ i \in DOMAIN channel[n][g]
    BY NeighbourBehind DEF Arrivals
  <2>4. m \in Message /\ ~IsControl(m)
    <3>1. m \in Good(n, g, requests)
      BY <2>3, ChannelType
    <3> QED
      BY <2>1, <3>1 DEF IsControl, Good
  <2>5. Through(g, m) \in Message /\ ~IsControl(Through(g, m))
    BY <2>4, ThroughType
  <2> HIDE DEF m, on
  <2>6. PICK to : Receive(g, n, i, to, on)
    BY <2>2
  <2>7. /\ channel'[n][g] = Without(channel[n][g], i)
        /\ \A a, b \in Gateways : ~(a = g /\ b = n) =>
             channel'[b][a] = IF b = g /\ a \in to /\ side[a][b] # "closed"
                              THEN channel[b][a] \o on ELSE channel[b][a]
    BY <2>6, ReceiveEffect
  <2>8. \A a, b \in Gateways :
          \/ channel'[b][a] = channel[b][a]
          \/ \E x \in Message : ~IsControl(x) /\ channel'[b][a] = channel[b][a] \o <<x>>
          \/ \E j \in Arrivals(channel[b][a]) :
               ~IsControl(channel[b][a][j]) /\ channel'[b][a] = Without(channel[b][a], j)
    BY <2>4, <2>5, <2>7 DEF m, on
  <2> QED
    BY <2>1, <2>8, FlowByData
<1> QED
  BY <1>3, <1>4, <1>5, <1>6

(* A provider that registers tells every neighbour that is to know.        *)
LEMMA FlowProviderSteps ==
    ASSUME NetworkInv, FlowInv, NEW g \in Providers,
           RegisterPullInterest(g) \/ UnregisterPullInterest(g)
    PROVE  FlowInv'
<1>1. /\ g \in Gateways /\ TableInv
      /\ channel \in [Gateways -> [Gateways -> Seq(Message)]]
  BY ClientAssumption, ChannelType DEF NetworkInv
<1>2. /\ side' = side /\ missed' = missed
      /\ crossGatewayPullRequestHandlers' = crossGatewayPullRequestHandlers
  BY DEF RegisterPullInterest, UnregisterPullInterest, links
<1> SUFFICES ASSUME ~missed', NEW a \in Gateways, NEW b \in Gateways, side'[a][b] # "closed"
             PROVE  Flows(crossGatewayPullRequestHandlers'[a][b], channel'[b][a],
                          side'[b][a] = "associated", Told(b, a)')
  BY DEF FlowInv, FlowAt
<1> DEFINE q == channel[b][a]
           c == crossGatewayPullRequestHandlers[a][b]
           on == side[b][a] = "associated"
           w == Told(b, a)
<1>3. Flows(c, q, on, w) /\ q \in Seq(Message)
  BY <1>1, <1>2 DEF FlowInv, FlowAt
<1>4. w \in Nat
  BY <1>1, ToldType
<1>5. crossGatewayPullRequestHandlers'[a][b] = c /\ (side'[b][a] = "associated") = on
  BY <1>2
<1>6. CASE RegisterPullInterest(g)
  <2> DEFINE told == <<RegisterMsg>>
  <2>1. /\ g \notin pullHandlers /\ pullHandlers' = pullHandlers \cup {g}
        /\ channel' = Sent(channel, g, Handled(g), told)
    BY <1>6 DEF RegisterPullInterest
  <2> HIDE DEF told
  <2>2. channel'[b][a] = IF b = g /\ side[b][a] = "associated" THEN q \o told ELSE q
    BY <1>1, <1>2, <2>1 DEF Sent, Handled
  <2>3. CASE b = g
    <3>1. Told(b, a)' = w + 1
      <4>1. Heard(b, a)' = Heard(b, a) /\ b \notin pullHandlers /\ b \in pullHandlers'
        BY <1>2, <2>1, <2>3 DEF Heard
      <4> QED
        BY <1>1, <4>1, ToldType DEF Told
    <3>2. CASE on
      <4>1. Flows(c, q, TRUE, w) /\ channel'[b][a] = q \o told
        BY <1>3, <2>2, <2>3, <3>2
      <4> HIDE DEF q, c, on, w
      <4>2. Flows(c, q \o told, TRUE, w + 1)
        BY <1>3, <1>4, <4>1, FlowsOnRegister DEF told
      <4> QED
        BY <1>5, <3>1, <3>2, <4>1, <4>2 DEF Flows
    <3>3. CASE ~on
      <4>1. channel'[b][a] = q
        BY <2>2, <3>3
      <4> QED
        BY <1>3, <1>5, <3>3, <4>1 DEF Flows
    <3> QED
      BY <3>2, <3>3
  <2>4. CASE b # g
    <3>1. Told(b, a)' = w /\ channel'[b][a] = q
      BY <1>2, <2>1, <2>2, <2>4, ToldSame
    <3> QED
      BY <1>3, <1>5, <3>1
  <2> QED
    BY <2>3, <2>4
<1>7. CASE UnregisterPullInterest(g)
  <2>1. pullHandlers' \subseteq pullHandlers /\ channel' = channel
    BY <1>7 DEF UnregisterPullInterest, links
  <2>2. Told(b, a)' <= w /\ Told(b, a)' \in Nat
    <3>1. Heard(b, a)' = Heard(b, a)
      BY <1>2 DEF Heard
    <3>2. Cardinality(Entries(Heard(b, a))) \in Nat
      BY <1>1, ToldType
    <3> QED
      BY <2>1, <3>1, <3>2 DEF Told
  <2> HIDE DEF q, c, on, w
  <2>3. Flows(c, q, on, Told(b, a)')
    BY <1>3, <1>4, <2>2, FlowsLess
  <2>4. channel'[b][a] = q
    BY <2>1 DEF q
  <2> QED
    BY <1>5, <2>3, <2>4
<1> QED
  BY <1>6, <1>7

(* A link that is made: nothing is counted yet, nor told. *)
LEMMA FlowConnect ==
    ASSUME NetworkInv, FlowInv, NEW g \in DOMAIN Parent, Connect(g)
    PROVE  FlowInv'
<1> SUFFICES ASSUME ~missed', NEW a \in Gateways, NEW b \in Gateways, side'[a][b] # "closed"
             PROVE  Flows(crossGatewayPullRequestHandlers'[a][b], channel'[b][a],
                          side'[b][a] = "associated", Told(b, a)')
  BY DEF FlowInv, FlowAt
<1>1. /\ OpenLink(g) /\ missed' = missed /\ pullHandlers' = pullHandlers
      /\ crossGatewayPullRequestHandlers' = crossGatewayPullRequestHandlers
  BY DEF Connect, ledger, interests
<1> DEFINE new == (a = g /\ b = Parent[g]) \/ (a = Parent[g] /\ b = g)
           c == crossGatewayPullRequestHandlers[a][b]
           one == <<AssociateMsg>>
<1>2. IF new THEN side'[b][a] = "open" /\ channel'[b][a] = one
             ELSE side'[b][a] = side[b][a] /\ side'[a][b] = side[a][b]
                  /\ channel'[b][a] = channel[b][a]
  BY <1>1, OpenEffect
<1>3. Told(b, a)' = Told(b, a) /\ crossGatewayPullRequestHandlers'[a][b] = c
  BY <1>1, ToldSame
<1>4. CASE new
  <2>1. c \in Nat
    BY ChannelType
  <2>2. AssociateMsg # RegisterMsg /\ AssociateMsg # UnregisterMsg
    BY ControlMessages
  <2>3. Leads(c, one, c)
    <3>1. Applied(c, AssociateMsg) = c
      BY <2>2 DEF Applied
    <3> QED
      BY <2>1, <3>1, LeadsByOne
  <2> HIDE DEF c, one
  <2> QED
    BY <1>2, <1>3, <1>4, <2>1, <2>3 DEF Flows
<1>5. CASE ~new
  <2>1. FlowAt(a, b)
    BY <1>1 DEF FlowInv
  <2> QED
    BY <1>2, <1>3, <1>5, <2>1 DEF FlowAt
<1> QED
  BY <1>4, <1>5

(* A link that breaks: what is withdrawn here is retracted there. *)
LEMMA FlowClose ==
    ASSUME NetworkInv, FlowInv, NEW g \in Gateways, NEW n \in Neighbours(g), Close(g, n)
    PROVE  FlowInv'
<1> SUFFICES ASSUME ~missed', NEW a \in Gateways, NEW b \in Gateways, side'[a][b] # "closed"
             PROVE  Flows(crossGatewayPullRequestHandlers'[a][b], channel'[b][a],
                          side'[b][a] = "associated", Told(b, a)')
  BY DEF FlowInv, FlowAt
<1>1. /\ CloseEnd(g, n, Retracted(g, n)) /\ missed' = missed /\ pullHandlers' = pullHandlers
      /\ crossGatewayPullRequestHandlers' = [crossGatewayPullRequestHandlers EXCEPT ![g][n] = 0]
  BY DEF Close, Withdrawn
<1>2. /\ n \in Gateways /\ n # g /\ TableInv
      /\ crossGatewayPullRequestHandlers \in [Gateways -> [Gateways -> Nat]]
  BY NeighbourBehind, ChannelType DEF NetworkInv
<1> DEFINE k == crossGatewayPullRequestHandlers[g][n]
           back == [i \in 1..k |-> UnregisterMsg]
           c == crossGatewayPullRequestHandlers[a][b]
           q == channel[b][a]
           w == Told(b, a)
<1>3. /\ side'[a][b] = side[a][b] /\ ~(a = g /\ b = n)
      /\ side'[b][a] = IF b = g /\ a = n THEN "closed" ELSE side[b][a]
      /\ channel'[b][a] =
           IF b = g /\ a # n /\ side[g][a] = "associated" /\ side[a][g] # "closed"
           THEN q \o Retracted(g, n) ELSE q
  BY <1>1, CloseEffect
<1>4. Flows(c, q, side[b][a] = "associated", w) /\ q \in Seq(Message)
  BY <1>1, <1>3, ChannelType DEF FlowInv, FlowAt
<1>5. crossGatewayPullRequestHandlers'[a][b] = c /\ c \in Nat /\ k \in Nat /\ w \in Nat
  BY <1>1, <1>2, <1>3, ToldType
<1>6. Retracted(g, n) = back
  BY DEF Retracted
<1>7. CASE b # g
  <2>1. Told(b, a)' = w
    BY <1>1, <1>2, <1>7, ToldSame
  <2> QED
    BY <1>3, <1>4, <1>5, <1>7, <2>1
<1>8. CASE b = g /\ a = n
  <2>1. channel'[b][a] = q /\ side'[b][a] # "associated"
    BY <1>3, <1>8
  <2> QED
    BY <1>4, <1>5, <2>1 DEF Flows
<1>9. CASE b = g /\ a # n
  <2>1. Told(b, a)' \in Nat /\ Told(b, a)' + k = w
    <3>1. PICK none \in Nat : none = 0 /\ CountsNow(g, n, none)
      BY <1>1 DEF CountsNow
    <3>2. /\ a = n => Told(g, a)' = Told(g, a)
          /\ a # n => /\ Told(g, a)' \in Nat
                      /\ Told(g, a)' + crossGatewayPullRequestHandlers[g][n]
                           = Told(g, a) + none
      BY <1>1, <1>2, <3>1, ToldChange
    <3> QED
      BY <1>5, <1>9, <3>1, <3>2
  <2>2. CASE side[b][a] = "associated"
    <3>1. channel'[b][a] = q \o back /\ side'[b][a] = "associated"
      BY <1>3, <1>6, <1>9, <2>2
    <3> HIDE DEF c, q, w, k
    <3>2. Flows(c, q, TRUE, w)
      BY <1>4, <2>2 DEF Flows
    <3>3. k <= w /\ w - k = Told(b, a)'
      BY <1>5, <2>1
    <3>4. Flows(c, q \o back, TRUE, w - k)
      BY <1>4, <1>5, <3>2, <3>3, FlowsOnRetraction
    <3> QED
      BY <1>5, <3>1, <3>3, <3>4 DEF Flows
  <2>3. CASE side[b][a] # "associated"
    <3>1. channel'[b][a] = q /\ side'[b][a] # "associated"
      BY <1>3, <1>9, <2>3
    <3> QED
      BY <1>4, <1>5, <3>1 DEF Flows
  <2> QED
    BY <2>2, <2>3
<1> QED
  BY <1>7, <1>8, <1>9

(* An association: there is nothing yet that would have to be told.        *)
LEMMA FlowAssociate ==
    ASSUME NetworkInv, FlowInv, NEW g \in Gateways, NEW n \in Neighbours(g),
           NEW i \in Arrivals(channel[n][g]), ReceiveAssociate(g, n, i)
    PROVE  FlowInv'
<1> SUFFICES ASSUME ~missed', NEW a \in Gateways, NEW b \in Gateways, side'[a][b] # "closed"
             PROVE  Flows(crossGatewayPullRequestHandlers'[a][b], channel'[b][a],
                          side'[b][a] = "associated", Told(b, a)')
  BY DEF FlowInv, FlowAt
<1>1. /\ channel[n][g][i] = AssociateMsg /\ Receive(g, n, i, {}, << >>)
      /\ side' = [side EXCEPT ![g][n] = "associated"]
      /\ ~missed /\ g \notin pullHandlers /\ Interested(g) = {}
      /\ pullHandlers' = pullHandlers
      /\ crossGatewayPullRequestHandlers' = crossGatewayPullRequestHandlers
  BY DEF ReceiveAssociate, interests
<1>2. /\ n \in Gateways /\ n # g
      /\ side \in [Gateways -> [Gateways -> {"closed", "open", "associated"}]]
      /\ crossGatewayPullRequestHandlers \in [Gateways -> [Gateways -> Nat]]
      /\ channel \in [Gateways -> [Gateways -> Seq(Message)]]
  BY NeighbourBehind, ChannelType
<1>3. side[g][n] # "closed"
  BY <1>1 DEF Receive
<1> DEFINE c == crossGatewayPullRequestHandlers[a][b]
           q == channel[b][a]
           on == side[b][a] = "associated"
<1>4. /\ side[a][b] # "closed"
      /\ side'[b][a] = IF b = g /\ a = n THEN "associated" ELSE side[b][a]
  BY <1>1, <1>2, <1>3
<1>5. Flows(c, q, on, Told(b, a)) /\ c \in Nat /\ q \in Seq(Message)
  BY <1>1, <1>2, <1>4 DEF FlowInv, FlowAt
<1>6. Told(b, a)' = Told(b, a) /\ crossGatewayPullRequestHandlers'[a][b] = c
  BY <1>1, ToldSame
<1>7. /\ channel'[n][g] = Without(channel[n][g], i)
      /\ \A x, y \in Gateways : ~(x = g /\ y = n) => channel'[y][x] = channel[y][x]
  <2>1. PICK to, msgs : to = {} /\ Receive(g, n, i, to, msgs)
    BY <1>1
  <2>2. /\ channel'[n][g] = Without(channel[n][g], i)
        /\ \A x, y \in Gateways : ~(x = g /\ y = n) =>
             channel'[y][x] = IF y = g /\ x \in to /\ side[x][y] # "closed"
                              THEN channel[y][x] \o msgs ELSE channel[y][x]
    BY <2>1, ReceiveEffect, SMTT(40)
  <2> QED
    BY <2>1, <2>2
<1>8. CASE a = g /\ b = n
  <2>1. channel'[b][a] = Without(q, i) /\ i \in Arrivals(q) /\ q[i] = AssociateMsg
    BY <1>1, <1>8, <1>7
  <2>2. (side'[b][a] = "associated") = on
    BY <1>2, <1>4, <1>8
  <2>3. AssociateMsg # RegisterMsg /\ AssociateMsg # UnregisterMsg
    BY ControlMessages
  <2> HIDE DEF c, q, on
  <2>4. Applied(c, q[i]) = c
    BY <2>1, <2>3 DEF Applied
  <2>5. Flows(c, Without(q, i), on, Told(b, a))
    BY <1>5, <2>1, <2>4, FlowsOnArrival
  <2> QED
    BY <1>6, <2>1, <2>2, <2>5
<1>9. CASE ~(a = g /\ b = n)
  <2>1. channel'[b][a] = q
    BY <1>9, <1>7
  <2>2. CASE b = g /\ a = n
    <3>1. \A k \in Gateways : crossGatewayPullRequestHandlers[b][k] = 0
      BY <1>1, <1>2, <2>2, SMTT(40) DEF Interested
    <3>2. Told(b, a) = 0
      BY <1>1, <2>2, <3>1, ToldNothing
    <3> QED
      BY <1>5, <1>6, <2>1, <3>2 DEF Flows
  <2>3. CASE ~(b = g /\ a = n)
    BY <1>4, <1>5, <1>6, <2>1, <2>3
  <2> QED
    BY <2>2, <2>3
<1> QED
  BY <1>8, <1>9

LEMMA FlowsOnOne ==
    ASSUME NEW q \in Seq(Message), NEW c, NEW w \in Nat, Flows(c, q, TRUE, w),
           NEW m \in {RegisterMsg, UnregisterMsg}, NEW k \in Nat,
           Applied(k, m) \in Nat, NEW v \in Nat, v + k = w + Applied(k, m)
    PROVE  Flows(c, q \o <<m>>, TRUE, v)
<1>1. UnregisterMsg # RegisterMsg
  BY DEF UnregisterMsg, RegisterMsg
<1>2. CASE m = RegisterMsg
  <2>1. v = w + 1
    BY <1>2 DEF Applied
  <2> QED
    BY <1>2, <2>1, FlowsOnRegister
<1>3. CASE m = UnregisterMsg
  <2>1. w - 1 = v /\ 1 <= w
    BY <1>1, <1>3 DEF Applied
  <2> DEFINE down == [i \in 1..1 |-> UnregisterMsg]
  <2>2. down = <<m>>
    BY <1>3
  <2>3. Flows(c, q \o down, TRUE, w - 1)
    BY <2>1, FlowsOnRetraction
  <2> QED
    BY <2>1, <2>2, <2>3
<1> QED
  BY <1>2, <1>3

(* A registration or retraction is counted, and told to the others.        *)
LEMMA FlowCounted ==
    ASSUME NetworkInv, FlowInv, ~missed, NEW g \in Gateways, NEW n \in Neighbours(g),
           NEW i \in Arrivals(channel[n][g]), NEW m \in {RegisterMsg, UnregisterMsg},
           channel[n][g][i] = m, Receive(g, n, i, Handled(g) \ {n}, <<m>>), side' = side,
           CountsNow(g, n, Applied(crossGatewayPullRequestHandlers[g][n], m))
    PROVE  FlowInv'
<1> SUFFICES ASSUME NEW a \in Gateways, NEW b \in Gateways, side'[a][b] # "closed"
             PROVE  Flows(crossGatewayPullRequestHandlers'[a][b], channel'[b][a],
                          side'[b][a] = "associated", Told(b, a)')
  BY DEF FlowInv, FlowAt
<1> DEFINE k == crossGatewayPullRequestHandlers[g][n]
           d == Applied(k, m)
           c == crossGatewayPullRequestHandlers[a][b]
           q == channel[b][a]
           on == side[b][a] = "associated"
           w == Told(b, a)
           told == <<m>>
<1>1. /\ n \in Gateways /\ n # g /\ TableInv
      /\ channel \in [Gateways -> [Gateways -> Seq(Message)]]
      /\ crossGatewayPullRequestHandlers \in [Gateways -> [Gateways -> Nat]]
  BY NeighbourBehind, ChannelType DEF NetworkInv
<1>2. side[g][n] # "closed" /\ Receive(g, n, i, Handled(g) \ {n}, told)
  BY DEF Receive
<1> HIDE DEF told
<1>3. /\ channel'[n][g] = Without(channel[n][g], i)
      /\ \A x, y \in Gateways : ~(x = g /\ y = n) =>
           channel'[y][x] = IF y = g /\ x \in Handled(g) \ {n} /\ side[x][y] # "closed"
                            THEN channel[y][x] \o told ELSE channel[y][x]
  <2>1. PICK to, msgs : to = Handled(g) \ {n} /\ msgs = told /\ Receive(g, n, i, to, msgs)
    BY <1>2
  <2>2. /\ channel'[n][g] = Without(channel[n][g], i)
        /\ \A x, y \in Gateways : ~(x = g /\ y = n) =>
             channel'[y][x] = IF y = g /\ x \in to /\ side[x][y] # "closed"
                              THEN channel[y][x] \o msgs ELSE channel[y][x]
    BY <2>1, ReceiveEffect
  <2> QED
    BY <2>1, <2>2
<1>4. d \in Nat /\ Flows(d, Without(channel[n][g], i), side[n][g] = "associated", Told(n, g))
  <2> DEFINE r == channel[n][g]
             up == side[n][g] = "associated"
             v == Told(n, g)
  <2>1. Flows(k, r, up, v) /\ r \in Seq(Message) /\ i \in Arrivals(r) /\ r[i] = m
    BY <1>1, <1>2 DEF FlowInv, FlowAt
  <2> HIDE DEF r, up, v, k
  <2>2. Applied(k, r[i]) \in Nat /\ Flows(Applied(k, r[i]), Without(r, i), up, v)
    BY <2>1, FlowsOnArrival
  <2> QED
    BY <2>1, <2>2 DEF r, up, v
<1>5. k \in Nat /\ w \in Nat /\ q \in Seq(Message) /\ Flows(c, q, on, w)
  <2>1. k \in Nat /\ q \in Seq(Message)
    BY <1>1
  <2>2. w \in Nat
    BY <1>1, ToldType
  <2>3. Flows(c, q, on, w)
    BY <1>1 DEF FlowInv, FlowAt
  <2> QED
    BY <2>1, <2>2, <2>3
<1>6. \A x, y \in Gateways :
        crossGatewayPullRequestHandlers'[x][y] =
          IF x = g /\ y = n THEN d ELSE crossGatewayPullRequestHandlers[x][y]
  BY <1>1 DEF CountsNow
<1>7. CASE a = g /\ b = n
  <2>1. Told(b, a)' = w
    BY <1>1, <1>7, ToldSame DEF CountsNow
  <2> QED
    BY <1>3, <1>4, <1>6, <1>7, <2>1
<1>8. CASE b # g /\ ~(a = g /\ b = n)
  <2>1. Told(b, a)' = w
    BY <1>1, <1>8, ToldSame DEF CountsNow
  <2> QED
    BY <1>3, <1>5, <1>6, <1>8, <2>1
<1>9. CASE b = g
  <2>1. /\ a = n => Told(g, a)' = Told(g, a)
        /\ a # n => /\ Told(g, a)' \in Nat
                    /\ Told(g, a)' + crossGatewayPullRequestHandlers[g][n]
                         = Told(g, a) + d
    <3>1. PICK h \in Nat : h = d /\ CountsNow(g, n, h)
      BY <1>4
    <3>3. g \in Gateways /\ a \in Gateways /\ h \in Nat
      OBVIOUS
    <3>2. /\ a = n => Told(g, a)' = Told(g, a)
          /\ a # n => /\ Told(g, a)' \in Nat
                      /\ Told(g, a)' + crossGatewayPullRequestHandlers[g][n]
                           = Told(g, a) + h
      BY ONLY <1>1, <3>1, <3>3, ToldChange
    <3> QED
      BY <3>1, <3>2
  <2>2. crossGatewayPullRequestHandlers'[a][b] = c
    BY <1>1, <1>6, <1>9
  <2>3. CASE a = n
    <3>1. channel'[b][a] = q
      BY <1>1, <1>3, <1>9, <2>3
    <3> QED
      BY <1>5, <1>9, <2>1, <2>2, <2>3, <3>1
  <2>4. CASE a # n /\ ~on
    <3>1. channel'[b][a] = q
      BY <1>1, <1>3, <1>9, <2>4 DEF Handled
    <3> QED
      BY <1>5, <2>2, <2>4, <3>1 DEF Flows
  <2>5. CASE a # n /\ on
    <3>1. channel'[b][a] = q \o told
      BY <1>1, <1>3, <1>9, <2>5 DEF Handled
    <3>2. Told(b, a)' \in Nat /\ Told(b, a)' + k = w + d
      BY <1>9, <2>1, <2>5
    <3>3. Flows(c, q, TRUE, w)
      BY <1>5, <2>5 DEF Flows
    <3> HIDE DEF c, q, k, w
    <3>4. Flows(c, q \o <<m>>, TRUE, Told(b, a)')
      BY <1>4, <1>5, <3>2, <3>3, FlowsOnOne
    <3> QED
      BY <2>2, <3>1, <3>4 DEF Flows, told
  <2> QED
    BY <2>3, <2>4, <2>5
<1> QED
  BY <1>7, <1>8, <1>9

LEMMA FlowControlSteps ==
    ASSUME NetworkInv, FlowInv, NEW g \in Gateways, NEW n \in Neighbours(g),
           NEW i \in Arrivals(channel[n][g]),
           ReceiveRegister(g, n, i) \/ ReceiveUnregister(g, n, i)
    PROVE  FlowInv'
<1> DEFINE k == crossGatewayPullRequestHandlers[g][n]
<1>1. /\ n \in Gateways /\ channel \in [Gateways -> [Gateways -> Seq(Message)]]
      /\ k \in Nat
      /\ crossGatewayPullRequestHandlers \in [Gateways -> [Gateways -> Nat]]
  BY NeighbourBehind, ChannelType, SMTT(40)
<1>2. side' = side /\ missed' = missed /\ pullHandlers' = pullHandlers
  BY DEF ReceiveRegister, ReceiveUnregister, ledger
<1> SUFFICES ASSUME ~missed PROVE FlowInv'
  BY <1>2 DEF FlowInv
<1>3. UnregisterMsg # RegisterMsg
  BY DEF UnregisterMsg, RegisterMsg
<1>4. CASE ReceiveRegister(g, n, i)
  <2>1. /\ channel[n][g][i] = RegisterMsg
        /\ Receive(g, n, i, Handled(g) \ {n}, <<RegisterMsg>>)
    BY <1>4 DEF ReceiveRegister
  <2>2. CountsNow(g, n, Applied(k, RegisterMsg))
    BY <1>1, <1>2, <1>4 DEF ReceiveRegister, Counted, CountsNow, Applied
  <2> QED
    BY <1>2, <2>1, <2>2, FlowCounted
<1>5. CASE ReceiveUnregister(g, n, i)
  <2>1. /\ channel[n][g][i] = UnregisterMsg
        /\ Receive(g, n, i, Handled(g) \ {n}, <<UnregisterMsg>>)
        /\ crossGatewayPullRequestHandlers' =
             [crossGatewayPullRequestHandlers EXCEPT ![g][n] = IF k = 0 THEN 0 ELSE k - 1]
    BY <1>1, <1>5 DEF ReceiveUnregister
  <2>2. Applied(k, UnregisterMsg) \in Nat
    <3> DEFINE r == channel[n][g]
               up == side[n][g] = "associated"
               v == Told(n, g)
    <3>1. Flows(k, r, up, v) /\ r \in Seq(Message) /\ i \in Arrivals(r) /\ r[i] = UnregisterMsg
      BY <1>1, <2>1 DEF FlowInv, FlowAt, Receive
    <3> HIDE DEF r, up, v, k
    <3> QED
      BY <3>1, FlowsOnArrival
  <2>3. Applied(k, UnregisterMsg) = (IF k = 0 THEN 0 ELSE k - 1)
    BY <1>1, <1>3, <2>2 DEF Applied
  <2>4. CountsNow(g, n, Applied(k, UnregisterMsg))
    BY <1>2, <2>1, <2>3 DEF CountsNow
  <2> QED
    BY <1>2, <2>1, <2>4, FlowCounted
<1> QED
  BY <1>4, <1>5

LEMMA FlowInitially == Init => FlowInv
<1> SUFFICES ASSUME Init, NEW a \in Gateways, NEW b \in Gateways
             PROVE  Flows(crossGatewayPullRequestHandlers[a][b], channel[b][a],
                          side[b][a] = "associated", Told(b, a))
  BY DEF FlowInv, FlowAt
<1>1. /\ crossGatewayPullRequestHandlers[a][b] = 0 /\ channel[b][a] = << >>
      /\ b \notin pullHandlers
      /\ \A k \in Gateways : crossGatewayPullRequestHandlers[b][k] = 0
  BY DEF Init, LinksUp
<1>2. Told(b, a) = 0
  BY <1>1, ToldNothing
<1>3. Leads(0, << >>, 0)
  BY LeadsNowhere
<1> QED
  BY <1>1, <1>2, <1>3 DEF Flows
-----------------------------------------------------------------------------
(* Where a registration has been told there is a way to its provider, and  *)
(* all links on it are up.                                                 *)
ReachAt(x, p) ==
    /\ p \in pullHandlers /\ Joined(x, p)
    /\ \A a, b \in Gateways : OnWay(a, b, x, p) => Up(a, b)

ReachInv == \A p \in Gateways : \A x \in reached[p] : ReachAt(x, p)

LEMMA ConnectedIsJoined ==
    ASSUME NEW p \in Gateways
    PROVE  \A x \in Connected(p) : Joined(x, p)
<1> DEFINE S == {x \in Gateways : Joined(x, p)}
<1>1. p \in S
  BY DEF Joined
<1>2. ASSUME NEW m \in S, NEW y \in Neighbours(m)
      PROVE  y \in S
  <2>1. y \in Gateways /\ m \in Gateways /\ m \in Neighbours(y) /\ m \in Beyond(y, m)
    BY <1>2, NeighbourBehind, BeyondIsClosed
  <2> SUFFICES ASSUME y # p PROVE y \in S
    BY <1>1
  <2>2. CASE m = p
    <3>1. p \in Beyond(y, m) /\ y \in Beyond(p, y)
      BY <2>1, <2>2, BeyondIsClosed
    <3> QED
      BY <2>1, <2>2, <3>1 DEF Joined
  <2>3. CASE m # p
    <3>1. PICK k \in Neighbours(m) : p \in Beyond(m, k)
      BY <2>3 DEF Joined
    <3>2. PICK u \in Neighbours(p) : m \in Beyond(p, u)
      BY <2>3 DEF Joined
    <3>3. y \in Beyond(p, u)
      BY <1>2, <3>2, BeyondIsClosed
    <3>4. CASE k # y
      <4>1. p \in Beyond(y, m)
        BY <2>1, <3>1, <3>4, BeyondShrinks
      <4> QED
        BY <2>1, <3>2, <3>3, <4>1 DEF Joined
    <3>5. CASE k = y
      <4>1. PICK j \in Neighbours(y) : p \in Beyond(y, j)
        BY <2>1, <3>1, <3>5, BeyondSplits
      <4> QED
        BY <2>1, <3>2, <3>3, <4>1 DEF Joined
    <3> QED
      BY <3>4, <3>5
  <2> QED
    BY <2>2, <2>3
<1>3. S \in SUBSET Gateways
  OBVIOUS
<1> HIDE DEF S
<1>4. \A x \in Connected(p) : x \in S
  BY <1>1, <1>2, <1>3 DEF Connected
<1> QED
  BY <1>4 DEF S

LEMMA ConnectedIsUp ==
    ASSUME NEW p \in Gateways, NEW x \in Connected(p),
           NEW a \in Gateways, NEW b \in Gateways, OnWay(a, b, x, p)
    PROVE  Up(a, b)
<1>1. /\ b \in Neighbours(a) /\ a \in Neighbours(b)
      /\ x \in Beyond(b, a) /\ p \in Beyond(a, b)
  BY WayTypes DEF OnWay
<1>2. SUFFICES ASSUME ~Up(a, b) PROVE FALSE
  OBVIOUS
<1> DEFINE S == Beyond(a, b)
<1>3. S \in SUBSET Gateways /\ \A m \in S : Neighbours(m) \ {a} \subseteq S
  BY <1>1, BeyondIsClosed
<1>4. \A m \in S : a \in Neighbours(m) => m = b
  BY <1>1, OneWayIn
<1>5. \A m \in S : {n \in Neighbours(m) : Up(m, n)} \subseteq S
  BY <1>2, <1>3, <1>4 DEF Up
<1> HIDE DEF S
<1>6. x \in S
  BY <1>1, <1>3, <1>5 DEF Connected, S
<1> QED
  BY <1>1, <1>6, BeyondEndsApart DEF S

LEMMA ReachLasts ==
    ASSUME ReachInv, \A p \in Gateways : reached'[p] \subseteq reached[p],
           \A p \in Gateways : p \in pullHandlers => p \in pullHandlers' \/ reached'[p] = {},
           \A a, b \in Gateways : Up(a, b) => Up(a, b)'
    PROVE  ReachInv'
<1> SUFFICES ASSUME NEW p \in Gateways, NEW x \in reached'[p]
             PROVE  ReachAt(x, p)'
  BY DEF ReachInv
<1>1. ReachAt(x, p)
  BY DEF ReachInv
<1> QED
  BY <1>1 DEF ReachAt

LEMMA ReachRegister ==
    ASSUME NetworkInv, ReachInv, NEW g \in Providers, RegisterPullInterest(g)
    PROVE  ReachInv'
<1>1. /\ g \in Gateways /\ side' = side /\ pullHandlers' = pullHandlers \cup {g}
      /\ reached' = [reached EXCEPT ![g] = Connected(g)]
      /\ reached \in [Gateways -> SUBSET Gateways]
  BY ClientAssumption DEF RegisterPullInterest, NetworkInv, TableInv
<1> SUFFICES ASSUME NEW p \in Gateways, NEW x \in reached'[p]
             PROVE  ReachAt(x, p)'
  BY DEF ReachInv
<1>2. \A a, b \in Gateways : Up(a, b)' = Up(a, b)
  BY <1>1 DEF Up
<1>3. CASE p = g
  <2>1. x \in Connected(p)
    BY <1>1, <1>3
  <2>2. Joined(x, p) /\ \A a, b \in Gateways : OnWay(a, b, x, p) => Up(a, b)
    BY <2>1, ConnectedIsJoined, ConnectedIsUp
  <2> QED
    BY <1>1, <1>2, <1>3, <2>2 DEF ReachAt
<1>4. CASE p # g
  <2>1. ReachAt(x, p)
    BY <1>1, <1>4 DEF ReachInv
  <2> QED
    BY <1>1, <1>2, <2>1 DEF ReachAt
<1> QED
  BY <1>3, <1>4

(* What a broken link cuts off is no longer reached. *)
LEMMA ReachClose ==
    ASSUME NetworkInv, ReachInv, NEW g \in Gateways, NEW n \in Neighbours(g), Close(g, n)
    PROVE  ReachInv'
<1>1. /\ CloseEnd(g, n, Retracted(g, n)) /\ pullHandlers' = pullHandlers
      /\ reached' = CutOff(g, n)
  BY DEF Close
<1> SUFFICES ASSUME NEW p \in Gateways, NEW x \in reached'[p]
             PROVE  ReachAt(x, p)'
  BY DEF ReachInv
<1>2. /\ x \in reached[p]
      /\ p \in Beyond(g, n) => x \notin Beyond(n, g)
      /\ p \notin Beyond(g, n) => x \notin Beyond(g, n)
  BY <1>1 DEF CutOff
<1>3. ReachAt(x, p)
  BY <1>2 DEF ReachInv
<1>4. ASSUME NEW a \in Gateways, NEW b \in Gateways, OnWay(a, b, x, p)
      PROVE  Up(a, b)'
  <2>1. Up(a, b)
    BY <1>3, <1>4 DEF ReachAt
  <2>2. ~(a = g /\ b = n)
    BY <1>2, <1>4 DEF OnWay
  <2>3. ~(a = n /\ b = g)
    BY <1>2, <1>4, BeyondEndsApart DEF OnWay
  <2>4. side'[a][b] = side[a][b] /\ side'[b][a] = side[b][a]
    BY <1>1, <2>2, <2>3, CloseEffect
  <2> QED
    BY <2>1, <2>4 DEF Up
<1> QED
  BY <1>1, <1>3, <1>4 DEF ReachAt
-----------------------------------------------------------------------------
(* Once every registration has arrived each gateway on the way to a        *)
(* provider counts the next.                                               *)
LEMMA WayIsCounted ==
    ASSUME NetworkInv, FlowInv, ~missed, Announced,
           NEW d, NEW p \in pullHandlers, ReachAt(d, p),
           NEW g \in Gateways, NEW n \in Gateways, OnWay(g, n, d, p)
    PROVE  crossGatewayPullRequestHandlers[g][n] > 0
<1> DEFINE Bad == {l \in Gateways \X Gateways :
                      /\ OnWay(l[1], l[2], d, p)
                      /\ ~(crossGatewayPullRequestHandlers[l[1]][l[2]] > 0)}
           Sizes == {Cardinality(Beyond(l[1], l[2])) : l \in Bad}
<1>1. \A a, b \in Gateways : b \in Neighbours(a) =>
         IsFiniteSet(Beyond(a, b)) /\ Cardinality(Beyond(a, b)) \in Nat
  BY TreeAssumption, BeyondIsClosed, FS_Subset, FS_CardinalityType
<1>2. SUFFICES ASSUME Bad # {} PROVE FALSE
  <2>1. <<g, n>> \in Bad \/ crossGatewayPullRequestHandlers[g][n] > 0
    OBVIOUS
  <2> QED
    BY <1>2, <2>1
<1>3. Sizes \subseteq Nat /\ Sizes # {}
  BY <1>1, <1>2, WayTypes
<1>4. PICK s \in Sizes : \A t \in Sizes : s <= t
  <2> HIDE DEF Sizes
  <2> QED
    BY <1>3, WellOrder
<1>5. PICK l \in Bad : s = Cardinality(Beyond(l[1], l[2]))
  BY <1>4
<1> DEFINE a == l[1]
           b == l[2]
<1>6. /\ a \in Gateways /\ b \in Gateways /\ OnWay(a, b, d, p)
      /\ ~(crossGatewayPullRequestHandlers[a][b] > 0)
  BY <1>5
<1>7. /\ side[a][b] = "associated" /\ side[b][a] = "associated" /\ TableInv
      /\ channel[b][a] \in Seq(Message)
  BY <1>6, ChannelType DEF ReachAt, Up, NetworkInv
<1>8. crossGatewayPullRequestHandlers[a][b] \in Nat
      /\ Told(b, a) <= crossGatewayPullRequestHandlers[a][b]
  <2> DEFINE c == crossGatewayPullRequestHandlers[a][b]
             q == channel[b][a]
             w == Told(b, a)
  <2>1. Flows(c, q, side[b][a] = "associated", w)
    BY <1>6, <1>7 DEF FlowInv, FlowAt
  <2>2. Flows(c, q, TRUE, w)
    BY <1>7, <2>1 DEF Flows
  <2>3. w \in Nat /\ q \in Seq(Message) /\ \A i \in DOMAIN q : ~IsControl(q[i])
    BY <1>6, <1>7, ToldType DEF Announced
  <2> HIDE DEF c, q, w
  <2>4. c \in Nat /\ w <= c
    BY <2>2, <2>3, FlowsWhenQuiet
  <2> QED
    BY <2>4 DEF c, w
<1>9. 1 <= Told(b, a)
  <2>1. CASE b = p
    BY <1>6, <1>7, <2>1, ToldAtLeast
  <2>2. CASE b # p
    <3>1. PICK k \in Neighbours(b) \ {a} : OnWay(b, k, d, p)
      BY <1>6, <2>2, NextHop
    <3>2. k \in Gateways /\ b \in Neighbours(a) /\ a \in Neighbours(b)
      BY <1>6, <3>1, WayTypes, NeighbourBehind
    <3>3. Beyond(b, k) \subseteq Beyond(a, b) \ {b} /\ b \in Beyond(a, b)
      BY <1>6, <3>1, <3>2, BeyondShrinks, BeyondIsClosed
    <3>4. Cardinality(Beyond(b, k)) < Cardinality(Beyond(a, b))
      <4>1. /\ IsFiniteSet(Beyond(a, b)) /\ Cardinality(Beyond(a, b)) \in Nat
            /\ IsFiniteSet(Beyond(b, k)) /\ Cardinality(Beyond(b, k)) \in Nat
        BY <1>1, <1>6, <3>1, <3>2
      <4> DEFINE big == Beyond(a, b)
                 small == Beyond(b, k)
      <4> HIDE DEF big, small
      <4>2. small \subseteq big /\ small # big /\ IsFiniteSet(big)
        BY <3>3, <4>1 DEF big, small
      <4>3. Cardinality(small) <= Cardinality(big) /\ Cardinality(small) # Cardinality(big)
        BY <4>2, FS_Subset
      <4> QED
        BY <4>1, <4>3 DEF big, small
    <3>5. <<b, k>> \notin Bad
      <4>1. <<b, k>> \in Bad => Cardinality(Beyond(b, k)) \in Sizes
        BY <3>2
      <4>2. s \in Nat /\ Cardinality(Beyond(b, k)) \in Nat /\ s = Cardinality(Beyond(a, b))
        BY <1>1, <1>3, <1>4, <1>5, <1>6, <3>1, <3>2
      <4> HIDE DEF Bad, Sizes
      <4> QED
        BY <1>4, <3>4, <4>1, <4>2
    <3>6. crossGatewayPullRequestHandlers[b][k] > 0
      BY <1>6, <3>1, <3>2, <3>5
    <3>7. /\ crossGatewayPullRequestHandlers[b][k] <= Told(b, a)
          /\ crossGatewayPullRequestHandlers[b][k] \in Nat /\ Told(b, a) \in Nat
      <4>1. k \in Gateways \ {a}
        BY <3>1, <3>2
      <4> HIDE DEF a, b
      <4>2. \A j \in Gateways \ {a} : crossGatewayPullRequestHandlers[b][j] <= Told(b, a)
        BY <1>6, <1>7, ToldAtLeast
      <4>3. Told(b, a) \in Nat /\ crossGatewayPullRequestHandlers[b][k] \in Nat
        <5>1. Told(b, a) \in Nat
          BY <1>6, <1>7, ToldType
        <5>2. crossGatewayPullRequestHandlers \in [Gateways -> [Gateways -> Nat]]
          BY ChannelType
        <5> QED
          BY <1>6, <3>2, <5>1, <5>2
      <4> QED
        BY <4>1, <4>2, <4>3
    <3> QED
      BY <3>6, <3>7
  <2> QED
    BY <2>1, <2>2
<1>10. Told(b, a) \in Nat
  BY <1>6, <1>7, ToldType
<1> HIDE DEF a, b
<1> QED
  BY <1>6, <1>8, <1>9, <1>10
-----------------------------------------------------------------------------
(* The messages in a channel. *)
Contents(q) == {q[i] : i \in DOMAIN q}

LEMMA ContentsAdded ==
    ASSUME NEW q \in Seq(Message), NEW m
    PROVE  Contents(q \o <<m>>) = Contents(q) \cup {m}
<1> DEFINE p == <<m>>
           s == q \o p
<1>1. Len(q) \in Nat /\ DOMAIN q = 1..Len(q)
  OBVIOUS
<1>2. /\ DOMAIN s = 1..(Len(q) + 1) /\ s[Len(q) + 1] = m
      /\ \A i \in 1..Len(q) : s[i] = q[i]
  OBVIOUS
<1> HIDE DEF s
<1>3. Contents(s) = Contents(q) \cup {m}
  BY <1>1, <1>2 DEF Contents
<1> QED
  BY <1>3 DEF s

LEMMA ContentsRemoved ==
    ASSUME NEW q \in Seq(Message), NEW i \in DOMAIN q
    PROVE  /\ Contents(Without(q, i)) \subseteq Contents(q)
           /\ Contents(q) \subseteq Contents(Without(q, i)) \cup {q[i]}
<1> DEFINE s == Without(q, i)
           k == Len(q)
<1>1. /\ k \in Nat /\ i \in 1..k /\ DOMAIN q = 1..k /\ DOMAIN s = 1..(k - 1)
      /\ \A j \in 1..(k - 1) : s[j] = IF j < i THEN q[j] ELSE q[j + 1]
  <2>1. s \in Seq(Message) /\ k \in Nat /\ i \in 1..k /\ Len(s) = k - 1
    BY WithoutEffect
  <2>2. \A j \in 1..(k - 1) : s[j] = IF j < i THEN q[j] ELSE q[j + 1]
    BY WithoutEffect
  <2> HIDE DEF s
  <2>3. DOMAIN q = 1..k /\ DOMAIN s = 1..(k - 1)
    BY <2>1
  <2> QED
    BY <2>1, <2>2, <2>3
<1> HIDE DEF s, k
<1>2. ASSUME NEW j \in 1..(k - 1)
      PROVE  s[j] \in Contents(q)
  <2>1. j \in 1..k /\ j + 1 \in 1..k
    BY <1>1
  <2> QED
    BY <1>1, <2>1 DEF Contents
<1>3. ASSUME NEW j \in 1..k, j # i
      PROVE  q[j] \in Contents(s)
  <2>1. CASE j < i
    <3>1. j \in 1..(k - 1) /\ s[j] = q[j]
      BY <1>1, <2>1
    <3> QED
      BY <1>1, <3>1 DEF Contents
  <2>2. CASE ~(j < i)
    <3>1. j - 1 \in 1..(k - 1) /\ s[j - 1] = q[j]
      BY <1>1, <1>3, <2>2
    <3> QED
      BY <1>1, <3>1 DEF Contents
  <2> QED
    BY <2>1, <2>2
<1>4. Contents(s) \subseteq Contents(q) /\ Contents(q) \subseteq Contents(s) \cup {q[i]}
  BY <1>1, <1>2, <1>3 DEF Contents
<1> QED
  BY <1>4 DEF s

(* The invariant for what is owed.  Along the way to the provider every    *)
(* gateway would pass the request on, and the trail is right as far as the *)
(* request has come, or the answer has yet to go.                          *)
Trail(x) == \A a, b \in Gateways :
                OnWay(a, b, device, x) => cgPullRequestReturnIds[b] = a

Asked(a, b, r) ==
    \E m \in Contents(channel[a][b]) : m.type = "Request" /\ m.request = r

Answered(a, b, r, p) ==
    \E m \in Contents(channel[a][b]) :
        m.type = "Response" /\ m.request = r /\ m.from = p

UnderWay(r, p) ==
    \/ r \in held[p] /\ Trail(p)
    \/ \E a, b \in Gateways : /\ OnWay(a, b, device, p) /\ Trail(a)
                              /\ Asked(a, b, r) \/ Answered(b, a, r, p)

WayIsOpen(p) ==
    /\ p \in pullHandlers /\ Joined(device, p)
    /\ \A a, b \in Gateways :
         OnWay(a, b, device, p) => Up(a, b) /\ crossGatewayPullRequestHandlers[a][b] > 0

NothingStrays ==
    /\ plugins = {device}
    /\ \A a, b \in Gateways : \A m \in Contents(channel[a][b]) :
         m # UnregisterMsg /\ (m.type = "Request" => m.from = device)

OwedInv ==
    owed # {} =>
        NothingStrays /\ \A o \in owed : WayIsOpen(o[2]) /\ UnderWay(o[1], o[2])

LEMMA WayStaysOpen ==
    ASSUME NEW p, WayIsOpen(p), p \in pullHandlers', device' = device,
           \A a, b \in Gateways : Up(a, b) => Up(a, b)',
           \A a, b \in Gateways : crossGatewayPullRequestHandlers[a][b] > 0 =>
                                    crossGatewayPullRequestHandlers'[a][b] > 0
    PROVE  WayIsOpen(p)'
  BY DEF WayIsOpen

LEMMA StaysUnderWay ==
    ASSUME NEW r, NEW p \in Gateways, UnderWay(r, p), device' = device,
           \A x \in Gateways : Trail(x) => Trail(x)',
           r \in held[p] => r \in held'[p],
           \A a, b \in Gateways : OnWay(a, b, device, p) =>
               /\ Asked(a, b, r) => Asked(a, b, r)'
               /\ Answered(b, a, r, p) => Answered(b, a, r, p)'
    PROVE  UnderWay(r, p)'
<1>1. CASE r \in held[p] /\ Trail(p)
  BY <1>1 DEF UnderWay
<1>2. ASSUME NEW a \in Gateways, NEW b \in Gateways, OnWay(a, b, device, p), Trail(a),
             Asked(a, b, r) \/ Answered(b, a, r, p)
      PROVE  UnderWay(r, p)'
  BY <1>2 DEF UnderWay
<1> QED
  BY <1>1, <1>2 DEF UnderWay

(* Steps that neither take a request or an answer out of a channel of a    *)
(* link that is up nor change a trail.                                     *)
LEMMA OwedLasts ==
    ASSUME NetworkInv, OwedInv, owed' \subseteq owed, device' = device,
           cgPullRequestReturnIds' = cgPullRequestReturnIds,
           plugins = {device} => plugins' = {device},
           \A o \in owed' : o[2] \in pullHandlers' /\ held[o[2]] \subseteq held'[o[2]],
           \A a, b \in Gateways : Up(a, b) => Up(a, b)',
           \A a, b \in Gateways : crossGatewayPullRequestHandlers[a][b] > 0 =>
                                    crossGatewayPullRequestHandlers'[a][b] > 0,
           \A a, b \in Gateways : Up(a, b) =>
             \A m \in Contents(channel[a][b]) : ~IsControl(m) => m \in Contents(channel'[a][b]),
           \A a, b \in Gateways : \A m \in Contents(channel'[a][b]) :
             m \in Contents(channel[a][b]) \/ m \in {AssociateMsg, RegisterMsg}
    PROVE  OwedInv'
<1> SUFFICES ASSUME owed' # {}
             PROVE  NothingStrays' /\ \A o \in owed' : WayIsOpen(o[2])' /\ UnderWay(o[1], o[2])'
  BY DEF OwedInv
<1>1. NothingStrays /\ \A o \in owed : WayIsOpen(o[2]) /\ UnderWay(o[1], o[2])
  BY DEF OwedInv
<1>2. NothingStrays'
  <2>1. \A m \in {AssociateMsg, RegisterMsg} : m # UnregisterMsg /\ m.type # "Request"
    BY DEF AssociateMsg, RegisterMsg, UnregisterMsg
  <2> QED
    BY <1>1, <2>1 DEF NothingStrays
<1>3. ASSUME NEW o \in owed'
      PROVE  WayIsOpen(o[2])' /\ UnderWay(o[1], o[2])'
  <2> DEFINE r == o[1]
             p == o[2]
  <2>1. WayIsOpen(p) /\ UnderWay(r, p) /\ p \in pullHandlers' /\ held[p] \subseteq held'[p]
    BY <1>1, <1>3
  <2>2. p \in Gateways
    BY <2>1 DEF WayIsOpen, NetworkInv, TableInv
  <2>3. \A x \in Gateways : Trail(x) => Trail(x)'
    BY DEF Trail
  <2> HIDE DEF r, p
  <2>4. ASSUME NEW a \in Gateways, NEW b \in Gateways, OnWay(a, b, device, p)
        PROVE  /\ Asked(a, b, r) => Asked(a, b, r)'
               /\ Answered(b, a, r, p) => Answered(b, a, r, p)'
    <3>1. Up(a, b) /\ Up(b, a)
      BY <2>1, <2>4 DEF WayIsOpen, Up
    <3>2. \A m : m.type \in {"Request", "Response"} => ~IsControl(m)
      BY DEF IsControl
    <3> QED
      BY <3>1, <3>2 DEF Asked, Answered
  <2>5. UnderWay(r, p)'
    BY <2>1, <2>2, <2>3, <2>4, StaysUnderWay
  <2>6. WayIsOpen(p)'
    BY <2>1, WayStaysOpen
  <2> QED
    BY <2>5, <2>6 DEF r, p
<1> QED
  BY <1>2, <1>3

LEMMA OwedProviderSteps ==
    ASSUME NetworkInv, OwedInv, NEW g \in Providers,
           RegisterPullInterest(g) \/ UnregisterPullInterest(g)
    PROVE  OwedInv'
<1>1. /\ g \in Gateways /\ channel \in [Gateways -> [Gateways -> Seq(Message)]]
      /\ held \in [Gateways -> SUBSET (1..requests)]
      /\ owed \subseteq (1..requests) \X pullHandlers /\ pullHandlers \subseteq Gateways
  BY ClientAssumption, ChannelType DEF NetworkInv, TableInv
<1>2. UNCHANGED <<device, cgPullRequestReturnIds, plugins, side, crossGatewayPullRequestHandlers>>
  BY DEF RegisterPullInterest, UnregisterPullInterest, links, trail, clients
<1>3. \A a, b \in Gateways : Up(a, b) => Up(a, b)'
  BY <1>2 DEF Up
<1>4. CASE RegisterPullInterest(g)
  <2>1. /\ channel' = Sent(channel, g, Handled(g), <<RegisterMsg>>)
        /\ pullHandlers' = pullHandlers \cup {g} /\ held' = held /\ owed' = owed
    BY <1>4 DEF RegisterPullInterest, work, ledger
  <2>2. \A a, b \in Gateways :
          channel'[a][b] = channel[a][b] \/ channel'[a][b] = channel[a][b] \o <<RegisterMsg>>
    <3> DEFINE told == <<RegisterMsg>>
    <3>1. channel' = Sent(channel, g, Handled(g), told)
      BY <2>1
    <3> HIDE DEF told
    <3>2. \A a, b \in Gateways :
            channel'[a][b] = channel[a][b] \/ channel'[a][b] = channel[a][b] \o told
      BY <1>1, <3>1 DEF Sent
    <3> QED
      BY <3>2 DEF told
  <2>3. ASSUME NEW a \in Gateways, NEW b \in Gateways
        PROVE  /\ Contents(channel[a][b]) \subseteq Contents(channel'[a][b])
               /\ Contents(channel'[a][b]) \subseteq Contents(channel[a][b]) \cup {RegisterMsg}
    <3>1. channel[a][b] \in Seq(Message)
      BY <1>1
    <3>2. Contents(channel[a][b] \o <<RegisterMsg>>) = Contents(channel[a][b]) \cup {RegisterMsg}
      BY <3>1, ContentsAdded
    <3>3. \/ Contents(channel'[a][b]) = Contents(channel[a][b])
          \/ Contents(channel'[a][b]) = Contents(channel[a][b]) \cup {RegisterMsg}
      BY <2>2, <3>2
    <3> QED
      BY <3>3
  <2>4. \A o \in owed' : o[2] \in pullHandlers' /\ held[o[2]] \subseteq held'[o[2]]
    BY <1>1, <2>1
  <2> QED
    BY <1>2, <1>3, <2>1, <2>3, <2>4, OwedLasts
<1>5. CASE UnregisterPullInterest(g)
  <2>1. /\ channel' = channel /\ owed' = {o \in owed : o[2] # g}
        /\ pullHandlers' = pullHandlers \ {g} /\ held' = [held EXCEPT ![g] = {}]
    BY <1>5 DEF UnregisterPullInterest, links
  <2>2. ASSUME NEW o \in owed'
        PROVE  o[2] \in pullHandlers' /\ held[o[2]] \subseteq held'[o[2]]
    <3>1. o \in owed /\ o[2] # g /\ o[2] \in pullHandlers /\ o[2] \in Gateways
      BY <1>1, <2>1, <2>2
    <3> QED
      BY <1>1, <2>1, <3>1
  <2>3. owed' \subseteq owed
    BY <2>1
  <2> QED
    BY <1>2, <1>3, <2>1, <2>2, <2>3, OwedLasts
<1> QED
  BY <1>4, <1>5

LEMMA OwedQuietSteps ==
    ASSUME NetworkInv, OwedInv,
           \/ \E g \in Places : Move(g) \/ Leave(g)
           \/ \E g \in DOMAIN Parent : Connect(g)
           \/ \E g \in Gateways : \E n \in Neighbours(g) : Close(g, n)
    PROVE  OwedInv'
<1>1. CASE \/ \E g \in Places : Move(g)
           \/ \E g \in Gateways : \E n \in Neighbours(g) : Close(g, n)
  <2>1. owed' = {}
    BY <1>1 DEF Move, Close
  <2> QED
    BY <2>1 DEF OwedInv
<1>2. owed \subseteq (1..requests) \X pullHandlers
  BY DEF NetworkInv, TableInv
<1>3. ASSUME NEW g \in Places, Leave(g)
      PROVE  OwedInv'
  <2>1. /\ UNCHANGED <<pullHandlers, crossGatewayPullRequestHandlers, side, channel,
                       device, cgPullRequestReturnIds, held, owed>>
        /\ g # device /\ plugins' = plugins \ {g}
    BY <1>3 DEF Leave, ForgetPlugin, interests, work, ledger, links
  <2>2. plugins = {device} => plugins' = {device}
    BY <2>1
  <2>3. \A a, b \in Gateways : Up(a, b) => Up(a, b)'
    BY <2>1 DEF Up
  <2>4. \A o \in owed' : o[2] \in pullHandlers' /\ held[o[2]] \subseteq held'[o[2]]
    BY <1>2, <2>1
  <2> QED
    BY <2>1, <2>2, <2>3, <2>4, OwedLasts
<1>4. ASSUME NEW g \in DOMAIN Parent, Connect(g)
      PROVE  OwedInv'
  <2>1. /\ OpenLink(g)
        /\ UNCHANGED <<pullHandlers, crossGatewayPullRequestHandlers, plugins, device,
                       cgPullRequestReturnIds, held, owed>>
    BY <1>4 DEF Connect, interests, trail, clients, work, ledger
  <2> DEFINE new(a, b) == (a = g /\ b = Parent[g]) \/ (a = Parent[g] /\ b = g)
             one == <<AssociateMsg>>
  <2>2. /\ side[g][Parent[g]] = "closed" /\ side[Parent[g]][g] = "closed"
        /\ \A a, b \in Gateways :
             IF new(a, b) THEN channel'[a][b] = one
                          ELSE side'[a][b] = side[a][b] /\ channel'[a][b] = channel[a][b]
    BY <2>1, OpenEffect
  <2>3. ASSUME NEW a \in Gateways, NEW b \in Gateways, Up(a, b)
        PROVE  Up(a, b)' /\ channel'[a][b] = channel[a][b]
    <3>1. ~new(a, b) /\ ~new(b, a)
      BY <2>2, <2>3 DEF Up
    <3> QED
      BY <2>2, <2>3, <3>1 DEF Up
  <2>4. Contents(one) = {AssociateMsg}
    BY DEF Contents
  <2>5. \A a, b \in Gateways : \A m \in Contents(channel'[a][b]) :
          m \in Contents(channel[a][b]) \/ m \in {AssociateMsg, RegisterMsg}
    <3> HIDE DEF one
    <3> QED
      BY <2>2, <2>4
  <2>6. \A o \in owed' : o[2] \in pullHandlers' /\ held[o[2]] \subseteq held'[o[2]]
    BY <1>2, <2>1
  <2> QED
    BY <2>1, <2>3, <2>5, <2>6, OwedLasts
<1> QED
  BY <1>1, <1>3, <1>4

LEMMA OwedControlSteps ==
    ASSUME NetworkInv, OwedInv, NEW g \in Gateways, NEW n \in Neighbours(g),
           NEW i \in Arrivals(channel[n][g]),
           \/ ReceiveAssociate(g, n, i)
           \/ ReceiveRegister(g, n, i)
           \/ ReceiveUnregister(g, n, i)
    PROVE  OwedInv'
<1>1. /\ n \in Gateways /\ n # g /\ i \in DOMAIN channel[n][g]
      /\ side \in [Gateways -> [Gateways -> {"closed", "open", "associated"}]]
      /\ crossGatewayPullRequestHandlers \in [Gateways -> [Gateways -> Nat]]
      /\ channel \in [Gateways -> [Gateways -> Seq(Message)]]
      /\ owed \subseteq (1..requests) \X pullHandlers
  BY NeighbourBehind, ChannelType DEF Arrivals, NetworkInv, TableInv
<1>2. UNCHANGED <<pullHandlers, plugins, device, cgPullRequestReturnIds, held, owed>>
  BY DEF ReceiveAssociate, ReceiveRegister, ReceiveUnregister, interests, trail, clients,
     work, ledger
<1> SUFFICES ASSUME owed # {} PROVE OwedInv'
  BY <1>2 DEF OwedInv
<1>3. channel[n][g][i] # UnregisterMsg
  BY <1>1, ZenonT(40) DEF OwedInv, NothingStrays, Contents
<1>4. ~ReceiveUnregister(g, n, i)
  BY <1>3 DEF ReceiveUnregister
<1>5. PICK to, msgs : /\ Receive(g, n, i, to, msgs)
                      /\ to = {} \/ msgs = <<RegisterMsg>>
                      /\ channel[n][g][i] \in {AssociateMsg, RegisterMsg}
  BY <1>4 DEF ReceiveAssociate, ReceiveRegister
<1>6. /\ channel'[n][g] = Without(channel[n][g], i)
      /\ \A a, b \in Gateways : ~(a = g /\ b = n) =>
           channel'[b][a] = IF b = g /\ a \in to /\ side[a][b] # "closed"
                            THEN channel[b][a] \o msgs ELSE channel[b][a]
  <2>1. Receive(g, n, i, to, msgs)
    BY <1>5
  <2> QED
    BY <2>1, ReceiveEffect
<1>7. ASSUME NEW a \in Gateways, NEW b \in Gateways
      PROVE  /\ \A m \in Contents(channel[a][b]) : ~IsControl(m) => m \in Contents(channel'[a][b])
             /\ \A m \in Contents(channel'[a][b]) :
                  m \in Contents(channel[a][b]) \/ m \in {AssociateMsg, RegisterMsg}
  <2>1. CASE a = n /\ b = g
    <3> DEFINE q == channel[n][g]
    <3>1. q \in Seq(Message) /\ i \in DOMAIN q /\ IsControl(q[i])
      <4>1. q \in Seq(Message) /\ i \in DOMAIN q
        BY <1>1
      <4>2. IsControl(q[i])
        BY <1>5, ControlMessages, ZenonT(40)
      <4> QED
        BY <4>1, <4>2
    <3>2. channel'[a][b] = Without(q, i) /\ channel[a][b] = q
      BY <1>6, <2>1
    <3> HIDE DEF q
    <3>3. /\ Contents(Without(q, i)) \subseteq Contents(q)
          /\ Contents(q) \subseteq Contents(Without(q, i)) \cup {q[i]}
      BY <3>1, ContentsRemoved
    <3> QED
      BY <3>1, <3>2, <3>3
  <2>2. CASE ~(a = n /\ b = g)
    <3>1. channel'[a][b] = channel[a][b] \/ channel'[a][b] = channel[a][b] \o <<RegisterMsg>>
      BY <1>5, <1>6, <2>2
    <3>2. Contents(channel[a][b] \o <<RegisterMsg>>) = Contents(channel[a][b]) \cup {RegisterMsg}
      <4>1. channel[a][b] \in Seq(Message)
        BY <1>1
      <4> QED
        BY <4>1, ContentsAdded
    <3>3. \/ Contents(channel'[a][b]) = Contents(channel[a][b])
          \/ Contents(channel'[a][b]) = Contents(channel[a][b]) \cup {RegisterMsg}
      BY <3>1, <3>2
    <3> QED
      BY <3>3
  <2> QED
    BY <2>1, <2>2
<1>8. \A a, b \in Gateways : Up(a, b) => Up(a, b)'
  <2>1. CASE side' = side
    BY <2>1 DEF Up
  <2>2. CASE side' = [side EXCEPT ![g][n] = "associated"]
    <3>1. \A a, b \in Gateways : side[a][b] = "associated" => side'[a][b] = "associated"
      BY <1>1, <2>2
    <3> QED
      BY <3>1 DEF Up
  <2> QED
    BY <1>4, <2>1, <2>2 DEF ReceiveAssociate, ReceiveRegister
<1>9. \A a, b \in Gateways : crossGatewayPullRequestHandlers[a][b] > 0 =>
                               crossGatewayPullRequestHandlers'[a][b] > 0
  <2>1. CASE crossGatewayPullRequestHandlers' = crossGatewayPullRequestHandlers
    BY <2>1
  <2>2. CASE crossGatewayPullRequestHandlers' = Counted(g, n)
    BY <1>1, <2>2 DEF Counted
  <2> QED
    BY <1>4, <2>1, <2>2 DEF ReceiveAssociate, ReceiveRegister, interests
<1>10. \A o \in owed' : o[2] \in pullHandlers' /\ held[o[2]] \subseteq held'[o[2]]
  BY <1>1, <1>2
<1> QED
  BY <1>2, <1>7, <1>8, <1>9, <1>10, OwedLasts

(* The device asks: what it is owed is on its way. *)
LEMMA OwedOnRequest ==
    ASSUME NetworkInv, FlowInv, ReachInv, OwedInv, PullRequest
    PROVE  OwedInv'
<1>1. /\ channel \in [Gateways -> [Gateways -> Seq(Message)]]
      /\ requests \in Nat /\ device \in Gateways
      /\ held \in [Gateways -> SUBSET (1..requests)]
      /\ owed \subseteq (1..requests) \X pullHandlers /\ pullHandlers \subseteq Gateways
      /\ reached \in [Gateways -> SUBSET Gateways]
  BY ChannelType DEF NetworkInv, TableInv
<1>2. PICK r, ask :
        /\ r = requests + 1 /\ ask = Msg("Request", r, device, {device})
        /\ Ask(device, r) /\ plugins' = plugins \cup {device}
      /\ channel' = Sent(channel, device, Interested(device), <<ask>>)
      /\ owed' = owed \cup {<<r, p>> : p \in {p \in pullHandlers :
                              /\ ~missed /\ device \in reached[p]
                              /\ TrailIsClear /\ Announced}}
      /\ UNCHANGED <<pullHandlers, crossGatewayPullRequestHandlers, cgPullRequestReturnIds,
                     device, side>>
  BY DEF PullRequest, interests, clients
<1>3. ask \in Message /\ ask.type = "Request" /\ ask.request = r /\ ask.from = device
      /\ ~IsControl(ask)
  <2>1. r \in Nat
    BY <1>1, <1>2
  <2> QED
    BY <1>1, <1>2, <2>1 DEF Msg, Message, IsControl
<1>4. ask # UnregisterMsg
  BY <1>3, ControlMessages
<1> DEFINE sent == <<ask>>
<1> HIDE DEF sent
<1>5. \A a, b \in Gateways :
        channel'[b][a] = IF b = device /\ a \in Interested(device) /\ side[a][b] # "closed"
                         THEN channel[b][a] \o sent ELSE channel[b][a]
  BY <1>1, <1>2 DEF Sent, sent
<1>6. \A a, b \in Gateways : Contents(channel[b][a] \o sent) = Contents(channel[b][a]) \cup {ask}
  <2> SUFFICES ASSUME NEW a \in Gateways, NEW b \in Gateways
               PROVE  Contents(channel[b][a] \o sent) = Contents(channel[b][a]) \cup {ask}
    OBVIOUS
  <2>1. channel[b][a] \in Seq(Message)
    BY <1>1
  <2> QED
    BY <2>1, ContentsAdded DEF sent
<1>7. \A a, b \in Gateways : /\ Contents(channel[b][a]) \subseteq Contents(channel'[b][a])
                             /\ Contents(channel'[b][a]) \subseteq Contents(channel[b][a]) \cup {ask}
  BY <1>5, <1>6
<1>8. \A x \in Gateways : Trail(x) <=> Trail(x)'
  BY <1>2 DEF Trail
<1>9. ASSUME NEW p, WayIsOpen(p)
      PROVE  WayIsOpen(p)'
  BY <1>2, <1>9 DEF WayIsOpen, Up
<1>10. ASSUME NEW o \in owed
       PROVE  NothingStrays /\ WayIsOpen(o[2])' /\ UnderWay(o[1], o[2])'
  <2>1. NothingStrays /\ WayIsOpen(o[2]) /\ UnderWay(o[1], o[2])
    BY <1>10 DEF OwedInv
  <2> DEFINE s == o[1]
             p == o[2]
  <2>2. p \in Gateways /\ UnderWay(s, p)
    BY <1>1, <2>1
  <2> HIDE DEF s, p
  <2>3. s \in held[p] => s \in held'[p]
    BY <1>1, <1>2, <2>2 DEF Ask
  <2>4. \A a, b \in Gateways : OnWay(a, b, device, p) =>
          /\ Asked(a, b, s) => Asked(a, b, s)'
          /\ Answered(b, a, s, p) => Answered(b, a, s, p)'
    BY <1>7 DEF Asked, Answered
  <2>5. device' = device
    BY <1>2
  <2>6. UnderWay(s, p)'
    BY <1>8, <2>2, <2>3, <2>4, <2>5, StaysUnderWay
  <2> QED
    BY <1>9, <2>1, <2>6 DEF s, p
<1>11. ASSUME NEW p \in pullHandlers, ~missed, device \in reached[p], TrailIsClear, Announced
       PROVE  /\ NothingStrays \/ plugins = {}
              /\ \A a, b \in Gateways : \A m \in Contents(channel[a][b]) :
                   m # UnregisterMsg /\ (m.type = "Request" => m.from = device)
              /\ WayIsOpen(p)' /\ UnderWay(r, p)'
  <2>1. p \in Gateways /\ ReachAt(device, p)
    BY <1>1, <1>11 DEF ReachInv
  <2>2. WayIsOpen(p)
    BY <1>11, <2>1, WayIsCounted DEF ReachAt, WayIsOpen
  <2>3. \A a, b \in Gateways : \A m \in Contents(channel[a][b]) :
          m # UnregisterMsg /\ (m.type = "Request" => m.from = device)
    BY <1>11, ControlMessages DEF Contents, Announced, TrailIsClear, StrayRequest
  <2>4. plugins = {} \/ plugins = {device}
    BY <1>11 DEF TrailIsClear
  <2>5. Trail(device)'
    BY <1>1, <1>2, NoWay DEF Trail
  <2>6. CASE p = device
    <3>1. r \in held'[p]
      BY <1>1, <1>2, <2>6 DEF Ask
    <3>2. Trail(p)'
      BY <1>1, <1>2, <2>6, NoWay DEF Trail
    <3>3. UnderWay(r, p)'
      BY <3>1, <3>2 DEF UnderWay
    <3> QED
      BY <1>9, <2>2, <2>3, <2>4, <3>3 DEF NothingStrays
  <2>7. CASE p # device
    <3>1. PICK k \in Neighbours(device) : OnWay(device, k, device, p)
      BY <1>1, <2>2, <2>7, FirstHop DEF WayIsOpen
    <3>2. k \in Gateways
      BY <1>1, NeighbourBehind
    <3>3. k \in Interested(device) /\ side[k][device] # "closed"
      BY <1>1, <2>2, <3>1, <3>2 DEF WayIsOpen, Interested, Up
    <3>4. ask \in Contents(channel'[device][k])
      BY <1>1, <1>5, <1>6, <3>2, <3>3
    <3>5. Asked(device, k, r)'
      BY <1>2, <1>3, <3>4 DEF Asked
    <3>6. UnderWay(r, p)'
      BY <1>1, <1>2, <2>5, <3>1, <3>2, <3>5 DEF UnderWay
    <3> QED
      BY <1>9, <2>2, <2>3, <2>4, <3>6 DEF NothingStrays
  <2> QED
    BY <2>6, <2>7
<1> SUFFICES ASSUME owed' # {}
             PROVE  NothingStrays' /\ \A o \in owed' : WayIsOpen(o[2])' /\ UnderWay(o[1], o[2])'
  BY DEF OwedInv
<1>12. \A o \in owed' : WayIsOpen(o[2])' /\ UnderWay(o[1], o[2])'
  BY <1>2, <1>10, <1>11
<1>13. /\ plugins = {} \/ plugins = {device}
       /\ \A a, b \in Gateways : \A m \in Contents(channel[a][b]) :
            m # UnregisterMsg /\ (m.type = "Request" => m.from = device)
  <2>1. CASE owed # {}
    BY <1>10, <2>1 DEF NothingStrays
  <2>2. CASE owed = {}
    BY <1>2, <1>11, <2>2 DEF NothingStrays
  <2> QED
    BY <2>1, <2>2
<1>14. NothingStrays'
  <2>1. plugins' = {device'} /\ device' = device
    BY <1>2, <1>13
  <2>2. ASSUME NEW a \in Gateways, NEW b \in Gateways, NEW m \in Contents(channel'[a][b])
        PROVE  m # UnregisterMsg /\ (m.type = "Request" => m.from = device)
    <3>1. m = ask \/ m \in Contents(channel[a][b])
      BY <1>7
    <3> QED
      BY <1>3, <1>4, <1>13, <3>1
  <2> QED
    BY <2>1, <2>2 DEF NothingStrays
<1> QED
  BY <1>12, <1>14

(* The provider answers: the way back begins with its own return id, unless *)
(* the device is at its gateway.                                           *)
LEMMA OwedOnAnswer ==
    ASSUME NetworkInv, OwedInv, NEW g \in Providers, NEW r \in Requests, PullResponse(g, r)
    PROVE  OwedInv'
<1> DEFINE answer == Msg("Response", r, g, {g})
           sent == <<answer>>
<1>1. /\ channel \in [Gateways -> [Gateways -> Seq(Message)]]
      /\ g \in Gateways /\ r \in Nat /\ device \in Gateways
      /\ held \in [Gateways -> SUBSET (1..requests)]
      /\ owed \subseteq (1..requests) \X pullHandlers /\ pullHandlers \subseteq Gateways
  <2>1. r \in Nat
    BY ClientAssumption DEF Requests
  <2>2. g \in Gateways
    BY ClientAssumption
  <2> QED
    BY <2>1, <2>2, ChannelType DEF NetworkInv, TableInv
<1>2. /\ r \in held[g] /\ held' = [held EXCEPT ![g] = @ \ {r}]
      /\ Deliver(g, r, g)
      /\ channel' = IF GivenToDevice(g) THEN channel
                    ELSE Sent(channel, g, ReturnHop(g, g), sent)
      /\ UNCHANGED <<pullHandlers, crossGatewayPullRequestHandlers, plugins,
                     cgPullRequestReturnIds, device, side>>
  BY DEF PullResponse, interests, trail, clients
<1>3. /\ answer \in Message /\ answer.type = "Response" /\ answer.request = r
      /\ answer.from = g /\ ~IsControl(answer)
  BY <1>1 DEF Msg, Message, IsControl
<1>4. answer # UnregisterMsg
  BY <1>3, ControlMessages
<1> HIDE DEF answer
<1>5. \A a, b \in Gateways : Contents(channel[b][a] \o sent) = Contents(channel[b][a]) \cup {answer}
  <2> SUFFICES ASSUME NEW a \in Gateways, NEW b \in Gateways
               PROVE  Contents(channel[b][a] \o sent) = Contents(channel[b][a]) \cup {answer}
    OBVIOUS
  <2>1. channel[b][a] \in Seq(Message)
    BY <1>1
  <2> QED
    BY <2>1, ContentsAdded
<1> HIDE DEF sent
<1>6. \A a, b \in Gateways :
        channel'[b][a] = IF ~GivenToDevice(g) /\ b = g /\ a \in ReturnHop(g, g) /\ side[a][b] # "closed"
                         THEN channel[b][a] \o sent ELSE channel[b][a]
  BY <1>1, <1>2 DEF Sent
<1>7. \A a, b \in Gateways : /\ Contents(channel[b][a]) \subseteq Contents(channel'[b][a])
                             /\ Contents(channel'[b][a]) \subseteq Contents(channel[b][a]) \cup {answer}
  BY <1>5, <1>6
<1> SUFFICES ASSUME owed' # {}
             PROVE  NothingStrays' /\ \A o \in owed' : WayIsOpen(o[2])' /\ UnderWay(o[1], o[2])'
  BY DEF OwedInv
<1>8. owed' \subseteq owed /\ owed # {}
  BY <1>2 DEF Deliver
<1>9. NothingStrays /\ \A o \in owed : WayIsOpen(o[2]) /\ UnderWay(o[1], o[2])
  BY <1>8 DEF OwedInv
<1>10. NothingStrays'
  <2>1. plugins' = {device'} /\ device' = device
    BY <1>2, <1>9 DEF NothingStrays
  <2>2. ASSUME NEW a \in Gateways, NEW b \in Gateways, NEW m \in Contents(channel'[a][b])
        PROVE  m # UnregisterMsg /\ (m.type = "Request" => m.from = device)
    <3>1. m = answer \/ m \in Contents(channel[a][b])
      BY <1>7
    <3> QED
      BY <1>3, <1>4, <1>9, <3>1 DEF NothingStrays
  <2> QED
    BY <2>1, <2>2 DEF NothingStrays
<1>11. \A x \in Gateways : Trail(x) => Trail(x)'
  BY <1>2 DEF Trail
<1>12. ASSUME NEW o \in owed'
       PROVE  WayIsOpen(o[2])' /\ UnderWay(o[1], o[2])'
  <2> DEFINE s == o[1]
             p == o[2]
  <2>1. WayIsOpen(p) /\ UnderWay(s, p) /\ p \in Gateways /\ o = <<s, p>>
    BY <1>1, <1>8, <1>9, <1>12
  <2> HIDE DEF s, p
  <2>2. WayIsOpen(p)'
    BY <1>2, <2>1 DEF WayIsOpen, Up
  <2>3. \A a, b \in Gateways : OnWay(a, b, device, p) =>
          /\ Asked(a, b, s) => Asked(a, b, s)'
          /\ Answered(b, a, s, p) => Answered(b, a, s, p)'
    BY <1>7 DEF Asked, Answered
  <2>4. CASE s \in held[p] /\ Trail(p) /\ s = r /\ p = g
    <3>1. GivenToDevice(g) <=> g = device
      BY <1>9 DEF GivenToDevice, NothingStrays
    <3>2. g # device
      BY <1>2, <1>12, <2>1, <2>4, <3>1 DEF Deliver
    <3>3. PICK u \in Neighbours(g) : OnWay(u, g, device, g)
      BY <1>1, <2>1, <2>4, <3>2, LastHop DEF WayIsOpen
    <3>4. u \in Gateways /\ u # g
      BY <1>1, NeighbourBehind
    <3>5. cgPullRequestReturnIds[g] = u /\ Up(u, g)
      BY <1>1, <2>1, <2>4, <3>3, <3>4 DEF Trail, WayIsOpen
    <3>6. u \in ReturnHop(g, g) /\ side[u][g] # "closed"
      BY <3>4, <3>5 DEF ReturnHop, Handled, Up
    <3>7. answer \in Contents(channel'[g][u])
      BY <1>1, <1>5, <1>6, <3>1, <3>2, <3>4, <3>6
    <3>8. Answered(g, u, s, p)'
      BY <1>3, <2>4, <3>7 DEF Answered
    <3>9. Trail(u)
      BY <1>1, <2>4, <3>3, <3>4, WayExtends DEF Trail
    <3>10. UnderWay(s, p)'
      BY <1>1, <1>2, <1>11, <2>4, <3>3, <3>4, <3>8, <3>9 DEF UnderWay
    <3> QED
      BY <2>2, <3>10 DEF s, p
  <2>5. CASE ~(s \in held[p] /\ Trail(p) /\ s = r /\ p = g)
    <3>1. CASE s \in held[p] /\ Trail(p)
      <4>1. s \in held'[p]
        BY <1>1, <1>2, <2>1, <2>5, <3>1
      <4> QED
        BY <1>11, <2>1, <2>2, <3>1, <4>1 DEF UnderWay, s, p
    <3>2. ASSUME NEW a \in Gateways, NEW b \in Gateways, OnWay(a, b, device, p), Trail(a),
                 Asked(a, b, s) \/ Answered(b, a, s, p)
          PROVE  UnderWay(s, p)'
      BY <1>2, <1>11, <2>3, <3>2 DEF UnderWay
    <3> QED
      BY <2>1, <2>2, <3>1, <3>2 DEF UnderWay, s, p
  <2> QED
    BY <2>2, <2>4, <2>5 DEF s, p
<1> QED
  BY <1>10, <1>12

(* A request arrives: it turns the trail towards where it came from, which *)
(* is where the device is, and it goes on to all who may lead further.     *)
LEMMA OwedOnArrival ==
    ASSUME NetworkInv, OwedInv, NEW g \in Gateways, NEW n \in Neighbours(g),
           NEW i \in Arrivals(channel[n][g]), ReceiveRequest(g, n, i)
    PROVE  OwedInv'
<1>1. /\ channel \in [Gateways -> [Gateways -> Seq(Message)]]
      /\ n \in Gateways /\ g \in Neighbours(n) /\ i \in DOMAIN channel[n][g]
      /\ cgPullRequestReturnIds \in [Gateways -> Gateways \cup {Nowhere}]
      /\ held \in [Gateways -> SUBSET (1..requests)]
      /\ owed \subseteq (1..requests) \X pullHandlers /\ pullHandlers \subseteq Gateways
  BY NeighbourBehind, ChannelType DEF NetworkInv, TableInv, Arrivals
<1>2. PICK m, on :
        /\ m = channel[n][g][i] /\ on = Through(g, m) /\ m.type = "Request"
        /\ Receive(g, n, i, NextHops(g, n), <<on>>) /\ Ask(g, m.request)
        /\ cgPullRequestReturnIds' = [cgPullRequestReturnIds EXCEPT ![g] = n]
        /\ UNCHANGED <<pullHandlers, crossGatewayPullRequestHandlers, plugins, device,
                       owed, side>>
  BY DEF ReceiveRequest, interests, clients, ledger
<1>3. m \in Good(n, g, requests) /\ m \in Message /\ ~IsControl(m)
  <2>1. m \in Good(n, g, requests)
    BY <1>1, <1>2, ChannelType
  <2> QED
    BY <1>2, <2>1 DEF Good, IsControl
<1>4. /\ on.type = "Request" /\ on.request = m.request /\ on.from = m.from
      /\ ~IsControl(on)
  BY <1>2, <1>3, ThroughType
<1>5. on # UnregisterMsg
  BY <1>4, ControlMessages
<1> DEFINE sent == <<on>>
<1>6. \A a, b \in Gateways : Contents(channel[b][a] \o sent) = Contents(channel[b][a]) \cup {on}
  <2> SUFFICES ASSUME NEW a \in Gateways, NEW b \in Gateways
               PROVE  Contents(channel[b][a] \o sent) = Contents(channel[b][a]) \cup {on}
    OBVIOUS
  <2>1. channel[b][a] \in Seq(Message)
    BY <1>1
  <2> QED
    BY <2>1, ContentsAdded
<1>7. Receive(g, n, i, NextHops(g, n), sent)
  BY <1>2
<1> HIDE DEF sent
<1>8. /\ channel'[n][g] = Without(channel[n][g], i)
      /\ \A a, b \in Gateways : ~(a = g /\ b = n) =>
           channel'[b][a] = IF b = g /\ a \in NextHops(g, n) /\ side[a][b] # "closed"
                            THEN channel[b][a] \o sent ELSE channel[b][a]
  <2>1. PICK to, msgs : to = NextHops(g, n) /\ msgs = sent /\ Receive(g, n, i, to, msgs)
    BY <1>7
  <2>2. Receive(g, n, i, to, msgs)
    BY <2>1
  <2>3. channel'[n][g] = Without(channel[n][g], i)
    BY <2>2, ReceiveEffect
  <2>4. ASSUME NEW a \in Gateways, NEW b \in Gateways, ~(a = g /\ b = n)
        PROVE  channel'[b][a] = IF b = g /\ a \in to /\ side[a][b] # "closed"
                                THEN channel[b][a] \o msgs ELSE channel[b][a]
    BY <2>2, <2>4, ReceiveEffect, SMTT(40)
  <2> QED
    BY <2>1, <2>3, <2>4
<1>9. \A a, b \in Gateways :
        /\ \A x \in Contents(channel[b][a]) :
             x \in Contents(channel'[b][a]) \/ (a = g /\ b = n /\ x = m)
        /\ Contents(channel'[b][a]) \subseteq Contents(channel[b][a]) \cup {on}
  <2> SUFFICES ASSUME NEW a \in Gateways, NEW b \in Gateways
               PROVE  /\ \A x \in Contents(channel[b][a]) :
                           x \in Contents(channel'[b][a]) \/ (a = g /\ b = n /\ x = m)
                      /\ Contents(channel'[b][a]) \subseteq Contents(channel[b][a]) \cup {on}
    OBVIOUS
  <2>1. CASE a = g /\ b = n
    <3> DEFINE q == channel[n][g]
    <3>1. q \in Seq(Message) /\ i \in DOMAIN q /\ q[i] = m
      BY <1>1, <1>2
    <3>2. channel'[b][a] = Without(q, i) /\ channel[b][a] = q
      BY <1>8, <2>1
    <3> HIDE DEF q
    <3>3. /\ Contents(Without(q, i)) \subseteq Contents(q)
          /\ Contents(q) \subseteq Contents(Without(q, i)) \cup {q[i]}
      BY <3>1, ContentsRemoved
    <3> QED
      BY <2>1, <3>1, <3>2, <3>3
  <2>2. CASE ~(a = g /\ b = n)
    BY <1>6, <1>8, <2>2
  <2> QED
    BY <2>1, <2>2
<1> SUFFICES ASSUME owed # {}
             PROVE  NothingStrays' /\ \A o \in owed : WayIsOpen(o[2])' /\ UnderWay(o[1], o[2])'
  BY <1>2 DEF OwedInv
<1>10. NothingStrays /\ \A o \in owed : WayIsOpen(o[2]) /\ UnderWay(o[1], o[2])
  BY DEF OwedInv
<1>11. m.from = device /\ device \in Behind(n, g)
  <2>1. m.from = device
    BY <1>1, <1>2, <1>10 DEF NothingStrays, Contents
  <2>2. m.from \in m.path /\ m.path \subseteq Behind(n, g)
    BY <1>3 DEF Good
  <2> QED
    BY <2>1, <2>2
<1>12. NothingStrays'
  <2>1. plugins' = {device'} /\ device' = device
    BY <1>2, <1>10 DEF NothingStrays
  <2>2. ASSUME NEW a \in Gateways, NEW b \in Gateways, NEW x \in Contents(channel'[a][b])
        PROVE  x # UnregisterMsg /\ (x.type = "Request" => x.from = device)
    <3>1. x = on \/ x \in Contents(channel[a][b])
      BY <1>9
    <3> QED
      BY <1>4, <1>5, <1>10, <1>11, <3>1 DEF NothingStrays
  <2> QED
    BY <2>1, <2>2 DEF NothingStrays
<1>13. \A u \in Gateways, x \in Gateways : OnWay(u, g, device, x) => u = n
  BY <1>11, WayInIsUnique
<1>14. \A x \in Gateways : Trail(x) => Trail(x)'
  BY <1>1, <1>2, <1>13 DEF Trail
<1>15. ASSUME NEW p \in Gateways, OnWay(n, g, device, p), Trail(n)
       PROVE  Trail(g)'
  <2> SUFFICES ASSUME NEW a \in Gateways, NEW b \in Gateways, OnWay(a, b, device, g)
               PROVE  cgPullRequestReturnIds'[b] = a
    BY <1>2 DEF Trail
  <2>1. OnWay(a, b, device, n) \/ (a = n /\ b = g)
    BY <1>1, <1>15, WayByLink
  <2>2. CASE b = g
    BY <1>1, <1>2, <1>13, <2>2
  <2>3. CASE b # g
    BY <1>1, <1>2, <1>15, <2>1, <2>3 DEF Trail
  <2> QED
    BY <2>2, <2>3
<1>16. ASSUME NEW r, NEW p, WayIsOpen(p), UnderWay(r, p)
       PROVE  WayIsOpen(p)' /\ UnderWay(r, p)'
  <2>1. WayIsOpen(p)' /\ p \in Gateways
    BY <1>1, <1>2, <1>16 DEF WayIsOpen, Up
  <2>2. CASE r \in held[p] /\ Trail(p)
    <3>1. r \in held'[p]
      BY <1>1, <1>2, <2>1, <2>2 DEF Ask
    <3> QED
      BY <1>14, <2>1, <2>2, <3>1 DEF UnderWay
  <2>3. ASSUME NEW a \in Gateways, NEW b \in Gateways, OnWay(a, b, device, p), Trail(a),
               NEW x \in Contents(channel[a][b]), x.type = "Request", x.request = r
        PROVE  UnderWay(r, p)'
    <3>1. CASE x \in Contents(channel'[a][b])
      <4>1. Asked(a, b, r)'
        BY <2>3, <3>1 DEF Asked
      <4> QED
        BY <1>2, <1>14, <2>3, <4>1 DEF UnderWay
    <3>2. CASE a = n /\ b = g /\ x = m
      <4>1. Trail(g)'
        BY <1>15, <2>1, <2>3, <3>2
      <4>2. CASE g = p
        <5>1. r \in held'[p]
          BY <1>1, <1>2, <1>16, <2>3, <3>2, <4>2 DEF Ask, WayIsOpen
        <5> QED
          BY <4>1, <4>2, <5>1 DEF UnderWay
      <4>3. CASE g # p
        <5>1. PICK k \in Neighbours(g) \ {n} : OnWay(g, k, device, p)
          BY <1>1, <2>3, <3>2, <4>3, NextHop
        <5>2. k \in Gateways /\ k # n
          BY <5>1, NeighbourBehind
        <5>3. k \in NextHops(g, n) /\ side[k][g] # "closed"
          BY <1>16, <5>1, <5>2 DEF WayIsOpen, Up, NextHops, Interested
        <5>4. on \in Contents(channel'[g][k])
          <6>1. channel'[g][k] = channel[g][k] \o sent
            BY <1>1, <1>8, <5>2, <5>3
          <6> QED
            BY <1>6, <5>2, <6>1
        <5>5. Asked(g, k, r)'
          BY <1>4, <2>3, <3>2, <5>4 DEF Asked
        <5> QED
          BY <1>2, <4>1, <5>1, <5>2, <5>5 DEF UnderWay
      <4> QED
        BY <4>2, <4>3
    <3> QED
      BY <1>9, <3>1, <3>2
  <2>4. ASSUME NEW a \in Gateways, NEW b \in Gateways, OnWay(a, b, device, p), Trail(a),
               Answered(b, a, r, p)
        PROVE  UnderWay(r, p)'
    <3>1. Answered(b, a, r, p)'
      BY <1>2, <1>9, <2>4 DEF Answered
    <3> QED
      BY <1>2, <1>14, <2>4, <3>1 DEF UnderWay
  <2> QED
    BY <1>16, <2>1, <2>2, <2>3, <2>4 DEF UnderWay, Asked
<1> QED
  BY <1>10, <1>12, <1>16

(* An answer arrives: either it is the device's, or the trail leads it one *)
(* link back along the way that the request came.                          *)
LEMMA OwedOnAnswerBack ==
    ASSUME NetworkInv, OwedInv, NEW g \in Gateways, NEW n \in Neighbours(g),
           NEW i \in Arrivals(channel[n][g]), ReceiveResponse(g, n, i)
    PROVE  OwedInv'
<1>1. /\ channel \in [Gateways -> [Gateways -> Seq(Message)]]
      /\ n \in Gateways /\ g \in Neighbours(n) /\ i \in DOMAIN channel[n][g]
      /\ device \in Gateways
      /\ owed \subseteq (1..requests) \X pullHandlers /\ pullHandlers \subseteq Gateways
  BY NeighbourBehind, ChannelType DEF NetworkInv, TableInv, Arrivals
<1>2. PICK m, on, to :
        /\ m = channel[n][g][i] /\ on = Through(g, m) /\ m.type = "Response"
        /\ to = IF GivenToDevice(g) THEN {} ELSE ReturnHop(g, n)
        /\ Receive(g, n, i, to, <<on>>) /\ Deliver(g, m.request, m.from)
        /\ UNCHANGED <<pullHandlers, crossGatewayPullRequestHandlers, plugins,
                       cgPullRequestReturnIds, device, held, requests, side>>
  BY DEF ReceiveResponse, interests, trail, clients, work
<1>3. m \in Good(n, g, requests) /\ m \in Message /\ ~IsControl(m)
  <2>1. m \in Good(n, g, requests)
    BY <1>1, <1>2, ChannelType
  <2> QED
    BY <1>2, <2>1 DEF Good, IsControl
<1>4. /\ on.type = "Response" /\ on.request = m.request /\ on.from = m.from
      /\ ~IsControl(on)
  BY <1>2, <1>3, ThroughType
<1>5. on # UnregisterMsg
  BY <1>4, ControlMessages
<1> DEFINE sent == <<on>>
<1>6. \A a, b \in Gateways : Contents(channel[b][a] \o sent) = Contents(channel[b][a]) \cup {on}
  <2> SUFFICES ASSUME NEW a \in Gateways, NEW b \in Gateways
               PROVE  Contents(channel[b][a] \o sent) = Contents(channel[b][a]) \cup {on}
    OBVIOUS
  <2>1. channel[b][a] \in Seq(Message)
    BY <1>1
  <2> QED
    BY <2>1, ContentsAdded
<1>7. Receive(g, n, i, to, sent)
  BY <1>2
<1> HIDE DEF sent
<1>8. /\ channel'[n][g] = Without(channel[n][g], i)
      /\ \A a, b \in Gateways : ~(a = g /\ b = n) =>
           channel'[b][a] = IF b = g /\ a \in to /\ side[a][b] # "closed"
                            THEN channel[b][a] \o sent ELSE channel[b][a]
  <2>1. PICK msgs : msgs = sent /\ Receive(g, n, i, to, msgs)
    BY <1>7
  <2>2. Receive(g, n, i, to, msgs)
    BY <2>1
  <2>3. channel'[n][g] = Without(channel[n][g], i)
    BY <2>2, ReceiveEffect
  <2>4. ASSUME NEW a \in Gateways, NEW b \in Gateways, ~(a = g /\ b = n)
        PROVE  channel'[b][a] = IF b = g /\ a \in to /\ side[a][b] # "closed"
                                THEN channel[b][a] \o msgs ELSE channel[b][a]
    BY <2>2, <2>4, ReceiveEffect, SMTT(40)
  <2> QED
    BY <2>1, <2>3, <2>4
<1>9. \A a, b \in Gateways :
        /\ \A x \in Contents(channel[b][a]) :
             x \in Contents(channel'[b][a]) \/ (a = g /\ b = n /\ x = m)
        /\ Contents(channel'[b][a]) \subseteq Contents(channel[b][a]) \cup {on}
  <2> SUFFICES ASSUME NEW a \in Gateways, NEW b \in Gateways
               PROVE  /\ \A x \in Contents(channel[b][a]) :
                           x \in Contents(channel'[b][a]) \/ (a = g /\ b = n /\ x = m)
                      /\ Contents(channel'[b][a]) \subseteq Contents(channel[b][a]) \cup {on}
    OBVIOUS
  <2>1. CASE a = g /\ b = n
    <3> DEFINE q == channel[n][g]
    <3>1. q \in Seq(Message) /\ i \in DOMAIN q /\ q[i] = m
      BY <1>1, <1>2
    <3>2. channel'[b][a] = Without(q, i) /\ channel[b][a] = q
      BY <1>8, <2>1
    <3> HIDE DEF q
    <3>3. /\ Contents(Without(q, i)) \subseteq Contents(q)
          /\ Contents(q) \subseteq Contents(Without(q, i)) \cup {q[i]}
      BY <3>1, ContentsRemoved
    <3> QED
      BY <2>1, <3>1, <3>2, <3>3
  <2>2. CASE ~(a = g /\ b = n)
    BY <1>6, <1>8, <2>2
  <2> QED
    BY <2>1, <2>2
<1> SUFFICES ASSUME owed' # {}
             PROVE  NothingStrays' /\ \A o \in owed' : WayIsOpen(o[2])' /\ UnderWay(o[1], o[2])'
  BY DEF OwedInv
<1>10. owed' \subseteq owed /\ owed # {}
  BY <1>2 DEF Deliver
<1>11. NothingStrays /\ \A o \in owed : WayIsOpen(o[2]) /\ UnderWay(o[1], o[2])
  BY <1>10 DEF OwedInv
<1>12. NothingStrays'
  <2>1. plugins' = {device'} /\ device' = device
    BY <1>2, <1>11 DEF NothingStrays
  <2>2. ASSUME NEW a \in Gateways, NEW b \in Gateways, NEW x \in Contents(channel'[a][b])
        PROVE  x # UnregisterMsg /\ (x.type = "Request" => x.from = device)
    <3>1. x = on \/ x \in Contents(channel[a][b])
      BY <1>9
    <3> QED
      BY <1>4, <1>5, <1>11, <3>1 DEF NothingStrays
  <2> QED
    BY <2>1, <2>2 DEF NothingStrays
<1>13. \A x \in Gateways : Trail(x) => Trail(x)'
  BY <1>2 DEF Trail
<1>14. GivenToDevice(g) <=> g = device
  BY <1>11 DEF GivenToDevice, NothingStrays
<1>15. ASSUME NEW r, NEW p, <<r, p>> \in owed', WayIsOpen(p), UnderWay(r, p)
       PROVE  WayIsOpen(p)' /\ UnderWay(r, p)'
  <2>1. WayIsOpen(p)' /\ p \in Gateways
    BY <1>1, <1>2, <1>15 DEF WayIsOpen, Up
  <2>2. CASE r \in held[p] /\ Trail(p)
    BY <1>2, <1>13, <2>1, <2>2 DEF UnderWay
  <2>3. ASSUME NEW a \in Gateways, NEW b \in Gateways, OnWay(a, b, device, p), Trail(a),
               NEW x \in Contents(channel[a][b]), x.type = "Request", x.request = r
        PROVE  UnderWay(r, p)'
    <3>1. x \in Contents(channel'[a][b])
      BY <1>2, <1>9, <2>3
    <3>2. Asked(a, b, r)'
      BY <2>3, <3>1 DEF Asked
    <3> QED
      BY <1>2, <1>13, <2>3, <3>2 DEF UnderWay
  <2>4. ASSUME NEW a \in Gateways, NEW b \in Gateways, OnWay(a, b, device, p), Trail(a),
               NEW x \in Contents(channel[b][a]),
               x.type = "Response", x.request = r, x.from = p
        PROVE  UnderWay(r, p)'
    <3>1. CASE x \in Contents(channel'[b][a])
      <4>1. Answered(b, a, r, p)'
        BY <2>4, <3>1 DEF Answered
      <4> QED
        BY <1>2, <1>13, <2>4, <4>1 DEF UnderWay
    <3>2. CASE a = g /\ b = n /\ x = m
      <4>1. g # device
        BY <1>2, <1>14, <1>15, <2>4, <3>2 DEF Deliver
      <4>2. OnWay(g, n, device, p) /\ Trail(g)
        BY <2>4, <3>2
      <4>3. PICK u \in Neighbours(g) \ {n} : OnWay(u, g, device, g)
        BY <1>1, <4>1, <4>2, HopBack
      <4>4. u \in Gateways /\ u # n /\ u # g
        BY <4>3, NeighbourBehind
      <4>5. OnWay(u, g, device, p)
        BY <1>1, <4>2, <4>3, <4>4, WayExtends
      <4>6. cgPullRequestReturnIds[g] = u /\ Up(u, g)
        BY <1>15, <4>2, <4>3, <4>4, <4>5 DEF Trail, WayIsOpen
      <4>7. u \in ReturnHop(g, n) /\ side[u][g] # "closed"
        BY <4>4, <4>6 DEF ReturnHop, Handled, Up
      <4>8. to = ReturnHop(g, n)
        BY <1>2, <1>14, <4>1
      <4>9. channel'[g][u] = channel[g][u] \o sent
        BY <1>8, <4>4, <4>7, <4>8
      <4>10. on \in Contents(channel'[g][u])
        BY <1>6, <4>4, <4>9
      <4>11. Answered(g, u, r, p)'
        BY <1>4, <2>4, <3>2, <4>10 DEF Answered
      <4>12. Trail(u)
        BY <4>2, <4>3, <4>4, WayExtends DEF Trail
      <4> QED
        BY <1>2, <1>13, <4>4, <4>5, <4>11, <4>12 DEF UnderWay
    <3> QED
      BY <1>9, <3>1, <3>2
  <2> QED
    BY <1>15, <2>1, <2>2, <2>3, <2>4 DEF UnderWay, Asked, Answered
<1>16. ASSUME NEW o \in owed'
       PROVE  WayIsOpen(o[2])' /\ UnderWay(o[1], o[2])'
  <2>1. /\ o = <<o[1], o[2]>>
        /\ WayIsOpen(o[2]) /\ UnderWay(o[1], o[2])
    BY <1>1, <1>10, <1>11
  <2> QED
    BY <1>15, <2>1
<1> QED
  BY <1>12, <1>16
-----------------------------------------------------------------------------
(* The steps that bring nothing nearer to a provider and break no link.    *)
LEMMA ReachSteps ==
    ASSUME NetworkInv, ReachInv,
           \/ PullRequest
           \/ \E g \in Places : Move(g) \/ Leave(g)
           \/ \E g \in Providers : \/ UnregisterPullInterest(g)
                                   \/ \E r \in Requests : PullResponse(g, r)
           \/ \E g \in DOMAIN Parent : Connect(g)
           \/ \E g \in Gateways : \E n \in Neighbours(g) : ReceiveSome(g, n)
    PROVE  ReachInv'
<1>1. /\ reached \in [Gateways -> SUBSET Gateways]
      /\ side \in [Gateways -> [Gateways -> {"closed", "open", "associated"}]]
  BY ChannelType DEF NetworkInv, TableInv
<1>2. CASE \E g \in Providers : UnregisterPullInterest(g)
  <2>1. PICK g \in Providers :
          /\ pullHandlers' = pullHandlers \ {g} /\ reached' = [reached EXCEPT ![g] = {}]
          /\ side' = side
    BY <1>2 DEF UnregisterPullInterest, links
  <2>2. \A p \in Gateways : reached'[p] = IF p = g THEN {} ELSE reached[p]
    BY <1>1, <2>1
  <2> QED
    BY <2>1, <2>2, ReachLasts DEF Up
<1>3. CASE \/ PullRequest
           \/ \E g \in Places : Move(g) \/ Leave(g)
           \/ \E g \in Providers : \E r \in Requests : PullResponse(g, r)
  <2>1. UNCHANGED <<pullHandlers, reached, side>>
    BY <1>3 DEF PullRequest, Move, Leave, PullResponse, interests, ledger, links
  <2> QED
    BY <2>1, ReachLasts DEF Up
<1>4. ASSUME NEW g \in DOMAIN Parent, Connect(g)
      PROVE  ReachInv'
  <2>1. UNCHANGED <<pullHandlers, reached>> /\ OpenLink(g)
    BY <1>4 DEF Connect, interests, ledger
  <2>2. ASSUME NEW a \in Gateways, NEW b \in Gateways, Up(a, b)
        PROVE  Up(a, b)'
    BY <1>1, <2>1, <2>2, OpenEffect DEF Up
  <2> QED
    BY <2>1, <2>2, ReachLasts
<1>5. ASSUME NEW g \in Gateways, NEW n \in Neighbours(g),
             NEW i \in Arrivals(channel[n][g]),
             \/ ReceiveAssociate(g, n, i)
             \/ ReceiveRegister(g, n, i)
             \/ ReceiveUnregister(g, n, i)
             \/ ReceiveRequest(g, n, i)
             \/ ReceiveResponse(g, n, i)
      PROVE  ReachInv'
  <2>1. /\ UNCHANGED <<pullHandlers, reached>>
        /\ side' \in {side, [side EXCEPT ![g][n] = "associated"]}
    BY <1>5 DEF ReceiveAssociate, ReceiveRegister, ReceiveUnregister, ReceiveRequest,
       ReceiveResponse, interests, ledger
  <2>2. \A a, b \in Gateways : side[a][b] = "associated" => side'[a][b] = "associated"
    BY <1>1, <2>1
  <2> QED
    BY <2>1, <2>2, ReachLasts DEF Up
<1> QED
  BY <1>2, <1>3, <1>4, <1>5 DEF ReceiveSome

(* What is owed is under way: the invariants together.                     *)
PullInv == NetworkInv /\ FlowInv /\ ReachInv /\ OwedInv

LEMMA PullInitially == Init => PullInv
<1> SUFFICES ASSUME Init PROVE PullInv
  OBVIOUS
<1>1. ReachInv
  BY DEF Init, ReachInv
<1>2. OwedInv
  BY DEF Init, OwedInv
<1> QED
  BY <1>1, <1>2, NetworkInitially, FlowInitially DEF PullInv

LEMMA PullStep == PullInv /\ [Next]_vars => PullInv'
<1> SUFFICES ASSUME NetworkInv, FlowInv, ReachInv, OwedInv, [Next]_vars
             PROVE  FlowInv' /\ ReachInv' /\ OwedInv'
  BY NetworkStep DEF PullInv
<1>1. CASE UNCHANGED vars
  <2>1. UNCHANGED <<pullHandlers, crossGatewayPullRequestHandlers, plugins,
                    cgPullRequestReturnIds, device, handlers, requests, held,
                    reached, missed, owed, side, channel>>
    BY <1>1 DEF vars, interests, trail, clients, work, ledger, links
  <2>2. FlowInv'
    BY <2>1 DEF FlowInv, FlowAt, Told, Heard, Flows
  <2>3. ReachInv'
    BY <2>1, ReachLasts DEF Up
  <2>4. OwedInv'
    BY <2>1 DEF OwedInv, NothingStrays, WayIsOpen, UnderWay, Up, Trail, Asked, Answered
  <2> QED
    BY <2>2, <2>3, <2>4
<1>2. CASE \E g \in Providers : RegisterPullInterest(g) \/ UnregisterPullInterest(g)
  BY <1>2, FlowProviderSteps, ReachRegister, ReachSteps, OwedProviderSteps
<1>3. CASE \E g \in Providers : \E r \in Requests : PullResponse(g, r)
  BY <1>3, FlowDataSteps, ReachSteps, OwedOnAnswer
<1>4. CASE PullRequest
  BY <1>4, FlowDataSteps, ReachSteps, OwedOnRequest
<1>5. CASE \E g \in Places : Move(g) \/ Leave(g)
  BY <1>5, FlowDataSteps, ReachSteps, OwedQuietSteps
<1>6. CASE \E g \in DOMAIN Parent : Connect(g)
  BY <1>6, FlowConnect, ReachSteps, OwedQuietSteps
<1>7. CASE \E g \in Gateways : \E n \in Neighbours(g) : Close(g, n)
  BY <1>7, FlowClose, ReachClose, OwedQuietSteps
<1>8. ASSUME NEW g \in Gateways, NEW n \in Neighbours(g),
             NEW i \in Arrivals(channel[n][g]),
             \/ ReceiveAssociate(g, n, i)
             \/ ReceiveRegister(g, n, i)
             \/ ReceiveUnregister(g, n, i)
      PROVE  FlowInv' /\ ReachInv' /\ OwedInv'
  <2>1. ReceiveSome(g, n)
    BY <1>8 DEF ReceiveSome
  <2>2. ReachInv'
    BY <2>1, ReachSteps
  <2>3. FlowInv'
    BY <1>8, FlowAssociate, FlowControlSteps
  <2> QED
    BY <1>8, <2>2, <2>3, OwedControlSteps
<1>9. ASSUME NEW g \in Gateways, NEW n \in Neighbours(g),
             NEW i \in Arrivals(channel[n][g]),
             ReceiveRequest(g, n, i) \/ ReceiveResponse(g, n, i)
      PROVE  FlowInv' /\ ReachInv' /\ OwedInv'
  <2>1. ReceiveSome(g, n)
    BY <1>9 DEF ReceiveSome
  <2>2. ReachInv'
    BY <2>1, ReachSteps
  <2>3. FlowInv'
    BY <1>9, FlowDataSteps
  <2> QED
    BY <1>9, <2>2, <2>3, OwedOnArrival, OwedOnAnswerBack
<1> QED
  BY <1>1, <1>2, <1>3, <1>4, <1>5, <1>6, <1>7, <1>8, <1>9 DEF Next, ReceiveSome

(* When nothing is under way the device has had every answer it was to     *)
(* have: each provider's whose registration had reached its gateway when   *)
(* it asked, unless a link broke or came up late, or something it had left *)
(* elsewhere could mislead them (GatewayCore::pullRequest, pullResponse).  *)
THEOREM AnswersAlwaysReturn == Spec => []AnswersReturn
<1>1. ASSUME PullInv
      PROVE  AnswersReturn
  <2> SUFFICES ASSUME \A g \in Gateways : /\ held[g] = {}
                                          /\ \A n \in Gateways : channel[g][n] = << >>,
                      NEW o \in owed
               PROVE  FALSE
    BY DEF AnswersReturn
  <2>1. WayIsOpen(o[2]) /\ UnderWay(o[1], o[2]) /\ o[2] \in Gateways
    BY <1>1 DEF PullInv, OwedInv, WayIsOpen, NetworkInv, TableInv
  <2>2. \A a, b \in Gateways : Contents(channel[a][b]) = {}
    BY DEF Contents
  <2> QED
    BY <2>1, <2>2 DEF UnderWay, Asked, Answered
<1> QED
  BY <1>1, PullInitially, PullStep, PTL DEF Spec
=============================================================================
