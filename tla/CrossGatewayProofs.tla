------------------------- MODULE CrossGatewayProofs -------------------------
(***************************************************************************)
(* Proofs about a tree of gateways, for any tree, any number of types and  *)
(* of data, and any bounds on subscriptions, changes and breaks.           *)
(* First lemmas about trees, channels and sums; then the invariant that    *)
(* what is on its way leads from one count to the other, for types and     *)
(* counts; then the totals of a settled network; then the data.            *)
(***************************************************************************)
EXTENDS CrossGateway, FunctionTheorems, FiniteSetTheorems,
        WellFoundedInduction, TLAPS

(* Induction over the natural numbers, for a set instead of a predicate.   *)
LEMMA WellOrder ==
    ASSUME NEW T \in SUBSET Nat, T # {}
    PROVE  \E x \in T : \A y \in T : x <= y
<1> DEFINE R == OpToRel(<, Nat)
<1>1. IsWellFoundedOn(R, Nat)
  BY NatLessThanWellFounded
<1>2. \A x, y \in Nat : y < x => <<y, x>> \in R
  BY DEF OpToRel
<1> HIDE DEF R
<1>3. PICK x \in T : \A y \in T : ~(<<y, x>> \in R)
  BY <1>1, WFMin
<1>4. ASSUME NEW y \in T
      PROVE  x <= y
  <2>1. ~(y < x)
    BY <1>2, <1>3, Zenon
  <2> QED
    BY <2>1
<1> QED
  BY <1>4

LEMMA SetInduction ==
    ASSUME NEW S, 0 \in S, \A n \in Nat : n \in S => n + 1 \in S
    PROVE  Nat \subseteq S
<1> DEFINE T == Nat \ S
<1>1. SUFFICES ASSUME T # {} PROVE FALSE
  OBVIOUS
<1>2. PICK x \in T : \A y \in T : x <= y
  BY <1>1, WellOrder
<1>3. x # 0 /\ x - 1 \in Nat /\ x - 1 \notin T
  BY <1>2
<1> QED
  BY <1>3
-----------------------------------------------------------------------------
(***************************************************************************)
(* The tree.  Below(n) is the least set with n and the children of its     *)
(* elements; Behind(g, n) has the gateways on g's side of the link between *)
(* the neighbours g and n.                                                 *)
(***************************************************************************)
DownwardClosed(S) == \A y \in DOMAIN Parent : Parent[y] \in S => y \in S

Below(n) == {x \in Gateways : \A S \in SUBSET Gateways :
                                n \in S /\ DownwardClosed(S) => x \in S}

Behind(g, n) == IF g \in DOMAIN Parent /\ Parent[g] = n THEN Below(g)
                                                       ELSE Gateways \ Below(n)

LEMMA Depth ==
    \E depth \in [Gateways -> Nat] :
        \A g \in DOMAIN Parent : depth[Parent[g]] < depth[g]
<1>1. Cardinality(Gateways) \in Nat
  BY TreeAssumption, FS_CardinalityType
<1>2. PICK depth \in [Gateways -> 0..Cardinality(Gateways)] :
        \A g \in DOMAIN Parent : depth[Parent[g]] < depth[g]
  BY TreeAssumption
<1>3. depth \in [Gateways -> Nat]
  BY <1>1, <1>2
<1> QED
  BY <1>2, <1>3

LEMMA BelowIsClosed ==
    ASSUME NEW n \in Gateways
    PROVE  n \in Below(n) /\ DownwardClosed(Below(n)) /\ Below(n) \subseteq Gateways
  BY TreeAssumption DEF Below, DownwardClosed

LEMMA BelowIsLeast ==
    ASSUME NEW n \in Gateways, NEW S \in SUBSET Gateways, n \in S,
           DownwardClosed(S)
    PROVE  Below(n) \subseteq S
  BY DEF Below

LEMMA BelowByParent ==
    ASSUME NEW n \in Gateways, NEW x \in Below(n), x # n
    PROVE  x \in DOMAIN Parent /\ Parent[x] \in Below(n)
<1>1. SUFFICES ASSUME ~(x \in DOMAIN Parent /\ Parent[x] \in Below(n))
               PROVE  FALSE
  OBVIOUS
<1>2. DownwardClosed(Below(n) \ {x})
  BY <1>1, BelowIsClosed DEF DownwardClosed
<1>3. Below(n) \subseteq Below(n) \ {x}
  BY <1>2, BelowIsClosed, BelowIsLeast
<1> QED
  BY <1>3

LEMMA ParentIsNotBelow ==
    ASSUME NEW c \in DOMAIN Parent
    PROVE  Parent[c] \notin Below(c)
<1>1. PICK depth \in [Gateways -> Nat] :
        \A g \in DOMAIN Parent : depth[Parent[g]] < depth[g]
  BY Depth
<1>2. c \in Gateways /\ \A g \in DOMAIN Parent : g \in Gateways /\ Parent[g] \in Gateways
  BY TreeAssumption
<1> DEFINE S == {x \in Gateways : depth[c] <= depth[x]}
<1>3. c \in S /\ DownwardClosed(S)
  BY <1>1, <1>2 DEF DownwardClosed
<1>4. Parent[c] \notin S
  BY <1>1, <1>2
<1> QED
  BY <1>2, <1>3, <1>4, BelowIsLeast

LEMMA BelowOfChild ==
    ASSUME NEW c \in DOMAIN Parent
    PROVE  c \in Gateways /\ Parent[c] \in Gateways /\ Below(c) \subseteq Below(Parent[c])
<1>1. c \in Gateways /\ Parent[c] \in Gateways
  BY TreeAssumption
<1>2. c \in Below(Parent[c])
  BY <1>1, BelowIsClosed DEF DownwardClosed
<1> QED
  BY <1>1, <1>2, BelowIsClosed, BelowIsLeast

LEMMA SiblingsAreApart ==
    ASSUME NEW a \in DOMAIN Parent, NEW b \in DOMAIN Parent,
           Parent[a] = Parent[b], a # b
    PROVE  Below(a) \cap Below(b) = {}
<1> DEFINE S == Below(a) \ Below(b)
<1>1. a \in Gateways /\ b \in Gateways
  BY TreeAssumption
<1>2. a \in S
  BY <1>1, BelowIsClosed, BelowByParent, ParentIsNotBelow
<1>3. DownwardClosed(S)
  <2> SUFFICES ASSUME NEW y \in DOMAIN Parent, Parent[y] \in S
               PROVE  y \in S
    BY DEF DownwardClosed
  <2>1. y \in Below(a) /\ y # b
    BY <1>1, BelowIsClosed, ParentIsNotBelow DEF DownwardClosed
  <2> QED
    BY <1>1, <2>1, BelowByParent
<1> QED
  BY <1>1, <1>2, <1>3, BelowIsLeast, BelowIsClosed

LEMMA NeighbourBehind ==
    ASSUME NEW g \in Gateways, NEW n \in Neighbours(g)
    PROVE  /\ n \in Gateways /\ n # g /\ g \in Neighbours(n)
           /\ Behind(g, n) \subseteq Gateways
           /\ g \in Behind(g, n) /\ n \notin Behind(g, n)
<1>1. n \in Gateways /\ n # g /\ g \in Neighbours(n)
  BY TreeAssumption DEF Neighbours
<1> QED
  BY <1>1, BelowIsClosed, ParentIsNotBelow DEF Behind, Neighbours

(* What comes from n to g and goes on to k leaves the gateways behind. *)
LEMMA BehindGrows ==
    ASSUME NEW g \in Gateways, NEW n \in Neighbours(g), NEW k \in Neighbours(g),
           n # k
    PROVE  Behind(n, g) \cup {g} \subseteq Behind(g, k)
<1>1. g \in Behind(g, k) /\ Behind(n, g) \subseteq Gateways
  BY NeighbourBehind
<1>2. CASE n \in DOMAIN Parent /\ Parent[n] = g
  <2>1. Behind(n, g) = Below(n) /\ Below(n) \subseteq Below(g)
    BY <1>2, BelowOfChild DEF Behind
  <2>2. CASE g \in DOMAIN Parent /\ Parent[g] = k
    BY <1>1, <2>1, <2>2 DEF Behind
  <2>3. CASE ~(g \in DOMAIN Parent /\ Parent[g] = k)
    <3>1. k \in DOMAIN Parent /\ Parent[k] = g
      BY <2>3 DEF Neighbours
    <3> QED
      BY <1>1, <1>2, <2>1, <2>3, <3>1, SiblingsAreApart DEF Behind
  <2> QED
    BY <2>2, <2>3
<1>3. CASE ~(n \in DOMAIN Parent /\ Parent[n] = g)
  <2>1. g \in DOMAIN Parent /\ Parent[g] = n /\ k \in DOMAIN Parent /\ Parent[k] = g
    BY <1>3 DEF Neighbours
  <2>2. Below(k) \subseteq Below(g)
    BY <2>1, BelowOfChild
  <2> QED
    BY <1>1, <1>3, <2>1, <2>2 DEF Behind
<1> QED
  BY <1>2, <1>3

(* The gateways on one side of a link are not on the other.                *)
LEMMA SidesAreApart ==
    ASSUME NEW g \in Gateways, NEW n \in Neighbours(g)
    PROVE  Behind(g, n) \cap Behind(n, g) = {}
<1>1. CASE n \in DOMAIN Parent /\ Parent[n] = g
  <2>1. ~(g \in DOMAIN Parent /\ Parent[g] = n)
    <3>1. g \notin Below(n) /\ n \in Below(g) /\ n \in Gateways /\ g \in Gateways
      BY <1>1, ParentIsNotBelow, BelowOfChild, BelowIsClosed
    <3>2. g \in DOMAIN Parent /\ Parent[g] = n => n \notin Below(g)
      BY ParentIsNotBelow
    <3> QED
      BY <3>1, <3>2
  <2> QED
    BY <1>1, <2>1 DEF Behind
<1>2. CASE ~(n \in DOMAIN Parent /\ Parent[n] = g)
  BY <1>2 DEF Behind, Neighbours
<1> QED
  BY <1>1, <1>2

LEMMA BeyondIsClosed ==
    ASSUME NEW n \in Gateways, NEW g \in Neighbours(n)
    PROVE  /\ g \in Beyond(n, g) /\ Beyond(n, g) \subseteq Gateways
           /\ \A m \in Beyond(n, g) : Neighbours(m) \ {n} \subseteq Beyond(n, g)
<1>1. g \in Gateways /\ \A m : Neighbours(m) \subseteq Gateways
  BY NeighbourBehind DEF Neighbours
<1> QED
  BY <1>1 DEF Beyond

LEMMA BeyondIsLeast ==
    ASSUME NEW n, NEW g, NEW S \in SUBSET Gateways, g \in S,
           \A m \in S : Neighbours(m) \ {n} \subseteq S
    PROVE  Beyond(n, g) \subseteq S
  BY DEF Beyond

LEMMA BeyondIsBehind ==
    ASSUME NEW n \in Gateways, NEW g \in Neighbours(n)
    PROVE  Beyond(n, g) \subseteq Behind(g, n)
<1>1. g \in Gateways /\ n \in Neighbours(g)
  BY NeighbourBehind
<1>2. Behind(g, n) \subseteq Gateways /\ g \in Behind(g, n)
  BY <1>1, NeighbourBehind
<1>3. ASSUME NEW m \in Behind(g, n), NEW y \in Neighbours(m), y # n
      PROVE  y \in Behind(g, n)
  <2>1. m \in Gateways /\ y \in Gateways
    BY <1>2 DEF Neighbours
  <2>2. CASE g \in DOMAIN Parent /\ Parent[g] = n
    <3>1. Behind(g, n) = Below(g) /\ m \in Below(g)
      BY <2>2 DEF Behind
    <3>2. CASE y \in DOMAIN Parent /\ Parent[y] = m
      BY <1>1, <3>1, <3>2, BelowIsClosed DEF DownwardClosed
    <3>3. CASE m \in DOMAIN Parent /\ Parent[m] = y
      <4>1. m # g
        BY <1>3, <2>2, <3>3
      <4> QED
        BY <1>1, <3>1, <3>3, <4>1, BelowByParent
    <3> QED
      BY <3>2, <3>3 DEF Neighbours
  <2>3. CASE ~(g \in DOMAIN Parent /\ Parent[g] = n)
    <3>1. Behind(g, n) = Gateways \ Below(n) /\ m \notin Below(n)
      BY <2>3 DEF Behind
    <3>2. CASE y \in DOMAIN Parent /\ Parent[y] = m
      BY <1>3, <2>1, <3>1, <3>2, BelowByParent
    <3>3. CASE m \in DOMAIN Parent /\ Parent[m] = y
      BY <2>1, <3>1, <3>3, BelowIsClosed DEF DownwardClosed
    <3> QED
      BY <3>2, <3>3 DEF Neighbours
  <2> QED
    BY <2>2, <2>3
<1> QED
  BY <1>2, <1>3, BeyondIsLeast

(* What lies beyond a link is the gateway at its other end, and what lies  *)
(* beyond the other links of that gateway: all of them apart.              *)
LEMMA BeyondLinksApart ==
    ASSUME NEW g \in Gateways, NEW j \in Neighbours(g), NEW k \in Neighbours(g), j # k
    PROVE  Beyond(g, j) \cap Beyond(g, k) = {}
<1>1. Beyond(g, j) \subseteq Behind(j, g) /\ Beyond(g, k) \subseteq Behind(k, g)
  BY BeyondIsBehind
<1>2. Behind(j, g) \subseteq Behind(g, k)
  BY BehindGrows
<1> QED
  BY <1>1, <1>2, SidesAreApart

LEMMA BeyondShrinks ==
    ASSUME NEW n \in Gateways, NEW g \in Neighbours(n), NEW k \in Neighbours(g), k # n
    PROVE  Beyond(g, k) \subseteq Beyond(n, g) \ {g}
<1> DEFINE S == Beyond(n, g) \ {g}
<1>1. g \in Gateways /\ n \in Neighbours(g) /\ k \in Gateways /\ k # g
  BY NeighbourBehind
<1>2. /\ g \in Beyond(n, g) /\ Beyond(n, g) \subseteq Gateways
      /\ \A m \in Beyond(n, g) : Neighbours(m) \ {n} \subseteq Beyond(n, g)
  BY BeyondIsClosed
<1>3. k \in S
  BY <1>1, <1>2
<1>4. ASSUME NEW m \in S, NEW y \in Neighbours(m), y # g
      PROVE  y \in S
  <2>1. CASE y = n
    <3>1. m \in Gateways /\ m \in Neighbours(n)
      BY <1>2, <2>1, NeighbourBehind
    <3>2. m \in Behind(m, n) /\ m \in Behind(g, n)
      BY <3>1, NeighbourBehind, BeyondIsBehind
    <3>3. Behind(m, n) \subseteq Behind(n, g)
      BY <3>1, BehindGrows
    <3> QED
      BY <1>1, <3>2, <3>3, SidesAreApart
  <2> QED
    BY <1>2, <1>4, <2>1
<1>5. S \subseteq Gateways
  BY <1>2
<1> HIDE DEF S
<1>6. Beyond(g, k) \subseteq S
  BY <1>3, <1>4, <1>5, BeyondIsLeast
<1> QED
  BY <1>6 DEF S

LEMMA BeyondSplits ==
    ASSUME NEW n \in Gateways, NEW g \in Neighbours(n)
    PROVE  Beyond(n, g) = {g} \cup UNION {Beyond(g, k) : k \in Neighbours(g) \ {n}}
<1> DEFINE S == {g} \cup UNION {Beyond(g, k) : k \in Neighbours(g) \ {n}}
<1>1. g \in Gateways
  BY NeighbourBehind
<1>2. S \subseteq Beyond(n, g)
  BY BeyondIsClosed, BeyondShrinks
<1>3. Beyond(n, g) \subseteq S
  <2>1. S \subseteq Gateways
    BY <1>2, BeyondIsClosed
  <2>2. ASSUME NEW m \in S, NEW y \in Neighbours(m), y # n
        PROVE  y \in S
    <3>1. CASE m = g
      BY <1>1, <2>2, <3>1, BeyondIsClosed
    <3>2. CASE m # g
      <4>1. PICK k \in Neighbours(g) \ {n} : m \in Beyond(g, k)
        BY <3>2
      <4>2. y = g \/ y \in Beyond(g, k)
        BY <1>1, <2>2, <4>1, BeyondIsClosed
      <4> QED
        BY <4>2
    <3> QED
      BY <3>1, <3>2
  <2>3. g \in S
    OBVIOUS
  <2> HIDE DEF S
  <2> QED
    BY <2>1, <2>2, <2>3, BeyondIsLeast
<1> QED
  BY <1>2, <1>3
-----------------------------------------------------------------------------
(* What a channel does to a count.  Applied is what one message does to    *)
(* the entries for t; Leads says that c entries become w, and are never    *)
(* fewer than none, when the messages of q arrive in turn.                 *)
Applied(c, m, t) ==
    IF m = Register(t) THEN c + 1 ELSE IF m = Unregister(t) THEN c - 1 ELSE c

Traces(q, t) == {f \in [0..Len(q) -> Nat] :
                    \A i \in 1..Len(q) : f[i] = Applied(f[i - 1], q[i], t)}

Leads(c, q, t, w) == \E f \in Traces(q, t) : f[0] = c /\ f[Len(q)] = w

Without(q, i) == SubSeq(q, 1, i - 1) \o SubSeq(q, i + 1, Len(q))

LEMMA WithoutEffect ==
    ASSUME NEW S, NEW q \in Seq(S), NEW i \in DOMAIN q
    PROVE  /\ Without(q, i) \in Seq(S)
           /\ Len(q) \in Nat /\ i \in 1..Len(q)
           /\ Len(Without(q, i)) = Len(q) - 1
           /\ \A j \in 1..(Len(q) - 1) :
                Without(q, i)[j] = IF j < i THEN q[j] ELSE q[j + 1]
<1>1. Len(q) \in Nat /\ i \in 1..Len(q)
  OBVIOUS
<1> DEFINE a == SubSeq(q, 1, i - 1)
           b == SubSeq(q, i + 1, Len(q))
<1>2. /\ a \in Seq(S) /\ Len(a) = i - 1
      /\ \A j \in 1..(i - 1) : a[j] = q[j]
  BY <1>1
<1>3. /\ b \in Seq(S) /\ Len(b) = Len(q) - i
      /\ \A j \in 1..(Len(q) - i) : b[j] = q[i + j]
  BY <1>1
<1> HIDE DEF a, b
<1>4. /\ a \o b \in Seq(S) /\ Len(a \o b) = Len(q) - 1
      /\ \A j \in 1..(Len(q) - 1) :
           (a \o b)[j] = IF j <= i - 1 THEN a[j] ELSE b[j - (i - 1)]
  BY SMTT(40), <1>1, <1>2, <1>3
<1>5. ASSUME NEW j \in 1..(Len(q) - 1)
      PROVE  (a \o b)[j] = IF j < i THEN q[j] ELSE q[j + 1]
  <2>1. CASE j < i
    BY <1>1, <1>2, <1>4, <2>1
  <2>2. CASE ~(j < i)
    <3> DEFINE k == j - (i - 1)
    <3>1. k \in 1..(Len(q) - i) /\ i + k = j + 1 /\ ~(j <= i - 1)
      BY <1>1, <2>2
    <3>2. (a \o b)[j] = b[k]
      BY <1>4, <3>1
    <3> HIDE DEF k
    <3>3. b[k] = q[i + k]
      BY <1>3, <3>1
    <3> QED
      BY <2>2, <3>1, <3>2, <3>3
  <2> QED
    BY <2>1, <2>2
<1> QED
  BY <1>1, <1>4, <1>5 DEF Without, a, b

LEMMA LeadsNowhere ==
    ASSUME NEW c \in Nat, NEW t
    PROVE  Leads(c, << >>, t, c)
<1> DEFINE q == << >>
           f == [i \in 0..0 |-> c]
<1>1. Len(q) = 0
  OBVIOUS
<1>2. f \in [0..Len(q) -> Nat] /\ f[0] = c /\ f[Len(q)] = c
  BY <1>1
<1>3. \A i \in 1..Len(q) : f[i] = Applied(f[i - 1], q[i], t)
  BY <1>1
<1> QED
  BY <1>2, <1>3 DEF Leads, Traces

LEMMA LeadsByOne ==
    ASSUME NEW c \in Nat, NEW m, NEW t, Applied(c, m, t) \in Nat
    PROVE  Leads(c, <<m>>, t, Applied(c, m, t))
<1> DEFINE q == <<m>>
           f == [i \in 0..1 |-> IF i = 0 THEN c ELSE Applied(c, m, t)]
<1>1. Len(q) = 1 /\ q[1] = m
  OBVIOUS
<1>2. f \in [0..Len(q) -> Nat] /\ f[0] = c /\ f[Len(q)] = Applied(c, m, t)
  BY <1>1
<1>3. \A i \in 1..Len(q) : f[i] = Applied(f[i - 1], q[i], t)
  BY <1>1
<1> QED
  BY <1>2, <1>3 DEF Leads, Traces

LEMMA LeadsType ==
    ASSUME NEW S, NEW q \in Seq(S), NEW c, NEW t, NEW w, Leads(c, q, t, w)
    PROVE  c \in Nat /\ w \in Nat
<1>1. Len(q) \in Nat
  OBVIOUS
<1> QED
  BY <1>1 DEF Leads, Traces

LEMMA LeadsOn ==
    ASSUME NEW S, NEW q \in Seq(S), NEW p \in Seq(S), NEW c, NEW v, NEW w, NEW t,
           Leads(c, q, t, v), Leads(v, p, t, w)
    PROVE  Leads(c, q \o p, t, w)
<1>1. PICK f \in [0..Len(q) -> Nat] :
        /\ f[0] = c /\ f[Len(q)] = v
        /\ \A i \in 1..Len(q) : f[i] = Applied(f[i - 1], q[i], t)
  BY DEF Leads, Traces
<1>2. PICK h \in [0..Len(p) -> Nat] :
        /\ h[0] = v /\ h[Len(p)] = w
        /\ \A i \in 1..Len(p) : h[i] = Applied(h[i - 1], p[i], t)
  BY DEF Leads, Traces
<1> DEFINE a == Len(q)
           b == Len(p)
           u == q \o p
           k == [i \in 0..(a + b) |-> IF i <= a THEN f[i] ELSE h[i - a]]
<1>3. a \in Nat /\ b \in Nat
  OBVIOUS
<1>4. /\ Len(u) = a + b
      /\ \A i \in 1..(a + b) : u[i] = IF i <= a THEN q[i] ELSE p[i - a]
  OBVIOUS
<1>5. k \in [0..(a + b) -> Nat] /\ k[0] = c /\ k[a + b] = w
  <2>1. \A i \in 0..(a + b) : ~(i <= a) => i - a \in 0..b
    BY <1>3
  <2>2. k[a + b] = w
    <3>1. CASE b = 0
      BY <1>1, <1>2, <1>3, <3>1
    <3>2. CASE b # 0
      BY <1>2, <1>3, <3>2
    <3> QED
      BY <3>1, <3>2
  <2> QED
    BY <1>1, <1>2, <1>3, <2>1, <2>2
<1>6. ASSUME NEW i \in 1..(a + b)
      PROVE  k[i] = Applied(k[i - 1], u[i], t)
  <2>1. CASE i <= a
    BY <1>1, <1>3, <1>4, <2>1
  <2>2. CASE i = a + 1
    <3>1. k[i] = h[1] /\ k[i - 1] = h[0] /\ u[i] = p[1] /\ 1 \in 1..b
      BY <1>1, <1>2, <1>3, <1>4, <2>2
    <3> QED
      BY <1>2, <3>1
  <2>3. CASE i > a + 1
    <3>1. k[i] = h[i - a] /\ k[i - 1] = h[(i - a) - 1] /\ u[i] = p[i - a] /\ i - a \in 1..b
      BY <1>3, <1>4, <2>3
    <3> QED
      BY <1>2, <3>1
  <2> QED
    BY <1>3, <2>1, <2>2, <2>3
<1> HIDE DEF k, u
<1> QED
  BY <1>4, <1>5, <1>6 DEF Leads, Traces, u

(* As long as nothing speaks of t the entries stay as they are.            *)
LEMMA QuietPrefix ==
    ASSUME NEW S, NEW q \in Seq(S), NEW t, NEW f \in Traces(q, t),
           NEW k \in 0..Len(q),
           \A i \in 1..k : q[i] # Register(t) /\ q[i] # Unregister(t)
    PROVE  \A j \in 0..k : f[j] = f[0]
<1> DEFINE T == {j \in Nat : j <= k => f[j] = f[0]}
<1>1. /\ Len(q) \in Nat /\ f \in [0..Len(q) -> Nat]
      /\ \A i \in 1..Len(q) : f[i] = Applied(f[i - 1], q[i], t)
  BY DEF Traces
<1>2. 0 \in T
  OBVIOUS
<1>3. ASSUME NEW j \in Nat, j \in T
      PROVE  j + 1 \in T
  <2>1. SUFFICES ASSUME j + 1 <= k PROVE f[j + 1] = f[0]
    OBVIOUS
  <2>2. j + 1 \in 1..Len(q) /\ j + 1 \in 1..k /\ f[j] = f[0] /\ (j + 1) - 1 = j
    BY <1>1, <1>3, <2>1
  <2>3. f[j + 1] = Applied(f[(j + 1) - 1], q[j + 1], t)
    BY <1>1, <2>2
  <2> QED
    BY <2>2, <2>3 DEF Applied
<1> HIDE DEF T
<1>4. Nat \subseteq T
  BY <1>2, <1>3, SetInduction
<1> QED
  BY <1>1, <1>4 DEF T

(* A message that nothing about t precedes is taken out and applied.       *)
LEMMA LeadsWithout ==
    ASSUME NEW S, NEW q \in Seq(S), NEW i \in DOMAIN q, NEW c, NEW w, NEW t,
           Leads(c, q, t, w),
           \A j \in 1..(i - 1) : q[j] # Register(t) /\ q[j] # Unregister(t)
    PROVE  /\ Applied(c, q[i], t) \in Nat
           /\ Leads(Applied(c, q[i], t), Without(q, i), t, w)
<1>1. PICK f \in [0..Len(q) -> Nat] :
        /\ f[0] = c /\ f[Len(q)] = w
        /\ \A j \in 1..Len(q) : f[j] = Applied(f[j - 1], q[j], t)
  BY DEF Leads, Traces
<1> DEFINE n == Len(q)
           d == Applied(c, q[i], t)
           r == Without(q, i)
           h == [j \in 0..(n - 1) |-> IF j < i THEN d ELSE f[j + 1]]
<1>2. n \in Nat /\ i \in 1..n /\ i - 1 \in 0..n
  OBVIOUS
<1>3. \A j \in 0..(i - 1) : f[j] = c
  <2> DEFINE k == i - 1
  <2>0. k \in 0..Len(q) /\ \A j \in 1..k : q[j] # Register(t) /\ q[j] # Unregister(t)
    BY <1>2
  <2> HIDE DEF k
  <2>1. f \in Traces(q, t)
    BY <1>1 DEF Traces
  <2>2. \A j \in 0..k : f[j] = f[0]
    BY <2>0, <2>1, QuietPrefix
  <2> QED
    BY <1>1, <2>2 DEF k
<1>4. f[i] = d /\ d \in Nat
  <2>1. f[i] = Applied(f[i - 1], q[i], t) /\ f[i - 1] = c /\ f[i] \in Nat
    BY <1>1, <1>2, <1>3
  <2> QED
    BY <2>1
<1>5. /\ Len(r) = n - 1
      /\ \A j \in 1..(n - 1) : r[j] = IF j < i THEN q[j] ELSE q[j + 1]
  BY WithoutEffect
<1> HIDE DEF d, r
<1>6. h \in [0..(n - 1) -> Nat] /\ h[0] = d
  BY <1>2, <1>4
<1>7. h[n - 1] = w
  <2>1. CASE n - 1 < i
    <3>1. i = n /\ h[n - 1] = d
      BY <1>2, <2>1
    <3> QED
      BY <1>1, <1>4, <3>1
  <2>2. CASE ~(n - 1 < i)
    BY <1>1, <1>2, <2>2
  <2> QED
    BY <2>1, <2>2
<1>8. ASSUME NEW j \in 1..(n - 1)
      PROVE  h[j] = Applied(h[j - 1], r[j], t)
  <2>1. CASE j < i
    <3>1. h[j] = d /\ h[j - 1] = d /\ r[j] = q[j] /\ j \in 1..(i - 1)
      BY <1>2, <1>5, <2>1
    <3> QED
      BY <3>1 DEF Applied
  <2>2. CASE j = i
    <3>1. h[j] = f[i + 1] /\ h[j - 1] = d /\ r[j] = q[i + 1] /\ i + 1 \in 1..n /\ (i + 1) - 1 = i
      BY <1>2, <1>5, <2>2
    <3>2. f[i + 1] = Applied(f[(i + 1) - 1], q[i + 1], t)
      BY <1>1, <3>1
    <3> QED
      BY <1>4, <3>1, <3>2
  <2>3. CASE j > i
    <3>1. /\ h[j] = f[j + 1] /\ h[j - 1] = f[j] /\ r[j] = q[j + 1]
          /\ j + 1 \in 1..n /\ (j + 1) - 1 = j
      BY <1>2, <1>5, <2>3
    <3>2. f[j + 1] = Applied(f[(j + 1) - 1], q[j + 1], t)
      BY <1>1, <3>1
    <3> QED
      BY <3>1, <3>2
  <2> QED
    BY <1>2, <2>1, <2>2, <2>3
<1> HIDE DEF h
<1>9. Leads(d, r, t, w)
  BY <1>5, <1>6, <1>7, <1>8 DEF Leads, Traces
<1> QED
  BY <1>4, <1>9 DEF d, r

LEMMA LeadsQuietly ==
    ASSUME NEW S, NEW q \in Seq(S), NEW c, NEW w, NEW t, Leads(c, q, t, w),
           \A i \in DOMAIN q : q[i] # Register(t) /\ q[i] # Unregister(t)
    PROVE  c = w
<1>1. PICK f \in [0..Len(q) -> Nat] :
        /\ f[0] = c /\ f[Len(q)] = w
        /\ \A j \in 1..Len(q) : f[j] = Applied(f[j - 1], q[j], t)
  BY DEF Leads, Traces
<1>2. Len(q) \in 0..Len(q) /\ \A i \in 1..Len(q) : q[i] # Register(t) /\ q[i] # Unregister(t)
  OBVIOUS
<1>3. f[Len(q)] = f[0]
  <2>1. f \in Traces(q, t)
    BY <1>1 DEF Traces
  <2> QED
    BY <1>2, <2>1, QuietPrefix
<1> QED
  BY <1>1, <1>3

(* Where m is among the first k elements of q. *)
Positions(q, m, k) == {i \in 1..k : q[i] = m}

LEMMA PositionsGrow ==
    ASSUME NEW q, NEW m, NEW j \in Nat
    PROVE  /\ IsFiniteSet(Positions(q, m, j)) /\ Cardinality(Positions(q, m, j)) \in Nat
           /\ Cardinality(Positions(q, m, 0)) = 0
           /\ q[j + 1] = m => Cardinality(Positions(q, m, j + 1)) = Cardinality(Positions(q, m, j)) + 1
           /\ q[j + 1] # m => Cardinality(Positions(q, m, j + 1)) = Cardinality(Positions(q, m, j))
<1>1. IsFiniteSet(1..j)
  BY FS_Interval
<1>2. Positions(q, m, j) \subseteq 1..j
  BY DEF Positions
<1>3. IsFiniteSet(Positions(q, m, j)) /\ Cardinality(Positions(q, m, j)) \in Nat
  BY <1>1, <1>2, FS_Subset, FS_CardinalityType
<1>4. Positions(q, m, 0) = {}
  BY DEF Positions
<1>5. /\ q[j + 1] = m => Positions(q, m, j + 1) = Positions(q, m, j) \cup {j + 1}
      /\ q[j + 1] # m => Positions(q, m, j + 1) = Positions(q, m, j)
      /\ j + 1 \notin Positions(q, m, j)
  BY DEF Positions
<1>6. Cardinality(Positions(q, m, j) \cup {j + 1}) = Cardinality(Positions(q, m, j)) + 1
  BY <1>3, <1>5, FS_AddElement
<1> QED
  BY <1>3, <1>4, <1>5, <1>6, FS_EmptySet

(* The messages of a channel account for the difference of the counts.     *)
LEMMA LeadsByCount ==
    ASSUME NEW S, NEW q \in Seq(S), NEW c, NEW w, NEW t, Leads(c, q, t, w)
    PROVE  c + Cardinality({i \in DOMAIN q : q[i] = Register(t)})
             - Cardinality({i \in DOMAIN q : q[i] = Unregister(t)}) = w
<1> DEFINE A(k) == Cardinality(Positions(q, Register(t), k))
           B(k) == Cardinality(Positions(q, Unregister(t), k))
<1>1. PICK f \in Traces(q, t) : f[0] = c /\ f[Len(q)] = w
  BY DEF Leads
<1>2. /\ Len(q) \in Nat /\ f \in [0..Len(q) -> Nat]
      /\ \A i \in 1..Len(q) : f[i] = Applied(f[i - 1], q[i], t)
  BY <1>1 DEF Traces
<1>3. Register(t) # Unregister(t)
  BY DEF Register, Unregister
<1>4. ASSUME NEW j \in Nat
      PROVE  /\ A(0) = 0 /\ B(0) = 0 /\ A(j) \in Nat /\ B(j) \in Nat
             /\ q[j + 1] = Register(t) => A(j + 1) = A(j) + 1
             /\ q[j + 1] # Register(t) => A(j + 1) = A(j)
             /\ q[j + 1] = Unregister(t) => B(j + 1) = B(j) + 1
             /\ q[j + 1] # Unregister(t) => B(j + 1) = B(j)
  BY PositionsGrow
<1>5. /\ A(Len(q)) = Cardinality({i \in DOMAIN q : q[i] = Register(t)})
      /\ B(Len(q)) = Cardinality({i \in DOMAIN q : q[i] = Unregister(t)})
  <2>1. DOMAIN q = 1..Len(q)
    OBVIOUS
  <2> QED
    BY <2>1 DEF Positions
<1> HIDE DEF A, B
<1> DEFINE T == {j \in Nat : j <= Len(q) => f[j] = c + A(j) - B(j)}
<1>6. 0 \in T
  <2>1. c \in Nat /\ A(0) = 0 /\ B(0) = 0
    BY <1>1, <1>2, <1>4
  <2> QED
    BY <1>1, <2>1
<1>7. ASSUME NEW j \in Nat, j \in T
      PROVE  j + 1 \in T
  <2>1. SUFFICES ASSUME j + 1 <= Len(q)
                 PROVE  f[j + 1] = c + A(j + 1) - B(j + 1)
    OBVIOUS
  <2>2. j + 1 \in 1..Len(q) /\ (j + 1) - 1 = j /\ j \in 0..Len(q)
    BY <1>2, <2>1
  <2>3. f[j + 1] = Applied(f[j], q[j + 1], t) /\ c \in Nat /\ f[j] \in Nat
    BY <1>1, <1>2, <2>2
  <2>4. f[j] = c + A(j) - B(j) /\ A(j) \in Nat /\ B(j) \in Nat
    BY <1>2, <1>4, <1>7, <2>2
  <2>5. CASE q[j + 1] = Register(t)
    <3>1. A(j + 1) = A(j) + 1 /\ B(j + 1) = B(j)
      BY <1>3, <1>4, <2>5
    <3>2. f[j + 1] = f[j] + 1
      BY <1>3, <2>3, <2>5 DEF Applied
    <3> QED
      BY <2>3, <2>4, <3>1, <3>2
  <2>6. CASE q[j + 1] = Unregister(t)
    <3>1. A(j + 1) = A(j) /\ B(j + 1) = B(j) + 1
      BY <1>3, <1>4, <2>6
    <3>2. f[j + 1] = f[j] - 1
      BY <1>3, <2>3, <2>6 DEF Applied
    <3> QED
      BY <2>3, <2>4, <3>1, <3>2
  <2>7. CASE q[j + 1] # Register(t) /\ q[j + 1] # Unregister(t)
    BY <1>4, <2>3, <2>4, <2>7 DEF Applied
  <2> QED
    BY <2>5, <2>6, <2>7
<1> HIDE DEF T
<1>8. Nat \subseteq T
  BY <1>6, <1>7, SetInduction
<1>9. f[Len(q)] = c + A(Len(q)) - B(Len(q))
  BY <1>2, <1>8 DEF T
<1> QED
  BY <1>1, <1>5, <1>9
-----------------------------------------------------------------------------
(* Entries of multimaps. *)

LEMMA Column ==
    ASSUME NEW x, NEW k \in Nat
    PROVE  IsFiniteSet({x} \X (1..k)) /\ Cardinality({x} \X (1..k)) = k
<1>1. IsFiniteSet(1..k) /\ Cardinality(1..k) = k
  BY FS_Interval
<1>2. IsFiniteSet({x}) /\ Cardinality({x}) = 1
  BY FS_Singleton
<1>3. Cardinality({x} \X (1..k)) = 1 * k /\ IsFiniteSet({x} \X (1..k))
  BY ZenonT(40), <1>1, <1>2, FS_Product
<1> QED
  BY <1>3

LEMMA EntriesSplit ==
    ASSUME NEW D, NEW count \in [D -> Nat], NEW x \in D
    PROVE  LET rest == [y \in D \ {x} |-> count[y]] IN
           /\ Entries(count) = Entries(rest) \cup ({x} \X (1..count[x]))
           /\ Entries(rest) \cap ({x} \X (1..count[x])) = {}
  BY DEF Entries

(* Every column is finite, and so is a finite number of them.              *)
LEMMA EntriesFinite ==
    ASSUME NEW D, IsFiniteSet(D), NEW count \in [D -> Nat]
    PROVE  IsFiniteSet(Entries(count)) /\ Cardinality(Entries(count)) \in Nat
<1> DEFINE columns == {{x} \X (1..count[x]) : x \in D}
           column == [x \in D |-> {x} \X (1..count[x])]
<1>1. column \in Surjection(D, columns)
  <2>1. column \in [D -> columns] /\ \A s \in columns : \E x \in D : column[x] = s
    OBVIOUS
  <2> QED
    BY <2>1, Fun_IsSurj
<1>2. IsFiniteSet(columns)
  BY <1>1, FS_Surjection
<1>3. \A s \in columns : IsFiniteSet(s)
  <2>1. \A x \in D : count[x] \in Nat
    OBVIOUS
  <2>2. \A x \in D : IsFiniteSet({x} \X (1..count[x]))
    BY <2>1, Column
  <2> QED
    BY <2>2
<1>4. IsFiniteSet(UNION columns)
  BY <1>2, <1>3, FS_UNION
<1> QED
  BY <1>4, FS_CardinalityType DEF Entries

(* When one count changes the number of entries changes by as much.        *)
LEMMA EntriesChange ==
    ASSUME NEW D, IsFiniteSet(D), NEW x \in D, NEW count \in [D -> Nat],
           NEW other \in [D -> Nat], \A y \in D \ {x} : other[y] = count[y]
    PROVE  Cardinality(Entries(other)) + count[x] = Cardinality(Entries(count)) + other[x]
<1> DEFINE rest == [y \in D \ {x} |-> count[y]]
<1>1. rest = [y \in D \ {x} |-> other[y]] /\ rest \in [D \ {x} -> Nat]
  OBVIOUS
<1>2. IsFiniteSet(Entries(rest)) /\ Cardinality(Entries(rest)) \in Nat
  BY <1>1, FS_RemoveElement, EntriesFinite
<1> HIDE DEF rest
<1>3. ASSUME NEW c \in [D -> Nat], rest = [y \in D \ {x} |-> c[y]]
      PROVE  Cardinality(Entries(c)) = Cardinality(Entries(rest)) + c[x]
  <2> DEFINE last == {x} \X (1..c[x])
  <2>1. Entries(c) = Entries(rest) \cup last /\ Entries(rest) \cap last = {}
    BY <1>3, EntriesSplit
  <2>2. IsFiniteSet(last) /\ Cardinality(last) = c[x] /\ c[x] \in Nat
    BY Column
  <2> HIDE DEF last
  <2>3. Cardinality(Entries(c)) = Cardinality(Entries(rest)) + Cardinality(last) - Cardinality({})
    BY <1>2, <2>1, <2>2, FS_Union
  <2> QED
    BY <1>2, <2>2, <2>3, FS_EmptySet
<1>4. /\ Cardinality(Entries(count)) = Cardinality(Entries(rest)) + count[x]
      /\ Cardinality(Entries(other)) = Cardinality(Entries(rest)) + other[x]
  BY <1>1, <1>3 DEF rest
<1> QED
  BY <1>2, <1>4

(* The entries of the owners in a set: sums over parts that are apart.     *)
Total(count, S) == Cardinality(Entries([x \in S |-> count[x]]))

LEMMA TotalUnion ==
    ASSUME NEW D, IsFiniteSet(D), NEW count \in [D -> Nat],
           NEW A \in SUBSET D, NEW B \in SUBSET D, A \cap B = {}
    PROVE  /\ Total(count, A) \in Nat /\ Total(count, B) \in Nat
           /\ Total(count, A \cup B) = Total(count, A) + Total(count, B)
<1> DEFINE a == [x \in A |-> count[x]]
           b == [x \in B |-> count[x]]
           c == [x \in A \cup B |-> count[x]]
<1>1. IsFiniteSet(A) /\ IsFiniteSet(B) /\ a \in [A -> Nat] /\ b \in [B -> Nat]
  BY FS_Subset
<1>2. Entries(c) = Entries(a) \cup Entries(b) /\ Entries(a) \cap Entries(b) = {}
  <2>1. /\ Entries(a) = UNION {{x} \X (1..count[x]) : x \in A}
        /\ Entries(b) = UNION {{x} \X (1..count[x]) : x \in B}
        /\ Entries(c) = UNION {{x} \X (1..count[x]) : x \in A \cup B}
    BY DEF Entries
  <2>2. Entries(c) = Entries(a) \cup Entries(b)
    BY <2>1
  <2>3. (\A e \in Entries(a) : e[1] \in A) /\ (\A e \in Entries(b) : e[1] \in B)
    BY <2>1
  <2> HIDE DEF a, b, c
  <2> QED
    BY <2>2, <2>3
<1> HIDE DEF a, b, c
<1>3. /\ IsFiniteSet(Entries(a)) /\ Cardinality(Entries(a)) \in Nat
      /\ IsFiniteSet(Entries(b)) /\ Cardinality(Entries(b)) \in Nat
  BY <1>1, EntriesFinite
<1>4. Cardinality(Entries(c)) = Cardinality(Entries(a)) + Cardinality(Entries(b)) - Cardinality({})
  BY <1>2, <1>3, FS_Union
<1>5. Cardinality(Entries(c)) = Cardinality(Entries(a)) + Cardinality(Entries(b))
  BY <1>3, <1>4, FS_EmptySet
<1> QED
  BY <1>3, <1>5 DEF Total, a, b, c

LEMMA TotalOfOne ==
    ASSUME NEW count, NEW x, count[x] \in Nat
    PROVE  Total(count, {x}) = count[x]
<1>1. Entries([y \in {x} |-> count[y]]) = {x} \X (1..count[x])
  BY DEF Entries
<1> QED
  BY <1>1, Column DEF Total

LEMMA TotalOfNone ==
    ASSUME NEW count, NEW S, \A x \in S : count[x] = 0
    PROVE  Total(count, S) = 0
<1>1. Entries([y \in S |-> count[y]]) = {}
  BY DEF Entries
<1> QED
  BY <1>1, FS_EmptySet DEF Total

(* The totals of parts that are apart add up to the total of their union.  *)
LEMMA TotalOfParts ==
    ASSUME NEW D, IsFiniteSet(D), NEW count \in [D -> Nat],
           NEW K, IsFiniteSet(K), NEW part \in [K -> SUBSET D],
           \A j, k \in K : j # k => part[j] \cap part[k] = {},
           NEW sum \in [K -> Nat], \A k \in K : sum[k] = Total(count, part[k])
    PROVE  Total(sum, K) = Total(count, UNION {part[k] : k \in K})
<1> DEFINE merged(L) == UNION {part[k] : k \in L}
           S == {i \in Nat : \A L \in SUBSET K :
                    Cardinality(L) = i => Total(sum, L) = Total(count, merged(L))}
<1>1. 0 \in S
  <2> SUFFICES ASSUME NEW L \in SUBSET K, Cardinality(L) = 0
               PROVE  Total(sum, L) = Total(count, merged(L))
    OBVIOUS
  <2>1. L = {}
    BY FS_Subset, FS_EmptySet
  <2>2. Total(sum, {}) = 0 /\ Total(count, {}) = 0
    BY TotalOfNone
  <2> QED
    BY <2>1, <2>2
<1>2. ASSUME NEW i \in Nat, i \in S
      PROVE  i + 1 \in S
  <2> SUFFICES ASSUME NEW L \in SUBSET K, Cardinality(L) = i + 1
               PROVE  Total(sum, L) = Total(count, merged(L))
    OBVIOUS
  <2>1. IsFiniteSet(L) /\ L # {}
    BY FS_Subset, FS_EmptySet
  <2>2. PICK k \in L : TRUE
    BY <2>1
  <2>3. Cardinality(L \ {k}) = i
    <3>1. Cardinality(L \ {k}) = Cardinality(L) - 1
      BY <2>1, <2>2, FS_RemoveElement
    <3> QED
      BY <3>1
  <2> DEFINE M == L \ {k}
  <2>4. Total(sum, M) = Total(count, merged(M))
    BY <1>2, <2>3
  <2>5. Total(sum, M \cup {k}) = Total(sum, M) + Total(sum, {k})
    <3>1. M \in SUBSET K /\ {k} \in SUBSET K /\ M \cap {k} = {}
      BY <2>2
    <3> HIDE DEF M
    <3> QED
      BY SMTT(40), <3>1, TotalUnion
  <2>6. Total(sum, {k}) = Total(count, part[k])
    BY <2>2, TotalOfOne
  <2>7. Total(count, merged(M) \cup part[k]) = Total(count, merged(M)) + Total(count, part[k])
    <3>1. merged(M) \in SUBSET D /\ part[k] \in SUBSET D
      BY <2>2
    <3>2. merged(M) \cap part[k] = {}
      BY <2>2
    <3> HIDE DEF merged, M
    <3> QED
      BY <3>1, <3>2, TotalUnion
  <2>8. merged(L) = merged(M) \cup part[k] /\ L = M \cup {k}
    BY <2>2
  <2> HIDE DEF merged, M
  <2> QED
    BY <2>4, <2>5, <2>6, <2>7, <2>8
<1>3. Nat \subseteq S
  <2> HIDE DEF S
  <2> QED
    BY <1>1, <1>2, SetInduction
<1>4. Cardinality(K) \in S
  BY <1>3, FS_CardinalityType
<1> QED
  BY <1>4

LEMMA SetToSeqIsBijection ==
    ASSUME NEW S, IsFiniteSet(S)
    PROVE  SetToSeq(S) \in Bijection(1..Cardinality(S), S)
<1> DEFINE n == Cardinality(S)
<1>1. n \in Nat /\ IsFiniteSet(1..n) /\ Cardinality(1..n) = n
  BY FS_CardinalityType, FS_Interval
<1>2. \E f \in [1..n -> S] : IsInjective(f)
  BY FS_CardinalityType DEF ExistsBijection, Bijection, Injection
<1>3. SetToSeq(S) \in Injection(1..n, S)
  BY <1>2 DEF SetToSeq, Injection
<1>4. SetToSeq(S) \in Surjection(1..n, S)
  BY <1>1, <1>3, FS_Injection
<1> QED
  BY <1>3, <1>4 DEF Bijection
-----------------------------------------------------------------------------
(* Messages. *)

Messages ==
    {AssociateMsg} \cup {Register(t) : t \in Types} \cup {Unregister(t) : t \in Types}
        \cup {PushMsg(d, t) : d \in Pushes, t \in Types}

LEMMA MessageKinds ==
    /\ AssociateMsg.type = "Associate"
    /\ \A t : /\ Register(t).type = "Register" /\ Register(t).mime = t
              /\ Unregister(t).type = "Unregister" /\ Unregister(t).mime = t
    /\ \A d, t : /\ PushMsg(d, t).type = "Push" /\ PushMsg(d, t).mime = t
                 /\ PushMsg(d, t).data = d
  BY DEF AssociateMsg, Register, Unregister, PushMsg

LEMMA MessageCases ==
    ASSUME NEW m \in Messages
    PROVE  /\ IsControl(m) <=> m.type # "Push"
           /\ m = AssociateMsg <=> m.type = "Associate"
           /\ m.type = "Register" => m.mime \in Types /\ m = Register(m.mime)
           /\ m.type = "Unregister" => m.mime \in Types /\ m = Unregister(m.mime)
           /\ m.type = "Push" => /\ m.data \in Pushes /\ m.mime \in Types
                                 /\ m = PushMsg(m.data, m.mime)
           /\ m.type \in {"Associate", "Register", "Unregister", "Push"}
<1>1. CASE m = AssociateMsg
  BY <1>1, MessageKinds DEF IsControl
<1>2. ASSUME NEW t \in Types, m = Register(t)
      PROVE  m.type = "Register" /\ m.mime \in Types /\ m = Register(m.mime)
  BY <1>2, MessageKinds
<1>3. ASSUME NEW t \in Types, m = Unregister(t)
      PROVE  m.type = "Unregister" /\ m.mime \in Types /\ m = Unregister(m.mime)
  BY <1>3, MessageKinds
<1>4. ASSUME NEW d \in Pushes, NEW t \in Types, m = PushMsg(d, t)
      PROVE  /\ m.type = "Push" /\ m.data \in Pushes /\ m.mime \in Types
             /\ m = PushMsg(m.data, m.mime)
  BY <1>4, MessageKinds
<1>5. \/ m = AssociateMsg
      \/ m.type = "Register" /\ m.mime \in Types /\ m = Register(m.mime)
      \/ m.type = "Unregister" /\ m.mime \in Types /\ m = Unregister(m.mime)
      \/ /\ m.type = "Push" /\ m.data \in Pushes /\ m.mime \in Types
         /\ m = PushMsg(m.data, m.mime)
  BY <1>2, <1>3, <1>4 DEF Messages
<1> QED
  BY <1>1, <1>5, MessageKinds DEF IsControl

LEMMA MessagesOfKinds ==
    /\ AssociateMsg \in Messages
    /\ \A t \in Types : Register(t) \in Messages /\ Unregister(t) \in Messages
    /\ \A d \in Pushes, t \in Types : PushMsg(d, t) \in Messages
  BY DEF Messages

(* A burst has each type as often as it is counted. *)
LEMMA BurstEffect ==
    ASSUME NEW kind, NEW count \in [Types -> Nat]
    PROVE  LET q == Burst(kind, count) IN
           /\ \A S : (\A t \in Types : [type |-> kind, mime |-> t] \in S) => q \in Seq(S)
           /\ \A i \in DOMAIN q : \E t \in Types : q[i] = [type |-> kind, mime |-> t]
           /\ \A t \in Types :
                Cardinality(Positions(q, [type |-> kind, mime |-> t], Len(q))) = count[t]
<1> DEFINE E == Entries(count)
           n == Cardinality(E)
           e == SetToSeq(E)
           q == [i \in 1..n |-> [type |-> kind, mime |-> e[i][1]]]
<1>1. IsFiniteSet(E) /\ n \in Nat
  BY NetworkAssumption, EntriesFinite
<1>2. e \in Bijection(1..n, E)
  BY <1>1, SetToSeqIsBijection
<1>3. \A x \in E : x[1] \in Types /\ x[2] \in 1..count[x[1]] /\ x = <<x[1], x[2]>>
  BY DEF Entries
<1>4. \A t \in Types : {t} \X (1..count[t]) \subseteq E
  BY DEF Entries
<1> HIDE DEF E, e, n
<1>5. /\ e \in [1..n -> E] /\ \A a, b \in 1..n : e[a] = e[b] => a = b
      /\ \A x \in E : \E a \in 1..n : e[a] = x
  BY <1>2 DEF Bijection, Injection, Surjection, IsInjective
<1>6. DOMAIN e = 1..n
  BY <1>5
<1>7. Burst(kind, count) = q
  BY <1>6 DEF Burst, E, e, n
<1>8. \A i \in 1..n : e[i][1] \in Types
  BY <1>3, <1>5
<1>9. ASSUME NEW S, \A t \in Types : [type |-> kind, mime |-> t] \in S
      PROVE  q \in Seq(S)
  <2>1. q \in [1..n -> S]
    BY <1>8, <1>9
  <2> QED
    BY <1>1, <2>1
<1>10. ASSUME NEW t \in Types
       PROVE  Cardinality(Positions(q, [type |-> kind, mime |-> t], n)) = count[t]
  <2> DEFINE P == {i \in 1..n : e[i][1] = t}
             C == {t} \X (1..count[t])
             f == [i \in P |-> e[i]]
  <2>1. Positions(q, [type |-> kind, mime |-> t], n) = P
    <3>1. \A x : [type |-> kind, mime |-> x].mime = x
      OBVIOUS
    <3>2. \A i \in 1..n : q[i] = [type |-> kind, mime |-> t] <=> e[i][1] = t
      BY <3>1
    <3> HIDE DEF q
    <3> QED
      BY <3>2 DEF Positions
  <2>2. f \in [P -> C] /\ \A a, b \in P : f[a] = f[b] => a = b
    <3>1. ASSUME NEW i \in P
          PROVE  e[i] \in C
      BY <1>3, <1>5
    <3> QED
      BY <1>5, <3>1
  <2>3. \A x \in C : \E i \in P : f[i] = x
    <3>1. SUFFICES ASSUME NEW x \in C PROVE \E i \in P : f[i] = x
      OBVIOUS
    <3>2. PICK i \in 1..n : e[i] = x
      BY <1>4, <1>5
    <3>3. i \in P
      BY <3>2
    <3> QED
      BY <3>2, <3>3
  <2>4. f \in Bijection(P, C)
    BY <2>2, <2>3, Fun_IsBij
  <2>5. IsFiniteSet(P)
    <3>1. IsFiniteSet(1..n)
      BY <1>1, FS_Interval
    <3>2. P \subseteq 1..n
      OBVIOUS
    <3> QED
      BY <3>1, <3>2, FS_Subset
  <2>6. count[t] \in Nat
    OBVIOUS
  <2>7. ExistsBijection(P, C)
    BY <2>4 DEF ExistsBijection
  <2> HIDE DEF P, C
  <2>8. Cardinality(C) = Cardinality(P)
    BY <2>5, <2>7, FS_Bijection
  <2> QED
    BY <2>1, <2>6, <2>8, Column DEF C
<1>11. Len(q) = n /\ DOMAIN q = 1..n
  BY <1>1
<1>12. \A i \in DOMAIN q : \E t \in Types : q[i] = [type |-> kind, mime |-> t]
  BY <1>8, <1>11
<1> HIDE DEF q
<1> QED
  BY <1>7, <1>9, <1>10, <1>11, <1>12

LEMMA BurstLeads ==
    ASSUME NEW count \in Row, NEW w \in Nat, NEW t \in Types
    PROVE  /\ Leads(w, Burst("Register", count), t, w + count[t])
           /\ Leads(w + count[t], Burst("Unregister", count), t, w)
<1>1. count \in [Types -> Nat] /\ count[t] \in Nat
  BY DEF Row
<1>2. ASSUME NEW kind \in {"Register", "Unregister"}
      PROVE  LET q == Burst(kind, count)
                 A(j) == Cardinality(Positions(q, [type |-> kind, mime |-> t], j)) IN
             /\ Len(q) \in Nat /\ A(0) = 0 /\ A(Len(q)) = count[t]
             /\ \A j \in Nat : A(j) \in Nat
             /\ \A j \in 0..Len(q) : A(j) <= count[t]
             /\ \A j \in 1..Len(q) :
                  IF q[j] = [type |-> kind, mime |-> t]
                  THEN A(j) = A(j - 1) + 1
                  ELSE A(j) = A(j - 1) /\ \E u \in Types \ {t} : q[j] = [type |-> kind, mime |-> u]
  <2> DEFINE q == Burst(kind, count)
             m == [type |-> kind, mime |-> t]
             A(j) == Cardinality(Positions(q, m, j))
  <2>1. /\ q \in Seq(Messages)
        /\ \A i \in DOMAIN q : \E u \in Types : q[i] = [type |-> kind, mime |-> u]
        /\ A(Len(q)) = count[t]
    <3>1. \A u \in Types : [type |-> kind, mime |-> u] \in Messages
      BY <1>2, MessagesOfKinds DEF Register, Unregister
    <3> QED
      BY <1>1, <3>1, BurstEffect
  <2> HIDE DEF q, m
  <2>2. Len(q) \in Nat /\ DOMAIN q = 1..Len(q)
    BY <2>1
  <2>3. A(0) = 0 /\ \A j \in Nat : A(j) \in Nat
    BY PositionsGrow
  <2>4. ASSUME NEW j \in 0..Len(q)
        PROVE  A(j) <= count[t]
    <3>1. /\ Positions(q, m, j) \subseteq Positions(q, m, Len(q))
          /\ IsFiniteSet(Positions(q, m, Len(q)))
      <4>1. 1..j \subseteq 1..Len(q)
        BY <2>2
      <4> QED
        BY <2>2, <4>1, PositionsGrow DEF Positions
    <3>2. Cardinality(Positions(q, m, j)) <= Cardinality(Positions(q, m, Len(q)))
      BY <3>1, FS_Subset
    <3> QED
      BY <2>1, <3>2
  <2>5. ASSUME NEW j \in 1..Len(q)
        PROVE  IF q[j] = m THEN A(j) = A(j - 1) + 1
               ELSE A(j) = A(j - 1) /\ \E u \in Types \ {t} : q[j] = [type |-> kind, mime |-> u]
    <3>1. j - 1 \in Nat /\ (j - 1) + 1 = j /\ j \in DOMAIN q
      BY <2>2
    <3>2. /\ q[j] = m => A(j) = A(j - 1) + 1
          /\ q[j] # m => A(j) = A(j - 1)
      BY <3>1, PositionsGrow
    <3>3. q[j] # m => \E u \in Types \ {t} : q[j] = [type |-> kind, mime |-> u]
      BY <2>1, <3>1 DEF m
    <3> QED
      BY <3>2, <3>3
  <2> QED
    BY <2>1, <2>2, <2>3, <2>4, <2>5 DEF q, m
<1>3. Leads(w, Burst("Register", count), t, w + count[t])
  <2> DEFINE q == Burst("Register", count)
             A(j) == Cardinality(Positions(q, Register(t), j))
             f == [j \in 0..Len(q) |-> w + A(j)]
  <2>1. /\ Len(q) \in Nat /\ A(0) = 0 /\ A(Len(q)) = count[t]
        /\ \A j \in Nat : A(j) \in Nat
        /\ \A j \in 1..Len(q) :
             IF q[j] = Register(t) THEN A(j) = A(j - 1) + 1
             ELSE A(j) = A(j - 1) /\ \E u \in Types \ {t} : q[j] = Register(u)
    BY <1>2 DEF Register
  <2> HIDE DEF q, A
  <2>2. f \in [0..Len(q) -> Nat] /\ f[0] = w /\ f[Len(q)] = w + count[t]
    BY SMTT(40), <2>1
  <2>3. ASSUME NEW j \in 1..Len(q)
        PROVE  f[j] = Applied(f[j - 1], q[j], t)
    <3>0. j \in 0..Len(q) /\ j - 1 \in 0..Len(q) /\ j - 1 \in Nat
      BY <2>1
    <3>1. f[j] = w + A(j) /\ f[j - 1] = w + A(j - 1) /\ A(j - 1) \in Nat
      BY <2>1, <3>0
    <3>2. CASE q[j] = Register(t)
      <4>1. A(j) = A(j - 1) + 1
        BY <2>1, <3>2
      <4> QED
        BY <3>1, <3>2, <4>1 DEF Applied
    <3>3. CASE q[j] # Register(t)
      <4>1. A(j) = A(j - 1) /\ q[j] # Unregister(t)
        BY SMTT(40), <2>1, <3>3, MessageKinds
      <4> QED
        BY <3>1, <3>3, <4>1 DEF Applied
    <3> QED
      BY <3>2, <3>3
  <2>4. f \in Traces(q, t)
    BY <2>2, <2>3 DEF Traces
  <2> QED
    BY <2>2, <2>4 DEF Leads, q
<1>4. Leads(w + count[t], Burst("Unregister", count), t, w)
  <2> DEFINE q == Burst("Unregister", count)
             A(j) == Cardinality(Positions(q, Unregister(t), j))
             f == [j \in 0..Len(q) |-> (w + count[t]) - A(j)]
  <2>1. /\ Len(q) \in Nat /\ A(0) = 0 /\ A(Len(q)) = count[t]
        /\ \A j \in Nat : A(j) \in Nat
        /\ \A j \in 0..Len(q) : A(j) <= count[t]
        /\ \A j \in 1..Len(q) :
             IF q[j] = Unregister(t) THEN A(j) = A(j - 1) + 1
             ELSE A(j) = A(j - 1) /\ \E u \in Types \ {t} : q[j] = Unregister(u)
    BY <1>2 DEF Unregister
  <2> HIDE DEF q, A
  <2>2. f \in [0..Len(q) -> Nat] /\ f[0] = w + count[t] /\ f[Len(q)] = w
    BY SMTT(40), <1>1, <2>1
  <2>3. ASSUME NEW j \in 1..Len(q)
        PROVE  f[j] = Applied(f[j - 1], q[j], t)
    <3>1. /\ f[j] = (w + count[t]) - A(j) /\ f[j - 1] = (w + count[t]) - A(j - 1)
          /\ A(j - 1) \in Nat
      <4>1. j \in 0..Len(q) /\ j - 1 \in 0..Len(q) /\ j - 1 \in Nat
        BY <2>1
      <4> QED
        BY <2>1, <4>1
    <3>2. CASE q[j] = Unregister(t)
      <4>1. A(j) = A(j - 1) + 1 /\ q[j] # Register(t)
        BY ZenonT(40), <2>1, <3>2, MessageKinds
      <4> QED
        BY <1>1, <3>1, <3>2, <4>1 DEF Applied
    <3>3. CASE q[j] # Unregister(t)
      <4>1. A(j) = A(j - 1) /\ q[j] # Register(t)
        BY ZenonT(40), <2>1, <3>3, MessageKinds
      <4> QED
        BY <3>1, <3>3, <4>1 DEF Applied
    <3> QED
      BY <3>2, <3>3
  <2>4. f \in Traces(q, t)
    BY <2>2, <2>3 DEF Traces
  <2> QED
    BY <2>2, <2>4 DEF Leads, q
<1> QED
  BY <1>3, <1>4
-----------------------------------------------------------------------------
(* One way of a link: the sender's end and the receiver's, the messages    *)
(* between them, the receiver's row of counts and of what its handler      *)
(* remembers, and what the sender wants.  The association is the first     *)
(* message, and the receiver's end is open until it arrives.  While the    *)
(* receiver's end is not closed, the messages lead to what the sender      *)
(* wants; if the sender is gone, to nothing that has been retracted.       *)
Ends == {"closed", "open", "associated"}

WayOK(near, far, q, c, r, w) ==
    /\ near \in Ends /\ far \in Ends
    /\ q \in Seq(Messages) /\ c \in Row /\ r \in Row /\ w \in Row
    /\ far = "closed" => q = << >>
    /\ far = "open" => q # << >> /\ q[1] = AssociateMsg
    /\ \A i \in DOMAIN q : q[i] = AssociateMsg => i = 1 /\ far = "open"
    /\ far # "associated" => c = EmptyRow
    /\ \A t \in Types : c[t] <= r[t]
    /\ far # "closed" /\ near = "associated" => \A t \in Types : Leads(c[t], q, t, w[t])
    /\ far # "closed" /\ near = "open" => \A t \in Types : Leads(c[t], q, t, 0)
    /\ far # "closed" /\ near = "closed" =>
         r = c /\ \A i \in DOMAIN q, t \in Types : q[i] # Unregister(t)

LEMMA EmptyRowType == EmptyRow \in Row /\ \A t \in Types : EmptyRow[t] = 0
  BY DEF EmptyRow, Row

LEMMA AssociationLeads ==
    ASSUME NEW c \in Nat, NEW t
    PROVE  Leads(c, <<AssociateMsg>>, t, c)
<1>1. Applied(c, AssociateMsg, t) = c
  BY MessageKinds DEF Applied
<1> QED
  BY <1>1, LeadsByOne

(* A link is made. *)
LEMMA WayOpens ==
    ASSUME NEW r \in Row, NEW w \in Row
    PROVE  WayOK("open", "open", <<AssociateMsg>>, EmptyRow, r, w)
<1> DEFINE q == <<AssociateMsg>>
<1>1. /\ q \in Seq(Messages) /\ q # << >> /\ q[1] = AssociateMsg
      /\ \A i \in DOMAIN q : i = 1
  BY MessagesOfKinds
<1>2. \A t \in Types : EmptyRow[t] <= r[t]
  BY EmptyRowType DEF Row
<1>3. \A t \in Types : Leads(EmptyRow[t], q, t, 0)
  BY EmptyRowType, AssociationLeads
<1> HIDE DEF q
<1>4. WayOK("open", "open", q, EmptyRow, r, w)
  BY <1>1, <1>2, <1>3, EmptyRowType DEF WayOK, Ends
<1> QED
  BY <1>4 DEF q

(* Messages are sent after the others, unless the receiver is gone.        *)
LEMMA WaySends ==
    ASSUME NEW near, NEW far, NEW q, NEW c, NEW r, NEW w, NEW v \in Row,
           WayOK(near, far, q, c, r, w), near = "associated",
           NEW p \in Seq(Messages), \A i \in DOMAIN p : p[i] # AssociateMsg,
           \A t \in Types : Leads(w[t], p, t, v[t])
    PROVE  WayOK(near, far, IF far = "closed" THEN q ELSE q \o p, c, r, v)
<1>1. CASE far = "closed"
  BY <1>1 DEF WayOK
<1>2. CASE far # "closed"
  <2> DEFINE u == q \o p
  <2>1. q \in Seq(Messages)
    BY DEF WayOK
  <2>2. /\ u \in Seq(Messages)
        /\ q # << >> => u # << >> /\ u[1] = q[1]
        /\ \A i \in DOMAIN u : \/ i \in DOMAIN q /\ u[i] = q[i]
                               \/ \E j \in DOMAIN p : u[i] = p[j]
    BY <2>1
  <2>3. \A t \in Types : Leads(c[t], u, t, v[t])
    <3>1. \A t \in Types : Leads(c[t], q, t, w[t])
      BY <1>2 DEF WayOK
    <3> QED
      BY <2>1, <3>1, LeadsOn
  <2> HIDE DEF u
  <2>4. WayOK(near, far, u, c, r, v)
    BY <1>2, <2>2, <2>3 DEF WayOK
  <2> QED
    BY <1>2, <2>4 DEF u
<1> QED
  BY <1>1, <1>2

(* Data changes no count. *)
LEMMA WayPushes ==
    ASSUME NEW near, NEW far, NEW q, NEW c, NEW r, NEW w,
           WayOK(near, far, q, c, r, w), far # "closed",
           NEW d \in Pushes, NEW u \in Types
    PROVE  WayOK(near, far, q \o <<PushMsg(d, u)>>, c, r, w)
<1> DEFINE m == PushMsg(d, u)
           k == q \o <<m>>
<1>1. m \in Messages /\ m # AssociateMsg /\ \A t : m # Register(t) /\ m # Unregister(t)
  BY MessageKinds, MessagesOfKinds
<1>2. q \in Seq(Messages)
  BY DEF WayOK
<1> HIDE DEF m
<1>3. /\ k \in Seq(Messages)
      /\ q # << >> => k # << >> /\ k[1] = q[1]
      /\ \A i \in DOMAIN k : (i \in DOMAIN q /\ k[i] = q[i]) \/ k[i] = m
  BY <1>1, <1>2
<1>4. ASSUME NEW t \in Types, NEW a, Leads(c[t], q, t, a)
      PROVE  Leads(c[t], k, t, a)
  <2>1. a \in Nat
    BY <1>2, <1>4, LeadsType
  <2>2. Leads(a, <<m>>, t, a)
    BY <1>1, <2>1, LeadsByOne DEF Applied
  <2>3. <<m>> \in Seq(Messages)
    BY <1>1
  <2> QED
    BY <1>2, <1>4, <2>2, <2>3, LeadsOn
<1> HIDE DEF k
<1>5. WayOK(near, far, k, c, r, w)
  BY <1>1, <1>3, <1>4 DEF WayOK
<1> QED
  BY <1>5 DEF k, m

(* The receiver of a way that is not in use wants nothing of the sender.   *)
LEMMA WayIdles ==
    ASSUME NEW near, NEW far, NEW q, NEW c, NEW r, NEW w, NEW v \in Row,
           WayOK(near, far, q, c, r, w), near # "associated" \/ far = "closed"
    PROVE  WayOK(near, far, q, c, r, v)
  BY DEF WayOK

(* The receiver closes its end. *)
LEMMA WayCloses ==
    ASSUME NEW near \in Ends, NEW w \in Row
    PROVE  WayOK(near, "closed", << >>, EmptyRow, EmptyRow, w)
<1>1. << >> \in Seq(Messages) /\ DOMAIN << >> = {}
  OBVIOUS
<1> QED
  BY <1>1, EmptyRowType DEF WayOK, Ends

(* The sender closes its end. *)
LEMMA WayIsAbandoned ==
    ASSUME NEW near, NEW far, NEW q, NEW c, NEW r, NEW w,
           WayOK(near, far, q, c, r, w),
           far # "closed" => r = c /\ \A i \in DOMAIN q, t \in Types : q[i] # Unregister(t)
    PROVE  WayOK("closed", far, q, c, r, w)
  BY DEF WayOK, Ends

(* The sender has heard of the receiver, and tells it all that it wants.   *)
LEMMA WayAssociates ==
    ASSUME NEW far, NEW q, NEW c, NEW r, NEW w, WayOK("open", far, q, c, r, w)
    PROVE  WayOK("associated", far,
                 IF far = "closed" THEN q ELSE q \o Burst("Register", w), c, r, w)
<1>1. CASE far = "closed"
  BY <1>1 DEF WayOK, Ends
<1>2. CASE far # "closed"
  <2> DEFINE p == Burst("Register", w)
             k == q \o p
  <2>1. q \in Seq(Messages) /\ w \in Row /\ w \in [Types -> Nat]
    BY DEF WayOK, Row
  <2>2. /\ p \in Seq(Messages)
        /\ \A i \in DOMAIN p : p[i] # AssociateMsg
    <3>1. \A t \in Types : [type |-> "Register", mime |-> t] \in Messages
      BY MessagesOfKinds DEF Register
    <3>2. \A t \in Types : [type |-> "Register", mime |-> t] # AssociateMsg
      BY MessageKinds
    <3> QED
      BY <2>1, <3>1, <3>2, BurstEffect
  <2>3. \A t \in Types : Leads(0, p, t, w[t])
    <3>1. \A t \in Types : 0 + w[t] = w[t]
      BY <2>1
    <3> QED
      BY <2>1, <3>1, BurstLeads
  <2> HIDE DEF p
  <2>4. \A t \in Types : Leads(c[t], k, t, w[t])
    <3>1. \A t \in Types : Leads(c[t], q, t, 0)
      BY <1>2 DEF WayOK
    <3> QED
      BY <2>1, <2>2, <2>3, <3>1, LeadsOn
  <2>5. /\ k \in Seq(Messages)
        /\ q # << >> => k # << >> /\ k[1] = q[1]
        /\ \A i \in DOMAIN k : \/ i \in DOMAIN q /\ k[i] = q[i]
                               \/ \E j \in DOMAIN p : k[i] = p[j]
    BY <2>1, <2>2
  <2> HIDE DEF k
  <2>6. WayOK("associated", far, k, c, r, w)
    BY <1>2, <2>2, <2>4, <2>5 DEF WayOK, Ends
  <2> QED
    BY <1>2, <2>6 DEF k, p
<1> QED
  BY <1>1, <1>2

(* A message arrives and is counted.  Only the association arrives at an   *)
(* open end, and there is an entry for every retraction to take out.       *)
LEMMA WayArrives ==
    ASSUME NEW near, NEW far, NEW q, NEW c, NEW r, NEW w,
           WayOK(near, far, q, c, r, w), far # "closed", NEW i \in Arrivals(q)
    PROVE  /\ i \in DOMAIN q /\ q[i] \in Messages
           /\ q[i] = AssociateMsg <=> far = "open"
           /\ \A t \in Types : q[i] = Unregister(t) => c[t] > 0
           /\ \A c2, r2 \in Row :
                /\ \A t \in Types : c2[t] = Applied(c[t], q[i], t) /\ c2[t] <= r2[t]
                /\ near = "closed" => r2 = c2
                => WayOK(near, "associated", Without(q, i), c2, r2, w)
<1>1. /\ i \in DOMAIN q /\ \A j \in 1..(i - 1) : ~IsControl(q[j])
      /\ q \in Seq(Messages) /\ near \in Ends /\ far \in Ends /\ c \in Row
  BY DEF Arrivals, WayOK
<1>2. q[i] \in Messages /\ i \in 1..Len(q) /\ Len(q) \in Nat
  BY <1>1
<1>3. q[i] = AssociateMsg <=> far = "open"
  <2>1. ASSUME far = "open"
        PROVE  q[i] = AssociateMsg
    <3>1. q[1] = AssociateMsg /\ IsControl(q[1])
      BY <2>1, MessageKinds DEF WayOK, IsControl
    <3>2. i = 1
      BY <1>1, <1>2, <3>1
    <3> QED
      BY <3>1, <3>2
  <2> QED
    BY <1>1, <2>1 DEF WayOK
<1>4. \A t \in Types : c[t] \in Nat
  BY <1>1 DEF Row
<1>5. ASSUME NEW t \in Types, NEW a, Leads(c[t], q, t, a)
      PROVE  Applied(c[t], q[i], t) \in Nat /\ Leads(Applied(c[t], q[i], t), Without(q, i), t, a)
  <2>1. \A j \in 1..(i - 1) : q[j] # Register(t) /\ q[j] # Unregister(t)
    BY <1>1, MessageKinds DEF IsControl
  <2> QED
    BY <1>1, <1>5, <2>1, LeadsWithout
<1>6. ASSUME NEW t \in Types, q[i] = Unregister(t)
      PROVE  c[t] > 0
  <2>1. near # "closed"
    BY <1>1, <1>6 DEF WayOK
  <2>2. \E a : Leads(c[t], q, t, a)
    BY <1>1, <2>1 DEF WayOK, Ends
  <2>3. Applied(c[t], q[i], t) \in Nat /\ Applied(c[t], q[i], t) = c[t] - 1
    BY <1>5, <1>6, <2>2, MessageKinds DEF Applied
  <2> QED
    BY <1>4, <2>3
<1>7. ASSUME NEW c2 \in Row, NEW r2 \in Row,
             \A t \in Types : c2[t] = Applied(c[t], q[i], t) /\ c2[t] <= r2[t],
             near = "closed" => r2 = c2
      PROVE  WayOK(near, "associated", Without(q, i), c2, r2, w)
  <2> DEFINE u == Without(q, i)
  <2>1. /\ u \in Seq(Messages) /\ Len(u) = Len(q) - 1
        /\ \A j \in 1..(Len(q) - 1) : u[j] = IF j < i THEN q[j] ELSE q[j + 1]
    BY <1>1, WithoutEffect
  <2> HIDE DEF u
  <2>2. ASSUME NEW j \in DOMAIN u
        PROVE  \E k \in DOMAIN q : u[j] = q[k] /\ k # i /\ (k = 1 => j = 1)
    <3>1. j \in 1..(Len(q) - 1)
      BY <1>2, <2>1
    <3>2. CASE j < i
      BY <1>2, <2>1, <3>1, <3>2
    <3>3. CASE ~(j < i)
      <4>1. j + 1 \in DOMAIN q /\ j + 1 # i /\ j + 1 # 1 /\ u[j] = q[j + 1]
        BY <1>1, <1>2, <2>1, <3>1, <3>3
      <4> QED
        BY <4>1
    <3> QED
      BY <3>2, <3>3
  <2>3. \A j \in DOMAIN u : u[j] # AssociateMsg
    <3>1. \A k \in DOMAIN q : q[k] = AssociateMsg => k = 1 /\ i = 1
      <4> SUFFICES ASSUME NEW k \in DOMAIN q, q[k] = AssociateMsg
                   PROVE  k = 1 /\ i = 1
        OBVIOUS
      <4>1. k = 1 /\ far = "open"
        BY DEF WayOK
      <4>2. q[i] = AssociateMsg
        BY <1>3, <4>1
      <4> QED
        BY <1>1, <4>1, <4>2 DEF WayOK
    <3> QED
      BY <2>2, <3>1
  <2>4. far # "closed" /\ near = "associated" => \A t \in Types : Leads(c2[t], u, t, w[t])
    BY <1>5, <1>7 DEF WayOK, u
  <2>5. far # "closed" /\ near = "open" => \A t \in Types : Leads(c2[t], u, t, 0)
    BY <1>5, <1>7 DEF WayOK, u
  <2>6. near = "closed" => \A j \in DOMAIN u, t \in Types : u[j] # Unregister(t)
    BY <2>2 DEF WayOK
  <2>7. WayOK(near, "associated", u, c2, r2, w)
    BY <1>7, <2>1, <2>3, <2>4, <2>5, <2>6 DEF WayOK, Ends
  <2> QED
    BY <2>7 DEF u
<1> QED
  BY <1>1, <1>2, <1>3, <1>6, <1>7

(* A change is told to whoever is associated. *)
LEMMA WayTold ==
    ASSUME NEW near, NEW far, NEW q, NEW c, NEW r, NEW w, NEW v \in Row,
           WayOK(near, far, q, c, r, w),
           NEW m \in Messages, m # AssociateMsg,
           \A t \in Types : v[t] = Applied(w[t], m, t)
    PROVE  WayOK(near, far,
                 IF near = "associated" /\ far # "closed" THEN q \o <<m>> ELSE q, c, r, v)
<1> DEFINE p == <<m>>
<1>1. p \in Seq(Messages) /\ \A i \in DOMAIN p : p[i] # AssociateMsg
  OBVIOUS
<1>2. ASSUME NEW t \in Types
      PROVE  Leads(w[t], p, t, v[t])
  <2>1. w[t] \in Nat /\ v[t] \in Nat
    BY DEF WayOK, Row
  <2>2. v[t] = Applied(w[t], m, t)
    OBVIOUS
  <2> QED
    BY <2>1, <2>2, LeadsByOne
<1> HIDE DEF p
<1>3. CASE near = "associated"
  <2>1. WayOK(near, far, IF far = "closed" THEN q ELSE q \o p, c, r, v)
    BY <1>1, <1>2, <1>3, WaySends
  <2> QED
    BY <1>3, <2>1 DEF p
<1>4. CASE near # "associated"
  BY <1>4, WayIdles
<1> QED
  BY <1>3, <1>4
-----------------------------------------------------------------------------
(* What a gateway wants, as a function of its tables. *)
WantsOf(push, counts, n) ==
    [t \in Types |-> push[t] +
        Cardinality(Entries([k \in Gateways \ {n} |-> counts[k][t]]))]

LEMMA WantsType ==
    ASSUME NEW push \in Row, NEW counts \in [Gateways -> Row], NEW n
    PROVE  WantsOf(push, counts, n) \in Row
<1>1. ASSUME NEW t \in Types
      PROVE  push[t] + Cardinality(Entries([k \in Gateways \ {n} |-> counts[k][t]])) \in Nat
  <2> DEFINE column == [k \in Gateways \ {n} |-> counts[k][t]]
  <2>1. column \in [Gateways \ {n} -> Nat] /\ push[t] \in Nat
    BY DEF Row
  <2>2. IsFiniteSet(Gateways \ {n})
    BY TreeAssumption, FS_RemoveElement
  <2> HIDE DEF column
  <2>3. Cardinality(Entries(column)) \in Nat
    BY <2>1, <2>2, EntriesFinite
  <2> QED
    BY <2>1, <2>3 DEF column
<1> QED
  BY <1>1 DEF WantsOf, Row

LEMMA WantsPushed ==
    ASSUME NEW push \in Row, NEW more \in Row, NEW counts \in [Gateways -> Row],
           NEW n, NEW t \in Types
    PROVE  WantsOf(more, counts, n)[t] + push[t] = WantsOf(push, counts, n)[t] + more[t]
<1> DEFINE others == Cardinality(Entries([k \in Gateways \ {n} |-> counts[k][t]]))
<1>1. WantsOf(push, counts, n)[t] = push[t] + others /\ WantsOf(more, counts, n)[t] = more[t] + others
  BY DEF WantsOf
<1>2. push[t] \in Nat /\ more[t] \in Nat
  BY DEF Row
<1>3. push[t] + others \in Nat
  BY <1>1, WantsType DEF Row
<1>4. others \in Nat
  <2> DEFINE column == [k \in Gateways \ {n} |-> counts[k][t]]
  <2>1. column \in [Gateways \ {n} -> Nat]
    BY DEF Row
  <2>2. IsFiniteSet(Gateways \ {n})
    BY TreeAssumption, FS_RemoveElement
  <2> QED
    BY <2>1, <2>2, EntriesFinite
<1> HIDE DEF others
<1> QED
  BY <1>1, <1>2, <1>4

(* A count for one neighbour is what the others hear of. *)
LEMMA WantsCounted ==
    ASSUME NEW push \in Row, NEW counts \in [Gateways -> Row],
           NEW after \in [Gateways -> Row], NEW k \in Gateways,
           \A x \in Gateways \ {k} : after[x] = counts[x], NEW n, NEW t \in Types
    PROVE  IF n = k
           THEN WantsOf(push, after, n)[t] = WantsOf(push, counts, n)[t]
           ELSE WantsOf(push, after, n)[t] + counts[k][t]
                  = WantsOf(push, counts, n)[t] + after[k][t]
<1> DEFINE D == Gateways \ {n}
           old == [x \in D |-> counts[x][t]]
           new == [x \in D |-> after[x][t]]
<1>1. old \in [D -> Nat] /\ new \in [D -> Nat] /\ push[t] \in Nat
  BY DEF Row
<1>2. IsFiniteSet(D)
  BY TreeAssumption, FS_RemoveElement
<1>3. /\ WantsOf(push, counts, n)[t] = push[t] + Cardinality(Entries(old))
      /\ WantsOf(push, after, n)[t] = push[t] + Cardinality(Entries(new))
  BY DEF WantsOf
<1>4. CASE n = k
  <2>1. old = new
    BY <1>4
  <2> QED
    BY <1>3, <1>4, <2>1
<1>5. CASE n # k
  <2>1. /\ k \in D /\ old[k] = counts[k][t] /\ new[k] = after[k][t]
        /\ \A y \in D \ {k} : new[y] = old[y]
    BY <1>5
  <2> HIDE DEF D, old, new
  <2>2. Cardinality(Entries(new)) + old[k] = Cardinality(Entries(old)) + new[k]
    BY <1>1, <1>2, <2>1, EntriesChange
  <2>3. Cardinality(Entries(new)) \in Nat /\ Cardinality(Entries(old)) \in Nat /\ old[k] \in Nat /\ new[k] \in Nat
    BY <1>1, <1>2, <2>1, EntriesFinite
  <2> QED
    BY <1>1, <1>3, <1>5, <2>1, <2>2, <2>3
<1> QED
  BY <1>4, <1>5
-----------------------------------------------------------------------------
(* The inductive invariant. *)
Way(a, b) ==
    WayOK(side[a][b], side[b][a], channel[a][b], crossGatewaySubscriptions[b][a],
          registeredHandlers[b][a],
          WantsOf(pushHandlers[a], crossGatewaySubscriptions[a], b))

LinkTypes ==
    /\ side \in [Gateways -> [Gateways -> Ends]]
    /\ channel \in [Gateways -> [Gateways -> Seq(Messages)]]
    /\ \A g, n \in Gateways : side[g][n] # "closed" => n \in Neighbours(g)

TableTypes ==
    /\ pushHandlers \in [Gateways -> [Types -> 0..MaxSubs]]
    /\ crossGatewaySubscriptions \in [Gateways -> [Gateways -> Row]]
    /\ registeredHandlers \in [Gateways -> [Gateways -> Row]]
    /\ pushed \subseteq Pushes
    /\ delivered \in [Pushes -> [Gateways -> Nat]]
    /\ owed \in [Pushes -> SUBSET Gateways]
    /\ changes \in 0..MaxChanges /\ breaks \in 0..MaxBreaks

NetworkInv == LinkTypes /\ TableTypes /\ \A a, b \in Gateways : Way(a, b)

LEMMA NeighbourTypes ==
    ASSUME NEW g \in Gateways, NEW n \in Neighbours(g)
    PROVE  n \in Gateways /\ n # g /\ g \in Neighbours(n)
  BY TreeAssumption DEF Neighbours

(* A table with two indices, and a change of one of its entries. *)
Grid(f, S) == f \in [Gateways -> [Gateways -> S]]
OneChanged(f, h, g, n, v) == h = [f EXCEPT ![g][n] = v]
Differs(f, h, g, n, v) ==
    \A a, b \in Gateways : h[a][b] = IF a = g /\ b = n THEN v ELSE f[a][b]

LEMMA OneEntry ==
    ASSUME NEW S, NEW f, Grid(f, S), NEW h, NEW v \in S,
           NEW g \in Gateways, NEW n \in Gateways, OneChanged(f, h, g, n, v)
    PROVE  Grid(h, S) /\ Differs(f, h, g, n, v)
<1>1. Grid(h, S)
  BY DEF Grid, OneChanged
<1>2. Differs(f, h, g, n, v)
  BY DEF Grid, OneChanged, Differs
<1> QED
  BY <1>1, <1>2

LEMMA PushRow ==
    ASSUME TableTypes, NEW g \in Gateways
    PROVE  pushHandlers[g] \in Row /\ crossGatewaySubscriptions[g] \in [Gateways -> Row]
<1>1. \A t \in Types : pushHandlers[g][t] \in Nat
  BY NetworkAssumption DEF TableTypes
<1> QED
  BY <1>1 DEF TableTypes, Row

LEMMA SentType ==
    ASSUME NEW chs \in [Gateways -> [Gateways -> Seq(Messages)]],
           NEW g \in Gateways, NEW to, NEW msgs \in Seq(Messages)
    PROVE  Sent(chs, g, to, msgs) \in [Gateways -> [Gateways -> Seq(Messages)]]
<1>1. \A b \in Gateways : chs[g][b] \in Seq(Messages) /\ chs[g][b] \o msgs \in Seq(Messages)
  OBVIOUS
<1> QED
  BY <1>1 DEF Sent
-----------------------------------------------------------------------------
(* Plugins. *)

LEMMA SubscriptionSteps ==
    ASSUME NetworkInv, NEW g \in Gateways, NEW t \in Types,
           Subscribe(g, t) \/ Unsubscribe(g, t)
    PROVE  NetworkInv'
<1>1. LinkTypes /\ TableTypes
  BY DEF NetworkInv
<1>2. PICK m \in {Register(t), Unregister(t)} :
        /\ channel' = Sent(channel, g, Handled(g), <<m>>)
        /\ pushHandlers' = [pushHandlers EXCEPT ![g][t] = Applied(@, m, t)]
        /\ pushHandlers'[g][t] \in 0..MaxSubs
  <2>1. pushHandlers[g][t] \in 0..MaxSubs /\ MaxSubs \in Nat
    BY <1>1, NetworkAssumption DEF TableTypes
  <2>2. CASE Subscribe(g, t)
    <3>1. Applied(pushHandlers[g][t], Register(t), t) = pushHandlers[g][t] + 1
      BY DEF Applied
    <3>2. pushHandlers' = [pushHandlers EXCEPT ![g][t] = Applied(@, Register(t), t)]
      BY <1>1, <2>2, <3>1 DEF Subscribe, Insert, TableTypes
    <3>3. pushHandlers'[g][t] \in 0..MaxSubs
      BY <1>1, <2>1, <2>2, <3>1, <3>2 DEF Subscribe, TableTypes
    <3> QED
      BY <2>2, <3>2, <3>3 DEF Subscribe
  <2>3. CASE Unsubscribe(g, t)
    <3>1. /\ Applied(pushHandlers[g][t], Unregister(t), t) = pushHandlers[g][t] - 1
          /\ Less(pushHandlers[g][t], 1) = pushHandlers[g][t] - 1
          /\ pushHandlers[g][t] - 1 \in 0..MaxSubs
      BY <2>1, <2>3, MessageKinds DEF Applied, Less, Unsubscribe
    <3>2. pushHandlers' = [pushHandlers EXCEPT ![g][t] = Applied(@, Unregister(t), t)]
      BY <1>1, <2>3, <3>1 DEF Unsubscribe, EraseOne, TableTypes
    <3>3. pushHandlers'[g][t] \in 0..MaxSubs
      BY <1>1, <2>1, <3>1, <3>2 DEF TableTypes
    <3> QED
      BY <2>3, <3>2, <3>3 DEF Unsubscribe
  <2> QED
    BY <2>2, <2>3
<1>3. /\ UNCHANGED <<side, crossGatewaySubscriptions, registeredHandlers>>
      /\ changes < MaxChanges /\ changes' = changes + 1
      /\ UNCHANGED <<pushed, delivered, breaks>>
      /\ owed' \in [Pushes -> SUBSET Gateways]
  BY <1>1 DEF Subscribe, Unsubscribe, data, TableTypes
<1>4. m \in Messages /\ m # AssociateMsg
  BY MessageKinds, MessagesOfKinds
<1>5. LinkTypes'
  <2>1. <<m>> \in Seq(Messages)
    BY <1>4
  <2> QED
    BY <1>1, <1>2, <1>3, <2>1, SentType DEF LinkTypes, Neighbours
<1>6. TableTypes'
  <2>1. changes' \in 0..MaxChanges
    BY <1>1, <1>3, NetworkAssumption DEF TableTypes
  <2>2. pushHandlers' \in [Gateways -> [Types -> 0..MaxSubs]]
    BY <1>1, <1>2 DEF TableTypes
  <2> QED
    BY <1>1, <1>3, <2>1, <2>2 DEF TableTypes
<1>7. ASSUME NEW a \in Gateways, NEW b \in Gateways
      PROVE  Way(a, b)'
  <2>1. Way(a, b)
    BY DEF NetworkInv
  <2>2. CASE a # g
    <3>1. pushHandlers'[a] = pushHandlers[a]
      BY <1>1, <1>2, <2>2 DEF TableTypes
    <3>2. channel'[a][b] = channel[a][b]
      BY <1>1, <1>2, <2>2 DEF Sent, LinkTypes
    <3> QED
      BY <1>3, <2>1, <3>1, <3>2 DEF Way
  <2>3. CASE a = g
    <3> DEFINE w == WantsOf(pushHandlers[g], crossGatewaySubscriptions[g], b)
               v == WantsOf(pushHandlers'[g], crossGatewaySubscriptions[g], b)
    <3>1. /\ pushHandlers[g] \in Row /\ pushHandlers'[g] \in Row
          /\ crossGatewaySubscriptions[g] \in [Gateways -> Row]
      BY <1>1, <1>6, NetworkAssumption DEF TableTypes, Row
    <3>2. v \in Row /\ w \in Row
      BY <3>1, WantsType
    <3>3. ASSUME NEW u \in Types
          PROVE  v[u] = Applied(w[u], m, u)
      <4>1. v[u] + pushHandlers[g][u] = w[u] + pushHandlers'[g][u]
        BY <3>1, WantsPushed
      <4>2. pushHandlers'[g][u] = Applied(pushHandlers[g][u], m, u)
        <5>1. CASE u = t
          BY <1>1, <1>2, <5>1 DEF TableTypes
        <5>2. CASE u # t
          <6>1. m # Register(u) /\ m # Unregister(u)
            BY <5>2, MessageKinds
          <6> QED
            BY <1>1, <1>2, <5>2, <6>1 DEF TableTypes, Applied
        <5> QED
          BY <5>1, <5>2
      <4>3. v[u] \in Nat /\ w[u] \in Nat /\ pushHandlers[g][u] \in Nat
        BY <3>1, <3>2 DEF Row
      <4> HIDE DEF v, w
      <4> QED
        BY <4>1, <4>2, <4>3 DEF Applied
    <3>4. channel'[g][b] = IF side[g][b] = "associated" /\ side[b][g] # "closed"
                           THEN channel[g][b] \o <<m>> ELSE channel[g][b]
      BY <1>1, <1>2 DEF Sent, Handled, LinkTypes
    <3> HIDE DEF v
    <3>5. WayOK(side[g][b], side[b][g], channel'[g][b], crossGatewaySubscriptions[b][g],
                registeredHandlers[b][g], v)
      <4>1. WayOK(side[g][b], side[b][g], channel[g][b], crossGatewaySubscriptions[b][g],
                  registeredHandlers[b][g], w)
        BY <2>1, <2>3 DEF Way
      <4> HIDE DEF w
      <4> QED
        BY <1>4, <3>2, <3>3, <3>4, <4>1, WayTold
    <3> QED
      BY <1>3, <2>3, <3>5 DEF Way, v
  <2> QED
    BY <2>2, <2>3
<1> QED
  BY <1>5, <1>6, <1>7 DEF NetworkInv

LEMMA PushSteps ==
    ASSUME NetworkInv, NEW g \in Gateways, NEW d \in Pushes, NEW t \in Types,
           Push(g, d, t)
    PROVE  NetworkInv'
<1> DEFINE to == Subscribers(crossGatewaySubscriptions[g], t)
<1>1. LinkTypes /\ TableTypes
  BY DEF NetworkInv
<1>2. /\ UNCHANGED <<tables, side, delivered, bounds>>
      /\ channel' = Sent(channel, g, to, <<PushMsg(d, t)>>)
      /\ pushed' = pushed \cup {d}
      /\ owed' \in [Pushes -> SUBSET Gateways]
  <2>1. Subscribers(pushHandlers, t) \subseteq Gateways
    BY <1>1 DEF Subscribers, TableTypes
  <2> QED
    BY <1>1, <2>1 DEF Push, TableTypes
<1> HIDE DEF to
<1>3. LinkTypes'
  <2>1. <<PushMsg(d, t)>> \in Seq(Messages)
    BY MessagesOfKinds
  <2> QED
    BY <1>1, <1>2, <2>1, SentType DEF LinkTypes, Neighbours
<1>4. TableTypes'
  BY <1>1, <1>2 DEF TableTypes, tables, bounds
<1>5. ASSUME NEW a \in Gateways, NEW b \in Gateways
      PROVE  Way(a, b)'
  <2>1. Way(a, b)
    BY DEF NetworkInv
  <2>2. channel'[a][b] = IF a = g /\ b \in to /\ side[b][a] # "closed"
                         THEN channel[a][b] \o <<PushMsg(d, t)>> ELSE channel[a][b]
    BY <1>1, <1>2 DEF Sent, LinkTypes
  <2> QED
    BY <1>2, <2>1, <2>2, WayPushes DEF Way, tables
<1> QED
  BY <1>3, <1>4, <1>5 DEF NetworkInv
-----------------------------------------------------------------------------
(* Connections. *)

LEMMA ConnectEffect ==
    ASSUME NetworkInv, NEW g \in DOMAIN Parent, Connect(g)
    PROVE  /\ channel' \in [Gateways -> [Gateways -> Seq(Messages)]]
           /\ \A a, b \in Gateways :
                channel'[a][b] = IF (a = g /\ b = Parent[g]) \/ (a = Parent[g] /\ b = g)
                                 THEN <<AssociateMsg>> ELSE channel[a][b]
<1> DEFINE n == Parent[g]
           one == <<AssociateMsg>>
           half == [channel EXCEPT ![g][n] = one]
<1>1. g \in Gateways /\ n \in Gateways /\ one \in Seq(Messages)
  BY TreeAssumption, MessagesOfKinds
<1>2. Grid(channel, Seq(Messages))
  BY DEF NetworkInv, LinkTypes, Grid
<1>3. OneChanged(channel, half, g, n, one) /\ OneChanged(half, channel', n, g, one)
  BY DEF Connect, OpenLink, OneChanged
<1> HIDE DEF n, one, half
<1>4. Grid(half, Seq(Messages)) /\ Differs(channel, half, g, n, one)
  BY <1>1, <1>2, <1>3, OneEntry
<1>5. Grid(channel', Seq(Messages)) /\ Differs(half, channel', n, g, one)
  BY <1>1, <1>3, <1>4, OneEntry
<1>6. /\ channel' \in [Gateways -> [Gateways -> Seq(Messages)]]
      /\ \A a, b \in Gateways :
           channel'[a][b] = IF (a = g /\ b = n) \/ (a = n /\ b = g) THEN one ELSE channel[a][b]
  BY <1>4, <1>5 DEF Grid, Differs
<1> QED
  BY <1>6 DEF n, one

LEMMA ConnectSteps ==
    ASSUME NetworkInv, NEW g \in DOMAIN Parent, Connect(g)
    PROVE  NetworkInv'
<1> DEFINE n == Parent[g]
<1>1. LinkTypes /\ TableTypes
  BY DEF NetworkInv
<1>2. /\ g \in Gateways /\ n \in Gateways /\ n # g
      /\ n \in Neighbours(g) /\ g \in Neighbours(n)
  BY TreeAssumption DEF Neighbours
<1>3. /\ UNCHANGED <<tables, data, bounds>>
      /\ side[g][n] = "closed" /\ side[n][g] = "closed"
      /\ side' = [side EXCEPT ![g][n] = "open", ![n][g] = "open"]
      /\ channel' = [channel EXCEPT ![g][n] = <<AssociateMsg>>,
                                    ![n][g] = <<AssociateMsg>>]
  BY DEF Connect, OpenLink
<1> DEFINE one == <<AssociateMsg>>
           linked(a, b) == (a = g /\ b = n) \/ (a = n /\ b = g)
<1>4. one \in Seq(Messages)
  BY MessagesOfKinds
<1> HIDE DEF n
<1>5. /\ side' \in [Gateways -> [Gateways -> Ends]]
      /\ \A a, b \in Gateways : side'[a][b] = IF linked(a, b) THEN "open" ELSE side[a][b]
  <2> DEFINE half == [side EXCEPT ![g][n] = "open"]
  <2>1. Grid(side, Ends) /\ "open" \in Ends
    BY <1>1 DEF LinkTypes, Ends, Grid
  <2>2. OneChanged(side, half, g, n, "open")
    BY DEF OneChanged
  <2>3. OneChanged(half, side', n, g, "open")
    BY <1>3 DEF OneChanged
  <2> HIDE DEF half
  <2>4. Grid(half, Ends) /\ Differs(side, half, g, n, "open")
    BY <1>2, <2>1, <2>2, OneEntry
  <2>5. Grid(side', Ends) /\ Differs(half, side', n, g, "open")
    BY <1>2, <2>1, <2>3, <2>4, OneEntry
  <2> QED
    BY <2>4, <2>5 DEF Grid, Differs
<1>6. /\ channel' \in [Gateways -> [Gateways -> Seq(Messages)]]
      /\ \A a, b \in Gateways : channel'[a][b] = IF linked(a, b) THEN one ELSE channel[a][b]
  BY ConnectEffect DEF n
<1>7. LinkTypes'
  <2>1. ASSUME NEW a \in Gateways, NEW b \in Gateways, side'[a][b] # "closed"
        PROVE  b \in Neighbours(a)
    BY <1>1, <1>2, <1>5, <2>1 DEF LinkTypes
  <2> QED
    BY <1>5, <1>6, <2>1 DEF LinkTypes, Neighbours
<1>8. TableTypes'
  BY <1>1, <1>3 DEF TableTypes, tables, data, bounds
<1>9. ASSUME NEW a \in Gateways, NEW b \in Gateways
      PROVE  Way(a, b)'
  <2>1. Way(a, b)
    BY DEF NetworkInv
  <2>2. CASE linked(a, b)
    <3>1. side[b][a] = "closed" /\ side'[a][b] = "open" /\ side'[b][a] = "open" /\ channel'[a][b] = one
      BY <1>3, <1>5, <1>6, <2>2
    <3>2. /\ crossGatewaySubscriptions[b][a] = EmptyRow /\ registeredHandlers[b][a] \in Row
          /\ WantsOf(pushHandlers[a], crossGatewaySubscriptions[a], b) \in Row
      BY <2>1, <3>1 DEF Way, WayOK
    <3> QED
      BY <1>3, <3>1, <3>2, WayOpens DEF Way, tables
  <2>3. CASE ~linked(a, b)
    <3>1. side'[b][a] = side[b][a] /\ side'[a][b] = side[a][b] /\ channel'[a][b] = channel[a][b]
      BY <1>5, <1>6, <2>3
    <3> QED
      BY <1>3, <2>1, <3>1 DEF Way, tables
  <2> QED
    BY <2>2, <2>3
<1> QED
  BY <1>7, <1>8, <1>9 DEF NetworkInv

(* When an end is closed its gateway retracts what it had counted for the  *)
(* other, which is what its handler remembers: nothing has been retracted. *)
LEMMA CloseSteps ==
    ASSUME NetworkInv, NEW g \in Gateways, NEW n \in Neighbours(g), Close(g, n)
    PROVE  NetworkInv'
<1> DEFINE row == crossGatewaySubscriptions[g][n]
           p == Burst("Unregister", registeredHandlers[g][n])
<1>1. LinkTypes /\ TableTypes
  BY DEF NetworkInv
<1>2. n \in Gateways /\ n # g /\ g \in Neighbours(n)
  BY NeighbourTypes
<1>3. /\ side[g][n] # "closed"
      /\ side' = [side EXCEPT ![g][n] = "closed"]
      /\ channel' = Sent([channel EXCEPT ![n][g] = << >>], g, Handled(g) \ {n}, p)
      /\ crossGatewaySubscriptions' = Withdraw(g, n)
      /\ registeredHandlers' = [registeredHandlers EXCEPT ![g][n] = EmptyRow]
      /\ owed' = [d \in Pushes |-> {}]
      /\ UNCHANGED <<pushHandlers, pushed, delivered, changes>>
  BY DEF Close, CloseEnd
<1>4. /\ Way(g, n) /\ Way(n, g)
      /\ row \in Row /\ registeredHandlers[g][n] \in Row
  BY <1>1, <1>2 DEF NetworkInv, TableTypes
<1>5. registeredHandlers[g][n] = row
  <2>1. CASE side[n][g] # "closed"
    BY <2>1 DEF Close, NothingRetracted
  <2>2. CASE side[n][g] = "closed"
    BY <1>3, <1>4, <2>2 DEF Way, WayOK
  <2> QED
    BY <2>1, <2>2
<1>6. crossGatewaySubscriptions' = [crossGatewaySubscriptions EXCEPT ![g][n] = EmptyRow]
  <2>1. [t \in Types |-> Less(row[t], registeredHandlers[g][n][t])] = EmptyRow
    <3>1. \A t \in Types : Less(row[t], registeredHandlers[g][n][t]) = 0
      BY <1>4, <1>5 DEF Less, Row
    <3> QED
      BY <3>1 DEF EmptyRow
  <2> QED
    BY <1>1, <1>2, <1>3, <2>1 DEF Withdraw, TableTypes
<1>7. /\ p \in Seq(Messages)
      /\ \A i \in DOMAIN p : p[i] # AssociateMsg
  <2>1. registeredHandlers[g][n] \in [Types -> Nat]
    BY <1>4 DEF Row
  <2>2. \A t \in Types : /\ [type |-> "Unregister", mime |-> t] \in Messages
                         /\ [type |-> "Unregister", mime |-> t] # AssociateMsg
    BY MessageKinds, MessagesOfKinds DEF Unregister
  <2> QED
    BY <2>1, <2>2, BurstEffect
<1>8. \A w \in Nat, t \in Types : Leads(w + row[t], p, t, w)
  BY <1>4, <1>5, BurstLeads
<1> HIDE DEF p, row
<1> DEFINE rest == [channel EXCEPT ![n][g] = << >>]
<1>9. /\ rest \in [Gateways -> [Gateways -> Seq(Messages)]]
      /\ \A a, b \in Gateways : rest[a][b] = IF a = n /\ b = g THEN << >> ELSE channel[a][b]
  <2>1. << >> \in Seq(Messages) /\ Grid(channel, Seq(Messages))
    BY <1>1 DEF LinkTypes, Grid
  <2>2. OneChanged(channel, rest, n, g, << >>)
    BY DEF OneChanged
  <2> HIDE DEF rest
  <2>3. Grid(rest, Seq(Messages)) /\ Differs(channel, rest, n, g, << >>)
    BY <1>2, <2>1, <2>2, OneEntry
  <2> QED
    BY <2>3 DEF Grid, Differs
<1>10. /\ crossGatewaySubscriptions' \in [Gateways -> [Gateways -> Row]]
       /\ \A a, b \in Gateways : crossGatewaySubscriptions'[a][b] =
            IF a = g /\ b = n THEN EmptyRow ELSE crossGatewaySubscriptions[a][b]
       /\ registeredHandlers' \in [Gateways -> [Gateways -> Row]]
       /\ \A a, b \in Gateways : registeredHandlers'[a][b] =
            IF a = g /\ b = n THEN EmptyRow ELSE registeredHandlers[a][b]
  <2>1. Grid(crossGatewaySubscriptions, Row) /\ Grid(registeredHandlers, Row)
    BY <1>1 DEF TableTypes, Grid
  <2>2. EmptyRow \in Row
    BY EmptyRowType
  <2>3. /\ OneChanged(crossGatewaySubscriptions, crossGatewaySubscriptions', g, n, EmptyRow)
        /\ OneChanged(registeredHandlers, registeredHandlers', g, n, EmptyRow)
    BY <1>3, <1>6 DEF OneChanged
  <2>4. /\ Grid(crossGatewaySubscriptions', Row)
        /\ Differs(crossGatewaySubscriptions, crossGatewaySubscriptions', g, n, EmptyRow)
    BY <1>2, <2>1, <2>2, <2>3, OneEntry
  <2>5. /\ Grid(registeredHandlers', Row)
        /\ Differs(registeredHandlers, registeredHandlers', g, n, EmptyRow)
    BY <1>2, <2>1, <2>2, <2>3, OneEntry
  <2> QED
    BY <2>4, <2>5 DEF Grid, Differs
<1>11. /\ side' \in [Gateways -> [Gateways -> Ends]]
       /\ \A a, b \in Gateways : side'[a][b] = IF a = g /\ b = n THEN "closed" ELSE side[a][b]
  <2>1. Grid(side, Ends) /\ "closed" \in Ends /\ OneChanged(side, side', g, n, "closed")
    BY <1>1, <1>3 DEF LinkTypes, Ends, Grid, OneChanged
  <2>2. Grid(side', Ends) /\ Differs(side, side', g, n, "closed")
    BY <1>2, <2>1, OneEntry
  <2> QED
    BY <2>2 DEF Grid, Differs
<1>12. channel' = Sent(rest, g, Handled(g) \ {n}, p)
  BY <1>3
<1> HIDE DEF rest
<1>13. \A a, b \in Gateways :
         channel'[a][b] = IF a = g /\ side[a][b] = "associated" /\ b # n /\ side[b][a] # "closed"
                          THEN rest[a][b] \o p ELSE rest[a][b]
  BY <1>9, <1>12 DEF Sent, Handled
<1>14. LinkTypes'
  <2>1. channel' \in [Gateways -> [Gateways -> Seq(Messages)]]
    BY <1>2, <1>7, <1>9, <1>12, SentType
  <2>2. ASSUME NEW a \in Gateways, NEW b \in Gateways, side'[a][b] # "closed"
        PROVE  b \in Neighbours(a)
    BY <1>1, <1>11, <2>2 DEF LinkTypes
  <2> QED
    BY <1>11, <2>1, <2>2 DEF LinkTypes, Neighbours
<1>15. TableTypes'
  <2>1. breaks' \in 0..MaxBreaks
    BY <1>1, NetworkAssumption DEF Close, TableTypes
  <2>2. owed' \in [Pushes -> SUBSET Gateways]
    BY <1>3
  <2> QED
    BY <1>1, <1>3, <1>10, <2>1, <2>2 DEF TableTypes
<1>16. ASSUME NEW a \in Gateways, NEW b \in Gateways
       PROVE  Way(a, b)'
  <2>1. Way(a, b)
    BY DEF NetworkInv
  <2> DEFINE w == WantsOf(pushHandlers[a], crossGatewaySubscriptions[a], b)
             v == WantsOf(pushHandlers'[a], crossGatewaySubscriptions'[a], b)
  <2>2. w \in Row /\ v \in Row
    <3>1. /\ \A x \in Gateways : pushHandlers[x] \in Row /\ pushHandlers'[x] \in Row
          /\ crossGatewaySubscriptions[a] \in [Gateways -> Row]
          /\ crossGatewaySubscriptions'[a] \in [Gateways -> Row]
      BY <1>1, <1>15, NetworkAssumption DEF TableTypes, Row
    <3> QED
      BY <3>1, WantsType
  <2>3. CASE a # g
    <3>1. w = v
      BY <1>1, <1>3, <1>6, <2>3 DEF TableTypes
    <3>2. CASE a = n /\ b = g
      <4>1. /\ channel'[a][b] = << >> /\ side'[b][a] = "closed" /\ side'[a][b] \in Ends
            /\ crossGatewaySubscriptions'[b][a] = EmptyRow
            /\ registeredHandlers'[b][a] = EmptyRow
        BY <1>2, <1>9, <1>10, <1>11, <1>13, <2>3, <3>2
      <4> HIDE DEF v
      <4>2. WayOK(side'[a][b], side'[b][a], channel'[a][b], crossGatewaySubscriptions'[b][a],
                  registeredHandlers'[b][a], v)
        BY <2>2, <4>1, WayCloses
      <4> QED
        BY <4>2 DEF Way, v
    <3>3. CASE ~(a = n /\ b = g)
      <4>1. /\ channel'[a][b] = channel[a][b]
            /\ side'[a][b] = side[a][b] /\ side'[b][a] = side[b][a]
            /\ crossGatewaySubscriptions'[b][a] = crossGatewaySubscriptions[b][a]
            /\ registeredHandlers'[b][a] = registeredHandlers[b][a]
        BY SMTT(40), <1>2, <1>9, <1>10, <1>11, <1>13, <2>3, <3>3
      <4> QED
        BY <2>1, <3>1, <4>1 DEF Way
    <3> QED
      BY <3>2, <3>3
  <2>4. CASE a = g /\ b = n
    <3>1. /\ channel'[a][b] = channel[a][b] /\ side'[a][b] = "closed"
          /\ side'[b][a] = side[b][a]
          /\ crossGatewaySubscriptions'[b][a] = crossGatewaySubscriptions[b][a]
          /\ registeredHandlers'[b][a] = registeredHandlers[b][a]
      BY <1>2, <1>9, <1>10, <1>11, <1>13, <2>4
    <3>2. w = v
      <4>1. ASSUME NEW t \in Types
            PROVE  w[t] = v[t]
        <5>1. /\ pushHandlers[g] \in Row /\ pushHandlers'[g] = pushHandlers[g]
              /\ crossGatewaySubscriptions[g] \in [Gateways -> Row]
              /\ crossGatewaySubscriptions'[g] \in [Gateways -> Row]
              /\ \A x \in Gateways \ {n} : crossGatewaySubscriptions'[g][x] = crossGatewaySubscriptions[g][x]
          BY <1>1, <1>3, <1>6, <1>15, PushRow DEF TableTypes
        <5> QED
          BY <1>2, <2>4, <5>1, WantsCounted
      <4> QED
        BY <2>2, <4>1 DEF Row
    <3>3. side[b][a] # "closed" =>
            /\ registeredHandlers[b][a] = crossGatewaySubscriptions[b][a]
            /\ \A i \in DOMAIN channel[a][b], t \in Types : channel[a][b][i] # Unregister(t)
      <4> SUFFICES ASSUME side[n][g] # "closed"
                   PROVE  /\ registeredHandlers[n][g] = crossGatewaySubscriptions[n][g]
                          /\ \A i \in DOMAIN channel[g][n], t \in Types : channel[g][n][i] # Unregister(t)
        BY <2>4
      <4>1. NothingRetracted(g, n) /\ NothingRetracted(n, g)
        BY DEF Close
      <4>2. DOMAIN channel[g][n] = 1..Len(channel[g][n])
        BY <1>1, <1>2 DEF LinkTypes
      <4> QED
        BY <4>1, <4>2 DEF NothingRetracted, Contains
    <3>4. WayOK(side[a][b], side[b][a], channel[a][b], crossGatewaySubscriptions[b][a],
                registeredHandlers[b][a], w)
      BY <2>1 DEF Way
    <3> HIDE DEF w, v
    <3>5. WayOK("closed", side[b][a], channel[a][b], crossGatewaySubscriptions[b][a],
                registeredHandlers[b][a], w)
      BY <3>3, <3>4, WayIsAbandoned
    <3> QED
      BY <3>1, <3>2, <3>5 DEF Way, v
  <2>5. CASE a = g /\ b # n
    <3>1. /\ side'[a][b] = side[a][b] /\ side'[b][a] = side[b][a]
          /\ crossGatewaySubscriptions'[b][a] = crossGatewaySubscriptions[b][a]
          /\ registeredHandlers'[b][a] = registeredHandlers[b][a]
          /\ channel'[a][b] = IF side[a][b] = "associated" /\ side[b][a] # "closed"
                              THEN channel[a][b] \o p ELSE channel[a][b]
      <4>1. ~(b = g /\ a = n)
        BY <1>2, <2>5
      <4> QED
        BY <1>2, <1>9, <1>10, <1>11, <1>13, <2>5, <4>1
    <3>2. \A t \in Types : Leads(w[t], p, t, v[t])
      <4> SUFFICES ASSUME NEW t \in Types PROVE Leads(w[t], p, t, v[t])
        OBVIOUS
      <4>1. v[t] + row[t] = w[t]
        <5>1. /\ pushHandlers[g] \in Row /\ pushHandlers'[g] = pushHandlers[g]
              /\ crossGatewaySubscriptions[g] \in [Gateways -> Row]
              /\ crossGatewaySubscriptions'[g] \in [Gateways -> Row]
              /\ crossGatewaySubscriptions'[g][n] = EmptyRow
              /\ \A x \in Gateways \ {n} : crossGatewaySubscriptions'[g][x] = crossGatewaySubscriptions[g][x]
          BY <1>1, <1>2, <1>3, <1>6, <1>15, PushRow DEF TableTypes
        <5>2. v[t] + row[t] = w[t] + EmptyRow[t]
          BY SMTT(40), <1>2, <2>5, <5>1, WantsCounted DEF row
        <5>3. v[t] \in Nat /\ w[t] \in Nat /\ EmptyRow[t] = 0
          BY <2>2, EmptyRowType DEF Row
        <5> HIDE DEF v, w
        <5> QED
          BY <5>2, <5>3
      <4>2. v[t] \in Nat
        BY <2>2 DEF Row
      <4> HIDE DEF v, w
      <4>3. Leads(v[t] + row[t], p, t, v[t])
        BY <1>8, <4>2
      <4> QED
        BY <4>1, <4>3
    <3>3. WayOK(side[a][b], side[b][a], channel[a][b], crossGatewaySubscriptions[b][a],
                registeredHandlers[b][a], w)
      BY <2>1 DEF Way
    <3> HIDE DEF w, v
    <3>4. WayOK(side[a][b], side[b][a], channel'[a][b], crossGatewaySubscriptions[b][a],
                registeredHandlers[b][a], v)
      <4>1. CASE side[a][b] = "associated"
        <5>1. WayOK(side[a][b], side[b][a],
                    IF side[b][a] = "closed" THEN channel[a][b] ELSE channel[a][b] \o p,
                    crossGatewaySubscriptions[b][a], registeredHandlers[b][a], v)
          BY <1>7, <2>2, <3>2, <3>3, <4>1, WaySends
        <5> QED
          BY <3>1, <4>1, <5>1
      <4>2. CASE side[a][b] # "associated"
        BY <2>2, <3>1, <3>3, <4>2, WayIdles
      <4> QED
        BY <4>1, <4>2
    <3> QED
      BY <3>1, <3>4 DEF Way, v
  <2> QED
    BY <2>3, <2>4, <2>5
<1> QED
  BY <1>14, <1>15, <1>16 DEF NetworkInv
-----------------------------------------------------------------------------
(* Messages arrive. *)

(* What Receive does to every channel. *)
Taken(g, n, i, to, msgs) ==
    /\ side[g][n] # "closed"
    /\ channel' \in [Gateways -> [Gateways -> Seq(Messages)]]
    /\ channel'[n][g] = Without(channel[n][g], i)
    /\ \A b \in Gateways : channel'[g][b] = IF b \in to /\ side[b][g] # "closed"
                                           THEN channel[g][b] \o msgs ELSE channel[g][b]
    /\ \A a, b \in Gateways : a # g /\ ~(a = n /\ b = g) => channel'[a][b] = channel[a][b]

LEMMA TakenAndSent ==
    ASSUME NetworkInv, NEW g \in Gateways, NEW n \in Neighbours(g),
           NEW i \in Arrivals(channel[n][g]), NEW to, NEW msgs \in Seq(Messages),
           Receive(g, n, i, to, msgs)
    PROVE  Taken(g, n, i, to, msgs)
<1> DEFINE rest == [channel EXCEPT ![n][g] = Without(channel[n][g], i)]
<1>1. n \in Gateways /\ n # g
  BY NeighbourTypes
<1>2. Grid(channel, Seq(Messages))
  BY DEF NetworkInv, LinkTypes, Grid
<1>3. Without(channel[n][g], i) \in Seq(Messages)
  <2>1. channel[n][g] \in Seq(Messages) /\ i \in DOMAIN channel[n][g]
    BY <1>1, <1>2 DEF Grid, Arrivals
  <2> QED
    BY <2>1, WithoutEffect
<1>4. OneChanged(channel, rest, n, g, Without(channel[n][g], i))
  BY DEF OneChanged
<1>5. side[g][n] # "closed" /\ channel' = Sent(rest, g, to, msgs)
  BY <1>1, <1>2 DEF Receive, Without, Grid
<1> HIDE DEF rest
<1>6. Grid(rest, Seq(Messages)) /\ Differs(channel, rest, n, g, Without(channel[n][g], i))
  BY <1>1, <1>2, <1>3, <1>4, OneEntry
<1>7. rest \in [Gateways -> [Gateways -> Seq(Messages)]]
  BY <1>6 DEF Grid
<1>8. channel' \in [Gateways -> [Gateways -> Seq(Messages)]]
  BY <1>5, <1>7, SentType
<1>9. \A a, b \in Gateways :
        channel'[a][b] = IF a = g /\ b \in to /\ side[b][g] # "closed"
                         THEN rest[a][b] \o msgs ELSE rest[a][b]
  BY <1>5, <1>7 DEF Sent
<1>10. \A a, b \in Gateways : rest[a][b] = IF a = n /\ b = g THEN Without(channel[n][g], i)
                                                            ELSE channel[a][b]
  BY <1>6 DEF Differs
<1> QED
  BY <1>1, <1>5, <1>8, <1>9, <1>10 DEF Taken

LEMMA AssociateSteps ==
    ASSUME NetworkInv, NEW g \in Gateways, NEW n \in Neighbours(g),
           NEW i \in Arrivals(channel[n][g]), ReceiveAssociate(g, n, i)
    PROVE  NetworkInv'
<1> DEFINE w == WantsOf(pushHandlers[g], crossGatewaySubscriptions[g], n)
           p == Burst("Register", w)
<1>1. LinkTypes /\ TableTypes /\ Way(n, g) /\ Way(g, n)
  BY NeighbourTypes DEF NetworkInv
<1>2. n \in Gateways /\ n # g
  BY NeighbourTypes
<1>3. /\ channel[n][g][i] = AssociateMsg
      /\ Receive(g, n, i, {n}, p)
      /\ side' = [side EXCEPT ![g][n] = "associated"]
      /\ UNCHANGED <<tables, data, bounds>>
  BY DEF ReceiveAssociate, Wants, WantsOf
<1>4. p \in Seq(Messages)
  <2>1. w \in [Types -> Nat]
    <3>1. pushHandlers[g] \in Row /\ crossGatewaySubscriptions[g] \in [Gateways -> Row]
      BY <1>1, PushRow
    <3> QED
      BY <3>1, WantsType DEF Row
  <2>2. \A t \in Types : [type |-> "Register", mime |-> t] \in Messages
    BY MessagesOfKinds DEF Register
  <2> HIDE DEF w
  <2> QED
    BY <2>1, <2>2, BurstEffect
<1> HIDE DEF p
<1>5. /\ side[g][n] # "closed"
      /\ channel' \in [Gateways -> [Gateways -> Seq(Messages)]]
      /\ channel'[n][g] = Without(channel[n][g], i)
      /\ \A b \in Gateways : channel'[g][b] = IF b \in {n} /\ side[b][g] # "closed"
                                             THEN channel[g][b] \o p ELSE channel[g][b]
      /\ \A a, b \in Gateways : a # g /\ ~(a = n /\ b = g) => channel'[a][b] = channel[a][b]
  <2>1. Taken(g, n, i, {n}, p)
    BY <1>3, <1>4, TakenAndSent
  <2> QED
    BY <2>1 DEF Taken
<1>6. /\ side' \in [Gateways -> [Gateways -> Ends]]
      /\ \A a, b \in Gateways : side'[a][b] = IF a = g /\ b = n THEN "associated" ELSE side[a][b]
  <2>1. Grid(side, Ends) /\ "associated" \in Ends /\ OneChanged(side, side', g, n, "associated")
    BY <1>1, <1>3 DEF LinkTypes, Ends, Grid, OneChanged
  <2>2. Grid(side', Ends) /\ Differs(side, side', g, n, "associated")
    BY <1>2, <2>1, OneEntry
  <2> QED
    BY <2>2 DEF Grid, Differs
<1>7. LinkTypes'
  <2>1. ASSUME NEW a \in Gateways, NEW b \in Gateways, side'[a][b] # "closed"
        PROVE  b \in Neighbours(a)
    BY <1>1, <1>6, <2>1 DEF LinkTypes
  <2> QED
    BY <1>5, <1>6, <2>1 DEF LinkTypes, Neighbours
<1>8. TableTypes'
  BY <1>1, <1>3 DEF TableTypes, tables, data, bounds
<1>9. /\ side[g][n] = "open"
      /\ WayOK(side[n][g], "associated", Without(channel[n][g], i),
               crossGatewaySubscriptions[g][n], registeredHandlers[g][n],
               WantsOf(pushHandlers[n], crossGatewaySubscriptions[n], g))
  <2> DEFINE q == channel[n][g]
             c == crossGatewaySubscriptions[g][n]
             r == registeredHandlers[g][n]
             u == WantsOf(pushHandlers[n], crossGatewaySubscriptions[n], g)
  <2>1. WayOK(side[n][g], side[g][n], q, c, r, u)
    BY <1>1 DEF Way
  <2>2. i \in Arrivals(q) /\ q[i] = AssociateMsg
    BY <1>3
  <2> HIDE DEF q, c, r, u
  <2>3. c \in Row /\ r \in Row /\ \A t \in Types : c[t] <= r[t]
    BY <2>1 DEF WayOK
  <2>4. side[n][g] = "closed" => r = c
    BY <1>5, <2>1 DEF WayOK
  <2>5. \A t \in Types : c[t] = Applied(c[t], q[i], t)
    BY <2>2, MessageKinds DEF Applied
  <2>6. side[g][n] = "open" /\ WayOK(side[n][g], "associated", Without(q, i), c, r, u)
    BY <1>5, <2>1, <2>2, <2>3, <2>4, <2>5, WayArrives
  <2> QED
    BY <2>6 DEF q, c, r, u
<1>10. WayOK("associated", side[n][g], channel'[g][n], crossGatewaySubscriptions[n][g],
             registeredHandlers[n][g], w)
  <2>1. WayOK("open", side[n][g], channel[g][n], crossGatewaySubscriptions[n][g],
              registeredHandlers[n][g], w)
    BY <1>1, <1>9 DEF Way
  <2>2. WayOK("associated", side[n][g],
              IF side[n][g] = "closed" THEN channel[g][n] ELSE channel[g][n] \o p,
              crossGatewaySubscriptions[n][g], registeredHandlers[n][g], w)
    BY <2>1, WayAssociates DEF p
  <2>3. channel'[g][n] = IF side[n][g] = "closed" THEN channel[g][n] ELSE channel[g][n] \o p
    BY <1>2, <1>5
  <2> QED
    BY <2>2, <2>3
<1>11. ASSUME NEW a \in Gateways, NEW b \in Gateways
       PROVE  Way(a, b)'
  <2>1. Way(a, b)
    BY DEF NetworkInv
  <2>2. /\ pushHandlers' = pushHandlers /\ registeredHandlers' = registeredHandlers
        /\ crossGatewaySubscriptions' = crossGatewaySubscriptions
    BY <1>3 DEF tables
  <2>3. CASE a = n /\ b = g
    <3>1. /\ side'[a][b] = side[n][g] /\ side'[b][a] = "associated"
          /\ channel'[a][b] = Without(channel[n][g], i)
      BY <1>2, <1>5, <1>6, <2>3
    <3> QED
      BY <1>9, <2>2, <2>3, <3>1 DEF Way
  <2>4. CASE a = g /\ b = n
    <3>1. side'[a][b] = "associated" /\ side'[b][a] = side[n][g]
      BY <1>2, <1>6, <2>4
    <3> QED
      BY <1>10, <2>2, <2>4, <3>1 DEF Way
  <2>5. CASE ~(a = n /\ b = g) /\ ~(a = g /\ b = n)
    <3>1. /\ side'[a][b] = side[a][b] /\ side'[b][a] = side[b][a]
          /\ channel'[a][b] = channel[a][b]
      BY <1>5, <1>6, <2>5
    <3> QED
      BY <2>1, <2>2, <3>1 DEF Way
  <2> QED
    BY <2>3, <2>4, <2>5
<1> QED
  BY <1>7, <1>8, <1>11 DEF NetworkInv

LEMMA PushArrives ==
    ASSUME NetworkInv, NEW g \in Gateways, NEW n \in Neighbours(g),
           NEW i \in Arrivals(channel[n][g]), ReceivePush(g, n, i)
    PROVE  NetworkInv'
<1> DEFINE m == channel[n][g][i]
           to == NextHops(g, n, m.mime)
<1>1. LinkTypes /\ TableTypes /\ Way(n, g)
  BY NeighbourTypes DEF NetworkInv
<1>2. n \in Gateways /\ n # g
  BY NeighbourTypes
<1>3. /\ m.type = "Push" /\ Receive(g, n, i, to, <<m>>)
      /\ UNCHANGED <<tables, side, pushed, bounds>>
  BY DEF ReceivePush
<1>4. m \in Messages /\ <<m>> \in Seq(Messages)
  <2>1. channel[n][g] \in Seq(Messages) /\ i \in DOMAIN channel[n][g]
    BY <1>1, <1>2 DEF LinkTypes, Arrivals
  <2> QED
    BY <2>1
<1>5. m.data \in Pushes /\ m.mime \in Types /\ m = PushMsg(m.data, m.mime) /\ m # AssociateMsg
  BY <1>3, <1>4, MessageCases
<1>6. TableTypes'
  <2>1. /\ delivered' \in [Pushes -> [Gateways -> Nat]]
        /\ owed' \in [Pushes -> SUBSET Gateways]
    <3>1. CASE g \in Subscribers(pushHandlers, m.mime)
      <4>1. /\ delivered' = [delivered EXCEPT ![m.data][g] = @ + 1]
            /\ owed' = [owed EXCEPT ![m.data] = @ \ {g}]
        BY <3>1 DEF ReceivePush
      <4>2. delivered[m.data][g] + 1 \in Nat
        BY <1>1, <1>5 DEF TableTypes
      <4> HIDE DEF m
      <4>3. delivered' \in [Pushes -> [Gateways -> Nat]]
        BY <1>1, <1>5, <4>1, <4>2 DEF TableTypes
      <4>4. owed' \in [Pushes -> SUBSET Gateways]
        BY <1>1, <1>5, <4>1 DEF TableTypes
      <4> QED
        BY <4>3, <4>4
    <3>2. CASE g \notin Subscribers(pushHandlers, m.mime)
      BY <1>1, <3>2 DEF ReceivePush, TableTypes
    <3> QED
      BY <3>1, <3>2
  <2> QED
    BY <1>1, <1>3, <2>1 DEF TableTypes, tables, bounds
<1> HIDE DEF to, m
<1>7. /\ side[g][n] # "closed"
      /\ channel' \in [Gateways -> [Gateways -> Seq(Messages)]]
      /\ channel'[n][g] = Without(channel[n][g], i)
      /\ \A b \in Gateways : channel'[g][b] = IF b \in to /\ side[b][g] # "closed"
                                             THEN channel[g][b] \o <<m>> ELSE channel[g][b]
      /\ \A a, b \in Gateways : a # g /\ ~(a = n /\ b = g) => channel'[a][b] = channel[a][b]
  <2>1. Taken(g, n, i, to, <<m>>)
    BY <1>3, <1>4, TakenAndSent
  <2> QED
    BY <2>1 DEF Taken
<1>8. LinkTypes'
  BY <1>1, <1>3, <1>7 DEF LinkTypes, Neighbours
<1>9. ASSUME NEW a \in Gateways, NEW b \in Gateways
      PROVE  Way(a, b)'
  <2>1. Way(a, b)
    BY DEF NetworkInv
  <2>2. CASE a = n /\ b = g
    <3> DEFINE q == channel[n][g]
               c == crossGatewaySubscriptions[g][n]
               r == registeredHandlers[g][n]
               u == WantsOf(pushHandlers[n], crossGatewaySubscriptions[n], g)
    <3>1. WayOK(side[n][g], side[g][n], q, c, r, u)
      BY <1>1 DEF Way
    <3>2. i \in Arrivals(q) /\ q[i] = m
      BY DEF m
    <3> HIDE DEF q, c, r, u
    <3>3. c \in Row /\ r \in Row /\ \A t \in Types : c[t] <= r[t]
      BY <3>1 DEF WayOK
    <3>4. side[n][g] = "closed" => r = c
      BY <1>7, <3>1 DEF WayOK
    <3>5. \A t \in Types : c[t] = Applied(c[t], q[i], t)
      BY <1>3, <3>2, MessageKinds DEF Applied
    <3>6. /\ side[g][n] # "open"
          /\ WayOK(side[n][g], "associated", Without(q, i), c, r, u)
      BY SMTT(40), <1>5, <1>7, <3>1, <3>2, <3>3, <3>4, <3>5, WayArrives
    <3>7. side[g][n] = "associated"
      BY <1>7, <3>1, <3>6 DEF WayOK, Ends
    <3> QED
      BY <1>3, <1>7, <2>2, <3>6, <3>7 DEF Way, q, c, r, u, tables
  <2>3. CASE a = g
    <3>1. channel'[a][b] = IF b \in to /\ side[b][g] # "closed"
                           THEN channel[a][b] \o <<PushMsg(m.data, m.mime)>> ELSE channel[a][b]
      BY <1>5, <1>7, <2>3
    <3> QED
      BY <1>3, <1>5, <2>1, <2>3, <3>1, WayPushes DEF Way, tables
  <2>4. CASE a # g /\ ~(a = n /\ b = g)
    BY <1>3, <1>7, <2>1, <2>4 DEF Way, tables
  <2> QED
    BY <2>2, <2>3, <2>4
<1> QED
  BY <1>6, <1>8, <1>9 DEF NetworkInv

(* A change of a neighbour's wants is counted and passed on. *)
LEMMA CountedSteps ==
    ASSUME NetworkInv, NEW g \in Gateways, NEW n \in Neighbours(g),
           NEW i \in Arrivals(channel[n][g]),
           ReceiveRegister(g, n, i) \/ ReceiveUnregister(g, n, i)
    PROVE  NetworkInv'
<1> DEFINE m == channel[n][g][i]
           to == Handled(g) \ {n}
           q == channel[n][g]
           c == crossGatewaySubscriptions[g][n]
           r == registeredHandlers[g][n]
           u == WantsOf(pushHandlers[n], crossGatewaySubscriptions[n], g)
<1>1. LinkTypes /\ TableTypes /\ Way(n, g)
  BY NeighbourTypes DEF NetworkInv
<1>2. n \in Gateways /\ n # g
  BY NeighbourTypes
<1>3. /\ Receive(g, n, i, to, <<m>>)
      /\ UNCHANGED <<pushHandlers, side, data, bounds>>
  BY DEF ReceiveRegister, ReceiveUnregister
<1>4. m \in Messages /\ <<m>> \in Seq(Messages)
  <2>1. channel[n][g] \in Seq(Messages) /\ i \in DOMAIN channel[n][g]
    BY <1>1, <1>2 DEF LinkTypes, Arrivals
  <2> QED
    BY <2>1
<1>5. WayOK(side[n][g], side[g][n], q, c, r, u)
  BY <1>1 DEF Way
<1>6. i \in Arrivals(q) /\ q[i] = m
  OBVIOUS
<1>7. /\ c \in Row /\ r \in Row /\ c \in [Types -> Nat] /\ r \in [Types -> Nat]
      /\ crossGatewaySubscriptions[g] \in [Gateways -> Row]
      /\ registeredHandlers[g] \in [Gateways -> Row]
  BY <1>1, <1>2 DEF TableTypes, Row
<1>8. \A t \in Types : c[t] <= r[t]
  BY <1>5 DEF WayOK
<1> HIDE DEF m, to, q
<1>9. /\ side[g][n] # "closed"
      /\ channel' \in [Gateways -> [Gateways -> Seq(Messages)]]
      /\ channel'[n][g] = Without(channel[n][g], i)
      /\ \A b \in Gateways : channel'[g][b] = IF b \in to /\ side[b][g] # "closed"
                                             THEN channel[g][b] \o <<m>> ELSE channel[g][b]
      /\ \A a, b \in Gateways : a # g /\ ~(a = n /\ b = g) => channel'[a][b] = channel[a][b]
  <2>1. Taken(g, n, i, to, <<m>>)
    BY <1>3, <1>4, TakenAndSent
  <2> QED
    BY <2>1 DEF Taken
<1>10. /\ m = AssociateMsg <=> side[g][n] = "open"
       /\ \A t \in Types : m = Unregister(t) => c[t] > 0
       /\ \A d2, e2 \in Row :
            /\ \A t \in Types : d2[t] = Applied(c[t], m, t) /\ d2[t] <= e2[t]
            /\ side[n][g] = "closed" => e2 = d2
            => WayOK(side[n][g], "associated", Without(q, i), d2, e2, u)
  <2> HIDE DEF c, r, u
  <2> QED
    BY <1>5, <1>6, <1>9, WayArrives
<1>11. PICK t \in Types :
         /\ m = Register(t) \/ m = Unregister(t)
         /\ Applied(c[t], m, t) \in Nat
         /\ crossGatewaySubscriptions' =
              [crossGatewaySubscriptions EXCEPT
                 ![g][n] = [c EXCEPT ![t] = Applied(c[t], m, t)]]
         /\ registeredHandlers' =
              [registeredHandlers EXCEPT
                 ![g][n] = IF m = Register(t) THEN [r EXCEPT ![t] = r[t] + 1] ELSE r]
  <2>1. CASE ReceiveRegister(g, n, i)
    <3>1. m.type = "Register" /\ m.mime \in Types /\ m = Register(m.mime)
      BY <1>4, <2>1, MessageCases DEF ReceiveRegister, m
    <3>2. PICK t \in Types : t = m.mime
      BY <3>1
    <3>3. m = Register(t) /\ Applied(c[t], m, t) = c[t] + 1 /\ c[t] + 1 \in Nat
      BY <1>7, <3>1, <3>2 DEF Applied
    <3>4. /\ crossGatewaySubscriptions' =
               [crossGatewaySubscriptions EXCEPT ![g] = Insert(@, n, t)]
          /\ registeredHandlers' = [registeredHandlers EXCEPT ![g] = Insert(@, n, t)]
      BY <2>1, <3>2 DEF ReceiveRegister, m
    <3>5. /\ crossGatewaySubscriptions' =
               [crossGatewaySubscriptions EXCEPT ![g][n] = [c EXCEPT ![t] = c[t] + 1]]
          /\ registeredHandlers' =
               [registeredHandlers EXCEPT ![g][n] = [r EXCEPT ![t] = r[t] + 1]]
      BY <1>1, <1>2, <1>7, <3>4 DEF Insert, TableTypes
    <3> QED
      BY <3>3, <3>5
  <2>2. CASE ReceiveUnregister(g, n, i)
    <3>1. m.type = "Unregister" /\ m.mime \in Types /\ m = Unregister(m.mime)
      BY <1>4, <2>2, MessageCases DEF ReceiveUnregister, m
    <3>2. PICK t \in Types : t = m.mime
      BY <3>1
    <3>3. c[t] \in Nat /\ c[t] > 0
      BY <1>7, <1>10, <3>1, <3>2
    <3>4. m = Unregister(t) /\ m # Register(t)
      BY <3>1, <3>2, MessageKinds
    <3>5. Less(c[t], 1) = c[t] - 1 /\ Applied(c[t], m, t) = c[t] - 1 /\ c[t] - 1 \in Nat
      BY <3>3, <3>4 DEF Less, Applied
    <3>6. /\ crossGatewaySubscriptions' =
               [crossGatewaySubscriptions EXCEPT ![g] = EraseOne(@, n, t)]
          /\ registeredHandlers' = registeredHandlers
      BY <2>2, <3>2 DEF ReceiveUnregister, m
    <3>7. crossGatewaySubscriptions' =
            [crossGatewaySubscriptions EXCEPT ![g][n] = [c EXCEPT ![t] = Less(c[t], 1)]]
      BY <1>1, <1>2, <1>7, <3>6 DEF EraseOne, TableTypes
    <3>8. registeredHandlers' = [registeredHandlers EXCEPT ![g][n] = r]
      BY <1>1, <1>2, <3>6 DEF TableTypes
    <3> QED
      BY <3>4, <3>5, <3>7, <3>8
  <2> QED
    BY <2>1, <2>2
<1> DEFINE c2 == [c EXCEPT ![t] = Applied(c[t], m, t)]
           r2 == IF m = Register(t) THEN [r EXCEPT ![t] = r[t] + 1] ELSE r
<1>12. /\ crossGatewaySubscriptions' = [crossGatewaySubscriptions EXCEPT ![g][n] = c2]
       /\ registeredHandlers' = [registeredHandlers EXCEPT ![g][n] = r2]
  BY <1>11
<1>13. /\ r2 \in Row
       /\ r2 = IF m = Register(t) THEN [r EXCEPT ![t] = r[t] + 1] ELSE r
  <2> HIDE DEF r
  <2>1. r[t] + 1 \in Nat
    BY <1>7
  <2> QED
    BY <1>7, <2>1 DEF Row
<1>14. c2 \in Row /\ \A x \in Types : c2[x] = Applied(c[x], m, x)
  <2>1. c2 \in Row
    BY <1>7, <1>11 DEF Row
  <2>2. ASSUME NEW x \in Types
        PROVE  c2[x] = Applied(c[x], m, x)
    <3>1. CASE x = t
      BY <1>7, <3>1
    <3>2. CASE x # t
      <4>1. m # Register(x) /\ m # Unregister(x)
        BY <1>11, <3>2, MessageKinds
      <4>2. c2[x] = c[x]
        BY <1>7, <3>2
      <4> HIDE DEF c, c2
      <4> QED
        BY <4>1, <4>2 DEF Applied
    <3> QED
      BY <3>1, <3>2
  <2> QED
    BY <2>1, <2>2
<1> HIDE DEF c, c2, r, r2
<1>15. \A x \in Types : c2[x] <= r2[x]
  <2> SUFFICES ASSUME NEW x \in Types PROVE c2[x] <= r2[x]
    OBVIOUS
  <2>1. c[x] \in Nat /\ r[x] \in Nat /\ c[x] <= r[x]
    BY <1>7, <1>8
  <2>2. CASE m = Register(t)
    <3>1. \A y : m # Unregister(y)
      BY <2>2, MessageKinds
    <3>2. CASE x = t
      BY <1>7, <1>13, <1>14, <2>1, <2>2, <3>2 DEF Applied
    <3>3. CASE x # t
      <4>1. m # Register(x)
        BY <2>2, <3>3, MessageKinds
      <4> QED
        BY <1>7, <1>13, <1>14, <2>1, <2>2, <3>1, <3>3, <4>1 DEF Applied
    <3> QED
      BY <3>2, <3>3
  <2>3. CASE m # Register(t)
    <3>1. m # Register(x) /\ r2 = r
      BY <1>11, <1>13, <2>3, MessageKinds
    <3> QED
      BY <1>14, <2>1, <3>1 DEF Applied
  <2> QED
    BY <2>2, <2>3
<1>16. side[n][g] = "closed" => r2 = c2
  <2> SUFFICES ASSUME side[n][g] = "closed" PROVE r2 = c2
    OBVIOUS
  <2>1. r = c /\ \A x \in Types : m # Unregister(x)
    BY <1>5, <1>6, <1>9 DEF WayOK, Arrivals
  <2>2. m = Register(t)
    BY <1>11, <2>1
  <2>3. Applied(c[t], m, t) = r[t] + 1
    BY <2>1, <2>2 DEF Applied
  <2> QED
    BY <1>13, <2>1, <2>2, <2>3 DEF c2
<1>17. m # AssociateMsg /\ side[g][n] = "associated"
  <2>1. m # AssociateMsg
    BY <1>11, MessageKinds
  <2> QED
    BY <1>1, <1>2, <1>9, <1>10, <2>1 DEF LinkTypes, Ends
<1>18. WayOK(side[n][g], "associated", Without(q, i), c2, r2, u)
  BY <1>10, <1>13, <1>14, <1>15, <1>16
<1>19. /\ crossGatewaySubscriptions' \in [Gateways -> [Gateways -> Row]]
       /\ \A a, b \in Gateways : crossGatewaySubscriptions'[a][b] =
            IF a = g /\ b = n THEN c2 ELSE crossGatewaySubscriptions[a][b]
       /\ registeredHandlers' \in [Gateways -> [Gateways -> Row]]
       /\ \A a, b \in Gateways : registeredHandlers'[a][b] =
            IF a = g /\ b = n THEN r2 ELSE registeredHandlers[a][b]
  <2>1. Grid(crossGatewaySubscriptions, Row) /\ Grid(registeredHandlers, Row)
    BY <1>1 DEF TableTypes, Grid
  <2>2. /\ OneChanged(crossGatewaySubscriptions, crossGatewaySubscriptions', g, n, c2)
        /\ OneChanged(registeredHandlers, registeredHandlers', g, n, r2)
    BY <1>12 DEF OneChanged
  <2>3. /\ Grid(crossGatewaySubscriptions', Row)
        /\ Differs(crossGatewaySubscriptions, crossGatewaySubscriptions', g, n, c2)
    BY <1>2, <1>14, <2>1, <2>2, OneEntry
  <2>4. /\ Grid(registeredHandlers', Row)
        /\ Differs(registeredHandlers, registeredHandlers', g, n, r2)
    BY <1>2, <1>13, <2>1, <2>2, OneEntry
  <2> QED
    BY <2>3, <2>4 DEF Grid, Differs
<1>20. LinkTypes'
  BY <1>1, <1>3, <1>9 DEF LinkTypes, Neighbours
<1>21. TableTypes'
  BY <1>1, <1>3, <1>19 DEF TableTypes, data, bounds
<1>22. ASSUME NEW a \in Gateways, NEW b \in Gateways
       PROVE  Way(a, b)'
  <2>1. Way(a, b)
    BY DEF NetworkInv
  <2> DEFINE w == WantsOf(pushHandlers[a], crossGatewaySubscriptions[a], b)
             v == WantsOf(pushHandlers'[a], crossGatewaySubscriptions'[a], b)
  <2>2. pushHandlers' = pushHandlers /\ side' = side
    BY <1>3
  <2>3. CASE a # g
    <3>1. v = w
      <4>1. crossGatewaySubscriptions'[a] = crossGatewaySubscriptions[a]
        BY <1>12, <1>1, <2>3 DEF TableTypes
      <4> QED
        BY <2>2, <4>1
    <3> HIDE DEF w, v
    <3>2. CASE a = n /\ b = g
      <4>1. w = u
        BY <3>2 DEF w, u
      <4>2. /\ crossGatewaySubscriptions'[b][a] = c2 /\ registeredHandlers'[b][a] = r2
            /\ channel'[a][b] = Without(q, i)
        BY <1>2, <1>9, <1>19, <3>2 DEF q
      <4> QED
        BY <1>17, <1>18, <2>2, <3>1, <3>2, <4>1, <4>2 DEF Way, v
    <3>3. CASE ~(a = n /\ b = g)
      <4>1. /\ crossGatewaySubscriptions'[b][a] = crossGatewaySubscriptions[b][a]
            /\ registeredHandlers'[b][a] = registeredHandlers[b][a]
            /\ channel'[a][b] = channel[a][b]
        BY <1>9, <1>19, <2>3, <3>3
      <4> QED
        BY <2>1, <2>2, <3>1, <4>1 DEF Way, w, v
    <3> QED
      BY <3>2, <3>3
  <2>4. CASE a = g
    <3>1. /\ crossGatewaySubscriptions'[b][a] = crossGatewaySubscriptions[b][a]
          /\ registeredHandlers'[b][a] = registeredHandlers[b][a]
      BY <1>2, <1>19, <2>4
    <3>2. /\ pushHandlers[g] \in Row /\ crossGatewaySubscriptions[g] \in [Gateways -> Row]
          /\ crossGatewaySubscriptions'[g] \in [Gateways -> Row]
          /\ crossGatewaySubscriptions'[g][n] = c2
          /\ \A x \in Gateways \ {n} :
               crossGatewaySubscriptions'[g][x] = crossGatewaySubscriptions[g][x]
      BY <1>1, <1>2, <1>19, PushRow
    <3>3. w \in Row /\ v \in Row
      BY <2>2, <2>4, <3>2, WantsType
    <3>4. \A x \in Types : IF b = n THEN v[x] = w[x] ELSE v[x] + c[x] = w[x] + c2[x]
      BY <1>2, <2>2, <2>4, <3>2, WantsCounted DEF c
    <3> HIDE DEF w, v
    <3>5. CASE b = n
      <4>1. v = w
        BY <3>3, <3>4, <3>5 DEF Row
      <4>2. channel'[a][b] = channel[a][b]
        BY <1>9, <2>4, <3>5 DEF to
      <4> QED
        BY <2>1, <2>2, <3>1, <4>1, <4>2 DEF Way, w, v
    <3>6. CASE b # n
      <4>1. channel'[a][b] = IF side[a][b] = "associated" /\ side[b][a] # "closed"
                             THEN channel[a][b] \o <<m>> ELSE channel[a][b]
        BY <1>9, <2>4, <3>6 DEF to, Handled
      <4>2. ASSUME NEW x \in Types
            PROVE  v[x] = Applied(w[x], m, x)
        <5>1. v[x] \in Nat /\ w[x] \in Nat /\ c[x] \in Nat /\ c2[x] \in Nat
          BY <1>7, <1>14, <3>3 DEF Row
        <5>2. v[x] + c[x] = w[x] + c2[x] /\ c2[x] = Applied(c[x], m, x)
          BY <1>14, <3>4, <3>6
        <5> QED
          BY <5>1, <5>2 DEF Applied
      <4>3. WayOK(side[a][b], side[b][a], channel[a][b], crossGatewaySubscriptions[b][a],
                  registeredHandlers[b][a], w)
        BY <2>1 DEF Way, w
      <4>4. WayOK(side[a][b], side[b][a], channel'[a][b], crossGatewaySubscriptions[b][a],
                  registeredHandlers[b][a], v)
        BY <1>4, <1>17, <3>3, <4>1, <4>2, <4>3, WayTold
      <4> QED
        BY <2>2, <3>1, <4>4 DEF Way, v
    <3> QED
      BY <3>5, <3>6
  <2> QED
    BY <2>3, <2>4
<1> QED
  BY <1>20, <1>21, <1>22 DEF NetworkInv
-----------------------------------------------------------------------------
(* The specification. *)

LEMMA NetworkInitially == Init => NetworkInv
<1> SUFFICES ASSUME Init PROVE NetworkInv
  OBVIOUS
<1>1. /\ side = [g \in Gateways |-> [n \in Gateways |-> "closed"]]
      /\ channel = [g \in Gateways |-> [n \in Gateways |-> << >>]]
  BY DEF Init, LinksInit
<1>2. LinkTypes
  <2>1. << >> \in Seq(Messages) /\ "closed" \in Ends
    BY DEF Ends
  <2> QED
    BY <1>1, <2>1 DEF LinkTypes
<1>3. TableTypes
  <2>1. pushHandlers \in [Gateways -> [Types -> 0..MaxSubs]]
    BY NetworkAssumption DEF Init, EmptyRow
  <2>2. /\ crossGatewaySubscriptions \in [Gateways -> [Gateways -> Row]]
        /\ registeredHandlers \in [Gateways -> [Gateways -> Row]]
    BY EmptyRowType DEF Init
  <2>3. delivered \in [Pushes -> [Gateways -> Nat]] /\ owed \in [Pushes -> SUBSET Gateways]
    BY DEF Init
  <2>4. pushed \subseteq Pushes /\ changes \in 0..MaxChanges /\ breaks \in 0..MaxBreaks
    BY NetworkAssumption DEF Init
  <2> QED
    BY <2>1, <2>2, <2>3, <2>4 DEF TableTypes
<1>4. ASSUME NEW a \in Gateways, NEW b \in Gateways
      PROVE  Way(a, b)
  <2> DEFINE w == WantsOf(pushHandlers[a], crossGatewaySubscriptions[a], b)
  <2>1. w \in Row
    BY <1>3, PushRow, WantsType
  <2>2. /\ side[a][b] = "closed" /\ side[b][a] = "closed" /\ channel[a][b] = << >>
        /\ crossGatewaySubscriptions[b][a] = EmptyRow /\ registeredHandlers[b][a] = EmptyRow
    BY <1>1 DEF Init
  <2> HIDE DEF w
  <2>3. WayOK("closed", "closed", << >>, EmptyRow, EmptyRow, w)
    BY <2>1, WayCloses DEF Ends
  <2> QED
    BY <2>2, <2>3 DEF Way, w
<1> QED
  BY <1>2, <1>3, <1>4 DEF NetworkInv

LEMMA NetworkStep == NetworkInv /\ [Next]_vars => NetworkInv'
<1> SUFFICES ASSUME NetworkInv, [Next]_vars PROVE NetworkInv'
  OBVIOUS
<1>1. CASE \E g \in Gateways, t \in Types : Subscribe(g, t) \/ Unsubscribe(g, t)
  BY <1>1, SubscriptionSteps
<1>2. CASE \E g \in Gateways, t \in Types, d \in Pushes : Push(g, d, t)
  BY <1>2, PushSteps
<1>3. CASE \E g \in DOMAIN Parent : Connect(g)
  BY <1>3, ConnectSteps
<1>4. CASE \E g \in Gateways : \E n \in Neighbours(g) : Close(g, n)
  BY <1>4, CloseSteps
<1>5. CASE \E g \in Gateways : \E n \in Neighbours(g) : ReceiveSome(g, n)
  <2>1. PICK g \in Gateways : \E n \in Neighbours(g) : ReceiveSome(g, n)
    BY <1>5
  <2>2. PICK n \in Neighbours(g) : ReceiveSome(g, n)
    BY <2>1
  <2>3. PICK i \in Arrivals(channel[n][g]) :
          \/ ReceiveAssociate(g, n, i) \/ ReceiveRegister(g, n, i)
          \/ ReceiveUnregister(g, n, i) \/ ReceivePush(g, n, i)
    BY <2>2 DEF ReceiveSome
  <2> QED
    BY <2>3, AssociateSteps, CountedSteps, PushArrives
<1>6. CASE UNCHANGED vars
  <2>1. UNCHANGED <<tables, side, channel, pushed, delivered, owed, changes, breaks>>
    BY <1>6 DEF vars, links, data, bounds
  <2>2. LinkTypes'
    BY <2>1 DEF NetworkInv, LinkTypes, Neighbours
  <2>3. TableTypes'
    BY <2>1 DEF NetworkInv, TableTypes, tables
  <2>4. \A a, b \in Gateways : Way(a, b)'
    BY <2>1 DEF NetworkInv, Way, tables
  <2> QED
    BY <2>2, <2>3, <2>4 DEF NetworkInv
<1> QED
  BY <1>1, <1>2, <1>3, <1>4, <1>5, <1>6 DEF Next

(* A tree of gateways keeps its types: only neighbours are connected, and  *)
(* an end that is closed has no counts left (the destructor of             *)
(* CrossGatewayEventHandler withdraws them).                               *)
THEOREM TreeTypeCorrect == Spec => []TypeOK
<1>1. NetworkInv => TypeOK
  <2> SUFFICES ASSUME NetworkInv PROVE TypeOK
    OBVIOUS
  <2>1. LinkTypes /\ TableTypes
    BY DEF NetworkInv
  <2>2. ASSUME NEW a \in Gateways, NEW b \in Gateways
        PROVE  /\ channel[a][b] # << >> => side[b][a] # "closed"
               /\ side[a][b] = "closed" => crossGatewaySubscriptions[a][b] = EmptyRow
    BY DEF NetworkInv, Way, WayOK
  <2>3. LinksOK
    BY <2>1, <2>2 DEF LinkTypes, LinksOK, Ends
  <2>4. changes <= MaxChanges /\ breaks <= MaxBreaks
    BY <2>1, NetworkAssumption DEF TableTypes
  <2> QED
    BY <2>1, <2>2, <2>3, <2>4 DEF TypeOK, TableTypes
<1> QED
  BY <1>1, NetworkInitially, NetworkStep, PTL DEF Spec

(* The reference counts are right in every tree: a count plus what is on   *)
(* its way is what the neighbour has on behalf of all others, for any      *)
(* number of gateways, types, subscriptions and breaks.                    *)
THEOREM CountsAreRight == Spec => []RefCounts
<1>1. NetworkInv => RefCounts
  <2> SUFFICES ASSUME NetworkInv, NEW g \in Gateways, NEW n \in Handled(g), NEW t \in Types,
                      side[n][g] # "closed"
               PROVE  crossGatewaySubscriptions[n][g][t]
                      + InFlight(g, n, Register(t)) - InFlight(g, n, Unregister(t))
                          = Wants(g, n)[t]
    BY DEF RefCounts
  <2> DEFINE q == channel[g][n]
             c == crossGatewaySubscriptions[n][g][t]
             w == WantsOf(pushHandlers[g], crossGatewaySubscriptions[g], n)[t]
  <2>1. n \in Gateways /\ side[g][n] = "associated" /\ Way(g, n)
    BY DEF Handled, NetworkInv
  <2>2. q \in Seq(Messages) /\ Leads(c, q, t, w)
    BY <2>1 DEF Way, WayOK
  <2> HIDE DEF q, c, w
  <2>3. c + Cardinality({i \in DOMAIN q : q[i] = Register(t)})
          - Cardinality({i \in DOMAIN q : q[i] = Unregister(t)}) = w
    BY <2>2, LeadsByCount
  <2> QED
    BY <2>3 DEF q, c, w, InFlight, Wants, WantsOf
<1> QED
  BY <1>1, NetworkInitially, NetworkStep, PTL DEF Spec

(* A retraction that arrives finds a subscription to erase, whatever was   *)
(* replayed, crossed it or was withdrawn meanwhile: unsubscribe of         *)
(* SubscriptionDataStore, which stops at the end of the range when there   *)
(* is none, never has to, and so never hides that counts have come apart.  *)
RetractionsFindCounts ==
    \A g, n \in Gateways :
        \A i \in Arrivals(channel[n][g]), t \in Types :
            channel[n][g][i] = Unregister(t) =>
                crossGatewaySubscriptions[g][n][t] > 0

(* In every tree a retraction that arrives finds what it retracts: on its  *)
(* way a count never passes below zero (Leads), and neither the replay of  *)
(* an association nor the withdrawal of a closed end disturbs that.        *)
THEOREM NoRetractionIsVoid == Spec => []RetractionsFindCounts
<1>1. NetworkInv => RetractionsFindCounts
  <2> SUFFICES ASSUME NetworkInv, NEW g \in Gateways, NEW n \in Gateways,
                      NEW i \in Arrivals(channel[n][g]), NEW t \in Types,
                      channel[n][g][i] = Unregister(t)
               PROVE  crossGatewaySubscriptions[g][n][t] > 0
    BY DEF RetractionsFindCounts
  <2> DEFINE q == channel[n][g]
             c == crossGatewaySubscriptions[g][n]
             w == WantsOf(pushHandlers[n], crossGatewaySubscriptions[n], g)
  <2>1. WayOK(side[n][g], side[g][n], q, c, registeredHandlers[g][n], w)
    BY DEF NetworkInv, Way
  <2>2. i \in DOMAIN q /\ i \in Arrivals(q) /\ q[i] = Unregister(t)
    BY DEF Arrivals
  <2> HIDE DEF q, c, w
  <2>3. side[g][n] # "closed"
    BY <2>1, <2>2 DEF WayOK
  <2>4. c[t] > 0
    BY <2>1, <2>2, <2>3, WayArrives
  <2> QED
    BY <2>4 DEF c
<1> QED
  BY <1>1, NetworkInitially, NetworkStep, PTL DEF Spec
-----------------------------------------------------------------------------
(* End to end. *)

(* In a settled network a count is what the neighbour wants.               *)
LEMMA SettledCounts ==
    ASSUME NetworkInv, Settled, NEW n \in Gateways, NEW g \in Neighbours(n), NEW t \in Types
    PROVE  crossGatewaySubscriptions[n][g][t]
               = WantsOf(pushHandlers[g], crossGatewaySubscriptions[g], n)[t]
<1> DEFINE q == channel[g][n]
           c == crossGatewaySubscriptions[n][g][t]
           w == WantsOf(pushHandlers[g], crossGatewaySubscriptions[g], n)[t]
<1>1. g \in Gateways /\ n \in Neighbours(g)
  BY NeighbourBehind
<1>2. /\ side[g][n] = "associated" /\ side[n][g] = "associated"
      /\ \A i \in DOMAIN channel[g][n] : ~IsControl(channel[g][n][i])
  BY <1>1 DEF Settled
<1>3. q \in Seq(Messages) /\ Leads(c, q, t, w)
  BY <1>1, <1>2 DEF NetworkInv, Way, WayOK
<1>4. \A i \in DOMAIN q : q[i] # Register(t) /\ q[i] # Unregister(t)
  BY <1>2, MessageKinds DEF IsControl
<1> HIDE DEF q, c, w
<1>5. c = w
  BY <1>3, <1>4, LeadsQuietly
<1> QED
  BY <1>5 DEF c, w

(* One gateway further: if the counts of g for its other neighbours are    *)
(* right, so is the count of n for g.                                      *)
LEMMA CountsAddUp ==
    ASSUME NetworkInv, Settled, NEW n \in Gateways, NEW g \in Neighbours(n), NEW t \in Types,
           NEW push \in [Gateways -> Nat], \A m \in Gateways : push[m] = pushHandlers[m][t],
           \A k \in Neighbours(g) \ {n} :
               crossGatewaySubscriptions[g][k][t] = Total(push, Beyond(g, k))
    PROVE  crossGatewaySubscriptions[n][g][t] = Total(push, Beyond(n, g))
<1> DEFINE K == Neighbours(g) \ {n}
           D == Gateways \ {n}
           part == [k \in K |-> Beyond(g, k)]
           rest == UNION {part[k] : k \in K}
<1>1. /\ g \in Gateways /\ n \in Neighbours(g) /\ IsFiniteSet(Gateways)
      /\ K \subseteq D /\ K \subseteq Gateways
  BY NeighbourBehind, TreeAssumption DEF Neighbours
<1>2. LinkTypes /\ TableTypes
  BY DEF NetworkInv
<1>3. PICK row \in [Gateways -> Nat] :
        \A k \in Gateways : row[k] = crossGatewaySubscriptions[g][k][t]
  <2> DEFINE f == [k \in Gateways |-> crossGatewaySubscriptions[g][k][t]]
  <2>1. f \in [Gateways -> Nat]
    BY <1>1, <1>2 DEF TableTypes, Row
  <2> QED
    BY <2>1
<1> DEFINE sum == [k \in K |-> row[k]]
<1>4. crossGatewaySubscriptions[n][g][t] = push[g] + Total(row, D)
  <2>1. crossGatewaySubscriptions[n][g][t]
            = WantsOf(pushHandlers[g], crossGatewaySubscriptions[g], n)[t]
    BY SettledCounts
  <2>2. [k \in D |-> row[k]] = [k \in D |-> crossGatewaySubscriptions[g][k][t]]
    BY <1>3
  <2>3. push[g] = pushHandlers[g][t]
    BY <1>1
  <2> QED
    BY <2>1, <2>2, <2>3 DEF WantsOf, Total
<1>5. Total(row, D \ K) = 0
  <2>1. ASSUME NEW k \in D \ K
        PROVE  row[k] = 0
    <3>1. k \in Gateways /\ k \notin Neighbours(g)
      BY <2>1
    <3>2. side[g][k] = "closed"
      BY <1>1, <1>2, <3>1 DEF LinkTypes
    <3>3. crossGatewaySubscriptions[g][k] = EmptyRow
      BY <1>1, <3>1, <3>2 DEF NetworkInv, Way, WayOK
    <3> QED
      BY <1>3, <3>1, <3>3, EmptyRowType
  <2> HIDE DEF D, K
  <2> QED
    BY <2>1, TotalOfNone
<1>6. Total(row, D) = Total(row, K)
  <2> DEFINE others == D \ K
  <2>1. /\ K \in SUBSET Gateways /\ others \in SUBSET Gateways /\ K \cap others = {}
        /\ D = K \cup others /\ Total(row, others) = 0 /\ IsFiniteSet(Gateways)
    BY <1>1, <1>5
  <2> HIDE DEF D, K, others
  <2>2. /\ Total(row, K) \in Nat
        /\ Total(row, K \cup others) = Total(row, K) + Total(row, others)
    <3>1. /\ row \in [Gateways -> Nat] /\ IsFiniteSet(Gateways)
          /\ K \in SUBSET Gateways /\ others \in SUBSET Gateways /\ K \cap others = {}
      BY <1>3, <2>1
    <3> QED
      BY ONLY <3>1, TotalUnion
  <2>3. Total(row, D) = Total(row, K \cup others)
    BY <2>1
  <2> QED
    BY <2>1, <2>2, <2>3
<1>7. Total(row, K) = Total(push, rest)
  <2>1. IsFiniteSet(K)
    BY <1>1, FS_Subset
  <2>2. part \in [K -> SUBSET Gateways]
    BY <1>1, BeyondIsClosed
  <2>3. \A j, k \in K : j # k => part[j] \cap part[k] = {}
    BY <1>1, BeyondLinksApart
  <2>4. sum \in [K -> Nat] /\ \A k \in K : sum[k] = Total(push, part[k])
    BY <1>1, <1>3
  <2>5. Total(row, K) = Total(sum, K)
    <3>1. [k \in K |-> sum[k]] = [k \in K |-> row[k]]
      OBVIOUS
    <3> QED
      BY <3>1 DEF Total
  <2> HIDE DEF K, part, sum
  <2>6. Total(sum, K) = Total(push, UNION {part[k] : k \in K})
    BY <1>1, <2>1, <2>2, <2>3, <2>4, TotalOfParts
  <2> QED
    BY <2>5, <2>6
<1>8. Total(push, Beyond(n, g)) = push[g] + Total(push, rest)
  <2>1. Beyond(n, g) = {g} \cup rest /\ rest \subseteq Gateways
    BY BeyondSplits, BeyondIsClosed
  <2>2. g \notin rest
    BY BeyondShrinks
  <2> HIDE DEF rest
  <2>3. {g} \in SUBSET Gateways /\ rest \in SUBSET Gateways /\ {g} \cap rest = {}
    BY <1>1, <2>1, <2>2
  <2>4. Total(push, {g} \cup rest) = Total(push, {g}) + Total(push, rest)
    BY <1>1, <2>3, TotalUnion
  <2> QED
    BY <1>1, <2>1, <2>4, TotalOfOne
<1> QED
  BY <1>4, <1>6, <1>7, <1>8

(* Once the network has settled, every count is the number of              *)
(* subscriptions beyond that link, in a tree of any shape: by induction    *)
(* over the number of gateways beyond it.                                  *)
THEOREM CountsReachAcross == Spec => []CountsAreTotals
<1>1. NetworkInv => CountsAreTotals
  <2> SUFFICES ASSUME NetworkInv, Settled, NEW t \in Types
               PROVE  \A g \in Gateways : \A n \in Neighbours(g) :
                        crossGatewaySubscriptions[g][n][t] =
                          Cardinality(Entries([m \in Beyond(g, n) |-> pushHandlers[m][t]]))
    BY DEF CountsAreTotals
  <2> DEFINE push == [m \in Gateways |-> pushHandlers[m][t]]
             right(n, g) == crossGatewaySubscriptions[n][g][t] = Total(push, Beyond(n, g))
             S == {i \in Nat : \A n \in Gateways : \A g \in Neighbours(n) :
                                 Cardinality(Beyond(n, g)) <= i => right(n, g)}
  <2>1. push \in [Gateways -> Nat]
    BY NetworkAssumption DEF NetworkInv, TableTypes
  <2>2. ASSUME NEW n \in Gateways, NEW g \in Neighbours(n)
        PROVE  /\ IsFiniteSet(Beyond(n, g)) /\ g \in Beyond(n, g)
               /\ Cardinality(Beyond(n, g)) \in Nat /\ Cardinality(Beyond(n, g)) # 0
    <3>1. IsFiniteSet(Beyond(n, g)) /\ g \in Beyond(n, g)
      BY BeyondIsClosed, TreeAssumption, FS_Subset
    <3> QED
      BY <3>1, FS_CardinalityType, FS_EmptySet
  <2>3. 0 \in S
    BY <2>2
  <2>4. ASSUME NEW i \in Nat, i \in S
        PROVE  i + 1 \in S
    <3> SUFFICES ASSUME NEW n \in Gateways, NEW g \in Neighbours(n),
                        Cardinality(Beyond(n, g)) <= i + 1
                 PROVE  right(n, g)
      OBVIOUS
    <3>1. g \in Gateways
      BY NeighbourBehind
    <3>2. ASSUME NEW k \in Neighbours(g) \ {n}
          PROVE  right(g, k)
      <4>1. Beyond(g, k) \subseteq Beyond(n, g) \ {g}
        BY BeyondShrinks
      <4>2. /\ IsFiniteSet(Beyond(n, g) \ {g})
            /\ Cardinality(Beyond(n, g) \ {g}) = Cardinality(Beyond(n, g)) - 1
        BY <2>2, FS_RemoveElement
      <4>3. Cardinality(Beyond(g, k)) <= Cardinality(Beyond(n, g) \ {g})
        BY <4>1, <4>2, FS_Subset
      <4>4. Cardinality(Beyond(g, k)) <= i
        BY <2>2, <3>1, <4>2, <4>3
      <4> QED
        BY <2>4, <3>1, <4>4
    <3>3. \A m \in Gateways : push[m] = pushHandlers[m][t]
      OBVIOUS
    <3> HIDE DEF push
    <3> QED
      BY <2>1, <3>2, <3>3, CountsAddUp
  <2>5. Nat \subseteq S
    <3> HIDE DEF S
    <3> QED
      BY <2>3, <2>4, SetInduction
  <2> SUFFICES ASSUME NEW g \in Gateways, NEW n \in Neighbours(g)
               PROVE  crossGatewaySubscriptions[g][n][t] =
                        Cardinality(Entries([m \in Beyond(g, n) |-> pushHandlers[m][t]]))
    OBVIOUS
  <2>6. right(g, n)
    BY <2>2, <2>5
  <2>7. [m \in Beyond(g, n) |-> push[m]] = [m \in Beyond(g, n) |-> pushHandlers[m][t]]
    BY BeyondIsClosed
  <2> QED
    BY <2>6, <2>7 DEF Total
<1> QED
  BY <1>1, NetworkInitially, NetworkStep, PTL DEF Spec
-----------------------------------------------------------------------------
(* At most once.  A copy of a datum on its way from a to b is alone in its *)
(* channel, nothing has been delivered yet beyond that link, and no other  *)
(* copy is on its way to where this one may go.                            *)
Copies(q, d) == {i \in DOMAIN q : \E t \in Types : q[i] = PushMsg(d, t)}

Alone(q, d) == \A i, j \in Copies(q, d) : i = j

Carriers(chs, d) == {l \in Gateways \X Gateways : Copies(chs[l[1]][l[2]], d) # {}}

FlowOK(carriers, count) ==
    /\ \A x \in Gateways : count[x] \in Nat /\ count[x] <= 1
    /\ \A a, b \in Gateways : <<a, b>> \in carriers =>
         b \in Neighbours(a) /\ \A x \in Beyond(a, b) : count[x] = 0
    /\ \A a, b, a2, b2 \in Gateways :
         <<a, b>> \in carriers /\ <<a2, b2>> \in carriers /\ <<a, b>> # <<a2, b2>>
            => Beyond(a, b) \cap Beyond(a2, b2) = {}

DatumOK(chs, d, count, known) ==
    /\ \A a, b \in Gateways : Alone(chs[a][b], d)
    /\ FlowOK(Carriers(chs, d), count)
    /\ d \notin known => Carriers(chs, d) = {} /\ \A x \in Gateways : count[x] = 0

DataInv == \A d \in Pushes : DatumOK(channel, d, delivered[d], pushed)

(* The copies of d in a channel have not become more.                      *)
Thins(new, old, d) ==
    /\ Copies(new, d) # {} => Copies(old, d) # {}
    /\ Alone(old, d) => Alone(new, d)

LEMMA ThinsByAppending ==
    ASSUME NEW q \in Seq(Messages), NEW msgs \in Seq(Messages), NEW d,
           Copies(msgs, d) = {}
    PROVE  Thins(q \o msgs, q, d)
<1>1. Copies(q \o msgs, d) = Copies(q, d)
  <2> SUFFICES ASSUME NEW i
               PROVE  i \in Copies(q \o msgs, d) <=> i \in Copies(q, d)
    OBVIOUS
  <2>1. /\ Len(q) \in Nat /\ Len(msgs) \in Nat
        /\ DOMAIN q = 1..Len(q) /\ DOMAIN msgs = 1..Len(msgs)
        /\ DOMAIN (q \o msgs) = 1..(Len(q) + Len(msgs))
    OBVIOUS
  <2>2. CASE i \in 1..Len(q)
    <3>1. (q \o msgs)[i] = q[i] /\ i \in DOMAIN (q \o msgs)
      BY <2>1, <2>2
    <3> QED
      BY <2>1, <2>2, <3>1 DEF Copies
  <2>3. CASE i \in (Len(q) + 1)..(Len(q) + Len(msgs))
    <3>1. (q \o msgs)[i] = msgs[i - Len(q)] /\ i - Len(q) \in DOMAIN msgs /\ i \notin DOMAIN q
      BY <2>1, <2>3
    <3>2. \A t \in Types : msgs[i - Len(q)] # PushMsg(d, t)
      BY <3>1 DEF Copies
    <3> QED
      BY <3>1, <3>2 DEF Copies
  <2>4. CASE i \notin 1..(Len(q) + Len(msgs))
    <3>1. i \notin DOMAIN q /\ i \notin DOMAIN (q \o msgs)
      BY <2>1, <2>4
    <3> QED
      BY <3>1 DEF Copies
  <2> QED
    BY <2>1, <2>2, <2>3, <2>4
<1> QED
  BY <1>1 DEF Thins, Alone

LEMMA ThinsByTaking ==
    ASSUME NEW q \in Seq(Messages), NEW i \in DOMAIN q, NEW d
    PROVE  /\ Thins(Without(q, i), q, d)
           /\ i \in Copies(q, d) /\ Alone(q, d) => Copies(Without(q, i), d) = {}
<1> DEFINE u == Without(q, i)
           old(j) == IF j < i THEN j ELSE j + 1
<1>1. /\ u \in Seq(Messages) /\ Len(q) \in Nat /\ i \in 1..Len(q)
      /\ Len(u) = Len(q) - 1
      /\ \A j \in 1..(Len(q) - 1) : u[j] = IF j < i THEN q[j] ELSE q[j + 1]
  BY WithoutEffect
<1> HIDE DEF u
<1>2. DOMAIN u = 1..(Len(q) - 1) /\ DOMAIN q = 1..Len(q)
  BY <1>1
<1>3. ASSUME NEW j \in Copies(u, d)
      PROVE  /\ j \in 1..(Len(q) - 1) /\ old(j) # i
             /\ old(j) \in Copies(q, d)
  <2>1. j \in 1..(Len(q) - 1) /\ \E t \in Types : u[j] = PushMsg(d, t)
    BY <1>2 DEF Copies
  <2>2. u[j] = q[old(j)] /\ old(j) \in DOMAIN q /\ old(j) # i
    BY <1>1, <1>2, <2>1
  <2> QED
    BY <2>1, <2>2 DEF Copies
<1>4. \A j, k \in 1..(Len(q) - 1) : old(j) = old(k) => j = k
  BY <1>1
<1>5. Thins(u, q, d)
  <2> HIDE DEF old
  <2> QED
    BY <1>3, <1>4 DEF Thins, Alone
<1>6. i \in Copies(q, d) /\ Alone(q, d) => Copies(u, d) = {}
  <2> HIDE DEF old
  <2> QED
    BY <1>3 DEF Alone
<1> QED
  BY <1>5, <1>6 DEF u

(* Nothing changes for the worse if copies only vanish. *)
LEMMA DatumFlowsOn ==
    ASSUME NEW chs, NEW new, NEW d, NEW count, NEW known, NEW later, known \subseteq later,
           DatumOK(chs, d, count, known),
           \A a, b \in Gateways : Thins(new[a][b], chs[a][b], d)
    PROVE  DatumOK(new, d, count, later)
<1>1. Carriers(new, d) \subseteq Carriers(chs, d)
  BY DEF Carriers, Thins
<1>2. \A a, b \in Gateways : Alone(new[a][b], d)
  BY DEF DatumOK, Thins
<1>3. FlowOK(Carriers(new, d), count)
  <2>1. FlowOK(Carriers(chs, d), count)
    BY DEF DatumOK
  <2> QED
    BY ONLY <1>1, <2>1 DEF FlowOK
<1>4. d \notin later => Carriers(new, d) = {} /\ \A x \in Gateways : count[x] = 0
  BY <1>1 DEF DatumOK
<1> QED
  BY <1>2, <1>3, <1>4 DEF DatumOK

LEMMA FlowsOn ==
    ASSUME DataInv, pushed' = pushed, delivered' = delivered,
           \A d \in Pushes, a, b \in Gateways : Thins(channel'[a][b], channel[a][b], d)
    PROVE  DataInv'
  BY DatumFlowsOn DEF DataInv

(* Messages other than data. *)
LEMMA ControlIsNoCopy ==
    ASSUME NEW m, m.type # "Push", NEW d
    PROVE  Copies(<<m>>, d) = {}
  BY MessageKinds DEF Copies

LEMMA BurstIsNoCopy ==
    ASSUME NEW kind \in {"Register", "Unregister"}, NEW count \in [Types -> Nat]
    PROVE  /\ Burst(kind, count) \in Seq(Messages)
           /\ \A d : Copies(Burst(kind, count), d) = {}
<1> DEFINE q == Burst(kind, count)
<1>1. /\ \A S : (\A t \in Types : [type |-> kind, mime |-> t] \in S) => q \in Seq(S)
      /\ \A i \in DOMAIN q : \E t \in Types : q[i] = [type |-> kind, mime |-> t]
  BY BurstEffect
<1>2. \A t \in Types : [type |-> kind, mime |-> t] \in Messages
  BY MessagesOfKinds DEF Register, Unregister
<1>3. \A t, u, d : [type |-> kind, mime |-> t] # PushMsg(d, u)
  <2>1. \A t : [type |-> kind, mime |-> t].type = kind
    OBVIOUS
  <2> QED
    BY <2>1, MessageKinds
<1> HIDE DEF q
<1>4. q \in Seq(Messages) /\ \A d : Copies(q, d) = {}
  BY <1>1, <1>2, <1>3 DEF Copies
<1> QED
  BY <1>4 DEF q

(* Sending something else than data leaves the copies as they are. *)
LEMMA OtherSends ==
    ASSUME NEW chs, Grid(chs, Seq(Messages)),
           NEW g \in Gateways, NEW to, NEW msgs \in Seq(Messages),
           NEW d, Copies(msgs, d) = {}
    PROVE  \A a, b \in Gateways : Thins(Sent(chs, g, to, msgs)[a][b], chs[a][b], d)
<1> SUFFICES ASSUME NEW a \in Gateways, NEW b \in Gateways
             PROVE  Thins(Sent(chs, g, to, msgs)[a][b], chs[a][b], d)
  OBVIOUS
<1>1. Sent(chs, g, to, msgs)[a][b] \in {chs[a][b], chs[a][b] \o msgs}
  BY DEF Sent, Grid
<1>2. chs[a][b] \in Seq(Messages)
  BY DEF Grid
<1>3. Thins(chs[a][b], chs[a][b], d)
  BY DEF Thins
<1>4. Thins(chs[a][b] \o msgs, chs[a][b], d)
  BY <1>2, ThinsByAppending
<1> QED
  BY <1>1, <1>3, <1>4

LEMMA ThinsThrough ==
    ASSUME NEW p, NEW q, NEW r, NEW d, Thins(p, q, d), Thins(q, r, d)
    PROVE  Thins(p, r, d)
  BY DEF Thins

LEMMA SubscriptionFlow ==
    ASSUME NetworkInv, DataInv, NEW g \in Gateways, NEW t \in Types,
           Subscribe(g, t) \/ Unsubscribe(g, t)
    PROVE  DataInv'
<1>1. PICK m \in {Register(t), Unregister(t)} : channel' = Sent(channel, g, Handled(g), <<m>>)
  BY DEF Subscribe, Unsubscribe
<1>2. pushed' = pushed /\ delivered' = delivered
  BY DEF Subscribe, Unsubscribe, data
<1>3. <<m>> \in Seq(Messages) /\ \A d : Copies(<<m>>, d) = {}
  BY MessagesOfKinds, MessageKinds, ControlIsNoCopy
<1>4. Grid(channel, Seq(Messages))
  BY DEF NetworkInv, LinkTypes, Grid
<1>5. \A d \in Pushes, a, b \in Gateways : Thins(channel'[a][b], channel[a][b], d)
  BY <1>1, <1>3, <1>4, OtherSends
<1> QED
  BY <1>2, <1>5, FlowsOn

LEMMA ConnectFlow ==
    ASSUME NetworkInv, DataInv, NEW g \in DOMAIN Parent, Connect(g)
    PROVE  DataInv'
<1>1. pushed' = pushed /\ delivered' = delivered
  BY DEF Connect, data
<1>2. ASSUME NEW d \in Pushes, NEW a \in Gateways, NEW b \in Gateways
      PROVE  Thins(channel'[a][b], channel[a][b], d)
  <2>1. Copies(<<AssociateMsg>>, d) = {}
    BY MessageKinds, ControlIsNoCopy
  <2>2. Thins(<<AssociateMsg>>, channel[a][b], d) /\ Thins(channel[a][b], channel[a][b], d)
    BY <2>1 DEF Thins, Alone
  <2>3. channel'[a][b] = <<AssociateMsg>> \/ channel'[a][b] = channel[a][b]
    BY ConnectEffect
  <2> QED
    BY <2>2, <2>3
<1> QED
  BY <1>1, <1>2, FlowsOn

LEMMA CloseFlow ==
    ASSUME NetworkInv, DataInv, NEW g \in Gateways, NEW n \in Neighbours(g), Close(g, n)
    PROVE  DataInv'
<1> DEFINE p == Burst("Unregister", registeredHandlers[g][n])
           rest == [channel EXCEPT ![n][g] = << >>]
<1>1. pushed' = pushed /\ delivered' = delivered
  BY DEF Close
<1>2. channel' = Sent(rest, g, Handled(g) \ {n}, p)
  BY DEF Close, CloseEnd
<1>3. p \in Seq(Messages) /\ \A d : Copies(p, d) = {}
  <2>1. registeredHandlers[g][n] \in [Types -> Nat]
    BY NeighbourTypes DEF NetworkInv, TableTypes, Row
  <2> QED
    BY <2>1, BurstIsNoCopy
<1>4. Grid(rest, Seq(Messages)) /\ Differs(channel, rest, n, g, << >>)
  <2>1. Grid(channel, Seq(Messages)) /\ << >> \in Seq(Messages) /\ n \in Gateways
    BY NeighbourTypes DEF NetworkInv, LinkTypes, Grid
  <2>2. OneChanged(channel, rest, n, g, << >>)
    BY DEF OneChanged
  <2> HIDE DEF rest
  <2> QED
    BY <2>1, <2>2, OneEntry
<1> HIDE DEF p, rest
<1>5. ASSUME NEW d \in Pushes, NEW a \in Gateways, NEW b \in Gateways
      PROVE  Thins(channel'[a][b], channel[a][b], d)
  <2>1. Thins(channel'[a][b], rest[a][b], d)
    <3> DEFINE to == Handled(g) \ {n}
    <3>1. channel' = Sent(rest, g, to, p)
      BY <1>2
    <3> HIDE DEF to
    <3>2. \A x, y \in Gateways : Thins(Sent(rest, g, to, p)[x][y], rest[x][y], d)
      BY <1>3, <1>4, OtherSends
    <3> QED
      BY <3>1, <3>2
  <2>2. Copies(<< >>, d) = {}
    BY DEF Copies
  <2>3. Thins(<< >>, channel[a][b], d) /\ Thins(channel[a][b], channel[a][b], d)
    BY <2>2 DEF Thins, Alone
  <2>4. rest[a][b] = << >> \/ rest[a][b] = channel[a][b]
    BY <1>4 DEF Differs
  <2>5. Thins(rest[a][b], channel[a][b], d)
    BY <2>3, <2>4
  <2> QED
    BY <2>1, <2>5, ThinsThrough
<1> QED
  BY <1>1, <1>5, FlowsOn

(* A message that is no datum arrives. *)
LEMMA ControlFlow ==
    ASSUME NetworkInv, DataInv, NEW g \in Gateways, NEW n \in Neighbours(g),
           NEW i \in Arrivals(channel[n][g]),
           \/ ReceiveAssociate(g, n, i)
           \/ ReceiveRegister(g, n, i) \/ ReceiveUnregister(g, n, i)
    PROVE  DataInv'
<1> DEFINE m == channel[n][g][i]
<1>1. pushed' = pushed /\ delivered' = delivered
  BY DEF ReceiveAssociate, ReceiveRegister, ReceiveUnregister, data
<1>2. LinkTypes /\ TableTypes /\ n \in Gateways
  BY NeighbourTypes DEF NetworkInv
<1>3. channel[n][g] \in Seq(Messages) /\ i \in DOMAIN channel[n][g]
  BY <1>2 DEF LinkTypes, Arrivals
<1>4. PICK msgs \in Seq(Messages) :
        (\E to : Receive(g, n, i, to, msgs)) /\ \A d : Copies(msgs, d) = {}
  <2>1. CASE ReceiveAssociate(g, n, i)
    <3>1. Wants(g, n) \in [Types -> Nat]
      <4>1. pushHandlers[g] \in Row /\ crossGatewaySubscriptions[g] \in [Gateways -> Row]
        BY <1>2, PushRow
      <4>2. Wants(g, n) = WantsOf(pushHandlers[g], crossGatewaySubscriptions[g], n)
        BY DEF Wants, WantsOf
      <4> QED
        BY <4>1, <4>2, WantsType DEF Row
    <3>2. /\ Burst("Register", Wants(g, n)) \in Seq(Messages)
          /\ \A d : Copies(Burst("Register", Wants(g, n)), d) = {}
      BY <3>1, BurstIsNoCopy
    <3>3. Receive(g, n, i, {n}, Burst("Register", Wants(g, n)))
      BY <2>1 DEF ReceiveAssociate
    <3> DEFINE p == Burst("Register", Wants(g, n))
    <3> HIDE DEF p
    <3>4. p \in Seq(Messages) /\ (\E to : Receive(g, n, i, to, p)) /\ \A d : Copies(p, d) = {}
      BY <3>2, <3>3 DEF p
    <3> QED
      BY <3>4
  <2>2. CASE ReceiveRegister(g, n, i) \/ ReceiveUnregister(g, n, i)
    <3>1. /\ Receive(g, n, i, Handled(g) \ {n}, <<m>>)
          /\ m.type # "Push" /\ <<m>> \in Seq(Messages)
      BY <1>3, <2>2 DEF ReceiveRegister, ReceiveUnregister
    <3>2. \A d : Copies(<<m>>, d) = {}
      BY <3>1, ControlIsNoCopy
    <3> DEFINE p == <<m>>
    <3> HIDE DEF p
    <3>3. p \in Seq(Messages) /\ (\E to : Receive(g, n, i, to, p)) /\ \A d : Copies(p, d) = {}
      BY <3>1, <3>2 DEF p
    <3> QED
      BY <3>3
  <2> QED
    BY <2>1, <2>2
<1> HIDE DEF m
<1>5. PICK to : Taken(g, n, i, to, msgs)
  BY <1>4, TakenAndSent
<1>6. ASSUME NEW d \in Pushes, NEW a \in Gateways, NEW b \in Gateways
      PROVE  Thins(channel'[a][b], channel[a][b], d)
  <2>1. Thins(channel[a][b], channel[a][b], d)
    BY DEF Thins
  <2>2. CASE a = n /\ b = g
    <3>1. channel'[a][b] = Without(channel[n][g], i)
      BY <1>5, <2>2 DEF Taken
    <3> QED
      BY <1>3, <2>2, <3>1, ThinsByTaking
  <2>3. CASE a = g
    <3>1. channel'[a][b] = channel[a][b] \/ channel'[a][b] = channel[a][b] \o msgs
      BY <1>5, <2>3 DEF Taken
    <3>2. channel[a][b] \in Seq(Messages) /\ Copies(msgs, d) = {}
      BY <1>2, <1>4 DEF LinkTypes
    <3>3. Thins(channel[a][b] \o msgs, channel[a][b], d)
      BY <3>2, ThinsByAppending
    <3> QED
      BY <2>1, <3>1, <3>3
  <2>4. CASE a # g /\ ~(a = n /\ b = g)
    BY <1>5, <2>1, <2>4 DEF Taken
  <2> QED
    BY <2>2, <2>3, <2>4
<1> QED
  BY <1>1, <1>6, FlowsOn

(* What the copies on their way become when g sends on or is given one.    *)
Spread(old, new, g, from) ==
    \A a, b \in Gateways : <<a, b>> \in new =>
        \/ <<a, b>> \in old /\ <<a, b>> # <<from, g>>
        \/ a = g /\ b \in Neighbours(g) /\ b # from

(* A plugin of g pushes a datum that nobody has yet. *)
LEMMA FlowStarts ==
    ASSUME NEW g \in Gateways, NEW carriers, NEW count,
           \A x \in Gateways : count[x] = 0,
           \A a, b \in Gateways : <<a, b>> \in carriers => a = g /\ b \in Neighbours(g)
    PROVE  FlowOK(carriers, count)
<1>1. \A a, b, a2, b2 \in Gateways :
        <<a, b>> \in carriers /\ <<a2, b2>> \in carriers /\ <<a, b>> # <<a2, b2>>
            => Beyond(a, b) \cap Beyond(a2, b2) = {}
  BY BeyondLinksApart
<1>2. \A a, b \in Gateways : <<a, b>> \in carriers =>
        b \in Neighbours(a) /\ \A x \in Beyond(a, b) : count[x] = 0
  BY BeyondIsClosed
<1> QED
  BY <1>1, <1>2 DEF FlowOK

(* A copy arrives at g, and goes on. *)
LEMMA FlowArrives ==
    ASSUME NEW g \in Gateways, NEW n \in Gateways, NEW old, NEW new, NEW count, NEW after,
           FlowOK(old, count), <<n, g>> \in old, Spread(old, new, g, n),
           after[g] \in {count[g], count[g] + 1},
           \A x \in Gateways \ {g} : after[x] = count[x]
    PROVE  FlowOK(new, after)
<1>1. g \in Neighbours(n) /\ n \in Neighbours(g)
  BY NeighbourBehind DEF FlowOK
<1>2. /\ g \in Beyond(n, g) /\ Beyond(n, g) \subseteq Gateways
      /\ \A x \in Beyond(n, g) : count[x] = 0
  BY <1>1, BeyondIsClosed DEF FlowOK
<1>3. \A k \in Neighbours(g) \ {n} : Beyond(g, k) \subseteq Beyond(n, g) \ {g}
  BY <1>1, BeyondShrinks
<1>4. ASSUME NEW a \in Gateways, NEW b \in Gateways, <<a, b>> \in old, <<a, b>> # <<n, g>>
      PROVE  /\ Beyond(a, b) \cap Beyond(n, g) = {}
             /\ b \in Neighbours(a) /\ \A x \in Beyond(a, b) : after[x] = 0
  <2>1. Beyond(a, b) \cap Beyond(n, g) = {}
    BY <1>4 DEF FlowOK
  <2>2. b \in Neighbours(a) /\ \A x \in Beyond(a, b) : count[x] = 0
    BY <1>4 DEF FlowOK
  <2>3. Beyond(a, b) \subseteq Gateways
    BY <2>2, BeyondIsClosed
  <2> QED
    BY <1>2, <2>1, <2>2, <2>3
<1>5. ASSUME NEW x \in Gateways
      PROVE  after[x] \in Nat /\ after[x] <= 1
  <2>1. count[x] \in Nat /\ count[x] <= 1 /\ count[g] = 0
    BY <1>2 DEF FlowOK
  <2> QED
    BY <2>1
<1>6. ASSUME NEW a \in Gateways, NEW b \in Gateways, <<a, b>> \in new
      PROVE  b \in Neighbours(a) /\ \A x \in Beyond(a, b) : after[x] = 0
  <2>1. CASE <<a, b>> \in old /\ <<a, b>> # <<n, g>>
    BY <1>4, <2>1
  <2>2. CASE a = g /\ b \in Neighbours(g) /\ b # n
    BY <1>2, <1>3, <2>2
  <2> QED
    BY <1>6, <2>1, <2>2 DEF Spread
<1>7. ASSUME NEW a \in Gateways, NEW b \in Gateways, NEW a2 \in Gateways, NEW b2 \in Gateways,
             <<a, b>> \in new, <<a2, b2>> \in new, <<a, b>> # <<a2, b2>>
      PROVE  Beyond(a, b) \cap Beyond(a2, b2) = {}
  <2> DEFINE kept(c, d) == <<c, d>> \in old /\ <<c, d>> # <<n, g>>
             fresh(c, d) == c = g /\ d \in Neighbours(g) /\ d # n
  <2>1. (kept(a, b) \/ fresh(a, b)) /\ (kept(a2, b2) \/ fresh(a2, b2))
    BY <1>7 DEF Spread
  <2>2. CASE kept(a, b) /\ kept(a2, b2)
    BY <1>7, <2>2 DEF FlowOK
  <2>3. CASE kept(a, b) /\ fresh(a2, b2)
    BY <1>3, <1>4, <2>3
  <2>4. CASE fresh(a, b) /\ kept(a2, b2)
    BY <1>3, <1>4, <2>4
  <2>5. CASE fresh(a, b) /\ fresh(a2, b2)
    BY <1>7, <2>5, BeyondLinksApart
  <2> QED
    BY <2>1, <2>2, <2>3, <2>4, <2>5
<1> QED
  BY <1>5, <1>6, <1>7 DEF FlowOK

LEMMA FirstCopy ==
    ASSUME NEW q \in Seq(Messages), NEW m \in Messages, NEW d, Copies(q, d) = {}
    PROVE  Alone(q \o <<m>>, d)
<1>1. \A i \in DOMAIN (q \o <<m>>) : i # Len(q) + 1 => i \in DOMAIN q /\ (q \o <<m>>)[i] = q[i]
  OBVIOUS
<1>2. \A i \in Copies(q \o <<m>>, d) : i = Len(q) + 1
  BY <1>1 DEF Copies
<1> QED
  BY <1>2 DEF Alone

(* The copy of one datum is not a copy of another. *)
LEMMA CopyOfOther ==
    ASSUME NEW d, NEW e, d # e, NEW t
    PROVE  Copies(<<PushMsg(e, t)>>, d) = {}
<1>1. \A u : PushMsg(e, t) # PushMsg(d, u)
  BY MessageKinds
<1> QED
  BY <1>1 DEF Copies

LEMMA PushFlow ==
    ASSUME NetworkInv, DataInv, NEW g \in Gateways, NEW d \in Pushes, NEW t \in Types,
           Push(g, d, t)
    PROVE  DataInv'
<1> DEFINE to == Subscribers(crossGatewaySubscriptions[g], t)
           m == PushMsg(d, t)
<1>1. LinkTypes /\ Grid(channel, Seq(Messages)) /\ m \in Messages /\ <<m>> \in Seq(Messages)
  BY MessagesOfKinds DEF NetworkInv, LinkTypes, Grid
<1>2. /\ d \notin pushed /\ pushed' = pushed \cup {d} /\ delivered' = delivered
      /\ channel' = Sent(channel, g, to, <<m>>)
  BY DEF Push
<1> HIDE DEF to
<1>3. ASSUME NEW e \in Pushes, e # d
      PROVE  DatumOK(channel', e, delivered[e], pushed')
  <2>1. Copies(<<m>>, e) = {}
    BY <1>3, CopyOfOther
  <2> HIDE DEF m
  <2>2. \A a, b \in Gateways : Thins(channel'[a][b], channel[a][b], e)
    BY <1>1, <1>2, <2>1, OtherSends
  <2>3. DatumOK(channel, e, delivered[e], pushed) /\ pushed \subseteq pushed'
    BY <1>2 DEF DataInv
  <2> QED
    BY <2>2, <2>3, DatumFlowsOn
<1>4. DatumOK(channel', d, delivered[d], pushed')
  <2>1. /\ \A a, b \in Gateways : Copies(channel[a][b], d) = {}
        /\ \A x \in Gateways : delivered[d][x] = 0
    <3>1. DatumOK(channel, d, delivered[d], pushed)
      BY DEF DataInv
    <3>2. Carriers(channel, d) = {} /\ \A x \in Gateways : delivered[d][x] = 0
      BY <1>2, <3>1 DEF DatumOK
    <3>3. ASSUME NEW a \in Gateways, NEW b \in Gateways
          PROVE  Copies(channel[a][b], d) = {}
      <4>1. <<a, b>> \notin Carriers(channel, d)
        BY <3>2
      <4> QED
        BY <4>1 DEF Carriers
    <3> QED
      BY <3>2, <3>3
  <2> HIDE DEF m
  <2>2. \A a, b \in Gateways :
          channel'[a][b] = IF a = g /\ b \in to /\ side[b][g] # "closed"
                           THEN channel[a][b] \o <<m>> ELSE channel[a][b]
    BY <1>1, <1>2 DEF Sent, Grid
  <2>3. \A a, b \in Gateways : Alone(channel'[a][b], d)
    <3> SUFFICES ASSUME NEW a \in Gateways, NEW b \in Gateways
                 PROVE  Alone(channel'[a][b], d)
      OBVIOUS
    <3>1. channel[a][b] \in Seq(Messages) /\ Copies(channel[a][b], d) = {}
      BY <1>1, <2>1 DEF Grid
    <3>2. Alone(channel[a][b] \o <<m>>, d) /\ Alone(channel[a][b], d)
      BY <1>1, <3>1, FirstCopy DEF Alone
    <3> QED
      BY <2>2, <3>2
  <2>4. ASSUME NEW a \in Gateways, NEW b \in Gateways, <<a, b>> \in Carriers(channel', d)
        PROVE  a = g /\ b \in Neighbours(g)
    <3>1. channel'[a][b] # channel[a][b]
      BY <2>1, <2>4 DEF Carriers
    <3>2. a = g /\ side[b][g] # "closed"
      BY <2>2, <3>1
    <3>3. g \in Neighbours(b)
      BY <1>1, <3>2 DEF LinkTypes
    <3> QED
      BY <3>2, <3>3, NeighbourTypes
  <2>5. FlowOK(Carriers(channel', d), delivered[d])
    BY <2>1, <2>4, FlowStarts
  <2>6. d \in pushed'
    BY <1>2
  <2> QED
    BY <2>3, <2>5, <2>6 DEF DatumOK
<1> QED
  BY <1>2, <1>3, <1>4 DEF DataInv

LEMMA ArrivalFlow ==
    ASSUME NetworkInv, DataInv, NEW g \in Gateways, NEW n \in Neighbours(g),
           NEW i \in Arrivals(channel[n][g]), ReceivePush(g, n, i)
    PROVE  DataInv'
<1> DEFINE m == channel[n][g][i]
           to == NextHops(g, n, m.mime)
           d == m.data
<1>1. LinkTypes /\ TableTypes /\ n \in Gateways /\ n # g
  BY NeighbourTypes DEF NetworkInv
<1>2. m.type = "Push" /\ Receive(g, n, i, to, <<m>>) /\ pushed' = pushed
  BY DEF ReceivePush
<1>3. /\ channel[n][g] \in Seq(Messages) /\ i \in DOMAIN channel[n][g]
      /\ m \in Messages /\ <<m>> \in Seq(Messages)
  <2>1. channel[n][g] \in Seq(Messages) /\ i \in DOMAIN channel[n][g]
    BY <1>1 DEF LinkTypes, Arrivals
  <2> QED
    BY <2>1
<1>4. d \in Pushes /\ m.mime \in Types /\ m = PushMsg(d, m.mime)
  BY <1>2, <1>3, MessageCases
<1>5. /\ delivered'[d][g] \in {delivered[d][g], delivered[d][g] + 1}
      /\ \A x \in Gateways \ {g} : delivered'[d][x] = delivered[d][x]
      /\ \A e \in Pushes \ {d} : delivered'[e] = delivered[e]
  <2>1. CASE g \in Subscribers(pushHandlers, m.mime)
    <3>1. delivered' = [delivered EXCEPT ![d][g] = @ + 1]
      BY <2>1 DEF ReceivePush
    <3> HIDE DEF d
    <3> QED
      BY <1>1, <1>4, <3>1 DEF TableTypes
  <2>2. CASE g \notin Subscribers(pushHandlers, m.mime)
    BY <2>2 DEF ReceivePush
  <2> QED
    BY <2>1, <2>2
<1>6. i \in Copies(channel[n][g], d)
  BY <1>3, <1>4 DEF Copies
<1>7. n \notin to
  BY DEF NextHops
<1>8. ASSUME NEW e, e # d
      PROVE  Copies(<<m>>, e) = {}
  BY <1>4, <1>8, CopyOfOther
<1> HIDE DEF to, m, d
<1>9. Taken(g, n, i, to, <<m>>)
  BY <1>2, <1>3, TakenAndSent
<1>10. \A b \in to : b \in Gateways /\ side[b][g] # "closed" => b \in Neighbours(g) /\ b # n
  <2> SUFFICES ASSUME NEW b \in to, b \in Gateways, side[b][g] # "closed"
               PROVE  b \in Neighbours(g) /\ b # n
    OBVIOUS
  <2>1. g \in Neighbours(b)
    BY <1>1 DEF LinkTypes
  <2> QED
    BY <1>7, <2>1, NeighbourTypes
<1>11. /\ channel'[n][g] = Without(channel[n][g], i)
       /\ \A b \in Gateways :
            \/ channel'[g][b] = channel[g][b]
            \/ b \in Neighbours(g) /\ b # n /\ channel'[g][b] = channel[g][b] \o <<m>>
       /\ \A a, b \in Gateways : a # g /\ ~(a = n /\ b = g) => channel'[a][b] = channel[a][b]
  BY <1>9, <1>10 DEF Taken
<1>12. ASSUME NEW e \in Pushes, e # d
       PROVE  DatumOK(channel', e, delivered'[e], pushed')
  <2>1. ASSUME NEW a \in Gateways, NEW b \in Gateways
        PROVE  Thins(channel'[a][b], channel[a][b], e)
    <3>1. Thins(channel[a][b], channel[a][b], e)
      BY DEF Thins
    <3>2. CASE a = n /\ b = g
      BY <1>3, <1>11, <3>2, ThinsByTaking
    <3>3. CASE a = g
      <4>1. channel[a][b] \in Seq(Messages) /\ Copies(<<m>>, e) = {}
        BY <1>1, <1>8, <1>12 DEF LinkTypes
      <4>2. Thins(channel[a][b] \o <<m>>, channel[a][b], e)
        BY <1>3, <4>1, ThinsByAppending
      <4> QED
        BY <1>11, <3>1, <3>3, <4>2
    <3>4. CASE a # g /\ ~(a = n /\ b = g)
      BY <1>11, <3>1, <3>4
    <3> QED
      BY <3>2, <3>3, <3>4
  <2>2. DatumOK(channel, e, delivered[e], pushed) /\ delivered'[e] = delivered[e]
    BY <1>5, <1>12 DEF DataInv
  <2>3. DatumOK(channel', e, delivered[e], pushed)
    BY <2>1, <2>2, DatumFlowsOn
  <2> QED
    BY <1>2, <2>2, <2>3
<1>13. DatumOK(channel', d, delivered'[d], pushed')
  <2>1. /\ \A a, b \in Gateways : Alone(channel[a][b], d)
        /\ FlowOK(Carriers(channel, d), delivered[d])
        /\ d \notin pushed => Carriers(channel, d) = {}
    BY <1>4 DEF DataInv, DatumOK
  <2>2. <<n, g>> \in Carriers(channel, d)
    BY <1>1, <1>6 DEF Carriers
  <2>3. Copies(Without(channel[n][g], i), d) = {}
    BY <1>1, <1>3, <1>6, <2>1, ThinsByTaking
  <2>4. ASSUME NEW b \in Neighbours(g), b # n
        PROVE  Copies(channel[g][b], d) = {}
    <3>1. b \in Gateways /\ g \in Neighbours(n) /\ <<g, b>> # <<n, g>>
      BY <1>1, NeighbourTypes
    <3>2. b \in Beyond(g, b) /\ Beyond(g, b) \subseteq Beyond(n, g)
      BY <1>1, <2>4, <3>1, BeyondIsClosed, BeyondShrinks
    <3>3. <<g, b>> \notin Carriers(channel, d)
      BY <1>1, <2>1, <2>2, <3>1, <3>2 DEF FlowOK
    <3> QED
      BY <3>1, <3>3 DEF Carriers
  <2>5. ASSUME NEW a \in Gateways, NEW b \in Gateways
        PROVE  Alone(channel'[a][b], d)
    <3>1. CASE a = n /\ b = g
      BY <1>11, <2>3, <3>1 DEF Alone
    <3>2. CASE a = g
      <4>1. CASE channel'[g][b] = channel[g][b]
        BY <2>1, <3>2, <4>1
      <4>2. CASE b \in Neighbours(g) /\ b # n /\ channel'[g][b] = channel[g][b] \o <<m>>
        <5>1. channel[g][b] \in Seq(Messages) /\ Copies(channel[g][b], d) = {}
          BY <1>1, <2>4, <4>2 DEF LinkTypes
        <5> QED
          BY <1>3, <3>2, <4>2, <5>1, FirstCopy
      <4> QED
        BY <1>11, <4>1, <4>2
    <3>3. CASE a # g /\ ~(a = n /\ b = g)
      BY <1>11, <2>1, <3>3
    <3> QED
      BY <3>1, <3>2, <3>3
  <2>6. Spread(Carriers(channel, d), Carriers(channel', d), g, n)
    <3> SUFFICES ASSUME NEW a \in Gateways, NEW b \in Gateways,
                        <<a, b>> \in Carriers(channel', d)
                 PROVE  \/ <<a, b>> \in Carriers(channel, d) /\ <<a, b>> # <<n, g>>
                        \/ a = g /\ b \in Neighbours(g) /\ b # n
      BY DEF Spread
    <3>1. Copies(channel'[a][b], d) # {}
      BY DEF Carriers
    <3>2. ~(a = n /\ b = g)
      BY <1>11, <2>3, <3>1
    <3>3. channel'[a][b] = channel[a][b] => <<a, b>> \in Carriers(channel, d)
      BY <3>1 DEF Carriers
    <3> QED
      BY <1>11, <3>2, <3>3
  <2>7. FlowOK(Carriers(channel', d), delivered'[d])
    BY <1>1, <1>5, <2>1, <2>2, <2>6, FlowArrives
  <2>8. d \in pushed'
    BY <1>2, <2>1, <2>2
  <2> QED
    BY <2>5, <2>7, <2>8 DEF DatumOK
<1> QED
  BY <1>4, <1>12, <1>13 DEF DataInv

LEMMA DataInitially == Init => DataInv
<1> SUFFICES ASSUME Init, NEW d \in Pushes
             PROVE  DatumOK(channel, d, delivered[d], pushed)
  BY DEF DataInv
<1>1. /\ \A a, b \in Gateways : channel[a][b] = << >>
      /\ \A x \in Gateways : delivered[d][x] = 0
  BY DEF Init, LinksInit
<1>2. \A a, b \in Gateways : Copies(channel[a][b], d) = {}
  BY <1>1 DEF Copies
<1>3. Carriers(channel, d) = {}
  BY <1>2 DEF Carriers
<1>4. FlowOK({}, delivered[d])
  BY <1>1 DEF FlowOK
<1>5. \A a, b \in Gateways : Alone(channel[a][b], d)
  BY <1>2 DEF Alone
<1> QED
  BY <1>1, <1>3, <1>4, <1>5 DEF DatumOK

LEMMA DataStep == NetworkInv /\ DataInv /\ [Next]_vars => DataInv'
<1> SUFFICES ASSUME NetworkInv, DataInv, [Next]_vars PROVE DataInv'
  OBVIOUS
<1>1. CASE \E g \in Gateways, t \in Types : Subscribe(g, t) \/ Unsubscribe(g, t)
  BY <1>1, SubscriptionFlow
<1>2. CASE \E g \in Gateways, t \in Types, d \in Pushes : Push(g, d, t)
  BY <1>2, PushFlow
<1>3. CASE \E g \in DOMAIN Parent : Connect(g)
  BY <1>3, ConnectFlow
<1>4. CASE \E g \in Gateways : \E n \in Neighbours(g) : Close(g, n)
  BY <1>4, CloseFlow
<1>5. CASE \E g \in Gateways : \E n \in Neighbours(g) : ReceiveSome(g, n)
  <2>1. PICK g \in Gateways : \E n \in Neighbours(g) : ReceiveSome(g, n)
    BY <1>5
  <2>2. PICK n \in Neighbours(g) : ReceiveSome(g, n)
    BY <2>1
  <2>3. PICK i \in Arrivals(channel[n][g]) :
          \/ ReceiveAssociate(g, n, i) \/ ReceiveRegister(g, n, i)
          \/ ReceiveUnregister(g, n, i) \/ ReceivePush(g, n, i)
    BY <2>2 DEF ReceiveSome
  <2> QED
    BY <2>3, ControlFlow, ArrivalFlow
<1>6. CASE UNCHANGED vars
  <2>1. UNCHANGED <<channel, delivered, pushed>>
    BY <1>6 DEF vars, links, data
  <2> QED
    BY <2>1 DEF DataInv
<1> QED
  BY <1>1, <1>2, <1>3, <1>4, <1>5, <1>6 DEF Next

(* No plugin is given a datum twice, in a tree of any shape: the copies of *)
(* a datum spread over parts of the tree that are apart, though links      *)
(* break, come back and are routed over again while it is on its way.      *)
THEOREM NothingArrivesTwice == Spec => []AtMostOnce
<1>1. DataInv => AtMostOnce
  BY DEF DataInv, DatumOK, FlowOK, AtMostOnce
<1> QED
  BY <1>1, NetworkInitially, NetworkStep, DataInitially, DataStep, PTL DEF Spec
=============================================================================
