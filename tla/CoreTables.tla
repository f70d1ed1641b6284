----------------------------- MODULE CoreTables -----------------------------
(***************************************************************************)
(* The routing tables of a gateway core, as values.                        *)
(*                                                                         *)
(* GatewayCore keeps its subscriptions in multimaps keyed by a MIME type.  *)
(* The order of equal keys is never observed, so a multimap is a bag: an   *)
(* owner (a service handler or the id of another gateway) and a type are   *)
(* mapped to the number of equal entries.  Tables are curried,             *)
(* table[owner][type], so that one owner's row is a value of its own.      *)
(***************************************************************************)
EXTENDS Naturals, Integers, FiniteSets

CONSTANTS
    Types,      \* the MIME types plugins register and push
    Prefix      \* Prefix[t]: the registered types that are a prefix of t

ASSUME PrefixAssumption ==
    /\ Prefix \in [Types -> SUBSET Types]
    /\ \A t \in Types : t \in Prefix[t]

Row == [Types -> Nat]
EmptyRow == [t \in Types |-> 0]

(* Definitions whose name begins with Faulty are not the code: each is the *)
(* definition after it with a bug that the checks are shown to detect.     *)

FaultyLess(a, b) == a - b

(* `a' less `b', stopping at zero: erasing more entries than there are. *)
Less(a, b) == IF b <= a THEN a - b ELSE 0

Insert(table, owner, t) == [table EXCEPT ![owner][t] = @ + 1]

(* The loop goes on after the first match. *)
FaultyEraseOne(table, owner, t) == [table EXCEPT ![owner][t] = 0]

(* Both unsubscribe loops erase the first matching entry and break. *)
EraseOne(table, owner, t) == [table EXCEPT ![owner][t] = Less(@, 1)]

(* The owners that registered some prefix of t: getPushHandlersForType and *)
(* SubscriptionDataStore::getHandlersForType build a set, so an owner      *)
(* whose registrations match twice is in it once.                          *)
Subscribers(table, t) ==
    {o \in DOMAIN table : \E p \in Prefix[t] : table[o][p] > 0}

(* The owners registered for t itself: the equal_range lookup of pulls. *)
Registered(table, t) == {o \in DOMAIN table : table[o][t] > 0}

(* A row that counts n for the type t and nothing else. *)
Only(t, n) == [u \in Types |-> IF u = t THEN n ELSE 0]
=============================================================================
