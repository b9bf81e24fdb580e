----------------------------- MODULE LazyBitset -----------------------------
(***************************************************************************)
(* louvain/_bitset.hxx: entries sorted by key, followed by additions or    *)
(* removals that wait for update().  `unprocessed` counts the additions,   *)
(* removals count negative; the two kinds never wait together.             *)
(***************************************************************************)
EXTENDS Integers, SortedPairs

CONSTANTS Key, Value,
          MaxPairs    \* bound on the length of the vector

ASSUME LazyBitsetAssumption == Key \subseteq Nat /\ MaxPairs \in Nat

VARIABLES pairs, unprocessed,
          usage   \* how the callers use the container (never changes):
                  \* "fresh": they remove keys, and add only absent ones;
                  \* "readd": they add present keys too, as symmetricizeOmp
                  \*          does, and never remove

vars == <<pairs, unprocessed, usage>>

Waiting == IF unprocessed < 0 THEN -unprocessed ELSE unprocessed
Settled == SubSeq(pairs, 1, Len(pairs) - Waiting)
Pending == SubSeq(pairs, Len(pairs) - Waiting + 1, Len(pairs))

\* V() of a removal is never read.
Blank == CHOOSE v \in Value : TRUE

Init == pairs = <<>> /\ unprocessed = 0 /\ usage \in {"fresh", "readd"}

\* std::sort of what waits, then set_difference_inplace.
updateRemove == { SetDifference(Settled, y) : y \in Sortings(Pending) }

\* std::sort of what waits, then set_union_last_inplace.
updateAdd_BUG == { UnionLast(y, Settled) : y \in Sortings(Pending) }
updateAdd == { UnionLast(Settled, y) : y \in Sortings(Pending) }

\* The vectors that processing what waits may leave.
Processed ==
  CASE unprocessed < 0 -> updateRemove
    [] unprocessed > 0 -> updateAdd
    [] unprocessed = 0 -> {pairs}

update ==
  /\ unprocessed # 0
  /\ pairs' \in Processed
  /\ unprocessed' = 0

\* The keys the callers can add.
Addable ==
  IF usage = "readd" THEN Key \ (IF unprocessed > 0 THEN Keys(Pending) ELSE {})
  ELSE Key \ (IF unprocessed < 0 THEN Keys(Settled) \ Keys(Pending) ELSE Keys(pairs))

remove(k) ==
  /\ \E p \in (IF unprocessed > 0 THEN updateAdd ELSE {pairs}) :
       pairs' = Append(p, [first |-> k, second |-> Blank])
  /\ unprocessed' = (IF unprocessed > 0 THEN 0 ELSE unprocessed) - 1

add_BUG(k, v) ==
  /\ pairs' = Append(pairs, [first |-> k, second |-> v])
  /\ unprocessed' = unprocessed + 1

add(k, v) ==
  /\ \E p \in (IF unprocessed < 0 THEN updateRemove ELSE {pairs}) :
       pairs' = Append(p, [first |-> k, second |-> v])
  /\ unprocessed' = (IF unprocessed < 0 THEN 0 ELSE unprocessed) + 1

clear == pairs' = <<>> /\ unprocessed' = 0

Remove(k) == usage = "fresh" /\ Len(pairs) < MaxPairs /\ remove(k)
Add(k, v) == k \in Addable /\ Len(pairs) < MaxPairs /\ add(k, v)

Next ==
  /\ \/ \E k \in Key : Remove(k)
     \/ \E k \in Key, v \in Value : Add(k, v)
     \/ update
     \/ clear
  /\ UNCHANGED usage

Spec == Init /\ [][Next]_vars

-----------------------------------------------------------------------------
(* Reading: find() is a binary search, it meets the first entry of a key. *)

get(k) ==
  LET i == CHOOSE i \in DOMAIN Settled :
             Settled[i].first = k /\ IsFirst(Settled, i)
  IN  Settled[i].second

Added(k) ==
  LET i == CHOOSE i \in DOMAIN Pending : Pending[i].first = k
  IN  Pending[i].second

\* The map the callers have asked for: settled entries and what waits.
Asked ==
  CASE unprocessed = 0 -> [k \in Keys(Settled) |-> get(k)]
    [] unprocessed < 0 -> [k \in Keys(Settled) \ Keys(Pending) |-> get(k)]
    [] unprocessed > 0 -> [k \in Keys(pairs) |->
                             IF k \in Keys(Pending) THEN Added(k) ELSE get(k)]

-----------------------------------------------------------------------------
(* Properties *)

\* Callers that never add a key twice get each key once in forEach and size().
OneEntryPerKey == usage = "fresh" => StrictlySorted(Settled)

\* add, remove, update and clear are the operations of a map: update() loses
\* nothing that waits, adding or removing first settles the other kind, and a
\* value added last is the one that is found.
M == INSTANCE KeyMap WITH map <- Asked
ImplementsKeyMap == M!Spec
=============================================================================
