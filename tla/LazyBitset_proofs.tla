-------------------------- MODULE LazyBitset_proofs --------------------------
(***************************************************************************)
(* A LazyBitset is a map, for every set of keys and values and every       *)
(* length: what waits to be processed is in the map already, processing it *)
(* changes nothing, and callers that add absent keys find each key once.   *)
(* What the in-place algorithms do to keys and look-ups is in              *)
(* Operators_proofs.                                                       *)
(***************************************************************************)
EXTENDS LazyBitset, Operators_proofs

Entry == [first : Key, second : Value \cup {Blank}]

LEMMA EntryHasKeys == HasKeys(Entry)
  BY LazyBitsetAssumption DEF HasKeys, Entry

-----------------------------------------------------------------------------
(* The invariant.  What the callers do shows in what waits: keys added are *)
(* all different, for "fresh" callers also from those that are settled.    *)

IType ==
  /\ pairs \in Seq(Entry) /\ unprocessed \in Int /\ usage \in {"fresh", "readd"}
  /\ Waiting <= Len(pairs)

Uses ==
  /\ usage = "readd" => unprocessed >= 0
  /\ unprocessed > 0 => KeysDiffer(Pending)
  /\ usage = "fresh" => /\ StrictlySorted(Settled)
                        /\ unprocessed > 0 => Keys(Pending) \cap Keys(Settled) = {}

BInv == IType /\ Uses

\* What is asked for, from what is settled (s), what waits (p) and its kind (u).
AskedOf(s, p, u) ==
  CASE u = 0 -> MapOf(s)
    [] u < 0 -> [k \in Keys(s) \ Keys(p) |-> Found(s, k)]
    [] u > 0 -> [k \in Keys(s) \cup Keys(p) |->
                   IF k \in Keys(p) THEN Found(p, k) ELSE Found(s, k)]

LEMMA PartsFacts ==
  ASSUME IType
  PROVE  /\ Settled \in Seq(Entry) /\ Pending \in Seq(Entry)
         /\ Keys(pairs) = Keys(Settled) \cup Keys(Pending)
         /\ unprocessed = 0 => Settled = pairs /\ Keys(Pending) = {}
<1> DEFINE w == Waiting
           n == Len(pairs)
<1>1. /\ pairs \in Seq(Entry) /\ n \in Nat /\ w \in 0..n /\ (unprocessed = 0 => w = 0)
  BY DEF IType, Waiting
<1> HIDE DEF w
<1>2. /\ Settled = SubSeq(pairs, 1, n - w) /\ Pending = SubSeq(pairs, n - w + 1, n)
  BY DEF Settled, Pending, w
<1>3. /\ Settled \in Seq(Entry) /\ Len(Settled) = n - w
      /\ \A i \in 1..(n - w) : Settled[i] = pairs[i]
  BY <1>1, <1>2
<1>4. /\ Pending \in Seq(Entry) /\ Len(Pending) = w
      /\ \A i \in 1..w : Pending[i] = pairs[n - w + i]
  BY <1>1, <1>2
<1>5. Keys(pairs) = Keys(Settled) \cup Keys(Pending)
  <2>1. ASSUME NEW i \in 1..n PROVE pairs[i].first \in Keys(Settled) \cup Keys(Pending)
    <3>1. CASE i <= n - w
      <4>1. i \in DOMAIN Settled /\ Settled[i] = pairs[i]
        BY <3>1, <1>1, <1>3
      <4> QED BY <4>1 DEF Keys
    <3>2. CASE i > n - w
      <4>1. i - (n - w) \in DOMAIN Pending /\ Pending[i - (n - w)] = pairs[i]
        BY <3>2, <1>1, <1>4
      <4> QED BY <4>1 DEF Keys
    <3> QED BY <3>1, <3>2, <1>1
  <2>2. ASSUME NEW i \in 1..(n - w) PROVE Settled[i].first \in Keys(pairs)
    <3>1. i \in DOMAIN pairs /\ Settled[i] = pairs[i]
      BY <1>1, <1>3
    <3> QED BY <3>1 DEF Keys
  <2>3. ASSUME NEW i \in 1..w PROVE Pending[i].first \in Keys(pairs)
    <3>1. n - w + i \in DOMAIN pairs /\ Pending[i] = pairs[n - w + i]
      BY <1>1, <1>4
    <3> QED BY <3>1 DEF Keys
  <2>4. DOMAIN pairs = 1..n /\ DOMAIN Settled = 1..(n - w) /\ DOMAIN Pending = 1..w
    BY <1>1, <1>3, <1>4
  <2> QED BY <2>1, <2>2, <2>3, <2>4 DEF Keys
<1>6. ASSUME unprocessed = 0 PROVE Settled = pairs /\ Keys(Pending) = {}
  <2>1. w = 0 /\ n - w = n
    BY <1>1, <1>6
  <2>2. Settled = pairs
    BY <2>1, <1>1, <1>2
  <2>3. DOMAIN Pending = {}
    BY <2>1, <1>4
  <2> QED BY <2>2, <2>3 DEF Keys
<1> QED BY <1>3, <1>4, <1>5, <1>6

\* One more entry waits, or is the first to wait behind a settled sequence.
LEMMA OneMore ==
  ASSUME NEW p \in Seq(Entry), NEW e \in Entry, NEW w \in 0..Len(p)
  PROVE  /\ Append(p, e) \in Seq(Entry) /\ Len(Append(p, e)) = Len(p) + 1
         /\ SubSeq(Append(p, e), 1, Len(p) - w) = SubSeq(p, 1, Len(p) - w)
         /\ SubSeq(Append(p, e), Len(p) - w + 1, Len(p) + 1)
              = SubSeq(p, Len(p) - w + 1, Len(p)) \o <<e>>
<1> DEFINE n == Len(p)
           q == Append(p, e)
<1>1. /\ n \in Nat /\ q \in Seq(Entry) /\ Len(q) = n + 1
      /\ \A i \in 1..n : q[i] = p[i]
      /\ q[n + 1] = e
  OBVIOUS
<1> HIDE DEF q
<1>2. SubSeq(q, 1, n - w) = SubSeq(p, 1, n - w)
  BY <1>1
<1>3. SubSeq(q, n - w + 1, n + 1) = SubSeq(p, n - w + 1, n) \o <<e>>
  <2> DEFINE a == SubSeq(q, n - w + 1, n + 1)
             b == SubSeq(p, n - w + 1, n)
             c == b \o <<e>>
  <2>1. a \in Seq(Entry) /\ Len(a) = w + 1 /\ \A i \in 1..(w + 1) : a[i] = q[n - w + i]
    BY <1>1
  <2>2. b \in Seq(Entry) /\ Len(b) = w /\ \A i \in 1..w : b[i] = p[n - w + i]
    BY <1>1
  <2>3. c \in Seq(Entry) /\ Len(c) = w + 1
    <3> HIDE DEF b
    <3> QED BY <2>2
  <2>4. \A i \in 1..(w + 1) : c[i] = IF i <= w THEN b[i] ELSE e
    <3> HIDE DEF b
    <3> QED BY <2>2
  <2>5. ASSUME NEW i \in 1..(w + 1) PROVE a[i] = c[i]
    <3> HIDE DEF a, b, c
    <3>1. CASE i <= w
      <4>1. n - w + i \in 1..n /\ i \in 1..w
        BY <3>1, <1>1
      <4> QED BY <4>1, <3>1, <2>1, <2>2, <2>4, <1>1
    <3>2. CASE i = w + 1
      <4>1. n - w + i = n + 1 /\ ~(i <= w)
        BY <3>2, <1>1
      <4> QED BY <4>1, <2>1, <2>4, <1>1
    <3> QED BY <3>1, <3>2, <1>1
  <2> HIDE DEF a, b, c
  <2>6. a = c
    BY <2>1, <2>3, <2>5, EntryFacts, EntryHasKeys
  <2> QED BY <2>6 DEF a, b, c
<1> QED BY <1>1, <1>2, <1>3 DEF q

LEMMA AddedFacts ==
  ASSUME NEW s \in Seq(Entry), KeysDiffer(s), NEW k \in Keys(s)
  PROVE  s[CHOOSE i \in DOMAIN s : s[i].first = k].second = Found(s, k)
<1> DEFINE c == CHOOSE i \in DOMAIN s : s[i].first = k
<1>1. \E i \in DOMAIN s : s[i].first = k
  BY DEF Keys
<1>2. c \in DOMAIN s /\ s[c].first = k
  BY <1>1
<1>3. c \in 1..Len(s)
  BY <1>2, EntryFacts, EntryHasKeys
<1> HIDE DEF c
<1>4. Found(s, s[c].first) = s[c].second
  BY <1>3, LookupOnly, EntryHasKeys
<1> QED BY <1>2, <1>4 DEF c

LEMMA AskedIs ==
  ASSUME BInv
  PROVE  Asked = AskedOf(Settled, Pending, unprocessed)
<1>1. /\ Settled \in Seq(Entry) /\ Pending \in Seq(Entry)
      /\ Keys(pairs) = Keys(Settled) \cup Keys(Pending)
      /\ unprocessed \in Int
  BY PartsFacts DEF BInv, IType
<1>2. \A k : get(k) = Found(Settled, k)
  BY Zenon DEF get, Found
<1>3. CASE unprocessed = 0
  <2>1. Asked = [k \in Keys(Settled) |-> get(k)]
    BY <1>3 DEF Asked
  <2>2. AskedOf(Settled, Pending, unprocessed) = [k \in Keys(Settled) |-> Found(Settled, k)]
    BY <1>3 DEF AskedOf, MapOf
  <2> QED BY <2>1, <2>2, <1>2
<1>4. CASE unprocessed < 0
  <2>1. Asked = [k \in Keys(Settled) \ Keys(Pending) |-> get(k)]
    BY <1>4, <1>1 DEF Asked
  <2>2. AskedOf(Settled, Pending, unprocessed)
          = [k \in Keys(Settled) \ Keys(Pending) |-> Found(Settled, k)]
    BY <1>4, <1>1 DEF AskedOf
  <2> QED BY <2>1, <2>2, <1>2
<1>5. CASE unprocessed > 0
  <2>0. \A k \in Keys(Pending) : Added(k) = Found(Pending, k)
    BY <1>1, <1>5, AddedFacts DEF Added, BInv, Uses
  <2>1. Asked = [k \in Keys(pairs) |-> IF k \in Keys(Pending) THEN Added(k) ELSE get(k)]
    BY <1>5, <1>1 DEF Asked
  <2>2. AskedOf(Settled, Pending, unprocessed)
          = [k \in Keys(pairs) |-> IF k \in Keys(Pending) THEN Found(Pending, k) ELSE Found(Settled, k)]
    BY <1>5, <1>1 DEF AskedOf
  <2>3. \A k \in Keys(pairs) : (IF k \in Keys(Pending) THEN Added(k) ELSE get(k))
          = IF k \in Keys(Pending) THEN Found(Pending, k) ELSE Found(Settled, k)
    BY <2>0, <1>2
  <2> QED BY <2>1, <2>2, <2>3
<1> QED BY <1>1, <1>3, <1>4, <1>5

\* Processing what waits changes nothing that is asked for.
LEMMA ProcessedFacts ==
  ASSUME BInv, NEW p \in Processed
  PROVE  /\ p \in Seq(Entry)
         /\ MapOf(p) = AskedOf(Settled, Pending, unprocessed)
         /\ usage = "fresh" => StrictlySorted(p)
<1>1. /\ Settled \in Seq(Entry) /\ Pending \in Seq(Entry) /\ pairs \in Seq(Entry)
      /\ unprocessed = 0 => Settled = pairs
      /\ unprocessed \in Int /\ usage \in {"fresh", "readd"}
  BY PartsFacts DEF BInv, IType
<1>2. CASE unprocessed = 0
  <2>1. p = Settled
    BY <1>1, <1>2 DEF Processed
  <2>2. AskedOf(Settled, Pending, unprocessed) = MapOf(Settled)
    BY <1>2 DEF AskedOf
  <2> QED BY <2>1, <2>2, <1>1 DEF BInv, Uses
<1>3. CASE unprocessed < 0
  <2>1. PICK y \in Sortings(Pending) : p = SetDifference(Settled, y)
    BY <1>1, <1>3 DEF Processed, updateRemove
  <2>2. usage = "fresh" /\ StrictlySorted(Settled)
    BY <1>1, <1>3 DEF BInv, Uses
  <2>3. y \in Seq(Entry) /\ Keys(y) = Keys(Pending)
    BY <1>1, SortingFacts, EntryHasKeys
  <2>4. IsPart(Entry, p, Settled, Nat \ Keys(y))
    BY <1>1, <2>1, <2>2, <2>3, DifferenceFacts, EntryHasKeys
  <2>5. Keys(Settled) \subseteq Nat
    BY <1>1, EntryFacts, EntryHasKeys DEF Keys
  <2>6. /\ p \in Seq(Entry) /\ Keys(p) = Keys(Settled) \ Keys(Pending) /\ StrictlySorted(p)
        /\ \A k \in Keys(p) : Found(p, k) = Found(Settled, k)
    BY <2>2, <2>3, <2>4, <2>5 DEF IsPart
  <2>7. MapOf(p) = [k \in Keys(Settled) \ Keys(Pending) |-> Found(Settled, k)]
    BY <2>6 DEF MapOf
  <2>8. AskedOf(Settled, Pending, unprocessed)
          = [k \in Keys(Settled) \ Keys(Pending) |-> Found(Settled, k)]
    BY <1>3, <1>1 DEF AskedOf
  <2> QED BY <2>6, <2>7, <2>8
<1>4. CASE unprocessed > 0
  <2>1. PICK y \in Sortings(Pending) : p = UnionLast(Settled, y)
    BY <1>1, <1>4 DEF Processed, updateAdd
  <2>2. /\ y \in Seq(Entry) /\ Keys(y) = Keys(Pending) /\ StrictlySorted(y)
        /\ \A k \in Keys(Pending) : Found(y, k) = Found(Pending, k)
    BY <1>1, <1>4, SortingFacts, EntryHasKeys DEF BInv, Uses
  <2>3. /\ p \in Seq(Entry) /\ Keys(p) = Keys(Settled) \cup Keys(Pending)
        /\ \A k \in Keys(Settled) \cup Keys(Pending) : Found(p, k)
             = IF k \in Keys(Pending) THEN Found(Pending, k) ELSE Found(Settled, k)
        /\ StrictlySorted(Settled) /\ Keys(Settled) \cap Keys(Pending) = {} => StrictlySorted(p)
    BY <1>1, <2>1, <2>2, UnionFacts, EntryHasKeys
  <2>4. MapOf(p) = [k \in Keys(Settled) \cup Keys(Pending) |->
                      IF k \in Keys(Pending) THEN Found(Pending, k) ELSE Found(Settled, k)]
    BY <2>3 DEF MapOf
  <2>5. AskedOf(Settled, Pending, unprocessed)
          = [k \in Keys(Settled) \cup Keys(Pending) |->
               IF k \in Keys(Pending) THEN Found(Pending, k) ELSE Found(Settled, k)]
    BY <1>4, <1>1 DEF AskedOf
  <2>6. usage = "fresh" => StrictlySorted(Settled) /\ Keys(Settled) \cap Keys(Pending) = {}
    BY <1>4 DEF BInv, Uses
  <2> QED BY <2>3, <2>4, <2>5, <2>6
<1> QED BY <1>1, <1>2, <1>3, <1>4

-----------------------------------------------------------------------------
(* The steps.  An edit either waits as the first one, behind a sequence    *)
(* that is processed, or behind others of its kind.                        *)

FirstWaits(e, u) ==
  /\ Settled' \in Processed /\ Pending' = <<e>> /\ unprocessed' = u
  /\ u \in {-1, 1} /\ IType'

AlsoWaits(e, u) ==
  /\ Settled' = Settled /\ Pending' = Pending \o <<e>> /\ unprocessed' = unprocessed + u
  /\ u \in {-1, 1} /\ (IF u = 1 THEN unprocessed > 0 ELSE unprocessed < 0) /\ IType'

LEMMA SingleFacts ==
  ASSUME NEW e \in Entry
  PROVE  /\ <<e>> \in Seq(Entry) /\ Keys(<<e>>) = {e.first} /\ KeysDiffer(<<e>>)
         /\ Found(<<e>>, e.first) = e.second
<1>1. <<e>> \in Seq(Entry) /\ DOMAIN <<e>> = 1..1 /\ Len(<<e>>) = 1 /\ <<e>>[1] = e
  OBVIOUS
<1>2. Keys(<<e>>) = {e.first}
  BY <1>1 DEF Keys
<1>3. KeysDiffer(<<e>>)
  BY <1>1 DEF KeysDiffer
<1>4. Found(<<e>>, <<e>>[1].first) = <<e>>[1].second
  <2> DEFINE s == <<e>>
  <2>1. s \in Seq(Entry) /\ KeysDiffer(s) /\ 1 \in 1..Len(s)
    BY <1>1, <1>3
  <2> HIDE DEF s
  <2>2. Found(s, s[1].first) = s[1].second
    BY <2>1, LookupOnly, EntryHasKeys
  <2> QED BY <2>2 DEF s
<1> QED BY <1>1, <1>2, <1>3, <1>4

\* p is what the edit is appended to.
LEMMA FirstWaitsIf ==
  ASSUME BInv, NEW e \in Entry, NEW p \in Processed, NEW u \in {-1, 1}, UNCHANGED usage,
         pairs' = Append(p, e), unprocessed' = u
  PROVE  FirstWaits(e, u)
<1>1. p \in Seq(Entry)
  BY ProcessedFacts
<1>2. Len(p) \in Nat
  BY <1>1
<1>3. Waiting' = 1
  BY DEF Waiting
<1>4. /\ pairs' \in Seq(Entry) /\ Len(pairs') = Len(p) + 1
      /\ SubSeq(pairs', 1, Len(p)) = SubSeq(p, 1, Len(p))
      /\ SubSeq(pairs', Len(p) + 1, Len(p) + 1) = SubSeq(p, Len(p) + 1, Len(p)) \o <<e>>
  <2>1. 0 \in 0..Len(p) /\ Len(p) - 0 = Len(p)
    BY <1>2
  <2> QED BY <1>1, <2>1, OneMore
<1>5. SubSeq(p, 1, Len(p)) = p /\ SubSeq(p, Len(p) + 1, Len(p)) = <<>> /\ <<>> \o <<e>> = <<e>>
  BY <1>1
<1>6. Settled' = p
  BY <1>2, <1>3, <1>4, <1>5 DEF Settled
<1>7. Pending' = <<e>>
  <2>1. Len(pairs') - Waiting' + 1 = Len(p) + 1 /\ Len(pairs') = Len(p) + 1
    BY <1>2, <1>3, <1>4
  <2>2. SubSeq(pairs', Len(p) + 1, Len(p) + 1) = <<e>>
    BY <1>4, <1>5
  <2> QED BY <2>1, <2>2 DEF Pending
<1>8. IType'
  BY <1>2, <1>3, <1>4 DEF BInv, IType
<1> QED BY <1>6, <1>7, <1>8 DEF FirstWaits

LEMMA AlsoWaitsIf ==
  ASSUME BInv, NEW e \in Entry, NEW u \in {-1, 1}, UNCHANGED usage,
         IF u = 1 THEN unprocessed > 0 ELSE unprocessed < 0,
         pairs' = Append(pairs, e), unprocessed' = unprocessed + u
  PROVE  AlsoWaits(e, u)
<1>1. pairs \in Seq(Entry) /\ unprocessed \in Int /\ Waiting <= Len(pairs) /\ Len(pairs) \in Nat
  BY DEF BInv, IType
<1>2. Waiting \in 0..Len(pairs) /\ Waiting' = Waiting + 1
  BY <1>1 DEF Waiting
<1>3. /\ pairs' \in Seq(Entry) /\ Len(pairs') = Len(pairs) + 1
      /\ SubSeq(pairs', 1, Len(pairs) - Waiting) = SubSeq(pairs, 1, Len(pairs) - Waiting)
      /\ SubSeq(pairs', Len(pairs) - Waiting + 1, Len(pairs) + 1)
           = SubSeq(pairs, Len(pairs) - Waiting + 1, Len(pairs)) \o <<e>>
  BY <1>1, <1>2, OneMore
<1>4. Len(pairs') - Waiting' = Len(pairs) - Waiting
  BY <1>1, <1>2, <1>3
<1>5. Settled' = Settled
  BY <1>3, <1>4 DEF Settled
<1>6. Pending' = Pending \o <<e>>
  BY <1>3, <1>4 DEF Pending
<1>7. IType'
  BY <1>1, <1>2, <1>3 DEF BInv, IType
<1> QED BY <1>5, <1>6, <1>7 DEF AlsoWaits

\* Every addition and removal is one of the two.
Edit(k, v) == [first |-> k, second |-> v]

LEMMA RemoveWaits ==
  ASSUME BInv, NEW k \in Key, Remove(k), UNCHANGED usage
  PROVE  /\ usage = "fresh"
         /\ FirstWaits(Edit(k, Blank), -1) \/ AlsoWaits(Edit(k, Blank), -1)
<1>1. Edit(k, Blank) \in Entry /\ unprocessed \in Int
  BY DEF Edit, Entry, BInv, IType
<1>2. CASE unprocessed > 0
  <2>1. PICK p \in Processed : pairs' = Append(p, Edit(k, Blank))
    BY <1>2 DEF Remove, remove, Edit, Processed
  <2>2. unprocessed' = -1
    BY <1>2 DEF Remove, remove
  <2> QED BY <1>1, <2>1, <2>2, FirstWaitsIf DEF Remove
<1>3. CASE unprocessed = 0
  <2>1. pairs \in Processed /\ pairs' = Append(pairs, Edit(k, Blank))
    BY <1>3 DEF Remove, remove, Edit, Processed
  <2>2. unprocessed' = -1
    BY <1>3 DEF Remove, remove
  <2> QED BY <1>1, <2>1, <2>2, FirstWaitsIf DEF Remove
<1>4. CASE unprocessed < 0
  <2>1. pairs' = Append(pairs, Edit(k, Blank)) /\ unprocessed' = unprocessed + (-1)
    BY <1>1, <1>4 DEF Remove, remove, Edit
  <2>2. IF -1 = 1 THEN unprocessed > 0 ELSE unprocessed < 0
    BY <1>4
  <2> QED BY <1>1, <2>1, <2>2, AlsoWaitsIf DEF Remove
<1> QED BY <1>1, <1>2, <1>3, <1>4

LEMMA AddWaits ==
  ASSUME BInv, NEW k \in Key, NEW v \in Value, Add(k, v), UNCHANGED usage
  PROVE  FirstWaits(Edit(k, v), 1) \/ AlsoWaits(Edit(k, v), 1)
<1>1. Edit(k, v) \in Entry /\ unprocessed \in Int
  BY DEF Edit, Entry, BInv, IType
<1>2. CASE unprocessed < 0
  <2>1. PICK p \in Processed : pairs' = Append(p, Edit(k, v))
    BY <1>1, <1>2 DEF Add, add, Edit, Processed
  <2>2. unprocessed' = 1
    BY <1>2 DEF Add, add
  <2> QED BY <1>1, <2>1, <2>2, FirstWaitsIf
<1>3. CASE unprocessed = 0
  <2>1. pairs \in Processed /\ pairs' = Append(pairs, Edit(k, v))
    BY <1>3 DEF Add, add, Edit, Processed
  <2>2. unprocessed' = 1
    BY <1>3 DEF Add, add
  <2> QED BY <1>1, <2>1, <2>2, FirstWaitsIf
<1>4. CASE unprocessed > 0
  <2>1. pairs' = Append(pairs, Edit(k, v)) /\ unprocessed' = unprocessed + 1
    BY <1>1, <1>4 DEF Add, add, Edit
  <2> QED BY <1>1, <1>4, <2>1, AlsoWaitsIf
<1> QED BY <1>1, <1>2, <1>3, <1>4

-----------------------------------------------------------------------------
(* What the edits do to the map, and that they keep the invariant.         *)

\* Before and after an edit, the map that is asked for.
Before == AskedOf(Settled, Pending, unprocessed)
After == AskedOf(Settled', Pending', unprocessed')

LEMMA AskedRemoving ==
  ASSUME NEW s, NEW p, NEW u \in Int, u < 0
  PROVE  AskedOf(s, p, u) = [k \in Keys(s) \ Keys(p) |-> Found(s, k)]
<1>1. ~(u = 0) /\ ~(u > 0)
  OBVIOUS
<1> QED BY <1>1 DEF AskedOf

LEMMA BeforeDomain ==
  ASSUME BInv
  PROVE  DOMAIN Before =
           IF unprocessed < 0 THEN Keys(Settled) \ Keys(Pending) ELSE Keys(Settled) \cup Keys(Pending)
<1>1. unprocessed \in Int /\ (unprocessed = 0 => Keys(Pending) = {})
  BY PartsFacts DEF BInv, IType
<1>2. CASE unprocessed = 0
  BY <1>1, <1>2 DEF Before, AskedOf, MapOf
<1>3. CASE unprocessed < 0
  BY <1>1, <1>3 DEF Before, AskedOf
<1>4. CASE unprocessed > 0
  BY <1>1, <1>4 DEF Before, AskedOf
<1> QED BY <1>1, <1>2, <1>3, <1>4

LEMMA AddFirst ==
  ASSUME BInv, NEW k \in Key, NEW v \in Value, Add(k, v), UNCHANGED usage,
         FirstWaits(Edit(k, v), 1)
  PROVE  BInv' /\ After = [n \in DOMAIN Before \cup {k} |-> IF n = k THEN v ELSE Before[n]]
<1> DEFINE b == Settled'
           e == Edit(k, v)
<1>1. /\ b \in Seq(Entry) /\ MapOf(b) = Before
      /\ usage = "fresh" => StrictlySorted(b)
  BY ProcessedFacts DEF FirstWaits, Before
<1>2. e \in Entry /\ e.first = k /\ e.second = v
  BY DEF Edit, Entry
<1> HIDE DEF e
<1>3. Pending' = <<e>> /\ unprocessed' = 1 /\ IType'
  BY DEF FirstWaits, e
<1>4. Keys(Pending') = {k} /\ KeysDiffer(Pending') /\ Found(Pending', k) = v
  BY <1>2, <1>3, SingleFacts
<1>5. DOMAIN Before = Keys(b) /\ \A n \in Keys(b) : Before[n] = Found(b, n)
  <2>1. Before = [n \in Keys(b) |-> Found(b, n)]
    BY <1>1 DEF MapOf
  <2> HIDE DEF Before
  <2> QED BY <2>1
<1>6. After = [n \in Keys(b) \cup {k} |-> IF n \in {k} THEN Found(Pending', n) ELSE Found(b, n)]
  BY <1>3, <1>4 DEF After, AskedOf
<1>7. After = [n \in DOMAIN Before \cup {k} |-> IF n = k THEN v ELSE Before[n]]
  <2> HIDE DEF After, Before, b
  <2>1. \A n \in Keys(b) \cup {k} :
          (IF n \in {k} THEN Found(Pending', n) ELSE Found(b, n)) = IF n = k THEN v ELSE Before[n]
    BY <1>4, <1>5
  <2> QED BY <1>5, <1>6, <2>1
<1>8. usage = "fresh" => k \notin Keys(b)
  <2> SUFFICES ASSUME usage = "fresh" PROVE k \notin DOMAIN Before
    BY <1>5
  <2>0. k \in Addable /\ ~(usage = "readd")
    BY DEF Add
  <2>1. k \notin (IF unprocessed < 0 THEN Keys(Settled) \ Keys(Pending) ELSE Keys(pairs))
    BY <2>0 DEF Addable
  <2>2. Keys(pairs) = Keys(Settled) \cup Keys(Pending)
    BY PartsFacts DEF BInv
  <2> QED BY <2>1, <2>2, BeforeDomain
<1>9. Uses'
  BY <1>1, <1>3, <1>4, <1>8 DEF Uses
<1> QED BY <1>3, <1>7, <1>9 DEF BInv

LEMMA AddAnother ==
  ASSUME BInv, NEW k \in Key, NEW v \in Value, Add(k, v), UNCHANGED usage,
         AlsoWaits(Edit(k, v), 1)
  PROVE  BInv' /\ After = [n \in DOMAIN Before \cup {k} |-> IF n = k THEN v ELSE Before[n]]
<1> DEFINE s == Settled
           p == Pending
           e == Edit(k, v)
<1>1. /\ s \in Seq(Entry) /\ p \in Seq(Entry) /\ Keys(pairs) = Keys(s) \cup Keys(p)
      /\ unprocessed \in Int
  BY PartsFacts DEF BInv, IType
<1>2. e \in Entry /\ e.first = k /\ e.second = v
  BY DEF Edit, Entry
<1> HIDE DEF e
<1>3. /\ Settled' = s /\ Pending' = p \o <<e>> /\ unprocessed' = unprocessed + 1 /\ unprocessed > 0
      /\ IType'
  BY DEF AlsoWaits, e
<1>4. KeysDiffer(p)
  BY <1>3 DEF BInv, Uses
<1>5. k \notin Keys(p) /\ (usage = "fresh" => k \notin Keys(s))
  <2>1. k \in Addable
    BY DEF Add
  <2>2. CASE usage = "readd"
    BY <2>1, <2>2, <1>3 DEF Addable
  <2>3. CASE usage = "fresh"
    <3>1. ~(usage = "readd") /\ ~(unprocessed < 0)
      BY <2>3, <1>1, <1>3
    <3>2. k \notin Keys(pairs)
      BY <2>1, <3>1 DEF Addable
    <3> QED BY <3>2, <1>1
  <2> QED BY <2>2, <2>3 DEF BInv, IType
<1>6. <<e>> \in Seq(Entry) /\ Keys(<<e>>) = {k} /\ KeysDiffer(<<e>>) /\ Found(<<e>>, k) = v
  BY <1>2, SingleFacts
<1> HIDE DEF s, p
<1>7. /\ Keys(Pending') = Keys(p) \cup {k} /\ KeysDiffer(Pending')
      /\ Found(Pending', k) = v
      /\ \A n \in Keys(p) : Found(Pending', n) = Found(p, n)
  <2> DEFINE q == <<e>>
  <2>1. q \in Seq(Entry) /\ Keys(q) = {k} /\ KeysDiffer(q) /\ Found(q, k) = v
    BY <1>6
  <2> HIDE DEF q
  <2>2. /\ Keys(p \o q) = Keys(p) \cup Keys(q)
        /\ \A n \in Keys(p) : Found(p \o q, n) = Found(p, n)
        /\ \A n \in Keys(q) \ Keys(p) : Found(p \o q, n) = Found(q, n)
    BY <1>1, <2>1, ConcatFacts, EntryHasKeys
  <2>3. Keys(p) \cap Keys(q) = {}
    BY <1>5, <2>1
  <2>4. KeysDiffer(p \o q)
    BY <1>1, <1>4, <2>1, <2>3, ConcatFacts, EntryHasKeys
  <2>5. Pending' = p \o q
    BY <1>3 DEF q
  <2> QED BY <1>5, <2>1, <2>2, <2>4, <2>5
<1>8. Before = [n \in Keys(s) \cup Keys(p) |-> IF n \in Keys(p) THEN Found(p, n) ELSE Found(s, n)]
  BY <1>1, <1>3 DEF Before, AskedOf, s, p
<1>9. After = [n \in Keys(s) \cup (Keys(p) \cup {k}) |->
                 IF n \in Keys(p) \cup {k} THEN Found(Pending', n) ELSE Found(s, n)]
  <2>1. unprocessed' \in Int /\ unprocessed' > 0
    BY <1>1, <1>3
  <2>2. After = [n \in Keys(Settled') \cup Keys(Pending') |->
                   IF n \in Keys(Pending') THEN Found(Pending', n) ELSE Found(Settled', n)]
    <3> DEFINE a == Settled'
               q == Pending'
               u == unprocessed'
    <3>1. u > 0 /\ ~(u = 0) /\ ~(u < 0)
      BY <2>1
    <3> HIDE DEF a, q, u
    <3>2. AskedOf(a, q, u) = [n \in Keys(a) \cup Keys(q) |->
                                IF n \in Keys(q) THEN Found(q, n) ELSE Found(a, n)]
      BY <3>1 DEF AskedOf
    <3> QED BY <3>2 DEF After, a, q, u
  <2>3. Settled' = s /\ Keys(Pending') = Keys(p) \cup {k}
    BY <1>3, <1>7
  <2> HIDE DEF After
  <2> QED BY <2>2, <2>3
<1>10. After = [n \in DOMAIN Before \cup {k} |-> IF n = k THEN v ELSE Before[n]]
  <2> HIDE DEF After, Before
  <2>1. \A n \in Keys(s) \cup (Keys(p) \cup {k}) :
          (IF n \in Keys(p) \cup {k} THEN Found(Pending', n) ELSE Found(s, n))
            = IF n = k THEN v ELSE Before[n]
    BY <1>5, <1>7, <1>8
  <2>2. DOMAIN Before \cup {k} = Keys(s) \cup (Keys(p) \cup {k})
    BY <1>8
  <2> QED BY <1>9, <2>1, <2>2
<1>11. Uses'
  <2>1. unprocessed' > 0
    BY <1>1, <1>3
  <2>2. usage = "fresh" => StrictlySorted(Settled') /\ Keys(Pending') \cap Keys(Settled') = {}
    BY <1>3, <1>5, <1>7 DEF BInv, Uses, s, p
  <2>3. unprocessed' >= 0
    BY <1>1, <1>3
  <2> QED BY <2>1, <2>2, <2>3, <1>7 DEF Uses
<1> QED BY <1>3, <1>10, <1>11 DEF BInv

LEMMA RemoveFirst ==
  ASSUME BInv, NEW k \in Key, usage = "fresh", UNCHANGED usage, FirstWaits(Edit(k, Blank), -1)
  PROVE  BInv' /\ After = [n \in DOMAIN Before \ {k} |-> Before[n]]
<1> DEFINE b == Settled'
           e == Edit(k, Blank)
<1>1. b \in Seq(Entry) /\ MapOf(b) = Before /\ StrictlySorted(b)
  BY ProcessedFacts DEF FirstWaits, Before
<1>2. e \in Entry /\ e.first = k
  BY DEF Edit, Entry
<1> HIDE DEF e
<1>3. Pending' = <<e>> /\ unprocessed' = -1 /\ IType'
  BY DEF FirstWaits, e
<1>4. Keys(Pending') = {k}
  BY <1>2, <1>3, SingleFacts
<1>5. DOMAIN Before = Keys(b) /\ \A n \in Keys(b) : Before[n] = Found(b, n)
  <2>1. Before = [n \in Keys(b) |-> Found(b, n)]
    BY <1>1 DEF MapOf
  <2> HIDE DEF Before
  <2> QED BY <2>1
<1>6. After = [n \in Keys(b) \ {k} |-> Found(b, n)]
  BY <1>3, <1>4 DEF After, AskedOf
<1>7. After = [n \in DOMAIN Before \ {k} |-> Before[n]]
  <2> HIDE DEF After, Before, b
  <2> QED BY <1>5, <1>6
<1>8. Uses'
  BY <1>1, <1>3 DEF Uses
<1> QED BY <1>3, <1>7, <1>8 DEF BInv

LEMMA RemoveAnother ==
  ASSUME BInv, NEW k \in Key, usage = "fresh", UNCHANGED usage, AlsoWaits(Edit(k, Blank), -1)
  PROVE  BInv' /\ After = [n \in DOMAIN Before \ {k} |-> Before[n]]
<1> DEFINE s == Settled
           p == Pending
           e == Edit(k, Blank)
<1>1. s \in Seq(Entry) /\ p \in Seq(Entry) /\ unprocessed \in Int
  BY PartsFacts DEF BInv, IType
<1>2. e \in Entry /\ e.first = k
  BY DEF Edit, Entry
<1> HIDE DEF e
<1>3. /\ Settled' = s /\ Pending' = p \o <<e>> /\ unprocessed' = unprocessed + (-1) /\ unprocessed < 0
      /\ IType'
  BY DEF AlsoWaits, e
<1>4. Keys(Pending') = Keys(p) \cup {k}
  <2> DEFINE q == <<e>>
  <2>1. q \in Seq(Entry) /\ Keys(q) = {k}
    BY <1>2, SingleFacts
  <2>2. Pending' = p \o q
    BY <1>3
  <2> HIDE DEF p, q
  <2>3. Keys(p \o q) = Keys(p) \cup Keys(q)
    BY <1>1, <2>1, ConcatFacts, EntryHasKeys
  <2> QED BY <2>1, <2>2, <2>3
<1>5. Before = [n \in Keys(s) \ Keys(p) |-> Found(s, n)]
  BY <1>1, <1>3 DEF Before, AskedOf
<1>6. After = [n \in Keys(s) \ (Keys(p) \cup {k}) |-> Found(s, n)]
  <2>1. unprocessed' \in Int /\ unprocessed' < 0
    BY <1>1, <1>3
  <2>2. After = [n \in Keys(Settled') \ Keys(Pending') |-> Found(Settled', n)]
    BY <2>1, AskedRemoving DEF After
  <2> HIDE DEF After
  <2> QED BY <1>3, <1>4, <2>2
<1>7. After = [n \in DOMAIN Before \ {k} |-> Before[n]]
  <2> HIDE DEF After, Before, s, p
  <2>1. DOMAIN Before \ {k} = Keys(s) \ (Keys(p) \cup {k})
    BY <1>5
  <2> QED BY <1>5, <1>6, <2>1
<1>8. Uses'
  <2>1. ~(unprocessed' > 0) /\ StrictlySorted(Settled')
    BY <1>1, <1>3 DEF BInv, Uses
  <2> QED BY <2>1 DEF Uses
<1> QED BY <1>3, <1>7, <1>8 DEF BInv

-----------------------------------------------------------------------------
(* The theorems.                                                           *)

LEMMA UpdateKeeps ==
  ASSUME BInv, update, UNCHANGED usage
  PROVE  BInv' /\ After = Before
<1>1. /\ pairs' \in Seq(Entry) /\ MapOf(pairs') = Before
      /\ usage = "fresh" => StrictlySorted(pairs')
  BY ProcessedFacts DEF update, Before
<1>2. unprocessed' = 0 /\ Waiting' = 0
  BY DEF update, Waiting
<1>3. Settled' = pairs'
  <2>1. SubSeq(pairs', 1, Len(pairs')) = pairs'
    BY <1>1
  <2>2. Len(pairs') \in Nat
    BY <1>1
  <2>3. Len(pairs') - Waiting' = Len(pairs')
    BY <1>2, <2>2
  <2> QED BY <2>1, <2>3 DEF Settled
<1>4. IType'
  <2>1. Len(pairs') \in Nat
    BY <1>1
  <2> QED BY <1>1, <1>2, <2>1 DEF BInv, IType
<1>5. Uses'
  BY <1>1, <1>2, <1>3 DEF Uses
<1>6. After = MapOf(Settled')
  BY <1>2 DEF After, AskedOf
<1> QED BY <1>1, <1>3, <1>4, <1>5, <1>6 DEF BInv

\* An empty container.
LEMMA NothingAsked ==
  ASSUME NEW s, s = <<>>, NEW p
  PROVE  s \in Seq(Entry) /\ StrictlySorted(s) /\ AskedOf(s, p, 0) = [k \in {} |-> 0]
<1>1. s \in Seq(Entry) /\ DOMAIN s = {}
  OBVIOUS
<1>2. Keys(s) = {} /\ StrictlySorted(s)
  BY <1>1 DEF Keys, StrictlySorted
<1>3. AskedOf(s, p, 0) = MapOf(s)
  BY DEF AskedOf
<1>4. [k \in {} |-> Found(s, k)] = [k \in {} |-> 0]
  OBVIOUS
<1> QED BY <1>1, <1>2, <1>3, <1>4 DEF MapOf

LEMMA ClearKeeps ==
  ASSUME BInv, clear, UNCHANGED usage
  PROVE  BInv' /\ After = [k \in {} |-> 0]
<1>1. pairs' = <<>> /\ unprocessed' = 0 /\ Waiting' = 0
  BY DEF clear, Waiting
<1>2. Settled' = <<>>
  BY <1>1 DEF Settled
<1>3. /\ <<>> \in Seq(Entry) /\ Len(<<>>) = 0
      /\ StrictlySorted(Settled') /\ After = [k \in {} |-> 0]
  BY <1>1, <1>2, NothingAsked DEF After
<1>4. IType'
  BY <1>1, <1>3 DEF BInv, IType
<1>5. Uses'
  BY <1>1, <1>3 DEF Uses
<1> QED BY <1>3, <1>4, <1>5 DEF BInv

LEMMA InitBitset == Init => BInv /\ M!Init
<1> SUFFICES ASSUME Init PROVE BInv /\ M!Init
  OBVIOUS
<1>1. pairs = <<>> /\ unprocessed = 0 /\ usage \in {"fresh", "readd"} /\ Waiting = 0
  BY DEF Init, Waiting
<1>2. Settled = <<>>
  BY <1>1 DEF Settled
<1>3. /\ <<>> \in Seq(Entry) /\ Len(<<>>) = 0
      /\ StrictlySorted(Settled) /\ Before = [k \in {} |-> 0]
  BY <1>1, <1>2, NothingAsked DEF Before
<1>4. BInv
  BY <1>1, <1>3 DEF BInv, IType, Uses
<1>5. Asked = Before
  BY <1>4, AskedIs DEF Before
<1> QED BY <1>3, <1>4, <1>5 DEF M!Init

LEMMA EditIsStep ==
  ASSUME BInv, [Next]_vars
  PROVE  /\ BInv'
         /\ \/ \E k \in Key : \/ After = [n \in DOMAIN Before \ {k} |-> Before[n]]
                              \/ \E v \in Value : After = [n \in DOMAIN Before \cup {k} |->
                                                             IF n = k THEN v ELSE Before[n]]
            \/ After = [k \in {} |-> 0]
            \/ After = Before
<1>1. CASE UNCHANGED vars
  <2>1. Settled' = Settled /\ Pending' = Pending /\ unprocessed' = unprocessed
    BY <1>1 DEF vars, Settled, Pending, Waiting
  <2>2. BInv'
    BY <1>1 DEF vars, BInv, IType, Uses, Settled, Pending, Waiting
  <2> QED BY <2>1, <2>2 DEF After, Before
<1>2. ASSUME Next PROVE UNCHANGED usage
  BY <1>2 DEF Next
<1>3. ASSUME NEW k \in Key, Remove(k), UNCHANGED usage
      PROVE  BInv' /\ After = [n \in DOMAIN Before \ {k} |-> Before[n]]
  BY <1>3, RemoveWaits, RemoveFirst, RemoveAnother
<1>4. ASSUME NEW k \in Key, NEW v \in Value, Add(k, v), UNCHANGED usage
      PROVE  BInv' /\ After = [n \in DOMAIN Before \cup {k} |-> IF n = k THEN v ELSE Before[n]]
  BY <1>4, AddWaits, AddFirst, AddAnother
<1> QED BY <1>1, <1>2, <1>3, <1>4, UpdateKeeps, ClearKeeps DEF Next

\* Whatever is added and removed, callers that add absent keys only see each
\* key once, also while edits wait and however an unstable sort orders them.
THEOREM KeysOccurOnce == Spec => []OneEntryPerKey
<1>1. Init => BInv
  BY InitBitset
<1>2. BInv /\ [Next]_vars => BInv'
  BY EditIsStep
<1>3. BInv => OneEntryPerKey
  BY DEF BInv, Uses, OneEntryPerKey
<1> QED BY <1>1, <1>2, <1>3, PTL DEF Spec

\* add, remove, update and clear of the container are those of a map.
LEMMA AskedBefore == BInv => Asked = Before
  BY AskedIs DEF Before

THEOREM BitsetIsMap == Spec => ImplementsKeyMap
<1>1. Init => BInv /\ M!Init
  BY InitBitset
<1>2. BInv /\ [Next]_vars => BInv'
  BY EditIsStep
<1>3. (BInv => Asked = Before)'
  BY AskedBefore, PTL
<1>4. BInv /\ [Next]_vars => [M!Next]_Asked
  <2> SUFFICES ASSUME BInv, [Next]_vars PROVE [M!Next]_Asked
    OBVIOUS
  <2>1. Asked = Before /\ Asked' = Before'
    BY <1>2, <1>3, AskedBefore
  <2>2. Before' = After
    BY DEF Before, After
  <2> HIDE DEF Before, After
  <2>3. CASE After = Before
    BY <2>1, <2>2, <2>3
  <2>4. CASE After = [k \in {} |-> 0]
    BY <2>1, <2>2, <2>4 DEF M!Next, M!Empty
  <2>5. CASE \E k \in Key : After = [n \in DOMAIN Before \ {k} |-> Before[n]]
    <3>1. PICK k \in Key : After = [n \in DOMAIN Before \ {k} |-> Before[n]]
      BY <2>5
    <3>2. M!Delete(k)
      BY <2>1, <2>2, <3>1 DEF M!Delete
    <3> QED BY <3>2 DEF M!Next
  <2>6. CASE \E k \in Key, v \in Value :
               After = [n \in DOMAIN Before \cup {k} |-> IF n = k THEN v ELSE Before[n]]
    <3>1. PICK k \in Key, v \in Value :
            After = [n \in DOMAIN Before \cup {k} |-> IF n = k THEN v ELSE Before[n]]
      BY <2>6
    <3>2. M!Put(k, v)
      BY <2>1, <2>2, <3>1 DEF M!Put
    <3> QED BY <3>2 DEF M!Next
  <2> QED BY <2>3, <2>4, <2>5, <2>6, EditIsStep
<1> QED BY <1>1, <1>2, <1>4, PTL DEF Spec, ImplementsKeyMap, M!Spec
=============================================================================
