----------------------- MODULE AccountDigraph_proofs -----------------------
(***************************************************************************)
(* The digraph that Louvain gets, for every store, number of threads and   *)
(* chunk size: no thread of a parallel region touches the vertices that    *)
(* all of them index, and the rows do not depend on the schedule.          *)
(***************************************************************************)
EXTENDS AccountDigraph, Operators_proofs

Entry == [first : Accounts, second : Int]

\* Out-going and in-coming edges of an account, and their weights.
Out(u) == { v \in Accounts : <<u, v>> \in DOMAIN account_graph }
In(u) == { v \in Accounts : <<v, u>> \in DOMAIN account_graph }
OutWeight(u) == [v \in Accounts |-> IF v \in Out(u) THEN account_graph[<<u, v>>] ELSE 0]
InWeight(u) == [v \in Accounts |-> IF v \in In(u) THEN account_graph[<<v, u>>] ELSE 0]

\* s has an entry for each key of K, with the value that f gives it.
Holds(s, K, f) ==
  /\ s \in Seq(Entry) /\ Keys(s) = K /\ KeysDiffer(s)
  /\ \A i \in 1..Len(s) : s[i].second = f[s[i].first]

\* The vertices: all accounts, or none where one account has no edge.
IsGraph(g) == g = [exists |-> g.exists, edges |-> g.edges, order |-> g.order, size |-> g.size]
Full(g) == g.exists = [u \in Accounts |-> TRUE] /\ DOMAIN g.edges = Accounts
Bare(g) == num_accounts = 1 /\ DOMAIN g.exists = {} /\ DOMAIN g.edges = {}
Shape(g) == IsGraph(g) /\ (Full(g) \/ Bare(g))

\* A row whose first part is settled and to which p was added.
Appended(row, s, p) == row = [pairs |-> s \o p, unprocessed |-> Len(p)]

\* g is the digraph while edges are added, d is what remains to be done.
Loaded(g, d) ==
  /\ Shape(g) /\ d \in [Accounts -> SUBSET Accounts]
  /\ \A u \in Accounts : d[u] \subseteq Out(u)
  /\ Bare(g) => g = NoGraph /\ \A u \in Accounts : d[u] = Out(u)
  /\ \A u \in DOMAIN g.edges :
       /\ Appended(g.edges[u], <<>>, g.edges[u].pairs)
       /\ Holds(g.edges[u].pairs, Out(u) \ d[u], OutWeight(u))

Owner(v) == (v \div ChunkSize) % THREADS

\* Where the first n edges of a list to v come from.
Sources(L, v, n) == { L[i].source : i \in { j \in 1..n : L[j].target = v } }

\* g is swept, to h its reverse edges are added, thread t is before p[t].
Reversed(g, h, p) ==
  /\ Shape(g) /\ Shape(h) /\ DOMAIN h.edges = DOMAIN g.edges
  /\ \A u \in DOMAIN g.edges : g.edges[u] = [pairs |-> OutRow(u), unprocessed |-> 0]
  /\ \A t \in Threads : p[t] \in 1..(Len(EdgeList(g)) + 1)
  /\ \A v \in DOMAIN h.edges :
       /\ Appended(h.edges[v], OutRow(v), Pending(h.edges[v]))
       /\ Holds(Pending(h.edges[v]), Sources(EdgeList(g), v, p[Owner(v)] - 1), InWeight(v))

AInv ==
  /\ DOMAIN account_graph \subseteq Accounts \X Accounts
  /\ \A e \in DOMAIN account_graph : account_graph[e] \in Nat
  /\ pos \in [Threads -> Nat]
  /\ pc \in {"vertices", "load", "reverse", "done"}
  /\ pc \in {"vertices", "load"} => \A t \in Threads : pos[t] = 1
  /\ pc = "vertices" => x = NoGraph /\ todo = [u \in Accounts |-> Out(u)]
  /\ pc = "load" => Loaded(x, todo)
  /\ pc = "reverse" => Reversed(x, a, pos)
  /\ pc = "done" => Shape(x) /\ Shape(a) /\ ScheduleIndependent

-----------------------------------------------------------------------------
(* The rows that are expected.                                             *)

LEMMA EntryHasKeys ==
  HasKeys(Entry) /\ \A e \in Entry : e = [first |-> e.first, second |-> e.second]
  BY DigraphAssumption DEF HasKeys, Entry, Accounts

LEMMA HoldsUnique ==
  ASSUME NEW K, NEW f, NEW s, NEW t, Holds(s, K, f), Holds(t, K, f),
         StrictlySorted(s), StrictlySorted(t)
  PROVE  s = t
<1>1. s \in Seq(Entry) /\ t \in Seq(Entry) /\ Keys(s) = K /\ Keys(t) = K
      /\ KeysDiffer(s) /\ KeysDiffer(t)
  BY DEF Holds
<1>2. ASSUME NEW k \in K, NEW r, Holds(r, K, f) PROVE Found(r, k) = f[k]
  <2>1. r \in Seq(Entry) /\ k \in Keys(r)
    BY <1>2 DEF Holds
  <2>2. PICK i \in 1..Len(r) : r[i].first = k /\ Found(r, k) = r[i].second
    BY <2>1, LookupFound, EntryHasKeys
  <2> QED BY <1>2, <2>2 DEF Holds
<1>3. \A k \in Keys(s) : Found(s, k) = Found(t, k)
  BY <1>1, <1>2
<1> QED BY <1>1, <1>3, StrictUnique, EntryHasKeys

\* The entries that f gives to a set of accounts, in ascending order.
RowOf(K, f) ==
  At([i \in 1..num_accounts |-> [first |-> i - 1, second |-> IF i - 1 \in K THEN f[i - 1] ELSE 0]],
     { v + 1 : v \in K })

LEMMA RowFacts ==
  ASSUME NEW K \in SUBSET Accounts, NEW f, \A k \in K : f[k] \in Int
  PROVE  Holds(RowOf(K, f), K, f) /\ StrictlySorted(RowOf(K, f))
<1> DEFINE s == [i \in 1..num_accounts |->
                   [first |-> i - 1, second |-> IF i - 1 \in K THEN f[i - 1] ELSE 0]]
           r == RowOf(K, f)
<1>1. num_accounts \in Nat
  BY DigraphAssumption
<1>2. \A i \in 1..num_accounts : s[i] \in Entry /\ s[i].first = i - 1
                                 /\ (i - 1 \in K => s[i].second = f[i - 1])
  BY <1>1 DEF Entry, Accounts
<1>3. s \in Seq(Entry) /\ Len(s) = num_accounts /\ DOMAIN s = 1..num_accounts
  <2>1. s = [i \in 1..num_accounts |-> s[i]] /\ DOMAIN s = 1..num_accounts
    OBVIOUS
  <2> HIDE DEF s
  <2> QED BY <1>1, <1>2, <2>1, EntriesFrom
<1>4. { v + 1 : v \in K } = { i \in DOMAIN s : s[i].first \in K }
  <2> HIDE DEF s
  <2>1. ASSUME NEW v \in K PROVE v + 1 \in DOMAIN s /\ s[v + 1].first \in K
    BY <1>1, <1>2, <1>3 DEF Accounts
  <2>2. ASSUME NEW i \in DOMAIN s, s[i].first \in K PROVE \E v \in K : i = v + 1
    <3>1. i - 1 \in K /\ i = (i - 1) + 1
      BY <1>1, <1>2, <1>3, <2>2
    <3> QED BY <3>1
  <2> QED BY <2>1, <2>2
<1>5. r = At(s, { i \in DOMAIN s : s[i].first \in K })
  <2>1. r = At(s, { v + 1 : v \in K })
    BY DEF RowOf
  <2> QED BY <1>4, <2>1
<1> HIDE DEF r, s
<1>6. IsPart(Entry, r, s, K)
  BY <1>3, <1>5, PartByKeys, EntryHasKeys
<1>7. StrictlySorted(s)
  BY <1>1, <1>2, <1>3 DEF StrictlySorted
<1>8. Keys(s) \cap K = K
  <2>1. ASSUME NEW k \in K PROVE k \in Keys(s)
    <3>1. k + 1 \in DOMAIN s /\ s[k + 1].first = k
      BY <1>1, <1>2, <1>3 DEF Accounts
    <3> QED BY <3>1 DEF Keys
  <2> QED BY <2>1
<1>9. /\ r \in Seq(Entry) /\ Keys(r) = K /\ StrictlySorted(r) /\ KeysDiffer(r)
      /\ \A k \in K : Found(r, k) = Found(s, k)
  <2>1. KeysDiffer(s)
    BY <1>3, <1>7, StrictIsDistinct, EntryHasKeys
  <2> QED BY <1>6, <1>7, <1>8, <2>1 DEF IsPart
<1>10. ASSUME NEW i \in 1..Len(r) PROVE r[i].second = f[r[i].first]
  <2> DEFINE k == r[i].first
  <2>1. Found(r, k) = r[i].second /\ k \in K
    <3>1. k \in Keys(r)
      BY <1>9, EntryFacts, EntryHasKeys DEF Keys
    <3> QED BY <1>9, <3>1, LookupOnly, EntryHasKeys
  <2> HIDE DEF k
  <2>2. k + 1 \in 1..Len(s) /\ s[k + 1].first = k /\ s[k + 1].second = f[k]
    BY <1>1, <1>2, <1>3, <2>1 DEF Accounts
  <2>3. KeysDiffer(s)
    BY <1>3, <1>7, StrictIsDistinct, EntryHasKeys
  <2>4. Found(s, s[k + 1].first) = s[k + 1].second
    BY <1>3, <2>2, <2>3, LookupOnly, EntryHasKeys
  <2>5. Found(s, k) = f[k]
    BY <2>2, <2>4
  <2>6. r[i].second = f[k]
    BY <1>9, <2>1, <2>5
  <2> QED BY <2>6 DEF k
<1> QED BY <1>9, <1>10 DEF Holds, r

LEMMA WeightFacts ==
  ASSUME AInv, NEW u \in Accounts
  PROVE  /\ Out(u) \in SUBSET Accounts /\ In(u) \in SUBSET Accounts
         /\ \A v \in Accounts : OutWeight(u)[v] \in Int /\ InWeight(u)[v] \in Int
         /\ \A v \in Out(u) : OutWeight(u)[v] = account_graph[<<u, v>>]
         /\ \A v \in In(u) : InWeight(u)[v] = account_graph[<<v, u>>]
  BY DEF AInv, Out, In, OutWeight, InWeight

LEMMA OutRowIs ==
  ASSUME AInv, NEW u \in Accounts
  PROVE  Holds(OutRow(u), Out(u), OutWeight(u)) /\ StrictlySorted(OutRow(u))
<1>1. \A i \in 1..num_accounts : i - 1 \in Accounts
  BY DigraphAssumption DEF Accounts
<1>2. \A i \in 1..num_accounts : (IF i - 1 \in Out(u) THEN account_graph[<<u, i - 1>>] ELSE 0)
                                   = (IF i - 1 \in Out(u) THEN OutWeight(u)[i - 1] ELSE 0)
  BY <1>1, WeightFacts
<1>3. OutRow(u) = At([i \in 1..num_accounts |-> [first |-> i - 1, second |->
                        IF i - 1 \in Out(u) THEN account_graph[<<u, i - 1>>] ELSE 0]],
                     { v + 1 : v \in Out(u) })
  BY DEF OutRow, SortedRow, Out
<1>4. OutRow(u) = RowOf(Out(u), OutWeight(u))
  BY <1>2, <1>3 DEF RowOf
<1> QED BY <1>4, RowFacts, WeightFacts

LEMMA InRowIs ==
  ASSUME AInv, NEW u \in Accounts
  PROVE  Holds(InRow(u), In(u), InWeight(u)) /\ StrictlySorted(InRow(u))
<1>1. \A i \in 1..num_accounts : i - 1 \in Accounts
  BY DigraphAssumption DEF Accounts
<1>2. \A i \in 1..num_accounts : (IF i - 1 \in In(u) THEN account_graph[<<i - 1, u>>] ELSE 0)
                                   = (IF i - 1 \in In(u) THEN InWeight(u)[i - 1] ELSE 0)
  BY <1>1, WeightFacts
<1>3. InRow(u) = At([i \in 1..num_accounts |-> [first |-> i - 1, second |->
                       IF i - 1 \in In(u) THEN account_graph[<<i - 1, u>>] ELSE 0]],
                    { v + 1 : v \in In(u) })
  BY DEF InRow, SortedRow, In
<1>4. InRow(u) = RowOf(In(u), InWeight(u))
  BY <1>2, <1>3 DEF RowOf
<1> QED BY <1>4, RowFacts, WeightFacts

-----------------------------------------------------------------------------
(* Updating a row to which p was added.                                    *)

LEMMA AppendedFacts ==
  ASSUME NEW row, NEW s \in Seq(Entry), NEW p \in Seq(Entry), Appended(row, s, p)
  PROVE  /\ row.unprocessed = Len(p) /\ Len(p) \in Nat
         /\ Settled(row) = s /\ Pending(row) = p
         /\ Len(p) = 0 => row = [pairs |-> s, unprocessed |-> 0]
         /\ Len(p) = 0 => p = <<>>
<1>1. row.pairs = s \o p /\ row.unprocessed = Len(p)
  BY DEF Appended
<1>2. /\ Len(p) \in Nat /\ Len(s) \in Nat /\ Len(s \o p) = Len(s) + Len(p)
      /\ SubSeq(s \o p, 1, Len(s)) = s
  BY SMTT(30)
<1>3. Waiting(row) = Len(p)
  BY <1>1, <1>2 DEF Waiting
<1>4. SubSeq(s \o p, Len(s) + 1, Len(s) + Len(p)) = p
  <2>1. /\ SubSeq(s \o p, Len(s) + 1, Len(s) + Len(p)) \in Seq(Entry)
        /\ Len(SubSeq(s \o p, Len(s) + 1, Len(s) + Len(p))) = Len(p)
        /\ \A i \in 1..Len(p) : SubSeq(s \o p, Len(s) + 1, Len(s) + Len(p))[i] = p[i]
    BY <1>2, SMTT(30)
  <2> DEFINE q == SubSeq(s \o p, Len(s) + 1, Len(s) + Len(p))
  <2> HIDE DEF q
  <2>2. q \in Seq(Entry) /\ Len(q) = Len(p) /\ \A i \in 1..Len(p) : q[i] = p[i]
    BY <2>1 DEF q
  <2>3. q = p
    BY <2>2
  <2> QED BY <2>3 DEF q
<1>5. Settled(row) = s /\ Pending(row) = p
  BY <1>1, <1>2, <1>3, <1>4 DEF Settled, Pending
<1>6. Len(p) = 0 => p = <<>> /\ s \o p = s
  <2>1. Len(p) = 0 => p = <<>>
    OBVIOUS
  <2>2. s \o <<>> = s
    OBVIOUS
  <2> QED BY <2>1, <2>2
<1> QED BY <1>1, <1>2, <1>5, <1>6 DEF Appended

LEMMA FoundIs ==
  ASSUME NEW K, NEW f, NEW s, Holds(s, K, f), NEW k \in K
  PROVE  Found(s, k) = f[k]
<1>1. s \in Seq(Entry) /\ k \in Keys(s)
  BY DEF Holds
<1>2. PICK i \in 1..Len(s) : s[i].first = k /\ Found(s, k) = s[i].second
  BY <1>1, LookupFound, EntryHasKeys
<1> QED BY <1>2 DEF Holds

LEMMA UnionEntries ==
  ASSUME NEW s \in Seq(Entry), NEW t \in Seq(Entry), StrictlySorted(t)
  PROVE  /\ UnionLast(s, t) \in Seq(Entry) /\ Keys(UnionLast(s, t)) = Keys(s) \cup Keys(t)
         /\ \A k \in Keys(s) \cup Keys(t) : Found(UnionLast(s, t), k)
              = IF k \in Keys(t) THEN Found(t, k) ELSE Found(s, k)
         /\ StrictlySorted(s) /\ Keys(s) \cap Keys(t) = {} => StrictlySorted(UnionLast(s, t))
<1>1. HasKeys(Entry)
  BY EntryHasKeys
<1> HIDE DEF Entry
<1> QED BY <1>1, UnionFacts, ZenonT(60)

LEMMA UnionNothing ==
  ASSUME NEW s \in Seq(Entry), StrictlySorted(s)
  PROVE  UnionLast(s, <<>>) = s /\ UnionLast(<<>>, s) = s
<1> DEFINE y == <<>>
<1>1. y \in Seq(Entry) /\ DOMAIN y = {}
  OBVIOUS
<1>2. Keys(y) = {} /\ StrictlySorted(y)
  BY <1>1 DEF Keys, StrictlySorted
<1> HIDE DEF y
<1>3. UnionLast(s, y) = s
  <2>1. /\ UnionLast(s, y) \in Seq(Entry) /\ Keys(UnionLast(s, y)) = Keys(s)
        /\ \A k \in Keys(s) : Found(UnionLast(s, y), k) = Found(s, k)
        /\ StrictlySorted(UnionLast(s, y))
    <3>1. /\ UnionLast(s, y) \in Seq(Entry) /\ Keys(UnionLast(s, y)) = Keys(s) \cup Keys(y)
          /\ \A k \in Keys(s) \cup Keys(y) : Found(UnionLast(s, y), k)
               = IF k \in Keys(y) THEN Found(y, k) ELSE Found(s, k)
          /\ StrictlySorted(s) /\ Keys(s) \cap Keys(y) = {} => StrictlySorted(UnionLast(s, y))
      BY <1>1, <1>2, UnionEntries
    <3>2. Keys(s) \cup Keys(y) = Keys(s) /\ Keys(s) \cap Keys(y) = {}
      BY <1>2
    <3> HIDE DEF UnionLast
    <3> QED BY <1>2, <3>1, <3>2
  <2> QED BY <2>1, StrictUnique, EntryHasKeys
<1>4. UnionLast(y, s) = s
  <2>1. /\ UnionLast(y, s) \in Seq(Entry) /\ Keys(UnionLast(y, s)) = Keys(s)
        /\ \A k \in Keys(s) : Found(UnionLast(y, s), k) = Found(s, k)
        /\ StrictlySorted(UnionLast(y, s))
    <3>1. /\ UnionLast(y, s) \in Seq(Entry) /\ Keys(UnionLast(y, s)) = Keys(y) \cup Keys(s)
          /\ \A k \in Keys(y) \cup Keys(s) : Found(UnionLast(y, s), k)
               = IF k \in Keys(s) THEN Found(s, k) ELSE Found(y, k)
          /\ StrictlySorted(y) /\ Keys(y) \cap Keys(s) = {} => StrictlySorted(UnionLast(y, s))
      BY <1>1, <1>2, UnionEntries
    <3>2. Keys(y) \cup Keys(s) = Keys(s) /\ Keys(y) \cap Keys(s) = {}
      BY <1>2
    <3> HIDE DEF UnionLast
    <3> QED BY <1>2, <3>1, <3>2
  <2> QED BY <2>1, StrictUnique, EntryHasKeys
<1> QED BY <1>3, <1>4 DEF y

\* However the waiting edges are sorted, the row becomes the union.
LEMMA UpdatedRow ==
  ASSUME NEW row, NEW s \in Seq(Entry), NEW p, Appended(row, s, p), StrictlySorted(s),
         NEW K, NEW f, Holds(p, K, f), NEW y, Holds(y, K, f), StrictlySorted(y),
         NEW r \in Updates(row)
  PROVE  r = [pairs |-> UnionLast(s, y), unprocessed |-> 0]
<1>1. /\ p \in Seq(Entry) /\ Keys(p) = K /\ KeysDiffer(p)
      /\ y \in Seq(Entry) /\ Keys(y) = K
  BY DEF Holds
<1>2. /\ row.unprocessed = Len(p) /\ Len(p) \in Nat
      /\ Settled(row) = s /\ Pending(row) = p
      /\ Len(p) = 0 => row = [pairs |-> s, unprocessed |-> 0] /\ p = <<>>
  BY <1>1, AppendedFacts
<1>3. CASE Len(p) = 0
  <2>1. r = [pairs |-> s, unprocessed |-> 0]
    BY <1>2, <1>3 DEF Updates
  <2>2. p = <<>> /\ DOMAIN p = {}
    BY <1>2, <1>3
  <2>3. StrictlySorted(p)
    BY <2>2 DEF StrictlySorted
  <2>4. y = p
    BY <2>3, HoldsUnique
  <2> QED BY <2>1, <2>2, <2>4, UnionNothing
<1>4. CASE Len(p) > 0
  <2>1. ~(row.unprocessed = 0) /\ ~(row.unprocessed < 0) /\ row.unprocessed > 0
    BY <1>2, <1>4
  <2>2. PICK z \in Sortings(p) : r = [pairs |-> UnionLast(s, z), unprocessed |-> 0]
    BY <1>2, <2>1 DEF Updates
  <2>3. /\ z \in Seq(Entry) /\ Keys(z) = K /\ StrictlySorted(z)
        /\ \A k \in K : Found(z, k) = Found(p, k)
    BY <1>1, SortingFacts, EntryHasKeys
  <2>4. \A k \in K : Found(z, k) = Found(y, k)
    BY <2>3, FoundIs
  <2>5. z = y
    BY <1>1, <2>3, <2>4, StrictUnique, EntryHasKeys
  <2> QED BY <2>2, <2>5
<1> QED BY <1>2, <1>3, <1>4

-----------------------------------------------------------------------------
(* What the operations of the digraph do to graphs that have all vertices. *)

LEMMA SpanIs ==
  ASSUME NEW g, Shape(g)
  PROVE  /\ Full(g) => span(g) = num_accounts
         /\ Bare(g) => span(g) = 0
         /\ DOMAIN g.exists = DOMAIN g.edges /\ DOMAIN g.edges \subseteq Accounts
         /\ \A u \in DOMAIN g.exists : g.exists[u] = TRUE
<1>1. Full(g) => DOMAIN g.exists = Accounts /\ \A u \in Accounts : g.exists[u] = TRUE
  BY DEF Full
<1>2. num_accounts \in Nat \ {0} /\ Cardinality(0..(num_accounts - 1)) = num_accounts
  <2>1. num_accounts \in Nat \ {0}
    BY DigraphAssumption
  <2>2. Cardinality(0..(num_accounts - 1)) = (num_accounts - 1) - 0 + 1
    BY <2>1, FS_Interval
  <2> QED BY <2>1, <2>2
<1>3. Full(g) => span(g) = num_accounts
  BY <1>1, <1>2 DEF span, Accounts
<1>4. Bare(g) => span(g) = 0
  BY FS_EmptySet DEF Bare, span
<1> QED BY <1>1, <1>3, <1>4 DEF Shape, Full, Bare

\* Both ends exist: only the row of the source changes.
LEMMA AddedEdge ==
  ASSUME NEW g, IsGraph(g), Full(g), NEW u \in Accounts, NEW v \in Accounts, NEW w, NEW h
  PROVE  /\ h = addEdge(g, u, v, w) =>
              /\ IsGraph(h) /\ Full(h)
              /\ h.edges = [g.edges EXCEPT ![u] = AddPair(g.edges[u], v, w)]
         /\ addVertex(addVertex(g, u), v) = g
<1>1. span(g) = num_accounts
  BY SpanIs DEF Shape
<1>2. hasVertex(g, u) /\ hasVertex(g, v)
  BY <1>1, DigraphAssumption DEF hasVertex, Full, Accounts
<1>3. addVertex(addVertex(g, u), v) = g
  BY <1>2 DEF addVertex
<1>4. addEdge(g, u, v, w) = [g EXCEPT !.edges[u] = AddPair(g.edges[u], v, w)]
  BY <1>3 DEF addEdge, addEdgeIf
<1> DEFINE r == AddPair(g.edges[u], v, w)
           k == [g EXCEPT !.edges[u] = r]
<1> HIDE DEF r
<1>5. k = [g EXCEPT !.edges = [g.edges EXCEPT ![u] = r]]
  BY DEF IsGraph
<1>6. k = [exists |-> g.exists, edges |-> [g.edges EXCEPT ![u] = r],
           order |-> g.order, size |-> g.size]
  BY <1>5 DEF IsGraph
<1>7. IsGraph(k) /\ Full(k) /\ k.edges = [g.edges EXCEPT ![u] = r]
  BY <1>6 DEF IsGraph, Full
<1> QED BY <1>3, <1>4, <1>7 DEF r

LEMMA AddedFirstEdge ==
  ASSUME num_accounts = 1, NEW w, NEW h, h = addEdge(NoGraph, 0, 0, w)
  PROVE  IsGraph(h) /\ Full(h) /\ h.edges = [u \in Accounts |-> AddPair(NoRow, 0, w)]
<1> DEFINE r == AddPair(NoRow, 0, w)
           e == [u \in {} |-> FALSE]
           f == [u \in {} |-> NoRow]
           g1 == [exists |-> [u \in {0} |-> TRUE], edges |-> [u \in {0} |-> NoRow],
                  order |-> 0, size |-> 0]
<1>1. Accounts = {0}
  BY DEF Accounts
<1>2. span(NoGraph) = 0
  BY FS_EmptySet DEF NoGraph, span
<1>3. span(g1) = 1
  <2>1. Cardinality({0}) = 1
    BY FS_Singleton
  <2> QED BY <2>1 DEF span
<1>4. respan(NoGraph, 1) = [exists |-> [u \in {0} |-> FALSE], edges |-> [u \in {0} |-> NoRow],
                            order |-> 0, size |-> 0]
  <2>1. 0..(1 - 1) = {0}
    OBVIOUS
  <2>2. /\ [u \in {0} |-> IF u < span(NoGraph) THEN NoGraph.exists[u] ELSE FALSE]
             = [u \in {0} |-> FALSE]
        /\ [u \in {0} |-> IF u < span(NoGraph) THEN NoGraph.edges[u] ELSE NoRow]
             = [u \in {0} |-> NoRow]
    BY <1>2
  <2>3. respan(NoGraph, 1) = [NoGraph EXCEPT !.exists = [u \in {0} |-> FALSE],
                                             !.edges = [u \in {0} |-> NoRow]]
    BY <2>1, <2>2 DEF respan
  <2> QED BY <2>3 DEF NoGraph
<1>5. addVertex(NoGraph, 0) = g1
  <2>1. ~hasVertex(NoGraph, 0)
    BY <1>2 DEF hasVertex
  <2>2. addVertex(NoGraph, 0) = [respan(NoGraph, 1) EXCEPT !.exists[0] = TRUE]
    BY <1>2, <2>1 DEF addVertex
  <2> QED BY <1>4, <2>2
<1>6. hasVertex(g1, 0)
  BY <1>3 DEF hasVertex
<1> HIDE DEF r
<1>7. addEdge(NoGraph, 0, 0, w) = [g1 EXCEPT !.edges[0] = r]
  <2>1. addVertex(g1, 0) = g1 /\ g1.edges[0] = NoRow
    BY <1>6 DEF addVertex
  <2> HIDE DEF g1
  <2>2. addVertex(addVertex(NoGraph, 0), 0) = g1
    BY <1>5, <2>1
  <2>3. addEdge(NoGraph, 0, 0, w) = [g1 EXCEPT !.edges[0] = AddPair(g1.edges[0], 0, w)]
    BY <2>2 DEF addEdge, addEdgeIf
  <2> QED BY <2>1, <2>3 DEF r
<1>8. [g1 EXCEPT !.edges[0] = r]
        = [exists |-> [u \in {0} |-> TRUE], edges |-> [u \in {0} |-> r], order |-> 0, size |-> 0]
  <2>1. [[u \in {0} |-> NoRow] EXCEPT ![0] = r] = [u \in {0} |-> r]
    OBVIOUS
  <2>2. g1.edges = [u \in {0} |-> NoRow]
    OBVIOUS
  <2>3. [g1 EXCEPT !.edges[0] = r] = [g1 EXCEPT !.edges = [[u \in {0} |-> NoRow] EXCEPT ![0] = r]]
    BY <2>2
  <2> DEFINE p == [u \in {0} |-> TRUE]
             q == [u \in {0} |-> NoRow]
             c == [q EXCEPT ![0] = r]
  <2>4. [g1 EXCEPT !.edges[0] = r]
          = [[exists |-> p, edges |-> q, order |-> 0, size |-> 0] EXCEPT !.edges = c]
    BY <2>3
  <2> HIDE DEF p, q, c
  <2>5. [[exists |-> p, edges |-> q, order |-> 0, size |-> 0] EXCEPT !.edges = c]
          = [exists |-> p, edges |-> c, order |-> 0, size |-> 0]
    OBVIOUS
  <2>6. c = [u \in {0} |-> r]
    BY <2>1 DEF c, q
  <2>7. [g1 EXCEPT !.edges[0] = r] = [exists |-> p, edges |-> c, order |-> 0, size |-> 0]
    BY <2>4, <2>5
  <2> HIDE DEF g1
  <2>8. [g1 EXCEPT !.edges[0] = r]
          = [exists |-> p, edges |-> [u \in {0} |-> r], order |-> 0, size |-> 0]
    BY <2>6, <2>7
  <2> QED BY <2>8 DEF p, g1
<1> QED BY <1>1, <1>7, <1>8 DEF r, IsGraph, Full

\* updateOmpU leaves the vertices alone and updates every row.
LEMMA UpdatedGraph ==
  ASSUME NEW g, Shape(g), NEW h \in updateOmpU(g)
  PROVE  /\ Shape(h) /\ h.exists = g.exists /\ DOMAIN h.edges = DOMAIN g.edges
         /\ \A u \in DOMAIN g.edges : h.edges[u] \in Updates(g.edges[u])
<1> DEFINE new == [u \in DOMAIN g.edges |-> Updates(g.edges[u])]
           Rows == { f \in [DOMAIN new -> UNION { new[u] : u \in DOMAIN new }] :
                       \A u \in DOMAIN new : f[u] \in new[u] }
           k(f) == [g EXCEPT !.edges = f]
<1>1. PICK f \in Rows : h = [k(f) EXCEPT !.order = Cardinality(vertices(k(f))),
                                         !.size = Len(EdgeList(k(f)))]
  BY Zenon DEF updateOmpU
<1>2. DOMAIN f = DOMAIN g.edges /\ \A u \in DOMAIN g.edges : f[u] \in Updates(g.edges[u])
  OBVIOUS
<1> DEFINE c == Cardinality(vertices(k(f)))
           n == Len(EdgeList(k(f)))
<1>3. h = [k(f) EXCEPT !.order = c, !.size = n]
  BY <1>1
<1> HIDE DEF c, n, Rows, new
<1>4. k(f) = [exists |-> g.exists, edges |-> f, order |-> g.order, size |-> g.size]
  BY DEF Shape, IsGraph
<1>5. h = [exists |-> g.exists, edges |-> f, order |-> c, size |-> n]
  BY <1>3, <1>4
<1> QED BY <1>2, <1>5 DEF Shape, IsGraph, Full, Bare

-----------------------------------------------------------------------------
(* The list of edges that every thread sweeps over.                        *)

Arc == [source : Accounts, target : Accounts, weight : Int]

RowArcs(g, u) ==
  IF g.exists[u]
  THEN [i \in DOMAIN g.edges[u].pairs |->
          [source |-> u, target |-> g.edges[u].pairs[i].first,
           weight |-> g.edges[u].pairs[i].second]]
  ELSE <<>>

\* s[n] are the arcs of the vertices before n.
IsUpto(s, g, m) ==
  s = [n \in 0..m |-> IF n = 0 THEN <<>> ELSE s[n - 1] \o RowArcs(g, n - 1)]

LEMMA UptoExists ==
  ASSUME NEW g, NEW m \in Nat
  PROVE  \E s : IsUpto(s, g, m)
<1> DEFINE T == { n \in Nat : \E s : IsUpto(s, g, n) }
<1>1. 0 \in T
  <2>1. IsUpto([n \in 0..0 |-> <<>>], g, 0)
    BY DEF IsUpto
  <2> QED BY <2>1
<1>2. ASSUME NEW n \in Nat, n \in T PROVE n + 1 \in T
  <2>1. PICK s : IsUpto(s, g, n)
    BY <1>2
  <2> DEFINE e == s[n] \o RowArcs(g, n)
             r == [j \in 0..(n + 1) |-> IF j = n + 1 THEN e ELSE s[j]]
  <2>2. \A j \in 0..n : s[j] = IF j = 0 THEN <<>> ELSE s[j - 1] \o RowArcs(g, j - 1)
    BY <2>1 DEF IsUpto
  <2>3. ASSUME NEW j \in 0..(n + 1)
        PROVE  r[j] = IF j = 0 THEN <<>> ELSE r[j - 1] \o RowArcs(g, j - 1)
    <3>1. CASE j = n + 1
      <4>1. ~(j = 0) /\ j - 1 = n /\ n \in 0..(n + 1) /\ ~(n = n + 1)
        BY <3>1
      <4>2. r[j] = e /\ r[j - 1] = s[n]
        BY <3>1, <4>1
      <4> HIDE DEF r
      <4> QED BY <4>1, <4>2
    <3>2. CASE j \in 0..n
      <4>1. r[j] = s[j] /\ (~(j = 0) => r[j - 1] = s[j - 1])
        BY <3>2
      <4> HIDE DEF r
      <4> QED BY <2>2, <3>2, <4>1
    <3> QED BY <3>1, <3>2
  <2>4. r = [j \in 0..(n + 1) |-> r[j]]
    OBVIOUS
  <2> HIDE DEF r
  <2>5. r = [j \in 0..(n + 1) |-> IF j = 0 THEN <<>> ELSE r[j - 1] \o RowArcs(g, j - 1)]
    BY <2>3, <2>4
  <2>6. IsUpto(r, g, n + 1)
    BY <2>5 DEF IsUpto
  <2> QED BY <2>6
<1> HIDE DEF T
<1>3. m \in T
  BY <1>1, <1>2, Upward
<1> QED BY <1>3 DEF T

LEMMA EdgeListIs ==
  ASSUME NEW g, span(g) \in Nat
  PROVE  \E s : IsUpto(s, g, span(g)) /\ EdgeList(g) = s[span(g)]
<1> DEFINE s == CHOOSE r : IsUpto(r, g, span(g))
<1>1. IsUpto(s, g, span(g))
  BY UptoExists
<1>2. s = CHOOSE r : r = [n \in 0..span(g) |-> IF n = 0 THEN <<>> ELSE r[n - 1] \o RowArcs(g, n - 1)]
  BY DEF IsUpto
<1>3. EdgeList(g) = s[span(g)]
  BY Zenon, <1>2 DEF EdgeList, RowArcs
<1> QED BY <1>1, <1>3

\* An arc is of an entry of the row of its source.
OfRow(g, e) ==
  \E k \in 1..Len(g.edges[e.source].pairs) :
    /\ e.target = g.edges[e.source].pairs[k].first
    /\ e.weight = g.edges[e.source].pairs[k].second

\* L lists the arcs of the vertices before m, each once.
ListsArcs(L, g, m) ==
  /\ L \in Seq(Arc)
  /\ \A i \in 1..Len(L) : L[i].source < m /\ OfRow(g, L[i])
  /\ \A u \in Accounts : u < m => \A k \in 1..Len(g.edges[u].pairs) :
       \E i \in 1..Len(L) : L[i].source = u /\ L[i].target = g.edges[u].pairs[k].first
  /\ \A i, j \in 1..Len(L) :
       L[i].source = L[j].source /\ L[i].target = L[j].target => i = j

LEMMA OneMoreRow ==
  ASSUME NEW g, NEW L, NEW u \in Accounts, ListsArcs(L, g, u), g.exists[u] = TRUE,
         g.edges[u].pairs \in Seq(Entry), KeysDiffer(g.edges[u].pairs)
  PROVE  ListsArcs(L \o RowArcs(g, u), g, u + 1)
<1> DEFINE s == g.edges[u].pairs
           R == RowArcs(g, u)
           M == L \o R
           b == Len(L)
           c == Len(s)
<1>0. u \in Nat /\ Accounts \subseteq Nat
  BY DigraphAssumption DEF Accounts
<1>1. /\ c \in Nat /\ DOMAIN s = 1..c
      /\ \A k \in 1..c : s[k] \in Entry
      /\ \A k, l \in 1..c : s[k].first = s[l].first => k = l
  BY EntryFacts, EntryHasKeys DEF KeysDiffer
<1>2. R = [k \in 1..c |-> [source |-> u, target |-> s[k].first, weight |-> s[k].second]]
  BY <1>1 DEF RowArcs
<1>3. \A k \in 1..c : /\ R[k] \in Arc /\ R[k].source = u
                      /\ R[k].target = s[k].first /\ R[k].weight = s[k].second
  <2> HIDE DEF R, s, c
  <2> QED BY <1>1, <1>2 DEF Arc, Entry
<1>4. R \in Seq(Arc) /\ Len(R) = c
  <2>1. R = [k \in 1..c |-> R[k]]
    <3> HIDE DEF R, s, c
    <3> QED BY <1>2
  <2> HIDE DEF R, s
  <2> QED BY <1>1, <1>3, <2>1, EntriesFrom
<1>5. /\ L \in Seq(Arc) /\ b \in Nat
      /\ \A i \in 1..b : L[i] \in Arc /\ L[i].source < u /\ OfRow(g, L[i])
      /\ \A v \in Accounts : v < u => \A k \in 1..Len(g.edges[v].pairs) :
           \E i \in 1..b : L[i].source = v /\ L[i].target = g.edges[v].pairs[k].first
      /\ \A i, j \in 1..b : L[i].source = L[j].source /\ L[i].target = L[j].target => i = j
  BY DEF ListsArcs
<1>6. /\ M \in Seq(Arc) /\ Len(M) = b + c
      /\ \A i \in 1..(b + c) : M[i] = IF i <= b THEN L[i] ELSE R[i - b]
  <2>1. L \in Seq(Arc) /\ R \in Seq(Arc) /\ Len(R) = c
    BY <1>4, <1>5
  <2> HIDE DEF R, c
  <2> QED BY ONLY <2>1
<1> HIDE DEF M, R, b
<1>7. /\ \A i \in 1..b : i \in 1..(b + c) /\ M[i] = L[i]
      /\ \A k \in 1..c : k + b \in 1..(b + c) /\ M[k + b] = R[k]
      /\ \A i \in 1..(b + c) : i \in 1..b \/ (i - b \in 1..c /\ M[i] = R[i - b])
  <2> HIDE DEF c
  <2> QED BY <1>1, <1>5, <1>6
<1>8. ASSUME NEW i \in 1..(b + c) PROVE M[i].source < u + 1 /\ OfRow(g, M[i])
  <2>1. CASE i \in 1..b
    <3>1. M[i] = L[i] /\ L[i].source < u /\ L[i].source \in Nat /\ OfRow(g, L[i])
      BY <1>0, <1>5, <1>7, <2>1 DEF Arc
    <3> QED BY <1>0, <3>1
  <2>2. CASE i - b \in 1..c /\ M[i] = R[i - b]
    <3>1. M[i].source = u /\ M[i].target = s[i - b].first /\ M[i].weight = s[i - b].second
      BY <1>3, <2>2
    <3>2. OfRow(g, M[i])
      BY <2>2, <3>1 DEF OfRow
    <3> QED BY <1>0, <3>1, <3>2
  <2> QED BY <1>7, <2>1, <2>2
<1>9. ASSUME NEW v \in Accounts, v < u + 1, NEW k \in 1..Len(g.edges[v].pairs)
      PROVE  \E i \in 1..(b + c) : M[i].source = v /\ M[i].target = g.edges[v].pairs[k].first
  <2>1. CASE v < u
    <3>1. PICK i \in 1..b : L[i].source = v /\ L[i].target = g.edges[v].pairs[k].first
      BY <1>5, <1>9, <2>1
    <3> QED BY <1>7, <3>1
  <2>2. CASE v = u
    BY <1>3, <1>7, <1>9, <2>2
  <2> QED BY <1>0, <1>9, <2>1, <2>2
<1> HIDE DEF s, c
<1>10. ASSUME NEW i \in 1..(b + c), NEW j \in 1..(b + c),
              M[i].source = M[j].source, M[i].target = M[j].target
       PROVE  i = j
  <2>1. \A n \in 1..b : M[n] = L[n] /\ L[n].source < u /\ L[n].source \in Nat /\ ~(L[n].source = u)
    <3> SUFFICES ASSUME NEW n \in 1..b
                 PROVE  M[n] = L[n] /\ L[n].source < u /\ L[n].source \in Nat /\ ~(L[n].source = u)
      OBVIOUS
    <3>1. L[n] \in Arc /\ L[n].source < u /\ M[n] = L[n]
      BY <1>5, <1>7
    <3>2. L[n].source \in Nat
      BY <1>0, <3>1 DEF Arc
    <3> QED BY <1>0, <3>1, <3>2
  <2>2. CASE i \in 1..b /\ j \in 1..b
    BY <1>5, <1>10, <2>1, <2>2
  <2>3. CASE i - b \in 1..c /\ M[i] = R[i - b] /\ j - b \in 1..c /\ M[j] = R[j - b]
    <3>1. s[i - b].first = s[j - b].first
      BY <1>3, <1>10, <2>3
    <3>2. i - b = j - b
      BY <1>1, <2>3, <3>1
    <3> QED BY <1>1, <1>5, <3>2
  <2>4. CASE i \in 1..b /\ j - b \in 1..c /\ M[j] = R[j - b]
    BY <1>3, <1>10, <2>1, <2>4
  <2>5. CASE j \in 1..b /\ i - b \in 1..c /\ M[i] = R[i - b]
    BY <1>3, <1>10, <2>1, <2>5
  <2> QED BY <1>7, <2>2, <2>3, <2>4, <2>5
<1>11. ListsArcs(M, g, u + 1)
  BY <1>6, <1>8, <1>9, <1>10 DEF ListsArcs
<1> QED BY <1>11 DEF M, R

LEMMA EdgeListFacts ==
  ASSUME NEW g, Shape(g),
         \A u \in DOMAIN g.edges : g.edges[u].pairs \in Seq(Entry) /\ KeysDiffer(g.edges[u].pairs)
  PROVE  ListsArcs(EdgeList(g), g, span(g))
<1> DEFINE n == span(g)
<1>1. n \in Nat /\ \A u \in Nat : u < n => u \in Accounts /\ u \in DOMAIN g.edges /\ g.exists[u] = TRUE
  <2>1. num_accounts \in Nat /\ DOMAIN g.exists = DOMAIN g.edges
        /\ \A u \in DOMAIN g.exists : g.exists[u] = TRUE
    BY SpanIs, DigraphAssumption
  <2>2. CASE Full(g)
    <3>1. n = num_accounts
      BY <2>2, SpanIs
    <3> QED BY <2>1, <2>2, <3>1 DEF Full, Accounts
  <2>3. CASE Bare(g)
    <3>1. n = 0
      BY <2>3, SpanIs
    <3> QED BY <3>1
  <2> QED BY <2>2, <2>3 DEF Shape
<1>2. PICK s : IsUpto(s, g, n) /\ EdgeList(g) = s[n]
  BY <1>1, EdgeListIs
<1> HIDE DEF n
<1>3. \A j \in 0..n : s[j] = IF j = 0 THEN <<>> ELSE s[j - 1] \o RowArcs(g, j - 1)
  BY <1>2 DEF IsUpto
<1> DEFINE T == { m \in Nat : m <= n => ListsArcs(s[m], g, m) }
<1>4. 0 \in T
  <2>1. s[0] = <<>>
    BY <1>1, <1>3
  <2>2. <<>> \in Seq(Arc) /\ Len(<<>>) = 0 /\ \A u \in Accounts : ~(u < 0)
    BY DigraphAssumption DEF Accounts
  <2>3. ListsArcs(<<>>, g, 0)
    BY <2>2 DEF ListsArcs
  <2> QED BY <2>1, <2>3
<1>5. ASSUME NEW m \in Nat, m \in T PROVE m + 1 \in T
  <2> SUFFICES ASSUME m + 1 <= n PROVE ListsArcs(s[m + 1], g, m + 1)
    OBVIOUS
  <2>1. m <= n /\ m < n /\ m + 1 \in 0..n /\ ~(m + 1 = 0) /\ (m + 1) - 1 = m
    BY <1>1
  <2>2. s[m + 1] = s[m] \o RowArcs(g, m)
    BY <1>3, <2>1
  <2>3. ListsArcs(s[m], g, m)
    BY <1>5, <2>1
  <2>4. m \in Accounts /\ m \in DOMAIN g.edges /\ g.exists[m] = TRUE
    BY <1>1, <2>1
  <2>5. ListsArcs(s[m] \o RowArcs(g, m), g, m + 1)
    BY <2>3, <2>4, OneMoreRow
  <2> QED BY <2>2, <2>5
<1> HIDE DEF T
<1>6. n \in T
  BY <1>1, <1>4, <1>5, Upward
<1> QED BY <1>1, <1>2, <1>6 DEF T, n

-----------------------------------------------------------------------------
(* The steps.                                                              *)

\* The rows that are expected depend on the account graph only.
LEMMA StaticFacts ==
  ASSUME UNCHANGED account_graph, NEW u
  PROVE  /\ Out(u)' = Out(u) /\ In(u)' = In(u)
         /\ OutWeight(u)' = OutWeight(u) /\ InWeight(u)' = InWeight(u)
         /\ OutRow(u)' = OutRow(u) /\ InRow(u)' = InRow(u)
<1>1. Out(u)' = Out(u) /\ In(u)' = In(u)
  BY DEF Out, In
<1>2. OutWeight(u)' = OutWeight(u) /\ InWeight(u)' = InWeight(u)
  BY <1>1 DEF OutWeight, InWeight
<1>3. OutRow(u)' = OutRow(u)
  BY DEF OutRow, SortedRow
<1>4. InRow(u)' = InRow(u)
  BY DEF InRow, SortedRow
<1> QED BY <1>1, <1>2, <1>3, <1>4

LEMMA InitInv == Init => AInv
<1> SUFFICES ASSUME Init PROVE AInv
  OBVIOUS
<1>1. PICK E \in SUBSET (Accounts \X Accounts) : account_graph \in [E -> 1..MaxWeight]
  BY DEF Init
<1>2. /\ DOMAIN account_graph \subseteq Accounts \X Accounts
      /\ \A e \in DOMAIN account_graph : account_graph[e] \in Nat
  BY <1>1, DigraphAssumption
<1>3. pos \in [Threads -> Nat] /\ \A t \in Threads : pos[t] = 1
  BY DEF Init
<1>4. todo = [u \in Accounts |-> Out(u)] /\ x = NoGraph /\ pc = "vertices"
  BY DEF Init, Out
<1> QED BY <1>2, <1>3, <1>4 DEF AInv

LEMMA NothingHeld ==
  ASSUME NEW f
  PROVE  Holds(<<>>, {}, f)
<1>1. <<>> \in Seq(Entry) /\ DOMAIN <<>> = {} /\ Len(<<>>) = 0
  OBVIOUS
<1> QED BY <1>1 DEF Holds, Keys, KeysDiffer

\* addVerticesU: the rows are all empty.
LEMMA AddVerticesLoads ==
  ASSUME AInv, addVerticesU
  PROVE  Loaded(x', todo')
<1>1. /\ x = NoGraph /\ \A u \in Accounts : todo'[u] = Out(u)
      /\ todo' \in [Accounts -> SUBSET Accounts]
  <2>1. todo' = [u \in Accounts |-> Out(u)] /\ x = NoGraph
    BY DEF addVerticesU, AInv
  <2> QED BY <2>1 DEF Out
<1>2. num_accounts \in Nat \ {0}
  BY DigraphAssumption
<1>3. CASE num_accounts <= 1
  <2>1. x' = NoGraph /\ num_accounts = 1
    BY <1>1, <1>2, <1>3 DEF addVerticesU
  <2>2. Bare(x') /\ IsGraph(x')
    BY <2>1 DEF Bare, IsGraph, NoGraph
  <2>3. DOMAIN (x').edges = {}
    BY <2>2 DEF Bare
  <2> QED BY <1>1, <2>1, <2>2, <2>3 DEF Loaded, Shape
<1>4. CASE ~(num_accounts <= 1)
  <2> DEFINE ex == [u \in Accounts |-> TRUE]
             ed == [u \in Accounts |-> NoRow]
  <2>1. span(NoGraph) = 0
    BY FS_EmptySet DEF NoGraph, span
  <2>2. [u \in 0..(num_accounts - 1) |-> IF u < span(NoGraph) THEN NoGraph.edges[u] ELSE NoRow] = ed
    BY <1>2, <2>1 DEF Accounts
  <2> DEFINE fl == [u \in 0..(num_accounts - 1) |->
                      IF u < span(NoGraph) THEN NoGraph.exists[u] ELSE FALSE]
             rp == [NoGraph EXCEPT !.exists = fl, !.edges = ed]
  <2>3. respan(x, num_accounts) = rp
    BY <1>1, <2>2 DEF respan
  <2>4. x' = [rp EXCEPT !.exists = ex]
    BY <1>4, <2>3 DEF addVerticesU
  <2> HIDE DEF fl, ex, ed
  <2>5. rp = [exists |-> fl, edges |-> ed, order |-> 0, size |-> 0]
    <3> DEFINE p == [u \in {} |-> FALSE]
               q == [u \in {} |-> NoRow]
    <3>1. rp = [[exists |-> p, edges |-> q, order |-> 0, size |-> 0]
                  EXCEPT !.exists = fl, !.edges = ed]
      BY DEF NoGraph
    <3> HIDE DEF p, q
    <3>2. [[exists |-> p, edges |-> q, order |-> 0, size |-> 0] EXCEPT !.exists = fl]
            = [exists |-> fl, edges |-> q, order |-> 0, size |-> 0]
      OBVIOUS
    <3>3. [[exists |-> fl, edges |-> q, order |-> 0, size |-> 0] EXCEPT !.edges = ed]
            = [exists |-> fl, edges |-> ed, order |-> 0, size |-> 0]
      OBVIOUS
    <3> HIDE DEF rp
    <3> QED BY <3>1, <3>2, <3>3
  <2> HIDE DEF rp
  <2>6. x' = [exists |-> ex, edges |-> ed, order |-> 0, size |-> 0]
    BY <2>4, <2>5
  <2>7. Full(x') /\ IsGraph(x')
    BY <2>6 DEF Full, IsGraph, ex, ed
  <2>8. ~Bare(x')
    BY <1>4 DEF Bare
  <2>9. \A u \in Accounts : (x').edges[u] = [pairs |-> <<>>, unprocessed |-> 0]
    BY <2>6 DEF ed, NoRow
  <2>10. ASSUME NEW u \in Accounts
         PROVE  /\ Appended((x').edges[u], <<>>, (x').edges[u].pairs)
                /\ Holds((x').edges[u].pairs, Out(u) \ todo'[u], OutWeight(u))
    <3>1. (x').edges[u].pairs = <<>> /\ Out(u) \ todo'[u] = {}
      BY <1>1, <2>9
    <3>2. <<>> \o <<>> = <<>> /\ Len(<<>>) = 0
      OBVIOUS
    <3>3. Appended((x').edges[u], <<>>, <<>>)
      BY <2>9, <3>2 DEF Appended
    <3> QED BY <3>1, <3>3, NothingHeld
  <2> QED BY <1>1, <2>7, <2>8, <2>10 DEF Loaded, Shape, Full
<1> QED BY <1>2, <1>3, <1>4

\* One more entry of a row.
LEMMA OneMoreHeld ==
  ASSUME NEW s, NEW K \in SUBSET Accounts, NEW f, Holds(s, K, f), NEW v \in Accounts, v \notin K,
         f[v] \in Int, NEW b \in Seq(Entry), NEW row, Appended(row, b, s)
  PROVE  /\ Holds(Append(s, [first |-> v, second |-> f[v]]), K \cup {v}, f)
         /\ Appended(AddPair(row, v, f[v]), b, Append(s, [first |-> v, second |-> f[v]]))
<1> DEFINE e == [first |-> v, second |-> f[v]]
           r == Append(s, e)
           n == Len(s)
<1>1. s \in Seq(Entry) /\ Keys(s) = K /\ KeysDiffer(s) /\ e \in Entry
  BY DEF Holds, Entry
<1>2. /\ r \in Seq(Entry) /\ Len(r) = n + 1 /\ n \in Nat /\ DOMAIN s = 1..n
      /\ DOMAIN r = 1..(n + 1)
      /\ \A i \in 1..n : r[i] = s[i]
      /\ r[n + 1] = e
  BY <1>1
<1>3. \A i \in 1..n : s[i].first \in K /\ s[i].second = f[s[i].first] /\ s[i].first # v
  BY <1>1, <1>2 DEF Holds, Keys
<1>4. \A i \in 1..(n + 1) : i \in 1..n \/ i = n + 1
  BY <1>2
<1>5. e.first = v /\ e.second = f[v]
  OBVIOUS
<1> HIDE DEF r, n, e
<1>6. Keys(r) = K \cup {v}
  <2>1. Keys(r) \subseteq K \cup {v}
    BY <1>2, <1>3, <1>4, <1>5 DEF Keys
  <2>2. ASSUME NEW k \in K PROVE k \in Keys(r)
    <3>1. PICK i \in 1..n : s[i].first = k
      BY <1>1, <1>2, <2>2 DEF Keys
    <3>2. i \in DOMAIN r /\ r[i].first = k
      BY <1>2, <3>1
    <3> QED BY <3>2 DEF Keys
  <2>3. v \in Keys(r)
    <3>1. n + 1 \in DOMAIN r /\ r[n + 1].first = v
      BY <1>2, <1>5
    <3> QED BY <3>1 DEF Keys
  <2> QED BY <2>1, <2>2, <2>3
<1>7. KeysDiffer(r)
  <2> SUFFICES ASSUME NEW i \in 1..(n + 1), NEW j \in 1..(n + 1), r[i].first = r[j].first
               PROVE  i = j
    BY <1>2 DEF KeysDiffer
  <2>1. CASE i \in 1..n /\ j \in 1..n
    BY <1>1, <1>2, <2>1 DEF KeysDiffer
  <2>2. CASE i = n + 1 /\ j \in 1..n
    BY <1>2, <1>3, <1>5, <2>2
  <2>3. CASE i \in 1..n /\ j = n + 1
    BY <1>2, <1>3, <1>5, <2>3
  <2> QED BY <1>4, <2>1, <2>2, <2>3
<1>8. \A i \in 1..Len(r) : r[i].second = f[r[i].first]
  BY <1>2, <1>3, <1>4, <1>5
<1>9. Holds(r, K \cup {v}, f)
  BY <1>2, <1>6, <1>7, <1>8 DEF Holds
<1>10. AddPair(row, v, f[v]) = [pairs |-> b \o r, unprocessed |-> Len(r)]
  <2>1. row.pairs = b \o s /\ row.unprocessed = n
    BY DEF Appended, n
  <2>2. AddPair(row, v, f[v]) = [pairs |-> Append(row.pairs, e), unprocessed |-> row.unprocessed + 1]
    <3>1. ~(row.unprocessed < 0)
      BY <1>2, <2>1
    <3> QED BY <3>1 DEF AddPair, e
  <2>3. Append(b \o s, e) = b \o Append(s, e)
    BY <1>1
  <2> QED BY <1>2, <2>1, <2>2, <2>3 DEF r
<1>11. Appended(AddPair(row, v, f[v]), b, r)
  BY <1>10 DEF Appended
<1> QED BY <1>9, <1>11 DEF r, e

LEMMA OwnerIsThread ==
  ASSUME NEW v \in Accounts
  PROVE  Owner(v) \in Threads
<1>1. v \in Nat /\ ChunkSize \in Nat \ {0} /\ THREADS \in Nat \ {0}
  BY DigraphAssumption DEF Accounts
<1>2. v \div ChunkSize \in Int
  BY <1>1
<1>3. (v \div ChunkSize) % THREADS \in 0..(THREADS - 1)
  BY <1>1, <1>2
<1> QED BY <1>3 DEF Owner, Threads

LEMMA LoadEdgeLoads ==
  ASSUME AInv, NEW u \in Accounts, pc = "load", LoadEdge(u)
  PROVE  Loaded(x', todo')
<1>1. Loaded(x, todo)
  BY DEF AInv
<1>2. PICK v \in todo[u] :
        /\ x' = addEdge(x, u, v, account_graph[<<u, v>>])
        /\ todo' = [todo EXCEPT ![u] = @ \ {v}]
  BY DEF LoadEdge
<1>3. /\ todo[u] \subseteq Out(u) /\ v \in Accounts /\ v \in Out(u)
      /\ todo' \in [Accounts -> SUBSET Accounts]
      /\ todo'[u] = todo[u] \ {v} /\ \A n \in Accounts \ {u} : todo'[n] = todo[n]
      /\ \A n \in Accounts : todo'[n] \subseteq Out(n)
  BY <1>1, <1>2 DEF Loaded
<1> DEFINE w == account_graph[<<u, v>>]
<1>4. w = OutWeight(u)[v] /\ OutWeight(u)[v] \in Int
  BY <1>3, WeightFacts
<1> HIDE DEF w
<1>5. (Out(u) \ todo[u]) \cup {v} = Out(u) \ todo'[u] /\ v \notin Out(u) \ todo[u]
      /\ Out(u) \ todo[u] \in SUBSET Accounts
  BY <1>2, <1>3 DEF Out
<1>6. <<>> \in Seq(Entry)
  OBVIOUS
<1>7. CASE Full(x)
  <2>1. /\ IsGraph(x') /\ Full(x')
        /\ (x').edges = [x.edges EXCEPT ![u] = AddPair(x.edges[u], v, w)]
    <3>1. IsGraph(x) /\ x' = addEdge(x, u, v, w)
      BY <1>1, <1>2 DEF Loaded, Shape, w
    <3> QED BY <1>3, <1>7, <3>1, AddedEdge
  <2>2. DOMAIN x.edges = Accounts /\ DOMAIN (x').edges = Accounts
    BY <1>7, <2>1 DEF Full
  <2>3. ASSUME NEW n \in Accounts
        PROVE  /\ Appended((x').edges[n], <<>>, (x').edges[n].pairs)
               /\ Holds((x').edges[n].pairs, Out(n) \ todo'[n], OutWeight(n))
    <3>1. /\ Appended(x.edges[n], <<>>, x.edges[n].pairs)
          /\ Holds(x.edges[n].pairs, Out(n) \ todo[n], OutWeight(n))
      BY <1>1, <2>2 DEF Loaded
    <3>2. CASE n # u
      <4>1. (x').edges[n] = x.edges[n] /\ todo'[n] = todo[n]
        BY <1>3, <2>1, <2>2, <3>2
      <4> QED BY <3>1, <4>1
    <3>3. CASE n = u
      <4> DEFINE r == Append(x.edges[u].pairs, [first |-> v, second |-> w])
      <4>1. (x').edges[u] = AddPair(x.edges[u], v, w)
        BY <2>1, <2>2
      <4>2. /\ Holds(r, Out(u) \ todo'[u], OutWeight(u))
            /\ Appended(AddPair(x.edges[u], v, w), <<>>, r)
        <5> DEFINE K == Out(u) \ todo[u]
                   f == OutWeight(u)
                   row == x.edges[u]
                   s == row.pairs
                   b == <<>>
        <5>1. /\ K \in SUBSET Accounts /\ Holds(s, K, f) /\ v \in Accounts /\ v \notin K
              /\ f[v] \in Int /\ f[v] = w /\ b \in Seq(Entry) /\ Appended(row, b, s)
          BY <1>3, <1>4, <1>5, <1>6, <3>1, <3>3
        <5> HIDE DEF K, f, row, s, b
        <5>2. /\ Holds(Append(s, [first |-> v, second |-> w]), K \cup {v}, f)
              /\ Appended(AddPair(row, v, w), b, Append(s, [first |-> v, second |-> w]))
          BY <5>1, OneMoreHeld
        <5> QED BY <1>5, <5>2 DEF K, f, row, s, b
      <4>3. (x').edges[u].pairs = r
        <5>1. (x').edges[u].pairs = <<>> \o r
          <6> DEFINE row == (x').edges[u]
          <6>1. Appended(row, <<>>, r)
            BY <4>1, <4>2
          <6> HIDE DEF row, r
          <6> QED BY <6>1 DEF Appended, row
        <5>2. r \in Seq(Entry)
          BY <4>2 DEF Holds
        <5>3. <<>> \o r = r
          BY <5>2
        <5> QED BY <5>1, <5>3
      <4> QED BY <3>3, <4>1, <4>2, <4>3
    <3> QED BY <3>2, <3>3
  <2>4. ~Bare(x')
    <3>1. 0 \in Accounts
      BY DigraphAssumption DEF Accounts
    <3> QED BY <2>2, <3>1 DEF Bare
  <2> QED BY <1>3, <2>1, <2>2, <2>3, <2>4 DEF Loaded, Shape
<1>8. CASE Bare(x)
  <2>1. num_accounts = 1 /\ x = NoGraph /\ u = 0 /\ v = 0 /\ todo[u] = Out(u)
    BY <1>1, <1>3, <1>8 DEF Loaded, Bare, Accounts
  <2>2. /\ IsGraph(x') /\ Full(x')
        /\ (x').edges = [n \in Accounts |-> AddPair(NoRow, v, w)]
    <3> DEFINE k == w
               h == x'
    <3>1. h = addEdge(NoGraph, 0, 0, k)
      BY <1>2, <2>1 DEF w
    <3> HIDE DEF k, h
    <3>2. IsGraph(h) /\ Full(h) /\ h.edges = [n \in Accounts |-> AddPair(NoRow, 0, k)]
      BY <2>1, <3>1, AddedFirstEdge
    <3> QED BY <2>1, <3>2 DEF h, k
  <2>3. Appended(NoRow, <<>>, <<>>)
    <3>1. <<>> \o <<>> = <<>> /\ Len(<<>>) = 0
      OBVIOUS
    <3> QED BY <3>1 DEF Appended, NoRow
  <2> DEFINE e == <<>>
             r == Append(e, [first |-> v, second |-> w])
  <2>4. Out(u) \ todo[u] = {} /\ Holds(e, Out(u) \ todo[u], OutWeight(u)) /\ Appended(NoRow, <<>>, e)
    BY <2>1, <2>3, NothingHeld
  <2> HIDE DEF e
  <2>5. /\ Holds(r, Out(u) \ todo'[u], OutWeight(u))
        /\ Appended(AddPair(NoRow, v, w), <<>>, r)
    <3> DEFINE K == Out(u) \ todo[u]
               f == OutWeight(u)
               row == NoRow
               b == <<>>
    <3>1. /\ K \in SUBSET Accounts /\ Holds(e, K, f) /\ v \in Accounts /\ v \notin K
          /\ f[v] \in Int /\ f[v] = w /\ b \in Seq(Entry) /\ Appended(row, b, e)
      BY <1>3, <1>4, <1>5, <1>6, <2>4
    <3> HIDE DEF K, f, row, b
    <3>2. /\ Holds(Append(e, [first |-> v, second |-> w]), K \cup {v}, f)
          /\ Appended(AddPair(row, v, w), b, Append(e, [first |-> v, second |-> w]))
      BY <3>1, OneMoreHeld
    <3> QED BY <1>5, <3>2 DEF K, f, row, b
  <2>6. AddPair(NoRow, v, w).pairs = r
    <3>1. AddPair(NoRow, v, w).pairs = <<>> \o r
      BY <2>5 DEF Appended
    <3>2. r \in Seq(Entry)
      BY <2>5 DEF Holds
    <3>3. <<>> \o r = r
      BY <3>2
    <3> QED BY <3>1, <3>3
  <2>7. Accounts = {u} /\ DOMAIN (x').edges = Accounts /\ (x').edges[u] = AddPair(NoRow, v, w)
    BY <2>1, <2>2 DEF Accounts
  <2>8. ~Bare(x')
    BY <2>7 DEF Bare
  <2> HIDE DEF r
  <2> QED BY <1>3, <2>2, <2>5, <2>6, <2>7, <2>8 DEF Loaded, Shape
<1> QED BY <1>1, <1>7, <1>8 DEF Loaded, Shape

\* updateOmpU turns what was loaded into the rows in ascending order.
LEMMA SettleReverses ==
  ASSUME AInv, pc = "load", Settle
  PROVE  Reversed(x', a', pos')
<1>1. Loaded(x, todo) /\ \A u \in Accounts : todo[u] = {}
  BY DEF AInv, Settle
<1>2. x' \in updateOmpU(x) /\ a' = x' /\ pos' = pos
  BY DEF Settle
<1>3. /\ Shape(x') /\ DOMAIN (x').edges = DOMAIN x.edges /\ DOMAIN x.edges \subseteq Accounts
      /\ \A u \in DOMAIN x.edges : (x').edges[u] \in Updates(x.edges[u])
  BY <1>1, <1>2, UpdatedGraph, SpanIs DEF Loaded
<1>4. ASSUME NEW u \in DOMAIN x.edges
      PROVE  (x').edges[u] = [pairs |-> OutRow(u), unprocessed |-> 0]
  <2>1. /\ Appended(x.edges[u], <<>>, x.edges[u].pairs)
        /\ Holds(x.edges[u].pairs, Out(u), OutWeight(u))
    BY <1>1, <1>3 DEF Loaded
  <2>2. Holds(OutRow(u), Out(u), OutWeight(u)) /\ StrictlySorted(OutRow(u)) /\ OutRow(u) \in Seq(Entry)
    BY <1>3, OutRowIs DEF Holds
  <2>3. <<>> \in Seq(Entry) /\ StrictlySorted(<<>>)
    <3>1. <<>> \in Seq(Entry) /\ DOMAIN <<>> = {}
      OBVIOUS
    <3> QED BY <3>1 DEF StrictlySorted
  <2>4. (x').edges[u] = [pairs |-> UnionLast(<<>>, OutRow(u)), unprocessed |-> 0]
    <3> DEFINE row == x.edges[u]
               p == row.pairs
               K == Out(u)
               f == OutWeight(u)
               y == OutRow(u)
               r == (x').edges[u]
               s == <<>>
    <3>1. /\ s \in Seq(Entry) /\ Appended(row, s, p) /\ StrictlySorted(s) /\ Holds(p, K, f)
          /\ Holds(y, K, f) /\ StrictlySorted(y) /\ r \in Updates(row)
      BY <1>3, <2>1, <2>2, <2>3
    <3> HIDE DEF row, p, K, f, y, r, s
    <3>2. r = [pairs |-> UnionLast(s, y), unprocessed |-> 0]
      BY <3>1, UpdatedRow
    <3> QED BY <3>2 DEF y, r, s
  <2> QED BY <2>2, <2>4, UnionNothing
<1>5. \A u \in DOMAIN (x').edges :
        (x').edges[u].pairs \in Seq(Entry) /\ KeysDiffer((x').edges[u].pairs)
  <2> SUFFICES ASSUME NEW u \in DOMAIN x.edges
               PROVE  (x').edges[u].pairs \in Seq(Entry) /\ KeysDiffer((x').edges[u].pairs)
    BY <1>3
  <2>1. (x').edges[u].pairs = OutRow(u)
    <3>1. (x').edges[u] = [pairs |-> OutRow(u), unprocessed |-> 0]
      BY <1>4
    <3> HIDE DEF OutRow
    <3> QED BY <3>1
  <2> QED BY <1>3, <2>1, OutRowIs DEF Holds
<1>6. EdgeList(x') \in Seq(Arc)
  BY <1>3, <1>5, EdgeListFacts DEF ListsArcs
<1>7. \A t \in Threads : pos'[t] \in 1..(Len(EdgeList(x')) + 1) /\ pos'[t] = 1
  BY <1>2, <1>6 DEF AInv
<1>8. ASSUME NEW v \in DOMAIN (x').edges
      PROVE  /\ Appended((a').edges[v], OutRow(v), Pending((a').edges[v]))
             /\ Holds(Pending((a').edges[v]),
                      Sources(EdgeList(x'), v, pos'[Owner(v)] - 1), InWeight(v))
  <2>1. (a').edges[v] = [pairs |-> OutRow(v), unprocessed |-> 0] /\ OutRow(v) \in Seq(Entry)
    BY <1>2, <1>3, <1>4, OutRowIs DEF Holds
  <2>2. Appended((a').edges[v], OutRow(v), <<>>)
    <3>1. OutRow(v) \o <<>> = OutRow(v) /\ Len(<<>>) = 0
      BY <2>1
    <3> QED BY <2>1, <3>1 DEF Appended
  <2>3. <<>> \in Seq(Entry)
    OBVIOUS
  <2>4. Pending((a').edges[v]) = <<>>
    BY <2>1, <2>2, <2>3, AppendedFacts
  <2>5. Sources(EdgeList(x'), v, pos'[Owner(v)] - 1) = {}
    <3>1. Owner(v) \in Threads
      BY <1>3, OwnerIsThread
    <3>2. pos'[Owner(v)] - 1 = 0
      BY <1>7, <3>1
    <3> QED BY <3>2 DEF Sources
  <2> QED BY <2>2, <2>4, <2>5, NothingHeld
<1> QED BY <1>2, <1>3, <1>4, <1>7, <1>8 DEF Reversed

\* What the sweep meets: every edge of the account graph, once.
LEMMA SweepFacts ==
  ASSUME AInv, Reversed(x, a, pos), NEW L, L = EdgeList(x)
  PROVE  /\ L \in Seq(Arc)
         /\ \A i \in 1..Len(L) :
              /\ Full(x) /\ L[i].source \in In(L[i].target)
              /\ L[i].weight = InWeight(L[i].target)[L[i].source]
         /\ Full(x) => \A v \in Accounts : \A u \in In(v) :
              \E i \in 1..Len(L) : L[i].source = u /\ L[i].target = v
         /\ \A i, j \in 1..Len(L) :
              L[i].source = L[j].source /\ L[i].target = L[j].target => i = j
<1>1. /\ Shape(x) /\ DOMAIN x.edges \subseteq Accounts
      /\ \A u \in DOMAIN x.edges : x.edges[u] = [pairs |-> OutRow(u), unprocessed |-> 0]
  BY SpanIs DEF Reversed
<1>2. \A u \in DOMAIN x.edges : x.edges[u].pairs = OutRow(u)
  <2> SUFFICES ASSUME NEW u \in DOMAIN x.edges PROVE x.edges[u].pairs = OutRow(u)
    OBVIOUS
  <2> DEFINE row == x.edges[u]
             r == OutRow(u)
  <2>1. row = [pairs |-> r, unprocessed |-> 0]
    BY <1>1
  <2> HIDE DEF row, r
  <2>2. row.pairs = r
    BY <2>1
  <2> QED BY <2>2 DEF row, r
<1>3. \A u \in Accounts : Holds(OutRow(u), Out(u), OutWeight(u))
  BY OutRowIs
<1>4. \A u \in DOMAIN x.edges : x.edges[u].pairs \in Seq(Entry) /\ KeysDiffer(x.edges[u].pairs)
  <2> SUFFICES ASSUME NEW u \in DOMAIN x.edges
               PROVE  x.edges[u].pairs \in Seq(Entry) /\ KeysDiffer(x.edges[u].pairs)
    OBVIOUS
  <2> QED BY <1>1, <1>2, <1>3 DEF Holds
<1>5. ListsArcs(L, x, span(x))
  BY <1>1, <1>4, EdgeListFacts
<1>6. ASSUME NEW i \in 1..Len(L)
      PROVE  /\ Full(x) /\ L[i].source \in In(L[i].target)
             /\ L[i].weight = InWeight(L[i].target)[L[i].source]
  <2> DEFINE e == L[i]
             u == e.source
             v == e.target
  <2>1. e \in Arc /\ u < span(x) /\ OfRow(x, e)
    BY <1>5 DEF ListsArcs
  <2>2. u \in Accounts /\ v \in Accounts /\ u \in Nat
    BY <2>1, DigraphAssumption DEF Arc, Accounts
  <2>3. Full(x)
    <3>1. Bare(x) => span(x) = 0
      BY <1>1, SpanIs
    <3> QED BY <1>1, <2>1, <2>2, <3>1 DEF Shape
  <2>4. PICK k \in 1..Len(x.edges[u].pairs) : /\ v = x.edges[u].pairs[k].first
                                              /\ e.weight = x.edges[u].pairs[k].second
    BY <2>1 DEF OfRow
  <2>5. x.edges[u].pairs = OutRow(u)
    BY <1>2, <2>2, <2>3 DEF Full
  <2> HIDE DEF e, u, v
  <2>6. v \in Out(u) /\ e.weight = OutWeight(u)[v]
    <3>1. /\ OutRow(u) \in Seq(Entry) /\ Keys(OutRow(u)) = Out(u) /\ k \in 1..Len(OutRow(u))
          /\ OutRow(u)[k].second = OutWeight(u)[OutRow(u)[k].first]
          /\ v = OutRow(u)[k].first /\ e.weight = OutRow(u)[k].second
      BY <1>3, <2>2, <2>4, <2>5 DEF Holds
    <3> HIDE DEF OutRow
    <3>2. v \in Keys(OutRow(u))
      BY <3>1, EntryFacts, EntryHasKeys DEF Keys
    <3> QED BY <3>1, <3>2
  <2>7. u \in In(v)
    BY <2>2, <2>6 DEF In, Out
  <2>8. e.weight = InWeight(v)[u]
    BY <2>2, <2>6, <2>7, WeightFacts
  <2> QED BY <2>3, <2>7, <2>8 DEF e, u, v
<1>7. ASSUME Full(x), NEW v \in Accounts, NEW u \in In(v)
      PROVE  \E i \in 1..Len(L) : L[i].source = u /\ L[i].target = v
  <2>1. u \in Accounts /\ v \in Out(u) /\ u \in DOMAIN x.edges /\ x.edges[u].pairs = OutRow(u)
    BY <1>2, <1>7 DEF In, Out, Full
  <2>2. u < span(x)
    <3>1. span(x) = num_accounts
      BY <1>1, <1>7, SpanIs
    <3> QED BY <2>1, <3>1, DigraphAssumption DEF Accounts
  <2>3. PICK k \in 1..Len(OutRow(u)) : OutRow(u)[k].first = v
    <3>1. OutRow(u) \in Seq(Entry) /\ v \in Keys(OutRow(u))
      BY <1>3, <2>1 DEF Holds
    <3> HIDE DEF OutRow
    <3> QED BY <3>1, EntryFacts, EntryHasKeys DEF Keys
  <2>4. PICK i \in 1..Len(L) : L[i].source = u /\ L[i].target = x.edges[u].pairs[k].first
    BY <1>5, <2>1, <2>2, <2>3 DEF ListsArcs
  <2> QED BY <2>1, <2>3, <2>4
<1> QED BY <1>5, <1>6, <1>7 DEF ListsArcs

\* The sweep of thread t goes one arc further.
LEMMA ReverseEdgeReverses ==
  ASSUME AInv, NEW t \in Threads, ReverseEdge(t)
  PROVE  Reversed(x', a', pos')
<1> DEFINE L == EdgeList(x)
           e == L[pos[t]]
           u == e.source
           v == e.target
           w == e.weight
           n == pos[t]
<1>1. Reversed(x, a, pos) /\ pos \in [Threads -> Nat]
  BY DEF AInv, ReverseEdge
<1>2. /\ x' = x /\ pos' = [pos EXCEPT ![t] = @ + 1] /\ n <= Len(L)
      /\ a' = addEdgeIf(a, v, u, w, belongsOmp(v, t))
  BY DEF ReverseEdge
<1>3. L \in Seq(Arc) /\ Len(L) \in Nat
  <2>1. L \in Seq(Arc)
    BY <1>1, SweepFacts
  <2> HIDE DEF L
  <2> QED BY <2>1
<1>4. n \in 1..Len(L) /\ n \in Nat
  BY <1>1, <1>2, <1>3 DEF Reversed
<1>5. /\ Full(x) /\ u \in In(v) /\ w = InWeight(v)[u]
      /\ \A i \in 1..Len(L) : L[i].source = u /\ L[i].target = v => i = n
  BY <1>1, <1>4, SweepFacts
<1>6. u \in Accounts /\ v \in Accounts /\ w \in Int
  <2>1. e \in Arc
    <3> HIDE DEF L, n
    <3>1. L[n] \in Arc
      BY <1>3, <1>4
    <3> QED BY <3>1 DEF e, n
  <2> HIDE DEF e
  <2> QED BY <2>1 DEF Arc
<1>7. /\ DOMAIN a.edges = Accounts /\ Full(a) /\ IsGraph(a) /\ DOMAIN x.edges = Accounts
      /\ \A c \in Accounts :
           /\ Appended(a.edges[c], OutRow(c), Pending(a.edges[c]))
           /\ Holds(Pending(a.edges[c]), Sources(L, c, pos[Owner(c)] - 1), InWeight(c))
  <2>1. DOMAIN x.edges = Accounts /\ 0 \in Accounts
    BY <1>5, DigraphAssumption DEF Full, Accounts
  <2>2. Shape(a) /\ DOMAIN a.edges = DOMAIN x.edges
    BY <1>1 DEF Reversed
  <2>3. ~Bare(a)
    BY <2>1, <2>2 DEF Bare
  <2> QED BY <1>1, <2>1, <2>2, <2>3 DEF Reversed, Shape
<1> HIDE DEF L, e, u, v, w, n
<1>8. Owner(v) \in Threads /\ (belongsOmp(v, t) <=> Owner(v) = t)
  BY <1>6, OwnerIsThread DEF belongsOmp, Owner
<1>9. /\ \A r \in Threads : pos'[r] = IF r = t THEN n + 1 ELSE pos[r]
      /\ \A r \in Threads : pos'[r] \in 1..(Len(L) + 1)
  <2>1. \A r \in Threads : pos[r] \in 1..(Len(L) + 1)
    BY <1>1 DEF Reversed, L
  <2>2. \A r \in Threads : pos'[r] = IF r = t THEN n + 1 ELSE pos[r]
    BY <1>1, <1>2 DEF n
  <2> QED BY <1>3, <1>4, <2>1, <2>2
\* Of the vertices of t only the target of the arc has a further source.
<1>10. ASSUME NEW c \in Accounts, c # v \/ Owner(c) # t
       PROVE  Sources(L, c, pos'[Owner(c)] - 1) = Sources(L, c, pos[Owner(c)] - 1)
  <2>1. Owner(c) \in Threads
    BY OwnerIsThread
  <2>2. CASE Owner(c) # t
    BY <1>9, <2>1, <2>2
  <2>3. CASE Owner(c) = t /\ c # v
    <3>1. pos'[Owner(c)] - 1 = n /\ pos[Owner(c)] - 1 = n - 1
      BY <1>4, <1>9, <2>1, <2>3 DEF n
    <3>2. L[n].target = v
      BY DEF v, e, n
    <3>3. { j \in 1..n : L[j].target = c } = { j \in 1..(n - 1) : L[j].target = c }
      BY <1>4, <2>3, <3>2
    <3> QED BY <3>1, <3>3 DEF Sources
  <2> QED BY <1>10, <2>2, <2>3
<1>11. CASE Owner(v) # t
  <2>1. a' = a
    <3>1. addVertex(addVertex(a, v), u) = a
      BY <1>6, <1>7, AddedEdge
    <3> QED BY <1>2, <1>8, <1>11, <3>1 DEF addEdgeIf
  <2>2. \A c \in Accounts : Sources(L, c, pos'[Owner(c)] - 1) = Sources(L, c, pos[Owner(c)] - 1)
    BY <1>10, <1>11
  <2> QED BY <1>1, <1>2, <1>7, <1>9, <2>1, <2>2 DEF Reversed, L
<1>12. CASE Owner(v) = t
  <2> DEFINE row == a.edges[v]
             K == Sources(L, v, n - 1)
             f == InWeight(v)
             s == Pending(row)
             b == OutRow(v)
             r == Append(s, [first |-> u, second |-> w])
  <2>1. pos[Owner(v)] - 1 = n - 1 /\ pos'[Owner(v)] - 1 = n
    BY <1>4, <1>8, <1>9, <1>12 DEF n
  <2>2. Appended(row, b, s) /\ Holds(s, K, f) /\ b \in Seq(Entry)
    BY <1>6, <1>7, <2>1, OutRowIs DEF Holds
  <2>3. K \in SUBSET Accounts
    <3>1. \A j \in 1..(n - 1) : j \in 1..Len(L) /\ L[j] \in Arc
      BY <1>3, <1>4
    <3> QED BY <3>1 DEF Sources, Arc
  <2>4. u \notin K
    <3> SUFFICES ASSUME NEW j \in 1..(n - 1), L[j].target = v, L[j].source = u PROVE FALSE
      BY DEF Sources
    <3>1. j \in 1..Len(L) /\ j # n
      BY <1>3, <1>4
    <3> QED BY <1>5, <3>1
  <2>5. Sources(L, v, n) = K \cup {u}
    <3>1. L[n].target = v /\ L[n].source = u
      BY DEF v, u, e, n
    <3>2. { j \in 1..n : L[j].target = v } = { j \in 1..(n - 1) : L[j].target = v } \cup {n}
      BY <1>4, <3>1
    <3> QED BY <3>1, <3>2 DEF Sources
  <2>6. f[u] = w
    BY <1>5
  <2>7. /\ Holds(r, K \cup {u}, f) /\ Appended(AddPair(row, u, w), b, r)
    <3> HIDE DEF row, K, f, s, b
    <3> QED BY <1>6, <2>2, <2>3, <2>4, <2>6, OneMoreHeld
  <2>8. IsGraph(a') /\ Full(a') /\ (a').edges = [a.edges EXCEPT ![v] = AddPair(row, u, w)]
    <3>1. a' = addEdge(a, v, u, w)
      BY <1>2, <1>8, <1>12 DEF addEdge, addEdgeIf
    <3> QED BY <1>6, <1>7, <3>1, AddedEdge
  <2>9. DOMAIN (a').edges = Accounts
    BY <2>8 DEF Full
  <2>10. ASSUME NEW c \in Accounts
         PROVE  /\ Appended((a').edges[c], OutRow(c), Pending((a').edges[c]))
                /\ Holds(Pending((a').edges[c]), Sources(L, c, pos'[Owner(c)] - 1), InWeight(c))
    <3>1. CASE c # v
      <4>1. (a').edges[c] = a.edges[c]
        BY <1>7, <2>8, <3>1
      <4> QED BY <1>7, <1>10, <3>1, <4>1
    <3>2. CASE c = v
      <4>1. (a').edges[v] = AddPair(row, u, w)
        BY <1>6, <1>7, <2>8
      <4>2. Pending(AddPair(row, u, w)) = r
        <5>1. r \in Seq(Entry)
          BY <2>7 DEF Holds
        <5> HIDE DEF r, b
        <5> QED BY <2>2, <2>7, <5>1, AppendedFacts
      <4> HIDE DEF row, r
      <4> QED BY <2>1, <2>5, <2>7, <3>2, <4>1, <4>2
    <3> QED BY <3>1, <3>2
  <2>11. /\ Shape(x) /\ Shape(a') /\ DOMAIN (a').edges = DOMAIN x.edges
         /\ \A c \in DOMAIN x.edges : x.edges[c] = [pairs |-> OutRow(c), unprocessed |-> 0]
    BY <1>1, <1>7, <2>8, <2>9 DEF Reversed, Shape
  <2> QED BY <1>2, <1>9, <2>9, <2>10, <2>11 DEF Reversed, L
<1> QED BY <1>11, <1>12

\* The reverse edges of every account are all there; update unites them.
LEMMA JoinUnites ==
  ASSUME AInv, Join
  PROVE  /\ Shape(x') /\ a' = x'
         /\ \A u \in DOMAIN (x').edges :
              (x').edges[u] = [pairs |-> UnionLast(OutRow(u), InRow(u)), unprocessed |-> 0]
<1> DEFINE L == EdgeList(x)
<1>1. Reversed(x, a, pos) /\ \A t \in Threads : pos[t] > Len(L)
  BY DEF AInv, Join
<1>2. a' \in updateOmpU(a) /\ x' = a'
  BY DEF Join
<1>3. Shape(a) /\ DOMAIN a.edges \subseteq Accounts
  BY <1>1, SpanIs DEF Reversed
<1>4. /\ Shape(a') /\ DOMAIN (a').edges = DOMAIN a.edges
      /\ \A v \in DOMAIN a.edges : (a').edges[v] \in Updates(a.edges[v])
  BY <1>2, <1>3, UpdatedGraph
<1>5. L \in Seq(Arc) /\ Len(L) \in Nat
  <2>1. L \in Seq(Arc)
    BY <1>1, SweepFacts
  <2> HIDE DEF L
  <2> QED BY <2>1
<1>6. ASSUME NEW v \in DOMAIN a.edges
      PROVE  (a').edges[v] = [pairs |-> UnionLast(OutRow(v), InRow(v)), unprocessed |-> 0]
  <2>1. v \in Accounts /\ DOMAIN x.edges = DOMAIN a.edges /\ Full(x)
    BY <1>1, <1>3 DEF Reversed, Shape, Full, Bare
  <2>2. pos[Owner(v)] - 1 = Len(L)
    <3>1. Owner(v) \in Threads
      BY <2>1, OwnerIsThread
    <3>2. pos[Owner(v)] \in 1..(Len(L) + 1) /\ pos[Owner(v)] > Len(L)
      BY <1>1, <3>1 DEF Reversed
    <3> HIDE DEF L
    <3> QED BY <1>5, <3>2
  <2>3. Sources(L, v, Len(L)) = In(v)
    <3>1. ASSUME NEW u \in In(v) PROVE u \in Sources(L, v, Len(L))
      <4>1. PICK i \in 1..Len(L) : L[i].source = u /\ L[i].target = v
        BY <1>1, <2>1, <3>1, SweepFacts
      <4> HIDE DEF L
      <4> QED BY <4>1 DEF Sources
    <3>2. ASSUME NEW i \in 1..Len(L), L[i].target = v PROVE L[i].source \in In(v)
      <4>1. L[i].source \in In(L[i].target)
        BY <1>1, <3>2, SweepFacts
      <4> HIDE DEF L
      <4> QED BY <3>2, <4>1
    <3> HIDE DEF L
    <3>3. \A u \in Sources(L, v, Len(L)) : u \in In(v)
      BY <3>2 DEF Sources
    <3> QED BY <3>1, <3>3
  <2> DEFINE row == a.edges[v]
             s == OutRow(v)
             p == Pending(row)
             K == In(v)
             f == InWeight(v)
             y == InRow(v)
             r == (a').edges[v]
  <2>4. /\ s \in Seq(Entry) /\ Appended(row, s, p) /\ StrictlySorted(s) /\ Holds(p, K, f)
        /\ Holds(y, K, f) /\ StrictlySorted(y) /\ r \in Updates(row)
    <3>1. Appended(row, s, p) /\ Holds(p, Sources(L, v, pos[Owner(v)] - 1), f)
      BY <1>1 DEF Reversed
    <3>2. s \in Seq(Entry) /\ StrictlySorted(s) /\ Holds(y, K, f) /\ StrictlySorted(y)
      BY <2>1, OutRowIs, InRowIs DEF Holds
    <3> HIDE DEF row, s, p, K, f, y, r, L
    <3>3. Holds(p, K, f)
      BY <2>2, <2>3, <3>1 DEF K
    <3>4. r \in Updates(row)
      BY <1>4 DEF r, row
    <3> QED BY <3>1, <3>2, <3>3, <3>4
  <2> HIDE DEF row, s, p, K, f, y, r
  <2>5. r = [pairs |-> UnionLast(s, y), unprocessed |-> 0]
    BY <2>4, UpdatedRow
  <2> QED BY <2>5 DEF r, s, y
<1> QED BY <1>2, <1>4, <1>6

-----------------------------------------------------------------------------
(* The invariant.                                                          *)

LEMMA LoadedPrimed ==
  ASSUME UNCHANGED account_graph, Loaded(x', todo')
  PROVE  Loaded(x, todo)'
  BY StaticFacts DEF Loaded, Shape, IsGraph, Full, Bare, Appended, Holds, NoGraph,
                     Keys, KeysDiffer

LEMMA ReversedPrimed ==
  ASSUME UNCHANGED account_graph, Reversed(x', a', pos')
  PROVE  Reversed(x, a, pos)'
<1>1. \A u : OutRow(u)' = OutRow(u) /\ InWeight(u)' = InWeight(u)
  BY StaticFacts
<1> QED BY <1>1 DEF Reversed, Shape

LEMMA NextInv == AInv /\ [Next]_vars => AInv'
<1> SUFFICES ASSUME AInv, [Next]_vars PROVE AInv'
  OBVIOUS
<1>1. CASE addVerticesU
  <2>1. Loaded(x', todo')
    BY <1>1, AddVerticesLoads
  <2>2. UNCHANGED <<account_graph, pos>> /\ pc = "vertices" /\ pc' = "load"
    BY <1>1 DEF addVerticesU
  <2>3. Loaded(x, todo)'
    BY <2>1, <2>2, LoadedPrimed
  <2> QED BY <2>2, <2>3 DEF AInv
<1>2. ASSUME NEW u \in Accounts, LoadEdge(u) PROVE AInv'
  <2>1. UNCHANGED <<account_graph, pos, pc>> /\ pc = "load"
    BY <1>2 DEF LoadEdge
  <2>2. Loaded(x', todo')
    BY <1>2, <2>1, LoadEdgeLoads
  <2>3. Loaded(x, todo)'
    BY <2>1, <2>2, LoadedPrimed
  <2> QED BY <2>1, <2>3 DEF AInv
<1>3. CASE Settle
  <2>1. UNCHANGED <<account_graph, pos>> /\ pc = "load" /\ pc' = "reverse"
    BY <1>3 DEF Settle
  <2>2. Reversed(x', a', pos')
    BY <1>3, <2>1, SettleReverses
  <2>3. Reversed(x, a, pos)'
    BY <2>1, <2>2, ReversedPrimed
  <2> QED BY <2>1, <2>3 DEF AInv
<1>4. ASSUME NEW t \in Threads, ReverseEdge(t) PROVE AInv'
  <2>1. UNCHANGED <<account_graph, pc>> /\ pc = "reverse" /\ pos' = [pos EXCEPT ![t] = @ + 1]
    BY <1>4 DEF ReverseEdge
  <2>2. Reversed(x', a', pos')
    BY <1>4, ReverseEdgeReverses
  <2>3. Reversed(x, a, pos)'
    BY <2>1, <2>2, ReversedPrimed
  <2>4. pos' \in [Threads -> Nat]
    BY <2>1 DEF AInv
  <2> QED BY <2>1, <2>3, <2>4 DEF AInv
<1>5. CASE Join
  <2>1. UNCHANGED <<account_graph, pos>> /\ pc' = "done"
    BY <1>5 DEF Join
  <2>2. /\ Shape(x') /\ a' = x'
        /\ \A u \in DOMAIN (x').edges :
             (x').edges[u] = [pairs |-> UnionLast(OutRow(u), InRow(u)), unprocessed |-> 0]
    BY <1>5, JoinUnites
  <2>3. ScheduleIndependent'
    <3>1. \A u : OutRow(u)' = OutRow(u) /\ InRow(u)' = InRow(u)
      BY <2>1, StaticFacts
    <3> QED BY <2>2, <3>1 DEF ScheduleIndependent
  <2>4. Shape(x)' /\ Shape(a)'
    BY <2>2 DEF Shape, IsGraph, Full, Bare
  <2> QED BY <2>1, <2>3, <2>4 DEF AInv
<1>6. CASE UNCHANGED vars
  <2>1. UNCHANGED <<account_graph, x, todo, a, pos, pc>>
    BY <1>6 DEF vars
  <2>2. pc = "load" => Loaded(x, todo)'
    BY <2>1, LoadedPrimed DEF AInv
  <2>3. pc = "reverse" => Reversed(x, a, pos)'
    BY <2>1, ReversedPrimed DEF AInv
  <2>4. pc = "done" => ScheduleIndependent'
    <3>1. \A u : OutRow(u)' = OutRow(u) /\ InRow(u)' = InRow(u)
      BY <2>1, StaticFacts
    <3> QED BY <2>1, <3>1 DEF ScheduleIndependent, AInv
  <2>5. pc = "done" => Shape(x)' /\ Shape(a)'
    BY <2>1 DEF AInv, Shape, IsGraph, Full, Bare
  <2>6. pc = "vertices" => todo' = [u \in Accounts |-> Out(u)']
    <3>1. \A u : Out(u)' = Out(u)
      BY <2>1, StaticFacts
    <3> QED BY <2>1, <3>1 DEF AInv
  <2> QED BY <2>1, <2>2, <2>3, <2>4, <2>5, <2>6 DEF AInv
<1> QED BY <1>1, <1>2, <1>3, <1>4, <1>5, <1>6 DEF Next

LEMMA SpecInv == Spec => []AInv
  BY InitInv, NextInv, PTL DEF Spec

-----------------------------------------------------------------------------
(* The theorems.                                                           *)

\* symmetricizeOmp leaves the rows that a single thread would leave, however
\* the threads of the two parallel regions interleave.
THEOREM ScheduleIndependence == Spec => []ScheduleIndependent
<1>1. AInv => ScheduleIndependent
  BY DEF AInv, ScheduleIndependent
<1> QED BY <1>1, SpecInv, PTL

\* No step of a parallel region, of symmetricizeOmp or of the loop before it,
\* touches the vertices that all threads index.
THEOREM VerticesKept == Spec => ParallelRegionsKeepVertices
<1>1. ASSUME AInv, AInv', Next, pc = pc', num_accounts > 1
      PROVE  /\ DOMAIN (x').exists = DOMAIN x.exists /\ (x').exists = x.exists
             /\ DOMAIN (a').exists = DOMAIN a.exists /\ (a').exists = a.exists
  <2>1. \A g : Shape(g) => g.exists = [u \in Accounts |-> TRUE]
    BY <1>1 DEF Shape, Full, Bare
  <2>2. CASE \E u \in Accounts : LoadEdge(u)
    <3>1. Loaded(x, todo) /\ Loaded(x', todo') /\ a' = a
      BY <1>1, <2>2, LoadEdgeLoads DEF AInv, LoadEdge
    <3> QED BY <2>1, <3>1 DEF Loaded
  <2>3. CASE \E t \in Threads : ReverseEdge(t)
    <3>1. Reversed(x, a, pos) /\ Reversed(x', a', pos') /\ x' = x
      BY <1>1, <2>3, ReverseEdgeReverses DEF AInv, ReverseEdge
    <3> QED BY <2>1, <3>1 DEF Reversed
  <2>4. ~addVerticesU /\ ~Settle /\ ~Join
    BY <1>1 DEF addVerticesU, Settle, Join
  <2> QED BY <1>1, <2>2, <2>3, <2>4 DEF Next
<1>2. AInv /\ AInv' /\ [Next]_vars =>
        [pc = pc' /\ num_accounts > 1 =>
           /\ DOMAIN x'.exists = DOMAIN x.exists /\ x'.exists = x.exists
           /\ DOMAIN a'.exists = DOMAIN a.exists /\ a'.exists = a.exists]_vars
  BY <1>1
<1> QED BY <1>2, SpecInv, PTL DEF Spec, ParallelRegionsKeepVertices

\* Where there is more than one account every account is a vertex of the
\* digraph that Louvain gets, also one that has no edge.
THEOREM AccountsAreVertices ==
  ASSUME num_accounts > 1
  PROVE  Spec => []EveryAccountIsVertex
<1>1. AInv => EveryAccountIsVertex
  BY DEF AInv, EveryAccountIsVertex, vertices, Shape, Full, Bare
<1> QED BY <1>1, SpecInv, PTL
=============================================================================
