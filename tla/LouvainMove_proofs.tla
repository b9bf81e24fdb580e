------------------------- MODULE LouvainMove_proofs -------------------------
(***************************************************************************)
(* Theorems on the local-moving phase for graphs, thread counts and chunk  *)
(* sizes of every kind: a vertex has one thread at a time, no weight is    *)
(* lost, scans are complete, one thread wakes every neighbour, and its     *)
(* moves gain what they claim.                                             *)
(***************************************************************************)
EXTENDS LouvainMove, Operators_proofs

\* The functions have their domains; the values that matter are integers.
Places == {"idle", "check", "scan", "choose", "leave", "enter", "join", "wake", "sleep", "done"}

Shapes ==
  /\ threads \in Nat /\ next \in Nat
  /\ vcom = [a \in V |-> vcom[a]]
  /\ at \in [Threads -> Places]
  /\ u \in [Threads -> Nat] /\ stop \in [Threads -> Nat]
  /\ best = [t \in Threads |-> best[t]]

\* What is left of the threads' chunks is disjoint and behind `next`.
Chunks ==
  /\ \A t \in Threads : Busy(t) => u[t] < stop[t] /\ stop[t] <= next
  /\ \A t1, t2 \in Threads :
       t1 # t2 /\ Busy(t1) /\ Busy(t2) => stop[t1] <= u[t2] \/ stop[t2] <= u[t1]

\* A thread on its way to another community has chosen one that is not 0.
Chosen ==
  \A t \in Threads : at[t] \in {"leave", "enter", "join"} => best[t].c # 0

MInv == Shapes /\ Chunks /\ Chosen

LEMMA InitMInv == Init => MInv
<1> SUFFICES ASSUME Init PROVE MInv
  OBVIOUS
<1>1. threads \in Nat /\ Threads = 0..(threads - 1)
  BY MoveAssumption DEF Init, Threads
<1>2. Shapes
  BY <1>1 DEF Init, Shapes, Places
<1>3. \A t \in Threads : at[t] = "idle"
  BY DEF Init
<1> QED BY <1>2, <1>3 DEF MInv, Chunks, Chosen, Busy

\* A step that leaves the chunks alone, or only advances within one, and does
\* not enter the places from "leave" to "join" with community 0.
LEMMA OwnStep ==
  ASSUME MInv, NEW t \in Threads, Busy(t),
         UNCHANGED <<threads, next, stop>>,
         at' = [at EXCEPT ![t] = at'[t]], at'[t] \in Places,
         u' = u \/ (u' = [u EXCEPT ![t] = u[t] + 1] /\ u[t] + 1 < stop[t]),
         vcom' = [a \in V |-> vcom'[a]], best' = [i \in Threads |-> best'[i]],
         \A i \in Threads : i # t => best'[i] = best[i],
         at'[t] \in {"leave", "enter", "join"} => best'[t].c # 0
  PROVE  MInv'
<1>1. Threads' = Threads /\ V' = V /\ Places' = Places
  BY DEF Threads, V, Places
<1>2. /\ at \in [Threads -> Places] /\ u \in [Threads -> Nat] /\ stop \in [Threads -> Nat]
      /\ next \in Nat
  BY DEF MInv, Shapes
<1>3. /\ u' \in [Threads -> Nat] /\ u'[t] < stop[t] /\ u[t] <= u'[t]
      /\ \A i \in Threads : i # t => u'[i] = u[i]
  BY <1>2 DEF MInv, Chunks
<1>4. Shapes'
  BY <1>1, <1>2, <1>3 DEF MInv, Shapes
<1>5. \A i \in Threads : Busy(i)' => Busy(i)
  BY <1>2 DEF Busy
<1>6. \A i \in Threads : u[i] <= u'[i] /\ (Busy(i) => u'[i] < stop[i])
  BY <1>2, <1>3 DEF MInv, Chunks
<1>7. ASSUME NEW i \in Threads', NEW j \in Threads', i # j, Busy(i)', Busy(j)'
      PROVE  stop'[i] <= u'[j] \/ stop'[j] <= u'[i]
  <2>1. Busy(i) /\ Busy(j) /\ i \in Threads /\ j \in Threads
    BY <1>1, <1>5, <1>7
  <2>2. stop[i] <= u[j] \/ stop[j] <= u[i]
    BY <1>7, <2>1 DEF MInv, Chunks
  <2>3. stop[i] \in Nat /\ stop[j] \in Nat /\ u[i] \in Nat /\ u[j] \in Nat
        /\ u'[i] \in Nat /\ u'[j] \in Nat /\ u[i] <= u'[i] /\ u[j] <= u'[j]
    BY <1>2, <1>3, <1>6, <2>1
  <2> QED BY <2>2, <2>3
<1>8. Chunks'
  BY <1>1, <1>2, <1>5, <1>6, <1>7 DEF MInv, Chunks
<1>9. Chosen'
  BY <1>1, <1>2 DEF MInv, Chosen
<1> QED BY <1>4, <1>8, <1>9 DEF MInv

LEMMA TakeChunkKeeps ==
  ASSUME MInv, NEW t \in Threads, TakeChunk(t)
  PROVE  MInv'
<1>1. /\ at[t] = "idle" /\ next < S /\ UNCHANGED <<threads, vcom, best>>
      /\ u' = [u EXCEPT ![t] = next]
      /\ stop' = [stop EXCEPT ![t] = IF next + ChunkSize < S THEN next + ChunkSize ELSE S]
      /\ next' = stop'[t] /\ at' = [at EXCEPT ![t] = "check"]
  BY DEF TakeChunk, Go, graph, shared
<1>2. Threads' = Threads /\ V' = V /\ Places' = Places
  BY <1>1 DEF Threads, V, Places
<1>3. /\ at \in [Threads -> Places] /\ u \in [Threads -> Nat] /\ stop \in [Threads -> Nat]
      /\ next \in Nat
  BY DEF MInv, Shapes
<1>4. next' \in Nat /\ next < next' /\ stop'[t] = next' /\ u'[t] = next
  BY <1>1, <1>3, MoveAssumption
<1>5. Shapes'
  BY <1>1, <1>2, <1>3, <1>4 DEF MInv, Shapes, Places
<1>6. \A i \in Threads : i # t => u'[i] = u[i] /\ stop'[i] = stop[i] /\ at'[i] = at[i]
  BY <1>1, <1>3
<1>7. \A i \in Threads : i # t /\ Busy(i)' => Busy(i) /\ u[i] < stop[i] /\ stop[i] <= next
  BY <1>6 DEF MInv, Chunks, Busy
<1>8. \A i \in Threads : Busy(i)' => u'[i] < stop'[i] /\ stop'[i] <= next'
  BY <1>3, <1>4, <1>6, <1>7
<1>9. \A i, j \in Threads : i # j /\ Busy(i)' /\ Busy(j)' => stop'[i] <= u'[j] \/ stop'[j] <= u'[i]
  BY <1>3, <1>4, <1>6, <1>7 DEF MInv, Chunks
<1>10. Chunks'
  BY <1>2, <1>8, <1>9 DEF Chunks
<1>11. Chosen'
  BY <1>1, <1>2, <1>3 DEF MInv, Chosen
<1> QED BY <1>5, <1>10, <1>11 DEF MInv

\* What a step inside the loop body leaves alone.
LEMMA Untouched ==
  ASSUME MInv, NEW t \in Threads,
         \/ Skip(t) \/ Begin(t) \/ Scan(t) \/ Choose(t) \/ Leave(t) \/ Enter(t)
         \/ Join(t) \/ Wake(t) \/ Sleep(t)
  PROVE  /\ Busy(t) /\ UNCHANGED <<threads, next, stop>>
         /\ vcom' = [a \in V |-> vcom'[a]] /\ best' = [i \in Threads |-> best'[i]]
         /\ \A i \in Threads : i # t => best'[i] = best[i]
<1>1. vcom = [a \in V |-> vcom[a]] /\ best = [i \in Threads |-> best[i]]
  BY DEF MInv, Shapes
<1>2. Busy(t)
  BY DEF Busy, Skip, Begin, Scan, Choose, Leave, Enter, Join, Wake, Sleep
<1>3. UNCHANGED <<threads, next, stop>>
  BY DEF Skip, Begin, Scan, Choose, Leave, Enter, Join, Wake, Sleep, graph, loop, own
<1>4. vcom' = [a \in V |-> vcom'[a]]
  <2>1. CASE Join(t)
    BY <1>1, <2>1 DEF Join
  <2>2. CASE ~Join(t)
    <3>1. vcom' = vcom
      BY <2>2 DEF Skip, Begin, Scan, Choose, Leave, Enter, Wake, Sleep, shared
    <3> QED BY <1>1, <3>1
  <2> QED BY <2>1, <2>2
<1>5. best' = [i \in Threads |-> best'[i]] /\ \A i \in Threads : i # t => best'[i] = best[i]
  <2>1. CASE Choose(t) \/ Sleep(t)
    <3>1. PICK b : best' = [best EXCEPT ![t] = b]
      BY <2>1 DEF Choose, Sleep
    <3> QED BY <1>1, <3>1
  <2>2. CASE ~(Choose(t) \/ Sleep(t))
    <3>1. best' = best
      BY <2>2 DEF Skip, Begin, Scan, Leave, Enter, Join, Wake, own
    <3> QED BY <1>1, <3>1
  <2> QED BY <2>1, <2>2
<1> QED BY <1>2, <1>3, <1>4, <1>5

\* The steps inside the loop body, by what OwnStep asks of them.
BodyStep(t) ==
  /\ u' = u \/ (u' = [u EXCEPT ![t] = u[t] + 1] /\ u[t] + 1 < stop[t])
  /\ at' = [at EXCEPT ![t] = at'[t]] /\ at'[t] \in Places
  /\ at'[t] \in {"leave", "enter", "join"} => best'[t].c # 0

LEMMA BodyStepKeeps ==
  ASSUME MInv, NEW t \in Threads, BodyStep(t),
         \/ Skip(t) \/ Begin(t) \/ Scan(t) \/ Choose(t) \/ Leave(t) \/ Enter(t)
         \/ Join(t) \/ Wake(t) \/ Sleep(t)
  PROVE  MInv'
<1>1. /\ Busy(t) /\ UNCHANGED <<threads, next, stop>>
      /\ vcom' = [a \in V |-> vcom'[a]] /\ best' = [i \in Threads |-> best'[i]]
      /\ \A i \in Threads : i # t => best'[i] = best[i]
  BY Untouched
<1>2. u' = u \/ (u' = [u EXCEPT ![t] = u[t] + 1] /\ u[t] + 1 < stop[t])
  BY DEF BodyStep
<1>3. at' = [at EXCEPT ![t] = at'[t]] /\ at'[t] \in Places
  BY DEF BodyStep
<1>4. at'[t] \in {"leave", "enter", "join"} => best'[t].c # 0
  BY DEF BodyStep
<1> QED BY <1>1, <1>2, <1>3, <1>4, OwnStep

LEMMA StepKeeps ==
  ASSUME MInv, NEW t \in Threads, Step(t)
  PROVE  MInv'
<1>1. at \in [Threads -> Places]
  BY DEF MInv, Shapes
<1>2. CASE TakeChunk(t)
  BY <1>2, TakeChunkKeeps
<1>3. CASE Skip(t) \/ Sleep(t)
  <2>1. NextVertex(t)
    BY <1>3 DEF Skip, Sleep
  <2>2. at' = [at EXCEPT ![t] = at'[t]] /\ at'[t] \in {"check", "idle"}
    BY <1>1, <2>1 DEF NextVertex, Go
  <2>3. ASSUME u[t] + 1 < stop[t] PROVE BodyStep(t)
    <3>1. u' = [u EXCEPT ![t] = u[t] + 1]
      BY <2>1, <2>3 DEF NextVertex, Go
    <3> QED BY <2>2, <2>3, <3>1 DEF BodyStep, Places
  <2>4. ASSUME ~(u[t] + 1 < stop[t]) PROVE BodyStep(t)
    <3>1. u' = u
      BY <2>1, <2>4 DEF NextVertex, Go
    <3> QED BY <2>2, <3>1 DEF BodyStep, Places
  <2> QED BY <1>3, <2>3, <2>4, BodyStepKeeps
<1>4. CASE Begin(t) \/ Scan(t) \/ Wake(t)
  <2>1. u' = u
    BY <1>4 DEF Begin, Scan, Wake
  <2>2. at' = [at EXCEPT ![t] = at'[t]] /\ at'[t] \in {"scan", "choose", "wake", "sleep"}
    BY <1>1, <1>4 DEF Begin, Scan, Wake, Advance, Go
  <2>3. BodyStep(t)
    BY <2>1, <2>2 DEF BodyStep, Places
  <2> QED BY <1>4, <2>3, BodyStepKeeps
<1>5. CASE Choose(t)
  <2>1. u' = u
    BY <1>5 DEF Choose
  <2>2. at' = [at EXCEPT ![t] = at'[t]] /\ at'[t] \in {"choose", "leave", "sleep"}
        /\ (at'[t] = "leave" => best'[t].c # 0)
    BY <1>1, <1>5 DEF Choose, Advance, Moves, Go
  <2>3. BodyStep(t)
    BY <2>1, <2>2 DEF BodyStep, Places
  <2> QED BY <1>5, <2>3, BodyStepKeeps
<1>6. CASE Leave(t) \/ Enter(t) \/ Join(t)
  <2>1. u' = u /\ best' = best
    BY <1>6 DEF Leave, Enter, Join, own
  <2>2. at' = [at EXCEPT ![t] = at'[t]] /\ at'[t] \in {"enter", "join", "wake"}
    BY <1>1, <1>6 DEF Leave, Enter, Join, Go
  <2>3. best'[t].c # 0
    BY <1>6, <2>1 DEF MInv, Chosen, Leave, Enter, Join
  <2>4. BodyStep(t)
    BY <2>1, <2>2, <2>3 DEF BodyStep, Places
  <2> QED BY <1>6, <2>4, BodyStepKeeps
<1> QED BY <1>2, <1>3, <1>4, <1>5, <1>6 DEF Step

LEMMA EndIterationKeeps ==
  ASSUME MInv, EndIteration
  PROVE  MInv'
<1>1. /\ UNCHANGED <<threads, vcom, u, stop, best>> /\ next' \in {next, 0}
      /\ \A t \in Threads : at[t] = "idle"
      /\ at' \in {at, [t \in Threads |-> "done"]}
  BY DEF EndIteration, graph, own
<1>2. Threads' = Threads /\ V' = V /\ Places' = Places
  BY <1>1 DEF Threads, V, Places
<1>3. Shapes'
  BY <1>1, <1>2 DEF MInv, Shapes, Places
<1>4. \A t \in Threads : ~Busy(t)' /\ at'[t] \in {"idle", "done"}
  BY <1>1 DEF Busy
<1> QED BY <1>2, <1>3, <1>4 DEF MInv, Chunks, Chosen

LEMMA NextKeepsMInv == MInv /\ [Next]_vars => MInv'
<1> SUFFICES ASSUME MInv, [Next]_vars PROVE MInv'
  OBVIOUS
<1>1. CASE \E t \in Threads : Step(t)
  BY <1>1, StepKeeps
<1>2. CASE EndIteration
  BY <1>2, EndIterationKeeps
<1>3. CASE UNCHANGED vars
  BY <1>3 DEF vars, graph, shared, loop, own, MInv, Shapes, Chunks, Chosen, Busy, Threads, V, Places
<1> QED BY <1>1, <1>2, <1>3 DEF Next

LEMMA DisjointVertices == MInv => OneThreadPerVertex
<1> SUFFICES ASSUME MInv, NEW t1 \in Threads, NEW t2 \in Threads,
                    t1 # t2, Busy(t1), Busy(t2)
             PROVE  u[t1] # u[t2]
  BY DEF OneThreadPerVertex
<1>1. u[t1] \in Nat /\ u[t2] \in Nat /\ stop[t1] \in Nat /\ stop[t2] \in Nat
  BY DEF MInv, Shapes
<1>2. u[t1] < stop[t1] /\ u[t2] < stop[t2]
  BY DEF MInv, Chunks
<1>3. stop[t1] <= u[t2] \/ stop[t2] <= u[t1]
  BY DEF MInv, Chunks
<1> QED BY <1>1, <1>2, <1>3

\* Two threads never work on the same vertex, for any number of vertices and
\* threads and any size of the chunks.
THEOREM VerticesHaveOneThread == Spec => []OneThreadPerVertex
BY InitMInv, NextKeepsMInv, DisjointVertices, PTL DEF Spec

-----------------------------------------------------------------------------
(* The rows of the graph and the ranges of all variables.                  *)

Entry == [first : V, second : Nat \ {0}]

Graph ==
  /\ \A a \in V : edges[a] \in Seq(Entry)
  /\ \A a, b \in V : b \in Keys(edges[a]) => a \in Keys(edges[b])

LEMMA RowFacts ==
  ASSUME Graph, NEW a \in V
  PROVE  /\ edges[a] \in Seq(Entry) /\ Len(edges[a]) \in Nat
         /\ DOMAIN edges[a] = 1..Len(edges[a])
         /\ \A n \in 1..Len(edges[a]) :
              /\ edges[a][n].first \in V /\ edges[a][n].second \in Nat \ {0}
              /\ edges[a][n].first \in Keys(edges[a])
         /\ \A b \in Keys(edges[a]) : \E n \in 1..Len(edges[a]) : edges[a][n].first = b
<1>1. edges[a] \in Seq(Entry)
  BY DEF Graph
<1>2. /\ Len(edges[a]) \in Nat /\ DOMAIN edges[a] = 1..Len(edges[a])
      /\ \A n \in 1..Len(edges[a]) : edges[a][n] \in Entry
  BY <1>1
<1> QED BY <1>1, <1>2 DEF Entry, Keys

\* What the entries of a row weigh towards T, and the ones before the n-th.
Counts(a, T) ==
  [i \in DOMAIN edges[a] |-> IF edges[a][i].first \in T THEN edges[a][i].second ELSE 0]
Before(a, T, n) == Sum(Counts(a, T), 1, n)

LEMMA CountTypes ==
  ASSUME Graph, NEW a \in V, NEW T
  PROVE  /\ \A n \in 1..Len(edges[a]) :
              /\ Counts(a, T)[n] \in Nat
              /\ Counts(a, T)[n] = IF edges[a][n].first \in T THEN edges[a][n].second ELSE 0
         /\ WeightTo(a, T) = Before(a, T, Len(edges[a]) + 1)
<1>1. /\ Len(edges[a]) \in Nat /\ DOMAIN edges[a] = 1..Len(edges[a])
      /\ \A n \in 1..Len(edges[a]) : edges[a][n].second \in Nat
  BY RowFacts
<1>2. WeightTo(a, T) = Before(a, T, Len(edges[a]) + 1)
  BY DEF WeightTo, Before, Counts
<1>3. ASSUME NEW n \in 1..Len(edges[a])
      PROVE  /\ Counts(a, T)[n] \in Nat
             /\ Counts(a, T)[n] = IF edges[a][n].first \in T THEN edges[a][n].second ELSE 0
  BY <1>1 DEF Counts
<1> QED BY <1>2, <1>3

\* Nothing before the first entry; one entry further, one more of them.
LEMMA OneMoreEntry ==
  ASSUME Graph, NEW a \in V, NEW T
  PROVE  /\ Before(a, T, 1) = 0
         /\ \A n \in 1..Len(edges[a]) : Before(a, T, n + 1) = Before(a, T, n) + Counts(a, T)[n]
<1>1. Before(a, T, 1) = 0
  BY SumNone DEF Before
<1>2. ASSUME NEW n \in 1..Len(edges[a])
      PROVE  Before(a, T, n + 1) = Before(a, T, n) + Counts(a, T)[n]
  <2>1. 1 \in Nat /\ n \in Nat /\ 1 <= n
    BY RowFacts
  <2> QED BY <2>1, SumNext DEF Before
<1> QED BY <1>1, <1>2

Ranges ==
  /\ vcom \in [V -> V] /\ ctot \in [V -> Int] /\ vaff \in [V -> BOOLEAN]
  /\ next \in 0..S /\ stop \in [Threads -> 0..S]
  /\ k \in [Threads -> Nat \ {0}] /\ vcs \in [Threads -> Seq(V)]
  /\ vcout \in [Threads -> [V -> Nat]] /\ best \in [Threads -> [c : V, e : Int]]

\* The loops over a row and over the communities seen stay within them.
Position(t) ==
  /\ at[t] \in {"scan", "choose", "leave", "enter", "join", "wake"} => 1 <= Len(edges[u[t]])
  /\ at[t] \notin {"scan", "choose", "wake"} => k[t] = 1
  /\ at[t] \in {"scan", "wake"} => k[t] <= Len(edges[u[t]])
  /\ at[t] = "choose" => k[t] <= Len(vcs[t])

Positions == \A t \in Threads : Position(t)

TInv == MInv /\ Graph /\ Ranges /\ Positions

\* The weight of a vertex and of all of them, and of its edges.
Weight(a, b) == WeightTo(a, {b})

LEMMA WeightToTypes ==
  ASSUME Graph, NEW a \in V, NEW T
  PROVE  WeightTo(a, T) \in Nat
<1> DEFINE f == Counts(a, T)
           n == Len(edges[a]) + 1
<1>1. n \in Nat /\ 1 \in Nat /\ \A j \in 1..(n - 1) : f[j] \in Nat
  BY RowFacts, CountTypes
<1>2. WeightTo(a, T) = Sum(f, 1, n)
  BY CountTypes DEF Before
<1> HIDE DEF f, n
<1> QED BY <1>1, <1>2, SumNat

LEMMA WeightTypes ==
  ASSUME Graph
  PROVE  /\ \A a, b \in V : Weight(a, b) \in Nat
         /\ \A a \in V : vtot(a) \in Nat
         /\ TotalWeight \in Nat
<1>1. /\ \A a, b \in V : Weight(a, b) \in Nat
      /\ \A a \in V : vtot(a) \in Nat
  BY WeightToTypes DEF Weight, vtot
<1>2. S \in Nat /\ V = 0..(S - 1)
  BY MoveAssumption DEF V
<1>3. TotalWeight \in Nat
  <2> DEFINE f == [a \in V |-> vtot(a)]
  <2>1. \A a \in 0..(S - 1) : f[a] \in Nat
    BY <1>1, <1>2
  <2> HIDE DEF f
  <2>2. Sum(f, 0, S) \in Nat
    BY <1>2, <2>1, SumNat
  <2> QED BY <2>2 DEF TotalWeight, SumOver, f
<1> QED BY <1>1, <1>3

\* A row of ascending targets, from the weights of a vertex's edges.
LEMMA AscendingRow ==
  ASSUME NEW D, D \subseteq V, NEW f \in [D -> Nat \ {0}]
  PROVE  /\ Ascending(f) \in Seq(Entry) /\ StrictlySorted(Ascending(f))
         /\ Keys(Ascending(f)) = D
<1> DEFINE I == { b + 1 : b \in D }
           s == [i \in 1..S |-> [first |-> i - 1,
                                 second |-> IF i - 1 \in DOMAIN f THEN f[i - 1] ELSE 0]]
           r == Ascending(f)
           n == Cardinality(I)
<1>1. S \in Nat /\ \A b \in V : b \in Nat /\ b + 1 \in 1..S /\ (b + 1) - 1 = b
  BY MoveAssumption DEF V
<1>2. I \in SUBSET (1..S) /\ \A i \in I : i - 1 \in D /\ s[i] \in Entry /\ s[i].first = i - 1
  <2>1. \A i \in I : i \in 1..S /\ i - 1 \in D
    BY <1>1
  <2>2. ASSUME NEW i \in I PROVE s[i] \in Entry /\ s[i].first = i - 1
    <3>1. s[i] = [first |-> i - 1, second |-> f[i - 1]]
      BY <2>1
    <3>2. i - 1 \in V /\ f[i - 1] \in Nat \ {0}
      BY <2>1
    <3> QED BY <3>1, <3>2 DEF Entry
  <2> QED BY <2>1, <2>2
<1>3. \A b \in D : b \in V /\ b + 1 \in I
  OBVIOUS
<1>4. r = At(s, I)
  BY DEF Ascending
<1> HIDE DEF I, s, r
<1>5. IsFiniteSet(I) /\ I \subseteq Int /\ n \in Nat
  <2>1. IsFiniteSet(1..S)
    BY <1>1, FS_Interval
  <2>2. IsFiniteSet(I)
    BY <1>2, <2>1, FS_Subset
  <2> QED BY <1>2, <2>2, FS_CardinalityType
<1>6. PICK e : Enumerates(e, I) /\ \A m \in 1..n : At(s, I)[m] = s[e[m]]
  BY <1>5, AtEnumerates
<1>7. r = [m \in 1..n |-> r[m]]
  BY <1>4, <1>5, AtEnumerates
<1>8. \A m \in 1..n : /\ e[m] \in I /\ e[m] \in Int /\ r[m] \in Entry
                      /\ r[m].first = e[m] - 1 /\ e[m] - 1 \in D
  BY <1>2, <1>4, <1>5, <1>6 DEF Enumerates
<1> HIDE DEF n
<1>9. r \in Seq(Entry) /\ Len(r) = n /\ DOMAIN r = 1..n
  BY <1>5, <1>7, <1>8, EntriesFrom
<1>10. StrictlySorted(r)
  <2> SUFFICES ASSUME NEW i \in 1..n, NEW j \in 1..n, i < j PROVE r[i].first < r[j].first
    BY <1>9 DEF StrictlySorted
  <2>1. e[i] < e[j]
    BY <1>6 DEF Enumerates, n
  <2> QED BY <1>8, <2>1
<1>11. Keys(r) = D
  <2>1. ASSUME NEW b \in D PROVE b \in Keys(r)
    <3>1. PICK m \in 1..n : e[m] = b + 1
      BY <1>3, <1>6 DEF Enumerates, n
    <3>2. r[m].first = b
      BY <1>1, <1>3, <1>8, <3>1
    <3> QED BY <1>9, <3>2 DEF Keys
  <2>2. Keys(r) \subseteq D
    BY <1>8, <1>9 DEF Keys
  <2> QED BY <2>1, <2>2
<1> QED BY <1>9, <1>10, <1>11 DEF r

LEMMA InitGraph == Init => Graph
<1> SUFFICES ASSUME Init PROVE Graph
  OBVIOUS
<1>1. 1..MaxWeight \subseteq Nat \ {0} /\ V \subseteq Nat
  BY MoveAssumption DEF V
<1>2. CASE FirstPass
  <2>1. PICK G \in SUBSET (V \X V) :
          \E g \in [G -> 1..MaxWeight] : edges = [a \in V |-> Symmetricized(g, a)]
    BY <1>2 DEF FirstPass
  <2>2. PICK g \in [G -> 1..MaxWeight] : edges = [a \in V |-> Symmetricized(g, a)]
    BY <2>1
  <2>3. ASSUME NEW a \in V
        PROVE  /\ edges[a] \in Seq(Entry)
               /\ Keys(edges[a]) = { b \in V : <<a, b>> \in G \/ <<b, a>> \in G }
    <3> DEFINE out == { b \in V : <<a, b>> \in G }
               in == { b \in V : <<b, a>> \in G }
               x == Ascending([b \in out |-> g[<<a, b>>]])
               y == Ascending([b \in in |-> g[<<b, a>>]])
    <3>1. [b \in out |-> g[<<a, b>>]] \in [out -> Nat \ {0}]
      BY <1>1
    <3>2. [b \in in |-> g[<<b, a>>]] \in [in -> Nat \ {0}]
      BY <1>1
    <3>3. x \in Seq(Entry) /\ Keys(x) = out
      <4>1. out \subseteq V
        OBVIOUS
      <4> HIDE DEF out
      <4> QED BY <3>1, <4>1, AscendingRow
    <3>4. y \in Seq(Entry) /\ StrictlySorted(y) /\ Keys(y) = in
      <4>1. in \subseteq V
        OBVIOUS
      <4> HIDE DEF in
      <4> QED BY <3>2, <4>1, AscendingRow
    <3>5. edges[a] = UnionLast(x, y)
      BY <2>2 DEF Symmetricized
    <3>6. HasKeys(Entry)
      BY <1>1 DEF HasKeys, Entry
    <3> HIDE DEF x, y
    <3>7. UnionLast(x, y) \in Seq(Entry) /\ Keys(UnionLast(x, y)) = Keys(x) \cup Keys(y)
      BY <3>3, <3>4, <3>6, UnionFacts
    <3> QED BY <3>3, <3>4, <3>5, <3>7
  <2> QED BY <2>3 DEF Graph
<1>3. CASE LaterPass
  <2>1. edges \in [V -> AggregatedRows]
    BY <1>3 DEF LaterPass
  <2>2. ASSUME NEW r \in AggregatedRows PROVE r \in Seq(Entry)
    <3>1. PICK n \in 0..S : r \in [1..n -> [first : V, second : 1..MaxWeight]]
      BY DEF AggregatedRows
    <3>2. n \in Nat
      BY MoveAssumption
    <3>3. [first : V, second : 1..MaxWeight] \subseteq Entry
      BY <1>1 DEF Entry
    <3>4. \A i \in 1..n : r[i] \in Entry
      BY <3>1, <3>3
    <3> QED BY <3>1, <3>2, <3>4, EntriesFrom
  <2> QED BY <1>3, <2>1, <2>2 DEF Graph, LaterPass
<1> QED BY <1>2, <1>3 DEF Init

LEMMA InitTInv == Init => TInv
<1> SUFFICES ASSUME Init PROVE TInv
  OBVIOUS
<1>1. MInv
  BY InitMInv
<1>3. Graph
  BY InitGraph
<1>4. S \in Nat /\ 0 \in V
  <2>1. S # 0
    <3> SUFFICES ASSUME S = 0 PROVE FALSE
      OBVIOUS
    <3>1. TotalWeight = 0
      BY SumNone DEF TotalWeight, SumOver
    <3> QED BY <3>1 DEF Init
  <2> QED BY <2>1, MoveAssumption DEF V
<1>5. \A a \in V : vtot(a) \in Int
  BY <1>3, WeightTypes
<1>6. Ranges
  <2>1. vcom \in [V -> V] /\ ctot \in [V -> Int] /\ vaff \in [V -> BOOLEAN]
    BY <1>5 DEF Init
  <2>2. next \in 0..S /\ stop \in [Threads -> 0..S] /\ k \in [Threads -> Nat \ {0}]
    BY <1>4 DEF Init
  <2>3. vcs \in [Threads -> Seq(V)] /\ vcout \in [Threads -> [V -> Nat]]
    BY DEF Init, NoScan
  <2>4. best \in [Threads -> [c : V, e : Int]]
    BY <1>4 DEF Init, None
  <2> QED BY <2>1, <2>2, <2>3, <2>4 DEF Ranges
<1>7. Positions
  BY DEF Init, Positions, Position
<1> QED BY <1>1, <1>3, <1>6, <1>7 DEF TInv

\* The vertex in hand is a vertex, and so is what its row holds.
LEMMA InHand ==
  ASSUME TInv, NEW t \in Threads, Busy(t)
  PROVE  u[t] \in V
<1>1. u[t] \in Nat /\ stop[t] \in 0..S /\ u[t] < stop[t]
  BY DEF TInv, MInv, Shapes, Chunks, Ranges
<1> QED BY <1>1, MoveAssumption DEF V

\* What a step of one thread leaves to the others, and the graph.
LEMMA OthersKeep ==
  ASSUME TInv, NEW t \in Threads, Step(t)
  PROVE  /\ edges' = edges /\ threads' = threads
         /\ \A i \in Threads : i # t =>
              /\ at'[i] = at[i] /\ u'[i] = u[i] /\ k'[i] = k[i] /\ stop'[i] = stop[i]
              /\ vcs'[i] = vcs[i] /\ vcout'[i] = vcout[i] /\ best'[i] = best[i]
<1>1. /\ at \in [Threads -> Places] /\ u \in [Threads -> Nat] /\ stop \in [Threads -> 0..S]
      /\ k \in [Threads -> Nat \ {0}] /\ vcs \in [Threads -> Seq(V)]
      /\ vcout \in [Threads -> [V -> Nat]] /\ best \in [Threads -> [c : V, e : Int]]
  BY DEF TInv, MInv, Shapes, Ranges
<1>2. CASE TakeChunk(t)
  BY <1>1, <1>2 DEF TakeChunk, graph, shared, Go
<1>3. CASE Skip(t) \/ Sleep(t)
  BY <1>1, <1>3 DEF Skip, Sleep, NextVertex, graph, shared, Go
<1>4. CASE Begin(t) \/ Wake(t)
  BY <1>1, <1>4 DEF Begin, Wake, Advance, graph, shared, Go
<1>5. CASE Scan(t)
  <2>1. /\ edges' = edges /\ threads' = threads /\ u' = u /\ stop' = stop /\ best' = best
    BY <1>5 DEF Scan, graph
  <2>2. /\ \A i \in Threads : i # t => at'[i] = at[i]
        /\ \A i \in Threads : i # t => k'[i] = k[i]
    BY <1>1, <1>5 DEF Scan, Advance, Go
  <2>3. /\ \E x : vcs' = [vcs EXCEPT ![t] = x]
        /\ \E x : vcout' = [vcout EXCEPT ![t] = x]
    BY <1>1, <1>5 DEF Scan
  <2> QED BY <1>1, <2>1, <2>2, <2>3
<1>6. CASE Choose(t)
  <2>1. /\ edges' = edges /\ threads' = threads /\ u' = u /\ stop' = stop
        /\ vcs' = vcs /\ vcout' = vcout
    BY <1>6 DEF Choose, graph
  <2>2. /\ \A i \in Threads : i # t => at'[i] = at[i] /\ k'[i] = k[i]
        /\ \E x : best' = [best EXCEPT ![t] = x]
    BY <1>1, <1>6 DEF Choose, Advance, Go
  <2> QED BY <1>1, <2>1, <2>2
<1>7. CASE Leave(t) \/ Enter(t) \/ Join(t)
  BY <1>1, <1>7 DEF Leave, Enter, Join, graph, own, Go
<1> QED BY <1>2, <1>3, <1>4, <1>5, <1>6, <1>7 DEF Step

\* Enough of a step for Positions: the others keep theirs.
LEMMA PositionsStep ==
  ASSUME TInv, NEW t \in Threads, Step(t),
         /\ at'[t] \in {"scan", "choose", "leave", "enter", "join", "wake"} => 1 <= Len(edges[u'[t]])
         /\ at'[t] \notin {"scan", "choose", "wake"} => k'[t] = 1
         /\ at'[t] \in {"scan", "wake"} => k'[t] <= Len(edges[u'[t]])
         /\ at'[t] = "choose" => k'[t] <= Len(vcs'[t])
  PROVE  Positions'
<1>1. edges' = edges /\ Threads' = Threads
  BY OthersKeep DEF Threads
<1>2. ASSUME NEW i \in Threads PROVE Position(i)'
  <2>2. CASE i = t
    BY <1>1, <2>2 DEF Position
  <2>3. CASE i # t
    <3>1. at'[i] = at[i] /\ u'[i] = u[i] /\ k'[i] = k[i] /\ vcs'[i] = vcs[i]
      BY <2>3, OthersKeep
    <3>2. Position(i)
      BY DEF TInv, Positions
    <3> QED BY <1>1, <3>1, <3>2 DEF Position
  <2> QED BY <2>2, <2>3
<1> QED BY <1>1, <1>2 DEF Positions

LEMMA GraphStays ==
  ASSUME TInv, edges' = edges
  PROVE  Graph'
BY DEF TInv, Graph, Entry, V

LEMMA TakeChunkTypes ==
  ASSUME TInv, NEW t \in Threads, TakeChunk(t)
  PROVE  Ranges' /\ Positions'
<1>0. Step(t) /\ threads' = threads
  BY DEF Step, TakeChunk, graph
<1>1. Threads' = Threads /\ V' = V
  BY <1>0 DEF Threads, V
<1>2. at \in [Threads -> Places] /\ Position(t) /\ Ranges
  BY DEF TInv, MInv, Shapes, Positions
<1>3. at'[t] = "check" /\ k'[t] = 1
  BY <1>2 DEF TakeChunk, Go, Position
<1>4. Positions'
  BY <1>0, <1>3, PositionsStep
<1>5. next' \in 0..S /\ stop' \in [Threads -> 0..S]
  BY <1>2, MoveAssumption DEF TakeChunk, Ranges
<1>6. UNCHANGED <<vcom, ctot, vaff, k, vcs, vcout, best>>
  BY DEF TakeChunk, shared
<1> QED BY <1>1, <1>2, <1>4, <1>5, <1>6 DEF Ranges

LEMMA TurnTypes ==
  ASSUME TInv, NEW t \in Threads, Skip(t) \/ Sleep(t)
  PROVE  Ranges' /\ Positions'
<1>0. Step(t) /\ threads' = threads
  BY DEF Step, Skip, Sleep, graph
<1>1. Threads' = Threads /\ V' = V
  BY <1>0 DEF Threads, V
<1>2. at \in [Threads -> Places] /\ Position(t) /\ Ranges
  BY DEF TInv, MInv, Shapes, Positions
<1>3. at'[t] \in {"check", "idle"} /\ k' = k /\ k[t] = 1
  BY <1>2 DEF Skip, Sleep, NextVertex, Go, Position
<1>4. Positions'
  BY <1>0, <1>3, PositionsStep
<1>5. UNCHANGED <<vcom, ctot, next, stop, k, vcs, vcout>>
  BY DEF Skip, Sleep, shared, loop
<1>6. vaff' \in [V -> BOOLEAN]
  BY <1>2 DEF Skip, Sleep, shared, Ranges
<1>7. best' \in [Threads -> [c : V, e : Int]]
  <2>1. Sleep(t) => None \in [c : V, e : Int]
    <3> SUFFICES ASSUME Sleep(t) PROVE None \in [c : V, e : Int]
      OBVIOUS
    <3>1. u[t] \in V
      BY InHand DEF Sleep, Busy
    <3> QED BY <3>1, MoveAssumption DEF None, V
  <2> QED BY <1>2, <2>1 DEF Skip, Sleep, Ranges
<1> QED BY <1>1, <1>2, <1>4, <1>5, <1>6, <1>7 DEF Ranges

LEMMA BeginTypes ==
  ASSUME TInv, NEW t \in Threads, Begin(t)
  PROVE  Ranges' /\ Positions'
<1>0. Step(t) /\ threads' = threads
  BY DEF Step, Begin, graph
<1>1. Threads' = Threads /\ V' = V
  BY <1>0 DEF Threads, V
<1>2. at \in [Threads -> Places] /\ Position(t) /\ Ranges
  BY DEF TInv, MInv, Shapes, Positions
<1>3. /\ at'[t] \in {"scan", "sleep"} /\ k' = k /\ k[t] = 1 /\ u' = u
      /\ at'[t] = "scan" => edges[u[t]] # <<>>
  BY <1>2 DEF Begin, Go, Position
<1>4. edges[u[t]] \in Seq(Entry)
  <2>1. u[t] \in V
    BY InHand DEF Begin, Busy
  <2> QED BY <2>1, RowFacts DEF TInv
<1>5. Positions'
  <2>1. edges[u[t]] # <<>> => 1 <= Len(edges[u[t]])
    BY <1>4
  <2> QED BY <1>0, <1>3, <2>1, PositionsStep
<1>6. UNCHANGED <<vcom, ctot, vaff, next, stop, k, best>>
  BY DEF Begin, shared, loop
<1>7. vcs' \in [Threads -> Seq(V)]
  BY <1>2 DEF Begin, Ranges
<1>8. vcout' \in [Threads -> [V -> Nat]]
  <2>1. Cleared(t) \in [V -> Nat]
    BY <1>2 DEF Cleared, Ranges
  <2> QED BY <1>2, <2>1 DEF Begin, Ranges
<1> QED BY <1>1, <1>2, <1>5, <1>6, <1>7, <1>8 DEF Ranges

\* The neighbour a loop over the row is at.
LEMMA AtNeighbour ==
  ASSUME TInv, NEW t \in Threads, at[t] \in {"scan", "wake"}
  PROVE  /\ u[t] \in V /\ k[t] \in 1..Len(edges[u[t]]) /\ Len(edges[u[t]]) \in Nat
         /\ edges[u[t]][k[t]].first \in V /\ edges[u[t]][k[t]].second \in Nat \ {0}
<1>1. u[t] \in V
  BY InHand DEF Busy
<1>2. k[t] \in Nat \ {0} /\ k[t] <= Len(edges[u[t]])
  BY DEF TInv, Ranges, Positions, Position
<1>3. /\ Len(edges[u[t]]) \in Nat
      /\ \A n \in 1..Len(edges[u[t]]) :
           edges[u[t]][n].first \in V /\ edges[u[t]][n].second \in Nat \ {0}
  BY <1>1, RowFacts DEF TInv
<1> QED BY <1>1, <1>2, <1>3

LEMMA ScanTypes ==
  ASSUME TInv, NEW t \in Threads, Scan(t)
  PROVE  Ranges' /\ Positions'
<1>0. Step(t) /\ threads' = threads
  BY DEF Step, Scan, graph
<1>1. Threads' = Threads /\ V' = V
  BY <1>0 DEF Threads, V
<1>2. at \in [Threads -> Places] /\ Position(t) /\ Ranges /\ at[t] = "scan"
  BY DEF TInv, MInv, Shapes, Positions, Scan
<1> DEFINE v == edges[u[t]][k[t]].first
           w == edges[u[t]][k[t]].second
           c == vcom[v]
           n == Len(edges[u[t]])
<1>3. u[t] \in V /\ k[t] \in 1..n /\ n \in Nat /\ v \in V /\ c \in V
  BY <1>2, AtNeighbour DEF Ranges
<1>4. w \in Nat
  BY <1>2, AtNeighbour
<1>5. vcs' \in [Threads -> Seq(V)]
  <2>1. vcs' = vcs \/ vcs' = [vcs EXCEPT ![t] = IF vcout[t][c] = 0 THEN Append(@, c) ELSE @]
    BY DEF Scan
  <2>2. Append(vcs[t], c) \in Seq(V)
    BY <1>2, <1>3 DEF Ranges
  <2> HIDE DEF c
  <2> QED BY <1>2, <2>1, <2>2 DEF Ranges
<1>6. vcout' \in [Threads -> [V -> Nat]]
  <2>1. vcout' = vcout \/ vcout' = [vcout EXCEPT ![t][c] = @ + w]
    BY DEF Scan
  <2>2. vcout \in [Threads -> [V -> Nat]] /\ c \in V /\ w \in Nat
    BY <1>2, <1>3, <1>4 DEF Ranges
  <2> HIDE DEF c, v, w
  <2>3. [vcout[t] EXCEPT ![c] = @ + w] \in [V -> Nat]
    BY <2>2
  <2> QED BY <2>1, <2>2, <2>3
<1>7. UNCHANGED <<vcom, ctot, vaff, next, stop, best, u>>
  BY DEF Scan, shared, loop
<1>8. /\ k' = [k EXCEPT ![t] = IF k[t] < n THEN k[t] + 1 ELSE 1]
      /\ IF k[t] < n THEN at' = at ELSE at' = [at EXCEPT ![t] = IF vcs'[t] = <<>> THEN "sleep" ELSE "choose"]
  BY DEF Scan, Advance, Go
<1> HIDE DEF n
<1>9. k' \in [Threads -> Nat \ {0}]
  BY <1>2, <1>3, <1>8 DEF Ranges
<1>10. Positions'
  <2>1. k[t] < n => at'[t] = "scan" /\ k'[t] <= n
    BY <1>2, <1>3, <1>8 DEF Ranges
  <2>2. ~(k[t] < n) => at'[t] = IF vcs'[t] = <<>> THEN "sleep" ELSE "choose"
    BY <1>2, <1>8
  <2>3. ~(k[t] < n) => k'[t] = 1
    BY <1>2, <1>8 DEF Ranges
  <2>4. vcs'[t] # <<>> => 1 <= Len(vcs'[t])
    <3>1. vcs'[t] \in Seq(V)
      BY <1>5
    <3> QED BY <3>1
  <2>5. 1 <= n
    BY <1>3
  <2> QED BY <1>0, <1>7, <2>1, <2>2, <2>3, <2>4, <2>5, PositionsStep DEF n
<1> QED BY <1>1, <1>2, <1>5, <1>6, <1>7, <1>9, <1>10 DEF Ranges

\* A gain is an integer.
LEMMA GainType ==
  ASSUME Graph, NEW a \in V, NEW vc \in Int, NEW vd \in Int, NEW ct \in Int, NEW dt \in Int
  PROVE  deltaModularity(vc, vd, vtot(a), ct, dt) \in Int
<1>1. vtot(a) \in Int /\ TotalWeight \in Int
  BY WeightTypes
<1> DEFINE w == TotalWeight
           x == vtot(a)
<1>2. vc - vd \in Int /\ x + ct - dt \in Int /\ w \in Int /\ x \in Int
  BY <1>1
<1> HIDE DEF w, x
<1>3. w * (vc - vd) \in Int /\ x * (x + ct - dt) \in Int
  BY <1>2
<1>4. w * (vc - vd) - x * (x + ct - dt) \in Int
  BY <1>3
<1> QED BY <1>4 DEF deltaModularity, w, x

LEMMA ChooseTypes ==
  ASSUME TInv, NEW t \in Threads, Choose(t)
  PROVE  Ranges' /\ Positions'
<1>0. Step(t) /\ threads' = threads
  BY SMTT(30) DEF Step, Choose, graph
<1>1. Threads' = Threads /\ V' = V
  BY <1>0 DEF Threads, V
<1>2. at \in [Threads -> Places] /\ Position(t) /\ Ranges /\ at[t] = "choose"
  BY DEF TInv, MInv, Shapes, Positions, Choose
<1>3. u[t] \in V
  BY <1>2, InHand DEF Busy
<1> DEFINE c == vcs[t][k[t]]
           d == vcom[u[t]]
           e == deltaModularity(vcout[t][c], vcout[t][d], vtot(u[t]), ctot[c], ctot[d])
           n == Len(vcs[t])
<1>4. n \in Nat /\ k[t] \in 1..n /\ c \in V /\ d \in V
  <2>1. vcs[t] \in Seq(V) /\ k[t] \in Nat \ {0} /\ k[t] <= n
    BY <1>2 DEF Ranges, Position
  <2> QED BY <1>2, <1>3, <2>1, SMTT(30) DEF Ranges
<1>5. e \in Int
  <2> HIDE DEF c, d
  <2>1. vcout[t][c] \in Int /\ vcout[t][d] \in Int /\ ctot[c] \in Int /\ ctot[d] \in Int
    BY <1>2, <1>4 DEF Ranges
  <2> QED BY <1>3, <2>1, GainType DEF TInv
<1>6. best' \in [Threads -> [c : V, e : Int]]
  <2>1. best' = best \/ best' = [best EXCEPT ![t] = [c |-> c, e |-> e]]
    <3>1. best' = [best EXCEPT ![t] = IF c # d /\ e > @.e THEN [c |-> c, e |-> e] ELSE @]
      BY DEF Choose
    <3> HIDE DEF c, d, e
    <3> QED BY <1>2, <3>1 DEF Ranges
  <2>2. best \in [Threads -> [c : V, e : Int]]
    BY <1>2 DEF Ranges
  <2>3. [c |-> c, e |-> e] \in [c : V, e : Int]
    <3> HIDE DEF c, d, e
    <3> QED BY <1>4, <1>5
  <2> HIDE DEF c, d, e
  <2> QED BY <2>1, <2>2, <2>3
<1>7. UNCHANGED <<vcom, ctot, vaff, next, stop, u, vcs, vcout>>
  BY DEF Choose, shared, loop
<1>8. /\ k' = [k EXCEPT ![t] = IF k[t] < n THEN k[t] + 1 ELSE 1]
      /\ IF k[t] < n THEN at' = at ELSE at' = [at EXCEPT ![t] = IF Moves(best'[t]) THEN "leave" ELSE "sleep"]
  BY DEF Choose, Advance, Go
<1> HIDE DEF c, d, e, n
<1>9. k' \in [Threads -> Nat \ {0}]
  BY <1>2, <1>4, <1>8 DEF Ranges
<1>10. Positions'
  <2>1. k[t] < n => at'[t] = "choose" /\ k'[t] <= n
    BY <1>2, <1>4, <1>8 DEF Ranges
  <2>2. ~(k[t] < n) => at'[t] \in {"leave", "sleep"}
    BY <1>2, <1>8
  <2>3. ~(k[t] < n) => k'[t] = 1
    BY <1>2, <1>8 DEF Ranges
  <2>4. 1 <= Len(edges[u[t]])
    BY <1>2 DEF Position
  <2> QED BY <1>0, <1>7, <2>1, <2>2, <2>3, <2>4, PositionsStep DEF n
<1> QED BY <1>1, <1>2, <1>6, <1>7, <1>9, <1>10, SMTT(30) DEF Ranges

LEMMA MoveTypes ==
  ASSUME TInv, NEW t \in Threads, Leave(t) \/ Enter(t) \/ Join(t)
  PROVE  Ranges' /\ Positions'
<1>0. Step(t) /\ threads' = threads
  BY DEF Step, Leave, Enter, Join, graph
<1>1. Threads' = Threads /\ V' = V
  BY <1>0 DEF Threads, V
<1>2. at \in [Threads -> Places] /\ Position(t) /\ Ranges
  BY DEF TInv, MInv, Shapes, Positions
<1>3. u[t] \in V /\ best[t].c \in V /\ vtot(u[t]) \in Int
  <2>1. u[t] \in V
    BY InHand DEF Leave, Enter, Join, Busy
  <2> QED BY <1>2, <2>1, WeightTypes, SMTT(30) DEF TInv, Ranges
<1>4. ctot' \in [V -> Int]
  BY <1>2, <1>3, SMTT(30) DEF Leave, Enter, Join, Ranges
<1>5. vcom' \in [V -> V]
  BY <1>2, <1>3 DEF Leave, Enter, Join, Ranges
<1>6. UNCHANGED <<vaff, next, stop, u, k, vcs, vcout, best>>
  BY DEF Leave, Enter, Join, loop, own
<1>7. at'[t] \in {"enter", "join", "wake"} /\ k[t] = 1 /\ 1 <= Len(edges[u[t]])
  BY <1>2 DEF Leave, Enter, Join, Go, Position
<1>8. Positions'
  BY <1>0, <1>6, <1>7, PositionsStep
<1> QED BY <1>1, <1>2, <1>4, <1>5, <1>6, <1>8 DEF Ranges

LEMMA WakeTypes ==
  ASSUME TInv, NEW t \in Threads, Wake(t)
  PROVE  Ranges' /\ Positions'
<1>0. Step(t) /\ threads' = threads
  BY DEF Step, Wake, graph
<1>1. Threads' = Threads /\ V' = V
  BY <1>0 DEF Threads, V
<1>2. at \in [Threads -> Places] /\ Position(t) /\ Ranges /\ at[t] = "wake"
  BY DEF TInv, MInv, Shapes, Positions, Wake
<1> DEFINE n == Len(edges[u[t]])
<1>3. k[t] \in 1..n /\ n \in Nat
  BY <1>2, AtNeighbour
<1>4. vaff' \in [V -> BOOLEAN]
  BY <1>2 DEF Wake, Ranges
<1>5. UNCHANGED <<vcom, ctot, next, stop, u, vcs, vcout, best>>
  BY DEF Wake, loop
<1>6. /\ k' = [k EXCEPT ![t] = IF k[t] < n THEN k[t] + 1 ELSE 1]
      /\ IF k[t] < n THEN at' = at ELSE at' = [at EXCEPT ![t] = "sleep"]
  BY DEF Wake, Advance, Go
<1> HIDE DEF n
<1>7. k' \in [Threads -> Nat \ {0}]
  BY <1>2, <1>3, <1>6 DEF Ranges
<1>8. Positions'
  <2>1. k[t] < n => at'[t] = "wake" /\ k'[t] <= n
    BY <1>2, <1>3, <1>6 DEF Ranges
  <2>2. ~(k[t] < n) => at'[t] = "sleep" /\ k'[t] = 1
    BY <1>2, <1>6 DEF Ranges
  <2> QED BY <1>0, <1>3, <1>5, <2>1, <2>2, PositionsStep DEF n
<1> QED BY <1>1, <1>2, <1>4, <1>5, <1>7, <1>8 DEF Ranges

LEMMA NextKeepsTInv == TInv /\ [Next]_vars => TInv'
<1> SUFFICES ASSUME TInv, [Next]_vars PROVE TInv'
  OBVIOUS
<1>1. MInv'
  BY NextKeepsMInv DEF TInv
<1>2. ASSUME NEW t \in Threads, Step(t) PROVE TInv'
  <2>1. Ranges' /\ Positions'
    BY <1>2, TakeChunkTypes, TurnTypes, BeginTypes, ScanTypes, ChooseTypes, MoveTypes, WakeTypes
       DEF Step
  <2>2. Graph'
    BY <1>2, OthersKeep, GraphStays
  <2> QED BY <1>1, <2>1, <2>2 DEF TInv
<1>3. CASE EndIteration
  <2>1. /\ UNCHANGED <<graph, vcom, ctot, vaff, own>> /\ next' \in {next, 0}
        /\ \A t \in Threads : at[t] = "idle"
        /\ at' \in {at, [t \in Threads |-> "done"]}
    BY <1>3 DEF EndIteration
  <2>2. Threads' = Threads /\ V' = V /\ edges' = edges
    BY <2>1 DEF Threads, V, graph
  <2>3. Graph'
    BY <2>2, GraphStays
  <2>4. UNCHANGED <<u, stop, k, vcs, vcout, best>>
    BY <2>1 DEF own
  <2>5. Ranges'
    BY <2>1, <2>2, <2>4, MoveAssumption DEF Ranges, TInv
  <2>6. \A t \in Threads : k[t] = 1
    BY <2>1 DEF TInv, Positions, Position
  <2>7. \A t \in Threads : at'[t] \in {"idle", "done"} /\ k'[t] = 1
    BY <2>1, <2>4, <2>6
  <2>8. Positions'
    BY <2>2, <2>7 DEF Positions, Position
  <2> QED BY <1>1, <2>3, <2>5, <2>8 DEF TInv
<1>4. CASE UNCHANGED vars
  <2>1. UNCHANGED <<edges, threads, vcom, ctot, vaff, next, at, u, stop, k, vcs, vcout, best>>
    BY <1>4 DEF vars, graph, shared, loop, own
  <2>2. Threads' = Threads /\ V' = V
    BY <2>1 DEF Threads, V
  <2>3. Graph'
    BY <2>1, GraphStays
  <2>4. Ranges'
    BY <2>1, <2>2 DEF TInv, Ranges
  <2>5. ASSUME NEW t \in Threads PROVE Position(t)'
    <3>1. Position(t)
      BY DEF TInv, Positions
    <3> QED BY <2>1, <3>1 DEF Position
  <2> QED BY <1>1, <2>2, <2>3, <2>4, <2>5 DEF TInv, Positions
<1> QED BY <1>2, <1>3, <1>4 DEF Next

-----------------------------------------------------------------------------
(* No update of a community's weight is lost.                              *)

Between(t) == at[t] \in {"enter", "join"}

\* A vertex on its way to another community counts where its one thread says.
LEMMA CountsOnTheWay ==
  ASSUME OneThreadPerVertex, NEW t \in Threads, Between(t)
  PROVE  CountsIn(u[t]) = IF at[t] = "join" THEN {best[t].c} ELSE {}
<1>1. Owner(u[t]) = {t}
  BY DEF Owner, OneThreadPerVertex, Busy, Between
<1> QED BY <1>1 DEF CountsIn

LEMMA CountsAtHome ==
  ASSUME NEW a, \A t \in Threads : u[t] = a => ~Between(t)
  PROVE  CountsIn(a) = {vcom[a]}
<1>1. Owner(a) = {}
  BY DEF Owner, Between
<1> QED BY <1>1 DEF CountsIn

LEMMA CountsOnTheWayNext ==
  ASSUME OneThreadPerVertex', NEW t \in Threads', Between(t)'
  PROVE  CountsIn(u[t])' = IF at'[t] = "join" THEN {best'[t].c} ELSE {}
<1>1. Owner(u[t])' = {t}
  BY DEF Owner, OneThreadPerVertex, Busy, Between
<1> QED BY <1>1 DEF CountsIn

LEMMA CountsAtHomeNext ==
  ASSUME NEW a, \A t \in Threads' : u'[t] = a => ~Between(t)'
  PROVE  CountsIn(a)' = {vcom'[a]}
<1>1. Owner(a)' = {}
  BY DEF Owner, Between
<1> QED BY <1>1 DEF CountsIn

LEMMA WeightsStay ==
  ASSUME edges' = edges, NEW a
  PROVE  vtot(a)' = vtot(a)
BY DEF vtot, WeightTo, V

\* What one vertex takes out of a community's weight or adds to it.
Share(a, c) == IF c \in CountsIn(a) THEN vtot(a) ELSE 0

LEMMA WeightsShift ==
  ASSUME TInv, WeightsAgree, edges' = edges, NEW a \in V,
         \A b \in V : b # a => CountsIn(b)' = CountsIn(b),
         \A c \in V : ctot'[c] = ctot[c] + (Share(a, c)' - Share(a, c))
  PROVE  WeightsAgree'
<1>1. V' = V /\ S \in Nat /\ V = 0..(S - 1)
  BY MoveAssumption DEF V
<1>2. SUFFICES ASSUME NEW c \in V
               PROVE  ctot'[c] = Sum([b \in V |-> Share(b, c)'], 0, S)
  BY <1>1 DEF WeightsAgree, SumOver, Share
<1> DEFINE f == [b \in V |-> Share(b, c)]
           g == [b \in V |-> Share(b, c)']
<1>3. ctot[c] = Sum(f, 0, S)
  BY DEF WeightsAgree, SumOver, Share
<1>4. \A b \in V : vtot(b)' = vtot(b) /\ vtot(b) \in Int
  BY WeightsStay, WeightTypes DEF TInv
<1>5. \A b \in V : Share(b, c) \in Int /\ Share(b, c)' \in Int
  BY <1>4 DEF Share
<1>6. \A b \in V : b # a => Share(b, c)' = Share(b, c)
  BY <1>4 DEF Share
<1>7. /\ \A b \in 0..(S - 1) : f[b] \in Int /\ g[b] \in Int
      /\ \A b \in 0..(S - 1) : b # a => f[b] = g[b]
      /\ f[a] = Share(a, c) /\ g[a] = Share(a, c)' /\ a \in 0..(S - 1)
  BY <1>1, <1>5, <1>6
<1> HIDE DEF f, g
<1>8. Sum(g, 0, S) = Sum(f, 0, S) + (g[a] - f[a])
  <2>1. 0 \in Nat /\ S \in Nat
    BY <1>1
  <2> QED BY <1>7, <2>1, SumChanged, Zenon
<1> QED BY <1>3, <1>7, <1>8 DEF g

\* The steps that move no vertex.
LEMMA QuietWeights ==
  ASSUME TInv, WeightsAgree, edges' = edges, threads' = threads, ctot' = ctot, vcom' = vcom,
         \A t \in Threads : Between(t)' <=> Between(t),
         \A t \in Threads : Between(t) => at'[t] = at[t] /\ u'[t] = u[t] /\ best'[t] = best[t],
         \A t \in Threads : Between(t)' => u'[t] = u[t]
  PROVE  WeightsAgree'
<1>1. V' = V /\ Threads' = Threads
  BY DEF V, Threads
<1>2. ASSUME NEW a \in V PROVE CountsIn(a)' = CountsIn(a)
  <2>1. Owner(a)' = Owner(a)
    BY <1>1 DEF Owner, Between
  <2>2. \A t \in Owner(a) : at'[t] = at[t] /\ best'[t] = best[t]
    BY DEF Owner, Between
  <2> QED BY <2>1, <2>2 DEF CountsIn
<1>3. \A a \in V : vtot(a)' = vtot(a)
  BY WeightsStay
<1> QED BY <1>1, <1>2, <1>3 DEF WeightsAgree, SumOver

LEMMA OtherVerticesCount ==
  ASSUME TInv, NEW t \in Threads, Step(t), u'[t] = u[t],
         NEW b, b # u[t], vcom'[b] = vcom[b]
  PROVE  CountsIn(b)' = CountsIn(b)
<1>1. Threads' = Threads
  BY OthersKeep DEF Threads
<1>2. \A i \in Threads : i # t => at'[i] = at[i] /\ u'[i] = u[i] /\ best'[i] = best[i]
  BY OthersKeep
<1>3. Owner(b)' = Owner(b) /\ t \notin Owner(b)
  BY <1>1, <1>2 DEF Owner
<1>4. \A i \in Owner(b) : i # t /\ i \in Threads
  BY <1>3 DEF Owner
<1>5. \A i \in Owner(b) : at'[i] = at[i] /\ best'[i] = best[i]
  BY <1>2, <1>4
<1> QED BY <1>3, <1>5, ZenonT(60) DEF CountsIn

\* No thread is between the updates for a vertex that another one has in hand.
LEMMA NobodyBetween ==
  ASSUME TInv, NEW t \in Threads, Busy(t), ~Between(t)
  PROVE  CountsIn(u[t]) = {vcom[u[t]]}
<1>1. OneThreadPerVertex
  BY DisjointVertices DEF TInv
<1>2. \A i \in Threads : u[i] = u[t] => ~Between(i)
  BY <1>1 DEF OneThreadPerVertex, Busy, Between
<1> QED BY <1>2, CountsAtHome

\* Leave: the vertex counts nowhere, and its weight is gone from its community.
LEMMA LeaveWeights ==
  ASSUME TInv, WeightsAgree, OneThreadPerVertex', NEW t \in Threads, Leave(t)
  PROVE  WeightsAgree'
<1>0. Step(t) /\ edges' = edges /\ threads' = threads /\ u' = u /\ vcom' = vcom
  BY DEF Step, Leave, graph, own
<1>1. Threads' = Threads
  BY <1>0 DEF Threads
<1>2. at \in [Threads -> Places] /\ ctot \in [V -> Int] /\ vcom \in [V -> V]
  BY DEF TInv, MInv, Shapes, Ranges
<1>3. at[t] = "leave" /\ at'[t] = "enter"
  BY <1>2 DEF Leave, Go
<1>4. u[t] \in V
  BY <1>3, InHand DEF Busy
<1>5. CountsIn(u[t]) = {vcom[u[t]]}
  BY <1>3, NobodyBetween DEF Busy, Between
<1>6. CountsIn(u[t])' = {}
  BY <1>1, <1>3, CountsOnTheWayNext DEF Between
<1>7. \A b \in V : b # u[t] => CountsIn(b)' = CountsIn(b)
  BY <1>0, OtherVerticesCount
<1>8. vtot(u[t]) \in Int /\ vtot(u[t])' = vtot(u[t])
  BY <1>0, <1>4, WeightTypes, WeightsStay DEF TInv
<1>9. ASSUME NEW c \in V PROVE ctot'[c] = ctot[c] + (Share(u[t], c)' - Share(u[t], c))
  <2>1. ctot' = [ctot EXCEPT ![vcom[u[t]]] = @ - vtot(u[t])]
    BY DEF Leave
  <2>2. Share(u[t], c) = IF c = vcom[u[t]] THEN vtot(u[t]) ELSE 0
    BY <1>5 DEF Share
  <2>3. Share(u[t], c)' = 0
    BY <1>6 DEF Share
  <2>4. ctot[c] \in Int
    BY <1>2
  <2> QED BY <1>2, <1>8, <2>1, <2>2, <2>3, <2>4
<1>10. PICK a \in V : a = u[t]
  BY <1>4
<1>11. \A c : Share(a, c)' = Share(u[t], c)'
  BY <1>0, <1>10 DEF Share, CountsIn, Owner, vtot, WeightTo, V
<1> QED BY <1>0, <1>7, <1>9, <1>10, <1>11, WeightsShift

\* Enter: the weight arrives where the vertex now counts.
LEMMA EnterWeights ==
  ASSUME TInv, WeightsAgree, OneThreadPerVertex', NEW t \in Threads, Enter(t)
  PROVE  WeightsAgree'
<1>0. /\ Step(t) /\ edges' = edges /\ threads' = threads /\ u' = u /\ vcom' = vcom
      /\ best' = best
  BY DEF Step, Enter, graph, own
<1>1. Threads' = Threads
  BY <1>0 DEF Threads
<1>2. /\ at \in [Threads -> Places] /\ ctot \in [V -> Int] /\ vcom \in [V -> V]
      /\ best[t].c \in V
  BY DEF TInv, MInv, Shapes, Ranges
<1>3. at[t] = "enter" /\ at'[t] = "join"
  BY <1>2 DEF Enter, Go
<1>4. u[t] \in V
  BY <1>3, InHand DEF Busy
<1>5. CountsIn(u[t]) = {}
  <2>1. OneThreadPerVertex
    BY DisjointVertices DEF TInv
  <2> QED BY <1>3, <2>1, CountsOnTheWay DEF Between
<1>6. CountsIn(u[t])' = {best[t].c}
  BY <1>0, <1>1, <1>3, CountsOnTheWayNext DEF Between
<1>7. \A b \in V : b # u[t] => CountsIn(b)' = CountsIn(b)
  BY <1>0, OtherVerticesCount
<1>8. vtot(u[t]) \in Int /\ vtot(u[t])' = vtot(u[t])
  BY <1>0, <1>4, WeightTypes, WeightsStay DEF TInv
<1>9. ASSUME NEW c \in V PROVE ctot'[c] = ctot[c] + (Share(u[t], c)' - Share(u[t], c))
  <2>1. ctot' = [ctot EXCEPT ![best[t].c] = @ + vtot(u[t])]
    BY DEF Enter
  <2>2. Share(u[t], c) = 0
    BY <1>5 DEF Share
  <2>3. Share(u[t], c)' = IF c = best[t].c THEN vtot(u[t]) ELSE 0
    BY <1>6, <1>8 DEF Share
  <2>4. ctot[c] \in Int
    BY <1>2
  <2> QED BY <1>2, <1>8, <2>1, <2>2, <2>3, <2>4
<1>10. PICK a \in V : a = u[t]
  BY <1>4
<1>11. \A c : Share(a, c)' = Share(u[t], c)'
  BY <1>0, <1>10 DEF Share, CountsIn, Owner, vtot, WeightTo, V
<1> QED BY <1>0, <1>7, <1>9, <1>10, <1>11, WeightsShift

\* Join: the vertex counts where it did.
LEMMA JoinWeights ==
  ASSUME TInv, WeightsAgree, OneThreadPerVertex', NEW t \in Threads, Join(t)
  PROVE  WeightsAgree'
<1>0. /\ Step(t) /\ edges' = edges /\ threads' = threads /\ u' = u /\ ctot' = ctot
      /\ vcom' = [vcom EXCEPT ![u[t]] = best[t].c]
  BY DEF Step, Join, graph, own
<1>1. Threads' = Threads /\ V' = V
  BY <1>0 DEF Threads, V
<1>2. at \in [Threads -> Places] /\ ctot \in [V -> Int] /\ vcom \in [V -> V]
  BY DEF TInv, MInv, Shapes, Ranges
<1>3. at[t] = "join" /\ at'[t] = "wake"
  BY <1>2 DEF Join, Go
<1>4. u[t] \in V
  BY <1>3, InHand DEF Busy
<1>5. CountsIn(u[t]) = {best[t].c}
  <2>1. OneThreadPerVertex
    BY DisjointVertices DEF TInv
  <2> QED BY <1>3, <2>1, CountsOnTheWay DEF Between
<1>6. ASSUME NEW b \in V, b = u[t] PROVE CountsIn(b)' = CountsIn(b)
  <2>1. \A i \in Threads' : u'[i] = b => ~Between(i)'
    BY <1>0, <1>1, <1>3, <1>6 DEF OneThreadPerVertex, Busy, Between
  <2>2. CountsIn(b)' = {vcom'[b]}
    BY <2>1, CountsAtHomeNext
  <2> QED BY <1>0, <1>2, <1>4, <1>5, <1>6, <2>2
<1>7. \A b \in V : b # u[t] => CountsIn(b)' = CountsIn(b)
  BY <1>0, <1>2, OtherVerticesCount
<1>8. \A b \in V : CountsIn(b)' = CountsIn(b) /\ vtot(b)' = vtot(b)
  BY <1>0, <1>6, <1>7, WeightsStay
<1> QED BY <1>0, <1>1, <1>8 DEF WeightsAgree, SumOver

LEMMA NextKeepsWeights ==
  ASSUME TInv, WeightsAgree, OneThreadPerVertex', [Next]_vars
  PROVE  WeightsAgree'
<1>1. ASSUME NEW t \in Threads, Step(t), ~(Leave(t) \/ Enter(t) \/ Join(t))
      PROVE  WeightsAgree'
  <2>1. at \in [Threads -> Places]
    BY DEF TInv, MInv, Shapes
  <2>2. ~Between(t) /\ ~Between(t)'
    BY <1>1, <2>1
       DEF Step, TakeChunk, Skip, Begin, Scan, Choose, Wake, Sleep, NextVertex, Advance, Go, Between
  <2>3. ctot' = ctot /\ vcom' = vcom
    BY <1>1 DEF Step, TakeChunk, Skip, Begin, Scan, Choose, Wake, Sleep, shared
  <2>4. /\ edges' = edges /\ threads' = threads
        /\ \A i \in Threads : i # t => at'[i] = at[i] /\ u'[i] = u[i] /\ best'[i] = best[i]
    BY <1>1, OthersKeep
  <2>5. \A i \in Threads : Between(i)' <=> Between(i)
    BY <2>2, <2>4 DEF Between
  <2>6. \A i \in Threads : Between(i) => at'[i] = at[i] /\ u'[i] = u[i] /\ best'[i] = best[i]
    BY <2>2, <2>4
  <2> QED BY <2>3, <2>4, <2>5, <2>6, QuietWeights
<1>2. ASSUME NEW t \in Threads, Leave(t) \/ Enter(t) \/ Join(t) PROVE WeightsAgree'
  BY <1>2, LeaveWeights, EnterWeights, JoinWeights
<1>3. CASE EndIteration
  <2>1. /\ edges' = edges /\ threads' = threads /\ ctot' = ctot /\ vcom' = vcom
        /\ \A i \in Threads : at[i] = "idle" /\ at'[i] \in {"idle", "done"}
    BY <1>3 DEF EndIteration, graph
  <2>2. \A i \in Threads : ~Between(i) /\ ~Between(i)'
    BY <2>1 DEF Between
  <2> QED BY <2>1, <2>2, QuietWeights
<1>4. CASE UNCHANGED vars
  <2>1. UNCHANGED <<edges, threads, ctot, vcom, at, u, best>>
    BY <1>4 DEF vars, graph, shared, own
  <2>2. \A i \in Threads : Between(i)' <=> Between(i)
    BY <2>1 DEF Between
  <2> QED BY <2>1, <2>2, QuietWeights
<1> QED BY <1>1, <1>2, <1>3, <1>4 DEF Next

\* Each vertex counts in its own community at first.
LEMMA InitWeights == Init => WeightsAgree
<1> SUFFICES ASSUME Init, NEW c \in V
             PROVE  ctot[c] = SumOver([a \in V |-> IF c \in CountsIn(a) THEN vtot(a) ELSE 0])
  BY DEF WeightsAgree
<1>1. TInv
  BY InitTInv
<1>2. \A a \in V : CountsIn(a) = {a}
  <2>1. \A t \in Threads : ~Between(t)
    BY DEF Init, Between
  <2> QED BY <2>1, CountsAtHome DEF Init
<1>3. \A a \in V : vtot(a) \in Int
  BY <1>1, WeightTypes DEF TInv
<1> DEFINE f == [a \in V |-> IF c \in CountsIn(a) THEN vtot(a) ELSE 0]
           z == [a \in V |-> 0]
<1>4. S \in Nat /\ V = 0..(S - 1)
  BY MoveAssumption DEF V
<1>5. /\ \A a \in 0..(S - 1) : z[a] = 0 /\ f[a] \in Int
      /\ \A a \in 0..(S - 1) : a # c => z[a] = f[a]
      /\ f[c] = vtot(c) /\ z[c] = 0 /\ c \in 0..(S - 1)
  BY <1>2, <1>3, <1>4
<1> HIDE DEF f, z
<1>6. Sum(z, 0, S) = 0
  BY <1>4, <1>5, SumZero
<1>7. Sum(f, 0, S) = Sum(z, 0, S) + (f[c] - z[c])
  <2>1. \A a \in 0..(S - 1) : z[a] \in Int /\ f[a] \in Int
    BY <1>5
  <2>2. 0 \in Nat /\ S \in Nat
    BY <1>4
  <2>3. c \in 0..(S - 1) /\ \A a \in 0..(S - 1) : a # c => z[a] = f[a]
    BY <1>5
  <2> QED BY <2>1, <2>2, <2>3, SumChanged, Zenon
<1>8. ctot[c] = vtot(c)
  BY DEF Init
<1> QED BY <1>3, <1>5, <1>6, <1>7, <1>8 DEF SumOver, f

\* However the threads interleave, a community weighs what its members weigh:
\* no atomic update is lost or made twice, for every graph and number of threads.
THEOREM NoWeightIsLost == Spec => []WeightsAgree
<1>1. Init => TInv /\ WeightsAgree
  BY InitTInv, InitWeights
<1>2. TInv => OneThreadPerVertex
  BY DisjointVertices DEF TInv
<1>3. TInv /\ WeightsAgree /\ OneThreadPerVertex' /\ [Next]_vars => WeightsAgree'
  BY NextKeepsWeights
<1> QED BY <1>1, <1>2, <1>3, NextKeepsTInv, PTL DEF Spec

-----------------------------------------------------------------------------
(* A scan counts each entry once.                                          *)

\* The targets that a scan counts: all but the loop.
Others(a) == V \ {a}

\* The table and the list of communities belong together, and the table holds
\* what the entries before the next one weigh.
Listed(t) ==
  /\ \A i, j \in 1..Len(vcs[t]) : vcs[t][i] = vcs[t][j] => i = j
  /\ \A c \in V : vcout[t][c] > 0 <=> \E i \in 1..Len(vcs[t]) : vcs[t][i] = c
Counted(t) ==
  /\ at[t] = "scan" => SumOver(vcout[t]) = Before(u[t], Others(u[t]), k[t])
  /\ at[t] \in {"choose", "leave", "enter", "join"} =>
       SumOver(vcout[t]) = WeightTo(u[t], Others(u[t]))

SInv == TInv /\ \A t \in Threads : Listed(t) /\ Counted(t)

LEMMA OthersStay ==
  ASSUME edges' = edges, NEW t
  PROVE  /\ Before(u[t], Others(u[t]), k[t])' = Before(u'[t], Others(u'[t]), k'[t])
         /\ WeightTo(u[t], Others(u[t]))' = WeightTo(u'[t], Others(u'[t]))
BY DEF Before, Counts, WeightTo, Others, V

\* Enough of a step for SInv: the others keep their tables and their place.
LEMMA ScanStep ==
  ASSUME SInv, TInv', NEW t \in Threads, Step(t), Listed(t)',
         at'[t] = "scan" => SumOver(vcout'[t]) = Before(u'[t], Others(u'[t]), k'[t]),
         at'[t] \in {"choose", "leave", "enter", "join"} =>
           SumOver(vcout'[t]) = WeightTo(u'[t], Others(u'[t]))
  PROVE  SInv'
<1>1. edges' = edges /\ threads' = threads /\ Threads' = Threads
  BY OthersKeep DEF SInv, Threads
<1>2. ASSUME NEW i \in Threads PROVE Listed(i)' /\ Counted(i)'
  <2>1. /\ Before(u[i], Others(u[i]), k[i])' = Before(u'[i], Others(u'[i]), k'[i])
        /\ WeightTo(u[i], Others(u[i]))' = WeightTo(u'[i], Others(u'[i]))
    BY <1>1, OthersStay
  <2>2. CASE i = t
    BY <2>1, <2>2 DEF Counted, SumOver
  <2>3. CASE i # t
    <3>1. /\ at'[i] = at[i] /\ u'[i] = u[i] /\ k'[i] = k[i]
          /\ vcs'[i] = vcs[i] /\ vcout'[i] = vcout[i]
      BY <2>3, OthersKeep DEF SInv
    <3>2. Listed(i) /\ Counted(i)
      BY DEF SInv
    <3> QED BY <2>1, <3>1, <3>2 DEF Listed, Counted, SumOver, V
  <2> QED BY <2>2, <2>3
<1> QED BY <1>1, <1>2 DEF SInv

\* A cleared table is empty: every community it holds is listed.
LEMMA ClearedTable ==
  ASSUME SInv, NEW t \in Threads
  PROVE  \A c \in V : Cleared(t)[c] = 0
<1>1. vcout[t] \in [V -> Nat] /\ vcs[t] \in Seq(V) /\ Listed(t)
  BY DEF SInv, TInv, Ranges
<1> SUFFICES ASSUME NEW c \in V PROVE Cleared(t)[c] = 0
  OBVIOUS
<1>2. CASE \E i \in DOMAIN vcs[t] : vcs[t][i] = c
  BY <1>2 DEF Cleared
<1>3. CASE ~ \E i \in DOMAIN vcs[t] : vcs[t][i] = c
  <2>1. ~(vcout[t][c] > 0)
    BY <1>1, <1>3 DEF Listed
  <2>2. vcout[t][c] \in Nat
    BY <1>1
  <2> QED BY <1>3, <2>1, <2>2 DEF Cleared
<1> QED BY <1>2, <1>3

LEMMA BeginKeepsScans ==
  ASSUME SInv, TInv', NEW t \in Threads, Begin(t)
  PROVE  SInv'
<1>1. Step(t) /\ Listed(t) /\ TInv /\ Graph /\ Ranges /\ Position(t) /\ Position(t)'
      /\ at \in [Threads -> Places]
  BY OthersKeep DEF SInv, TInv, Positions, Step, Begin, MInv, Shapes, Threads
<1>2. /\ vcs'[t] = <<>> /\ vcout'[t] = Cleared(t) /\ u' = u /\ k' = k /\ k[t] = 1
      /\ at'[t] \in {"scan", "sleep"} /\ V' = V
      /\ at'[t] = "scan" => 1 <= Len(edges[u[t]])
  <2>1. edges' = edges
    BY <1>1, OthersKeep
  <2> QED BY <1>1, <2>1 DEF Begin, Go, Ranges, Position, V
<1>3. S \in Nat /\ V = 0..(S - 1) /\ \A c \in V : Cleared(t)[c] = 0
  BY ClearedTable, MoveAssumption DEF V
<1>4. SumOver(vcout'[t]) = 0
  <2> DEFINE z == Cleared(t)
  <2>1. \A j \in 0..(S - 1) : z[j] = 0
    BY <1>3
  <2> HIDE DEF z
  <2>2. Sum(z, 0, S) = 0
    BY <1>3, <2>1, SumZero
  <2> QED BY <1>2, <2>2 DEF z, SumOver
<1>5. Before(u'[t], Others(u'[t]), k'[t]) = 0
  <2>1. u[t] \in V
    BY <1>1, InHand DEF Begin, Busy
  <2> QED BY <1>1, <1>2, <2>1, OneMoreEntry
<1>6. Listed(t)'
  BY <1>2, <1>3 DEF Listed
<1> QED BY <1>1, <1>2, <1>4, <1>5, <1>6, ScanStep

\* What one edge does to a table and its list, whatever they are.
LEMMA TableAndList ==
  ASSUME NEW X, NEW x \in [X -> Nat], NEW q \in Seq(X), NEW c \in X, NEW w \in Nat \ {0},
         NEW y, y = [x EXCEPT ![c] = x[c] + w],
         NEW r, r = IF x[c] = 0 THEN Append(q, c) ELSE q,
         \A i, j \in 1..Len(q) : q[i] = q[j] => i = j,
         \A b \in X : x[b] > 0 <=> \E i \in 1..Len(q) : q[i] = b
  PROVE  /\ y \in [X -> Nat] /\ y[c] - x[c] = w /\ \A b \in X : b # c => x[b] = y[b]
         /\ \A i, j \in 1..Len(r) : r[i] = r[j] => i = j
         /\ \A b \in X : y[b] > 0 <=> \E i \in 1..Len(r) : r[i] = b
<1>1. /\ y \in [X -> Nat] /\ y[c] = x[c] + w /\ y[c] > 0 /\ y[c] - x[c] = w /\ x[c] \in Nat
      /\ \A b \in X : b # c => x[b] = y[b]
  OBVIOUS
<1>2. CASE x[c] = 0
  <2>1. /\ Len(r) = Len(q) + 1 /\ r[Len(q) + 1] = c /\ Len(q) \in Nat
        /\ \A i \in 1..Len(q) : r[i] = q[i]
    BY <1>2
  <2>2. \A i \in 1..Len(q) : q[i] # c
    BY <1>2
  <2>3. ASSUME NEW i \in 1..Len(r), NEW j \in 1..Len(r), r[i] = r[j]
        PROVE  i = j
    <3>1. (i \in 1..Len(q) \/ i = Len(q) + 1) /\ (j \in 1..Len(q) \/ j = Len(q) + 1)
      BY <2>1
    <3>2. CASE i \in 1..Len(q) /\ j \in 1..Len(q)
      BY ONLY <2>1, <2>3, <3>2, \A m, n \in 1..Len(q) : q[m] = q[n] => m = n
    <3> QED BY <2>1, <2>2, <2>3, <3>1, <3>2
  <2>4. ASSUME NEW b \in X PROVE y[b] > 0 <=> \E i \in 1..Len(r) : r[i] = b
    <3>1. CASE b = c
      <4>1. Len(q) + 1 \in 1..Len(r)
        BY <2>1
      <4> QED BY <1>1, <2>1, <3>1, <4>1
    <3>2. CASE b # c
      <4>1. y[b] = x[b]
        BY <1>1, <3>2
      <4>2. (\E i \in 1..Len(r) : r[i] = b) => (\E i \in 1..Len(q) : q[i] = b)
        <5> SUFFICES ASSUME NEW i \in 1..Len(r), r[i] = b
                     PROVE  \E j \in 1..Len(q) : q[j] = b
          OBVIOUS
        <5>1. i \in 1..Len(q)
          BY <2>1, <3>2
        <5> QED BY <2>1, <5>1
      <4>3. (\E i \in 1..Len(q) : q[i] = b) => (\E i \in 1..Len(r) : r[i] = b)
        <5> SUFFICES ASSUME NEW i \in 1..Len(q), q[i] = b
                     PROVE  \E j \in 1..Len(r) : r[j] = b
          OBVIOUS
        <5>1. i \in 1..Len(r) /\ r[i] = b
          BY <2>1
        <5> QED BY <5>1
      <4> QED BY <4>1, <4>2, <4>3
    <3> QED BY <3>1, <3>2
  <2> QED BY <1>1, <2>3, <2>4
<1>3. CASE x[c] # 0
  <2>1. r = q /\ \A b \in X : y[b] > 0 <=> x[b] > 0
    BY <1>1, <1>3
  <2> QED BY <1>1, <2>1
<1> QED BY <1>2, <1>3

\* One edge adds its weight to the table, under a community that is listed.
LEMMA OneEdge ==
  ASSUME SInv, NEW t \in Threads, Scan(t)
  PROVE  /\ SumOver(vcout'[t]) = SumOver(vcout[t]) + Counts(u[t], Others(u[t]))[k[t]]
         /\ Listed(t)'
<1> DEFINE v == edges[u[t]][k[t]].first
           c == vcom[v]
           w == edges[u[t]][k[t]].second
           x == vcout[t]
           z == Counts(u[t], Others(u[t]))[k[t]]
<1>1. /\ Graph /\ Ranges /\ Listed(t) /\ TInv /\ S \in Nat /\ V = 0..(S - 1)
      /\ u[t] \in V /\ k[t] \in 1..Len(edges[u[t]]) /\ v \in V /\ w \in Nat \ {0}
  <2>1. at[t] = "scan"
    BY DEF Scan
  <2> QED BY <2>1, AtNeighbour, MoveAssumption DEF SInv, TInv, V
<1>2. /\ x \in [V -> Nat] /\ vcs[t] \in Seq(V) /\ c \in V
      /\ vcs \in [Threads -> Seq(V)] /\ vcout \in [Threads -> [V -> Nat]]
  BY <1>1 DEF Ranges
<1>3. Sum(x, 0, S) \in Int
  <2>1. \A j \in 0..(S - 1) : x[j] \in Int
    BY <1>1, <1>2, SMTT(30)
  <2> HIDE DEF x
  <2> QED BY <1>1, <2>1, SumInt
<1>4. V' = V
  BY DEF V
<1>5. CASE v = u[t]
  <2>1. vcs' = vcs /\ vcout' = vcout
    BY <1>5 DEF Scan
  <2>2. z = 0
    BY <1>1, <1>5, CountTypes DEF Others
  <2>3. Listed(t)'
    BY <1>1, <1>4, <2>1 DEF Listed
  <2> QED BY <1>3, <2>1, <2>2, <2>3 DEF SumOver
<1>6. CASE v # u[t]
  <2> DEFINE y == vcout'[t]
             q == vcs[t]
             r == vcs'[t]
  <2>1. /\ y = [x EXCEPT ![c] = x[c] + w]
        /\ r = IF x[c] = 0 THEN Append(q, c) ELSE q
    BY <1>2, <1>6 DEF Scan
  <2>2. w \in Nat \ {0} /\ z = w
    BY <1>1, <1>6, CountTypes DEF Others
  <2>3. /\ \A i, j \in 1..Len(q) : q[i] = q[j] => i = j
        /\ \A b \in V : x[b] > 0 <=> \E i \in 1..Len(q) : q[i] = b
    BY <1>1 DEF Listed
  <2>4. x \in [V -> Nat] /\ q \in Seq(V) /\ c \in V
    BY <1>2
  <2> HIDE DEF x, y, q, r, c, w, v, z
  <2>5. /\ y \in [V -> Nat] /\ y[c] - x[c] = w /\ \A b \in V : b # c => x[b] = y[b]
        /\ \A i, j \in 1..Len(r) : r[i] = r[j] => i = j
        /\ \A b \in V : y[b] > 0 <=> \E i \in 1..Len(r) : r[i] = b
    BY <2>1, <2>2, <2>3, <2>4, TableAndList, SMTT(30)
  <2>6. SumOver(vcout'[t]) = SumOver(vcout[t]) + w
    <3>1. \A j \in 0..(S - 1) : x[j] \in Int /\ y[j] \in Int
      BY <1>1, <2>4, <2>5
    <3>2. c \in 0..(S - 1) /\ \A j \in 0..(S - 1) : j # c => x[j] = y[j]
      BY <1>1, <2>4, <2>5
    <3>3. 0 \in Nat /\ S \in Nat
      BY <1>1
    <3>4. Sum(y, 0, S) = Sum(x, 0, S) + (y[c] - x[c])
      BY <3>1, <3>2, <3>3, SumChanged, Zenon
    <3> QED BY <2>5, <3>4 DEF x, y, SumOver
  <2>7. Listed(t)'
    BY <1>4, <2>5 DEF Listed, r, y
  <2> QED BY <2>2, <2>6, <2>7 DEF z
<1> QED BY <1>5, <1>6

LEMMA ScanKeepsScans ==
  ASSUME SInv, TInv', NEW t \in Threads, Scan(t)
  PROVE  SInv'
<1> DEFINE a == u[t]
           n == k[t]
           f == Others(u[t])
<1>1. /\ Step(t) /\ TInv /\ Graph /\ Ranges /\ Counted(t) /\ S \in Nat /\ at[t] = "scan"
      /\ at \in [Threads -> Places]
  BY MoveAssumption DEF SInv, TInv, Step, Scan, MInv, Shapes
<1>2. /\ a \in V /\ n \in 1..Len(edges[a]) /\ Len(edges[a]) \in Nat /\ u' = u /\ S \in Nat
      /\ k \in [Threads -> Nat \ {0}]
  BY <1>1, AtNeighbour DEF Scan, Ranges
<1>3. SumOver(vcout'[t]) = Before(a, f, n + 1)
  <2>1. SumOver(vcout[t]) = Before(a, f, n)
    BY <1>1 DEF Counted
  <2>2. Before(a, f, n + 1) = Before(a, f, n) + Counts(a, f)[n]
    BY <1>1, <1>2, OneMoreEntry
  <2> QED BY <2>1, <2>2, OneEdge
<1>4. CASE n < Len(edges[a])
  <2>1. at'[t] = "scan" /\ k'[t] = n + 1
    BY <1>1, <1>2, <1>4 DEF Scan, Advance
  <2> QED BY <1>1, <1>2, <1>3, <2>1, OneEdge, ScanStep
<1>5. CASE ~(n < Len(edges[a]))
  <2>1. at'[t] \in {"sleep", "choose"}
    BY <1>1, <1>2, <1>5 DEF Scan, Advance, Go
  <2>2. n + 1 = Len(edges[a]) + 1
    BY <1>2, <1>5
  <2>3. WeightTo(a, f) = Before(a, f, n + 1)
    BY <1>1, <1>2, <2>2, CountTypes
  <2> QED BY <1>1, <1>2, <1>3, <2>1, <2>3, OneEdge, ScanStep
<1> QED BY <1>4, <1>5

\* The steps that leave the tables alone only use what has been counted.
LEMMA UsersKeepScans ==
  ASSUME SInv, TInv', NEW t \in Threads, Step(t), ~Begin(t), ~Scan(t)
  PROVE  SInv'
<1>1. /\ Listed(t) /\ Counted(t) /\ TInv /\ V' = V
      /\ at \in [Threads -> Places]
  BY DEF SInv, TInv, MInv, Shapes, V
<1>2. vcs' = vcs /\ vcout' = vcout
  BY DEF Step, TakeChunk, Skip, Choose, Leave, Enter, Join, Wake, Sleep, own
<1>3. /\ at'[t] # "scan"
      /\ at'[t] \in {"choose", "leave", "enter", "join"} =>
           u' = u /\ at[t] \in {"choose", "leave", "enter", "join"}
  <2>1. CASE TakeChunk(t)
    BY <1>1, <2>1 DEF TakeChunk, Go
  <2>2. CASE Skip(t) \/ Sleep(t)
    <3>1. at' = [at EXCEPT ![t] = "check"] \/ at' = [at EXCEPT ![t] = "idle"]
      BY <2>2 DEF Skip, Sleep, NextVertex, Go
    <3> QED BY <1>1, <3>1
  <2>3. CASE Choose(t) \/ Leave(t) \/ Enter(t)
    <3>1. u' = u /\ at[t] \in {"choose", "leave", "enter"}
      BY <2>3 DEF Choose, Leave, Enter, own
    <3>2. at'[t] # "scan"
      BY <1>1, <2>3 DEF Choose, Leave, Enter, Advance, Go
    <3> QED BY <3>1, <3>2
  <2>4. CASE Join(t)
    BY <1>1, <2>4 DEF Join, Go
  <2>5. CASE Wake(t)
    <3>1. at'[t] \in {"wake", "sleep"}
      BY <1>1, <2>5 DEF Wake, Advance, Go
    <3> QED BY <3>1
  <2> QED BY <2>1, <2>2, <2>3, <2>4, <2>5 DEF Step
<1>4. Listed(t)'
  BY <1>1, <1>2 DEF Listed
<1>5. at'[t] \in {"choose", "leave", "enter", "join"} =>
        SumOver(vcout'[t]) = WeightTo(u'[t], Others(u'[t]))
  BY <1>1, <1>2, <1>3 DEF Counted
<1> QED BY <1>3, <1>4, <1>5, ScanStep

LEMMA NextKeepsScans == SInv /\ TInv' /\ [Next]_vars => SInv'
<1> SUFFICES ASSUME SInv, TInv', [Next]_vars PROVE SInv'
  OBVIOUS
<1>1. CASE \E t \in Threads : Step(t)
  BY <1>1, BeginKeepsScans, ScanKeepsScans, UsersKeepScans
<1>2. ASSUME edges' = edges, vcs' = vcs, vcout' = vcout, u' = u, k' = k, threads' = threads,
             \A t \in Threads : at'[t] = at[t] \/ at'[t] = "done"
      PROVE  SInv'
  <2>1. Threads' = Threads /\ V' = V
    BY <1>2 DEF Threads, V
  <2>2. ASSUME NEW t \in Threads PROVE Listed(t)' /\ Counted(t)'
    <3>1. /\ Before(u[t], Others(u[t]), k[t])' = Before(u'[t], Others(u'[t]), k'[t])
          /\ WeightTo(u[t], Others(u[t]))' = WeightTo(u'[t], Others(u'[t]))
      BY <1>2, OthersStay
    <3>2. Listed(t) /\ Counted(t)
      BY DEF SInv
    <3> QED BY <1>2, <2>1, <3>1, <3>2 DEF Listed, Counted, SumOver
  <2> QED BY <2>1, <2>2 DEF SInv
<1>3. CASE EndIteration
  <2>1. \A t \in Threads : at'[t] = at[t] \/ at'[t] = "done"
    BY <1>3 DEF EndIteration
  <2> QED BY <1>2, <1>3, <2>1 DEF EndIteration, graph, own
<1>4. CASE UNCHANGED vars
  BY <1>2, <1>4 DEF vars, graph, own
<1> QED BY <1>1, <1>3, <1>4 DEF Next

LEMMA InitScans == Init => SInv
<1> SUFFICES ASSUME Init PROVE SInv
  OBVIOUS
<1>1. TInv /\ \A t \in Threads : at[t] = "idle" /\ vcs[t] = <<>> /\ vcout[t] = NoScan
  BY InitTInv DEF Init
<1>2. ASSUME NEW t \in Threads PROVE Listed(t) /\ Counted(t)
  BY <1>1 DEF Listed, Counted, NoScan
<1> QED BY <1>1, <1>2 DEF SInv

\* A list without repetition is as long as the set of its elements is large.
LEMMA ListSize ==
  ASSUME NEW C, NEW q \in Seq(C), \A i, j \in 1..Len(q) : q[i] = q[j] => i = j
  PROVE  Cardinality({ q[i] : i \in 1..Len(q) }) = Len(q)
<1> DEFINE D == { q[i] : i \in 1..Len(q) }
<1>1. Len(q) \in Nat /\ q \in [1..Len(q) -> D]
  OBVIOUS
<1> HIDE DEF D
<1>2. q \in Bijection(1..Len(q), D)
  <2>1. IsInjective(q)
    BY <1>1 DEF IsInjective
  <2>2. \A d \in D : \E i \in 1..Len(q) : q[i] = d
    BY DEF D
  <2> QED BY <1>1, <2>1, <2>2 DEF Bijection, Injection, Surjection
<1>3. Cardinality(1..Len(q)) = Len(q) /\ IsFiniteSet(1..Len(q))
  <2>1. 1 \in Int /\ Len(q) \in Int /\ (1 > Len(q) <=> Len(q) = 0) /\ Len(q) - 1 + 1 = Len(q)
    BY <1>1
  <2> QED BY <2>1, FS_Interval
<1>4. ExistsBijection(1..Len(q), D)
  BY <1>2 DEF ExistsBijection
<1>5. Cardinality(D) = Len(q)
  BY <1>3, <1>4, FS_Bijection
<1> QED BY <1>5 DEF D

LEMMA ScansAreExact == SInv => ScanCountsEachEntry
<1> SUFFICES ASSUME SInv, NEW t \in Threads, at[t] \in {"choose", "leave", "enter", "join"}
             PROVE  /\ SumOver(vcout[t]) = WeightTo(u[t], V \ {u[t]})
                    /\ { vcs[t][i] : i \in DOMAIN vcs[t] } = { c \in V : vcout[t][c] > 0 }
                    /\ Cardinality({ c \in V : vcout[t][c] > 0 }) = Len(vcs[t])
  BY DEF ScanCountsEachEntry
<1>1. TInv /\ Graph /\ Listed(t) /\ Counted(t) /\ vcs[t] \in Seq(V)
  BY DEF SInv, TInv, Ranges
<1>2. SumOver(vcout[t]) = WeightTo(u[t], V \ {u[t]})
  BY <1>1 DEF Counted, Others
<1>3. DOMAIN vcs[t] = 1..Len(vcs[t]) /\ \A i \in 1..Len(vcs[t]) : vcs[t][i] \in V
  BY <1>1
<1>4. { vcs[t][i] : i \in 1..Len(vcs[t]) } = { c \in V : vcout[t][c] > 0 }
  BY <1>1, <1>3 DEF Listed
<1>5. Cardinality({ vcs[t][i] : i \in 1..Len(vcs[t]) }) = Len(vcs[t])
  BY <1>1, ListSize DEF Listed
<1> QED BY <1>2, <1>3, <1>4, <1>5

\* A scan counts each entry of the row but the loops once, an edge that the row
\* has twice therefore twice, and lists each community once, for every graph,
\* number of threads and interleaving: its tables hold nothing of the vertex
\* before, although the communities of the neighbours change under it.
THEOREM ScansAreComplete == Spec => []ScanCountsEachEntry
<1>1. Init => TInv /\ SInv
  BY InitTInv, InitScans
<1>2. TInv /\ [Next]_vars => TInv'
  BY NextKeepsTInv
<1> QED BY <1>1, <1>2, NextKeepsScans, ScansAreExact, PTL DEF Spec

-----------------------------------------------------------------------------
(* One thread wakes every neighbour of a vertex that moves.                *)

\* Whose flag is still to be set by the loop over the row.
Pending(a) == at[0] = "wake" /\ \E i \in k[0]..Len(edges[u[0]]) : edges[u[0]][i].first = a

\* From the clearing of its tables to the clearing of its flag a vertex is up
\* to date: nobody else can move a neighbour of it meanwhile.
WInv ==
  /\ outdated \subseteq V
  /\ threads = 1 =>
       /\ \A a \in outdated : vaff[a] \/ Pending(a)
       /\ at[0] \notin {"idle", "check", "done"} => u[0] \notin outdated

LEMMA InitWakes == Init => WInv
BY DEF Init, WInv

LEMMA JoinWakes ==
  ASSUME TInv, WInv, threads = 1, Join(0), 0 \in Threads
  PROVE  /\ outdated' \subseteq V /\ u'[0] \notin outdated'
         /\ \A a \in outdated' : vaff'[a] \/ Pending(a)'
<1>1. /\ u[0] \in V /\ k[0] = 1 /\ u' = u /\ k' = k /\ vaff' = vaff /\ at'[0] = "wake"
      /\ edges' = edges
  <2>1. at[0] = "join" /\ at \in [Threads -> Places] /\ Position(0)
    BY DEF Join, TInv, MInv, Shapes, Positions
  <2> QED BY <2>1, InHand DEF Join, Busy, own, graph, Go, Position
<1>3. u[0] \notin outdated /\ \A a \in outdated : vaff[a]
  BY DEF WInv, Join, Pending
<1>4. outdated' = outdated \cup { b \in V \ {u[0]} : u[0] \in Keys(edges[b]) }
  BY DEF Join
<1>5. ASSUME NEW b \in V, u[0] \in Keys(edges[b])
      PROVE  Pending(b)'
  <2>1. b \in Keys(edges[u[0]])
    BY <1>1, <1>5 DEF TInv, Graph
  <2>2. PICK i \in 1..Len(edges[u[0]]) : edges[u[0]][i].first = b
    BY <1>1, <2>1, RowFacts DEF TInv
  <2> QED BY <1>1, <2>2 DEF Pending
<1> QED BY <1>1, <1>3, <1>4, <1>5 DEF WInv

LEMMA WakeWakes ==
  ASSUME TInv, WInv, threads = 1, Wake(0), 0 \in Threads
  PROVE  \A a \in outdated : vaff'[a] \/ Pending(a)'
<1> DEFINE n == Len(edges[u[0]])
           v == edges[u[0]][k[0]].first
<1>1. at[0] = "wake" /\ u' = u /\ edges' = edges
      /\ at \in [Threads -> Places] /\ k \in [Threads -> Nat \ {0}] /\ vaff \in [V -> BOOLEAN]
  BY DEF Wake, TInv, MInv, Shapes, Ranges, graph
<1>2. u[0] \in V /\ k[0] \in 1..n /\ n \in Nat /\ v \in V
  BY <1>1, AtNeighbour
<1>4. vaff' = [vaff EXCEPT ![v] = TRUE]
  BY DEF Wake
<1>5. k[0] < n => at'[0] = "wake" /\ k'[0] = k[0] + 1
  BY <1>1 DEF Wake, Advance
<1> SUFFICES ASSUME NEW a \in outdated PROVE vaff'[a] \/ Pending(a)'
  OBVIOUS
<1>6. a \in V /\ (vaff[a] \/ Pending(a))
  BY DEF WInv
<1>7. CASE vaff[a]
  BY <1>1, <1>2, <1>4, <1>6, <1>7
<1>8. CASE Pending(a)
  <2>1. PICK i \in k[0]..n : edges[u[0]][i].first = a
    BY <1>8 DEF Pending
  <2>2. CASE i = k[0]
    BY <1>1, <1>2, <1>4, <2>1, <2>2
  <2>3. CASE i # k[0]
    <3>1. i \in (k[0] + 1)..n /\ k[0] < n
      BY <1>2, <2>1, <2>3
    <3> QED BY <1>1, <1>5, <2>1, <3>1 DEF Pending
  <2> QED BY <2>2, <2>3
<1> QED BY <1>6, <1>7, <1>8

LEMMA NextKeepsWakes == TInv /\ WInv /\ [Next]_vars => WInv'
<1> SUFFICES ASSUME TInv, WInv, [Next]_vars PROVE WInv'
  OBVIOUS
<1>1. /\ at \in [Threads -> Places] /\ vaff \in [V -> BOOLEAN] /\ V' = V
      /\ outdated \subseteq V
  BY DEF TInv, MInv, Shapes, Ranges, WInv, V
<1>2. ASSUME NEW t \in Threads, Step(t) PROVE WInv'
  <2>1. threads' = threads /\ outdated' \subseteq V
    BY <1>1, <1>2, OthersKeep
      DEF Step, TakeChunk, Skip, Begin, Scan, Choose, Leave, Enter, Join, Wake, Sleep
  <2> SUFFICES ASSUME threads = 1
               PROVE  /\ \A a \in outdated' : vaff'[a] \/ Pending(a)'
                      /\ at'[0] \notin {"idle", "check", "done"} => u'[0] \notin outdated'
    BY <1>1, <2>1 DEF WInv
  <2>2. t = 0 /\ 0 \in Threads
    BY DEF Threads
  <2>3. /\ \A a \in outdated : vaff[a] \/ Pending(a)
        /\ at[0] \notin {"idle", "check", "done"} => u[0] \notin outdated
    BY DEF WInv
  <2>4. CASE TakeChunk(t) \/ Skip(t)
    <3>1. at[0] # "wake" /\ vaff' = vaff /\ outdated' = outdated
      BY <2>2, <2>4 DEF TakeChunk, Skip, shared
    <3>2. at' = [at EXCEPT ![0] = "check"] \/ at' = [at EXCEPT ![0] = "idle"]
      BY <2>2, <2>4 DEF TakeChunk, Skip, NextVertex, Go
    <3> QED BY <1>1, <2>2, <2>3, <3>1, <3>2 DEF Pending
  <2>5. CASE Begin(t)
    <3>1. at[0] # "wake" /\ vaff' = vaff /\ outdated' = outdated \ {u[0]} /\ u' = u
      BY <2>2, <2>5 DEF Begin, shared
    <3> QED BY <2>3, <3>1 DEF Pending
  <2>6. CASE Scan(t) \/ Choose(t) \/ Leave(t) \/ Enter(t)
    <3>1. /\ at[0] \in {"scan", "choose", "leave", "enter"}
          /\ vaff' = vaff /\ outdated' = outdated /\ u' = u
      BY <2>2, <2>6 DEF Scan, Choose, Leave, Enter, shared, own
    <3> QED BY <2>3, <3>1 DEF Pending
  <2>7. CASE Join(t)
    BY <2>2, <2>7, JoinWakes
  <2>8. CASE Wake(t)
    <3>1. at[0] = "wake" /\ outdated' = outdated /\ u' = u
      BY <2>2, <2>8 DEF Wake
    <3> QED BY <2>2, <2>3, <2>8, <3>1, WakeWakes
  <2>9. CASE Sleep(t)
    <3>1. /\ at[0] = "sleep" /\ outdated' = outdated
          /\ vaff' = [vaff EXCEPT ![u[0]] = FALSE]
      BY <2>2, <2>9 DEF Sleep
    <3>2. at' = [at EXCEPT ![0] = "check"] \/ at' = [at EXCEPT ![0] = "idle"]
      BY <2>2, <2>9 DEF Sleep, NextVertex, Go
    <3> QED BY <1>1, <2>2, <2>3, <3>1, <3>2 DEF Pending
  <2> QED BY <1>2, <2>4, <2>5, <2>6, <2>7, <2>8, <2>9, SMTT(30) DEF Step
<1>3. CASE EndIteration
  <2>1. /\ threads' = threads /\ outdated' = outdated /\ vaff' = vaff
        /\ \A t \in Threads : at[t] = "idle" /\ at'[t] \in {"idle", "done"}
    BY <1>3 DEF EndIteration, graph
  <2>2. threads = 1 => 0 \in Threads
    BY DEF Threads
  <2> QED BY <1>1, <2>1, <2>2 DEF WInv, Pending
<1>4. CASE UNCHANGED vars
  <2>1. /\ threads' = threads /\ outdated' = outdated /\ vaff' = vaff
        /\ at' = at /\ u' = u /\ k' = k /\ edges' = edges
    BY <1>4 DEF vars, graph, shared, own
  <2> QED BY <1>1, <2>1 DEF WInv, Pending
<1> QED BY <1>2, <1>3, <1>4 DEF Next

\* With one thread no vertex that has to be looked at again is passed over, on
\* any graph whose edges go both ways.
THEOREM OneThreadWakesAll == Spec => []NoWakeUpLost
<1>1. Init => TInv /\ WInv
  BY InitTInv, InitWakes
<1>2. WInv => NoWakeUpLost
  BY DEF WInv, NoWakeUpLost, Pending
<1> QED BY <1>1, <1>2, NextKeepsTInv, NextKeepsWakes, PTL DEF Spec

-----------------------------------------------------------------------------
(* A move gains what was computed for it.  Modularity, for any assignment  *)
(* of the vertices to communities.                                         *)

\* The edges of a that lead into c.
Toward(x, a, c) == [b \in V |-> IF x[b] = c THEN Weight(a, b) ELSE 0]
Inner(x, c) == [a \in V |-> IF x[a] # c THEN 0 ELSE SumOver(Toward(x, a, c))]
Members(x, c) == [a \in V |-> IF x[a] = c THEN vtot(a) ELSE 0]
Parts(x) ==
  [c \in V |-> TotalWeight * SumOver(Inner(x, c)) - SumOver(Members(x, c)) * SumOver(Members(x, c))]

\* The weight towards a set of vertices is that towards each of them.
LEMMA TowardsEach ==
  ASSUME Graph, NEW a \in V, NEW T, T \subseteq V
  PROVE  WeightTo(a, T) = SumOver([b \in V |-> IF b \in T THEN Weight(a, b) ELSE 0])
<1> DEFINE n == Len(edges[a])
           h == [i \in 0..(n - 1) |-> [b \in 0..(S - 1) |->
                   IF b \in T /\ edges[a][1 + i].first = b THEN edges[a][1 + i].second ELSE 0]]
<1>1. n \in Nat /\ S \in Nat /\ V = 0..(S - 1)
  BY RowFacts, MoveAssumption DEF V
<1>2. \A i \in 0..(n - 1) : /\ 1 + i \in 1..n /\ edges[a][1 + i].first \in 0..(S - 1)
                            /\ edges[a][1 + i].second \in Nat
  <2>1. \A i \in 0..(n - 1) : 1 + i \in 1..n
    BY <1>1
  <2> QED BY <1>1, <2>1, RowFacts
<1>3. \A i \in 0..(n - 1), b \in 0..(S - 1) : h[i][b] \in Int
  BY <1>2
<1>4. Sum(RowSums(h, n, S), 0, n) = Sum(ColumnSums(h, n, S), 0, S)
  <2> HIDE DEF h, n
  <2> QED BY <1>1, <1>3, SumsExchange
<1>5. \A U : WeightTo(a, U) = Sum([i \in 0..(n - 1) |-> Counts(a, U)[1 + i]], 0, n)
  <2> SUFFICES ASSUME NEW U
               PROVE  WeightTo(a, U) = Sum([i \in 0..(n - 1) |-> Counts(a, U)[1 + i]], 0, n)
    OBVIOUS
  <2> DEFINE f == Counts(a, U)
  <2>1. WeightTo(a, U) = Sum(f, 1, n + 1)
    BY CountTypes DEF Before
  <2> HIDE DEF f, n
  <2>2. 1 \in Nat /\ n + 1 = 1 + n
    BY <1>1
  <2>3. Sum(f, 1, 1 + n) = Sum([i \in 0..(n - 1) |-> f[1 + i]], 0, n)
    BY <1>1, <2>2, SumShifted
  <2> QED BY <2>1, <2>2, <2>3 DEF f
<1>6. \A i \in 0..(n - 1) : Counts(a, T)[1 + i] = RowSums(h, n, S)[i]
  <2> SUFFICES ASSUME NEW i \in 0..(n - 1)
               PROVE  Counts(a, T)[1 + i] = Sum(h[i], 0, S)
    BY DEF RowSums
  <2> DEFINE b == edges[a][1 + i].first
             r == h[i]
  <2>1. b \in 0..(S - 1) /\ r[b] \in Int /\ \A j \in 0..(S - 1) : j # b => r[j] = 0
    BY <1>2, <1>3
  <2>2. r[b] = Counts(a, T)[1 + i]
    BY <1>2, <2>1, CountTypes
  <2> HIDE DEF b, r
  <2>3. Sum(r, 0, S) = r[b]
    BY <1>1, <2>1, SumSingle
  <2> QED BY <2>2, <2>3 DEF r
<1>7. \A b \in 0..(S - 1) :
        ColumnSums(h, n, S)[b] = IF b \in T THEN Weight(a, b) ELSE 0
  <2> SUFFICES ASSUME NEW b \in 0..(S - 1)
               PROVE  Sum([i \in 0..(n - 1) |-> h[i][b]], 0, n) = IF b \in T THEN Weight(a, b) ELSE 0
    BY DEF ColumnSums
  <2> DEFINE f == [i \in 0..(n - 1) |-> h[i][b]]
             g == [i \in 0..(n - 1) |-> Counts(a, {b})[1 + i]]
  <2>1. CASE b \in T
    <3>1. \A i \in 0..(n - 1) : f[i] = g[i]
      BY <1>2, <2>1, CountTypes
    <3>2. Weight(a, b) = Sum(g, 0, n)
      BY <1>5 DEF Weight
    <3> HIDE DEF f, g, n
    <3>3. Sum(f, 0, n) = Sum(g, 0, n)
      BY <1>1, <3>1, SumEqual
    <3> QED BY <2>1, <3>2, <3>3 DEF f
  <2>2. CASE b \notin T
    <3>1. \A i \in 0..(n - 1) : f[i] = 0
      BY <1>2, <2>2
    <3> HIDE DEF f, n
    <3>2. Sum(f, 0, n) = 0
      BY <1>1, <3>1, SumZero
    <3> QED BY <2>2, <3>2 DEF f
  <2> QED BY <2>1, <2>2
<1>8. WeightTo(a, T) = Sum(RowSums(h, n, S), 0, n)
  <2> DEFINE f == [i \in 0..(n - 1) |-> Counts(a, T)[1 + i]]
             g == RowSums(h, n, S)
  <2>1. WeightTo(a, T) = Sum(f, 0, n) /\ \A i \in 0..(n - 1) : f[i] = g[i]
    BY <1>5, <1>6
  <2>2. WeightTo(a, T) = Sum(g, 0, n)
    <3> HIDE DEF f, g, n
    <3> QED BY <1>1, <2>1, SumEqual
  <2> QED BY <2>2
<1>9. Sum(ColumnSums(h, n, S), 0, S) = SumOver([b \in V |-> IF b \in T THEN Weight(a, b) ELSE 0])
  <2> DEFINE f == ColumnSums(h, n, S)
             g == [b \in V |-> IF b \in T THEN Weight(a, b) ELSE 0]
  <2>1. \A b \in 0..(S - 1) : f[b] = g[b]
    BY <1>1, <1>7
  <2> HIDE DEF f, g
  <2>2. Sum(f, 0, S) = Sum(g, 0, S)
    BY <1>1, <2>1, SumEqual
  <2> QED BY <2>2 DEF f, g, SumOver
<1> QED BY <1>4, <1>8, <1>9

\* Modularity of the communities x.
InsideOf(x, c) ==
  SumOver([a \in V |-> IF x[a] # c THEN 0 ELSE WeightTo(a, { b \in V : x[b] = c })])
ModularityOf(x) ==
  SumOver([c \in V |-> TotalWeight * InsideOf(x, c) - SumOver(Members(x, c)) * SumOver(Members(x, c))])

LEMMA ModularityNow ==
  /\ Modularity = ModularityOf(vcom)
  /\ edges' = edges => Modularity' = ModularityOf(vcom')
BY ZenonT(60) DEF Modularity, ModularityOf, Inside, InsideOf, Members, SumOver, TotalWeight,
                  vtot, WeightTo, V

LEMMA ModularityIs ==
  ASSUME Graph, NEW x
  PROVE  ModularityOf(x) = SumOver(Parts(x))
<1>1. ASSUME NEW a \in V, NEW c
      PROVE  WeightTo(a, { b \in V : x[b] = c }) = SumOver(Toward(x, a, c))
  <2> DEFINE T == { b \in V : x[b] = c }
  <2>1. WeightTo(a, T) = SumOver([b \in V |-> IF b \in T THEN Weight(a, b) ELSE 0])
    BY TowardsEach
  <2>2. [b \in V |-> IF b \in T THEN Weight(a, b) ELSE 0] = Toward(x, a, c)
    BY DEF Toward
  <2> QED BY <2>1, <2>2
<1>2. ASSUME NEW c PROVE InsideOf(x, c) = SumOver(Inner(x, c))
  <2>1. [a \in V |-> IF x[a] # c THEN 0 ELSE WeightTo(a, { b \in V : x[b] = c })] = Inner(x, c)
    BY <1>1 DEF Inner
  <2> QED BY <2>1 DEF InsideOf
<1>3. [c \in V |-> TotalWeight * InsideOf(x, c) - SumOver(Members(x, c)) * SumOver(Members(x, c))]
        = Parts(x)
  BY <1>2 DEF Parts
<1> QED BY <1>3 DEF ModularityOf

LEMMA ModularityTypes ==
  ASSUME Graph, NEW x \in [V -> V]
  PROVE  /\ S \in Nat /\ V = 0..(S - 1) /\ V \subseteq Int
         /\ \A a, c \in V : /\ Toward(x, a, c) \in [V -> Int] /\ Inner(x, c) \in [V -> Int]
                            /\ Members(x, c) \in [V -> Int] /\ SumOver(Toward(x, a, c)) \in Int
                            /\ SumOver(Inner(x, c)) \in Int /\ SumOver(Members(x, c)) \in Int
         /\ Parts(x) \in [V -> Int] /\ TotalWeight \in Int
<1>1. S \in Nat /\ V = 0..(S - 1) /\ V \subseteq Int
  BY MoveAssumption DEF V
<1>2. \A f \in [V -> Int] : SumOver(f) \in Int
  <2> SUFFICES ASSUME NEW f \in [V -> Int] PROVE Sum(f, 0, S) \in Int
    BY DEF SumOver
  <2>1. \A j \in 0..(S - 1) : f[j] \in Int
    BY <1>1
  <2> QED BY <1>1, <2>1, SumInt
<1>3. /\ \A a, b \in V : Weight(a, b) \in Int
      /\ \A a \in V : vtot(a) \in Int
      /\ TotalWeight \in Int
  BY WeightTypes
<1>4. ASSUME NEW a \in V, NEW c \in V
      PROVE  Toward(x, a, c) \in [V -> Int] /\ Members(x, c) \in [V -> Int]
  BY <1>3 DEF Toward, Members
<1>5. ASSUME NEW c \in V PROVE Inner(x, c) \in [V -> Int]
  <2>1. \A a \in V : SumOver(Toward(x, a, c)) \in Int
    BY <1>2, <1>4
  <2> QED BY <2>1 DEF Inner
<1>6. \A c \in V : SumOver(Inner(x, c)) \in Int /\ SumOver(Members(x, c)) \in Int
  BY <1>2, <1>4, <1>5
<1>7. Parts(x) \in [V -> Int]
  BY <1>3, <1>6 DEF Parts
<1> QED BY <1>1, <1>2, <1>3, <1>4, <1>5, <1>6, <1>7

\* The lemmas on sums, for sums over all vertices.
LEMMA SumOverChanged ==
  ASSUME NEW f \in [V -> Int], NEW g \in [V -> Int], NEW a \in V,
         \A b \in V : b # a => f[b] = g[b]
  PROVE  SumOver(f) \in Int /\ SumOver(g) \in Int /\ SumOver(g) = SumOver(f) + (g[a] - f[a])
<1>1. S \in Nat /\ 0 \in Nat /\ V = 0..(S - 1) /\ a \in 0..(S - 1)
  BY MoveAssumption DEF V
<1>2. \A j \in 0..(S - 1) : f[j] \in Int /\ g[j] \in Int
  BY <1>1
<1>3. \A j \in 0..(S - 1) : j # a => f[j] = g[j]
  BY <1>1
<1>4. Sum(g, 0, S) = Sum(f, 0, S) + (g[a] - f[a])
  BY <1>1, <1>2, <1>3, SumChanged, Zenon
<1>5. Sum(f, 0, S) \in Int /\ Sum(g, 0, S) \in Int
  BY <1>1, <1>2, SumInt
<1> QED BY <1>4, <1>5 DEF SumOver

LEMMA SumOverAdded ==
  ASSUME NEW f \in [V -> Int], NEW g \in [V -> Int], NEW h, \A b \in V : h[b] = f[b] + g[b]
  PROVE  SumOver(h) = SumOver(f) + SumOver(g)
<1>1. S \in Nat /\ 0 \in Nat /\ V = 0..(S - 1)
  BY MoveAssumption DEF V
<1>2. TermByTerm(h, f, g, 0, S)
  BY <1>1 DEF TermByTerm
<1> QED BY <1>1, <1>2, SumAdded DEF SumOver

\* A community that a vertex enters gets its weight, and inside it the edges
\* between the vertex and its members twice, and the loop once.
LEMMA Entering ==
  ASSUME Graph, Symmetric, NEW x \in [V -> V], NEW a \in V, NEW c \in V, x[a] # c,
         NEW y, y = [x EXCEPT ![a] = c]
  PROVE  /\ SumOver(Members(y, c)) = SumOver(Members(x, c)) + vtot(a)
         /\ SumOver(Inner(y, c)) =
              SumOver(Inner(x, c)) + 2 * SumOver(Toward(x, a, c)) + Weight(a, a)
<1>1. y \in [V -> V] /\ y[a] = c /\ \A b \in V : b # a => y[b] = x[b]
  OBVIOUS
<1>2. /\ \A b, e \in V : Weight(b, e) \in Int /\ Weight(b, e) = Weight(e, b)
      /\ vtot(a) \in Int
  BY WeightTypes DEF Symmetric, Weight
<1>3. SumOver(Members(y, c)) = SumOver(Members(x, c)) + vtot(a)
  <2> DEFINE f == Members(x, c)
             g == Members(y, c)
  <2>1. f \in [V -> Int] /\ g \in [V -> Int]
    BY <1>1, ModularityTypes
  <2>2. (\A j \in V : j # a => f[j] = g[j]) /\ f[a] = 0 /\ g[a] = vtot(a)
    BY <1>1 DEF Members
  <2> HIDE DEF f, g
  <2>3. SumOver(g) \in Int /\ SumOver(f) \in Int /\ SumOver(g) = SumOver(f) + (g[a] - f[a])
    BY <2>1, <2>2, SumOverChanged
  <2> QED BY <1>2, <2>2, <2>3 DEF f, g
<1>4. \A b \in V : SumOver(Toward(y, b, c)) = SumOver(Toward(x, b, c)) + Weight(b, a)
  <2> SUFFICES ASSUME NEW b \in V
               PROVE  SumOver(Toward(y, b, c)) = SumOver(Toward(x, b, c)) + Weight(b, a)
    OBVIOUS
  <2> DEFINE f == Toward(x, b, c)
             g == Toward(y, b, c)
  <2>1. f \in [V -> Int] /\ g \in [V -> Int]
    BY <1>1, ModularityTypes
  <2>2. (\A j \in V : j # a => f[j] = g[j]) /\ f[a] = 0 /\ g[a] = Weight(b, a)
    BY <1>1 DEF Toward
  <2> HIDE DEF f, g
  <2>3. SumOver(g) \in Int /\ SumOver(f) \in Int /\ SumOver(g) = SumOver(f) + (g[a] - f[a])
    BY <2>1, <2>2, SumOverChanged
  <2> QED BY <1>2, <2>2, <2>3 DEF f, g
<1> DEFINE r == Toward(x, a, c)
           i == Inner(x, c)
           h == Inner(y, c)
           m == SumOver(r) + Weight(a, a)
           p == [b \in V |-> IF b = a THEN m ELSE r[b]]
<1>5. /\ r \in [V -> Int] /\ i \in [V -> Int] /\ h \in [V -> Int]
      /\ SumOver(r) \in Int /\ SumOver(i) \in Int /\ m \in Int
  <2>1. r \in [V -> Int] /\ i \in [V -> Int] /\ SumOver(r) \in Int /\ SumOver(i) \in Int
    BY ModularityTypes
  <2>2. h \in [V -> Int]
    BY <1>1, ModularityTypes
  <2>3. m \in Int
    BY <1>2, <2>1
  <2> QED BY <2>1, <2>2, <2>3
<1>6. r[a] = 0 /\ i[a] = 0 /\ h[a] = SumOver(Toward(y, a, c))
  BY <1>1 DEF Toward, Inner
<1>7. ASSUME NEW b \in V, b # a PROVE h[b] = i[b] + r[b]
  <2>1. CASE x[b] = c
    <3>1. h[b] = SumOver(Toward(y, b, c)) /\ i[b] = SumOver(Toward(x, b, c))
      BY <1>1, <1>7, <2>1 DEF Inner
    <3>2. r[b] = Weight(b, a)
      BY <1>2, <1>7, <2>1 DEF Toward
    <3> QED BY <1>4, <3>1, <3>2
  <2>2. CASE x[b] # c
    <3>1. h[b] = 0 /\ i[b] = 0 /\ r[b] = 0
      BY <1>1, <1>7, <2>2 DEF Inner, Toward
    <3> QED BY <3>1
  <2> QED BY <2>1, <2>2
<1>8. h[a] = m
  BY <1>4, <1>6
<1> HIDE DEF r, i, h, m
<1>9. p \in [V -> Int] /\ p[a] = m /\ \A b \in V : b # a => r[b] = p[b]
  BY <1>5
<1> HIDE DEF p
<1>10. \A b \in V : h[b] = i[b] + p[b]
  BY <1>5, <1>6, <1>7, <1>8, <1>9
<1>11. SumOver(h) = SumOver(i) + SumOver(p)
  BY <1>5, <1>9, <1>10, SumOverAdded
<1>12. SumOver(p) = SumOver(r) + (p[a] - r[a])
  BY <1>5, <1>9, SumOverChanged
<1>13. SumOver(h) = SumOver(i) + 2 * SumOver(r) + Weight(a, a)
  BY <1>2, <1>5, <1>6, <1>9, <1>11, <1>12 DEF m
<1> QED BY <1>3, <1>13 DEF r, i, h

\* Communities that a vertex neither leaves nor enters stay as they are.
LEMMA NotMoved ==
  ASSUME NEW x \in [V -> V], NEW y \in [V -> V], NEW e \in V,
         \A b \in V : y[b] = e <=> x[b] = e
  PROVE  Parts(y)[e] = Parts(x)[e]
<1>1. Members(y, e) = Members(x, e)
  BY DEF Members
<1>2. \A b \in V : Toward(y, b, e) = Toward(x, b, e)
  BY DEF Toward
<1>3. Inner(y, e) = Inner(x, e)
  BY <1>2 DEF Inner
<1> QED BY <1>1, <1>3 DEF Parts

LEMMA Square ==
  ASSUME NEW t \in Int, NEW v \in Int
  PROVE  (t + v) * (t + v) = t * t + 2 * (v * t) + v * v
OBVIOUS

LEMMA Scaled ==
  ASSUME NEW m \in Int, NEW i \in Int, NEW p \in Int, NEW w \in Int
  PROVE  m * (i + 2 * p + w) = m * i + 2 * (m * p) + m * w
OBVIOUS

\* The two shares that change, as numbers.
LEMMA TwoShares ==
  ASSUME NEW m \in Int, NEW v \in Int, NEW w \in Int,
         NEW ic \in Int, NEW p \in Int, NEW tc \in Int,
         NEW id \in Int, NEW q \in Int, NEW td \in Int
  PROVE  /\ m * (ic + 2 * p + w) - (tc + v) * (tc + v)
              - (m * ic - tc * tc) = 2 * (m * p) + m * w - 2 * (v * tc) - v * v
         /\ m * id - td * td - (m * (id + 2 * q + w) - (td + v) * (td + v))
              = 2 * (v * td) + v * v - 2 * (m * q) - m * w
         /\ m * (p - q) - v * (v + tc - (td + v)) = m * p - m * q - v * tc + v * td
<1>1. /\ m * p \in Int /\ m * q \in Int /\ m * w \in Int /\ v * tc \in Int /\ v * td \in Int
      /\ v * v \in Int /\ m * ic \in Int /\ m * id \in Int /\ tc * tc \in Int /\ td * td \in Int
  OBVIOUS
<1>2. m * (ic + 2 * p + w) = m * ic + 2 * (m * p) + m * w
  BY Scaled
<1>3. m * (id + 2 * q + w) = m * id + 2 * (m * q) + m * w
  BY Scaled
<1>4. (tc + v) * (tc + v) = tc * tc + 2 * (v * tc) + v * v
  BY Square
<1>5. (td + v) * (td + v) = td * td + 2 * (v * td) + v * v
  BY Square
<1>6. m * (p - q) = m * p - m * q
  OBVIOUS
<1>7. v * (v + tc - (td + v)) = v * tc - v * td
  <2>1. v + tc - (td + v) = tc - td
    OBVIOUS
  <2>2. v * (tc - td) = v * tc - v * td
    OBVIOUS
  <2> QED BY <2>1, <2>2
<1>8. m * (ic + 2 * p + w) - (tc + v) * (tc + v)
              - (m * ic - tc * tc) = 2 * (m * p) + m * w - 2 * (v * tc) - v * v
  BY <1>1, <1>2, <1>4
<1>9. m * id - td * td - (m * (id + 2 * q + w) - (td + v) * (td + v))
              = 2 * (v * td) + v * v - 2 * (m * q) - m * w
  BY <1>1, <1>3, <1>5
<1>10. m * (p - q) - v * (v + tc - (td + v)) = m * p - m * q - v * tc + v * td
  BY <1>1, <1>6, <1>7
<1> QED BY <1>8, <1>9, <1>10

\* What the modularity gains when a moves to c, from the sums before the move.
GainOf(x, a, c) ==
  LET Towards(e) == WeightTo(a, { b \in V \ {a} : x[b] = e })
  IN  deltaModularity(Towards(c), Towards(x[a]), vtot(a),
                      SumOver(Members(x, c)), SumOver(Members(x, x[a])))

LEMMA MovesGain ==
  ASSUME Graph, Symmetric, NEW x \in [V -> V], NEW a \in V, NEW c \in V, x[a] # c,
         NEW y, y = [x EXCEPT ![a] = c]
  PROVE  SumOver(Parts(y)) = SumOver(Parts(x)) + 2 * GainOf(x, a, c)
<1> DEFINE d == x[a]
           m == TotalWeight
           v == vtot(a)
           w == Weight(a, a)
           ic == SumOver(Inner(x, c))
           tc == SumOver(Members(x, c))
           p == SumOver(Toward(x, a, c))
           id == SumOver(Inner(y, d))
           td == SumOver(Members(y, d))
           q == SumOver(Toward(y, a, d))
<1>1. d \in V /\ y \in [V -> V] /\ y[a] = c /\ y[a] # d /\ x = [y EXCEPT ![a] = d]
  OBVIOUS
<1>2. m \in Int /\ v \in Int /\ w \in Int
  BY WeightTypes
<1>3. /\ ic \in Int /\ tc \in Int /\ p \in Int /\ Parts(x) \in [V -> Int]
      /\ id \in Int /\ td \in Int /\ q \in Int /\ Parts(y) \in [V -> Int]
  <2>1. ic \in Int /\ tc \in Int /\ p \in Int /\ Parts(x) \in [V -> Int]
    BY ModularityTypes
  <2>2. id \in Int /\ td \in Int /\ q \in Int /\ Parts(y) \in [V -> Int]
    BY <1>1, ModularityTypes
  <2> QED BY <2>1, <2>2
<1>4. SumOver(Members(y, c)) = tc + v /\ SumOver(Inner(y, c)) = ic + 2 * p + w
  BY Entering
<1>5. SumOver(Members(x, d)) = td + v /\ SumOver(Inner(x, d)) = id + 2 * q + w
  BY <1>1, Entering
<1>6. /\ Parts(x)[c] = m * ic - tc * tc
      /\ Parts(y)[d] = m * id - td * td
      /\ Parts(y)[c] = m * (ic + 2 * p + w) - (tc + v) * (tc + v)
      /\ Parts(x)[d] = m * (id + 2 * q + w) - (td + v) * (td + v)
  <2> HIDE DEF v, w, p, q
  <2> QED BY <1>1, <1>4, <1>5 DEF Parts
<1>7. GainOf(x, a, c) = m * (p - q) - v * (v + tc - (td + v))
  <2> DEFINE Away(e) == { b \in V \ {a} : x[b] = e }
  <2>1. WeightTo(a, Away(c)) = p
    <3>1. WeightTo(a, Away(c)) = SumOver([b \in V |-> IF b \in Away(c) THEN Weight(a, b) ELSE 0])
      BY TowardsEach
    <3>2. [b \in V |-> IF b \in Away(c) THEN Weight(a, b) ELSE 0] = Toward(x, a, c)
      BY DEF Toward
    <3> QED BY <3>1, <3>2
  <2>2. WeightTo(a, Away(d)) = q
    <3>1. WeightTo(a, Away(d)) = SumOver([b \in V |-> IF b \in Away(d) THEN Weight(a, b) ELSE 0])
      BY TowardsEach
    <3>2. [b \in V |-> IF b \in Away(d) THEN Weight(a, b) ELSE 0] = Toward(y, a, d)
      BY <1>1 DEF Toward
    <3> QED BY <3>1, <3>2
  <2>3. GainOf(x, a, c) =
          deltaModularity(WeightTo(a, Away(c)), WeightTo(a, Away(d)), v, tc, SumOver(Members(x, d)))
    BY DEF GainOf
  <2> HIDE DEF v, p, q, td, tc, d, Away
  <2>4. GainOf(x, a, c) = deltaModularity(p, q, v, tc, td + v)
    BY <1>5, <2>1, <2>2, <2>3 DEF d
  <2> QED BY <2>4 DEF deltaModularity
<1> DEFINE f == Parts(x)
           g == Parts(y)
           h == [e \in V |-> IF e = c THEN g[e] ELSE f[e]]
<1>8. ASSUME NEW e \in V, e # c, e # d PROVE g[e] = f[e]
  <2> HIDE DEF f, g
  <2>1. \A b \in V : y[b] = e <=> x[b] = e
    BY <1>1, <1>8
  <2>2. Parts(y)[e] = Parts(x)[e]
    BY <1>1, <2>1, NotMoved
  <2> QED BY <2>2 DEF f, g
<1> HIDE DEF d, m, v, w, ic, tc, p, id, td, q, f, g
<1>9. /\ h \in [V -> Int] /\ h[c] = g[c] /\ \A e \in V : e # c => f[e] = h[e]
      /\ \A e \in V : e # d => h[e] = g[e]
      /\ h[d] = f[d]
  <2>1. c # d
    BY DEF d
  <2>2. f \in [V -> Int] /\ g \in [V -> Int]
    BY <1>3 DEF f, g
  <2> QED BY <1>1, <1>8, <2>1, <2>2
<1> HIDE DEF h
<1>10. SumOver(h) = SumOver(f) + (h[c] - f[c]) /\ SumOver(f) \in Int
  BY <1>3, <1>9, SumOverChanged DEF f
<1>11. SumOver(g) = SumOver(h) + (g[d] - h[d])
  BY <1>1, <1>3, <1>9, SumOverChanged DEF g
<1>12. f[c] \in Int /\ g[c] \in Int /\ f[d] \in Int /\ g[d] \in Int
  BY <1>1, <1>3 DEF f, g
<1>13. SumOver(g) = SumOver(f) + ((g[c] - f[c]) + (g[d] - f[d]))
  BY <1>9, <1>10, <1>11, <1>12
<1>14. /\ g[c] - f[c] = 2 * (m * p) + m * w - 2 * (v * tc) - v * v
       /\ g[d] - f[d] = 2 * (v * td) + v * v - 2 * (m * q) - m * w
       /\ GainOf(x, a, c) = m * p - m * q - v * tc + v * td
  BY <1>2, <1>3, <1>6, <1>7, TwoShares DEF f, g
<1>15. /\ m * p \in Int /\ m * w \in Int /\ v * tc \in Int /\ v * v \in Int
       /\ v * td \in Int /\ m * q \in Int
  BY <1>2, <1>3
<1>16. (g[c] - f[c]) + (g[d] - f[d]) = 2 * GainOf(x, a, c)
  BY <1>14, <1>15
<1> QED BY <1>13, <1>16 DEF f, g

-----------------------------------------------------------------------------
(* One thread computes the gain of each move from what the move will find. *)

\* The members of c that a has edges to, but for its loop.
Outer(a, c) == { b \in V \ {a} : vcom[b] = c }

\* The table of thread 0 holds, for each community, what its row has of it so far;
\* the best community is none, or one whose gain is that of a move into it.
Sums0 ==
  /\ at[0] = "scan" =>
       \A c \in V : vcout[0][c] = Before(u[0], Outer(u[0], c), k[0])
  /\ at[0] \in {"choose", "leave", "enter", "join"} =>
       \A c \in V : vcout[0][c] = WeightTo(u[0], Outer(u[0], c))
Best0 ==
  /\ at[0] \in {"idle", "check", "scan", "done"} => best[0] = None
  /\ at[0] \in {"choose", "leave", "enter", "join"} =>
       \/ best[0] = None
       \/ /\ best[0].e > 0 /\ best[0].c # vcom[u[0]]
          /\ best[0].e = GainOf(vcom, u[0], best[0].c)

GInv == threads = 1 => Sums0 /\ Best0

LEMMA InitGains == Init => GInv
<1> SUFFICES ASSUME Init, threads = 1 PROVE Sums0 /\ Best0
  BY DEF GInv
<1>1. 0 \in Threads
  BY DEF Threads
<1> QED BY <1>1 DEF Init, Sums0, Best0

LEMMA OuterStays ==
  ASSUME edges' = edges, vcom' = vcom, NEW c
  PROVE  /\ Before(u[0], Outer(u[0], c), k[0])' = Before(u'[0], Outer(u'[0], c), k'[0])
         /\ WeightTo(u[0], Outer(u[0], c))' = WeightTo(u'[0], Outer(u'[0], c))
BY DEF Before, Counts, WeightTo, Outer, V

LEMMA GainStays ==
  ASSUME edges' = edges, NEW x, NEW a, NEW c
  PROVE  GainOf(x, a, c)' = GainOf(x, a, c)
BY DEF GainOf, deltaModularity, Members, SumOver, TotalWeight, vtot, WeightTo, V

\* In the middle of a turn of the only thread the weights of the communities
\* are those of their members.
LEMMA WeightsAtChoice ==
  ASSUME TInv, WeightsAgree, threads = 1, at[0] = "choose", NEW c \in V
  PROVE  ctot[c] = SumOver(Members(vcom, c))
<1>1. Threads = {0}
  BY DEF Threads
<1>2. \A a \in V : CountsIn(a) = {vcom[a]}
  BY <1>1 DEF CountsIn, Owner
<1>3. [a \in V |-> IF c \in CountsIn(a) THEN vtot(a) ELSE 0] = Members(vcom, c)
  BY <1>2 DEF Members
<1> QED BY <1>3 DEF WeightsAgree

LEMMA BeginKeepsGains ==
  ASSUME SInv, GInv, threads = 1, 0 \in Threads, Begin(0)
  PROVE  Sums0' /\ Best0'
<1>1. /\ TInv /\ Graph /\ at \in [Threads -> Places] /\ best[0] = None /\ u[0] \in V
      /\ vcout \in [Threads -> [V -> Nat]] /\ V' = V
      /\ u' = u /\ k' = k /\ k[0] = 1 /\ best' = best /\ vcom' = vcom /\ edges' = edges
  <2>1. at[0] = "check" /\ TInv
    BY DEF Begin, SInv
  <2>2. u[0] \in V
    BY <2>1, InHand DEF Busy
  <2>3. k[0] = 1
    BY <2>1 DEF TInv, Positions, Position
  <2> QED BY <2>1, <2>2, <2>3
    DEF GInv, Best0, Begin, TInv, MInv, Shapes, Ranges, graph, shared, V
<1>2. at'[0] = IF edges[u[0]] = <<>> THEN "sleep" ELSE "scan"
  BY <1>1 DEF Begin, Go
<1>3. \A c \in V : vcout'[0][c] = 0
  BY <1>1, ClearedTable DEF Begin
<1>4. ASSUME NEW c \in V PROVE vcout'[0][c] = Before(u[0], Outer(u[0], c), 1)
  BY <1>1, <1>3, OneMoreEntry
<1>5. \A c \in V :
        Before(u[0], Outer(u[0], c), k[0])' = Before(u'[0], Outer(u'[0], c), k'[0])
  BY <1>1, OuterStays
<1>6. Sums0'
  BY <1>1, <1>2, <1>4, <1>5 DEF Sums0
<1>7. Best0'
  BY <1>1, <1>2 DEF Best0, None
<1> QED BY <1>6, <1>7

\* One edge adds its weight to the community of its target only.
LEMMA EdgeCounts ==
  ASSUME TInv, threads = 1, 0 \in Threads, Scan(0), NEW c \in V
  PROVE  vcout'[0][c] = vcout[0][c] + Counts(u[0], Outer(u[0], c))[k[0]]
<1> DEFINE v == edges[u[0]][k[0]].first
           w == edges[u[0]][k[0]].second
           z == Counts(u[0], Outer(u[0], c))[k[0]]
<1>1. /\ vcout \in [Threads -> [V -> Nat]] /\ vcom \in [V -> V]
      /\ u[0] \in V /\ v \in V /\ w \in Nat
      /\ z = IF v \in Outer(u[0], c) THEN w ELSE 0
  <2>1. /\ u[0] \in V /\ k[0] \in 1..Len(edges[u[0]]) /\ v \in V /\ w \in Nat
    BY AtNeighbour DEF Scan
  <2>2. z = IF v \in Outer(u[0], c) THEN w ELSE 0
    BY <2>1, CountTypes DEF TInv
  <2> HIDE DEF v, w, z
  <2> QED BY <2>1, <2>2 DEF TInv, Ranges
<1>2. CASE v = u[0]
  <2>1. vcout' = vcout /\ z = 0
    BY <1>1, <1>2 DEF Scan, Outer
  <2> QED BY <1>1, <2>1
<1>3. CASE v # u[0]
  <2>1. vcout'[0] = [vcout[0] EXCEPT ![vcom[v]] = vcout[0][vcom[v]] + w]
    BY <1>1, <1>3 DEF Scan
  <2>2. z = IF vcom[v] = c THEN w ELSE 0
    BY <1>1, <1>3 DEF Outer
  <2> HIDE DEF v, w, z
  <2>3. vcout[0] \in [V -> Nat] /\ vcom[v] \in V
    BY <1>1
  <2> QED BY <1>1, <2>1, <2>2, <2>3 DEF z
<1> QED BY <1>2, <1>3

LEMMA ScanKeepsGains ==
  ASSUME TInv, GInv, threads = 1, 0 \in Threads, Scan(0)
  PROVE  Sums0' /\ Best0'
<1> DEFINE a == u[0]
           n == k[0]
<1>1. /\ Graph /\ at[0] = "scan" /\ at \in [Threads -> Places] /\ Sums0 /\ Best0
      /\ u' = u /\ best' = best /\ vcom' = vcom /\ edges' = edges /\ V' = V
      /\ k \in [Threads -> Nat \ {0}]
  BY DEF GInv, Scan, TInv, MInv, Shapes, Ranges, graph, shared, V
<1>2. a \in V /\ n \in 1..Len(edges[a]) /\ Len(edges[a]) \in Nat
  BY <1>1, AtNeighbour
<1>3. ASSUME NEW c \in V PROVE vcout'[0][c] = Before(a, Outer(a, c), n + 1)
  <2>1. Before(a, Outer(a, c), n + 1) = Before(a, Outer(a, c), n) + Counts(a, Outer(a, c))[n]
    BY <1>1, <1>2, OneMoreEntry
  <2>2. vcout[0][c] = Before(a, Outer(a, c), n)
    BY <1>1 DEF Sums0
  <2> QED BY <2>1, <2>2, EdgeCounts
<1>4. ASSUME NEW c \in V
      PROVE  /\ Before(a, Outer(a, c), k[0])' = Before(a, Outer(a, c), k'[0])
             /\ WeightTo(a, Outer(a, c))' = WeightTo(a, Outer(a, c))
  BY <1>1, OuterStays
<1>5. Sums0'
  <2>1. CASE n < Len(edges[a])
    <3>1. at'[0] = "scan" /\ k'[0] = n + 1
      BY <1>1, <1>2, <2>1 DEF Scan, Advance
    <3> QED BY <1>1, <1>3, <1>4, <3>1 DEF Sums0
  <2>2. CASE ~(n < Len(edges[a]))
    <3>1. at'[0] \in {"sleep", "choose"}
      BY <1>1, <1>2, <2>2 DEF Scan, Advance, Go
    <3>2. n + 1 = Len(edges[a]) + 1
      BY <1>2, <2>2
    <3>3. \A c \in V : WeightTo(a, Outer(a, c)) = Before(a, Outer(a, c), n + 1)
      BY <1>1, <1>2, <3>2, CountTypes
    <3> QED BY <1>1, <1>3, <1>4, <3>1, <3>3 DEF Sums0
  <2> QED BY <2>1, <2>2
<1>6. Best0'
  <2>1. best'[0] = None
    BY <1>1 DEF Best0
  <2> QED BY <2>1 DEF Best0, None
<1> QED BY <1>5, <1>6

\* The gain that is computed is that of the move.
LEMMA ChoiceIsGain ==
  ASSUME TInv, WeightsAgree, GInv, threads = 1, at[0] = "choose",
         0 \in Threads, NEW c \in V
  PROVE  deltaModularity(vcout[0][c], vcout[0][vcom[u[0]]], vtot(u[0]), ctot[c], ctot[vcom[u[0]]])
           = GainOf(vcom, u[0], c)
<1>1. u[0] \in V /\ vcom[u[0]] \in V
  BY InHand DEF Busy, TInv, Ranges
<1>2. /\ vcout[0][c] = WeightTo(u[0], Outer(u[0], c))
      /\ vcout[0][vcom[u[0]]] = WeightTo(u[0], Outer(u[0], vcom[u[0]]))
  BY <1>1 DEF GInv, Sums0
<1>3. /\ ctot[c] = SumOver(Members(vcom, c))
      /\ ctot[vcom[u[0]]] = SumOver(Members(vcom, vcom[u[0]]))
  BY <1>1, WeightsAtChoice
<1> QED BY <1>2, <1>3 DEF GainOf, Outer

LEMMA ChooseKeepsGains ==
  ASSUME TInv, WeightsAgree, GInv, threads = 1, 0 \in Threads, Choose(0)
  PROVE  Sums0' /\ Best0'
<1> DEFINE c == vcs[0][k[0]]
           d == vcom[u[0]]
           e == deltaModularity(vcout[0][c], vcout[0][d], vtot(u[0]), ctot[c], ctot[d])
<1>1. /\ at[0] = "choose" /\ at \in [Threads -> Places] /\ Sums0 /\ Best0
      /\ u' = u /\ vcout' = vcout /\ vcom' = vcom /\ edges' = edges /\ V' = V
      /\ best \in [Threads -> [c : V, e : Int]]
  BY DEF GInv, Choose, TInv, MInv, Shapes, Ranges, graph, shared, V
<1>2. at'[0] \in {"choose", "leave", "sleep"}
  BY <1>1 DEF Choose, Advance, Go
<1>3. c \in V
  <2>1. k[0] \in 1..Len(vcs[0]) /\ vcs[0] \in Seq(V)
    BY <1>1 DEF TInv, Ranges, Positions, Position
  <2> QED BY <2>1
<1>4. e = GainOf(vcom, u[0], c) /\ e \in Int
  <2>1. u[0] \in V /\ d \in V /\ Graph
    BY <1>1, InHand DEF Busy, TInv, Ranges
  <2>2. ctot[c] \in Int /\ ctot[d] \in Int
    BY <1>3, <2>1 DEF TInv, Ranges
  <2>3. vcout[0][c] \in Int /\ vcout[0][d] \in Int
    BY <1>3, <2>1, SMTT(30) DEF TInv, Ranges
  <2> HIDE DEF c, d
  <2>4. e \in Int
    BY <2>1, <2>2, <2>3, GainType
  <2> QED BY <1>1, <1>3, <2>4, ChoiceIsGain DEF d
<1>5. best'[0] = IF c # d /\ e > best[0].e THEN [c |-> c, e |-> e] ELSE best[0]
  BY <1>1 DEF Choose
<1>6. \A i \in V : GainOf(vcom, u[0], i)' = GainOf(vcom, u[0], i)
  BY <1>1, GainStays DEF GainOf, deltaModularity, Members, SumOver, TotalWeight, vtot, WeightTo
<1>7. \A i \in V : WeightTo(u[0], Outer(u[0], i))' = WeightTo(u[0], Outer(u[0], i))
  BY <1>1, OuterStays
<1>8. best[0] \in [c : V, e : Int] /\ (best[0] = None \/ best[0].e > 0)
  BY <1>1 DEF Best0
<1>9. Sums0'
  BY <1>1, <1>2, <1>7 DEF Sums0
<1> HIDE DEF c, d, e
<1>10. Best0'
  <2>1. CASE best'[0] = best[0]
    BY <1>1, <1>2, <1>6, <1>8, <2>1 DEF Best0
  <2>2. CASE c # d /\ e > best[0].e /\ best'[0] = [c |-> c, e |-> e]
    <3>1. best[0].e \in Int /\ (best[0].e = 0 \/ best[0].e > 0)
      BY <1>8 DEF None
    <3>2. e > 0 /\ best'[0].e = e /\ best'[0].c = c
      BY <1>4, <2>2, <3>1
    <3> QED BY <1>1, <1>2, <1>3, <1>4, <1>6, <2>2, <3>2 DEF Best0, d
  <2> QED BY <1>5, <2>1, <2>2
<1> QED BY <1>9, <1>10

\* The steps between the choice and the move use what has been computed.
LEMMA MovingKeepsGains ==
  ASSUME TInv, GInv, threads = 1, 0 \in Threads, Leave(0) \/ Enter(0)
  PROVE  Sums0' /\ Best0'
<1>1. /\ Sums0 /\ Best0 /\ at[0] \in {"leave", "enter"} /\ at \in [Threads -> Places]
      /\ u' = u /\ vcout' = vcout /\ vcom' = vcom /\ edges' = edges /\ V' = V /\ best' = best
  BY DEF GInv, Leave, Enter, TInv, MInv, Shapes, graph, own, V
<1>2. at'[0] \in {"enter", "join"}
  BY <1>1 DEF Leave, Enter, Go
<1>3. /\ \A i \in V : WeightTo(u[0], Outer(u[0], i))' = WeightTo(u[0], Outer(u[0], i))
      /\ GainOf(vcom, u[0], best[0].c)' = GainOf(vcom, u[0], best[0].c)
  BY <1>1, OuterStays, GainStays
    DEF GainOf, deltaModularity, Members, SumOver, TotalWeight, vtot, WeightTo
<1>4. Sums0'
  BY <1>1, <1>2, <1>3 DEF Sums0
<1>5. Best0'
  BY <1>1, <1>2, <1>3 DEF Best0, None
<1> QED BY <1>4, <1>5

LEMMA RestKeepsGains ==
  ASSUME TInv, GInv, threads = 1, 0 \in Threads,
         TakeChunk(0) \/ Skip(0) \/ Join(0) \/ Wake(0) \/ Sleep(0)
  PROVE  Sums0' /\ Best0'
<1>1. /\ Best0 /\ at \in [Threads -> Places] /\ best \in [Threads -> [c : V, e : Int]]
  BY DEF GInv, TInv, MInv, Shapes, Ranges
<1>2. CASE TakeChunk(0) \/ Skip(0)
  <2>1. best'[0] = None
    BY <1>1, <1>2 DEF Best0, TakeChunk, Skip
  <2>2. at' = [at EXCEPT ![0] = "check"] \/ at' = [at EXCEPT ![0] = "idle"]
    BY <1>2 DEF TakeChunk, Skip, NextVertex, Go
  <2> QED BY <1>1, <2>1, <2>2 DEF Sums0, Best0, None
<1>3. CASE Join(0) \/ Wake(0)
  <2>1. at'[0] \in {"wake", "sleep"}
    BY <1>1, <1>3 DEF Join, Wake, Advance, Go
  <2> QED BY <2>1 DEF Sums0, Best0
<1>4. CASE Sleep(0)
  <2>1. best'[0] = None
    BY <1>1, <1>4 DEF Sleep
  <2>2. at' = [at EXCEPT ![0] = "check"] \/ at' = [at EXCEPT ![0] = "idle"]
    BY <1>4 DEF Sleep, NextVertex, Go
  <2> QED BY <1>1, <2>1, <2>2 DEF Sums0, Best0, None
<1> QED BY <1>2, <1>3, <1>4

LEMMA NextKeepsGains == SInv /\ WeightsAgree /\ GInv /\ [Next]_vars => GInv'
<1> SUFFICES ASSUME SInv, WeightsAgree, GInv, [Next]_vars PROVE GInv'
  OBVIOUS
<1>1. TInv /\ (threads' = 1 => threads = 1 /\ 0 \in Threads)
  <2>1. threads' = threads
    <3>1. CASE \E t \in Threads : Step(t)
      BY <3>1, OthersKeep DEF SInv
    <3> QED BY <3>1 DEF Next, EndIteration, vars, graph
  <2> QED BY <2>1 DEF SInv, Threads
<1> SUFFICES ASSUME threads = 1, 0 \in Threads PROVE Sums0' /\ Best0'
  BY <1>1 DEF GInv
<1>2. CASE \E t \in Threads : Step(t)
  <2>1. Step(0)
    BY <1>2 DEF Threads
  <2>2. CASE Begin(0)
    BY <2>2, BeginKeepsGains
  <2>3. CASE Scan(0)
    BY <1>1, <2>3, ScanKeepsGains
  <2>4. CASE Choose(0)
    BY <1>1, <2>4, ChooseKeepsGains
  <2>5. CASE Leave(0) \/ Enter(0)
    BY <1>1, <2>5, MovingKeepsGains
  <2>6. CASE TakeChunk(0) \/ Skip(0) \/ Join(0) \/ Wake(0) \/ Sleep(0)
    BY <1>1, <2>6, RestKeepsGains
  <2> QED BY <2>1, <2>2, <2>3, <2>4, <2>5, <2>6 DEF Step
<1>3. CASE EndIteration
  <2>1. at[0] = "idle" /\ at'[0] \in {"idle", "done"} /\ best' = best /\ Best0
    BY <1>3 DEF EndIteration, own, GInv
  <2> QED BY <2>1 DEF Sums0, Best0, None
<1>4. CASE UNCHANGED vars
  <2>1. /\ Sums0 /\ Best0 /\ at' = at /\ u' = u /\ k' = k /\ vcout' = vcout
        /\ vcom' = vcom /\ edges' = edges /\ V' = V /\ best' = best
    BY <1>4 DEF GInv, vars, graph, shared, own, V
  <2>2. /\ \A i \in V :
             /\ WeightTo(u[0], Outer(u[0], i))' = WeightTo(u[0], Outer(u[0], i))
             /\ Before(u[0], Outer(u[0], i), k[0])' = Before(u[0], Outer(u[0], i), k[0])
        /\ GainOf(vcom, u[0], best[0].c)' = GainOf(vcom, u[0], best[0].c)
    BY <2>1, OuterStays
      DEF GainOf, deltaModularity, Members, SumOver, TotalWeight, vtot, WeightTo
  <2>3. Sums0'
    BY <2>1, <2>2 DEF Sums0
  <2>4. Best0'
    BY <2>1, <2>2 DEF Best0, None
  <2> QED BY <2>3, <2>4
<1> QED BY <1>2, <1>3, <1>4 DEF Next

\* With one thread and symmetric weights each move adds to the modularity what
\* was computed for it, which is positive: on every graph, whatever its loops,
\* the phase never makes the communities worse.
THEOREM MovesGainWhatTheyClaim == Spec => GainIsReal
<1> DEFINE Gained == threads = 1 /\ Symmetric /\ vcom' # vcom =>
                       best[0].e > 0 /\ Modularity' = Modularity + 2 * best[0].e
<1>1. SInv /\ GInv /\ [Next]_vars => [Gained]_vars
  <2> SUFFICES ASSUME SInv, GInv, Next, threads = 1, Symmetric, vcom' # vcom
               PROVE  best[0].e > 0 /\ Modularity' = Modularity + 2 * best[0].e
    OBVIOUS
  <2>1. TInv /\ Graph /\ vcom \in [V -> V] /\ best \in [Threads -> [c : V, e : Int]]
    BY SMTT(30) DEF SInv, TInv, Ranges
  <2>2. PICK t \in Threads : Join(t)
    BY DEF Next, Step, TakeChunk, Skip, Begin, Scan, Choose, Leave, Enter, Wake, Sleep,
           EndIteration, shared
  <2>3. t = 0 /\ 0 \in Threads
    BY <2>2 DEF Threads
  <2>4. /\ at[0] = "join" /\ edges' = edges /\ u[0] \in V
        /\ vcom' = [vcom EXCEPT ![u[0]] = best[0].c] /\ best[0].c \in V
    BY <2>1, <2>2, <2>3, InHand DEF Join, graph, Busy
  <2>5. best[0].c # 0
    BY <2>1, <2>3, <2>4 DEF TInv, MInv, Chosen
  <2>6. best[0].e > 0 /\ best[0].c # vcom[u[0]] /\ best[0].e = GainOf(vcom, u[0], best[0].c)
    BY <2>4, <2>5 DEF GInv, Best0, None
  <2>7. SumOver(Parts(vcom')) = SumOver(Parts(vcom)) + 2 * GainOf(vcom, u[0], best[0].c)
    BY <2>1, <2>4, <2>6, MovesGain
  <2> QED BY <2>1, <2>4, <2>6, <2>7, ModularityNow, ModularityIs
<1>2. Init => TInv /\ SInv /\ WeightsAgree /\ GInv
  BY InitTInv, InitScans, InitWeights, InitGains
<1>3. TInv => OneThreadPerVertex
  BY DisjointVertices DEF TInv
<1>4. TInv /\ [Next]_vars => TInv'
  BY NextKeepsTInv
<1>5. TInv /\ WeightsAgree /\ OneThreadPerVertex' /\ [Next]_vars => WeightsAgree'
  BY NextKeepsWeights
<1> QED BY <1>1, <1>2, <1>3, <1>4, <1>5, NextKeepsScans, NextKeepsGains,
           PTL DEF Spec, GainIsReal
=============================================================================
