---------------------------- MODULE LouvainMove ----------------------------
(***************************************************************************)
(* The local-moving phase of Louvain, louvainMoveOmpW (louvain.hxx), as    *)
(* louvainInvokeOmp starts it in every pass: each vertex is a community of *)
(* its own and affected.  Threads take chunks of vertices; memberships,    *)
(* community weights and affected flags are shared, the scan tables are a  *)
(* thread's own.  One step is one place in the loop body that reads or     *)
(* writes the shared arrays.                                               *)
(*                                                                         *)
(* Weights are integers.  A change of modularity is kept multiplied by     *)
(* 2*M^2, where 2*M is the total edge weight, so that it is an integer     *)
(* too; the resolution is 1.                                               *)
(***************************************************************************)
EXTENDS SortedPairs, Sums

CONSTANTS S,            \* span: the number of vertices
          MaxWeight,    \* bound on an edge's weight
          MaxTotal,     \* bound on the sum of the weights
          MaxThreads,   \* bound on the threads of the region
          ChunkSize,    \* vertices a thread takes at a time, 2048 in the code
          L,            \* maximum number of iterations, 20 in the code
          InvTolerance  \* 1/tolerance, 100 in the first pass

ASSUME MoveAssumption ==
  /\ S \in Nat /\ MaxWeight \in Nat /\ MaxTotal \in Nat
  /\ MaxThreads \in Nat \ {0} /\ ChunkSize \in Nat \ {0}
  /\ L \in Nat \ {0} /\ InvTolerance \in Nat

V == 0..(S - 1)

VARIABLES
  edges,     \* the digraph: vertex -> its row, a sequence of [target, weight]
             \* entries (first, second) in which a target may stand twice
  threads,   \* the number of threads of the region
  vcom, ctot, vaff,
  el, l,     \* gain of the iteration, number of iterations
  next,      \* the first vertex of the next chunk
  at, u,     \* per thread: where it is in the loop body, and for which vertex
  stop,      \* per thread: the end of its chunk
  k,         \* per thread: next position in the row of u, or in vcs
  vcs, vcout,  \* per thread: communities seen, weight towards each
  best,      \* per thread: [c, e], the best community and its gain
  outdated   \* not in the code: the vertices with a neighbour that has moved
             \* since they were last scanned

graph == <<edges, threads>>
shared == <<vcom, ctot, vaff, el>>
loop == <<l, next>>
own == <<u, stop, k, vcs, vcout, best>>
vars == <<graph, shared, loop, at, own, outdated>>

Threads == 0..(threads - 1)

SumOver(f) == Sum(f, 0, S)

\* The weight of the entries in a's row whose targets are in T.
WeightTo(a, T) ==
  Sum([i \in DOMAIN edges[a] |-> IF edges[a][i].first \in T THEN edges[a][i].second ELSE 0],
      1, Len(edges[a]) + 1)

\* louvainVertexWeightsOmpW
vtot(a) == WeightTo(a, V)

\* edgeWeightOmp, 2*M
TotalWeight == SumOver([a \in V |-> vtot(a)])

None == [c |-> 0, e |-> 0]
NoScan == [c \in V |-> 0]

-----------------------------------------------------------------------------
\* A row with the entries of f, target -> weight, in ascending order.
Ascending(f) ==
  At([i \in 1..S |-> [first |-> i - 1, second |-> IF i - 1 \in DOMAIN f THEN f[i - 1] ELSE 0]],
     { b + 1 : b \in DOMAIN f })

\* The first pass, on an account graph: a row as symmetricizeOmp leaves it, which
\* may hold a target twice (AccountDigraph, ScheduleIndependent).
Symmetricized(g, a) ==
  UnionLast(Ascending([b \in { b \in V : <<a, b>> \in DOMAIN g } |-> g[<<a, b>>]]),
            Ascending([b \in { b \in V : <<b, a>> \in DOMAIN g } |-> g[<<b, a>>]]))
FirstPass ==
  \E E \in SUBSET (V \X V) : \E g \in [E -> 1..MaxWeight] :
    edges = [a \in V |-> Symmetricized(g, a)]

\* A later pass, on an aggregated graph: edges go both ways, and a row has its
\* targets once, in the order in which a scan met them.
AggregatedRows ==
  { r \in UNION { [1..n -> [first : V, second : 1..MaxWeight]] : n \in 0..S } :
      \A i, j \in DOMAIN r : r[i].first = r[j].first => i = j }
LaterPass ==
  /\ edges \in [V -> AggregatedRows]
  /\ \A a, b \in V : b \in Keys(edges[a]) => a \in Keys(edges[b])

Init ==
  /\ FirstPass \/ LaterPass
  /\ TotalWeight > 0
  /\ TotalWeight <= MaxTotal
  /\ threads \in 1..MaxThreads
  /\ vcom = [a \in V |-> a]
  /\ ctot = [a \in V |-> vtot(a)]
  /\ vaff = [a \in V |-> TRUE]
  /\ el = 0 /\ l = 0 /\ next = 0
  /\ at = [t \in Threads |-> "idle"]
  /\ u = [t \in Threads |-> 0]
  /\ stop = [t \in Threads |-> 0]
  /\ k = [t \in Threads |-> 1]
  /\ vcs = [t \in Threads |-> <<>>]
  /\ vcout = [t \in Threads |-> NoScan]
  /\ best = [t \in Threads |-> None]
  /\ outdated = {}

Go(t, place) == at' = [at EXCEPT ![t] = place]

\* schedule(dynamic, ChunkSize)
TakeChunk_BUG(t) ==
  /\ at[t] = "idle" /\ next < S
  /\ u' = [u EXCEPT ![t] = next]
  /\ stop' = [stop EXCEPT ![t] = IF next + ChunkSize < S THEN next + ChunkSize ELSE S]
  /\ Go(t, "check")
  /\ UNCHANGED <<graph, shared, loop, k, vcs, vcout, best, outdated>>

TakeChunk(t) ==
  /\ at[t] = "idle" /\ next < S
  /\ u' = [u EXCEPT ![t] = next]
  /\ stop' = [stop EXCEPT ![t] = IF next + ChunkSize < S THEN next + ChunkSize ELSE S]
  /\ next' = stop'[t]
  /\ Go(t, "check")
  /\ UNCHANGED <<graph, shared, l, k, vcs, vcout, best, outdated>>

NextVertex(t) ==
  IF u[t] + 1 < stop[t] THEN /\ u' = [u EXCEPT ![t] = @ + 1]
                             /\ Go(t, "check")
  ELSE Go(t, "idle") /\ UNCHANGED u

Skip(t) ==
  /\ at[t] = "check" /\ ~vaff[u[t]]
  /\ NextVertex(t)
  /\ UNCHANGED <<graph, shared, loop, stop, k, vcs, vcout, best, outdated>>

\* louvainClearScanW
Cleared_BUG(t) == vcout[t]
Cleared(t) == [c \in V |-> IF \E i \in DOMAIN vcs[t] : vcs[t][i] = c
                           THEN 0 ELSE vcout[t][c]]

Begin(t) ==
  /\ at[t] = "check" /\ vaff[u[t]]
  /\ vcout' = [vcout EXCEPT ![t] = Cleared(t)]
  /\ vcs' = [vcs EXCEPT ![t] = <<>>]
  /\ Go(t, IF edges[u[t]] = <<>> THEN "sleep" ELSE "scan")
  /\ outdated' = outdated \ {u[t]}
  /\ UNCHANGED <<graph, shared, loop, u, stop, k, best>>

\* The loops over a row and over vcs: the next place, or the one after the loop.
Advance(t, n, after) ==
  /\ k' = [k EXCEPT ![t] = IF @ < n THEN @ + 1 ELSE 1]
  /\ IF k[t] < n THEN UNCHANGED at ELSE Go(t, after)

\* louvainScanCommunityW: one edge, one look at its target's community.
Scan(t) ==
  /\ at[t] = "scan"
  /\ LET v == edges[u[t]][k[t]].first
         c == vcom[v]
     IN  IF v = u[t] THEN UNCHANGED <<vcs, vcout>>
         ELSE /\ vcs' = [vcs EXCEPT ![t] = IF vcout[t][c] = 0 THEN Append(@, c) ELSE @]
              /\ vcout' = [vcout EXCEPT ![t][c] = @ + edges[u[t]][k[t]].second]
  /\ Advance(t, Len(edges[u[t]]), IF vcs'[t] = <<>> THEN "sleep" ELSE "choose")
  /\ UNCHANGED <<graph, shared, loop, u, stop, best, outdated>>

deltaModularity_BUG(vc, vd, vt, ct, dt) == TotalWeight * (vc - vd) - vt * (ct - dt)
deltaModularity(vc, vd, vt, ct, dt) == TotalWeight * (vc - vd) - vt * (vt + ct - dt)

\* `if (c)`: community 0 counts as none.
Moves(b) == b.c # 0

\* louvainChooseCommunity: one community, one look at the weights.
Choose(t) ==
  /\ at[t] = "choose"
  /\ LET c == vcs[t][k[t]]
         d == vcom[u[t]]
         e == deltaModularity(vcout[t][c], vcout[t][d], vtot(u[t]), ctot[c], ctot[d])
     IN  best' = [best EXCEPT ![t] = IF c # d /\ e > @.e THEN [c |-> c, e |-> e] ELSE @]
  /\ Advance(t, Len(vcs[t]), IF Moves(best'[t]) THEN "leave" ELSE "sleep")
  /\ UNCHANGED <<graph, shared, loop, u, stop, vcs, vcout, outdated>>

\* louvainChangeCommunityOmpW: two atomic updates and a plain write.
Leave(t) ==
  /\ at[t] = "leave"
  /\ ctot' = [ctot EXCEPT ![vcom[u[t]]] = @ - vtot(u[t])]
  /\ Go(t, "enter")
  /\ UNCHANGED <<graph, vcom, vaff, el, loop, own, outdated>>

Enter_BUG(t) ==
  /\ at[t] = "enter"
  /\ ctot' = [ctot EXCEPT ![best[t].c] = @ + vcout[t][best[t].c]]
  /\ Go(t, "join")
  /\ UNCHANGED <<graph, vcom, vaff, el, loop, own, outdated>>

Enter(t) ==
  /\ at[t] = "enter"
  /\ ctot' = [ctot EXCEPT ![best[t].c] = @ + vtot(u[t])]
  /\ Go(t, "join")
  /\ UNCHANGED <<graph, vcom, vaff, el, loop, own, outdated>>

Join(t) ==
  /\ at[t] = "join"
  /\ vcom' = [vcom EXCEPT ![u[t]] = best[t].c]
  /\ Go(t, "wake")
  /\ outdated' = outdated \cup { b \in V \ {u[t]} : u[t] \in Keys(edges[b]) }
  /\ UNCHANGED <<graph, ctot, vaff, el, loop, own>>

\* The neighbours are affected, one after the other.
Wake_BUG(t) ==
  /\ at[t] = "wake"
  /\ vaff' = [vaff EXCEPT ![edges[u[t]][k[t]].first] =
              vcom[edges[u[t]][k[t]].first] = vcom[u[t]]]
  /\ Advance(t, Len(edges[u[t]]), "sleep")
  /\ UNCHANGED <<graph, vcom, ctot, el, loop, u, stop, vcs, vcout, best, outdated>>

Wake(t) ==
  /\ at[t] = "wake"
  /\ vaff' = [vaff EXCEPT ![edges[u[t]][k[t]].first] = TRUE]
  /\ Advance(t, Len(edges[u[t]]), "sleep")
  /\ UNCHANGED <<graph, vcom, ctot, el, loop, u, stop, vcs, vcout, best, outdated>>

Sleep(t) ==
  /\ at[t] = "sleep"
  /\ vaff' = [vaff EXCEPT ![u[t]] = FALSE]
  /\ el' = el + best[t].e
  /\ best' = [best EXCEPT ![t] = None]
  /\ NextVertex(t)
  /\ UNCHANGED <<graph, vcom, ctot, loop, stop, k, vcs, vcout, outdated>>

\* fc(el): el <= tolerance.
Converged == 2 * InvTolerance * el <= TotalWeight * TotalWeight

\* The barrier at the end of the parallel loop.
EndIteration ==
  /\ l < L /\ next >= S /\ \A t \in Threads : at[t] = "idle"
  /\ l' = l + 1
  /\ IF Converged \/ l + 1 = L
     THEN at' = [t \in Threads |-> "done"] /\ UNCHANGED <<el, next>>
     ELSE el' = 0 /\ next' = 0 /\ UNCHANGED at
  /\ UNCHANGED <<graph, vcom, ctot, vaff, own, outdated>>

Step(t) ==
  \/ TakeChunk(t) \/ Skip(t) \/ Begin(t) \/ Scan(t) \/ Choose(t)
  \/ Leave(t) \/ Enter(t) \/ Join(t) \/ Wake(t) \/ Sleep(t)

Next == (\E t \in Threads : Step(t)) \/ EndIteration

\* Every thread gets to the end of the loop.
Fairness == WF_vars(EndIteration) /\ \A t \in 0..(MaxThreads - 1) : WF_vars(t \in Threads /\ Step(t))

Spec == Init /\ [][Next]_vars /\ Fairness

-----------------------------------------------------------------------------
(* Properties *)

\* Where the weight of a vertex counts, when its thread is between the two
\* atomic updates: nowhere; between them and the write of vcom: already in
\* the new community.
Owner(a) == { t \in Threads : u[t] = a /\ at[t] \in {"enter", "join"} }
CountsIn(a) ==
  IF Owner(a) = {} THEN {vcom[a]}
  ELSE UNION { IF at[t] = "join" THEN {best[t].c} ELSE {} : t \in Owner(a) }

\* At every interleaving the weight of a community is that of its members: no
\* update is lost, and at the barrier weights and memberships agree.
WeightsAgree ==
  \A c \in V : ctot[c] = SumOver([a \in V |-> IF c \in CountsIn(a) THEN vtot(a) ELSE 0])

\* No vertex is in the hands of two threads, whatever the sizes of the graph,
\* the chunks and the last chunk: vcom[u] needs no atomic update.
Busy(t) == at[t] \notin {"idle", "done"}
OneThreadPerVertex ==
  \A t1, t2 \in Threads : t1 # t2 /\ Busy(t1) /\ Busy(t2) => u[t1] # u[t2]

\* However the other threads move the neighbours meanwhile, a scan counts each
\* entry of the row but the loops once and lists each community once: the tables
\* hold nothing of the vertex before.  An edge that symmetricizeOmp has left in
\* the row twice has two entries and counts twice, here as in vtot and 2*M.
ScanCountsEachEntry ==
  \A t \in Threads : at[t] \in {"choose", "leave", "enter", "join"} =>
    /\ SumOver(vcout[t]) = WeightTo(u[t], V \ {u[t]})
    /\ { vcs[t][i] : i \in DOMAIN vcs[t] } = { c \in V : vcout[t][c] > 0 }
    /\ Cardinality({ c \in V : vcout[t][c] > 0 }) = Len(vcs[t])

\* Modularity, multiplied by (2*M)^2.
Inside(c) ==
  SumOver([a \in V |-> IF vcom[a] # c THEN 0 ELSE WeightTo(a, { b \in V : vcom[b] = c })])
Modularity ==
  SumOver([c \in V |->
    LET tot == SumOver([a \in V |-> IF vcom[a] = c THEN vtot(a) ELSE 0])
    IN  TotalWeight * Inside(c) - tot * tot])
Symmetric == \A a, b \in V : WeightTo(a, {b}) = WeightTo(b, {a})

\* With one thread and symmetric weights a move gains exactly what was
\* computed for it, so that modularity grows with every move.  It need not
\* when two threads move neighbours at a time, nor with the asymmetric
\* weights of AccountDigraph.
GainIsReal ==
  [][threads = 1 /\ Symmetric /\ vcom' # vcom =>
       best[0].e > 0 /\ Modularity' = Modularity + 2 * best[0].e]_vars

\* With one thread the affected flags miss nobody: a vertex with a neighbour
\* that has moved is affected, or about to be.  Two threads may miss one: its
\* own turn clears the flag that the other has set meanwhile.
NoWakeUpLost ==
  threads = 1 =>
    \A a \in outdated :
      \/ vaff[a]
      \/ at[0] = "wake" /\ \E i \in k[0]..Len(edges[u[0]]) : edges[u[0]][i].first = a

\* The phase ends, after at most L iterations.
Terminates == <>(\A t \in Threads : at[t] = "done")
=============================================================================
