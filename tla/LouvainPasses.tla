--------------------------- MODULE LouvainPasses ---------------------------
(***************************************************************************)
(* The passes of Louvain: louvainInvokeOmp<false> (louvain.hxx) as         *)
(* louvainStaticOmp calls it, and the grouping of accounts by community in *)
(* LouvainCommunity (louvain.hpp).  A pass moves vertices, renumbers the   *)
(* communities, lists the vertices of each in a CSR, and adds up the edges *)
(* between them into the graph of the next pass.                           *)
(*                                                                         *)
(* Local moving is one step here, with what LouvainMove shows of it.  A    *)
(* parallel loop whose turns touch entries of their own, or add to shared  *)
(* ones atomically without reading them, is one step as well; the loops    *)
(* that capture a shared value, the slots of the CSR and the scans are     *)
(* taken apart.                                                            *)
(*                                                                         *)
(* Arrays are functions on 0..(length - 1).  What an earlier pass left in  *)
(* a buffer that must not be read again is Stale.                          *)
(***************************************************************************)
EXTENDS Integers, FiniteSets, SequencesExt

CONSTANTS S,          \* span: the number of vertices of the input graph
          Inputs,     \* its weights, functions from <<u, v>>, edges both ways
          H,          \* omp_get_max_threads()
          P,          \* options: maxPasses, 10 in the code
          L,          \* options: maxIterations, 20 in the code
          Tolerance   \* options: aggregationTolerance, in tenths

ASSUME PassesAssumption ==
  /\ S \in Nat \ {0} /\ H \in Nat \ {0} /\ P \in Nat \ {0} /\ L \in Nat \ {0}
  /\ Tolerance \in Nat

Stale == -1
Upto(n) == 0..(n - 1)

ASSUME InputsAssumption ==
  \A w \in Inputs : DOMAIN w \subseteq Upto(S) \X Upto(S) /\ \A e \in DOMAIN w : w[e] \in Nat

VARIABLES
  x,             \* the input graph
  p, pc,         \* number of passes, phase of the pass
  ucom, vcom,    \* communities: of the input's vertices, of the pass's vertices
  vtot, ctot,    \* weights of the vertices of y, of the communities
  vaff,          \* affected vertices
  cvoff, cvdeg, cvkey,    \* cv: the vertices of each community
  y,             \* graph of the pass: offsets, degrees, keys, weights
  zoff, z,       \* graph of the next pass; the offsets on their own
  buf, T, stage, todo, given,   \* see ExclusiveScan; todo also for other loops
  slot,          \* slots claimed and not yet written
  CN,            \* number of communities
  result         \* of LouvainCommunity: buckets of vertices

moved == <<ucom, vcom, vtot, ctot, vaff>>
cv == <<cvoff, cvdeg, cvkey>>
scan == <<buf, stage, given>>
vars == <<x, p, pc, moved, cv, y, zoff, z, scan, T, todo, slot, CN, result>>

Ranks == INSTANCE ExclusiveScan WITH a <- cvdeg
Members == INSTANCE ExclusiveScan WITH a <- cvoff
Rows == INSTANCE ExclusiveScan WITH a <- zoff

SumOf(f, n) == Ranks!Sum(f, 0, n)
Fill(n, e) == [i \in Upto(n) |-> e]
\* A finite set of numbers in ascending order.  SetToSortSeq is the same, but
\* rests on a sort that the provers cannot expand.
Ascending(I) == [n \in 1..Cardinality(I) |-> CHOOSE i \in I : Cardinality({ j \in I : j <= i }) = n]
\* vector::resize
Resize(f, n) == [i \in Upto(n) |-> IF i \in DOMAIN f THEN f[i] ELSE 0]

-----------------------------------------------------------------------------
(* The graph of the pass: the input first, then y *)

isFirst == IF pc = "move" THEN p = 0 ELSE p = 1
com == IF isFirst THEN ucom ELSE vcom
Span == IF isFirst THEN S ELSE Cardinality(DOMAIN y.deg)

\* forEachEdge: targets with weights.
InputRow(u) ==
  LET vs == Ascending({ v \in Upto(S) : <<u, v>> \in DOMAIN x })
  IN  [i \in DOMAIN vs |-> <<vs[i], x[<<u, vs[i]>>]>>]
CsrRow(g, u) == [i \in 1..g.deg[u] |-> <<g.key[g.off[u] + i - 1], g.val[g.off[u] + i - 1]>>]
Row(u) == IF isFirst THEN InputRow(u) ELSE CsrRow(y, u)

RowWeight(row) == SumOf([i \in Upto(Len(row)) |-> row[i + 1][2]], Len(row))
EdgeCount == Cardinality(DOMAIN x)

-----------------------------------------------------------------------------
Init ==
  /\ x \in Inputs
  /\ T \in 1..H
  /\ p = 0 /\ pc = IF x = <<>> THEN "end" ELSE "move"
  /\ ucom = [u \in Upto(S) |-> u]
  /\ vcom = Fill(S, 0) /\ vtot = Fill(S, 0)
  /\ ctot = [u \in Upto(S) |-> RowWeight(InputRow(u))]
  /\ vaff = Fill(S, TRUE)
  /\ cvoff = Fill(S + 1, 0) /\ cvdeg = Fill(S, 0) /\ cvkey = Fill(S, Stale)
  /\ y = [off |-> Fill(S + 1, 0), deg |-> Fill(S, 0),
          key |-> Fill(EdgeCount, Stale), val |-> Fill(EdgeCount, Stale)]
  /\ zoff = Fill(S + 1, 0)
  /\ z = [deg |-> Fill(S, 0), key |-> Fill(EdgeCount, Stale), val |-> Fill(EdgeCount, Stale)]
  /\ buf = Fill(H, 0) /\ stage = "idle" /\ given = <<>>
  /\ todo = {} /\ slot = Fill(S, Stale) /\ CN = 0 /\ result = <<>>

\* louvainMoveOmpW after m iterations: any communities it can leave.
Move(m) ==
  /\ pc = "move"
  /\ \E c \in [Upto(Span) -> Upto(Span)] :
       /\ \A u \in Upto(Span) : c[u] = 0 => u = 0
       /\ LET moved1 == [u \in Upto(S) |-> IF u < Span THEN c[u] ELSE com[u]]
          IN  IF isFirst THEN ucom' = moved1 /\ UNCHANGED vcom
                         ELSE vcom' = moved1 /\ UNCHANGED ucom
       /\ ctot' = [d \in Upto(S) |->
            IF d < Span THEN SumOf([u \in Upto(Span) |-> IF c[u] = d THEN RowWeight(Row(u)) ELSE 0], Span)
            ELSE ctot[d]]
  /\ vaff' = [u \in Upto(S) |-> u >= Span /\ vaff[u]]
  /\ p' = p + 1
  /\ IF m <= 1 \/ p + 1 >= P
     THEN pc' = "end" /\ UNCHANGED <<cvdeg, todo, CN>>
     ELSE /\ pc' = "exists"
          /\ cvdeg' = [c \in DOMAIN cvdeg |-> 0]
          /\ CN' = 0 /\ todo' = Upto(Span)
  /\ UNCHANGED <<x, vtot, cvoff, cvkey, y, zoff, z, scan, T, slot, result>>

Exists(u) ==
  /\ pc = "exists" /\ u \in todo
  /\ cvdeg' = [cvdeg EXCEPT ![com[u]] = 1]
  /\ CN' = IF cvdeg[com[u]] = 0 THEN CN + 1 ELSE CN
  /\ todo' = todo \ {u}
  /\ UNCHANGED <<x, p, pc, moved, cvoff, cvkey, y, zoff, z, scan, T, slot, result>>

FewEnough == 10 * CN < Tolerance * Span

Existed ==
  /\ pc = "exists" /\ todo = {}
  /\ UNCHANGED cvdeg
  /\ IF FewEnough THEN pc' = "rank" /\ Ranks!StartScan
                  ELSE pc' = "end" /\ UNCHANGED <<scan, todo>>
  /\ UNCHANGED <<x, p, moved, cvoff, cvkey, y, zoff, z, T, slot, CN, result>>

Rank ==
  /\ pc = "rank" /\ Ranks!ScanStep(Span)
  /\ UNCHANGED <<x, p, pc, moved, cvoff, cvkey, y, zoff, z, slot, CN, result>>

\* louvainLookupCommunitiesOmpU: over the whole vector, whatever the span.
\* A read beyond the end of c gives anything.
LookedUp(a, c) == [u \in DOMAIN a |-> IF a[u] \in DOMAIN c THEN c[a[u]] ELSE Stale]

\* louvainRenumberCommunitiesOmpW, after its scan.
Renumber ==
  /\ pc = "rank" /\ Ranks!EndScan
  /\ IF isFirst THEN ucom' = LookedUp(ucom, cvdeg) /\ pc' = "count" /\ UNCHANGED vcom
                ELSE vcom' = LookedUp(vcom, cvdeg) /\ pc' = "lookup" /\ UNCHANGED ucom
  /\ given' = <<>>
  /\ UNCHANGED <<x, p, vtot, ctot, vaff, cv, y, zoff, z, buf, T, todo, slot, CN, result>>

\* The communities of the input's vertices follow, before vcom is reset.
Lookup_BUG ==
  /\ pc = "lookup" /\ pc' = "count"
  /\ UNCHANGED <<x, p, moved, cv, y, zoff, z, scan, T, todo, slot, CN, result>>

Lookup ==
  /\ pc = "lookup" /\ pc' = "count"
  /\ ucom' = LookedUp(ucom, vcom)
  /\ UNCHANGED <<x, p, vcom, vtot, ctot, vaff, cv, y, zoff, z, scan, T, todo, slot, CN, result>>

\* cv.respan, z.respan; louvainCountCommunityVerticesOmpW and the scan begins.
Count ==
  /\ pc = "count" /\ pc' = "offsets"
  /\ cvoff' = [c \in 0..CN |-> Cardinality({ u \in Upto(Span) : com[u] = c })]
  /\ cvdeg' = Resize(cvdeg, CN)
  /\ zoff' = Resize(zoff, CN + 1)
  /\ z' = [z EXCEPT !.deg = Resize(@, CN)]
  /\ Members!StartScan
  /\ UNCHANGED <<x, p, moved, cvkey, y, T, slot, CN, result>>

Offsets ==
  /\ pc = "offsets" /\ Members!ScanStep(CN)
  /\ UNCHANGED <<x, p, pc, moved, cvdeg, cvkey, y, zoff, z, slot, CN, result>>

\* louvainCommunityVerticesOmpW after its scan.
StartClaims_BUG ==
  /\ pc = "offsets" /\ Members!EndScan
  /\ pc' = "claim" /\ todo' = Upto(Span)
  /\ cvdeg' = Fill(CN, 0)
  /\ given' = <<>>
  /\ UNCHANGED <<x, p, moved, cvoff, cvkey, y, zoff, z, buf, T, slot, CN, result>>

StartClaims ==
  /\ pc = "offsets" /\ Members!EndScan
  /\ pc' = "claim" /\ todo' = Upto(Span)
  /\ cvoff' = [cvoff EXCEPT ![CN] = Members!Total]
  /\ cvdeg' = Fill(CN, 0)
  /\ given' = <<>>
  /\ UNCHANGED <<x, p, moved, cvkey, y, zoff, z, buf, T, slot, CN, result>>

Claim(u) ==
  /\ pc = "claim" /\ u \in todo
  /\ slot' = [slot EXCEPT ![u] = cvdeg[com[u]]]
  /\ cvdeg' = [cvdeg EXCEPT ![com[u]] = @ + 1]
  /\ todo' = todo \ {u}
  /\ UNCHANGED <<x, p, pc, moved, cvoff, cvkey, y, zoff, z, scan, T, CN, result>>

Write(u) ==
  /\ pc = "claim" /\ slot[u] # Stale
  /\ cvkey' = [cvkey EXCEPT ![cvoff[com[u]] + slot[u]] = u]
  /\ slot' = [slot EXCEPT ![u] = Stale]
  /\ UNCHANGED <<x, p, pc, moved, cvoff, cvdeg, y, zoff, z, scan, T, todo, CN, result>>

\* louvainCommunityTotalDegreeOmpW: room for the edges of a community.
Room_BUG(c) == Len(Row(c))
Room(c) == SumOf([u \in Upto(Span) |-> IF com[u] = c THEN Len(Row(u)) ELSE 0], Span)

TotalDegrees ==
  /\ pc = "claim" /\ todo = {} /\ \A u \in Upto(S) : slot[u] = Stale
  /\ pc' = "regions"
  /\ zoff' = [c \in 0..CN |-> IF c < CN THEN Room(c) ELSE 0]
  /\ Rows!StartScan
  /\ UNCHANGED <<x, p, moved, cv, y, z, T, slot, CN, result>>

Regions ==
  /\ pc = "regions" /\ Rows!ScanStep(CN)
  /\ UNCHANGED <<x, p, pc, moved, cv, y, z, slot, CN, result>>

StartAggregation ==
  /\ pc = "regions" /\ Rows!EndScan
  /\ pc' = "aggregate" /\ todo' = Upto(CN)
  /\ zoff' = [zoff EXCEPT ![CN] = Rows!Total]
  /\ z' = [z EXCEPT !.deg = Fill(CN, 0)]
  /\ given' = <<>>
  /\ UNCHANGED <<x, p, moved, cv, y, buf, T, slot, CN, result>>

\* The edges out of c's vertices, loops included: louvainScanCommunitiesW<true>.
Listed(c) == SubSeq([i \in 1..S |-> cvkey[i - 1]], cvoff[c] + 1, cvoff[c + 1])
Edges_BUG(c) ==
  FlattenSeq([i \in DOMAIN Listed(c) |-> SelectSeq(Row(Listed(c)[i]), LAMBDA e : e[1] # Listed(c)[i])])
Edges(c) == FlattenSeq([i \in DOMAIN Listed(c) |-> Row(Listed(c)[i])])

\* Their weights by community of the target, in the order first seen.
Seen(c) ==
  LET edges == Edges(c)
      ds == [i \in DOMAIN edges |-> com[edges[i][1]]]
      firsts == Ascending({ i \in DOMAIN ds : \A j \in 1..(i - 1) : ds[j] # ds[i] })
      W(d) == SumOf([i \in Upto(Len(ds)) |-> IF ds[i + 1] = d THEN edges[i + 1][2] ELSE 0], Len(ds))
  IN  [i \in DOMAIN firsts |-> <<ds[firsts[i]], W(ds[firsts[i]])>>]

\* louvainAggregateEdgesOmpW, one community: csrAddEdgeU for each one seen.
Aggregate(c) ==
  /\ pc = "aggregate" /\ c \in todo
  /\ LET vcs == Seen(c)
         at(i) == i - zoff[c] + 1
     IN  z' = [deg |-> [z.deg EXCEPT ![c] = Len(vcs)],
               key |-> [i \in DOMAIN z.key |-> IF at(i) \in DOMAIN vcs THEN vcs[at(i)][1] ELSE z.key[i]],
               val |-> [i \in DOMAIN z.val |-> IF at(i) \in DOMAIN vcs THEN vcs[at(i)][2] ELSE z.val[i]]]
  /\ todo' = todo \ {c}
  /\ UNCHANGED <<x, p, pc, moved, cv, y, zoff, scan, T, slot, CN, result>>

aggregated == [off |-> zoff, deg |-> z.deg, key |-> z.key, val |-> z.val]

NewWeights_BUG == [u \in Upto(S) |-> IF u < CN THEN RowWeight(CsrRow(y, u)) ELSE vtot[u]]
NewWeights == [u \in Upto(S) |-> IF u < CN THEN RowWeight(CsrRow(aggregated, u)) ELSE vtot[u]]

\* louvainInitializeOmpW: as far as the span.
Alone == [u \in Upto(S) |-> IF u < CN THEN u ELSE vcom[u]]

\* swap(y, z), the resets and louvainInitializeOmpW.
NextPass ==
  /\ pc = "aggregate" /\ todo = {} /\ pc' = "move"
  /\ y' = aggregated
  /\ zoff' = y.off
  /\ z' = [deg |-> y.deg, key |-> Fill(EdgeCount, Stale), val |-> Fill(EdgeCount, Stale)]
  /\ cvkey' = Fill(S, Stale)
  /\ vtot' = NewWeights
  /\ vaff' = [u \in Upto(S) |-> u < CN \/ vaff[u]]
  /\ vcom' = Alone
  /\ ctot' = [u \in Upto(S) |-> IF u < CN THEN NewWeights[u] ELSE ctot[u]]
  /\ UNCHANGED <<x, p, ucom, cvoff, cvdeg, scan, T, todo, slot, CN, result>>

\* After the loop; the buffers go with the call.
End ==
  /\ pc = "end" /\ pc' = "group"
  /\ ucom' = IF p <= 1 THEN ucom ELSE LookedUp(ucom, vcom)
  /\ vcom' = <<>> /\ vtot' = <<>> /\ ctot' = <<>> /\ vaff' = <<>>
  /\ cvoff' = <<>> /\ cvdeg' = <<>> /\ cvkey' = <<>>
  /\ zoff' = <<>> /\ slot' = <<>> /\ buf' = <<>>
  /\ y' = [off |-> <<>>, deg |-> <<>>, key |-> <<>>, val |-> <<>>]
  /\ z' = [deg |-> <<>>, key |-> <<>>, val |-> <<>>]
  /\ UNCHANGED <<x, p, stage, given, T, todo, CN, result>>

BySize(buckets) == \A i, j \in DOMAIN buckets : i < j => Cardinality(buckets[i]) >= Cardinality(buckets[j])

Buckets == { { u \in Upto(S) : ucom[u] = c } : c \in { ucom[u] : u \in Upto(S) } }

Group(sorted) ==
  /\ pc = "group" /\ pc' = "done"
  /\ \E buckets \in SetToSeqs(Buckets) :
       /\ sorted => BySize(buckets)
       /\ result' = [sorted |-> sorted, buckets |-> buckets]
  /\ UNCHANGED <<x, p, moved, cv, y, zoff, z, scan, T, todo, slot, CN>>

Next ==
  \/ \E m \in 1..L : Move(m)
  \/ \E u \in Upto(S) : Exists(u) \/ Claim(u) \/ Write(u) \/ Aggregate(u)
  \/ Existed \/ Rank \/ Renumber \/ Lookup \/ Count \/ Offsets \/ StartClaims
  \/ TotalDegrees \/ Regions \/ StartAggregation \/ NextPass \/ End
  \/ \E sorted \in BOOLEAN : Group(sorted)

Spec == Init /\ [][Next]_vars

-----------------------------------------------------------------------------
(* Properties *)

Returned == pc \in {"group", "done"}

\* exclusiveScanOmpW, wherever it is called; and the two ways to count
\* communities, by atomic captures and by the scan of the marks, agree: the
\* ranks are the vertices of the next graph.
ScansAreSums ==
  /\ pc = "rank" => Ranks!IsPrefixSum(Span)
  /\ pc = "offsets" => Members!IsPrefixSum(CN)
  /\ pc = "regions" => Rows!IsPrefixSum(CN)
  /\ pc = "rank" /\ Ranks!Scanned => Ranks!Total = CN

\* Threads that claim slots of one community at a time get different ones, all
\* of them within its region; in the end the region lists the vertices of the
\* community, each once.
ListingIsExact ==
  /\ pc = "claim" => \A u, w \in Upto(S) : slot[u] # Stale =>
       /\ cvoff[com[u]] + slot[u] < cvoff[com[u] + 1]
       /\ u # w /\ slot[w] # Stale => cvoff[com[u]] + slot[u] # cvoff[com[w]] + slot[w]
  /\ pc \in {"regions", "aggregate"} => \A c \in Upto(CN) :
       /\ ToSet(Listed(c)) = { u \in Upto(Span) : com[u] = c }
       /\ Len(Listed(c)) = Cardinality({ u \in Upto(Span) : com[u] = c })

\* csrAddEdgeU checks for no room: the edges written for a community stay
\* within its region, and the regions within the buffers, which are never
\* made longer.
RegionsFit ==
  pc = "aggregate" =>
    /\ zoff[CN] <= EdgeCount
    /\ \A c \in Upto(CN) : z.deg[c] <= zoff[c + 1] - zoff[c]

\* Whatever the order in which vertices were listed, each later pass works on
\* the quotient of the input by the communities so far: its weights are the
\* sums of the weights between them.
Between(f, c, d) ==
  LET es == SetToSeq({ e \in DOMAIN x : f[e[1]] = c /\ f[e[2]] = d })
  IN  SumOf([i \in Upto(Len(es)) |-> x[es[i + 1]]], Len(es))
QuotientOfInput ==
  pc = "move" /\ p > 0 =>
    \A c \in Upto(Span) :
      LET row == Row(c)
      IN  /\ \A i, j \in DOMAIN row : i # j => row[i][1] # row[j][1]
          /\ \A d \in Upto(Span) :
               Between(ucom, c, d) =
                 SumOf([i \in Upto(Len(row)) |-> IF row[i + 1][1] = d THEN row[i + 1][2] ELSE 0], Len(row))

\* Buffers keep their first length.  A pass starts as LouvainMove does, in
\* spite of what the last one has left in them: everybody awake and alone,
\* weights and rows those of the graph, nothing stale in a row.  vcom is
\* renumbered to its end, and what earlier and longer passes have left there
\* may index beyond the ranks: the look-ups that matter stay within the span.
NothingStale ==
  /\ pc = "move" => \A u \in Upto(Span) :
       /\ com[u] = u /\ vaff[u]
       /\ Row(u) \in Seq(Upto(Span) \X Nat)
       /\ ctot[u] = RowWeight(Row(u))
       /\ ~isFirst => vtot[u] = ctot[u]
  /\ pc = "rank" => \A u \in Upto(Span) : com[u] \in DOMAIN cvdeg
  /\ ~isFirst /\ pc \in {"move", "exists", "rank", "lookup", "end"} =>
       \A u \in Upto(S) : ucom[u] \in Upto(Span)

\* The communities of the input's vertices, composed from the two vectors,
\* only grow together from phase to phase, and the buckets are the last ones:
\* no exit from the loop leaves a look-up out or does it twice.
Composed(u) ==
  IF \/ p = 0 \/ Returned
     \/ p = 1 /\ pc # "move"
     \/ pc \in {"count", "offsets", "claim", "regions", "aggregate"}
  THEN ucom[u] ELSE vcom[ucom[u]]

Abstract == INSTANCE Coarsening WITH
  Vertices <- Upto(S),
  communities <- IF pc = "done" THEN ToSet(result.buckets)
                 ELSE { { w \in Upto(S) : Composed(w) = Composed(u) } : u \in Upto(S) },
  finished <- pc = "done"
OnlyCoarsens == Abstract!Spec
=============================================================================
