------------------------------ MODULE Digraph ------------------------------
(***************************************************************************)
(* louvain/Graph.hxx, DiGraph: existence flags and a LazyBitset of         *)
(* out-edges for each index, as values that the operations map to values.  *)
(* A row may wait with additions (unprocessed > 0) or removals (< 0).      *)
(* `order` and `size` are the counts of the last update().                 *)
(***************************************************************************)
EXTENDS Integers, SortedPairs

NoRow == [pairs |-> <<>>, unprocessed |-> 0]

NoGraph == [exists |-> [u \in {} |-> FALSE], edges |-> [u \in {} |-> NoRow],
            order |-> 0, size |-> 0]

span(g) == Cardinality(DOMAIN g.exists)

hasVertex(g, u) == u < span(g) /\ g.exists[u]

vertices(g) == { u \in DOMAIN g.exists : g.exists[u] }

\* Entries of the row: what waits counts too, removals included.
degree(g, u) == IF u < span(g) THEN Len(g.edges[u].pairs) ELSE 0

respan(g, n) ==
  [g EXCEPT
     !.exists = [u \in 0..(n - 1) |-> IF u < span(g) THEN g.exists[u] ELSE FALSE],
     !.edges  = [u \in 0..(n - 1) |-> IF u < span(g) THEN g.edges[u] ELSE NoRow]]

addVertex(g, u) ==
  IF hasVertex(g, u) THEN g
  ELSE LET h == IF u >= span(g) THEN respan(g, u + 1) ELSE g
       IN  [h EXCEPT !.exists[u] = TRUE]

removeVertex(g, u) ==
  IF hasVertex(g, u) THEN [g EXCEPT !.exists[u] = FALSE, !.edges[u] = NoRow] ELSE g

-----------------------------------------------------------------------------
(* Rows: LazyBitset *)

Waiting(row) == IF row.unprocessed < 0 THEN -row.unprocessed ELSE row.unprocessed
Settled(row) == SubSeq(row.pairs, 1, Len(row.pairs) - Waiting(row))
Pending(row) ==
  SubSeq(row.pairs, Len(row.pairs) - Waiting(row) + 1, Len(row.pairs))

\* Only how often a key is removed matters, not the order of the removals.
updateRemove(row) ==
  [pairs |-> SetDifference(Settled(row), Pending(row)), unprocessed |-> 0]

Updates(row) ==
  CASE row.unprocessed = 0 -> {row}
    [] row.unprocessed < 0 -> {updateRemove(row)}
    [] row.unprocessed > 0 ->
         { [pairs |-> UnionLast(Settled(row), y), unprocessed |-> 0] :
             y \in Sortings(Pending(row)) }

AddPair_BUG(row, v, w) ==
  [pairs |-> Append(row.pairs, [first |-> v, second |-> w]),
   unprocessed |-> Waiting(row) + 1]

AddPair(row, v, w) ==
  LET r == IF row.unprocessed < 0 THEN updateRemove(row) ELSE row
  IN  [pairs |-> Append(r.pairs, [first |-> v, second |-> w]),
       unprocessed |-> r.unprocessed + 1]

\* V() of a removal is never read.
RemovePair(row, v) ==
  { [pairs |-> Append(r.pairs, [first |-> v, second |-> 0]),
     unprocessed |-> r.unprocessed - 1] :
      r \in IF row.unprocessed > 0 THEN Updates(row) ELSE {row} }

-----------------------------------------------------------------------------
(* Edges *)

addEdgeIf(g, u, v, w, test) ==
  LET h == addVertex(addVertex(g, u), v)
  IN  IF test THEN [h EXCEPT !.edges[u] = AddPair(h.edges[u], v, w)] ELSE h

addEdge(g, u, v, w) == addEdgeIf(g, u, v, w, TRUE)

removeEdge(g, u, v) ==
  IF hasVertex(g, u) /\ hasVertex(g, v)
  THEN { [g EXCEPT !.edges[u] = row] : row \in RemovePair(g.edges[u], v) }
  ELSE {g}

\* What forEachVertexKey and forEachEdge of all vertices visit, in order.
EdgeList(g) ==
  LET Row(u) == IF g.exists[u]
                THEN [i \in DOMAIN g.edges[u].pairs |->
                        [source |-> u, target |-> g.edges[u].pairs[i].first,
                         weight |-> g.edges[u].pairs[i].second]]
                ELSE <<>>
      upto[n \in 0..span(g)] == IF n = 0 THEN <<>> ELSE upto[n - 1] \o Row(n - 1)
  IN  upto[span(g)]

\* updateOmpU: the rows are independent of each other, every thread has its
\* own buffer; then update() finds them processed, and counts.  Rows of
\* indices that do not exist are empty, so update() alone does the same.
updateOmpU(g) ==
  LET new == [u \in DOMAIN g.edges |-> Updates(g.edges[u])]
      Rows == { f \in [DOMAIN new -> UNION { new[u] : u \in DOMAIN new }] :
                  \A u \in DOMAIN new : f[u] \in new[u] }
      Counted(h) == [h EXCEPT !.order = Cardinality(vertices(h)),
                              !.size = Len(EdgeList(h))]
  IN  { Counted([g EXCEPT !.edges = rows]) : rows \in Rows }
=============================================================================
