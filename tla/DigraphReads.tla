---------------------------- MODULE DigraphReads ----------------------------
(***************************************************************************)
(* What reads a graph without changing it: the CSR arrays of csr.hxx, the  *)
(* look-ups of DiGraphCsr in them, and the traversals bfs.hxx and dfs.hxx. *)
(***************************************************************************)
EXTENDS Digraph

\* vertexKeys(x), and any other selection of vertices, as a sequence `ks`.
RowKeys(g, u) == [i \in DOMAIN g.edges[u].pairs |-> g.edges[u].pairs[i].first]
RowValues(g, u) == [i \in DOMAIN g.edges[u].pairs |-> g.edges[u].pairs[i].second]

Joined(rows) ==
  LET upto[n \in 0..Len(rows)] == IF n = 0 THEN <<>> ELSE upto[n - 1] \o rows[n]
  IN  upto[Len(rows)]

csrCreateDegrees(g, ks) == [i \in DOMAIN ks |-> degree(g, ks[i])]

\* One offset more than there are keys; indices start at 0 in the code.
csrCreateOffsets_BUG(g, ks) ==
  [i \in 1..(Len(ks) + 1) |->
     Len(Joined([j \in 1..(i - 1) |-> RowKeys(g, j - 1)]))]

csrCreateOffsets(g, ks) ==
  [i \in 1..(Len(ks) + 1) |->
     Len(Joined([j \in 1..(i - 1) |-> RowKeys(g, ks[j])]))]

\* ids[v] of a hash map: 0 for a vertex that was not selected.
csrCreateEdgeKeys(g, ks) ==
  LET id(v) == IF \E i \in DOMAIN ks : ks[i] = v
               THEN (CHOOSE i \in DOMAIN ks : ks[i] = v) - 1
               ELSE 0
      all == Joined([j \in DOMAIN ks |-> RowKeys(g, ks[j])])
  IN  [i \in DOMAIN all |-> id(all[i])]

csrCreateEdgeValues(g, ks) == Joined([j \in DOMAIN ks |-> RowValues(g, ks[j])])

Csr(g, ks) ==
  [offsets |-> csrCreateOffsets(g, ks), degrees |-> csrCreateDegrees(g, ks),
   edgeKeys |-> csrCreateEdgeKeys(g, ks), edgeValues |-> csrCreateEdgeValues(g, ks)]

\* DiGraphCsr: the places of the edges of row u (a linear search finds one).
Places(c, u) == (c.offsets[u + 1] + 1)..(c.offsets[u + 1] + c.degrees[u + 1])
csrEdges(c, u) == [i \in 1..c.degrees[u + 1] |-> c.edgeKeys[c.offsets[u + 1] + i]]
csrHasEdge(c, u, v) == \E i \in Places(c, u) : c.edgeKeys[i] = v
csrEdgeValue(c, u, v) ==
  c.edgeValues[CHOOSE i \in Places(c, u) :
                 /\ c.edgeKeys[i] = v
                 /\ \A j \in Places(c, u) : c.edgeKeys[j] = v => i <= j]

-----------------------------------------------------------------------------
(* bfsVisitedForEachU from one vertex: the depth of each vertex visited.    *)
(* A start vertex that the test rejects is not visited, but expanded.       *)

Visit_BUG(s, v, d, ok) ==
  [depth |-> [w \in DOMAIN s.depth \cup {v} |-> IF w = v THEN d ELSE s.depth[w]],
   vs |-> IF v \in DOMAIN s.depth \/ v \notin ok THEN s.vs ELSE Append(s.vs, v)]

Visit(s, v, d, ok) ==
  IF v \in DOMAIN s.depth \/ v \notin ok THEN s
  ELSE [depth |-> [w \in DOMAIN s.depth \cup {v} |-> IF w = v THEN d ELSE s.depth[w]],
        vs |-> Append(s.vs, v)]

\* The loop over the edges of the vertices in `us`.
Level(g, s, d, ok) ==
  LET vs == Joined([i \in DOMAIN s.vs |-> RowKeys(g, s.vs[i])])
      upto[n \in 0..Len(vs)] ==
        IF n = 0 THEN [depth |-> s.depth, vs |-> <<>>]
        ELSE Visit(upto[n - 1], vs[n], d, ok)
  IN  upto[Len(vs)]

bfsDepths(g, u, ok) ==
  LET seed == Visit([depth |-> [v \in {} |-> 0], vs |-> <<>>], u, 0, ok)
      after[d \in 0..span(g)] ==
        IF d = 0 THEN [depth |-> seed.depth, vs |-> <<u>>]
        ELSE Level(g, after[d - 1], d, ok)
  IN  after[span(g)].depth

\* dfsVisitedForEachU: the vertices visited, `vis` given.
RECURSIVE dfsVisit(_, _, _, _)
dfsVisit(g, vis, u, ok) ==
  IF u \in vis \/ u \notin ok THEN vis
  ELSE LET row == RowKeys(g, u)
           upto[n \in 0..Len(row)] ==
             IF n = 0 THEN vis \cup {u}
             ELSE dfsVisit(g, upto[n - 1], row[n], ok)
       IN  upto[Len(row)]
=============================================================================
