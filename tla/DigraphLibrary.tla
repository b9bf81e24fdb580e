--------------------------- MODULE DigraphLibrary ---------------------------
(***************************************************************************)
(* What louvain/ offers on top of DiGraph: single edits and lazy updates,  *)
(* batch updates (batch.hxx), graphs made from a graph by threads that     *)
(* each add the edges of the rows they own (transpose.hxx, duplicate.hxx,  *)
(* selfLoop.hxx, symmetricize.hxx), CSR arrays (csr.hxx), BFS and DFS.     *)
(* Callers update() a graph before anything reads its edges.               *)
(***************************************************************************)
EXTENDS DigraphReads, SequencesExt

CONSTANTS Index,       \* vertex ids of the callers, 0..n-1
          Pairs,       \* the edges they use
          Weight,
          Keeps,       \* the sets of vertices their test functions accept
          MaxEdges,    \* bound on the edges of the first graph
          MaxCalls,    \* bound on single edits
          MaxBefore,   \* bound on those before a batch, a job or a search
          MaxBatch,    \* bound on the length of a batch
          THREADS,
          ChunkSize    \* consecutive rows of one owner, 1024 in the code

ASSUME LibraryAssumption ==
  /\ Index \subseteq Nat /\ Pairs \subseteq Index \X Index /\ Weight \subseteq Nat \ {0}
  /\ Keeps \subseteq SUBSET Index
  /\ MaxEdges \in Nat /\ MaxCalls \in Nat /\ MaxBefore \in Nat
  /\ MaxBatch \in Nat
  /\ THREADS \in Nat \ {0} /\ ChunkSize \in Nat \ {0}

Threads == 0..(THREADS - 1)

VARIABLES x,       \* the graph of the caller
          calls,   \* single edits so far
          pc,
          dels, inss,  \* a batch: edges to remove, edges to add
          given,   \* history: the graph and the batch before tidying
          job,     \* what graph `a` is made
          a,
          pos      \* per thread, the next addition of its sweep

batchVars == <<dels, inss, given>>
jobVars == <<job, a, pos>>
vars == <<x, calls, pc, batchVars, jobVars>>

Edge(u, v, w) == [source |-> u, target |-> v, weight |-> w]
Reversed(e) == Edge(e.target, e.source, e.weight)
Ends(e) == <<e.source, e.target>>
Edges == { Edge(p[1], p[2], w) : p \in Pairs, w \in Weight }

\* lower_bound over a row with nothing waiting.
hasEdge(g, u, v) == u < span(g) /\ v \in Keys(g.edges[u].pairs)

edgeValue(g, u, v) ==
  LET row == g.edges[u].pairs
  IN  row[CHOOSE i \in DOMAIN row : row[i].first = v /\ IsFirst(row, i)].second

setEdgeValue(g, u, v, w) ==
  IF hasVertex(g, u) /\ hasVertex(g, v) /\ hasEdge(g, u, v)
  THEN LET row == g.edges[u].pairs
           i == CHOOSE i \in DOMAIN row : row[i].first = v /\ IsFirst(row, i)
       IN  [g EXCEPT !.edges[u].pairs[i].second = w]
  ELSE g

\* Nothing waits in any row: update() was called.
Quiet(g) == \A u \in DOMAIN g.edges : g.edges[u].unprocessed = 0

\* No edge leads to an index that is not a vertex.
Closed(g) == \A u \in vertices(g) : Keys(g.edges[u].pairs) \subseteq vertices(g)

\* The rows of the caller's graphs after addEdge calls and update().
Made(V, W) ==
  LET n == 1 + Max(V \cup {0})
      Add(g, e) == addEdge(g, e.source, e.target, e.weight)
      es == SetToSeq({ Edge(p[1], p[2], W[p]) : p \in DOMAIN W })
      g0 == [respan(NoGraph, n) EXCEPT !.exists = [u \in 0..(n - 1) |-> u \in V]]
  IN  CHOOSE g \in updateOmpU(FoldLeft(Add, g0, es)) : TRUE

NoJob == [kind |-> "none", par |-> FALSE, keep |-> {}, all |-> TRUE]

LibraryInit ==
  /\ \E V \in SUBSET Index, P \in { S \in SUBSET Pairs : Cardinality(S) <= MaxEdges } :
       /\ P \subseteq V \X V
       /\ \E W \in [P -> Weight] : x = Made(V, W)
  /\ calls = 0 /\ pc = "edit"
  /\ dels = <<>> /\ inss = <<>> /\ given = [verts |-> {}, weights |-> <<>>, dels |-> {}, inss |-> {}]
  /\ job = NoJob /\ a = NoGraph /\ pos = [t \in Threads |-> 1]

-----------------------------------------------------------------------------
(* Single edits.  Callers add an edge only when the graph does not have it. *)

NoBatch == dels \o inss = <<>>
Ready == pc = "edit" /\ Quiet(x) /\ calls <= MaxBefore

Called(g) ==
  /\ pc = "edit" /\ NoBatch /\ calls < MaxCalls
  /\ x' \in g
  /\ calls' = calls + 1
  /\ UNCHANGED <<pc, batchVars, jobVars>>

Row(u) == IF u < span(x) THEN x.edges[u] ELSE NoRow

Has(u, v) ==
  IF Row(u).unprocessed < 0
  THEN v \in Keys(Settled(Row(u))) \ Keys(Pending(Row(u)))
  ELSE v \in Keys(Row(u).pairs)

AddVertex(u) == Called({addVertex(x, u)})
RemoveVertex(u) == Called({removeVertex(x, u)})
AddEdge(u, v, w) == ~Has(u, v) /\ Called({addEdge(x, u, v, w)})
RemoveEdge(u, v) == Called(removeEdge(x, u, v))
SetEdgeValue(u, v, w) == Quiet(x) /\ Called({setEdgeValue(x, u, v, w)})
Respan(n) == Called({respan(x, n)})
Reserve(n) == Called({respan(x, IF n > span(x) THEN n ELSE span(x))})
Clear == Called({NoGraph})

\* updateEdges: one row, the counts stay as they are.
UpdateRow(u) ==
  /\ u < span(x)
  /\ Called({ [x EXCEPT !.edges[u] = row] : row \in Updates(x.edges[u]) })

Update ==
  /\ pc = "edit" /\ NoBatch
  /\ x' \in updateOmpU(x)
  /\ UNCHANGED <<calls, pc, batchVars, jobVars>>

-----------------------------------------------------------------------------
(* A batch is generated, tidied and applied. *)

\* generateEdgeDeletions draws edges of the graph, retries aside; any number
\* of draws may hit the same edge, `undirected` adds the reverse one.
BothWays(e, undirected) ==
  <<e>> \o (IF undirected THEN <<Reversed(e)>> ELSE <<>>)

GenerateDeletion(undirected) ==
  /\ Ready /\ Len(dels) + Len(inss) < MaxBatch /\ inss = <<>>
  /\ \E i \in DOMAIN EdgeList(x) : dels' = dels \o BothWays(EdgeList(x)[i], undirected)
  /\ UNCHANGED <<x, calls, pc, inss, given, jobVars>>

\* addRandomEdge draws any two indices.
GenerateInsertion(undirected) ==
  /\ Ready /\ Len(dels) + Len(inss) < MaxBatch
  /\ \E e \in Edges : inss' = inss \o BothWays(e, undirected)
  /\ UNCHANGED <<x, calls, pc, dels, given, jobVars>>

filterEdgesByExistence_BUG(s, exists) == s
filterEdgesByExistence(s, exists) ==
  SelectSeq(s, LAMBDA e : hasEdge(x, e.source, e.target) = exists)

\* std::sort: edges with the same ends, but other weights, in any order.
sortEdgesById(s) ==
  LET Le(d, e) == \/ d.source < e.source
                  \/ d.source = e.source /\ d.target <= e.target
  IN  { t \in { [i \in DOMAIN s |-> s[p[i]]] : p \in Shuffles(s) } :
          \A i, j \in DOMAIN s : i < j => Le(t[i], t[j]) }

\* std::unique keeps the first of neighbours with the same ends.
uniqueEdges(s) ==
  At(s, { i \in DOMAIN s : i = 1 \/ Ends(s[i]) # Ends(s[i - 1]) })

Tidied(s, exists) ==
  { uniqueEdges(t) : t \in sortEdgesById(filterEdgesByExistence(s, exists)) }

Weights(g) ==
  LET asked(u, v) ==
        LET row == IF g.edges[u].unprocessed > 0 /\ v \in Keys(Pending(g.edges[u]))
                   THEN Pending(g.edges[u]) ELSE Settled(g.edges[u])
        IN  row[CHOOSE i \in DOMAIN row : row[i].first = v /\ IsFirst(row, i)].second
      targets(u) ==
        IF g.edges[u].unprocessed < 0
        THEN Keys(Settled(g.edges[u])) \ Keys(Pending(g.edges[u]))
        ELSE Keys(g.edges[u].pairs)
  IN  [e \in { p \in (DOMAIN g.edges) \X Index : p[2] \in targets(p[1]) } |->
         asked(e[1], e[2])]

tidyBatchUpdate ==
  /\ pc = "edit" /\ ~NoBatch
  /\ given' = [verts |-> vertices(x), weights |-> Weights(x),
                dels |-> ToSet(dels), inss |-> ToSet(inss)]
  /\ dels' \in Tidied(dels, TRUE)
  /\ inss' \in Tidied(inss, FALSE)
  /\ pc' = "delete"
  /\ UNCHANGED <<x, calls, jobVars>>

\* applyBatchUpdate: one edge of a loop.
ApplyDeletion ==
  /\ pc = "delete" /\ dels # <<>>
  /\ x' \in removeEdge(x, Head(dels).source, Head(dels).target)
  /\ dels' = Tail(dels)
  /\ UNCHANGED <<calls, pc, inss, given, jobVars>>

EndDeletions ==
  /\ pc = "delete" /\ dels = <<>>
  /\ x' \in updateOmpU(x)
  /\ pc' = "insert"
  /\ UNCHANGED <<calls, batchVars, jobVars>>

ApplyInsertion ==
  /\ pc = "insert" /\ inss # <<>>
  /\ x' = addEdge(x, Head(inss).source, Head(inss).target, Head(inss).weight)
  /\ inss' = Tail(inss)
  /\ UNCHANGED <<calls, pc, dels, given, jobVars>>

EndInsertions ==
  /\ pc = "insert" /\ inss = <<>>
  /\ x' \in updateOmpU(x)
  /\ pc' = "applied"
  /\ UNCHANGED <<calls, batchVars, jobVars>>

-----------------------------------------------------------------------------
(* A graph made from a graph. *)

\* Each function starts from a graph and adds edges to it, in an order.

VerticesOf(keep) ==
  [respan(NoGraph, span(x)) EXCEPT !.exists = [u \in DOMAIN x.exists |-> u \in keep]]

ReverseEdges == LET es == EdgeList(x) IN [i \in DOMAIN es |-> Reversed(es[i])]

transposeW == [from |-> VerticesOf(vertices(x)), adds |-> ReverseEdges]

symmetricize == [from |-> x, adds |-> ReverseEdges]

symmetricizeW ==
  LET es == EdgeList(x)
  IN  [from |-> VerticesOf(vertices(x)),
       adds |-> FlattenSeq([i \in DOMAIN es |-> <<es[i], Reversed(es[i])>>])]

\* The test of vertices accepts `keep`; that of edges those between vertices of
\* `keep`, or all edges.
duplicateIfW_BUG(keep, all) ==
  [from |-> VerticesOf(vertices(x) \cap keep),
   adds |-> SelectSeq(EdgeList(x), LAMBDA e : all \/ e.source \in keep)]

duplicateIfW(keep, all) ==
  [from |-> VerticesOf(vertices(x) \cap keep),
   adds |-> SelectSeq(EdgeList(x), LAMBDA e : all \/ {e.source, e.target} \subseteq keep)]

addSelfLoops(keep) ==
  LET loops == SetToSortSeq(vertices(x) \cap keep, <)
  IN  [from |-> x, adds |-> [i \in DOMAIN loops |-> Edge(loops[i], loops[i], Min(Weight))]]

Function(j) ==
  CASE j.kind = "transpose"     -> transposeW
    [] j.kind = "symmetricize"  -> symmetricize
    [] j.kind = "symmetricizeW" -> symmetricizeW
    [] j.kind = "duplicate"     -> duplicateIfW(j.keep, j.all)
    [] j.kind = "selfLoops"     -> addSelfLoops(j.keep)

Jobs ==
  [kind : {"transpose", "symmetricize", "symmetricizeW"}, par : BOOLEAN,
   keep : {{}}, all : {TRUE}]
  \cup [kind : {"selfLoops"}, par : BOOLEAN, keep : Keeps, all : {TRUE}]
  \cup [kind : {"duplicate"}, par : BOOLEAN, keep : Keeps, all : BOOLEAN]

\* Parallel regions are called with ends of edges that are vertices already.
Start(j) ==
  /\ Ready /\ NoBatch
  /\ j.par => Closed(x) /\ (j.kind = "duplicate" => ~j.all)
  /\ job' = j
  /\ a' = Function(j).from
  /\ pc' = "sweep"
  /\ UNCHANGED <<x, calls, batchVars, pos>>

belongsOmp_BUG(u, t) == (u \div ChunkSize) % (THREADS + 1) = t
belongsOmp(u, t) == (u \div ChunkSize) % THREADS = t

\* The threads of the region: the serial variants have one, which owns all.
Team == IF job.par THEN Threads ELSE {0}

Sweep(t) ==
  /\ pc = "sweep" /\ t \in Team /\ pos[t] <= Len(Function(job).adds)
  /\ LET e == Function(job).adds[pos[t]]
     IN  a' = addEdgeIf(a, e.source, e.target, e.weight,
                        job.par => belongsOmp(e.source, t))
  /\ pos' = [pos EXCEPT ![t] = @ + 1]
  /\ UNCHANGED <<x, calls, pc, batchVars, job>>

Join ==
  /\ pc = "sweep" /\ \A t \in Team : pos[t] > Len(Function(job).adds)
  /\ a' \in updateOmpU(a)
  /\ pc' = "made"
  /\ UNCHANGED <<x, calls, batchVars, job, pos>>

LibraryNext ==
  \/ \E u \in Index : AddVertex(u) \/ RemoveVertex(u) \/ UpdateRow(u)
  \/ \E p \in Pairs : RemoveEdge(p[1], p[2])
  \/ \E p \in Pairs, w \in Weight : AddEdge(p[1], p[2], w) \/ SetEdgeValue(p[1], p[2], w)
  \/ \E n \in Index : Respan(n) \/ Reserve(n)
  \/ Clear \/ Update
  \/ \E undirected \in BOOLEAN : GenerateDeletion(undirected) \/ GenerateInsertion(undirected)
  \/ tidyBatchUpdate
  \/ ApplyDeletion \/ EndDeletions \/ ApplyInsertion \/ EndInsertions
  \/ \E j \in Jobs : Start(j)
  \/ \E t \in Threads : Sweep(t)
  \/ Join

-----------------------------------------------------------------------------
(* Properties *)

\* Edits that wait, removals that wait when an edge is added, edges to removed
\* vertices: at every moment the graph is the map that its callers asked for.
M == INSTANCE EdgeMap WITH verts <- vertices(x), weights <- Weights(x)
ImplementsEdgeMap == M!Spec

\* A tidied batch has the effect of sets: whatever was drawn twice, exists or
\* does not, the edges drawn for deletion are gone and those drawn for
\* insertion are there once, unless they existed before.  An edge in both
\* halves of a batch is deleted: insertions are compared with the old graph.
\* An edge that leads to a removed vertex stays, drawn for deletion or not.
BatchMeansSets ==
  pc = "applied" =>
    LET old == DOMAIN given.weights
        gone == { Ends(e) : e \in given.dels } \cap (given.verts \X given.verts)
        added == { Ends(e) : e \in given.inss } \ old
        now == Weights(x)
    IN  /\ DOMAIN now = (old \ gone) \cup added
        /\ \A p \in old \ gone : now[p] = given.weights[p]
        /\ \A p \in added : Edge(p[1], p[2], now[p]) \in given.inss
        /\ x.order = Cardinality(vertices(x))
        /\ x.size = Cardinality(DOMAIN now)

\* The vertices and edges that each function is to produce.
WantedEdges ==
  LET old == { Ends(e) : e \in ToSet(EdgeList(x)) }
      back == { <<p[2], p[1]>> : p \in old }
  IN  CASE job.kind = "transpose" -> back
        [] job.kind \in {"symmetricize", "symmetricizeW"} -> old \cup back
        [] job.kind = "duplicate" ->
             IF job.all THEN old ELSE old \cap (job.keep \X job.keep)
        [] job.kind = "selfLoops" ->
             old \cup { <<v, v>> : v \in vertices(x) \cap job.keep }

\* Each function makes the edges it is named for, none lost between threads;
\* duplicateIf also brings back rejected vertices that have accepted edges.
DerivedEdges ==
  pc = "made" =>
    /\ DOMAIN Weights(a) = WantedEdges
    /\ vertices(a) =
         (IF job.kind = "duplicate" THEN vertices(x) \cap job.keep ELSE vertices(x))
           \cup (IF job.kind = "selfLoops" THEN {}
                 ELSE UNION { {p[1], p[2]} : p \in WantedEdges })
    /\ Quiet(a)

\* The graphs that the function without threads may leave.
Serial ==
  LET Add(g, e) == addEdge(g, e.source, e.target, e.weight)
  IN  updateOmpU(FoldLeft(Add, Function(job).from, Function(job).adds))

\* However the threads interleave, rows and counts are those of the function
\* without threads, and nobody creates a vertex meanwhile: addEdgeIf would
\* write existence flags, or resize the vectors, that the others are using.
ParallelIsSerial ==
  /\ pc = "sweep" /\ job.par => a.exists = Function(job).from.exists
  /\ pc = "made" => a \in Serial

\* CSR arrays of a selection of vertices, closed under edges, hold the edges
\* between them with their weights; degrees and offsets agree.
CsrRepresents ==
  pc = "edit" /\ NoBatch /\ Quiet(x) =>
    \A S \in SUBSET vertices(x) :
      (\A u \in S : Keys(x.edges[u].pairs) \subseteq S) =>
        \A ks \in SetToSeqs(S) :
          LET c == Csr(x, ks)
          IN  \A i, j \in DOMAIN ks :
                /\ csrHasEdge(c, i - 1, j - 1) <=> hasEdge(x, ks[i], ks[j])
                /\ hasEdge(x, ks[i], ks[j]) =>
                     csrEdgeValue(c, i - 1, j - 1) = edgeValue(x, ks[i], ks[j])
                /\ c.offsets[i + 1] = c.offsets[i] + c.degrees[i]

\* BFS and DFS from an accepted vertex visit the same vertices, every accepted
\* neighbour of a visited one among them, and BFS gives each its distance.
\* From a rejected vertex DFS stops, while BFS goes on to its neighbours.
TraversalsAgree ==
  pc = "edit" /\ NoBatch /\ Quiet(x) /\ Closed(x) =>
    \A u \in vertices(x), ok \in SUBSET vertices(x) :
      LET depth == bfsDepths(x, u, ok)
      IN  /\ u \in ok => DOMAIN depth = dfsVisit(x, {}, u, ok)
          /\ u \notin ok => dfsVisit(x, {}, u, ok) = {}
          /\ \A v \in DOMAIN depth \cup {u} :
               \A w \in Keys(x.edges[v].pairs) \cap ok :
                 /\ w \in DOMAIN depth
                 /\ depth[w] <= 1 + (IF v = u THEN 0 ELSE depth[v])
          /\ \A w \in DOMAIN depth \ {u} :
               \E v \in DOMAIN depth \cup {u} :
                 /\ w \in Keys(x.edges[v].pairs)
                 /\ depth[w] = 1 + (IF v = u THEN 0 ELSE depth[v])
=============================================================================
