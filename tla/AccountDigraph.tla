--------------------------- MODULE AccountDigraph ---------------------------
(***************************************************************************)
(* How LouvainCommunity (include/louvain.hpp) turns the account graph of   *)
(* the store into the digraph that Louvain runs on: a vertex per account,  *)
(* the edges of each account added by the thread that has the account,     *)
(* updateOmpU, then symmetricizeOmp, in which every thread sweeps all      *)
(* edges and adds the reverse ones of the vertices it owns.                *)
(***************************************************************************)
EXTENDS Digraph

CONSTANTS num_accounts,
          MaxWeight,   \* bound on the interactions an edge carries
          MaxEdges,    \* bound on the edges of the account graph
          THREADS,     \* OpenMP threads
          ChunkSize    \* consecutive vertices of one owner, 1024 in the code

ASSUME DigraphAssumption ==
  /\ num_accounts \in Nat \ {0}
  /\ MaxWeight \in Nat \ {0} /\ MaxEdges \in Nat
  /\ THREADS \in Nat \ {0} /\ ChunkSize \in Nat \ {0}

Accounts == 0..(num_accounts - 1)
Threads == 0..(THREADS - 1)

VARIABLES account_graph,  \* <<source, target>> -> number of interactions
          x,              \* the digraph of LouvainCommunity
          todo,           \* per account, the targets its thread has yet to add
          a,              \* the symmetric digraph under construction
          pos,            \* per thread, the next edge of x in its sweep
          pc

vars == <<account_graph, x, todo, a, pos, pc>>

-----------------------------------------------------------------------------
Init ==
  /\ \E E \in { S \in SUBSET (Accounts \X Accounts) : Cardinality(S) <= MaxEdges } :
       account_graph \in [E -> 1..MaxWeight]
  /\ x = NoGraph
  /\ todo = [u \in Accounts |-> { v \in Accounts : <<u, v>> \in DOMAIN account_graph }]
  /\ a = NoGraph
  /\ pos = [t \in Threads |-> 1]
  /\ pc = "vertices"

\* addVerticesU, with the early return of addVerticesIfU.
addVerticesU_BUG ==
  /\ pc = "vertices"
  /\ x' = IF num_accounts <= 1 THEN x ELSE respan(x, num_accounts)
  /\ pc' = "load"
  /\ UNCHANGED <<account_graph, todo, a, pos>>

addVerticesU ==
  /\ pc = "vertices"
  /\ x' = IF num_accounts <= 1 THEN x
          ELSE [respan(x, num_accounts) EXCEPT !.exists = [u \in Accounts |-> TRUE]]
  /\ pc' = "load"
  /\ UNCHANGED <<account_graph, todo, a, pos>>

\* The parallel for_each: one edge of one source, in the order of a hash map.
LoadEdge(u) ==
  /\ pc = "load"
  /\ \E v \in todo[u] :
       /\ x' = addEdge(x, u, v, account_graph[<<u, v>>])
       /\ todo' = [todo EXCEPT ![u] = @ \ {v}]
  /\ UNCHANGED <<account_graph, a, pos, pc>>

\* The loop has ended: updateOmpU(x), and the copy that symmetricizeOmp makes.
Settle_BUG ==
  /\ pc = "load" /\ \A u \in Accounts : todo[u] = {}
  /\ a' = x
  /\ pc' = "reverse"
  /\ UNCHANGED <<account_graph, x, todo, pos>>

Settle ==
  /\ pc = "load" /\ \A u \in Accounts : todo[u] = {}
  /\ x' \in updateOmpU(x)
  /\ a' = x'
  /\ pc' = "reverse"
  /\ UNCHANGED <<account_graph, todo, pos>>

belongsOmp(u, t) == (u \div ChunkSize) % THREADS = t

ReverseEdge(t) ==
  /\ pc = "reverse" /\ pos[t] <= Len(EdgeList(x))
  /\ LET e == EdgeList(x)[pos[t]]
     IN  a' = addEdgeIf(a, e.target, e.source, e.weight, belongsOmp(e.target, t))
  /\ pos' = [pos EXCEPT ![t] = @ + 1]
  /\ UNCHANGED <<account_graph, x, todo, pc>>

\* All threads are through: updateOmpU(a), and a replaces x.
Join ==
  /\ pc = "reverse" /\ \A t \in Threads : pos[t] > Len(EdgeList(x))
  /\ a' \in updateOmpU(a)
  /\ x' = a'
  /\ pc' = "done"
  /\ UNCHANGED <<account_graph, todo, pos>>

Next ==
  \/ addVerticesU
  \/ \E u \in Accounts : LoadEdge(u)
  \/ Settle
  \/ \E t \in Threads : ReverseEdge(t)
  \/ Join

Spec == Init /\ [][Next]_vars

-----------------------------------------------------------------------------
(* Properties *)

\* While several threads add edges nobody touches the existence flags or
\* resizes the vectors that all of them index (addEdgeIf calls addVertex on
\* both ends without a lock); one account has one thread.
ParallelRegionsKeepVertices ==
  [][pc = pc' /\ num_accounts > 1 =>
       /\ DOMAIN x'.exists = DOMAIN x.exists /\ x'.exists = x.exists
       /\ DOMAIN a'.exists = DOMAIN a.exists /\ a'.exists = a.exists]_vars

\* The rows that symmetricizeOmp leaves are those a single thread would leave:
\* the edges of the account united with its reverse edges, in ascending order.
\* Where edges go both ways the later one, the reverse, wins in either row: the
\* two weights are swapped and not made equal.
SortedRow(E, weight(_)) ==
  At([i \in 1..num_accounts |->
        [first |-> i - 1, second |-> IF i - 1 \in E THEN weight(i - 1) ELSE 0]],
     { v + 1 : v \in E })
OutRow(u) ==
  LET w(v) == account_graph[<<u, v>>]
  IN  SortedRow({ v \in Accounts : <<u, v>> \in DOMAIN account_graph }, w)
InRow(u) ==
  LET w(v) == account_graph[<<v, u>>]
  IN  SortedRow({ v \in Accounts : <<v, u>> \in DOMAIN account_graph }, w)
ScheduleIndependent ==
  pc = "done" =>
    \A u \in DOMAIN x.edges : x.edges[u] =
      [pairs |-> UnionLast(OutRow(u), InRow(u)), unprocessed |-> 0]

\* addVerticesU is to "add a range of vertices": every account is a vertex.
\* Not an invariant for num_accounts = 1, see addVerticesU.
EveryAccountIsVertex == pc = "done" => vertices(x) = Accounts
=============================================================================
