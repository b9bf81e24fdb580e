-------------------------- MODULE CommunityChecks --------------------------
(***************************************************************************)
(* properties.hxx: the threads of communityVerticesOmp list the vertices   *)
(* of the communities they own; those of communitiesDisconnectedOmp then   *)
(* search each community they own from its first index, with visited flags *)
(* that all threads share.                                                 *)
(***************************************************************************)
EXTENDS DigraphLibrary

VARIABLES vcom,    \* community of each index
          lists,   \* per community, the vertices listed
          coms,    \* per community, its size, 0 once it was examined
          vis,     \* indices visited
          flags,   \* communities found disconnected
          u,       \* per thread, the index of its loop
          us,      \* per thread, vertices reached and not expanded
          reached  \* per thread, vertices of its community reached, -1 between searches

searchVars == <<coms, vis, flags, us, reached>>
checkVars == <<vcom, lists, u, searchVars>>
allVars == <<vars, checkVars>>

Span == DOMAIN x.exists

communitySize(c) == Cardinality({ v \in vertices(x) : vcom[v] = c })

Init ==
  /\ LibraryInit
  /\ vcom = <<>> /\ lists = <<>> /\ coms = <<>>
  /\ vis = {} /\ flags = {}
  /\ u = [t \in Threads |-> 0]
  /\ us = [t \in Threads |-> <<>>] /\ reached = [t \in Threads |-> -1]

\* A membership as Louvain returns it: indices that are no vertices keep 0.
StartListing ==
  /\ Ready /\ Closed(x) /\ NoBatch
  /\ vcom' \in { f \in [Span -> Span] : \A v \in Span \ vertices(x) : f[v] = 0 }
  /\ lists' = [c \in Span |-> <<>>]
  /\ pc' = "list"
  /\ UNCHANGED <<x, calls, batchVars, jobVars, u, searchVars>>

\* communityVerticesOmp: every thread looks at every index.
List(t) ==
  /\ pc = "list" /\ u[t] < span(x)
  /\ lists' = IF hasVertex(x, u[t]) /\ belongsOmp(vcom[u[t]], t)
              THEN [lists EXCEPT ![vcom[u[t]]] = Append(@, u[t])]
              ELSE lists
  /\ u' = [u EXCEPT ![t] = @ + 1]
  /\ UNCHANGED <<vars, vcom, searchVars>>

\* The next parallel function: communitySizeOmp counts with atomic increments.
StartSearch ==
  /\ pc = "list" /\ \A t \in Threads : u[t] = span(x)
  /\ coms' = [c \in Span |-> communitySize(c)]
  /\ u' = [t \in Threads |-> 0]
  /\ pc' = "search"
  /\ UNCHANGED <<x, calls, batchVars, jobVars, vcom, lists, vis, flags, us, reached>>

Idle(t) == reached[t] = -1

\* The loop does not ask whether the index is a vertex.
Skip(t) ==
  /\ pc = "search" /\ Idle(t) /\ u[t] < span(x)
  /\ coms[vcom[u[t]]] = 0 \/ ~belongsOmp(vcom[u[t]], t)
  /\ u' = [u EXCEPT ![t] = @ + 1]
  /\ UNCHANGED <<vars, vcom, lists, searchVars>>

Seed(t) ==
  /\ pc = "search" /\ Idle(t) /\ u[t] < span(x)
  /\ coms[vcom[u[t]]] # 0 /\ belongsOmp(vcom[u[t]], t)
  /\ us' = [us EXCEPT ![t] = <<u[t]>>]
  /\ reached' = [reached EXCEPT ![t] = IF u[t] \in vis THEN 0 ELSE 1]
  /\ vis' = vis \cup {u[t]}
  /\ UNCHANGED <<vars, vcom, lists, u, coms, flags>>

\* What the edges of one vertex of the frontier lead to for the first time.
Fresh_BUG(t) == Keys(x.edges[Head(us[t])].pairs) \ vis
Fresh(t) ==
  { v \in Keys(x.edges[Head(us[t])].pairs) \ vis : vcom[v] = vcom[u[t]] }

Expand(t) ==
  /\ pc = "search" /\ us[t] # <<>>
  /\ us' = [us EXCEPT ![t] = Tail(@) \o SetToSortSeq(Fresh(t), <)]
  /\ vis' = vis \cup Fresh(t)
  /\ reached' = [reached EXCEPT ![t] = @ + Cardinality(Fresh(t))]
  /\ UNCHANGED <<vars, vcom, lists, u, coms, flags>>

Finish(t) ==
  /\ pc = "search" /\ ~Idle(t) /\ us[t] = <<>>
  /\ flags' = IF reached[t] < coms[vcom[u[t]]] THEN flags \cup {vcom[u[t]]} ELSE flags
  /\ coms' = [coms EXCEPT ![vcom[u[t]]] = 0]
  /\ reached' = [reached EXCEPT ![t] = -1]
  /\ u' = [u EXCEPT ![t] = @ + 1]
  /\ UNCHANGED <<vars, vcom, lists, vis, us>>

EndSearch ==
  /\ pc = "search" /\ \A t \in Threads : Idle(t) /\ u[t] = span(x)
  /\ pc' = "searched"
  /\ UNCHANGED <<x, calls, batchVars, jobVars, checkVars>>

ChecksNext ==
  \/ StartListing \/ StartSearch \/ EndSearch
  \/ \E t \in Threads : List(t) \/ Skip(t) \/ Seed(t) \/ Expand(t) \/ Finish(t)

Next ==
  \/ LibraryNext /\ UNCHANGED checkVars
  \/ ChecksNext

Spec == Init /\ [][Next]_allVars

-----------------------------------------------------------------------------
(* Properties *)

Members(c) == { v \in vertices(x) : vcom[v] = c }

\* The vertices of c that paths inside c reach from its first vertex.
Reached(c) ==
  LET first == Min(Members(c))
  IN  DOMAIN bfsDepths(x, first, Members(c))

\* No push_back of the first function is lost or doubled: when its threads are
\* through, every vertex is in the list of its community, in ascending order.
\* A community is flagged exactly if some vertex cannot be reached inside it
\* from its first one, although all threads share one vector of flags.
\* Except community 0 behind a removed vertex: the search starts at the index
\* of the removed one, where it reaches nothing.
DisconnectedFlags ==
  /\ pc = "search" => \A c \in Span : lists[c] = SetToSortSeq(Members(c), <)
  /\ pc = "searched" =>
       \A c \in Span :
         (c = 0 => \A h \in Span \ vertices(x) : \E v \in Members(c) : v < h)
           => (c \in flags <=> Members(c) # {} /\ Reached(c) # Members(c))
=============================================================================
