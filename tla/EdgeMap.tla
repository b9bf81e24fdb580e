------------------------------ MODULE EdgeMap ------------------------------
(***************************************************************************)
(* What DiGraph promises its callers: a set of vertices and a weight for   *)
(* each edge.  Removing a vertex takes its own edges along, never those    *)
(* that lead to it; those cannot be removed until the vertex is back.      *)
(***************************************************************************)
EXTENDS Naturals, TLC

CONSTANTS Index, Weight

VARIABLES verts, weights   \* weights: <<source, target>> -> weight

Without(gone) == [e \in DOMAIN weights \ gone |-> weights[e]]

From(sources) == { e \in DOMAIN weights : e[1] \in sources }

Init ==
  /\ verts \in SUBSET Index
  /\ \E E \in SUBSET (verts \X verts) : weights \in [E -> Weight]

AddVertex(u) == verts' = verts \cup {u} /\ UNCHANGED weights

AddEdge(u, v, w) ==
  /\ verts' = verts \cup {u, v}
  /\ weights' = (<<u, v>> :> w) @@ weights

RemoveEdge(u, v) ==
  /\ {u, v} \subseteq verts
  /\ weights' = Without({<<u, v>>})
  /\ UNCHANGED verts

SetEdge(u, v, w) ==
  /\ {u, v} \subseteq verts /\ <<u, v>> \in DOMAIN weights
  /\ weights' = [weights EXCEPT ![<<u, v>>] = w]
  /\ UNCHANGED verts

RemoveVertices(gone) ==
  /\ gone # {}
  /\ verts' = verts \ gone
  /\ weights' = Without(From(gone))

Next ==
  \/ \E u \in Index : AddVertex(u)
  \/ \E u, v \in Index, w \in Weight : AddEdge(u, v, w) \/ SetEdge(u, v, w)
  \/ \E u, v \in Index : RemoveEdge(u, v)
  \/ \E gone \in SUBSET verts : RemoveVertices(gone)

Spec == Init /\ [][Next]_<<verts, weights>>
=============================================================================
