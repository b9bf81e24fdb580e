----------------------------- MODULE Coarsening -----------------------------
(***************************************************************************)
(* What the passes of Louvain promise about communities, without indexes,  *)
(* buffers and renumbering: they start with every vertex alone, from then  *)
(* on communities only grow together, and the last ones are the result.    *)
(***************************************************************************)
CONSTANT Vertices

VARIABLES communities,  \* a partition of the vertices
          finished

vars == <<communities, finished>>

IsPartition(P) ==
  /\ UNION P = Vertices /\ {} \notin P
  /\ \A c, d \in P : c = d \/ c \cap d = {}

Init == communities = { {a} : a \in Vertices } /\ finished = FALSE

Merge ==
  /\ ~finished /\ UNCHANGED finished
  /\ IsPartition(communities')
  /\ \A c \in communities : \E d \in communities' : c \subseteq d

Finish == ~finished /\ finished' = TRUE /\ UNCHANGED communities

Next == Merge \/ Finish

Spec == Init /\ [][Next]_vars
=============================================================================
