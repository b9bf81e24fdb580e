--------------------------- MODULE MCInteractGraph ---------------------------
(* Small instances of InteractGraph for TLC.                                *)
EXTENDS InteractGraph, TLC

Sym == Permutations(Users \ {NoUid}) \cup Permutations(Ids)

\* Every post that can be written over the constants, and every forward and
\* comment, of which a forward with a user may also bear the id of its own post;
\* AddInteraction_ treats a quote as it does a forward.  The named accounts come
\* with the posts and interactions.
NamelessAccount == [user : {NoUid}, data : Data]
AllPosts == [post : Ids, user : Users \cup {BadUser}, data : Data]
ForwardsAndComments ==
  { e \in [post : Ids, itype : {FORWARD, COMMENT}, id : Ids, user : Users] :
      e.id = e.post => e.itype = FORWARD /\ e.user # NoUid }
=============================================================================
