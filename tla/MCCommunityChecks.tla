------------------------- MODULE MCCommunityChecks -------------------------
(* Three indices; four edges: both directions of one, one way, a loop. *)
EXTENDS CommunityChecks

MCPairs == {<<0, 1>>, <<1, 0>>, <<1, 2>>, <<2, 2>>}
=============================================================================
