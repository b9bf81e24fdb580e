-------------------------- MODULE MCLouvainPasses --------------------------
(***************************************************************************)
(* Four vertices, so that three passes can aggregate: 4, 3, 2, 1.  A path  *)
(* with a loop and weights that differ by direction, and no edges.         *)
(***************************************************************************)
EXTENDS LouvainPasses

MCInputs ==
  { [e \in {<<0, 1>>, <<1, 0>>, <<1, 2>>, <<2, 1>>, <<2, 3>>, <<3, 2>>, <<3, 3>>} |->
       IF e[1] <= e[2] THEN 1 + e[1] ELSE 1],
    <<>> }
=============================================================================
