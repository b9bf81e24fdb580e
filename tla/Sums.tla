-------------------------------- MODULE Sums --------------------------------
(***************************************************************************)
(* Sums over a range of indices, as the scan and reduction loops of        *)
(* louvain/_vector.hxx compute them.  A recursive function over Nat, so    *)
(* that Operators_proofs can say what it computes for every range.         *)
(***************************************************************************)
EXTENDS Integers, FiniteSets

\* The sum of f over i..(n - 1).
Sum(f, i, n) ==
  LET s[j \in Nat] == IF j <= i THEN 0 ELSE s[j - 1] + f[j - 1] IN s[n]

\* The sum of f over a finite set, in the order of an enumeration.
Enumeration(S) ==
  CHOOSE e \in [1..Cardinality(S) -> S] : \A x \in S : \E i \in 1..Cardinality(S) : e[i] = x
SetSum(f, S) ==
  LET e == Enumeration(S) IN Sum([i \in DOMAIN e |-> f[e[i]]], 1, Cardinality(S) + 1)
=============================================================================
