------------------------------- MODULE KeyMap -------------------------------
(***************************************************************************)
(* What a LazyBitset promises its callers (louvain/_bitset.hxx): a map     *)
(* from keys to values with eager insertion and removal.  Calling update() *)
(* changes nothing that can be asked for.                                  *)
(***************************************************************************)
CONSTANTS Key, Value

VARIABLE map   \* from the keys present to their values

Maps == UNION { [K -> Value] : K \in SUBSET Key }

Init == map = [k \in {} |-> 0]

Put(k, v) == map' = [n \in DOMAIN map \cup {k} |-> IF n = k THEN v ELSE map[n]]

Delete(k) == map' = [n \in DOMAIN map \ {k} |-> map[n]]

Empty == map' = [k \in {} |-> 0]

Next ==
  \/ \E k \in Key : Delete(k) \/ \E v \in Value : Put(k, v)
  \/ Empty

Spec == Init /\ [][Next]_map
=============================================================================
