---------------------------- MODULE SortedPairs ----------------------------
(***************************************************************************)
(* What the in-place algorithms of louvain/_algorithm.hxx leave behind, as *)
(* functions of their inputs.  An entry of a LazyBitset is a record of its *)
(* key (first) and value (second).  UnionLast keeps the entry of `x` after *)
(* the one of `y` when a match follows an insertion: that is what the      *)
(* deque loop of set_union_last_inplace does, see InplaceSets.             *)
(***************************************************************************)
EXTENDS Naturals, Sequences, FiniteSets

Keys(s) == { s[i].first : i \in DOMAIN s }

Sorted(s) == \A i, j \in DOMAIN s : i < j => s[i].first <= s[j].first

StrictlySorted(s) == \A i, j \in DOMAIN s : i < j => s[i].first < s[j].first

\* The entries of `s` at the indices I, in their order.
At(s, I) ==
  [n \in 1..Cardinality(I) |->
     s[CHOOSE i \in I : Cardinality({ j \in I : j <= i }) = n]]

\* std::sort may leave entries with equal keys in any order.
Shuffles(s) == { p \in [DOMAIN s -> DOMAIN s] :
                   \A i, j \in DOMAIN s : p[i] = p[j] => i = j }
Sortings(s) ==
  { t \in { [i \in DOMAIN s |-> s[p[i]]] : p \in Shuffles(s) } : Sorted(t) }

\* A merge of sorted parts, the earlier part first among equal keys.
StableSort(s) ==
  LET Before(i, j) == \/ s[i].first < s[j].first
                      \/ s[i].first = s[j].first /\ i <= j
  IN  [n \in DOMAIN s |->
         s[CHOOSE i \in DOMAIN s :
             Cardinality({ j \in DOMAIN s : Before(j, i) }) = n]]

\* unique_last_copy: the last entry of every run of equal keys.
UniqueLast(y) ==
  At(y, { i \in DOMAIN y : i = Len(y) \/ y[i].first # y[i + 1].first })

\* set_difference_inplace: every removal takes at most one entry of its key.
SetDifference(x, y) ==
  At(x, { i \in DOMAIN x :
            Cardinality({ j \in 1..(i - 1) : x[j].first = x[i].first })
              >= Cardinality({ j \in DOMAIN y : y[j].first = x[i].first }) })

\* The first entry of x[i]'s key, the one a matching entry of `y` replaces.
IsFirst(x, i) == \A j \in 1..(i - 1) : x[j].first # x[i].first

\* set_union_last_inplace: up to the first key of `y` that is missing in `x`
\* matching entries are replaced, from there on both parts are merged.
UnionLast(x, y) ==
  LET u        == UniqueLast(y)
      early    == { k \in Keys(x) : \A m \in Keys(u) \ Keys(x) : k < m }
      head     == At(x, { i \in DOMAIN x : x[i].first \in early })
      Late(s)  == At(s, { i \in DOMAIN s : s[i].first \notin early })
      Update(i) == IF IsFirst(head, i) /\ head[i].first \in Keys(u)
                   THEN u[CHOOSE j \in DOMAIN u : u[j].first = head[i].first]
                   ELSE head[i]
  IN  [i \in DOMAIN head |-> Update(i)] \o StableSort(Late(u) \o Late(x))
=============================================================================
