-------------------------- MODULE Operators_proofs --------------------------
(***************************************************************************)
(* Lemmas on the operators that several models are built from: what Sum    *)
(* computes, and that At lists a set in ascending order.  The provers      *)
(* cannot instantiate an induction theorem with an operator; the least     *)
(* element of a set of naturals, which needs none, takes its place.        *)
(***************************************************************************)
EXTENDS Sums, SortedPairs, FiniteSetTheorems, TLAPS

LEMMA LeastNat ==
  ASSUME NEW T, T \subseteq Nat, T # {}
  PROVE  \E x \in T : \A y \in T : x <= y
<1>1. \E x \in T : \A y \in T : ~ (<<y, x>> \in OpToRel(<, Nat))
  BY NatLessThanWellFounded, WFMin
<1>2. \E x \in T : \A y \in T : ~ (y < x)
  BY <1>1 DEF OpToRel
<1>3. \A x \in T, y \in T : ~(y < x) => x <= y
  OBVIOUS
<1> QED BY ONLY <1>2, <1>3

\* Induction from i upwards, for a set in the place of the predicate.
LEMMA Upward ==
  ASSUME NEW i \in Nat, NEW T, i \in T,
         \A n \in Nat : i <= n /\ n \in T => n + 1 \in T
  PROVE  \A n \in Nat : i <= n => n \in T
<1> SUFFICES ASSUME NEW n \in Nat, i <= n, n \notin T PROVE FALSE
  OBVIOUS
<1> DEFINE Out == { m \in Nat : i <= m /\ m \notin T }
<1>1. PICK m \in Out : \A y \in Out : m <= y
  BY LeastNat
<1>2. m # i /\ m - 1 \in Nat /\ i <= m - 1 /\ m - 1 \in T
  BY <1>1
<1> QED BY <1>1, <1>2

-----------------------------------------------------------------------------
(* The recursive function of the definition exists.                        *)

\* s is the function up to m.
IsPartial(s, f, i, m) ==
  s = [j \in 0..m |-> IF j <= i THEN 0 ELSE s[j - 1] + f[j - 1]]

IsTotal(s, f, i) ==
  s = [j \in Nat |-> IF j <= i THEN 0 ELSE s[j - 1] + f[j - 1]]

LEMMA PartialExists ==
  ASSUME NEW f, NEW i \in Nat, NEW m \in Nat
  PROVE  \E s : IsPartial(s, f, i, m)
<1> DEFINE T == { n \in Nat : \E s : IsPartial(s, f, i, n) }
<1>1. 0 \in T
  <2>1. IsPartial([j \in 0..0 |-> 0], f, i, 0)
    BY DEF IsPartial
  <2> QED BY <2>1
<1>2. ASSUME NEW n \in Nat, n \in T PROVE n + 1 \in T
  <2>1. PICK s : IsPartial(s, f, i, n)
    BY <1>2
  <2> DEFINE e == IF n + 1 <= i THEN 0 ELSE s[n] + f[n]
             r == [j \in 0..(n + 1) |-> IF j = n + 1 THEN e ELSE s[j]]
  <2>2. \A j \in 0..n : s[j] = IF j <= i THEN 0 ELSE s[j - 1] + f[j - 1]
    BY <2>1 DEF IsPartial
  <2>3. ASSUME NEW j \in 0..(n + 1)
        PROVE  r[j] = IF j <= i THEN 0 ELSE r[j - 1] + f[j - 1]
    <3>1. CASE j = n + 1
      BY <3>1
    <3>2. CASE j \in 0..n
      <4>1. r[j] = s[j] /\ (~(j <= i) => r[j - 1] = s[j - 1])
        BY <3>2
      <4> QED BY <2>2, <3>2, <4>1
    <3> QED BY <3>1, <3>2
  <2>4. r = [j \in 0..(n + 1) |-> IF j <= i THEN 0 ELSE r[j - 1] + f[j - 1]]
    BY <2>3
  <2>5. IsPartial(r, f, i, n + 1)
    BY <2>4 DEF IsPartial
  <2> QED BY <2>5
<1> HIDE DEF T
<1>3. m \in T
  BY <1>1, <1>2, Upward
<1> QED BY <1>3 DEF T

LEMMA PartialsAgree ==
  ASSUME NEW f, NEW i \in Nat, NEW m \in Nat, NEW n \in Nat, m <= n,
         NEW s, IsPartial(s, f, i, m), NEW r, IsPartial(r, f, i, n)
  PROVE  s[m] = r[m]
<1> DEFINE T == { j \in Nat : j <= m => s[j] = r[j] }
<1>1. \A j \in 0..m : s[j] = IF j <= i THEN 0 ELSE s[j - 1] + f[j - 1]
  BY DEF IsPartial
<1>2. \A j \in 0..n : r[j] = IF j <= i THEN 0 ELSE r[j - 1] + f[j - 1]
  BY DEF IsPartial
<1>3. 0 \in T
  BY <1>1, <1>2
<1>4. ASSUME NEW j \in Nat, j \in T PROVE j + 1 \in T
  <2> SUFFICES ASSUME j + 1 <= m PROVE s[j + 1] = r[j + 1]
    OBVIOUS
  <2>1. s[j] = r[j] /\ j + 1 \in 0..m /\ j + 1 \in 0..n /\ (j + 1) - 1 = j
    BY <1>4
  <2> QED BY <1>1, <1>2, <2>1
<1> HIDE DEF T
<1>5. m \in T
  BY <1>3, <1>4, Upward
<1> QED BY <1>5 DEF T

LEMMA TotalExists ==
  ASSUME NEW f, NEW i \in Nat
  PROVE  \E s : IsTotal(s, f, i)
<1> DEFINE part(m) == CHOOSE s : IsPartial(s, f, i, m)
           t == [j \in Nat |-> part(j)[j]]
<1>1. \A m \in Nat : IsPartial(part(m), f, i, m)
  BY PartialExists
<1> HIDE DEF part
<1>2. ASSUME NEW j \in Nat
      PROVE  t[j] = IF j <= i THEN 0 ELSE t[j - 1] + f[j - 1]
  <2> DEFINE r == part(j)
  <2>1. r[j] = IF j <= i THEN 0 ELSE r[j - 1] + f[j - 1]
    <3>1. IsPartial(r, f, i, j)
      BY <1>1
    <3> HIDE DEF r
    <3> QED BY <3>1 DEF IsPartial
  <2>2. ASSUME ~(j <= i) PROVE part(j - 1)[j - 1] = part(j)[j - 1]
    <3>1. j - 1 \in Nat /\ j - 1 <= j
      BY <2>2
    <3> QED BY <1>1, <3>1, PartialsAgree
  <2>3. t[j] = part(j)[j] /\ (~(j <= i) => t[j - 1] = part(j - 1)[j - 1])
    OBVIOUS
  <2> HIDE DEF t
  <2> QED BY <2>1, <2>2, <2>3
<1>3. t = [j \in Nat |-> IF j <= i THEN 0 ELSE t[j - 1] + f[j - 1]]
  BY <1>2
<1>4. IsTotal(t, f, i)
  BY <1>3 DEF IsTotal
<1> QED BY <1>4

-----------------------------------------------------------------------------
(* What Sum returns: nothing for an empty range, and one more element at a *)
(* time.  Everything below follows from these two by induction.            *)

LEMMA SumIsTotal ==
  ASSUME NEW f, NEW i \in Nat
  PROVE  \E s : IsTotal(s, f, i) /\ \A n : Sum(f, i, n) = s[n]
<1> DEFINE s == CHOOSE r : IsTotal(r, f, i)
<1>1. IsTotal(s, f, i)
  BY TotalExists
<1>2. s = CHOOSE r : r = [j \in Nat |-> IF j <= i THEN 0 ELSE r[j - 1] + f[j - 1]]
  BY DEF IsTotal
<1>3. ASSUME NEW n PROVE Sum(f, i, n) = s[n]
  BY Zenon, <1>2 DEF Sum
<1> QED BY <1>1, <1>3

LEMMA SumNone ==
  ASSUME NEW f, NEW i \in Nat, NEW n \in Nat, n <= i
  PROVE  Sum(f, i, n) = 0
<1>1. PICK s : IsTotal(s, f, i) /\ \A m : Sum(f, i, m) = s[m]
  BY SumIsTotal
<1>2. s[n] = 0
  BY <1>1 DEF IsTotal
<1> QED BY <1>1, <1>2

LEMMA SumNext ==
  ASSUME NEW f, NEW i \in Nat, NEW n \in Nat, i <= n
  PROVE  Sum(f, i, n + 1) = Sum(f, i, n) + f[n]
<1>1. PICK s : IsTotal(s, f, i) /\ \A m : Sum(f, i, m) = s[m]
  BY SumIsTotal
<1>2. s[n + 1] = s[n] + f[n]
  <2>1. n + 1 \in Nat /\ ~(n + 1 <= i) /\ (n + 1) - 1 = n
    OBVIOUS
  <2> QED BY <1>1, <2>1 DEF IsTotal
<1>3. Sum(f, i, n + 1) = s[n + 1] /\ Sum(f, i, n) = s[n]
  BY <1>1
<1> QED BY <1>2, <1>3

LEMMA SumInt ==
  ASSUME NEW f, NEW i \in Nat, NEW n \in Nat, \A j \in i..(n - 1) : f[j] \in Int
  PROVE  Sum(f, i, n) \in Int
<1> DEFINE T == { m \in Nat : m <= n => Sum(f, i, m) \in Int }
<1>1. CASE n <= i
  BY <1>1, SumNone
<1>2. i \in T
  BY SumNone
<1>3. ASSUME NEW m \in Nat, i <= m, m \in T PROVE m + 1 \in T
  <2> SUFFICES ASSUME m + 1 <= n PROVE Sum(f, i, m + 1) \in Int
    OBVIOUS
  <2>1. Sum(f, i, m) \in Int /\ f[m] \in Int
    BY <1>3
  <2> QED BY <1>3, <2>1, SumNext
<1> HIDE DEF T
<1>4. i <= n => n \in T
  BY <1>2, <1>3, Upward
<1> QED BY <1>1, <1>4 DEF T

LEMMA SumNat ==
  ASSUME NEW f, NEW i \in Nat, NEW n \in Nat, \A j \in i..(n - 1) : f[j] \in Nat
  PROVE  Sum(f, i, n) \in Nat
<1> DEFINE T == { m \in Nat : m <= n => Sum(f, i, m) \in Nat }
<1>1. CASE n <= i
  BY <1>1, SumNone
<1>2. i \in T
  BY SumNone
<1>3. ASSUME NEW m \in Nat, i <= m, m \in T PROVE m + 1 \in T
  <2> SUFFICES ASSUME m + 1 <= n PROVE Sum(f, i, m + 1) \in Nat
    OBVIOUS
  <2>1. Sum(f, i, m) \in Nat /\ f[m] \in Nat
    BY <1>3
  <2> QED BY <1>3, <2>1, SumNext
<1> HIDE DEF T
<1>4. i <= n => n \in T
  BY <1>2, <1>3, Upward
<1> QED BY <1>1, <1>4 DEF T

LEMMA SumEqual ==
  ASSUME NEW f, NEW g, NEW i \in Nat, NEW n \in Nat, \A j \in i..(n - 1) : f[j] = g[j]
  PROVE  Sum(f, i, n) = Sum(g, i, n)
<1> DEFINE T == { m \in Nat : m <= n => Sum(f, i, m) = Sum(g, i, m) }
<1>1. CASE n <= i
  BY <1>1, SumNone
<1>2. i \in T
  BY SumNone
<1>3. ASSUME NEW m \in Nat, i <= m, m \in T PROVE m + 1 \in T
  <2> SUFFICES ASSUME m + 1 <= n PROVE Sum(f, i, m + 1) = Sum(g, i, m + 1)
    OBVIOUS
  <2>1. Sum(f, i, m) = Sum(g, i, m) /\ f[m] = g[m]
    BY <1>3
  <2>2. Sum(f, i, m + 1) = Sum(f, i, m) + f[m]
    BY <1>3, SumNext
  <2>3. Sum(g, i, m + 1) = Sum(g, i, m) + g[m]
    BY <1>3, SumNext
  <2> QED BY <2>1, <2>2, <2>3
<1> HIDE DEF T
<1>4. i <= n => n \in T
  BY <1>2, <1>3, Upward
<1> QED BY <1>1, <1>4 DEF T

LEMMA SumZero ==
  ASSUME NEW f, NEW i \in Nat, NEW n \in Nat, \A j \in i..(n - 1) : f[j] = 0
  PROVE  Sum(f, i, n) = 0
<1> DEFINE T == { m \in Nat : m <= n => Sum(f, i, m) = 0 }
<1>1. CASE n <= i
  BY <1>1, SumNone
<1>2. i \in T
  BY SumNone
<1>3. ASSUME NEW m \in Nat, i <= m, m \in T PROVE m + 1 \in T
  <2> SUFFICES ASSUME m + 1 <= n PROVE Sum(f, i, m + 1) = 0
    OBVIOUS
  <2>1. Sum(f, i, m) = 0 /\ f[m] = 0
    BY <1>3
  <2> QED BY <1>3, <2>1, SumNext
<1> HIDE DEF T
<1>4. i <= n => n \in T
  BY <1>2, <1>3, Upward
<1> QED BY <1>1, <1>4 DEF T

\* An element that changes changes the sum by as much.
LEMMA SumChanged ==
  ASSUME NEW f, NEW g, NEW i \in Nat, NEW n \in Nat, NEW k \in i..(n - 1),
         \A j \in i..(n - 1) : f[j] \in Int /\ g[j] \in Int,
         \A j \in i..(n - 1) : j # k => f[j] = g[j]
  PROVE  Sum(g, i, n) = Sum(f, i, n) + (g[k] - f[k])
<1> DEFINE T == { m \in Nat : m <= n => Sum(g, i, m) = Sum(f, i, m) + (g[k] - f[k]) }
<1>1. \A m \in Nat : m <= n => Sum(f, i, m) \in Int /\ Sum(g, i, m) \in Int
  <2> SUFFICES ASSUME NEW m \in Nat, m <= n
               PROVE  Sum(f, i, m) \in Int /\ Sum(g, i, m) \in Int
    OBVIOUS
  <2>1. \A j \in i..(m - 1) : f[j] \in Int /\ g[j] \in Int
    OBVIOUS
  <2> QED BY <2>1, SumInt
<1>2. k + 1 \in T
  <2>1. Sum(f, i, k) = Sum(g, i, k)
    BY SumEqual
  <2>2. Sum(f, i, k + 1) = Sum(f, i, k) + f[k]
    BY SumNext
  <2>3. Sum(g, i, k + 1) = Sum(g, i, k) + g[k]
    BY SumNext
  <2> QED BY <1>1, <2>1, <2>2, <2>3
<1>3. ASSUME NEW m \in Nat, k + 1 <= m, m \in T PROVE m + 1 \in T
  <2> SUFFICES ASSUME m + 1 <= n
               PROVE  Sum(g, i, m + 1) = Sum(f, i, m + 1) + (g[k] - f[k])
    OBVIOUS
  <2>1. f[m] = g[m] /\ f[m] \in Int /\ f[k] \in Int /\ g[k] \in Int
    BY <1>3
  <2>2. Sum(f, i, m + 1) = Sum(f, i, m) + f[m]
    BY <1>3, SumNext
  <2>3. Sum(g, i, m + 1) = Sum(g, i, m) + g[m]
    BY <1>3, SumNext
  <2>4. Sum(g, i, m) = Sum(f, i, m) + (g[k] - f[k])
    BY <1>3
  <2> QED BY <1>1, <2>1, <2>2, <2>3, <2>4
<1> HIDE DEF T
<1>4. n \in T
  BY <1>2, <1>3, Upward
<1> QED BY <1>4 DEF T

\* Sums term by term.
TermByTerm(h, f, g, i, n) ==
  \A j \in i..(n - 1) : f[j] \in Int /\ g[j] \in Int /\ h[j] = f[j] + g[j]

LEMMA SumAdded ==
  ASSUME NEW f, NEW g, NEW h, NEW i \in Nat, NEW n \in Nat,
         TermByTerm(h, f, g, i, n)
  PROVE  Sum(h, i, n) = Sum(f, i, n) + Sum(g, i, n)
<1> DEFINE T == { m \in Nat : m <= n => Sum(h, i, m) = Sum(f, i, m) + Sum(g, i, m) }
<1>0. \A j \in i..(n - 1) : f[j] \in Int /\ g[j] \in Int /\ h[j] = f[j] + g[j]
  BY DEF TermByTerm
<1>1. \A m \in Nat : m <= n => Sum(f, i, m) \in Int /\ Sum(g, i, m) \in Int
  <2> SUFFICES ASSUME NEW m \in Nat, m <= n
               PROVE  Sum(f, i, m) \in Int /\ Sum(g, i, m) \in Int
    OBVIOUS
  <2>1. \A j \in i..(m - 1) : f[j] \in Int /\ g[j] \in Int
    BY <1>0
  <2> QED BY <2>1, SumInt
<1>2. CASE n <= i
  BY <1>2, SumNone
<1>3. i \in T
  BY SumNone
<1>4. ASSUME NEW m \in Nat, i <= m, m \in T PROVE m + 1 \in T
  <2> SUFFICES ASSUME m + 1 <= n
               PROVE  Sum(h, i, m + 1) = Sum(f, i, m + 1) + Sum(g, i, m + 1)
    OBVIOUS
  <2>1. h[m] = f[m] + g[m] /\ f[m] \in Int /\ g[m] \in Int
    BY <1>0, <1>4
  <2>2. Sum(f, i, m + 1) = Sum(f, i, m) + f[m]
    BY <1>4, SumNext
  <2>3. Sum(g, i, m + 1) = Sum(g, i, m) + g[m]
    BY <1>4, SumNext
  <2>4. Sum(h, i, m + 1) = Sum(h, i, m) + h[m]
    BY <1>4, SumNext
  <2>5. Sum(h, i, m) = Sum(f, i, m) + Sum(g, i, m)
    BY <1>4
  <2> QED BY <1>1, <2>1, <2>2, <2>3, <2>4, <2>5
<1> HIDE DEF T
<1>5. i <= n => n \in T
  BY <1>3, <1>4, Upward
<1> QED BY <1>2, <1>5 DEF T

\* Adjacent ranges.
LEMMA SumSplit ==
  ASSUME NEW f, NEW i \in Nat, NEW k \in Nat, NEW n \in Nat, i <= k, k <= n,
         \A j \in i..(n - 1) : f[j] \in Int
  PROVE  Sum(f, i, n) = Sum(f, i, k) + Sum(f, k, n)
<1> DEFINE T == { m \in Nat : m <= n => Sum(f, i, m) = Sum(f, i, k) + Sum(f, k, m) }
<1>1. \A m \in Nat : m <= n => Sum(f, i, m) \in Int /\ Sum(f, k, m) \in Int
  <2> SUFFICES ASSUME NEW m \in Nat, m <= n
               PROVE  Sum(f, i, m) \in Int /\ Sum(f, k, m) \in Int
    OBVIOUS
  <2>1. \A j \in i..(m - 1) : f[j] \in Int
    OBVIOUS
  <2>2. \A j \in k..(m - 1) : f[j] \in Int
    OBVIOUS
  <2> QED BY <2>1, <2>2, SumInt
<1>2. k \in T
  <2>1. Sum(f, k, k) = 0
    BY SumNone
  <2> QED BY <1>1, <2>1
<1>3. ASSUME NEW m \in Nat, k <= m, m \in T PROVE m + 1 \in T
  <2> SUFFICES ASSUME m + 1 <= n
               PROVE  Sum(f, i, m + 1) = Sum(f, i, k) + Sum(f, k, m + 1)
    OBVIOUS
  <2>1. Sum(f, i, m + 1) = Sum(f, i, m) + f[m]
    BY <1>3, SumNext
  <2>2. Sum(f, k, m + 1) = Sum(f, k, m) + f[m]
    BY <1>3, SumNext
  <2>3. Sum(f, i, m) = Sum(f, i, k) + Sum(f, k, m) /\ f[m] \in Int
    BY <1>3
  <2> QED BY <1>1, <2>1, <2>2, <2>3
<1> HIDE DEF T
<1>4. n \in T
  BY <1>2, <1>3, Upward
<1> QED BY <1>4 DEF T

\* A sum of naturals is 0 only if every element is.
LEMMA SumPositive ==
  ASSUME NEW f, NEW i \in Nat, NEW n \in Nat, \A j \in i..(n - 1) : f[j] \in Nat,
         NEW k \in i..(n - 1)
  PROVE  Sum(f, i, n) >= f[k]
<1>1. Sum(f, i, n) = Sum(f, i, k) + Sum(f, k, n)
  BY SumSplit
<1>2. Sum(f, k, n) = Sum(f, k, k + 1) + Sum(f, k + 1, n)
  <2>1. \A j \in k..(n - 1) : f[j] \in Int
    OBVIOUS
  <2> QED BY <2>1, SumSplit
<1>3. Sum(f, k, k + 1) = f[k]
  <2>1. Sum(f, k, k) = 0
    BY SumNone
  <2>2. Sum(f, k, k + 1) = Sum(f, k, k) + f[k]
    BY SumNext
  <2> QED BY <2>1, <2>2
<1>4. Sum(f, i, k) \in Nat /\ Sum(f, k + 1, n) \in Nat
  <2>1. \A j \in i..(k - 1) : f[j] \in Nat
    OBVIOUS
  <2>2. \A j \in (k + 1)..(n - 1) : f[j] \in Nat
    OBVIOUS
  <2> QED BY <2>1, <2>2, SumNat
<1> QED BY <1>1, <1>2, <1>3, <1>4

-----------------------------------------------------------------------------
(* At lists the entries at a finite set of indices in ascending order.     *)

UpTo(I, i) == { j \in I : j <= i }

LEMMA RankGrows ==
  ASSUME NEW I, IsFiniteSet(I), I \subseteq Int, NEW i \in I, NEW j \in I, i < j
  PROVE  Cardinality(UpTo(I, i)) < Cardinality(UpTo(I, j))
<1>1. IsFiniteSet(UpTo(I, j))
  BY FS_Subset DEF UpTo
<1>2. UpTo(I, i) \in SUBSET UpTo(I, j) /\ UpTo(I, i) # UpTo(I, j)
  <2>1. j \in UpTo(I, j) /\ j \notin UpTo(I, i)
    BY DEF UpTo
  <2>2. ASSUME NEW k \in UpTo(I, i) PROVE k \in UpTo(I, j)
    <3>1. k \in I /\ k <= i /\ k \in Int /\ i \in Int /\ j \in Int
      BY DEF UpTo
    <3> QED BY <3>1 DEF UpTo
  <2> QED BY <2>1, <2>2
<1>3. /\ IsFiniteSet(UpTo(I, i))
      /\ Cardinality(UpTo(I, i)) <= Cardinality(UpTo(I, j))
      /\ Cardinality(UpTo(I, i)) # Cardinality(UpTo(I, j))
  BY <1>1, <1>2, FS_Subset
<1> QED BY <1>1, <1>3, FS_CardinalityType

LEMMA RankInjective ==
  ASSUME NEW I, IsFiniteSet(I), I \subseteq Int, NEW i \in I, NEW j \in I,
         Cardinality(UpTo(I, i)) = Cardinality(UpTo(I, j))
  PROVE  i = j
<1>1. Cardinality(UpTo(I, i)) \in Nat
  <2>1. IsFiniteSet(UpTo(I, i))
    BY FS_Subset DEF UpTo
  <2> QED BY <2>1, FS_CardinalityType
<1>2. ~(Cardinality(UpTo(I, i)) < Cardinality(UpTo(I, j)))
  BY <1>1
<1>3. ~(Cardinality(UpTo(I, j)) < Cardinality(UpTo(I, i)))
  BY <1>1
<1>4. ~(i < j) /\ ~(j < i)
  BY <1>2, <1>3, RankGrows
<1> QED BY <1>4

LEMMA RankOntoRange ==
  ASSUME NEW I, IsFiniteSet(I), I \subseteq Int,
         NEW n \in 1..Cardinality(I)
  PROVE  \E i \in I : Cardinality(UpTo(I, i)) = n
<1> DEFINE N == Cardinality(I)
           r == [i \in I |-> Cardinality(UpTo(I, i))]
<1>1. N \in Nat
  BY FS_CardinalityType
<1>2. ASSUME NEW i \in I PROVE r[i] \in 1..N
  <2>1. UpTo(I, i) \in SUBSET I /\ i \in UpTo(I, i)
    BY DEF UpTo
  <2>2. IsFiniteSet(UpTo(I, i)) /\ Cardinality(UpTo(I, i)) <= N
    BY <2>1, FS_Subset
  <2>3. Cardinality(UpTo(I, i)) \in Nat /\ Cardinality(UpTo(I, i)) # 0
    BY <2>1, <2>2, FS_CardinalityType, FS_EmptySet
  <2> QED BY <1>1, <2>2, <2>3
<1>3. ASSUME NEW i \in I, NEW j \in I, r[i] = r[j] PROVE i = j
  BY <1>3, RankInjective
<1>4. r \in Injection(I, 1..N)
  <2>1. r \in [I -> 1..N]
    BY <1>2
  <2> HIDE DEF r
  <2> QED BY <1>3, <2>1 DEF Injection, IsInjective
<1>5. IsFiniteSet(1..N) /\ Cardinality(1..N) = N
  BY <1>1, FS_Interval
<1>6. r \in Surjection(I, 1..N)
  <2> HIDE DEF r
  <2> QED BY <1>4, <1>5, FS_Injection
<1>7. \E i \in I : r[i] = n
  <2> HIDE DEF r
  <2> QED BY <1>6 DEF Surjection
<1> QED BY <1>7

\* The indices that At uses: e[n] is the n-th of I.
Enumerates(e, I) ==
  /\ e \in [1..Cardinality(I) -> I]
  /\ \A m, n \in 1..Cardinality(I) : m < n => e[m] < e[n]
  /\ \A i \in I : \E n \in 1..Cardinality(I) : e[n] = i

LEMMA AtEnumerates ==
  ASSUME NEW s, NEW I, IsFiniteSet(I), I \subseteq Int
  PROVE  /\ At(s, I) = [n \in 1..Cardinality(I) |-> At(s, I)[n]]
         /\ \E e : Enumerates(e, I) /\ \A n \in 1..Cardinality(I) : At(s, I)[n] = s[e[n]]
<1> DEFINE N == Cardinality(I)
           r(i) == Cardinality(UpTo(I, i))
           e == [n \in 1..N |-> CHOOSE i \in I : r(i) = n]
<1>1. N \in Nat
  BY FS_CardinalityType
<1>2. ASSUME NEW n \in 1..N PROVE e[n] \in I /\ r(e[n]) = n
  <2> HIDE DEF r
  <2>1. \E i \in I : r(i) = n
    BY RankOntoRange DEF r
  <2> QED BY <2>1
<1>3. At(s, I) = [n \in 1..N |-> s[e[n]]]
  <2> DEFINE c(n) == CHOOSE i \in I : r(i) = n
  <2>1. At(s, I) = [n \in 1..N |-> s[c(n)]]
    BY Zenon DEF At, UpTo
  <2>2. \A n \in 1..N : e[n] = c(n)
    OBVIOUS
  <2> HIDE DEF c, e
  <2> QED BY <2>1, <2>2
<1> HIDE DEF e
<1>4. e \in [1..N -> I]
  <2>1. e = [n \in 1..N |-> e[n]]
    BY DEF e
  <2> QED BY <1>2, <2>1
<1>5. ASSUME NEW m \in 1..N, NEW n \in 1..N, m < n PROVE e[m] < e[n]
  <2>1. e[m] \in Int /\ e[n] \in Int /\ e[m] \in I /\ e[n] \in I
    BY <1>2
  <2>2. ASSUME e[n] < e[m] PROVE FALSE
    <3>1. r(e[n]) < r(e[m])
      BY <2>1, <2>2, RankGrows
    <3> HIDE DEF r
    <3> QED BY <1>2, <1>5, <3>1
  <2>3. e[m] # e[n]
    <3> HIDE DEF r
    <3> QED BY <1>2, <1>5
  <2> QED BY <2>1, <2>2, <2>3
<1>6. ASSUME NEW i \in I PROVE \E n \in 1..N : e[n] = i
  <2>1. UpTo(I, i) \in SUBSET I /\ i \in UpTo(I, i)
    BY DEF UpTo
  <2>2. IsFiniteSet(UpTo(I, i)) /\ r(i) <= N
    BY <2>1, FS_Subset
  <2>3. r(i) \in Nat /\ r(i) # 0
    BY <2>1, <2>2, FS_CardinalityType, FS_EmptySet
  <2>4. r(i) \in 1..N
    BY <1>1, <2>2, <2>3
  <2>5. e[r(i)] \in I /\ r(e[r(i)]) = r(i)
    <3> HIDE DEF r
    <3> QED BY <1>2, <2>4
  <2>7. e[r(i)] = i
    BY <2>5, RankInjective
  <2> HIDE DEF r
  <2> QED BY <2>4, <2>7
<1>7. Enumerates(e, I)
  BY <1>4, <1>5, <1>6 DEF Enumerates
<1>8. At(s, I) = [n \in 1..N |-> At(s, I)[n]] /\ \A n \in 1..N : At(s, I)[n] = s[e[n]]
  BY <1>3
<1> QED BY <1>7, <1>8

-----------------------------------------------------------------------------
(* Sums of sums: a table h of m rows and n columns adds up by its rows as  *)
(* by its columns, and a sum adds up by classes and in any order.          *)

LEMMA SumSingle ==
  ASSUME NEW f, NEW n \in Nat, NEW k \in 0..(n - 1), f[k] \in Int,
         \A j \in 0..(n - 1) : j # k => f[j] = 0
  PROVE  Sum(f, 0, n) = f[k]
<1> DEFINE z == [j \in 0..(n - 1) |-> 0]
<1>1. Sum(z, 0, n) = 0
  BY SumZero
<1>2. Sum(f, 0, n) = Sum(z, 0, n) + (f[k] - z[k])
  <2>1. \A j \in 0..(n - 1) : z[j] \in Int /\ f[j] \in Int
    OBVIOUS
  <2>2. \A j \in 0..(n - 1) : j # k => z[j] = f[j]
    OBVIOUS
  <2> HIDE DEF z
  <2> QED BY <2>1, <2>2, SumChanged
<1> QED BY <1>1, <1>2

RowSums(h, m, n) == [i \in 0..(m - 1) |-> Sum(h[i], 0, n)]
ColumnSums(h, m, n) == [j \in 0..(n - 1) |-> Sum([i \in 0..(m - 1) |-> h[i][j]], 0, m)]

LEMMA SumsExchange ==
  ASSUME NEW h, NEW m \in Nat, NEW n \in Nat,
         \A i \in 0..(m - 1), j \in 0..(n - 1) : h[i][j] \in Int
  PROVE  Sum(RowSums(h, m, n), 0, m) = Sum(ColumnSums(h, m, n), 0, n)
<1> DEFINE r == RowSums(h, m, n)
           T == { k \in Nat : k <= m => Sum(r, 0, k) = Sum(ColumnSums(h, k, n), 0, n) }
<1>1. 0 \in T
  <2>1. \A j \in 0..(n - 1) : ColumnSums(h, 0, n)[j] = 0
    BY SumNone DEF ColumnSums
  <2>2. Sum(ColumnSums(h, 0, n), 0, n) = 0
    BY <2>1, SumZero
  <2> QED BY <2>2, SumNone
<1>2. ASSUME NEW k \in Nat, k \in T PROVE k + 1 \in T
  <2> SUFFICES ASSUME k + 1 <= m
               PROVE  Sum(r, 0, k + 1) = Sum(ColumnSums(h, k + 1, n), 0, n)
    OBVIOUS
  <2>1. k \in 0..(m - 1) /\ r[k] = Sum(h[k], 0, n)
    BY DEF RowSums
  <2>2. Sum(r, 0, k + 1) = Sum(r, 0, k) + Sum(h[k], 0, n)
    BY <2>1, SumNext
  <2>3. ASSUME NEW j \in 0..(n - 1)
        PROVE  /\ ColumnSums(h, k, n)[j] \in Int /\ h[k][j] \in Int
               /\ ColumnSums(h, k + 1, n)[j] = ColumnSums(h, k, n)[j] + h[k][j]
    <3> DEFINE f == [i \in 0..(k - 1) |-> h[i][j]]
               g == [i \in 0..((k + 1) - 1) |-> h[i][j]]
    <3>1. /\ \A i \in 0..(k - 1) : f[i] = g[i] /\ f[i] \in Int
          /\ g[k] = h[k][j] /\ h[k][j] \in Int
      BY <2>1
    <3>2. ColumnSums(h, k, n)[j] = Sum(f, 0, k) /\ ColumnSums(h, k + 1, n)[j] = Sum(g, 0, k + 1)
      BY DEF ColumnSums
    <3> HIDE DEF f, g
    <3>3. Sum(f, 0, k) = Sum(g, 0, k)
      BY <3>1, SumEqual
    <3>4. Sum(f, 0, k) \in Int
      BY <3>1, SumInt
    <3>5. Sum(g, 0, k + 1) = Sum(g, 0, k) + g[k]
      BY SumNext
    <3> QED BY <3>1, <3>2, <3>3, <3>4, <3>5
  <2>4. TermByTerm(ColumnSums(h, k + 1, n), ColumnSums(h, k, n), h[k], 0, n)
    BY <2>3 DEF TermByTerm
  <2>5. Sum(ColumnSums(h, k + 1, n), 0, n) = Sum(ColumnSums(h, k, n), 0, n) + Sum(h[k], 0, n)
    BY <2>4, SumAdded
  <2>6. Sum(r, 0, k) = Sum(ColumnSums(h, k, n), 0, n)
    BY <1>2, <2>1
  <2> QED BY <2>2, <2>5, <2>6
<1> HIDE DEF T
<1>3. m \in T
  BY <1>1, <1>2, Upward
<1> QED BY <1>3 DEF T

\* The elements that k puts into class c, and their sum for each class.
InClass(f, k, c, n) == [u \in 0..(n - 1) |-> IF k[u] = c THEN f[u] ELSE 0]
ClassSums(f, k, m, n) == [c \in 0..(m - 1) |-> Sum(InClass(f, k, c, n), 0, n)]

LEMMA SumByClass ==
  ASSUME NEW f, NEW k, NEW m \in Nat, NEW n \in Nat,
         \A u \in 0..(n - 1) : f[u] \in Int /\ k[u] \in 0..(m - 1)
  PROVE  Sum(ClassSums(f, k, m, n), 0, m) = Sum(f, 0, n)
<1> DEFINE h == [c \in 0..(m - 1) |-> InClass(f, k, c, n)]
<1>1. \A c \in 0..(m - 1), u \in 0..(n - 1) :
        h[c][u] = (IF k[u] = c THEN f[u] ELSE 0) /\ h[c][u] \in Int
  BY DEF InClass
<1>2. Sum(RowSums(h, m, n), 0, m) = Sum(ClassSums(f, k, m, n), 0, m)
  <2>1. \A c \in 0..(m - 1) : RowSums(h, m, n)[c] = ClassSums(f, k, m, n)[c]
    BY DEF RowSums, ClassSums
  <2> HIDE DEF h
  <2> QED BY <2>1, SumEqual
<1> HIDE DEF h
<1>3. Sum(RowSums(h, m, n), 0, m) = Sum(ColumnSums(h, m, n), 0, n)
  BY <1>1, SumsExchange
<1>4. ASSUME NEW u \in 0..(n - 1) PROVE ColumnSums(h, m, n)[u] = f[u]
  <2> DEFINE g == [c \in 0..(m - 1) |-> h[c][u]]
  <2>1. ColumnSums(h, m, n)[u] = Sum(g, 0, m)
    BY DEF ColumnSums
  <2>2. /\ k[u] \in 0..(m - 1) /\ g[k[u]] = f[u] /\ f[u] \in Int
        /\ \A c \in 0..(m - 1) : c # k[u] => g[c] = 0
    BY <1>1
  <2> HIDE DEF g
  <2>3. Sum(g, 0, m) = g[k[u]]
    BY <2>2, SumSingle
  <2> QED BY <2>1, <2>2, <2>3
<1>5. Sum(ColumnSums(h, m, n), 0, n) = Sum(f, 0, n)
  BY <1>4, SumEqual
<1> QED BY <1>2, <1>3, <1>5

\* The list e names m of the n elements, each once: those of U.
Lists(e, m, n, U) ==
  /\ \A i \in 0..(m - 1) : e[i] \in 0..(n - 1) /\ e[i] \in U
  /\ \A i, j \in 0..(m - 1) : e[i] = e[j] => i = j
  /\ \A u \in 0..(n - 1) : u \in U => \E i \in 0..(m - 1) : e[i] = u

LEMMA SumReordered ==
  ASSUME NEW f, NEW e, NEW U, NEW m \in Nat, NEW n \in Nat, Lists(e, m, n, U),
         \A u \in 0..(n - 1) : f[u] \in Int
  PROVE  Sum([i \in 0..(m - 1) |-> f[e[i]]], 0, m)
           = Sum([u \in 0..(n - 1) |-> IF u \in U THEN f[u] ELSE 0], 0, n)
<1> DEFINE fe == [i \in 0..(m - 1) |-> f[e[i]]]
           g == [u \in 0..(n - 1) |-> IF u \in U THEN f[u] ELSE 0]
<1>1. \A i \in 0..(m - 1) : fe[i] = f[e[i]] /\ fe[i] \in Int /\ e[i] \in 0..(n - 1)
  BY DEF Lists
<1>2. \A u \in 0..(n - 1) : g[u] = IF u \in U THEN f[u] ELSE 0
  OBVIOUS
<1> HIDE DEF fe, g
<1>3. Sum(ClassSums(fe, e, n, m), 0, n) = Sum(fe, 0, m)
  <2>1. /\ m \in Nat /\ n \in Nat
        /\ \A i \in 0..(m - 1) : fe[i] \in Int /\ e[i] \in 0..(n - 1)
    BY <1>1
  <2> QED
    BY ONLY <2>1, SumByClass
<1>4. ASSUME NEW u \in 0..(n - 1) PROVE ClassSums(fe, e, n, m)[u] = g[u]
  <2> DEFINE h == InClass(fe, e, u, m)
  <2>1. /\ ClassSums(fe, e, n, m)[u] = Sum(h, 0, m)
        /\ \A i \in 0..(m - 1) : h[i] = IF e[i] = u THEN fe[i] ELSE 0
    BY DEF ClassSums, InClass
  <2> HIDE DEF h
  <2>2. CASE u \in U
    <3>1. PICK i \in 0..(m - 1) : e[i] = u
      BY <2>2 DEF Lists
    <3>2. \A j \in 0..(m - 1) : j # i => e[j] # u
      BY <3>1 DEF Lists
    <3>3. h[i] = f[u] /\ h[i] \in Int /\ \A j \in 0..(m - 1) : j # i => h[j] = 0
      BY <1>1, <2>1, <3>1, <3>2
    <3>4. Sum(h, 0, m) = h[i]
      BY <3>3, SumSingle
    <3> QED BY <1>2, <2>1, <2>2, <3>3, <3>4
  <2>3. CASE u \notin U
    <3>1. \A i \in 0..(m - 1) : h[i] = 0
      BY <2>1, <2>3 DEF Lists
    <3>2. Sum(h, 0, m) = 0
      BY <3>1, SumZero
    <3> QED BY <1>2, <2>1, <2>3, <3>2
  <2> QED BY <2>2, <2>3
<1>5. Sum(ClassSums(fe, e, n, m), 0, n) = Sum(g, 0, n)
  BY <1>4, SumEqual
<1> QED BY <1>3, <1>5 DEF fe, g

LEMMA SumBounded ==
  ASSUME NEW f, NEW g, NEW n \in Nat,
         \A j \in 0..(n - 1) : f[j] \in Int /\ g[j] \in Int /\ f[j] <= g[j]
  PROVE  Sum(f, 0, n) <= Sum(g, 0, n)
<1> DEFINE d == [j \in 0..(n - 1) |-> g[j] - f[j]]
<1>1. \A j \in 0..(n - 1) : d[j] \in Nat /\ d[j] \in Int /\ f[j] \in Int /\ g[j] = f[j] + d[j]
  OBVIOUS
<1> HIDE DEF d
<1>2. Sum(g, 0, n) = Sum(f, 0, n) + Sum(d, 0, n)
  <2>1. TermByTerm(g, f, d, 0, n)
    BY <1>1 DEF TermByTerm
  <2> QED BY <2>1, SumAdded
<1>3. Sum(d, 0, n) \in Nat /\ Sum(f, 0, n) \in Int
  BY <1>1, SumNat, SumInt
<1> QED BY <1>2, <1>3

\* A range that does not start at 0.
LEMMA SumShifted ==
  ASSUME NEW f, NEW k \in Nat, NEW n \in Nat
  PROVE  Sum(f, k, k + n) = Sum([j \in 0..(n - 1) |-> f[k + j]], 0, n)
<1> DEFINE g == [j \in 0..(n - 1) |-> f[k + j]]
           T == { m \in Nat : m <= n => Sum(f, k, k + m) = Sum(g, 0, m) }
<1>1. 0 \in T
  BY SumNone
<1>2. ASSUME NEW m \in Nat, m \in T PROVE m + 1 \in T
  <2> SUFFICES ASSUME m + 1 <= n PROVE Sum(f, k, k + (m + 1)) = Sum(g, 0, m + 1)
    OBVIOUS
  <2>1. g[m] = f[k + m]
    OBVIOUS
  <2> HIDE DEF g
  <2>2. Sum(g, 0, m + 1) = Sum(g, 0, m) + g[m]
    BY SumNext
  <2>3. k + m \in Nat /\ k <= k + m /\ k + (m + 1) = (k + m) + 1
    OBVIOUS
  <2>4. Sum(f, k, (k + m) + 1) = Sum(f, k, k + m) + f[k + m]
    BY <2>3, SumNext
  <2>5. Sum(f, k, k + m) = Sum(g, 0, m)
    BY <1>2
  <2> QED BY <2>1, <2>2, <2>3, <2>4, <2>5
<1> HIDE DEF T
<1>3. n \in T
  BY <1>1, <1>2, Upward
<1> QED BY <1>3 DEF T, g

-----------------------------------------------------------------------------
(* Counting by parts: the sizes of the parts of a finite set add up to its *)
(* size, whether the parts are numbered or named by the members of a set.  *)

\* The members of E with key k.
Part(E, key, k) == { x \in E : key[x] = k }

\* f has the sizes of the parts of E, which are numbered i to n - 1.
SizesOfParts(f, E, key, i, n) ==
  /\ \A x \in E : key[x] \in i..(n - 1)
  /\ \A j \in i..(n - 1) : f[j] = Cardinality(Part(E, key, j))

LEMMA CountByNumber ==
  ASSUME NEW E, IsFiniteSet(E), NEW key, NEW f, NEW i \in Nat, NEW n \in Nat, i <= n,
         SizesOfParts(f, E, key, i, n)
  PROVE  Sum(f, i, n) = Cardinality(E)
<1>0. /\ \A x \in E : key[x] \in i..(n - 1)
      /\ \A j \in i..(n - 1) : f[j] = Cardinality(Part(E, key, j))
  BY DEF SizesOfParts
<1> DEFINE Below(m) == { x \in E : key[x] < m }
           T == { m \in Nat : m <= n => Sum(f, i, m) = Cardinality(Below(m)) }
<1>1. i \in T
  <2>1. Below(i) = {}
    BY <1>0
  <2>2. Sum(f, i, i) = 0
    BY SumNone
  <2> QED BY <2>1, <2>2, FS_EmptySet
<1>2. ASSUME NEW m \in Nat, i <= m, m \in T PROVE m + 1 \in T
  <2> HIDE DEF Below
  <2> SUFFICES ASSUME m + 1 <= n PROVE Sum(f, i, m + 1) = Cardinality(Below(m + 1))
    OBVIOUS
  <2>1. Sum(f, i, m) = Cardinality(Below(m))
    BY <1>2
  <2>2. m \in i..(n - 1)
    BY <1>2
  <2>3. f[m] = Cardinality(Part(E, key, m))
    BY <1>0, <2>2
  <2>4. Below(m + 1) = Below(m) \cup Part(E, key, m) /\ Below(m) \cap Part(E, key, m) = {}
    BY <1>0, <1>2 DEF Part, Below
  <2>5. IsFiniteSet(Below(m)) /\ IsFiniteSet(Part(E, key, m))
    <3>1. Below(m) \subseteq E /\ Part(E, key, m) \subseteq E
      BY DEF Part, Below
    <3> QED BY <3>1, FS_Subset
  <2>6. Cardinality(Below(m + 1)) = Cardinality(Below(m)) + Cardinality(Part(E, key, m))
    <3>1. Cardinality(Below(m)) \in Nat /\ Cardinality(Part(E, key, m)) \in Nat
      BY <2>5, FS_CardinalityType
    <3>2. Cardinality({}) = 0
      BY FS_EmptySet
    <3>3. Cardinality(Below(m) \cup Part(E, key, m))
            = Cardinality(Below(m)) + Cardinality(Part(E, key, m)) - Cardinality(Below(m) \cap Part(E, key, m))
      BY <2>5, FS_Union
    <3>4. Cardinality(Below(m) \cap Part(E, key, m)) = 0
      BY <2>4, <3>2, Zenon
    <3>5. Cardinality(Below(m + 1)) = Cardinality(Below(m) \cup Part(E, key, m))
      BY <2>4, Zenon
    <3> QED BY <3>1, <3>3, <3>4, <3>5
  <2>7. Sum(f, i, m + 1) = Sum(f, i, m) + f[m]
    BY <1>2, SumNext
  <2> QED BY <2>1, <2>3, <2>6, <2>7
<1>3. Below(n) = E
  BY <1>0
<1>4. n \in T
  <2> HIDE DEF T
  <2> QED BY <1>1, <1>2, Upward
<1> QED BY <1>3, <1>4

\* An enumeration of a finite set names each member once.
LEMMA EnumerationFacts ==
  ASSUME NEW S, IsFiniteSet(S)
  PROVE  /\ Cardinality(S) \in Nat
         /\ Enumeration(S) \in [1..Cardinality(S) -> S]
         /\ \A x \in S : \E i \in 1..Cardinality(S) : Enumeration(S)[i] = x
         /\ \A i, j \in 1..Cardinality(S) : Enumeration(S)[i] = Enumeration(S)[j] => i = j
<1> DEFINE N == Cardinality(S)
           e == Enumeration(S)
<1>1. N \in Nat /\ ExistsBijection(1..N, S)
  BY FS_CardinalityType
<1>2. \E b \in [1..N -> S] : \A x \in S : \E i \in 1..N : b[i] = x
  BY <1>1 DEF ExistsBijection, Bijection, Surjection
<1>3. e \in [1..N -> S] /\ \A x \in S : \E i \in 1..N : e[i] = x
  BY <1>2 DEF Enumeration
<1> HIDE DEF e
<1>4. e \in Surjection(1..N, S)
  BY <1>3 DEF Surjection
<1>5. IsFiniteSet(1..N) /\ Cardinality(1..N) = N
  BY <1>1, FS_Interval
<1>6. e \in Injection(1..N, S)
  <2>1. N = Cardinality(S)
    OBVIOUS
  <2> HIDE DEF N
  <2> QED BY <1>4, <1>5, <2>1, FS_SurjSameCardinalityImpliesInj
<1>7. \A i, j \in 1..N : e[i] = e[j] => i = j
  BY <1>6 DEF Injection, IsInjective
<1> QED BY <1>1, <1>3, <1>7 DEF e

LEMMA CountByName ==
  ASSUME NEW S, IsFiniteSet(S), NEW E, IsFiniteSet(E), NEW key, NEW f,
         \A x \in E : key[x] \in S,
         \A p \in S : f[p] = Cardinality(Part(E, key, p))
  PROVE  SetSum(f, S) = Cardinality(E)
<1> DEFINE N == Cardinality(S)
           e == Enumeration(S)
           g == [i \in 1..N |-> f[e[i]]]
           rank == [x \in E |-> CHOOSE i \in 1..N : e[i] = key[x]]
<1>1. /\ N \in Nat /\ e \in [1..N -> S]
      /\ \A x \in S : \E i \in 1..N : e[i] = x
      /\ \A i, j \in 1..N : e[i] = e[j] => i = j
  BY EnumerationFacts
<1>2. SetSum(f, S) = Sum(g, 1, N + 1)
  <2>1. DOMAIN e = 1..N
    BY <1>1
  <2> QED BY <2>1 DEF SetSum
<1> HIDE DEF e
<1>3. \A x \in E : rank[x] \in 1..N /\ e[rank[x]] = key[x]
  BY <1>1
<1>4. ASSUME NEW i \in 1..N PROVE g[i] = Cardinality(Part(E, rank, i))
  <2>1. g[i] = Cardinality(Part(E, key, e[i]))
    BY <1>1
  <2>2. Part(E, key, e[i]) = Part(E, rank, i)
    <3> HIDE DEF rank
    <3> QED BY <1>1, <1>3 DEF Part
  <2> QED BY <2>1, <2>2
<1> HIDE DEF g, rank, N
<1> DEFINE top == N + 1
<1>5. 1 \in Nat /\ top \in Nat /\ 1 <= top /\ 1..(top - 1) = 1..N
  BY <1>1
<1>6. SizesOfParts(g, E, rank, 1, top)
  BY <1>3, <1>4, <1>5 DEF SizesOfParts
<1>7. Sum(g, 1, top) = Cardinality(E)
  <2> HIDE DEF top
  <2> QED BY <1>5, <1>6, CountByNumber
<1> QED BY <1>2, <1>7

LEMMA SetSumNat ==
  ASSUME NEW S, IsFiniteSet(S), NEW f, \A p \in S : f[p] \in Nat
  PROVE  SetSum(f, S) \in Nat
<1> DEFINE N == Cardinality(S)
           e == Enumeration(S)
           g == [i \in 1..N |-> f[e[i]]]
<1>1. N \in Nat /\ e \in [1..N -> S]
  BY EnumerationFacts
<1>2. SetSum(f, S) = Sum(g, 1, N + 1)
  <2>1. DOMAIN e = 1..N
    BY <1>1
  <2> QED BY <2>1 DEF SetSum
<1> HIDE DEF e
<1>3. \A i \in 1..N : g[i] \in Nat
  BY <1>1
<1> HIDE DEF g, N
<1> DEFINE top == N + 1
<1>4. 1 \in Nat /\ top \in Nat /\ \A i \in 1..(top - 1) : g[i] \in Nat
  BY <1>1, <1>3
<1>5. Sum(g, 1, top) \in Nat
  <2> HIDE DEF top
  <2> QED BY <1>4, SumNat
<1> QED BY <1>2, <1>5

LEMMA ColumnSize ==
  ASSUME NEW p, NEW K, IsFiniteSet(K)
  PROVE  IsFiniteSet({p} \X K) /\ Cardinality({p} \X K) = Cardinality(K)
<1>1. IsFiniteSet({p}) /\ Cardinality({p}) = 1
  BY FS_Singleton
<1>2. Cardinality({p} \X K) = 1 * Cardinality(K) /\ IsFiniteSet({p} \X K)
  BY <1>1, FS_Product
<1>3. Cardinality(K) \in Nat
  BY FS_CardinalityType
<1> QED BY <1>2, <1>3
-----------------------------------------------------------------------------
(* Entries of any kind E whose keys are naturals, as in a LazyBitset.      *)

HasKeys(E) == \A e \in E : e.first \in Nat

\* What the binary search of find() meets.
Found(s, k) ==
  LET i == CHOOSE i \in DOMAIN s : s[i].first = k /\ IsFirst(s, i)
  IN  s[i].second

MapOf(s) == [k \in Keys(s) |-> Found(s, k)]

LEMMA EntryFacts ==
  ASSUME NEW E, HasKeys(E), NEW s \in Seq(E)
  PROVE  /\ Len(s) \in Nat /\ DOMAIN s = 1..Len(s) /\ s = [i \in 1..Len(s) |-> s[i]]
         /\ \A i \in 1..Len(s) : s[i] \in E /\ s[i].first \in Nat
<1>1. /\ Len(s) \in Nat /\ DOMAIN s = 1..Len(s) /\ s = [i \in 1..Len(s) |-> s[i]]
      /\ \A i \in 1..Len(s) : s[i] \in E
  OBVIOUS
<1>2. \A e \in E : e.first \in Nat
  BY DEF HasKeys
<1> QED BY <1>1, <1>2

LEMMA EntriesFrom ==
  ASSUME NEW E, NEW n \in Nat, NEW s, s = [i \in 1..n |-> s[i]], \A i \in 1..n : s[i] \in E
  PROVE  s \in Seq(E) /\ Len(s) = n
<1>1. s \in [1..n -> E]
  OBVIOUS
<1> QED BY <1>1

\* The first entry of a key exists, and the look-up returns its value.
LEMMA FirstExists ==
  ASSUME NEW E, HasKeys(E), NEW s \in Seq(E), NEW k \in Keys(s)
  PROVE  \E i \in 1..Len(s) : s[i].first = k /\ IsFirst(s, i)
<1> DEFINE T == { i \in 1..Len(s) : s[i].first = k }
<1>1. T # {} /\ T \subseteq Nat
  BY EntryFacts DEF Keys
<1>2. PICK i \in T : \A j \in T : i <= j
  BY <1>1, LeastNat
<1>3. ASSUME NEW j \in 1..(i - 1) PROVE s[j].first # s[i].first
  <2>1. j \in 1..Len(s) /\ ~(i <= j)
    BY <1>2, EntryFacts
  <2> QED BY <1>2, <2>1
<1> QED BY <1>2, <1>3 DEF IsFirst

LEMMA LookupIs ==
  ASSUME NEW E, HasKeys(E), NEW s \in Seq(E), NEW i \in 1..Len(s), IsFirst(s, i)
  PROVE  Found(s, s[i].first) = s[i].second
<1> DEFINE k == s[i].first
           c == CHOOSE j \in DOMAIN s : s[j].first = k /\ IsFirst(s, j)
<1>1. DOMAIN s = 1..Len(s) /\ Len(s) \in Nat
  BY EntryFacts
<1>2. c \in 1..Len(s) /\ s[c].first = k /\ IsFirst(s, c)
  BY <1>1
<1>3. ~(c < i) /\ ~(i < c)
  <2> HIDE DEF c
  <2>1. ASSUME c < i PROVE FALSE
    <3>1. c \in 1..(i - 1)
      BY <1>1, <1>2, <2>1
    <3> QED BY <1>2, <3>1 DEF IsFirst
  <2>2. ASSUME i < c PROVE FALSE
    <3>1. i \in 1..(c - 1)
      BY <1>1, <1>2, <2>2
    <3> QED BY <1>2, <3>1 DEF IsFirst
  <2> QED BY <2>1, <2>2
<1>4. c = i
  <2> HIDE DEF c
  <2> QED BY <1>1, <1>2, <1>3
<1>5. Found(s, k) = s[c].second
  BY DEF Found
<1> QED BY <1>4, <1>5

\* A look-up is of an entry of the key, the only one if keys occur once.
LEMMA LookupFound ==
  ASSUME NEW E, HasKeys(E), NEW s \in Seq(E), NEW k \in Keys(s)
  PROVE  \E i \in 1..Len(s) : s[i].first = k /\ IsFirst(s, i) /\ Found(s, k) = s[i].second
<1>1. PICK i \in 1..Len(s) : s[i].first = k /\ IsFirst(s, i)
  BY FirstExists
<1> QED BY <1>1, LookupIs

KeysDiffer(s) == \A i, j \in DOMAIN s : s[i].first = s[j].first => i = j

LEMMA LookupOnly ==
  ASSUME NEW E, HasKeys(E), NEW s \in Seq(E), KeysDiffer(s), NEW i \in 1..Len(s)
  PROVE  Found(s, s[i].first) = s[i].second
<1>1. IsFirst(s, i)
  BY EntryFacts DEF KeysDiffer, IsFirst
<1> QED BY <1>1, LookupIs

LEMMA StrictIsDistinct ==
  ASSUME NEW E, HasKeys(E), NEW s \in Seq(E)
  PROVE  /\ StrictlySorted(s) => KeysDiffer(s)
         /\ Sorted(s) /\ KeysDiffer(s) => StrictlySorted(s)
<1>1. /\ Len(s) \in Nat /\ DOMAIN s = 1..Len(s)
      /\ \A i \in 1..Len(s) : s[i].first \in Nat
  BY EntryFacts
<1>2. ASSUME StrictlySorted(s), NEW i \in DOMAIN s, NEW j \in DOMAIN s, s[i].first = s[j].first
      PROVE  i = j
  <2>1. ~(i < j) /\ ~(j < i)
    BY <1>1, <1>2 DEF StrictlySorted
  <2> QED BY <1>1, <2>1
<1>3. ASSUME Sorted(s), KeysDiffer(s), NEW i \in DOMAIN s, NEW j \in DOMAIN s, i < j
      PROVE  s[i].first < s[j].first
  <2>1. s[i].first <= s[j].first /\ s[i].first # s[j].first
    BY <1>1, <1>3 DEF Sorted, KeysDiffer
  <2> QED BY <1>1, <2>1
<1> QED BY <1>2, <1>3 DEF StrictlySorted, KeysDiffer

\* Two sequences are the same map if keys and look-ups agree.
LEMMA MapsEqual ==
  ASSUME NEW s, NEW t, Keys(s) = Keys(t), \A k \in Keys(s) : Found(s, k) = Found(t, k)
  PROVE  MapOf(s) = MapOf(t)
  BY DEF MapOf

-----------------------------------------------------------------------------
(* Parts of a sequence: the entries whose keys are in a set K.             *)

\* What At makes of the entries with keys in K, for facts about it.
IsPart(E, t, s, K) ==
  /\ t \in Seq(E)
  /\ Keys(t) = Keys(s) \cap K
  /\ \A k \in Keys(t) : Found(t, k) = Found(s, k)
  /\ StrictlySorted(s) => StrictlySorted(t)
  /\ KeysDiffer(s) => KeysDiffer(t)

LEMMA PartByKeys ==
  ASSUME NEW E, HasKeys(E), NEW s \in Seq(E), NEW K
  PROVE  IsPart(E, At(s, { i \in DOMAIN s : s[i].first \in K }), s, K)
<1> DEFINE I == { i \in DOMAIN s : s[i].first \in K }
           t == At(s, I)
           N == Cardinality(I)
<1>1. /\ Len(s) \in Nat /\ DOMAIN s = 1..Len(s)
      /\ \A i \in 1..Len(s) : s[i] \in E /\ s[i].first \in Nat
  BY EntryFacts
<1>2. I \subseteq 1..Len(s) /\ I \subseteq Int
  BY <1>1
<1>3. IsFiniteSet(I) /\ N \in Nat
  <2>1. IsFiniteSet(1..Len(s))
    BY <1>1, FS_Interval
  <2> HIDE DEF I
  <2> QED BY <1>2, <2>1, FS_Subset, FS_CardinalityType
<1>0. \A i \in 1..Len(s) : i \in I <=> s[i].first \in K
  BY <1>1
<1> HIDE DEF I
<1>4. /\ t = [n \in 1..N |-> t[n]]
      /\ \E e : Enumerates(e, I) /\ \A n \in 1..N : t[n] = s[e[n]]
  BY <1>2, <1>3, AtEnumerates
<1>5. PICK e : Enumerates(e, I) /\ \A n \in 1..N : t[n] = s[e[n]]
  BY <1>4
<1> HIDE DEF t, N
<1>6. /\ \A n \in 1..N : e[n] \in I /\ e[n] \in 1..Len(s)
      /\ \A m, n \in 1..N : m < n => e[m] < e[n]
      /\ \A i \in I : \E n \in 1..N : e[n] = i
  BY <1>2, <1>5 DEF Enumerates, N
<1>7. t \in Seq(E) /\ Len(t) = N
  <2>1. \A n \in 1..N : t[n] \in E
    BY <1>1, <1>5, <1>6
  <2> QED BY <1>3, <1>4, <2>1, EntriesFrom
<1>8. DOMAIN t = 1..N
  BY <1>7
<1>9. Keys(t) = Keys(s) \cap K
  <2>1. ASSUME NEW k \in Keys(t) PROVE k \in Keys(s) \cap K
    <3>1. PICK n \in 1..N : t[n].first = k
      BY <1>8 DEF Keys
    <3>2. s[e[n]].first = k /\ e[n] \in I
      BY <3>1, <1>5, <1>6
    <3> QED BY <3>2, <1>0, <1>1, <1>6 DEF Keys
  <2>2. ASSUME NEW k \in Keys(s), k \in K PROVE k \in Keys(t)
    <3>1. PICK i \in 1..Len(s) : s[i].first = k
      BY <1>1 DEF Keys
    <3>2. PICK n \in 1..N : e[n] = i
      BY <3>1, <2>2, <1>0, <1>6
    <3> QED BY <3>1, <3>2, <1>5, <1>8 DEF Keys
  <2> QED BY <2>1, <2>2
<1>10. ASSUME NEW k \in Keys(t) PROVE Found(t, k) = Found(s, k)
  <2>1. PICK i \in 1..Len(s) : s[i].first = k /\ IsFirst(s, i) /\ Found(s, k) = s[i].second
    BY <1>9, <1>10, LookupFound
  <2>2. PICK n \in 1..N : e[n] = i
    BY <2>1, <1>0, <1>6, <1>9, <1>10
  <2>3. t[n] = s[i]
    BY <2>2, <1>5
  <2>4. ASSUME NEW m \in 1..(n - 1) PROVE t[m].first # t[n].first
    <3>1. m \in 1..N /\ m < n
      BY <1>3
    <3>2. e[m] \in 1..(i - 1)
      BY <3>1, <2>2, <1>6
    <3> QED BY <2>1, <2>3, <3>1, <3>2, <1>5 DEF IsFirst
  <2>5. Found(t, t[n].first) = t[n].second
    BY <2>4, <1>7, LookupIs DEF IsFirst
  <2> QED BY <2>1, <2>3, <2>5
<1>11. ASSUME StrictlySorted(s) PROVE StrictlySorted(t)
  BY <1>1, <1>5, <1>6, <1>8, <1>11 DEF StrictlySorted
<1>12. ASSUME KeysDiffer(s) PROVE KeysDiffer(t)
  <2> SUFFICES ASSUME NEW m \in 1..N, NEW n \in 1..N, t[m].first = t[n].first PROVE m = n
    BY <1>8 DEF KeysDiffer
  <2>1. e[m] = e[n]
    BY <1>1, <1>5, <1>6, <1>12, SMTT(30) DEF KeysDiffer
  <2>2. ~(m < n) /\ ~(n < m)
    BY <2>1, <1>6
  <2> QED BY <2>2
<1> QED BY <1>7, <1>9, <1>10, <1>11, <1>12 DEF IsPart, t, I

\* Removing is exact where each key occurs once.
LEMMA DifferenceFacts ==
  ASSUME NEW E, HasKeys(E), NEW x \in Seq(E), NEW y \in Seq(E), StrictlySorted(x)
  PROVE  IsPart(E, SetDifference(x, y), x, Nat \ Keys(y))
<1> DEFINE Before(i) == { j \in 1..(i - 1) : x[j].first = x[i].first }
           In(i) == { j \in DOMAIN y : y[j].first = x[i].first }
<1>1. /\ Len(x) \in Nat /\ DOMAIN x = 1..Len(x) /\ Len(y) \in Nat /\ DOMAIN y = 1..Len(y)
      /\ \A i \in 1..Len(x) : x[i].first \in Nat
  BY EntryFacts
<1>2. ASSUME NEW i \in DOMAIN x
      PROVE  Cardinality(Before(i)) >= Cardinality(In(i)) <=> x[i].first \in Nat \ Keys(y)
  <2>1. Before(i) = {}
    <3>1. ASSUME NEW j \in 1..(i - 1) PROVE x[j].first # x[i].first
      <4>1. j \in DOMAIN x /\ j < i
        BY <1>1
      <4>2. x[j].first < x[i].first
        BY <4>1 DEF StrictlySorted
      <4> QED BY <1>1, <4>1, <4>2
    <3> QED BY <3>1
  <2>2. IsFiniteSet(In(i))
    <3>1. In(i) \subseteq 1..Len(y)
      BY <1>1
    <3>2. IsFiniteSet(1..Len(y))
      BY <1>1, FS_Interval
    <3> HIDE DEF In
    <3> QED BY <3>1, <3>2, FS_Subset
  <2>3. Cardinality(In(i)) \in Nat /\ (Cardinality(In(i)) = 0 <=> In(i) = {})
    BY <2>2, FS_CardinalityType, FS_EmptySet
  <2>4. Cardinality(Before(i)) = 0
    BY <2>1, FS_EmptySet
  <2>5. In(i) = {} <=> x[i].first \notin Keys(y)
    BY DEF Keys
  <2>6. x[i].first \in Nat
    BY <1>1
  <2> QED BY <2>3, <2>4, <2>5, <2>6
<1>3. { i \in DOMAIN x : Cardinality(Before(i)) >= Cardinality(In(i)) }
        = { i \in DOMAIN x : x[i].first \in Nat \ Keys(y) }
  BY <1>2
<1>4. SetDifference(x, y) = At(x, { i \in DOMAIN x : x[i].first \in Nat \ Keys(y) })
  BY <1>3 DEF SetDifference
<1> QED BY <1>4, PartByKeys

-----------------------------------------------------------------------------
(* Two sequences one after the other: the first is looked up first.        *)

LEMMA ConcatFacts ==
  ASSUME NEW E, HasKeys(E), NEW s \in Seq(E), NEW t \in Seq(E)
  PROVE  /\ s \o t \in Seq(E)
         /\ Keys(s \o t) = Keys(s) \cup Keys(t)
         /\ \A k \in Keys(s) : Found(s \o t, k) = Found(s, k)
         /\ \A k \in Keys(t) \ Keys(s) : Found(s \o t, k) = Found(t, k)
         /\ (StrictlySorted(s) /\ StrictlySorted(t) /\ \A k \in Keys(s), m \in Keys(t) : k < m)
              => StrictlySorted(s \o t)
         /\ (KeysDiffer(s) /\ KeysDiffer(t) /\ Keys(s) \cap Keys(t) = {}) => KeysDiffer(s \o t)
<1> DEFINE r == s \o t
           a == Len(s)
           b == Len(t)
<1>1. /\ a \in Nat /\ b \in Nat /\ DOMAIN s = 1..a /\ DOMAIN t = 1..b
      /\ r \in Seq(E) /\ Len(r) = a + b /\ DOMAIN r = 1..(a + b)
      /\ \A i \in 1..(a + b) : r[i] = IF i <= a THEN s[i] ELSE t[i - a]
  OBVIOUS
<1>2. /\ \A i \in 1..a : i \in 1..(a + b) /\ r[i] = s[i] /\ s[i].first \in Nat
      /\ \A i \in 1..b : i + a \in 1..(a + b) /\ r[i + a] = t[i] /\ t[i].first \in Nat
      /\ \A i \in 1..(a + b) : i \in 1..a \/ (i - a \in 1..b /\ i > a /\ r[i] = t[i - a])
  BY <1>1, EntryFacts
<1> HIDE DEF r, a, b
<1>3. Keys(r) = Keys(s) \cup Keys(t)
  <2>1. ASSUME NEW i \in 1..(a + b) PROVE r[i].first \in Keys(s) \cup Keys(t)
    BY <1>1, <1>2 DEF Keys
  <2>2. \A i \in 1..a : s[i].first \in Keys(r)
    <3>1. \A i \in 1..a : s[i].first = r[i].first /\ i \in DOMAIN r
      BY <1>1, <1>2
    <3> QED BY <3>1 DEF Keys
  <2>3. \A i \in 1..b : t[i].first \in Keys(r)
    <3>1. \A i \in 1..b : t[i].first = r[i + a].first /\ i + a \in DOMAIN r
      BY <1>1, <1>2
    <3> QED BY <3>1 DEF Keys
  <2> QED BY <2>1, <2>2, <2>3, <1>1 DEF Keys
<1>4. ASSUME NEW k \in Keys(s) PROVE Found(r, k) = Found(s, k)
  <2>1. PICK i \in 1..a : s[i].first = k /\ IsFirst(s, i) /\ Found(s, k) = s[i].second
    BY LookupFound DEF a
  <2>2. ASSUME NEW j \in 1..(i - 1) PROVE r[j].first # r[i].first
    <3>1. j \in 1..a
      BY <1>1
    <3> QED BY <3>1, <2>1, <1>2 DEF IsFirst
  <2>3. i \in 1..Len(r) /\ IsFirst(r, i) /\ r[i] = s[i]
    BY <1>1, <1>2, <2>2 DEF IsFirst
  <2> QED BY <2>1, <2>3, <1>1, LookupIs
<1>5. ASSUME NEW k \in Keys(t) \ Keys(s) PROVE Found(r, k) = Found(t, k)
  <2>1. PICK i \in 1..b : t[i].first = k /\ IsFirst(t, i) /\ Found(t, k) = t[i].second
    BY LookupFound DEF b
  <2>2. ASSUME NEW j \in 1..(i + a - 1) PROVE r[j].first # k
    <3>1. j \in 1..(a + b)
      BY <1>1
    <3>2. CASE j \in 1..a
      BY <3>2, <1>1, <1>2 DEF Keys
    <3>3. CASE j - a \in 1..b /\ j > a /\ r[j] = t[j - a]
      <4>1. j - a \in 1..(i - 1)
        BY <3>3, <1>1
      <4> QED BY <3>3, <4>1, <2>1 DEF IsFirst
    <3> QED BY <3>1, <3>2, <3>3, <1>2
  <2>3. i + a \in 1..Len(r) /\ r[i + a] = t[i] /\ IsFirst(r, i + a)
    BY <1>1, <1>2, <2>1, <2>2 DEF IsFirst
  <2> QED BY <2>1, <2>3, <1>1, LookupIs, SMTT(30)
<1>6. ASSUME StrictlySorted(s), StrictlySorted(t), \A k \in Keys(s), m \in Keys(t) : k < m
      PROVE  StrictlySorted(r)
  <2> SUFFICES ASSUME NEW i \in 1..(a + b), NEW j \in 1..(a + b), i < j
               PROVE  r[i].first < r[j].first
    BY <1>1 DEF StrictlySorted
  <2>1. CASE i \in 1..a /\ j \in 1..a
    BY <2>1, <1>1, <1>2, <1>6 DEF StrictlySorted
  <2>2. CASE i \in 1..a /\ j \notin 1..a
    <3>1. s[i].first \in Keys(s) /\ t[j - a].first \in Keys(t)
      BY <2>2, <1>1, <1>2 DEF Keys
    <3> QED BY <3>1, <2>2, <1>2, <1>6
  <2>3. CASE i \notin 1..a
    <3>1. i - a \in 1..b /\ j - a \in 1..b /\ i - a < j - a
      BY <2>3, <1>1, <1>2
    <3>2. r[i] = t[i - a] /\ r[j] = t[j - a]
      BY <2>3, <1>1, <1>2
    <3> QED BY <3>1, <3>2, <1>1, <1>6 DEF StrictlySorted
  <2> QED BY <2>1, <2>2, <2>3
<1>7. ASSUME KeysDiffer(s), KeysDiffer(t), Keys(s) \cap Keys(t) = {} PROVE KeysDiffer(r)
  <2> SUFFICES ASSUME NEW i \in 1..(a + b), NEW j \in 1..(a + b), r[i].first = r[j].first
               PROVE  i = j
    BY <1>1 DEF KeysDiffer
  <2>0. /\ \A n \in 1..a : s[n].first \in Keys(s)
        /\ \A n \in 1..b : t[n].first \in Keys(t)
    BY <1>1 DEF Keys
  <2>1. CASE i \in 1..a /\ j \in 1..a
    BY <2>1, <1>1, <1>2, <1>7 DEF KeysDiffer
  <2>2. CASE i \in 1..a /\ j \notin 1..a
    BY <2>0, <2>2, <1>2, <1>7
  <2>3. CASE i \notin 1..a /\ j \in 1..a
    BY <2>0, <2>3, <1>2, <1>7
  <2>4. CASE i \notin 1..a /\ j \notin 1..a
    <3>1. i - a \in 1..b /\ j - a \in 1..b /\ r[i] = t[i - a] /\ r[j] = t[j - a]
      BY <2>4, <1>1, <1>2
    <3>2. i - a = j - a
      BY <3>1, <1>1, <1>7 DEF KeysDiffer
    <3> QED BY <3>2, <1>1
  <2> QED BY <2>1, <2>2, <2>3, <2>4
<1> QED BY <1>1, <1>3, <1>4, <1>5, <1>6, <1>7 DEF r

-----------------------------------------------------------------------------
(* The merge of sorted parts, as a stable sort: an order by key and index. *)

Precedes(s, i, j) == s[i].first < s[j].first \/ (s[i].first = s[j].first /\ i <= j)
UpToEntry(s, i) == { j \in DOMAIN s : Precedes(s, j, i) }

LEMMA PrecedesFacts ==
  ASSUME NEW E, HasKeys(E), NEW s \in Seq(E), NEW i \in 1..Len(s), NEW j \in 1..Len(s), i # j
  PROVE  /\ Precedes(s, i, j) \/ Precedes(s, j, i)
         /\ Precedes(s, i, j) => Cardinality(UpToEntry(s, i)) < Cardinality(UpToEntry(s, j))
<1>1. /\ Len(s) \in Nat /\ DOMAIN s = 1..Len(s)
      /\ \A n \in 1..Len(s) : s[n].first \in Nat
  BY EntryFacts
<1>2. Precedes(s, i, j) \/ Precedes(s, j, i)
  BY <1>1 DEF Precedes
<1>3. ASSUME Precedes(s, i, j)
      PROVE  Cardinality(UpToEntry(s, i)) < Cardinality(UpToEntry(s, j))
  <2>1. IsFiniteSet(1..Len(s)) /\ UpToEntry(s, i) \subseteq 1..Len(s) /\ UpToEntry(s, j) \subseteq 1..Len(s)
    <3>1. IsFiniteSet(1..Len(s))
      BY <1>1, FS_Interval
    <3> QED BY <1>1, <3>1 DEF UpToEntry
  <2>2. IsFiniteSet(UpToEntry(s, i)) /\ IsFiniteSet(UpToEntry(s, j))
    BY <2>1, FS_Subset
  <2>3. j \in UpToEntry(s, j) /\ j \notin UpToEntry(s, i)
    BY <1>1, <1>3 DEF UpToEntry, Precedes
  <2>4. UpToEntry(s, i) \in SUBSET UpToEntry(s, j)
    <3> SUFFICES ASSUME NEW n \in 1..Len(s), Precedes(s, n, i) PROVE Precedes(s, n, j)
      BY <1>1 DEF UpToEntry
    <3> QED BY <1>1, <1>3 DEF Precedes
  <2>5. /\ Cardinality(UpToEntry(s, i)) <= Cardinality(UpToEntry(s, j))
        /\ Cardinality(UpToEntry(s, i)) # Cardinality(UpToEntry(s, j))
    BY <2>2, <2>3, <2>4, FS_Subset
  <2> QED BY <2>2, <2>5, FS_CardinalityType
<1> QED BY <1>2, <1>3

\* Which entry comes n-th: e is a permutation that respects the order.
LEMMA StableSortOrders ==
  ASSUME NEW E, HasKeys(E), NEW s \in Seq(E)
  PROVE  \E e \in [1..Len(s) -> 1..Len(s)] :
           /\ StableSort(s) = [n \in 1..Len(s) |-> s[e[n]]]
           /\ \A i \in 1..Len(s) : \E n \in 1..Len(s) : e[n] = i
           /\ \A m, n \in 1..Len(s) : m < n => e[m] # e[n] /\ Precedes(s, e[m], e[n])
<1> DEFINE N == Len(s)
           r == [i \in 1..N |-> Cardinality(UpToEntry(s, i))]
           e == [n \in 1..N |-> CHOOSE i \in DOMAIN s : Cardinality(UpToEntry(s, i)) = n]
<1>1. N \in Nat /\ DOMAIN s = 1..N
  BY EntryFacts
<1>2. IsFiniteSet(1..N) /\ Cardinality(1..N) = N
  BY <1>1, FS_Interval, SMTT(30)
<1>3. ASSUME NEW i \in 1..N PROVE r[i] \in 1..N
  <2>1. UpToEntry(s, i) \in SUBSET (1..N) /\ i \in UpToEntry(s, i)
    BY <1>1 DEF UpToEntry, Precedes
  <2>2. IsFiniteSet(UpToEntry(s, i)) /\ Cardinality(UpToEntry(s, i)) <= N
    BY <1>2, <2>1, FS_Subset
  <2>3. Cardinality(UpToEntry(s, i)) \in Nat /\ Cardinality(UpToEntry(s, i)) # 0
    BY <2>1, <2>2, FS_CardinalityType, FS_EmptySet
  <2> QED BY <1>1, <2>2, <2>3
<1>4. ASSUME NEW i \in 1..N, NEW j \in 1..N, r[i] = r[j] PROVE i = j
  <2> SUFFICES ASSUME i # j PROVE FALSE
    OBVIOUS
  <2>1. Cardinality(UpToEntry(s, i)) = Cardinality(UpToEntry(s, j))
    BY <1>4
  <2>2. Cardinality(UpToEntry(s, i)) \in Int
    BY <1>3
  <2>3. \/ Cardinality(UpToEntry(s, i)) < Cardinality(UpToEntry(s, j))
        \/ Cardinality(UpToEntry(s, j)) < Cardinality(UpToEntry(s, i))
    BY PrecedesFacts
  <2> QED BY <2>1, <2>2, <2>3
<1>5. r \in Surjection(1..N, 1..N)
  <2>1. r \in [1..N -> 1..N]
    <3>1. r = [i \in 1..N |-> r[i]]
      OBVIOUS
    <3> HIDE DEF r
    <3> QED BY <1>3, <3>1
  <2>2. r \in Injection(1..N, 1..N)
    <3> HIDE DEF r
    <3> QED BY <1>4, <2>1 DEF Injection, IsInjective
  <2> HIDE DEF r
  <2> QED BY <1>2, <2>2, FS_Injection
<1>6. ASSUME NEW n \in 1..N PROVE e[n] \in 1..N /\ r[e[n]] = n
  <2>1. \E i \in 1..N : r[i] = n
    <3> HIDE DEF r
    <3> QED BY <1>5 DEF Surjection
  <2>2. \E i \in 1..N : Cardinality(UpToEntry(s, i)) = n
    BY <2>1
  <2> QED BY <1>1, <2>2
<1>7. StableSort(s) = [n \in 1..N |-> s[e[n]]]
  <2> DEFINE c(n) == CHOOSE i \in DOMAIN s : Cardinality(UpToEntry(s, i)) = n
  <2>1. StableSort(s) = [n \in DOMAIN s |-> s[c(n)]]
    BY Zenon DEF StableSort, UpToEntry, Precedes
  <2>2. \A n \in 1..N : e[n] = c(n)
    OBVIOUS
  <2> HIDE DEF c, e
  <2> QED BY <1>1, <2>1, <2>2
<1>8. e \in [1..N -> 1..N]
  <2>1. e = [n \in 1..N |-> e[n]]
    OBVIOUS
  <2> HIDE DEF e
  <2> QED BY <1>6, <2>1
<1>9. ASSUME NEW i \in 1..N PROVE \E n \in 1..N : e[n] = i
  <2>1. r[i] \in 1..N
    BY <1>3
  <2> HIDE DEF e, r
  <2>2. e[r[i]] = i
    BY <2>1, <1>4, <1>6
  <2> QED BY <2>1, <2>2
<1>10. ASSUME NEW m \in 1..N, NEW n \in 1..N, m < n
       PROVE  e[m] # e[n] /\ Precedes(s, e[m], e[n])
  <2>1. e[m] \in 1..N /\ e[n] \in 1..N /\ e[m] # e[n] /\ r[e[m]] < r[e[n]]
    <3> HIDE DEF e, r
    <3> QED BY <1>6, <1>10
  <2>2. ~(Cardinality(UpToEntry(s, e[n])) < Cardinality(UpToEntry(s, e[m])))
    <3>1. r[e[m]] \in Int /\ r[e[n]] \in Int
      <4> HIDE DEF e, r
      <4> QED BY <1>6
    <3>2. ~(r[e[n]] < r[e[m]])
      <4> HIDE DEF e, r
      <4> QED BY <2>1, <3>1
    <3> HIDE DEF e
    <3> QED BY <2>1, <3>2
  <2> HIDE DEF e
  <2> QED BY <2>1, <2>2, PrecedesFacts
<1> HIDE DEF e
<1> QED BY <1>7, <1>8, <1>9, <1>10

LEMMA StableSortFacts ==
  ASSUME NEW E, HasKeys(E), NEW s \in Seq(E)
  PROVE  /\ StableSort(s) \in Seq(E)
         /\ Keys(StableSort(s)) = Keys(s)
         /\ \A k \in Keys(s) : Found(StableSort(s), k) = Found(s, k)
         /\ KeysDiffer(s) => StrictlySorted(StableSort(s))
<1> DEFINE t == StableSort(s)
           N == Len(s)
<1>1. /\ N \in Nat /\ DOMAIN s = 1..N
      /\ \A i \in 1..N : s[i] \in E /\ s[i].first \in Nat
  BY EntryFacts
<1>2. PICK e \in [1..N -> 1..N] :
        /\ t = [n \in 1..N |-> s[e[n]]]
        /\ \A i \in 1..N : \E n \in 1..N : e[n] = i
        /\ \A m, n \in 1..N : m < n => e[m] # e[n] /\ Precedes(s, e[m], e[n])
  BY StableSortOrders
<1> HIDE DEF t, N
<1>3. \A n \in 1..N : e[n] \in 1..N /\ t[n] = s[e[n]]
  BY <1>2
<1>4. t \in Seq(E) /\ Len(t) = N /\ DOMAIN t = 1..N
  <2>1. t = [n \in 1..N |-> t[n]]
    BY <1>2
  <2>2. \A n \in 1..N : t[n] \in E
    BY <1>1, <1>3
  <2>3. t \in Seq(E) /\ Len(t) = N
    BY <1>1, <2>1, <2>2, EntriesFrom
  <2> QED BY <2>3
<1>5. Keys(t) = Keys(s)
  <2>1. \A n \in 1..N : t[n].first \in Keys(s)
    BY <1>1, <1>3 DEF Keys
  <2>2. ASSUME NEW i \in 1..N PROVE s[i].first \in Keys(t)
    <3>1. PICK n \in 1..N : e[n] = i
      BY <1>2
    <3> QED BY <3>1, <1>3, <1>4 DEF Keys
  <2> QED BY <2>1, <2>2, <1>1, <1>4 DEF Keys
<1>6. ASSUME NEW k \in Keys(s) PROVE Found(t, k) = Found(s, k)
  <2>1. PICK i \in 1..N : s[i].first = k /\ IsFirst(s, i) /\ Found(s, k) = s[i].second
    BY LookupFound DEF N
  <2>2. PICK n \in 1..N : e[n] = i
    BY <1>2
  <2>3. ASSUME NEW m \in 1..(n - 1) PROVE t[m].first # k
    <3>1. m \in 1..N /\ m < n
      BY <1>1
    <3>2. e[m] \in 1..N /\ e[m] # i /\ Precedes(s, e[m], i)
      BY <3>1, <2>2, <1>2
    <3>3. s[e[m]].first # k
      <4> SUFFICES ASSUME s[e[m]].first = k PROVE FALSE
        OBVIOUS
      <4>1. e[m] <= i
        BY <3>2, <2>1, <1>1 DEF Precedes
      <4>2. e[m] \in 1..(i - 1)
        BY <4>1, <3>2, <1>1
      <4> QED BY <4>2, <2>1 DEF IsFirst
    <3> QED BY <3>1, <3>3, <1>3
  <2>4. t[n] = s[i] /\ IsFirst(t, n)
    BY <2>1, <2>2, <2>3, <1>3 DEF IsFirst
  <2> QED BY <2>1, <2>4, <1>4, LookupIs
<1>7. ASSUME KeysDiffer(s) PROVE StrictlySorted(t)
  <2> SUFFICES ASSUME NEW m \in 1..N, NEW n \in 1..N, m < n PROVE t[m].first < t[n].first
    BY <1>4 DEF StrictlySorted
  <2>1. e[m] # e[n] /\ Precedes(s, e[m], e[n]) /\ e[m] \in 1..N /\ e[n] \in 1..N
    BY <1>2
  <2>2. s[e[m]].first # s[e[n]].first
    BY <2>1, <1>1, <1>7 DEF KeysDiffer
  <2>3. s[e[m]].first < s[e[n]].first
    BY <2>1, <2>2 DEF Precedes
  <2> QED BY <2>3, <1>3
<1> QED BY <1>4, <1>5, <1>6, <1>7 DEF t

-----------------------------------------------------------------------------
(* The union: the entries of y win, whatever is known about x.             *)

\* The values that the entries of `head` get from `u`, in place.
Updated(head, u) ==
  [i \in DOMAIN head |->
     IF IsFirst(head, i) /\ head[i].first \in Keys(u)
     THEN u[CHOOSE j \in DOMAIN u : u[j].first = head[i].first]
     ELSE head[i]]

LEMMA UpdatedFacts ==
  ASSUME NEW E, HasKeys(E), NEW h \in Seq(E), NEW u \in Seq(E), KeysDiffer(u)
  PROVE  /\ Updated(h, u) \in Seq(E)
         /\ Keys(Updated(h, u)) = Keys(h)
         /\ \A k \in Keys(h) : Found(Updated(h, u), k)
              = IF k \in Keys(u) THEN Found(u, k) ELSE Found(h, k)
         /\ StrictlySorted(h) => StrictlySorted(Updated(h, u))
<1> DEFINE t == Updated(h, u)
           N == Len(h)
           j(i) == CHOOSE j \in DOMAIN u : u[j].first = h[i].first
<1>1. /\ N \in Nat /\ DOMAIN h = 1..N /\ \A i \in 1..N : h[i] \in E
      /\ DOMAIN u = 1..Len(u) /\ \A i \in 1..Len(u) : u[i] \in E
  BY EntryFacts
<1>2. ASSUME NEW i \in 1..N, h[i].first \in Keys(u)
      PROVE  /\ j(i) \in 1..Len(u) /\ u[j(i)].first = h[i].first
             /\ u[j(i)].second = Found(u, h[i].first)
  <2>1. \E m \in DOMAIN u : u[m].first = h[i].first
    BY <1>2 DEF Keys
  <2>2. j(i) \in 1..Len(u) /\ u[j(i)].first = h[i].first
    BY <1>1, <2>1
  <2> HIDE DEF j
  <2>3. Found(u, u[j(i)].first) = u[j(i)].second
    BY <2>2, LookupOnly
  <2> QED BY <2>2, <2>3
<1>3. t = [i \in 1..N |-> IF IsFirst(h, i) /\ h[i].first \in Keys(u) THEN u[j(i)] ELSE h[i]]
  BY <1>1, Zenon DEF Updated
<1> HIDE DEF j, t, N
<1>4. \A i \in 1..N : /\ t[i] \in E
                      /\ t[i].first = h[i].first
                      /\ IsFirst(h, i) => t[i].second
                           = IF h[i].first \in Keys(u) THEN Found(u, h[i].first) ELSE h[i].second
  BY <1>1, <1>2, <1>3
<1>5. t \in Seq(E) /\ Len(t) = N /\ DOMAIN t = 1..N
  <2>1. t = [i \in 1..N |-> t[i]]
    BY <1>3
  <2>2. t \in Seq(E) /\ Len(t) = N
    BY <1>1, <1>4, <2>1, EntriesFrom
  <2> QED BY <2>2
<1>6. Keys(t) = Keys(h)
  BY <1>1, <1>4, <1>5 DEF Keys
<1>7. ASSUME NEW k \in Keys(h)
      PROVE  Found(t, k) = IF k \in Keys(u) THEN Found(u, k) ELSE Found(h, k)
  <2>1. PICK i \in 1..N : h[i].first = k /\ IsFirst(h, i) /\ Found(h, k) = h[i].second
    BY LookupFound DEF N
  <2>2. IsFirst(t, i)
    <3>1. \A m \in 1..(i - 1) : m \in 1..N
      BY <1>1
    <3> QED BY <2>1, <3>1, <1>4 DEF IsFirst
  <2>3. Found(t, k) = t[i].second
    BY <2>1, <2>2, <1>4, <1>5, LookupIs
  <2> QED BY <2>1, <2>3, <1>4
<1>8. ASSUME StrictlySorted(h) PROVE StrictlySorted(t)
  BY <1>1, <1>4, <1>5, <1>8 DEF StrictlySorted
<1> QED BY <1>5, <1>6, <1>7, <1>8 DEF t

LEMMA UnionFacts ==
  ASSUME NEW E, HasKeys(E), NEW x \in Seq(E), NEW y \in Seq(E), StrictlySorted(y)
  PROVE  /\ UnionLast(x, y) \in Seq(E)
         /\ Keys(UnionLast(x, y)) = Keys(x) \cup Keys(y)
         /\ \A k \in Keys(x) \cup Keys(y) : Found(UnionLast(x, y), k)
              = IF k \in Keys(y) THEN Found(y, k) ELSE Found(x, k)
         /\ StrictlySorted(x) /\ Keys(x) \cap Keys(y) = {} => StrictlySorted(UnionLast(x, y))
<1> DEFINE u == UniqueLast(y)
           early == { k \in Keys(x) : \A m \in Keys(u) \ Keys(x) : k < m }
           head == At(x, { i \in DOMAIN x : x[i].first \in early })
           Late(s) == At(s, { i \in DOMAIN s : s[i].first \notin early })
           both == Late(u) \o Late(x)
           late == StableSort(both)
           done == Updated(head, u)
<1>1. IsPart(E, u, y, Nat)
  <2>1. /\ DOMAIN y = 1..Len(y) /\ Len(y) \in Nat /\ \A i \in 1..Len(y) : y[i].first \in Nat
    BY EntryFacts
  <2>2. { i \in DOMAIN y : i = Len(y) \/ y[i].first # y[i + 1].first }
          = { i \in DOMAIN y : y[i].first \in Nat }
    <3>1. ASSUME NEW i \in DOMAIN y, i # Len(y) PROVE y[i].first # y[i + 1].first
      <4>1. i + 1 \in DOMAIN y /\ i < i + 1
        BY <2>1, <3>1
      <4>2. y[i].first < y[i + 1].first
        BY <4>1 DEF StrictlySorted
      <4> QED BY <2>1, <4>1, <4>2
    <3> QED BY <2>1, <3>1
  <2> QED BY <2>2, PartByKeys DEF UniqueLast
<1>2. /\ u \in Seq(E) /\ Keys(u) = Keys(y) /\ StrictlySorted(u) /\ KeysDiffer(u)
      /\ \A k \in Keys(y) : Found(u, k) = Found(y, k)
  <2>1. Keys(y) \subseteq Nat
    BY EntryFacts DEF Keys
  <2> HIDE DEF u
  <2>2. /\ u \in Seq(E) /\ Keys(u) = Keys(y) \cap Nat /\ StrictlySorted(u)
        /\ \A k \in Keys(u) : Found(u, k) = Found(y, k)
    BY <1>1 DEF IsPart
  <2> QED BY <2>1, <2>2, StrictIsDistinct
<1>3. UnionLast(x, y) = done \o late
  BY DEF UnionLast, Updated
<1> HIDE DEF u
<1>4. ASSUME NEW s \in Seq(E) PROVE IsPart(E, Late(s), s, Nat \ early)
  <2>1. \A i \in DOMAIN s : s[i].first \in Nat
    BY EntryFacts
  <2> HIDE DEF early
  <2>2. { i \in DOMAIN s : s[i].first \notin early } = { i \in DOMAIN s : s[i].first \in Nat \ early }
    BY <2>1
  <2> QED BY <2>2, PartByKeys
<1>5. IsPart(E, head, x, early)
  BY PartByKeys
<1>6. early \subseteq Keys(x) /\ Keys(x) \subseteq Nat /\ Keys(y) \subseteq Nat
  BY EntryFacts DEF Keys
<1>7. \A k \in early : \A m \in Keys(y) \ Keys(x) : k < m
  BY <1>2
<1>8. \A k \in Keys(x) \ early : \E m \in Keys(y) \ Keys(x) : ~(k < m)
  BY <1>2
<1>9. IsPart(E, Late(u), u, Nat \ early) /\ IsPart(E, Late(x), x, Nat \ early)
  BY <1>2, <1>4
<1> HIDE DEF early, head, Late
<1>10. /\ done \in Seq(E) /\ Keys(done) = early
       /\ \A k \in early : Found(done, k) = IF k \in Keys(y) THEN Found(y, k) ELSE Found(x, k)
       /\ StrictlySorted(x) => StrictlySorted(done)
  <2>1. /\ head \in Seq(E) /\ Keys(head) = early
        /\ \A k \in early : Found(head, k) = Found(x, k)
        /\ StrictlySorted(x) => StrictlySorted(head)
    BY <1>5, <1>6 DEF IsPart
  <2> QED BY <2>1, <1>2, UpdatedFacts, SMTT(30)
<1>11. /\ Late(u) \in Seq(E) /\ Late(x) \in Seq(E)
       /\ Keys(Late(u)) = Keys(y) \ early /\ Keys(Late(x)) = Keys(x) \ early
       /\ \A k \in Keys(y) \ early : Found(Late(u), k) = Found(y, k)
       /\ \A k \in Keys(x) \ early : Found(Late(x), k) = Found(x, k)
       /\ KeysDiffer(Late(u)) /\ (StrictlySorted(x) => KeysDiffer(Late(x)))
  BY <1>2, <1>6, <1>9, StrictIsDistinct DEF IsPart
<1>12. /\ both \in Seq(E) /\ Keys(both) = (Keys(x) \cup Keys(y)) \ early
       /\ \A k \in Keys(both) : Found(both, k) = IF k \in Keys(y) THEN Found(y, k) ELSE Found(x, k)
       /\ StrictlySorted(x) /\ Keys(x) \cap Keys(y) = {} => KeysDiffer(both)
  BY <1>11, ConcatFacts
<1> HIDE DEF both, done
<1>13. /\ late \in Seq(E) /\ Keys(late) = (Keys(x) \cup Keys(y)) \ early
       /\ \A k \in Keys(late) : Found(late, k) = IF k \in Keys(y) THEN Found(y, k) ELSE Found(x, k)
       /\ StrictlySorted(x) /\ Keys(x) \cap Keys(y) = {} => StrictlySorted(late)
  BY <1>12, StableSortFacts
<1> HIDE DEF late
<1>14. ASSUME Keys(x) \cap Keys(y) = {}, NEW k \in early, NEW m \in (Keys(x) \cup Keys(y)) \ early
       PROVE  k < m
  <2>1. CASE m \in Keys(y)
    BY <2>1, <1>7, <1>14
  <2>2. CASE m \in Keys(x)
    <3>1. PICK l \in Keys(y) \ Keys(x) : ~(m < l)
      BY <2>2, <1>8
    <3>2. k < l /\ k \in Nat /\ l \in Nat /\ m \in Nat
      BY <1>6, <1>7, <2>2
    <3> QED BY <3>1, <3>2
  <2> QED BY <2>1, <2>2
<1>15. /\ done \o late \in Seq(E) /\ Keys(done \o late) = Keys(x) \cup Keys(y)
       /\ \A k \in Keys(x) \cup Keys(y) : Found(done \o late, k)
            = IF k \in Keys(y) THEN Found(y, k) ELSE Found(x, k)
       /\ StrictlySorted(x) /\ Keys(x) \cap Keys(y) = {} => StrictlySorted(done \o late)
  BY <1>6, <1>10, <1>13, <1>14, ConcatFacts
<1> QED BY <1>3, <1>15

-----------------------------------------------------------------------------
(* std::sort of what waits: the same entries in some order.                *)

LEMMA SortingFacts ==
  ASSUME NEW E, HasKeys(E), NEW s \in Seq(E), NEW t \in Sortings(s)
  PROVE  /\ t \in Seq(E) /\ Keys(t) = Keys(s)
         /\ KeysDiffer(s) => /\ StrictlySorted(t)
                           /\ \A k \in Keys(s) : Found(t, k) = Found(s, k)
<1> DEFINE N == Len(s)
<1>1. /\ N \in Nat /\ DOMAIN s = 1..N
      /\ \A i \in 1..N : s[i] \in E
  BY EntryFacts
<1>2. Sorted(t) /\ \E p \in Shuffles(s) : t = [i \in DOMAIN s |-> s[p[i]]]
  BY DEF Sortings
<1>3. PICK p \in Shuffles(s) : t = [i \in DOMAIN s |-> s[p[i]]]
  BY <1>2
<1> HIDE DEF N
<1>4. p \in [1..N -> 1..N] /\ \A i, j \in 1..N : p[i] = p[j] => i = j
  BY <1>1, <1>3 DEF Shuffles
<1>5. \A i \in 1..N : \E n \in 1..N : p[n] = i
  <2>1. IsFiniteSet(1..N)
    BY <1>1, FS_Interval
  <2>2. p \in Injection(1..N, 1..N)
    BY <1>4 DEF Injection, IsInjective
  <2>3. p \in Surjection(1..N, 1..N)
    BY <2>1, <2>2, FS_Injection
  <2> QED BY <2>3 DEF Surjection
<1>6. \A n \in 1..N : p[n] \in 1..N /\ t[n] = s[p[n]]
  BY <1>1, <1>3, <1>4
<1>7. t \in Seq(E) /\ Len(t) = N /\ DOMAIN t = 1..N
  <2>1. t = [n \in 1..N |-> t[n]]
    BY <1>1, <1>3
  <2>2. \A n \in 1..N : t[n] \in E
    BY <1>1, <1>6
  <2>3. t \in Seq(E) /\ Len(t) = N
    BY <1>1, <2>1, <2>2, EntriesFrom
  <2> QED BY <2>3
<1>8. Keys(t) = Keys(s)
  <2>1. \A n \in 1..N : t[n].first \in Keys(s)
    BY <1>1, <1>6 DEF Keys
  <2>2. ASSUME NEW i \in 1..N PROVE s[i].first \in Keys(t)
    <3>1. PICK n \in 1..N : p[n] = i
      BY <1>5
    <3> QED BY <3>1, <1>6, <1>7 DEF Keys
  <2> QED BY <2>1, <2>2, <1>1, <1>7 DEF Keys
<1>9. ASSUME KeysDiffer(s)
      PROVE  StrictlySorted(t) /\ \A k \in Keys(s) : Found(t, k) = Found(s, k)
  <2>1. KeysDiffer(t)
    <3> SUFFICES ASSUME NEW m \in 1..N, NEW n \in 1..N, t[m].first = t[n].first PROVE m = n
      BY <1>7 DEF KeysDiffer
    <3>1. p[m] = p[n]
      BY <1>1, <1>6, <1>9 DEF KeysDiffer
    <3> QED BY <3>1, <1>4
  <2>2. ASSUME NEW n \in 1..N PROVE Found(t, t[n].first) = Found(s, t[n].first)
    <3>1. Found(t, t[n].first) = t[n].second
      BY <2>1, <1>7, LookupOnly
    <3>2. Found(s, s[p[n]].first) = s[p[n]].second
      BY <1>6, <1>9, LookupOnly DEF N
    <3> QED BY <3>1, <3>2, <1>6
  <2>3. \A k \in Keys(s) : \E n \in 1..N : t[n].first = k
    BY <1>7, <1>8 DEF Keys
  <2> QED BY <2>1, <2>2, <2>3, <1>2, <1>7, StrictIsDistinct
<1> QED BY <1>7, <1>8, <1>9

-----------------------------------------------------------------------------
(* Sorted sequences are determined by their keys and look-ups.             *)

LEMMA StrictAgree ==
  ASSUME NEW E, HasKeys(E), NEW s \in Seq(E), NEW t \in Seq(E),
         StrictlySorted(s), StrictlySorted(t), Keys(s) \subseteq Keys(t),
         NEW i \in 1..Len(s), \A j \in 1..(i - 1) : j <= Len(t) /\ t[j].first = s[j].first
  PROVE  i <= Len(t) /\ t[i].first <= s[i].first
<1>1. /\ Len(s) \in Nat /\ DOMAIN s = 1..Len(s) /\ Len(t) \in Nat /\ DOMAIN t = 1..Len(t)
      /\ \A j \in 1..Len(s) : s[j].first \in Nat
      /\ \A j \in 1..Len(t) : t[j].first \in Nat
  BY EntryFacts
<1>2. PICK m \in 1..Len(t) : t[m].first = s[i].first
  BY <1>1 DEF Keys
<1>3. ~(m < i)
  <2> SUFFICES ASSUME m < i PROVE FALSE
    OBVIOUS
  <2>1. m \in 1..(i - 1) /\ m \in 1..Len(s)
    BY <1>1
  <2>2. s[m].first = s[i].first
    BY <1>2, <2>1
  <2>3. s[m].first < s[i].first
    BY <1>1, <2>1 DEF StrictlySorted
  <2> QED BY <1>1, <2>2, <2>3
<1>4. i \in 1..Len(t)
  BY <1>1, <1>3
<1>5. i = m \/ t[i].first < t[m].first
  BY <1>1, <1>3, <1>4 DEF StrictlySorted
<1> QED BY <1>1, <1>2, <1>4, <1>5

LEMMA StrictSame ==
  ASSUME NEW E, HasKeys(E), NEW s \in Seq(E), NEW t \in Seq(E),
         StrictlySorted(s), StrictlySorted(t), Keys(s) = Keys(t)
  PROVE  Len(s) = Len(t) /\ \A i \in 1..Len(s) : s[i].first = t[i].first
<1> DEFINE T == { i \in Nat : \/ i \in 1..Len(s) /\ ~(i <= Len(t) /\ t[i].first = s[i].first)
                              \/ i \in 1..Len(t) /\ ~(i <= Len(s) /\ t[i].first = s[i].first) }
<1>1. /\ Len(s) \in Nat /\ Len(t) \in Nat
      /\ \A j \in 1..Len(s) : s[j].first \in Nat
      /\ \A j \in 1..Len(t) : t[j].first \in Nat
  BY EntryFacts
<1>2. T = {}
  <2> SUFFICES ASSUME T # {} PROVE FALSE
    OBVIOUS
  <2>1. PICK i \in T : \A j \in T : i <= j
    BY LeastNat
  <2>2. \A j \in 1..(i - 1) : j \in Nat /\ j \notin T
    BY <2>1
  <2>3. \A j \in 1..(i - 1) : /\ j <= Len(s) <=> j <= Len(t)
                              /\ j <= Len(s) => t[j].first = s[j].first
    BY <1>1, <2>2
  <2>4. CASE i \in 1..Len(s)
    <3>1. \A j \in 1..(i - 1) : j <= Len(t) /\ t[j].first = s[j].first
      BY <1>1, <2>3, <2>4
    <3>2. i <= Len(t) /\ t[i].first <= s[i].first
      BY <2>4, <3>1, StrictAgree
    <3>3. i \in 1..Len(t) /\ \A j \in 1..(i - 1) : j <= Len(s) /\ s[j].first = t[j].first
      BY <1>1, <2>4, <3>1, <3>2
    <3>4. s[i].first <= t[i].first
      BY <3>3, StrictAgree
    <3> QED BY <1>1, <2>1, <2>4, <3>2, <3>3, <3>4
  <2>5. CASE i \in 1..Len(t)
    <3>1. \A j \in 1..(i - 1) : j <= Len(s) /\ s[j].first = t[j].first
      BY <1>1, <2>3, <2>5
    <3>2. i <= Len(s) /\ s[i].first <= t[i].first
      BY <2>5, <3>1, StrictAgree
    <3>3. i \in 1..Len(s)
      BY <1>1, <2>5, <3>2
    <3> QED BY <2>4, <3>3
  <2> QED BY <2>1, <2>4, <2>5
<1>3. \A i \in 1..Len(s) : i <= Len(t) /\ t[i].first = s[i].first
  BY <1>2
<1>4. \A i \in 1..Len(t) : i <= Len(s)
  BY <1>2
<1>5. Len(s) = Len(t)
  <2>1. Len(s) <= Len(t)
    BY <1>1, <1>3
  <2>2. Len(t) <= Len(s)
    BY <1>1, <1>4
  <2> QED BY <1>1, <2>1, <2>2
<1> QED BY <1>3, <1>5

LEMMA StrictUnique ==
  ASSUME NEW E, HasKeys(E), \A e \in E : e = [first |-> e.first, second |-> e.second],
         NEW s \in Seq(E), NEW t \in Seq(E),
         StrictlySorted(s), StrictlySorted(t), Keys(s) = Keys(t),
         \A k \in Keys(s) : Found(s, k) = Found(t, k)
  PROVE  s = t
<1>1. Len(s) = Len(t) /\ \A i \in 1..Len(s) : s[i].first = t[i].first
  BY StrictSame
<1>2. KeysDiffer(s) /\ KeysDiffer(t)
  BY StrictIsDistinct
<1>3. ASSUME NEW i \in 1..Len(s) PROVE s[i] = t[i]
  <2>1. Found(s, s[i].first) = s[i].second /\ Found(t, t[i].first) = t[i].second
    BY <1>1, <1>2, LookupOnly
  <2>2. s[i].first \in Keys(s)
    BY EntryFacts DEF Keys
  <2>3. s[i].second = t[i].second
    BY <1>1, <2>1, <2>2
  <2>4. s[i] \in E /\ t[i] \in E
    BY <1>1
  <2> QED BY <1>1, <2>3, <2>4
<1>4. s = [i \in 1..Len(s) |-> s[i]] /\ t = [i \in 1..Len(t) |-> t[i]]
  BY EntryFacts
<1> QED BY <1>1, <1>3, <1>4
=============================================================================
