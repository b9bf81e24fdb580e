------------------------ MODULE LouvainPasses_proofs ------------------------
(***************************************************************************)
(* The passes of Louvain for every graph, number of threads and number of  *)
(* passes: the exclusive scan computes prefix sums wherever it is called,  *)
(* communities only coarsen, the edges of the next graph fit into their    *)
(* buffers, and each later pass works on the quotient of the input.        *)
(***************************************************************************)
EXTENDS LouvainPasses, Operators_proofs, SequenceTheorems

-----------------------------------------------------------------------------
(* The chunks of n elements among k threads: chunk t is between two cuts.  *)
Width(k, n) == (n + k - 1) \div k
Cut(k, t, n) == IF t * Width(k, n) < n THEN t * Width(k, n) ELSE n

LEMMA WidthFacts ==
  ASSUME NEW k \in Nat \ {0}, NEW n \in Nat
  PROVE  Width(k, n) \in Nat /\ k * Width(k, n) >= n
<1> DEFINE m == n + k - 1
<1>1. m \in Nat /\ m - (k - 1) = n
  OBVIOUS
<1>2. m \div k \in Nat /\ k * (m \div k) + (m % k) = m /\ m % k \in 0..(k - 1)
  <2> HIDE DEF m
  <2> QED
    BY <1>1
<1> QED
  BY <1>1, <1>2 DEF Width

LEMMA Products ==
  ASSUME NEW s \in Nat, NEW t \in Nat, NEW w \in Nat
  PROVE  /\ t * w \in Nat /\ 0 * w = 0
         /\ (t + 1) * w = t * w + w
         /\ s <= t => s * w <= t * w
<1>1. t * w \in Nat /\ 0 * w = 0 /\ (t + 1) * w = t * w + w
  OBVIOUS
<1>2. ASSUME s <= t PROVE s * w <= t * w
  <2>1. PICK d \in Nat : t = s + d
    <3>1. t - s \in Nat /\ t = s + (t - s)
      BY <1>2
    <3> QED
      BY <3>1
  <2>2. t * w = s * w + d * w /\ d * w \in Nat /\ s * w \in Nat
    BY <2>1
  <2> QED
    BY <2>2
<1> QED
  BY <1>1, <1>2

(* The cuts go up from 0 to n, a width at a time.                          *)
LEMMA CutFacts ==
  ASSUME NEW k \in Nat \ {0}, NEW n \in Nat
  PROVE  /\ Cut(k, 0, n) = 0
         /\ \A t \in Nat : /\ Cut(k, t, n) \in 0..n
                           /\ Cut(k, t, n) <= Cut(k, t + 1, n)
                           /\ k <= t => Cut(k, t, n) = n
         /\ \A s, t \in Nat : s <= t => Cut(k, s, n) <= Cut(k, t, n)
<1> DEFINE w == Width(k, n)
<1>1. w \in Nat /\ k * w >= n /\ k \in Nat
  BY WidthFacts
<1> HIDE DEF w
<1>2. \A s, t \in Nat : /\ t * w \in Nat /\ 0 * w = 0
                        /\ (t + 1) * w = t * w + w
                        /\ s <= t => s * w <= t * w
  BY <1>1, Products
<1>3. \A t : Cut(k, t, n) = IF t * w < n THEN t * w ELSE n
  BY DEF Cut, w
<1>4. Cut(k, 0, n) = 0
  BY <1>2, <1>3
<1>5. ASSUME NEW s \in Nat, NEW t \in Nat, s <= t
      PROVE  Cut(k, s, n) <= Cut(k, t, n)
  <2>1. s * w \in Nat /\ t * w \in Nat /\ s * w <= t * w
    BY <1>2, <1>5
  <2> QED
    BY <1>3, <2>1
<1>6. \A t \in Nat : Cut(k, t, n) \in 0..n /\ (k <= t => Cut(k, t, n) = n)
  <2>1. \A t \in Nat : t * w \in Nat /\ (k <= t => k * w <= t * w) /\ k * w \in Nat
    BY <1>1, <1>2
  <2> QED
    BY <1>1, <1>3, <2>1
<1> QED
  BY <1>4, <1>5, <1>6

(* Every element is in one chunk.                                          *)
LEMMA ChunkOf ==
  ASSUME NEW k \in Nat \ {0}, NEW n \in Nat, NEW i \in 0..(n - 1)
  PROVE  /\ \E t \in 0..(k - 1) : i \in Cut(k, t, n)..(Cut(k, t + 1, n) - 1)
         /\ \A s, t \in 0..(k - 1) :
              /\ i \in Cut(k, s, n)..(Cut(k, s + 1, n) - 1)
              /\ i \in Cut(k, t, n)..(Cut(k, t + 1, n) - 1)
              => s = t
<1>1. /\ Cut(k, 0, n) = 0
      /\ \A t \in Nat : Cut(k, t, n) \in 0..n /\ (k <= t => Cut(k, t, n) = n)
      /\ \A s, t \in Nat : s <= t => Cut(k, s, n) <= Cut(k, t, n)
  BY CutFacts
<1>2. \E t \in 0..(k - 1) : i \in Cut(k, t, n)..(Cut(k, t + 1, n) - 1)
  <2> DEFINE R == { t \in Nat : i < Cut(k, t, n) }
  <2>1. k \in R /\ R \subseteq Nat
    BY <1>1
  <2>2. PICK t \in R : \A s \in R : t <= s
    BY <2>1, LeastNat
  <2>3. t # 0 /\ t \in Nat /\ t <= k
    BY <1>1, <2>1, <2>2
  <2>4. t - 1 \in Nat /\ t - 1 \notin R
    BY <2>2, <2>3
  <2>5. Cut(k, t - 1, n) <= i /\ i < Cut(k, (t - 1) + 1, n) /\ Cut(k, t - 1, n) \in Int
        /\ Cut(k, (t - 1) + 1, n) \in Int
    BY <1>1, <2>2, <2>3, <2>4
  <2>6. t - 1 \in 0..(k - 1)
    BY <2>3
  <2> HIDE DEF R
  <2>7. i \in Cut(k, t - 1, n)..(Cut(k, (t - 1) + 1, n) - 1)
    BY <2>5
  <2> QED
    BY <2>6, <2>7
<1>3. ASSUME NEW s \in 0..(k - 1), NEW t \in 0..(k - 1), s < t,
             i < Cut(k, s + 1, n), Cut(k, t, n) <= i
      PROVE  FALSE
  <2>1. s + 1 <= t /\ s + 1 \in Nat /\ t \in Nat
    BY <1>3
  <2>2. Cut(k, s + 1, n) <= Cut(k, t, n) /\ Cut(k, s + 1, n) \in Int /\ Cut(k, t, n) \in Int
    BY <1>1, <2>1
  <2> QED
    BY <1>3, <2>2
<1>4. ASSUME NEW s \in 0..(k - 1), NEW t \in 0..(k - 1),
             i \in Cut(k, s, n)..(Cut(k, s + 1, n) - 1),
             i \in Cut(k, t, n)..(Cut(k, t + 1, n) - 1)
      PROVE  s = t
  <2>1. \A r \in 0..(k - 1) : r \in Nat /\ r + 1 \in Nat
    OBVIOUS
  <2>2. Cut(k, s, n) <= i /\ i < Cut(k, s + 1, n) /\ Cut(k, t, n) <= i /\ i < Cut(k, t + 1, n)
    BY <1>1, <1>4, <2>1
  <2> QED
    BY <1>3, <2>2
<1> QED
  BY <1>2, <1>4

-----------------------------------------------------------------------------
(***************************************************************************)
(* One call of exclusiveScanOmpW on an array: a is the array now, g before *)
(* the call, b the threads' sums, k the number of threads that run.        *)
(***************************************************************************)
InChunk(k, t, n) == Cut(k, t, n)..(Cut(k, t + 1, n) - 1)

LocalSums(a, b, k, left, g, n) ==
  /\ \A t \in 0..(k - 1) :
       /\ \A i \in InChunk(k, t, n) :
            a[i] = IF t \in left THEN g[i] ELSE Sum(g, Cut(k, t, n), i)
       /\ t \notin left => b[t] = Sum(g, Cut(k, t, n), Cut(k, t + 1, n))
       /\ t \in left => b[t] = 0
  /\ \A t \in k..(H - 1) : b[t] = 0

AddedSums(a, b, k, left, g, n) ==
  /\ \A t \in 0..(k - 1) : \A i \in InChunk(k, t, n) :
       a[i] = IF t \in left THEN Sum(g, Cut(k, t, n), i) ELSE Sum(g, 0, i)
  /\ \A t \in 0..(H - 1) : b[t] = Sum(g, 0, Cut(k, t + 1, n))

(* What holds of the arrays while the scan runs.                           *)
ScanOK(a, b, k, st, left, g, n) ==
  /\ n \in Nat /\ k \in 1..H
  /\ 0..(n - 1) \subseteq DOMAIN a /\ DOMAIN b = 0..(H - 1)
  /\ left \subseteq 0..(k - 1)
  /\ \A i \in 0..(n - 1) : g[i] \in Int
  /\ st \in {"local", "add"}
  /\ st = "local" => LocalSums(a, b, k, left, g, n)
  /\ st = "add" => AddedSums(a, b, k, left, g, n)

(* The three steps, on an array a that becomes a1.                         *)
LocalScanTo(a, a1, b, b1, k, t, n) ==
  /\ a1 = [i \in DOMAIN a |-> IF i \in InChunk(k, t, n) THEN Sum(a, Cut(k, t, n), i) ELSE a[i]]
  /\ b1 = [b EXCEPT ![t] = Sum(a, Cut(k, t, n), Cut(k, t + 1, n))]

CombineTo(b, b1) == b1 = [t \in DOMAIN b |-> Sum(b, 0, t + 1)]

AddBeforeTo(a, a1, b, k, t, n) ==
  a1 = [i \in DOMAIN a |-> IF i \in InChunk(k, t, n) /\ t # 0 THEN a[i] + b[t - 1] ELSE a[i]]

(* At the start every chunk is as it was and every sum is 0.               *)
LEMMA ScanStarts ==
  ASSUME NEW a, NEW n \in Nat, NEW k \in 1..H, H \in Nat,
         0..(n - 1) \subseteq DOMAIN a, \A i \in 0..(n - 1) : a[i] \in Int
  PROVE  ScanOK(a, [t \in 0..(H - 1) |-> 0], k, "local", 0..(k - 1), a, n)
<1> DEFINE b == [t \in 0..(H - 1) |-> 0]
<1>1. LocalSums(a, b, k, 0..(k - 1), a, n)
  BY DEF LocalSums
<1> QED
  BY <1>1 DEF ScanOK

LEMMA ChunkBounds ==
  ASSUME NEW k \in Nat \ {0}, NEW n \in Nat, NEW t \in Nat
  PROVE  /\ Cut(k, t, n) \in 0..n /\ Cut(k, t + 1, n) \in 0..n
         /\ Cut(k, t, n) <= Cut(k, t + 1, n)
         /\ InChunk(k, t, n) \subseteq 0..(n - 1)
         /\ \A i \in InChunk(k, t, n) : Cut(k, t, n) <= i /\ i < Cut(k, t + 1, n)
<1>1. /\ Cut(k, t, n) \in 0..n /\ Cut(k, t + 1, n) \in 0..n
      /\ Cut(k, t, n) <= Cut(k, t + 1, n)
  BY CutFacts
<1> QED
  BY <1>1 DEF InChunk

LEMMA LocalScanKeeps ==
  ASSUME NEW a, NEW a1, NEW b, NEW b1, NEW k, NEW left, NEW g, NEW n, H \in Nat,
         ScanOK(a, b, k, "local", left, g, n), NEW t \in left,
         LocalScanTo(a, a1, b, b1, k, t, n)
  PROVE  ScanOK(a1, b1, k, "local", left \ {t}, g, n)
<1>1. /\ n \in Nat /\ k \in Nat \ {0} /\ k <= H /\ t \in 0..(k - 1) /\ t \in Nat
      /\ 0..(n - 1) \subseteq DOMAIN a /\ DOMAIN b = 0..(H - 1)
      /\ LocalSums(a, b, k, left, g, n)
  BY DEF ScanOK
<1>2. /\ Cut(k, t, n) \in 0..n /\ Cut(k, t + 1, n) \in 0..n
      /\ InChunk(k, t, n) \subseteq 0..(n - 1)
      /\ \A i \in InChunk(k, t, n) : Cut(k, t, n) <= i /\ i < Cut(k, t + 1, n)
  BY <1>1, ChunkBounds
<1>3. \A i \in InChunk(k, t, n) : a[i] = g[i]
  BY <1>1 DEF LocalSums
<1>4. Sum(a, Cut(k, t, n), Cut(k, t + 1, n)) = Sum(g, Cut(k, t, n), Cut(k, t + 1, n))
  <2>1. \A j \in Cut(k, t, n)..(Cut(k, t + 1, n) - 1) : a[j] = g[j]
    BY <1>3 DEF InChunk
  <2> QED
    BY <1>2, <2>1, SumEqual, SMTT(30)
<1>5. ASSUME NEW i \in InChunk(k, t, n)
      PROVE  a1[i] = Sum(g, Cut(k, t, n), i)
  <2>1. a1[i] = Sum(a, Cut(k, t, n), i) /\ i \in Nat
    BY <1>1, <1>2 DEF LocalScanTo
  <2>2. \A j \in Cut(k, t, n)..(i - 1) : a[j] = g[j]
    <3>1. \A j \in Cut(k, t, n)..(i - 1) : j \in InChunk(k, t, n)
      BY <1>2, <2>1 DEF InChunk
    <3> QED
      BY <1>3, <3>1
  <2> QED
    BY <1>2, <2>1, <2>2, SumEqual, SMTT(30)
<1>6. ASSUME NEW s \in 0..(k - 1), s # t, NEW i \in InChunk(k, s, n)
      PROVE  a1[i] = a[i]
  <2>1. s \in Nat /\ i \in 0..(n - 1)
    BY <1>1, ChunkBounds
  <2>2. i \notin InChunk(k, t, n)
    BY <1>1, <1>6, <2>1, ChunkOf DEF InChunk
  <2> QED
    BY <1>1, <2>1, <2>2 DEF LocalScanTo
<1>7. /\ b1[t] = Sum(g, Cut(k, t, n), Cut(k, t + 1, n))
      /\ \A s \in 0..(H - 1) : s # t => b1[s] = b[s]
      /\ DOMAIN b1 = 0..(H - 1)
  BY <1>1, <1>4 DEF LocalScanTo
<1>8. LocalSums(a1, b1, k, left \ {t}, g, n)
  <2>1. ASSUME NEW s \in 0..(k - 1)
        PROVE  /\ \A i \in InChunk(k, s, n) :
                    a1[i] = IF s \in left \ {t} THEN g[i] ELSE Sum(g, Cut(k, s, n), i)
               /\ s \notin left \ {t} => b1[s] = Sum(g, Cut(k, s, n), Cut(k, s + 1, n))
               /\ s \in left \ {t} => b1[s] = 0
    <3>1. CASE s = t
      BY <1>5, <1>7, <3>1
    <3>2. CASE s # t
      <4>1. s \in 0..(H - 1)
        BY <1>1
      <4>2. b1[s] = b[s]
        BY <1>7, <3>2, <4>1
      <4> QED
        BY <1>1, <1>6, <3>2, <4>2 DEF LocalSums
    <3> QED
      BY <3>1, <3>2
  <2>2. \A s \in k..(H - 1) : b1[s] = 0
    BY <1>1, <1>7 DEF LocalSums
  <2> QED
    BY <2>1, <2>2 DEF LocalSums
<1>9. 0..(n - 1) \subseteq DOMAIN a1
  BY <1>1 DEF LocalScanTo
<1> QED
  BY <1>7, <1>8, <1>9 DEF ScanOK

(* The sums of the threads, added up, are those of all chunks so far.      *)
LEMMA CombineKeeps ==
  ASSUME NEW a, NEW b, NEW b1, NEW k, NEW g, NEW n, H \in Nat,
         ScanOK(a, b, k, "local", {}, g, n), CombineTo(b, b1)
  PROVE  ScanOK(a, b1, k, "add", 0..(k - 1), g, n)
<1>1. /\ n \in Nat /\ k \in Nat \ {0} /\ k <= H /\ k - 1 \in Nat
      /\ 0..(n - 1) \subseteq DOMAIN a /\ DOMAIN b = 0..(H - 1)
      /\ \A i \in 0..(n - 1) : g[i] \in Int
      /\ LocalSums(a, b, k, {}, g, n)
  BY DEF ScanOK
<1>2. /\ Cut(k, 0, n) = 0
      /\ \A t \in Nat : /\ Cut(k, t, n) \in 0..n
                        /\ Cut(k, t, n) <= Cut(k, t + 1, n)
                        /\ k <= t => Cut(k, t, n) = n
  BY <1>1, CutFacts
<1> DEFINE R == { t \in Nat : t <= H => Sum(b, 0, t) = Sum(g, 0, Cut(k, t, n)) }
<1>3. 0 \in R
  BY <1>2, SumNone
<1>4. ASSUME NEW t \in Nat, t \in R PROVE t + 1 \in R
  <2> SUFFICES ASSUME t + 1 <= H PROVE Sum(b, 0, t + 1) = Sum(g, 0, Cut(k, t + 1, n))
    OBVIOUS
  <2>1. Sum(b, 0, t) = Sum(g, 0, Cut(k, t, n))
    BY <1>4
  <2>2. Sum(b, 0, t + 1) = Sum(b, 0, t) + b[t]
    BY SumNext
  <2>3. /\ Cut(k, t, n) \in 0..n /\ Cut(k, t + 1, n) \in 0..n
        /\ Cut(k, t, n) <= Cut(k, t + 1, n)
    BY <1>2
  <2>4. Sum(g, 0, Cut(k, t + 1, n))
          = Sum(g, 0, Cut(k, t, n)) + Sum(g, Cut(k, t, n), Cut(k, t + 1, n))
    BY <1>1, <2>3, SumSplit
  <2>5. b[t] = Sum(g, Cut(k, t, n), Cut(k, t + 1, n))
    <3>1. CASE t < k
      <4>1. t \in 0..(k - 1)
        BY <1>1, <3>1
      <4> QED
        BY <1>1, <4>1 DEF LocalSums
    <3>2. CASE k <= t
      <4>1. Cut(k, t, n) = n /\ Cut(k, t + 1, n) = n
        <5>1. t + 1 \in Nat /\ k <= t + 1
          BY <1>1, <3>2
        <5> QED
          BY <1>2, <3>2, <5>1
      <4>2. t \in k..(H - 1)
        BY <1>1, <3>2
      <4>3. b[t] = 0
        BY <1>1, <4>2 DEF LocalSums
      <4> QED
        BY <1>1, <4>1, <4>3, SumNone
    <3> QED
      BY <1>1, <3>1, <3>2
  <2> QED
    BY <2>1, <2>2, <2>4, <2>5
<1>5. \A t \in Nat : 0 <= t => t \in R
  <2> HIDE DEF R
  <2> QED
    BY <1>3, <1>4, Upward
<1>6. \A t \in 0..(H - 1) : b1[t] = Sum(g, 0, Cut(k, t + 1, n))
  <2>1. \A t \in 0..(H - 1) : t + 1 \in Nat /\ t + 1 <= H /\ b1[t] = Sum(b, 0, t + 1)
    BY <1>1 DEF CombineTo
  <2> QED
    BY <1>5, <2>1
<1>7. AddedSums(a, b1, k, 0..(k - 1), g, n)
  BY <1>1, <1>6 DEF LocalSums, AddedSums
<1>8. DOMAIN b1 = 0..(H - 1)
  BY <1>1 DEF CombineTo
<1> QED
  BY <1>7, <1>8 DEF ScanOK

LEMMA AddBeforeKeeps ==
  ASSUME NEW a, NEW a1, NEW b, NEW k, NEW left, NEW g, NEW n, H \in Nat,
         ScanOK(a, b, k, "add", left, g, n), NEW t \in left, AddBeforeTo(a, a1, b, k, t, n)
  PROVE  ScanOK(a1, b, k, "add", left \ {t}, g, n)
<1>1. /\ n \in Nat /\ k \in Nat \ {0} /\ k <= H /\ t \in 0..(k - 1) /\ t \in Nat
      /\ 0..(n - 1) \subseteq DOMAIN a
      /\ \A i \in 0..(n - 1) : g[i] \in Int
      /\ AddedSums(a, b, k, left, g, n)
  BY DEF ScanOK
<1>2. /\ Cut(k, t, n) \in 0..n
      /\ InChunk(k, t, n) \subseteq 0..(n - 1)
      /\ \A i \in InChunk(k, t, n) : Cut(k, t, n) <= i
  BY <1>1, ChunkBounds
<1>3. ASSUME NEW i \in InChunk(k, t, n)
      PROVE  a1[i] = Sum(g, 0, i)
  <2>1. a[i] = Sum(g, Cut(k, t, n), i) /\ i \in DOMAIN a /\ i \in 0..(n - 1)
    BY <1>1, <1>2 DEF AddedSums
  <2>2. CASE t = 0
    <3>1. Cut(k, t, n) = 0
      BY <1>1, <2>2, CutFacts
    <3> QED
      BY <2>1, <2>2, <3>1 DEF AddBeforeTo
  <2>3. CASE t # 0
    <3>1. t - 1 \in 0..(H - 1) /\ (t - 1) + 1 = t
      BY <1>1, <2>3
    <3>2. b[t - 1] = Sum(g, 0, Cut(k, t, n))
      BY <1>1, <3>1 DEF AddedSums
    <3>3. a1[i] = a[i] + b[t - 1]
      BY <2>1, <2>3 DEF AddBeforeTo
    <3>4. \A j \in 0..(i - 1) : g[j] \in Int
      BY <1>1, <2>1
    <3>5. Sum(g, 0, i) = Sum(g, 0, Cut(k, t, n)) + Sum(g, Cut(k, t, n), i)
      <4>1. Cut(k, t, n) \in Nat /\ 0 <= Cut(k, t, n) /\ i \in Nat /\ Cut(k, t, n) <= i
        BY <1>2, <2>1
      <4> QED
        BY <3>4, <4>1, SumSplit
    <3>6. Sum(g, 0, Cut(k, t, n)) \in Int /\ Sum(g, Cut(k, t, n), i) \in Int
      <4>1. Cut(k, t, n) \in Nat /\ i \in Nat /\ Cut(k, t, n) <= i
        BY <1>2, <2>1
      <4>2. /\ \A j \in 0..(Cut(k, t, n) - 1) : g[j] \in Int
            /\ \A j \in Cut(k, t, n)..(i - 1) : g[j] \in Int
        BY <3>4, <4>1
      <4> QED
        BY <4>1, <4>2, SumInt
    <3> QED
      BY <2>1, <3>2, <3>3, <3>5, <3>6
  <2> QED
    BY <2>2, <2>3
<1>4. ASSUME NEW s \in 0..(k - 1), s # t, NEW i \in InChunk(k, s, n)
      PROVE  a1[i] = a[i]
  <2>1. s \in Nat /\ i \in 0..(n - 1)
    BY <1>1, ChunkBounds
  <2>2. i \notin InChunk(k, t, n)
    BY <1>1, <1>4, <2>1, ChunkOf DEF InChunk
  <2> QED
    BY <1>1, <2>1, <2>2 DEF AddBeforeTo
<1>5. AddedSums(a1, b, k, left \ {t}, g, n)
  <2>1. ASSUME NEW s \in 0..(k - 1), NEW i \in InChunk(k, s, n)
        PROVE  a1[i] = IF s \in left \ {t} THEN Sum(g, Cut(k, s, n), i) ELSE Sum(g, 0, i)
    <3>1. CASE s = t
      BY <1>3, <3>1
    <3>2. CASE s # t
      BY <1>1, <1>4, <3>2 DEF AddedSums
    <3> QED
      BY <3>1, <3>2
  <2> QED
    BY <1>1, <2>1 DEF AddedSums
<1>6. 0..(n - 1) \subseteq DOMAIN a1
  BY <1>1 DEF AddBeforeTo
<1> QED
  BY <1>5, <1>6 DEF ScanOK

(* When every thread has added what is before it, the array holds sums.    *)
LEMMA ScanEnds ==
  ASSUME NEW a, NEW b, NEW k, NEW g, NEW n, H \in Nat,
         ScanOK(a, b, k, "add", {}, g, n)
  PROVE  /\ \A i \in 0..(n - 1) : a[i] = Sum(g, 0, i)
         /\ b[H - 1] = Sum(g, 0, n)
<1>1. /\ n \in Nat /\ k \in Nat \ {0} /\ k <= H
      /\ AddedSums(a, b, k, {}, g, n)
  BY DEF ScanOK
<1>2. ASSUME NEW i \in 0..(n - 1) PROVE a[i] = Sum(g, 0, i)
  <2>1. PICK t \in 0..(k - 1) : i \in InChunk(k, t, n)
    BY <1>1, ChunkOf DEF InChunk
  <2> QED
    BY <1>1, <2>1 DEF AddedSums
<1>3. b[H - 1] = Sum(g, 0, n)
  <2>1. H - 1 \in 0..(H - 1) /\ (H - 1) + 1 = H /\ H \in Nat
    BY <1>1
  <2>2. Cut(k, H, n) = n
    BY <1>1, CutFacts
  <2> QED
    BY <1>1, <2>1, <2>2 DEF AddedSums
<1> QED
  BY <1>2, <1>3

-----------------------------------------------------------------------------
(***************************************************************************)
(* The inductive invariant of the passes.  It says nothing once the loop   *)
(* has been left: End gives the buffers back.                              *)
(***************************************************************************)
Live == pc \notin {"end", "group", "done"}

(* The phases after the communities have been renumbered.                  *)
Renumbered == {"lookup", "count", "offsets", "claim", "regions", "aggregate"}
Listing == {"claim", "regions", "aggregate"}

(* The buffers are long enough for the pass, which may be shorter.         *)
Fits ==
  /\ p \in Nat /\ T \in 1..H /\ (pc # "move" => p >= 1)
  /\ DOMAIN ucom = Upto(S) /\ DOMAIN vcom = Upto(S)
  /\ DOMAIN cvkey = Upto(S) /\ DOMAIN slot = Upto(S)
  /\ z = [deg |-> z.deg, key |-> z.key, val |-> z.val]
  /\ Span \in 0..S
  /\ pc = "lookup" => ~isFirst
  /\ ~isFirst => DOMAIN y.deg = Upto(Span) /\ \A u \in Upto(Span) : y.deg[u] \in Nat
  /\ pc \in {"move", "exists", "rank", "lookup", "count"} => DOMAIN cvdeg = Upto(Span)
  /\ pc \in {"offsets"} \cup Listing => DOMAIN cvdeg = Upto(CN) /\ DOMAIN cvoff = 0..CN
  /\ pc \in {"exists", "rank"} \cup Renumbered => CN \in 0..Span
  /\ pc = "aggregate" => DOMAIN z.deg = Upto(CN) /\ \A c \in Upto(CN) : z.deg[c] \in Nat

(* Communities are vertices first, and their ranks from Renumber on.       *)
Labels ==
  /\ pc \in {"exists", "rank"} => \A u \in Upto(Span) : com[u] \in Upto(Span)
  /\ pc \in Renumbered => \A u \in Upto(Span) : com[u] \in Upto(CN)

(* CN counts the marks, and the community of every vertex has one.         *)
Marked(marks, left) ==
  /\ \A c \in Upto(Span) : marks[c] \in {0, 1}
  /\ CN = Sum(marks, 0, Span)
  /\ \A u \in Upto(Span) \ left : marks[com[u]] = 1

Marks ==
  /\ pc = "exists" => todo \subseteq Upto(Span) /\ Marked(cvdeg, todo)
  /\ pc = "rank" => Marked(given, {})

MembersOf(c) == { u \in Upto(Span) : com[u] = c }

Scans ==
  /\ pc = "rank" => ScanOK(cvdeg, buf, T, stage, todo, given, Span)
  /\ pc = "offsets" => /\ ScanOK(cvoff, buf, T, stage, todo, given, CN)
                       /\ \A c \in Upto(CN) : given[c] = Cardinality(MembersOf(c))
  /\ pc = "regions" => ScanOK(zoff, buf, T, stage, todo, given, CN)

(* The regions of cvkey: one for each community, as long as it has members.*)
Places ==
  pc \in Listing =>
    /\ \A c \in 0..CN : cvoff[c] \in 0..Span
    /\ \A c \in Upto(CN) : cvoff[c + 1] = cvoff[c] + Cardinality(MembersOf(c))
    /\ \A c, d \in 0..CN : c <= d => cvoff[c] <= cvoff[d]

Clean == pc # "claim" => \A u \in Upto(S) : slot[u] = Stale

(***************************************************************************)
(* Every vertex that has claimed has a place of its own in the region of   *)
(* its community: the one it is about to write, or wrote.                  *)
(***************************************************************************)
Claimed == Upto(Span) \ todo
ClaimedOf(c) == { u \in MembersOf(c) : u \in Claimed }

Placed(place, claimed, label, off, deg, key, held) ==
  /\ \A u \in claimed :
       /\ place[u] \in 0..(deg[label[u]] - 1)
       /\ held[u] \in {Stale, place[u]}
       /\ held[u] = Stale => key[off[label[u]] + place[u]] = u
  /\ \A u, w \in claimed : label[u] = label[w] /\ place[u] = place[w] => u = w

Claims ==
  pc = "claim" =>
    /\ todo \subseteq Upto(Span)
    /\ \A u \in Upto(S) : u \notin Claimed => slot[u] = Stale
    /\ \A c \in Upto(CN) : cvdeg[c] = Cardinality(ClaimedOf(c))
    /\ \E place \in [Claimed -> Upto(Span)] :
         Placed(place, Claimed, com, cvoff, cvdeg, cvkey, slot)

(* What the claims and the writes have left.                               *)
Listings ==
  pc \in {"regions", "aggregate"} => \A c \in Upto(CN) :
    /\ ToSet(Listed(c)) = MembersOf(c)
    /\ Len(Listed(c)) = Cardinality(MembersOf(c))

LiveInv ==
  /\ Fits /\ Labels /\ Marks /\ Scans
  /\ Places /\ Clean /\ Claims /\ Listings

PInv == Live => LiveInv

-----------------------------------------------------------------------------
(* The chunks of the module are those between the cuts.                    *)
LEMMA EndIsCut ==
  ASSUME NEW k \in Nat \ {0}, NEW t \in Nat, NEW n \in Nat
  PROVE  Cut(k, t + 1, n) =
           IF Cut(k, t, n) + Width(k, n) < n THEN Cut(k, t, n) + Width(k, n) ELSE n
<1> DEFINE w == Width(k, n)
<1>1. w \in Nat
  BY WidthFacts
<1> HIDE DEF w
<1>2. t * w \in Nat /\ (t + 1) * w = t * w + w
  BY <1>1, Products
<1>3. \A s : Cut(k, s, n) = IF s * w < n THEN s * w ELSE n
  BY DEF Cut, w
<1>4. Cut(k, t + 1, n) = IF Cut(k, t, n) + w < n THEN Cut(k, t, n) + w ELSE n
  BY <1>1, <1>2, <1>3
<1> QED
  BY <1>4 DEF w

LEMMA ScanChunks ==
  ASSUME T \in Nat \ {0}, NEW t \in Nat, NEW n \in Nat
  PROVE  /\ Ranks!First(t, n) = Cut(T, t, n) /\ Ranks!End(t, n) = Cut(T, t + 1, n)
         /\ Members!First(t, n) = Cut(T, t, n) /\ Members!End(t, n) = Cut(T, t + 1, n)
         /\ Rows!First(t, n) = Cut(T, t, n) /\ Rows!End(t, n) = Cut(T, t + 1, n)
<1>1. Ranks!First(t, n) = Cut(T, t, n)
  BY DEF Ranks!First, Ranks!Smaller, Ranks!chunkSize, Cut, Width
<1>2. Members!First(t, n) = Cut(T, t, n)
  BY DEF Members!First, Members!Smaller, Members!chunkSize, Cut, Width
<1>3. Rows!First(t, n) = Cut(T, t, n)
  BY DEF Rows!First, Rows!Smaller, Rows!chunkSize, Cut, Width
<1>4. Ranks!End(t, n) = Cut(T, t + 1, n)
  BY <1>1, EndIsCut DEF Ranks!End, Ranks!Smaller, Ranks!chunkSize, Width
<1>5. Members!End(t, n) = Cut(T, t + 1, n)
  BY <1>2, EndIsCut DEF Members!End, Members!Smaller, Members!chunkSize, Width
<1>6. Rows!End(t, n) = Cut(T, t + 1, n)
  BY <1>3, EndIsCut DEF Rows!End, Rows!Smaller, Rows!chunkSize, Width
<1> QED
  BY <1>1, <1>2, <1>3, <1>4, <1>5, <1>6

LEMMA SameSums ==
  \A f, i, n : /\ Ranks!Sum(f, i, n) = Sum(f, i, n)
               /\ Members!Sum(f, i, n) = Sum(f, i, n)
               /\ Rows!Sum(f, i, n) = Sum(f, i, n)
               /\ SumOf(f, n) = Sum(f, 0, n)
  BY DEF Ranks!Sum, Members!Sum, Rows!Sum, SumOf, Sum

(* A step of the scan in the words of the lemmas on scans.                 *)
ScanMoves(a, a1, n) ==
  \/ \E t \in todo :
       /\ stage = "local" /\ stage' = "local" /\ todo' = todo \ {t}
       /\ LocalScanTo(a, a1, buf, buf', T, t, n)
  \/ /\ stage = "local" /\ stage' = "add" /\ todo = {} /\ todo' = 0..(T - 1)
     /\ a1 = a /\ CombineTo(buf, buf')
  \/ \E t \in todo :
       /\ stage = "add" /\ stage' = "add" /\ todo' = todo \ {t}
       /\ AddBeforeTo(a, a1, buf, T, t, n) /\ buf' = buf

LEMMA ScanMovesKeep ==
  ASSUME NEW a, NEW a1, NEW n, H \in Nat, T' = T, given' = given,
         ScanOK(a, buf, T, stage, todo, given, n), ScanMoves(a, a1, n)
  PROVE  /\ ScanOK(a1, buf', T', stage', todo', given', n)
         /\ DOMAIN a1 = DOMAIN a
<1>1. CASE \E t \in todo :
             /\ stage = "local" /\ stage' = "local" /\ todo' = todo \ {t}
             /\ LocalScanTo(a, a1, buf, buf', T, t, n)
  <2>1. PICK t \in todo :
             /\ stage = "local" /\ stage' = "local" /\ todo' = todo \ {t}
             /\ LocalScanTo(a, a1, buf, buf', T, t, n)
    BY <1>1
  <2>2. ScanOK(a1, buf', T, "local", todo \ {t}, given, n)
    BY <2>1, LocalScanKeeps
  <2>3. DOMAIN a1 = DOMAIN a
    BY <2>1 DEF LocalScanTo
  <2> QED
    BY <2>1, <2>2, <2>3
<1>2. CASE /\ stage = "local" /\ stage' = "add" /\ todo = {} /\ todo' = 0..(T - 1)
           /\ a1 = a /\ CombineTo(buf, buf')
  BY <1>2, CombineKeeps
<1>3. CASE \E t \in todo :
             /\ stage = "add" /\ stage' = "add" /\ todo' = todo \ {t}
             /\ AddBeforeTo(a, a1, buf, T, t, n) /\ buf' = buf
  <2>1. PICK t \in todo :
             /\ stage = "add" /\ stage' = "add" /\ todo' = todo \ {t}
             /\ AddBeforeTo(a, a1, buf, T, t, n) /\ buf' = buf
    BY <1>3
  <2>2. ScanOK(a1, buf, T, "add", todo \ {t}, given, n)
    BY <2>1, AddBeforeKeeps
  <2>3. DOMAIN a1 = DOMAIN a
    BY <2>1 DEF AddBeforeTo
  <2> QED
    BY <2>1, <2>2, <2>3
<1> QED
  BY <1>1, <1>2, <1>3 DEF ScanMoves

LEMMA RanksMove ==
  ASSUME T \in 1..H, H \in Nat, NEW n \in Nat, Ranks!ScanStep(n)
  PROVE  T' = T /\ given' = given /\ ScanMoves(cvdeg, cvdeg', n)
<1>1. ASSUME NEW t \in 0..(H - 1), Ranks!LocalScan(t, n)
      PROVE  /\ t \in todo /\ stage = "local" /\ stage' = "local" /\ todo' = todo \ {t}
             /\ LocalScanTo(cvdeg, cvdeg', buf, buf', T, t, n)
  <2>1. Ranks!First(t, n) = Cut(T, t, n) /\ Ranks!End(t, n) = Cut(T, t + 1, n)
    BY ScanChunks
  <2> QED
    BY <1>1, <2>1, SameSums DEF Ranks!LocalScan, Ranks!Chunk, LocalScanTo, InChunk
<1>2. ASSUME NEW t \in 0..(H - 1), Ranks!AddBefore(t, n)
      PROVE  /\ t \in todo /\ stage = "add" /\ stage' = "add" /\ todo' = todo \ {t}
             /\ AddBeforeTo(cvdeg, cvdeg', buf, T, t, n) /\ buf' = buf
  <2>1. Ranks!First(t, n) = Cut(T, t, n) /\ Ranks!End(t, n) = Cut(T, t + 1, n)
    BY ScanChunks
  <2> QED
    BY <1>2, <2>1 DEF Ranks!AddBefore, Ranks!Chunk, AddBeforeTo, InChunk
<1>3. ASSUME Ranks!Combine
      PROVE  /\ stage = "local" /\ stage' = "add" /\ todo = {} /\ todo' = 0..(T - 1)
             /\ cvdeg' = cvdeg /\ CombineTo(buf, buf')
  BY <1>3, SameSums DEF Ranks!Combine, CombineTo
<1>4. T' = T /\ given' = given
  BY DEF Ranks!ScanStep, Ranks!LocalScan, Ranks!AddBefore, Ranks!Combine
<1> QED
  BY <1>1, <1>2, <1>3, <1>4 DEF Ranks!ScanStep, ScanMoves

LEMMA MembersMove ==
  ASSUME T \in 1..H, H \in Nat, NEW n \in Nat, Members!ScanStep(n)
  PROVE  T' = T /\ given' = given /\ ScanMoves(cvoff, cvoff', n)
<1>1. ASSUME NEW t \in 0..(H - 1), Members!LocalScan(t, n)
      PROVE  /\ t \in todo /\ stage = "local" /\ stage' = "local" /\ todo' = todo \ {t}
             /\ LocalScanTo(cvoff, cvoff', buf, buf', T, t, n)
  <2>1. Members!First(t, n) = Cut(T, t, n) /\ Members!End(t, n) = Cut(T, t + 1, n)
    BY ScanChunks
  <2> QED
    BY <1>1, <2>1, SameSums DEF Members!LocalScan, Members!Chunk, LocalScanTo, InChunk
<1>2. ASSUME NEW t \in 0..(H - 1), Members!AddBefore(t, n)
      PROVE  /\ t \in todo /\ stage = "add" /\ stage' = "add" /\ todo' = todo \ {t}
             /\ AddBeforeTo(cvoff, cvoff', buf, T, t, n) /\ buf' = buf
  <2>1. Members!First(t, n) = Cut(T, t, n) /\ Members!End(t, n) = Cut(T, t + 1, n)
    BY ScanChunks
  <2> QED
    BY <1>2, <2>1 DEF Members!AddBefore, Members!Chunk, AddBeforeTo, InChunk
<1>3. ASSUME Members!Combine
      PROVE  /\ stage = "local" /\ stage' = "add" /\ todo = {} /\ todo' = 0..(T - 1)
             /\ cvoff' = cvoff /\ CombineTo(buf, buf')
  BY <1>3, SameSums DEF Members!Combine, CombineTo
<1>4. T' = T /\ given' = given
  BY DEF Members!ScanStep, Members!LocalScan, Members!AddBefore, Members!Combine
<1> QED
  BY <1>1, <1>2, <1>3, <1>4 DEF Members!ScanStep, ScanMoves

LEMMA RowsMove ==
  ASSUME T \in 1..H, H \in Nat, NEW n \in Nat, Rows!ScanStep(n)
  PROVE  T' = T /\ given' = given /\ ScanMoves(zoff, zoff', n)
<1>1. ASSUME NEW t \in 0..(H - 1), Rows!LocalScan(t, n)
      PROVE  /\ t \in todo /\ stage = "local" /\ stage' = "local" /\ todo' = todo \ {t}
             /\ LocalScanTo(zoff, zoff', buf, buf', T, t, n)
  <2>1. Rows!First(t, n) = Cut(T, t, n) /\ Rows!End(t, n) = Cut(T, t + 1, n)
    BY ScanChunks
  <2> QED
    BY <1>1, <2>1, SameSums DEF Rows!LocalScan, Rows!Chunk, LocalScanTo, InChunk
<1>2. ASSUME NEW t \in 0..(H - 1), Rows!AddBefore(t, n)
      PROVE  /\ t \in todo /\ stage = "add" /\ stage' = "add" /\ todo' = todo \ {t}
             /\ AddBeforeTo(zoff, zoff', buf, T, t, n) /\ buf' = buf
  <2>1. Rows!First(t, n) = Cut(T, t, n) /\ Rows!End(t, n) = Cut(T, t + 1, n)
    BY ScanChunks
  <2> QED
    BY <1>2, <2>1 DEF Rows!AddBefore, Rows!Chunk, AddBeforeTo, InChunk
<1>3. ASSUME Rows!Combine
      PROVE  /\ stage = "local" /\ stage' = "add" /\ todo = {} /\ todo' = 0..(T - 1)
             /\ zoff' = zoff /\ CombineTo(buf, buf')
  BY <1>3, SameSums DEF Rows!Combine, CombineTo
<1>4. T' = T /\ given' = given
  BY DEF Rows!ScanStep, Rows!LocalScan, Rows!AddBefore, Rows!Combine
<1> QED
  BY <1>1, <1>2, <1>3, <1>4 DEF Rows!ScanStep, ScanMoves

-----------------------------------------------------------------------------
(* Sums of marks, and of counts by community.                              *)
LEMMA MarksCount ==
  ASSUME NEW f, NEW n \in Nat, \A j \in 0..(n - 1) : f[j] \in {0, 1}
  PROVE  /\ Sum(f, 0, n) \in 0..n
         /\ \A k \in 0..(n - 1) : f[k] = 1 => Sum(f, 0, k) \in 0..(Sum(f, 0, n) - 1)
<1> DEFINE R == { m \in Nat : m <= n => Sum(f, 0, m) \in 0..m }
<1>1. \A m \in Nat : 0 <= m => m \in R
  <2>1. 0 \in R
    BY SumNone
  <2>2. ASSUME NEW m \in Nat, m \in R PROVE m + 1 \in R
    <3> SUFFICES ASSUME m + 1 <= n PROVE Sum(f, 0, m + 1) \in 0..(m + 1)
      OBVIOUS
    <3>1. Sum(f, 0, m) \in 0..m /\ f[m] \in {0, 1}
      BY <2>2
    <3>2. Sum(f, 0, m + 1) = Sum(f, 0, m) + f[m]
      BY SumNext
    <3> QED
      BY <3>1, <3>2
  <2> HIDE DEF R
  <2> QED
    BY <2>1, <2>2, Upward
<1>2. ASSUME NEW k \in 0..(n - 1), f[k] = 1
      PROVE  Sum(f, 0, k) \in 0..(Sum(f, 0, n) - 1)
  <2>1. \A j \in 0..(n - 1) : f[j] \in Nat
    OBVIOUS
  <2>2. Sum(f, 0, k) \in Nat /\ Sum(f, k, n) \in Nat
    <3>1. k \in Nat /\ (\A j \in 0..(k - 1) : f[j] \in Nat) /\ (\A j \in k..(n - 1) : f[j] \in Nat)
      BY <2>1
    <3> QED
      BY <3>1, SumNat
  <2>3. Sum(f, 0, n) = Sum(f, 0, k) + Sum(f, k, n)
    <3>1. k \in Nat /\ 0 <= k /\ k <= n /\ \A j \in 0..(n - 1) : f[j] \in Int
      BY <2>1
    <3> QED
      BY <3>1, SumSplit
  <2>4. Sum(f, k, n) >= 1
    <3>1. k \in Nat /\ k \in k..(n - 1) /\ \A j \in k..(n - 1) : f[j] \in Nat
      BY <2>1
    <3>2. Sum(f, k, n) >= f[k]
      BY <3>1, SumPositive
    <3> QED
      BY <1>2, <3>2
  <2> QED
    BY <2>2, <2>3, <2>4
<1>3. Sum(f, 0, n) \in 0..n
  BY <1>1
<1> QED
  BY <1>2, <1>3

(* The members of the communities before c, when every vertex has one.     *)
AllOf(U, f, c) == { u \in U : f[u] = c }
AllBelow(U, f, c) == { u \in U : f[u] < c }

LEMMA CountsAddUp ==
  ASSUME NEW U, IsFiniteSet(U), NEW f, \A u \in U : f[u] \in Nat,
         NEW g, NEW n \in Nat, \A c \in 0..(n - 1) : g[c] = Cardinality(AllOf(U, f, c))
  PROVE  \A c \in 0..n : Sum(g, 0, c) = Cardinality(AllBelow(U, f, c))
<1> DEFINE Below(c) == AllBelow(U, f, c)
           Of(c) == AllOf(U, f, c)
           R == { m \in Nat : m <= n => Sum(g, 0, m) = Cardinality(Below(m)) }
<1>1. 0 \in R
  <2>1. Below(0) = {}
    BY DEF AllBelow
  <2> QED
    BY <2>1, SumNone, FS_EmptySet
<1>2. ASSUME NEW m \in Nat, m \in R PROVE m + 1 \in R
  <2> SUFFICES ASSUME m + 1 <= n PROVE Sum(g, 0, m + 1) = Cardinality(Below(m + 1))
    OBVIOUS
  <2>1. Sum(g, 0, m + 1) = Cardinality(Below(m)) + Cardinality(Of(m))
    <3>1. Sum(g, 0, m + 1) = Sum(g, 0, m) + g[m]
      BY SumNext
    <3>2. Sum(g, 0, m) = Cardinality(Below(m)) /\ m \in 0..(n - 1)
      BY <1>2
    <3> QED
      BY <3>1, <3>2
  <2>2. Below(m + 1) = Below(m) \cup Of(m) /\ Below(m) \cap Of(m) = {}
    <3>1. \A u \in U : f[u] < m + 1 <=> (f[u] < m \/ f[u] = m)
      OBVIOUS
    <3>2. \A u \in U : ~(f[u] < m /\ f[u] = m)
      OBVIOUS
    <3> QED
      BY <3>1, <3>2 DEF AllBelow, AllOf
  <2>3. IsFiniteSet(Below(m)) /\ IsFiniteSet(Of(m))
    BY FS_Subset DEF AllBelow, AllOf
  <2>4. Cardinality(Below(m + 1)) = Cardinality(Below(m)) + Cardinality(Of(m)) - Cardinality({})
    <3> HIDE DEF Below, Of
    <3> QED
      BY <2>2, <2>3, FS_Union
  <2> HIDE DEF Below, Of
  <2> QED
    BY <2>1, <2>3, <2>4, FS_EmptySet, FS_CardinalityType
<1>3. \A m \in Nat : 0 <= m => m \in R
  <2> HIDE DEF R
  <2> QED
    BY <1>1, <1>2, Upward
<1> QED
  BY <1>3

-----------------------------------------------------------------------------
(* Sequences: the ascending one of a finite set, and several in a row.     *)
LEMMA AscendingLength ==
  ASSUME NEW I, IsFiniteSet(I)
  PROVE  DOMAIN Ascending(I) = 1..Cardinality(I) /\ Cardinality(I) \in Nat
BY FS_CardinalityType DEF Ascending

\* s holds the flattening of the first i sequences, for i up to m.
IsFlattened(s, q, m) ==
  \A i \in 1..m : s[i] = IF i = 1 THEN q[i] ELSE s[i - 1] \o q[i]

LEMMA FlattenedExists ==
  ASSUME NEW q, NEW m \in Nat
  PROVE  \E s : s = [i \in 1..m |-> s[i]] /\ IsFlattened(s, q, m)
<1> DEFINE R == { n \in Nat : \E s : s = [i \in 1..n |-> s[i]] /\ IsFlattened(s, q, n) }
<1>1. 0 \in R
  <2> DEFINE s == [i \in 1..0 |-> i]
  <2>1. s = [i \in 1..0 |-> s[i]] /\ IsFlattened(s, q, 0)
    BY DEF IsFlattened
  <2> QED
    BY <2>1
<1>2. ASSUME NEW n \in Nat, n \in R PROVE n + 1 \in R
  <2>1. PICK s : s = [i \in 1..n |-> s[i]] /\ IsFlattened(s, q, n)
    BY <1>2
  <2> DEFINE e == IF n = 0 THEN q[1] ELSE s[n] \o q[n + 1]
             r == [i \in 1..(n + 1) |-> IF i = n + 1 THEN e ELSE s[i]]
  <2>2. ASSUME NEW i \in 1..(n + 1)
        PROVE  r[i] = IF i = 1 THEN q[i] ELSE r[i - 1] \o q[i]
    <3>1. CASE i = n + 1
      <4>1. CASE n = 0
        BY <3>1, <4>1
      <4>2. CASE n # 0
        <5>1. n \in 1..(n + 1) /\ n # n + 1 /\ i - 1 = n /\ i # 1
          BY <3>1, <4>2
        <5>2. r[i] = e /\ r[n] = s[n]
          BY <3>1, <5>1
        <5> QED
          BY <3>1, <4>2, <5>1, <5>2
      <4> QED
        BY <4>1, <4>2
    <3>2. CASE i # n + 1
      <4>1. i \in 1..n /\ r[i] = s[i]
        BY <3>2
      <4>2. i # 1 => r[i - 1] = s[i - 1]
        BY <4>1
      <4> QED
        BY <2>1, <4>1, <4>2 DEF IsFlattened
    <3> QED
      BY <3>1, <3>2
  <2>3. r = [i \in 1..(n + 1) |-> r[i]]
    OBVIOUS
  <2> HIDE DEF r
  <2>4. IsFlattened(r, q, n + 1)
    BY <2>2 DEF IsFlattened
  <2>5. \E t : t = [i \in 1..(n + 1) |-> t[i]] /\ IsFlattened(t, q, n + 1)
    BY <2>3, <2>4
  <2> QED
    BY <2>5
<1>3. \A n \in Nat : 0 <= n => n \in R
  <2> HIDE DEF R
  <2> QED
    BY <1>1, <1>2, Upward
<1> QED
  BY <1>3

LEMMA FlattenedIsSeq ==
  ASSUME NEW A, NEW m \in Nat, NEW q, \A i \in 1..m : q[i] \in Seq(A),
         NEW s, IsFlattened(s, q, m)
  PROVE  \A i \in 1..m : s[i] \in Seq(A)
<1> DEFINE R == { i \in Nat : i \in 1..m => s[i] \in Seq(A) }
<1>1. 0 \in R
  OBVIOUS
<1>2. ASSUME NEW i \in Nat, i \in R PROVE i + 1 \in R
  <2> SUFFICES ASSUME i + 1 \in 1..m PROVE s[i + 1] \in Seq(A)
    OBVIOUS
  <2>1. q[i + 1] \in Seq(A)
    OBVIOUS
  <2>2. CASE i = 0
    BY <2>1, <2>2 DEF IsFlattened
  <2>3. CASE i # 0
    <3>1. i \in 1..m /\ i + 1 # 1 /\ (i + 1) - 1 = i
      BY <2>3
    <3>2. s[i + 1] = s[i] \o q[i + 1]
      BY <3>1 DEF IsFlattened
    <3>3. s[i] \in Seq(A)
      BY <1>2, <3>1
    <3> QED
      BY <2>1, <3>2, <3>3
  <2> QED
    BY <2>2, <2>3
<1>3. \A i \in Nat : 0 <= i => i \in R
  <2> HIDE DEF R
  <2> QED
    BY <1>1, <1>2, Upward
<1> QED
  BY <1>3

LEMMA FlattenIs ==
  ASSUME NEW A, NEW q \in Seq(A), Len(q) # 0
  PROVE  \E s : IsFlattened(s, q, Len(q)) /\ FlattenSeq(q) = s[Len(q)]
<1> DEFINE m == Len(q)
           Is(s) == s = [i \in 1..m |-> IF i = 1 THEN q[i] ELSE s[i - 1] \o q[i]]
           flatten == CHOOSE s : Is(s)
<1>1. m \in Nat /\ m # 0
  OBVIOUS
<1>2. FlattenSeq(q) = flatten[m]
  BY Zenon DEF FlattenSeq
<1>3. \E s : Is(s)
  <2> HIDE DEF m
  <2>1. PICK s : s = [i \in 1..m |-> s[i]] /\ IsFlattened(s, q, m)
    BY <1>1, FlattenedExists
  <2>2. Is(s)
    BY <2>1 DEF IsFlattened
  <2> HIDE DEF Is
  <2> QED
    BY <2>2
<1>4. Is(flatten)
  <2> HIDE DEF Is
  <2> QED
    BY <1>3
<1> HIDE DEF flatten
<1>5. IsFlattened(flatten, q, m)
  <2> HIDE DEF m
  <2> QED
    BY <1>4 DEF IsFlattened
<1> QED
  BY <1>2, <1>5

LEMMA FlattenType ==
  ASSUME NEW A, NEW q \in Seq(Seq(A))
  PROVE  FlattenSeq(q) \in Seq(A)
<1>1. CASE Len(q) = 0
  <2>1. q = << >>
    BY <1>1
  <2> QED
    BY <2>1 DEF FlattenSeq
<1>2. CASE Len(q) # 0
  <2>1. PICK s : IsFlattened(s, q, Len(q)) /\ FlattenSeq(q) = s[Len(q)]
    BY <1>2, FlattenIs
  <2>2. \A i \in 1..Len(q) : q[i] \in Seq(A)
    OBVIOUS
  <2>3. Len(q) \in Nat /\ Len(q) \in 1..Len(q)
    BY <1>2
  <2>4. s[Len(q)] \in Seq(A)
    BY <2>1, <2>2, <2>3, FlattenedIsSeq
  <2> QED
    BY <2>1, <2>4
<1> QED
  BY <1>1, <1>2

-----------------------------------------------------------------------------
(* What the invariant gives to each step, and what a step of the same pass *)
(* leaves alone.                                                           *)
LEMMA Spans ==
  ASSUME Fits
  PROVE  /\ S \in Nat \ {0} /\ H \in Nat \ {0} /\ T \in 1..H /\ T \in Nat \ {0}
         /\ Span \in 0..S /\ Span \in Nat /\ Upto(Span) \subseteq Upto(S)
         /\ IsFiniteSet(Upto(Span)) /\ Cardinality(Upto(Span)) = Span
<1>1. S \in Nat \ {0} /\ H \in Nat \ {0} /\ T \in 1..H /\ Span \in 0..S
  BY PassesAssumption DEF Fits
<1>2. Span \in Nat /\ T \in Nat \ {0} /\ Upto(Span) \subseteq Upto(S)
  BY <1>1 DEF Upto
<1>3. IsFiniteSet(Upto(Span)) /\ Cardinality(Upto(Span)) = Span
  <2>1. 0 \in Int /\ Span - 1 \in Int /\ (0 > Span - 1 => Span = 0)
    BY <1>2
  <2>2. IsFiniteSet(0..(Span - 1))
        /\ Cardinality(0..(Span - 1)) = IF 0 > Span - 1 THEN 0 ELSE Span - 1 - 0 + 1
    BY <2>1, FS_Interval
  <2> QED
    BY <1>2, <2>1, <2>2 DEF Upto
<1> QED
  BY <1>1, <1>2, <1>3

LEMMA SamePass ==
  ASSUME p' = p, y' = y, pc # "move", pc' # "move"
  PROVE  isFirst' = isFirst /\ Span' = Span
BY DEF isFirst, Span

LEMMA SameLabels ==
  ASSUME p' = p, y' = y, pc # "move", pc' # "move", ucom' = ucom, vcom' = vcom
  PROVE  /\ isFirst' = isFirst /\ Span' = Span /\ com' = com
         /\ \A c : MembersOf(c)' = MembersOf(c)
<1>1. isFirst' = isFirst /\ Span' = Span /\ com' = com
  BY SamePass DEF com
<1> QED
  BY <1>1 DEF MembersOf

LEMMA FiniteMembers ==
  ASSUME Fits, NEW c
  PROVE  /\ IsFiniteSet(MembersOf(c)) /\ MembersOf(c) \subseteq Upto(Span)
         /\ Cardinality(MembersOf(c)) \in 0..Span
<1>1. MembersOf(c) \in SUBSET Upto(Span)
  BY DEF MembersOf
<1>2. IsFiniteSet(MembersOf(c)) /\ Cardinality(MembersOf(c)) <= Span
  BY <1>1, Spans, FS_Subset
<1> QED
  BY <1>1, <1>2, Spans, FS_CardinalityType

-----------------------------------------------------------------------------
(* The invariant, action by action                                         *)

LEMMA InitOK == Init => PInv
<1> SUFFICES ASSUME Init, Live PROVE LiveInv
  BY DEF PInv
<1>1. pc = "move" /\ p = 0 /\ isFirst /\ Span = S
  BY DEF Init, Live, isFirst, Span
<1>2. Fits
  <2>1. /\ DOMAIN ucom = Upto(S) /\ DOMAIN vcom = Upto(S) /\ DOMAIN cvkey = Upto(S)
        /\ DOMAIN slot = Upto(S) /\ DOMAIN cvdeg = Upto(S) /\ T \in 1..H
    BY DEF Init, Fill
  <2>2. z = [deg |-> z.deg, key |-> z.key, val |-> z.val]
    BY DEF Init
  <2>3. Span \in 0..S /\ p \in Nat
    BY <1>1, PassesAssumption
  <2> QED
    BY <1>1, <2>1, <2>2, <2>3 DEF Fits, Renumbered, Listing
<1>3. Labels /\ Marks /\ Scans /\ Places /\ Claims /\ Listings
  BY <1>1 DEF Labels, Marks, Scans, Places, Claims, Listings, Renumbered, Listing
<1>4. Clean
  BY <1>1 DEF Init, Clean, Fill
<1> QED
  BY <1>2, <1>3, <1>4 DEF LiveInv

LEMMA MoveKeeps ==
  ASSUME LiveInv, NEW m \in 1..L, Move(m), Live'
  PROVE  LiveInv'
<1>1. /\ pc = "move" /\ pc' = "exists" /\ p' = p + 1 /\ y' = y /\ todo' = Upto(Span)
      /\ cvdeg' = [c \in DOMAIN cvdeg |-> 0] /\ CN' = 0
      /\ cvkey' = cvkey /\ slot' = slot /\ z' = z /\ T' = T
  BY DEF Move, Live, scan
<1>2. Fits /\ Clean
  BY DEF LiveInv
<1>3. isFirst' = isFirst /\ Span' = Span
  BY <1>1, <1>2 DEF isFirst, Span, Fits
<1>4. PICK c \in [Upto(Span) -> Upto(Span)] :
        LET moved1 == [u \in Upto(S) |-> IF u < Span THEN c[u] ELSE com[u]]
        IN  IF isFirst THEN ucom' = moved1 /\ UNCHANGED vcom
                       ELSE vcom' = moved1 /\ UNCHANGED ucom
  BY DEF Move
<1>5. /\ com' = [u \in Upto(S) |-> IF u < Span THEN c[u] ELSE com[u]]
      /\ DOMAIN ucom' = Upto(S) /\ DOMAIN vcom' = Upto(S)
  BY <1>2, <1>3, <1>4 DEF com, Fits
<1>6. \A u \in Upto(Span) : com'[u] \in Upto(Span)
  BY <1>2, <1>5, Spans DEF Upto
<1>7. Fits'
  BY <1>1, <1>2, <1>3, <1>5, Spans DEF Fits, Renumbered, Listing
<1>8. Labels'
  BY <1>1, <1>3, <1>6 DEF Labels, Renumbered
<1>9. Marks'
  <2>1. \A d \in Upto(Span) : cvdeg'[d] = 0
    BY <1>1, <1>2 DEF Fits
  <2>2. Sum(cvdeg', 0, Span) = 0
    BY <2>1, <1>2, Spans, SumZero DEF Upto
  <2> QED
    BY <1>1, <1>3, <2>1, <2>2 DEF Marks, Marked
<1>10. Scans' /\ Places' /\ Claims' /\ Listings'
  BY <1>1 DEF Scans, Places, Claims, Listings, Listing
<1>11. Clean'
  BY <1>1, <1>2 DEF Clean
<1> QED
  BY <1>7, <1>8, <1>9, <1>10, <1>11 DEF LiveInv

LEMMA ExistsKeeps ==
  ASSUME LiveInv, NEW u \in Upto(S), Exists(u)
  PROVE  LiveInv'
<1>1. /\ pc = "exists" /\ pc' = "exists" /\ u \in todo /\ todo' = todo \ {u}
      /\ cvdeg' = [cvdeg EXCEPT ![com[u]] = 1]
      /\ CN' = IF cvdeg[com[u]] = 0 THEN CN + 1 ELSE CN
      /\ p' = p /\ y' = y /\ ucom' = ucom /\ vcom' = vcom
      /\ cvkey' = cvkey /\ slot' = slot /\ z' = z /\ T' = T
  BY DEF Exists, scan, moved
<1>2. Fits /\ Clean /\ Labels
  BY DEF LiveInv
<1>3. isFirst' = isFirst /\ Span' = Span /\ com' = com
  BY <1>1, SameLabels
<1>4. /\ todo \subseteq Upto(Span) /\ Marked(cvdeg, todo)
      /\ com[u] \in Upto(Span) /\ DOMAIN cvdeg = Upto(Span)
  BY <1>1, <1>2 DEF LiveInv, Marks, Labels, Fits
<1>5. /\ \A c \in Upto(Span) : cvdeg'[c] \in {0, 1} /\ (c # com[u] => cvdeg'[c] = cvdeg[c])
      /\ cvdeg'[com[u]] = 1
  BY <1>1, <1>4 DEF Marked
<1>6. CN' = Sum(cvdeg', 0, Span) /\ CN' \in 0..Span
  <2>1. Sum(cvdeg', 0, Span) = Sum(cvdeg, 0, Span) + (cvdeg'[com[u]] - cvdeg[com[u]])
    <3>1. /\ com[u] \in 0..(Span - 1) /\ 0 \in Nat /\ Span \in Nat
          /\ \A c \in 0..(Span - 1) : cvdeg[c] \in Int /\ cvdeg'[c] \in Int
          /\ \A c \in 0..(Span - 1) : c # com[u] => cvdeg[c] = cvdeg'[c]
      BY <1>2, <1>4, <1>5, Spans DEF Marked, Upto
    <3> QED
      BY <3>1, SumChanged
  <2>2. CN = Sum(cvdeg, 0, Span) /\ cvdeg[com[u]] \in {0, 1}
    BY <1>4 DEF Marked
  <2>3. Sum(cvdeg', 0, Span) \in 0..Span /\ Sum(cvdeg, 0, Span) \in 0..Span
    <3>1. \A c \in 0..(Span - 1) : cvdeg[c] \in {0, 1} /\ cvdeg'[c] \in {0, 1}
      BY <1>4, <1>5 DEF Marked, Upto
    <3> QED
      BY <1>2, <3>1, Spans, MarksCount
  <2> QED
    BY <1>1, <1>5, <2>1, <2>2, <2>3
<1>7. Fits'
  BY <1>1, <1>2, <1>3, <1>4, <1>6 DEF Fits, Renumbered, Listing
<1>8. Labels'
  BY <1>1, <1>2, <1>3 DEF Labels, Renumbered
<1>9. Marks'
  <2>1. \A w \in Upto(Span) \ todo' : cvdeg'[com[w]] = 1
    BY <1>1, <1>2, <1>4, <1>5 DEF Marked, Labels
  <2> QED
    BY <1>1, <1>3, <1>4, <1>5, <1>6, <2>1 DEF Marks, Marked
<1>10. Scans' /\ Places' /\ Claims' /\ Listings'
  BY <1>1 DEF Scans, Places, Claims, Listings, Listing
<1>11. Clean'
  BY <1>1, <1>2 DEF Clean
<1> QED
  BY <1>7, <1>8, <1>9, <1>10, <1>11 DEF LiveInv

LEMMA ExistedKeeps ==
  ASSUME LiveInv, Existed, Live'
  PROVE  LiveInv'
<1>1. /\ pc = "exists" /\ pc' = "rank" /\ todo = {} /\ cvdeg' = cvdeg /\ CN' = CN
      /\ stage' = "local" /\ buf' = [t \in 0..(H - 1) |-> 0] /\ todo' = 0..(T - 1)
      /\ given' = cvdeg
      /\ p' = p /\ y' = y /\ ucom' = ucom /\ vcom' = vcom
      /\ cvkey' = cvkey /\ slot' = slot /\ z' = z /\ T' = T
  BY DEF Existed, Live, scan, moved, Ranks!StartScan
<1>2. Fits /\ Clean /\ Labels
  BY DEF LiveInv
<1>3. isFirst' = isFirst /\ Span' = Span /\ com' = com
  BY <1>1, SameLabels
<1>4. Marked(cvdeg, {})
  BY <1>1 DEF LiveInv, Marks
<1>5. Fits'
  BY <1>1, <1>2, <1>3 DEF Fits, Renumbered, Listing
<1>6. Labels'
  BY <1>1, <1>2, <1>3 DEF Labels, Renumbered
<1>7. Marks'
  BY <1>1, <1>3, <1>4 DEF Marks, Marked
<1>8. Scans'
  <2>1. 0..(Span - 1) \subseteq DOMAIN cvdeg /\ \A c \in 0..(Span - 1) : cvdeg[c] \in Int
    BY <1>1, <1>2, <1>4 DEF Fits, Marked, Upto
  <2>2. ScanOK(cvdeg, [t \in 0..(H - 1) |-> 0], T, "local", 0..(T - 1), cvdeg, Span)
    BY <1>2, <2>1, Spans, ScanStarts
  <2> QED
    BY <1>1, <1>3, <2>2 DEF Scans
<1>9. Places' /\ Claims' /\ Listings'
  BY <1>1 DEF Places, Claims, Listings, Listing
<1>10. Clean'
  BY <1>1, <1>2 DEF Clean
<1> QED
  BY <1>5, <1>6, <1>7, <1>8, <1>9, <1>10 DEF LiveInv

LEMMA RankKeeps ==
  ASSUME LiveInv, Rank
  PROVE  LiveInv'
<1>1. /\ pc = "rank" /\ pc' = "rank" /\ CN' = CN
      /\ p' = p /\ y' = y /\ ucom' = ucom /\ vcom' = vcom
      /\ cvkey' = cvkey /\ slot' = slot /\ z' = z
  BY DEF Rank, moved
<1>2. Fits /\ Clean /\ Labels /\ Marks /\ Scans
  BY DEF LiveInv
<1>3. isFirst' = isFirst /\ Span' = Span /\ com' = com
  BY <1>1, SameLabels
<1>4. T' = T /\ given' = given /\ ScanMoves(cvdeg, cvdeg', Span)
  BY <1>2, Spans, RanksMove DEF Rank
<1>5. /\ ScanOK(cvdeg', buf', T', stage', todo', given', Span)
      /\ DOMAIN cvdeg' = DOMAIN cvdeg
  BY <1>1, <1>2, <1>4, Spans, ScanMovesKeep DEF Scans
<1>6. Fits'
  BY <1>1, <1>2, <1>3, <1>4, <1>5 DEF Fits, Renumbered, Listing
<1>7. Labels' /\ Marks' /\ Scans'
  BY <1>1, <1>2, <1>3, <1>4, <1>5 DEF Labels, Marks, Marked, Scans, Renumbered
<1>8. Places' /\ Claims' /\ Listings'
  BY <1>1 DEF Places, Claims, Listings, Listing
<1>9. Clean'
  BY <1>1, <1>2 DEF Clean
<1> QED
  BY <1>6, <1>7, <1>8, <1>9 DEF LiveInv

(* The rank of a community that has a mark is below their number.          *)
LEMMA RenumberKeeps ==
  ASSUME LiveInv, Renumber
  PROVE  LiveInv'
<1>1. /\ pc = "rank" /\ stage = "add" /\ todo = {} /\ CN' = CN
      /\ isFirst => /\ pc' = "count" /\ vcom' = vcom
                    /\ ucom' = LookedUp(ucom, cvdeg)
      /\ ~isFirst => /\ pc' = "lookup" /\ ucom' = ucom
                     /\ vcom' = LookedUp(vcom, cvdeg)
      /\ p' = p /\ y' = y /\ cvdeg' = cvdeg
      /\ cvkey' = cvkey /\ slot' = slot /\ z' = z /\ T' = T
  BY DEF Renumber, cv, Ranks!EndScan, Ranks!Scanned
<1>2. Fits /\ Clean /\ Labels /\ Marked(given, {})
      /\ ScanOK(cvdeg, buf, T, "add", {}, given, Span)
  BY <1>1 DEF LiveInv, Marks, Scans
<1>3. isFirst' = isFirst /\ Span' = Span /\ pc' \in {"lookup", "count"}
  BY <1>1, SamePass
<1>4. /\ com' = LookedUp(com, cvdeg)
      /\ DOMAIN ucom' = Upto(S) /\ DOMAIN vcom' = Upto(S)
  BY <1>1, <1>2, <1>3 DEF com, Fits, LookedUp
<1>5. ASSUME NEW u \in Upto(Span) PROVE com'[u] \in Upto(CN)
  <2>1. /\ com[u] \in Upto(Span) /\ given[com[u]] = 1 /\ u \in Upto(S)
        /\ DOMAIN com = Upto(S) /\ DOMAIN cvdeg = Upto(Span)
    BY <1>1, <1>2, Spans DEF Labels, Marked, Fits, com
  <2>2. com'[u] = cvdeg[com[u]]
    BY <1>4, <2>1 DEF LookedUp
  <2>3. cvdeg[com[u]] = Sum(given, 0, com[u])
    BY <1>2, <2>1, Spans, ScanEnds DEF Upto
  <2>4. Sum(given, 0, com[u]) \in 0..(Sum(given, 0, Span) - 1)
    <3>1. com[u] \in 0..(Span - 1) /\ Span \in Nat /\ \A c \in 0..(Span - 1) : given[c] \in {0, 1}
      BY <1>2, <2>1, Spans DEF Marked, Upto
    <3> QED
      BY <2>1, <3>1, MarksCount
  <2> QED
    BY <1>2, <2>2, <2>3, <2>4 DEF Marked, Upto
<1>6. Fits'
  BY <1>1, <1>2, <1>3, <1>4 DEF Fits, Renumbered, Listing
<1>7. Labels'
  BY <1>1, <1>3, <1>5 DEF Labels, Renumbered
<1>8. Marks' /\ Scans' /\ Places' /\ Claims' /\ Listings'
  BY <1>3 DEF Marks, Scans, Places, Claims, Listings, Listing
<1>9. Clean'
  BY <1>1, <1>2 DEF Clean
<1> QED
  BY <1>6, <1>7, <1>8, <1>9 DEF LiveInv

LEMMA LookupKeeps ==
  ASSUME LiveInv, Lookup
  PROVE  LiveInv'
<1>1. /\ pc = "lookup" /\ pc' = "count" /\ ucom' = LookedUp(ucom, vcom) /\ CN' = CN
      /\ p' = p /\ y' = y /\ vcom' = vcom /\ cvdeg' = cvdeg
      /\ cvkey' = cvkey /\ slot' = slot /\ z' = z /\ T' = T
  BY DEF Lookup, cv
<1>2. Fits /\ Clean /\ Labels
  BY DEF LiveInv
<1>3. isFirst' = isFirst /\ Span' = Span /\ ~isFirst
  BY <1>1, <1>2, SamePass DEF Fits
<1>4. com' = com /\ DOMAIN ucom' = Upto(S)
  BY <1>1, <1>2, <1>3 DEF com, Fits, LookedUp
<1>5. Fits'
  BY <1>1, <1>2, <1>3, <1>4 DEF Fits, Renumbered, Listing
<1>6. Labels'
  BY <1>1, <1>2, <1>3, <1>4 DEF Labels, Renumbered
<1>7. Marks' /\ Scans' /\ Places' /\ Claims' /\ Listings'
  BY <1>1 DEF Marks, Scans, Places, Claims, Listings, Listing
<1>8. Clean'
  BY <1>1, <1>2 DEF Clean
<1> QED
  BY <1>5, <1>6, <1>7, <1>8 DEF LiveInv

LEMMA CountKeeps ==
  ASSUME LiveInv, Count
  PROVE  LiveInv'
<1>1. /\ pc = "count" /\ pc' = "offsets" /\ CN' = CN
      /\ cvoff' = [c \in 0..CN |-> Cardinality(MembersOf(c))]
      /\ cvdeg' = Resize(cvdeg, CN)
      /\ stage' = "local" /\ buf' = [t \in 0..(H - 1) |-> 0] /\ todo' = 0..(T - 1)
      /\ given' = cvoff'
      /\ p' = p /\ y' = y /\ ucom' = ucom /\ vcom' = vcom
      /\ cvkey' = cvkey /\ slot' = slot /\ T' = T
      /\ z' = [z EXCEPT !.deg = Resize(z.deg, CN)]
  BY DEF Count, moved, Members!StartScan, MembersOf
<1>2. Fits /\ Clean /\ Labels /\ CN \in 0..Span
  BY <1>1 DEF LiveInv, Fits, Renumbered
<1>3. /\ isFirst' = isFirst /\ Span' = Span /\ com' = com
      /\ \A c : MembersOf(c)' = MembersOf(c)
  BY <1>1, SameLabels
<1>4. z' = [deg |-> z'.deg, key |-> z'.key, val |-> z'.val]
  BY <1>1, <1>2 DEF Fits
<1>5. DOMAIN cvdeg' = Upto(CN) /\ DOMAIN cvoff' = 0..CN
  BY <1>1 DEF Resize
<1>6. Fits'
  BY <1>1, <1>2, <1>3, <1>4, <1>5 DEF Fits, Renumbered, Listing
<1>7. Labels'
  BY <1>1, <1>2, <1>3 DEF Labels, Renumbered
<1>8. Scans'
  <2>1. CN \in Nat /\ 0..(CN - 1) \subseteq 0..CN
    BY <1>2, Spans
  <2>2. \A c \in 0..(CN - 1) : cvoff'[c] = Cardinality(MembersOf(c)) /\ cvoff'[c] \in Int
    BY <1>1, <1>2, <2>1, FiniteMembers
  <2>3. ScanOK(cvoff', [t \in 0..(H - 1) |-> 0], T, "local", 0..(T - 1), cvoff', CN)
    BY <1>2, <1>5, <2>1, <2>2, Spans, ScanStarts
  <2> QED
    BY <1>1, <1>3, <2>2, <2>3 DEF Scans, Upto
<1>9. Marks' /\ Places' /\ Claims' /\ Listings'
  BY <1>1 DEF Marks, Places, Claims, Listings, Listing
<1>10. Clean'
  BY <1>1, <1>2 DEF Clean
<1> QED
  BY <1>6, <1>7, <1>8, <1>9, <1>10 DEF LiveInv

LEMMA OffsetsKeeps ==
  ASSUME LiveInv, Offsets
  PROVE  LiveInv'
<1>1. /\ pc = "offsets" /\ pc' = "offsets" /\ CN' = CN
      /\ p' = p /\ y' = y /\ ucom' = ucom /\ vcom' = vcom /\ cvdeg' = cvdeg
      /\ cvkey' = cvkey /\ slot' = slot /\ z' = z
  BY DEF Offsets, moved
<1>2. Fits /\ Clean /\ Labels /\ Scans /\ CN \in Nat
  BY <1>1, Spans DEF LiveInv, Fits, Renumbered
<1>3. /\ isFirst' = isFirst /\ Span' = Span /\ com' = com
      /\ \A c : MembersOf(c)' = MembersOf(c)
  BY <1>1, SameLabels
<1>4. T' = T /\ given' = given /\ ScanMoves(cvoff, cvoff', CN)
  BY <1>2, Spans, MembersMove DEF Offsets
<1>5. /\ ScanOK(cvoff', buf', T', stage', todo', given', CN)
      /\ DOMAIN cvoff' = DOMAIN cvoff
  BY <1>1, <1>2, <1>4, Spans, ScanMovesKeep DEF Scans
<1>6. Fits'
  BY <1>1, <1>2, <1>3, <1>4, <1>5 DEF Fits, Renumbered, Listing
<1>7. Labels' /\ Scans'
  BY <1>1, <1>2, <1>3, <1>4, <1>5 DEF Labels, Scans, Renumbered
<1>8. Marks' /\ Places' /\ Claims' /\ Listings'
  BY <1>1 DEF Marks, Places, Claims, Listings, Listing
<1>9. Clean'
  BY <1>1, <1>2 DEF Clean
<1> QED
  BY <1>6, <1>7, <1>8, <1>9 DEF LiveInv

(* The scan and the total make one region for every community.             *)
LEMMA StartClaimsKeeps ==
  ASSUME LiveInv, StartClaims
  PROVE  LiveInv'
<1>1. /\ pc = "offsets" /\ stage = "add" /\ todo = {} /\ pc' = "claim" /\ CN' = CN
      /\ todo' = Upto(Span)
      /\ cvoff' = [cvoff EXCEPT ![CN] = buf[H - 1]] /\ cvdeg' = Fill(CN, 0)
      /\ p' = p /\ y' = y /\ ucom' = ucom /\ vcom' = vcom
      /\ cvkey' = cvkey /\ slot' = slot /\ z' = z /\ T' = T
  BY DEF StartClaims, moved, Members!EndScan, Members!Scanned, Members!Total
<1>2. /\ Fits /\ Clean /\ Labels /\ CN \in Nat /\ DOMAIN cvoff = 0..CN
      /\ ScanOK(cvoff, buf, T, "add", {}, given, CN)
      /\ \A c \in Upto(CN) : given[c] = Cardinality(MembersOf(c))
  BY <1>1, Spans DEF LiveInv, Scans, Fits, Renumbered
<1>3. /\ isFirst' = isFirst /\ Span' = Span /\ com' = com
      /\ \A c : MembersOf(c)' = MembersOf(c)
  BY <1>1, SameLabels
<1>4. ASSUME NEW c \in 0..CN PROVE cvoff'[c] = Sum(given, 0, c)
  <2>1. /\ \A i \in 0..(CN - 1) : cvoff[i] = Sum(given, 0, i)
        /\ buf[H - 1] = Sum(given, 0, CN)
    BY <1>2, Spans, ScanEnds
  <2> QED
    BY <1>1, <1>2, <2>1
<1>5. Places'
  <2>1. \A c \in 0..CN : Sum(given, 0, c) = Cardinality(AllBelow(Upto(Span), com, c))
    <3>1. \A u \in Upto(Span) : com[u] \in Nat
      BY <1>1, <1>2 DEF Labels, Renumbered, Upto
    <3>2. \A c \in 0..(CN - 1) : given[c] = Cardinality(AllOf(Upto(Span), com, c))
      BY <1>2 DEF MembersOf, AllOf, Upto
    <3>3. IsFiniteSet(Upto(Span)) /\ CN \in Nat
      BY <1>2, Spans
    <3> QED
      BY <3>1, <3>2, <3>3, CountsAddUp
  <2>2. ASSUME NEW c \in 0..CN PROVE cvoff'[c] \in 0..Span
    <3> DEFINE Below == AllBelow(Upto(Span), com, c)
    <3>1. Below \in SUBSET Upto(Span)
      BY DEF AllBelow
    <3>2. IsFiniteSet(Below) /\ Cardinality(Below) <= Span
      BY <1>2, <3>1, Spans, FS_Subset
    <3>3. Cardinality(Below) \in Nat
      BY <3>2, FS_CardinalityType
    <3>4. cvoff'[c] = Cardinality(Below)
      BY <1>4, <2>1
    <3> HIDE DEF Below
    <3> QED
      BY <1>2, <3>2, <3>3, <3>4, Spans
  <2>3. ASSUME NEW c \in Upto(CN) PROVE cvoff'[c + 1] = cvoff'[c] + Cardinality(MembersOf(c))
    <3>1. c \in Nat /\ c \in 0..CN /\ c + 1 \in 0..CN
      BY <1>2 DEF Upto
    <3>2. Sum(given, 0, c + 1) = Sum(given, 0, c) + given[c]
      BY <3>1, SumNext
    <3> QED
      BY <1>2, <1>4, <3>1, <3>2
  <2>4. ASSUME NEW c \in 0..CN, NEW d \in 0..CN, c <= d PROVE cvoff'[c] <= cvoff'[d]
    <3>1. \A i \in 0..(CN - 1) : given[i] \in Nat
      BY <1>2, FiniteMembers, Spans DEF Upto
    <3>2. /\ Sum(given, 0, d) = Sum(given, 0, c) + Sum(given, c, d)
          /\ Sum(given, 0, c) \in Nat /\ Sum(given, c, d) \in Nat
      <4>1. /\ c \in Nat /\ d \in Nat /\ 0 \in Nat /\ 0 <= c
            /\ \A i \in 0..(d - 1) : given[i] \in Int
            /\ \A i \in c..(d - 1) : given[i] \in Nat
            /\ \A i \in 0..(c - 1) : given[i] \in Nat
        BY <1>2, <2>4, <3>1
      <4>2. Sum(given, 0, c) \in Nat /\ Sum(given, c, d) \in Nat
        BY <4>1, SumNat
      <4> QED
        BY <2>4, <4>1, <4>2, SumSplit
    <3> QED
      BY <1>4, <3>2
  <2> QED
    BY <1>1, <1>3, <2>2, <2>3, <2>4 DEF Places
<1>6. Fits'
  BY <1>1, <1>2, <1>3 DEF Fits, Renumbered, Listing, Fill
<1>7. Labels'
  BY <1>1, <1>2, <1>3 DEF Labels, Renumbered
<1>8. Claims'
  <2>1. Claimed' = {} /\ todo' \subseteq Upto(Span)
    BY <1>1, <1>3 DEF Claimed
  <2>2. \A u \in Upto(S) : slot'[u] = Stale
    BY <1>1, <1>2 DEF Clean
  <2>3. \A c \in Upto(CN) : cvdeg'[c] = Cardinality(ClaimedOf(c)')
    <3>1. \A c : ClaimedOf(c)' = {}
      BY <2>1 DEF ClaimedOf
    <3> QED
      BY <1>1, <3>1, FS_EmptySet DEF Fill
  <2>4. \E place \in [{} -> Upto(Span)] :
          Placed(place, {}, com', cvoff', cvdeg', cvkey', slot')
    <3> DEFINE place == [u \in {} |-> 0]
    <3>1. /\ place \in [{} -> Upto(Span)]
          /\ Placed(place, {}, com', cvoff', cvdeg', cvkey', slot')
      BY DEF Placed
    <3> HIDE DEF place
    <3> QED
      BY <3>1
  <2> QED
    BY <1>1, <1>3, <2>1, <2>2, <2>3, <2>4 DEF Claims
<1>9. Marks' /\ Scans' /\ Listings'
  BY <1>1 DEF Marks, Scans, Listings
<1>10. Clean'
  BY <1>1, <1>2 DEF Clean
<1> QED
  BY <1>5, <1>6, <1>7, <1>8, <1>9, <1>10 DEF LiveInv

(* No two places are the same: each is in the region of its community.     *)
PlaceOf(place, u) == cvoff[com[u]] + place[u]

ClaimsHold ==
  /\ pc = "claim" /\ Fits /\ Labels /\ Places
  /\ todo \subseteq Upto(Span)
  /\ \A c \in Upto(CN) : cvdeg[c] = Cardinality(ClaimedOf(c))

LEMMA CommunityOf ==
  ASSUME Fits, Labels, pc \in Renumbered, NEW u \in Upto(Span)
  PROVE  /\ com[u] \in Upto(CN) /\ u \in MembersOf(com[u]) /\ CN \in 0..Span
         /\ CN \in Nat /\ com[u] \in Nat /\ com[u] \in 0..CN /\ com[u] + 1 \in 0..CN
<1>1. com[u] \in Upto(CN) /\ CN \in 0..Span /\ Span \in Nat
  BY Spans DEF Labels, Fits
<1>2. u \in MembersOf(com[u])
  BY DEF MembersOf
<1> QED
  BY <1>1, <1>2 DEF Upto

LEMMA PlacesApart ==
  ASSUME ClaimsHold, NEW place, Placed(place, Claimed, com, cvoff, cvdeg, cvkey, slot)
  PROVE  /\ \A u \in Claimed :
              /\ place[u] \in Nat
              /\ PlaceOf(place, u) \in cvoff[com[u]]..(cvoff[com[u] + 1] - 1)
              /\ PlaceOf(place, u) \in Upto(Span)
         /\ \A u, w \in Claimed : PlaceOf(place, u) = PlaceOf(place, w) => u = w
<1>1. /\ Fits /\ Labels /\ pc \in Renumbered /\ pc \in Listing
      /\ \A c \in Upto(CN) : cvdeg[c] = Cardinality(ClaimedOf(c))
  BY DEF ClaimsHold, Renumbered, Listing
<1>2. /\ \A c \in 0..CN : cvoff[c] \in 0..Span
      /\ \A c \in Upto(CN) : cvoff[c + 1] = cvoff[c] + Cardinality(MembersOf(c))
      /\ \A c, d \in 0..CN : c <= d => cvoff[c] <= cvoff[d]
  BY <1>1 DEF ClaimsHold, Places
<1>3. ASSUME NEW u \in Claimed
      PROVE  /\ place[u] \in Nat /\ u \in Upto(Span)
             /\ cvoff[com[u]] <= PlaceOf(place, u)
             /\ PlaceOf(place, u) < cvoff[com[u] + 1]
             /\ cvoff[com[u]] \in 0..Span /\ cvoff[com[u] + 1] \in 0..Span
             /\ PlaceOf(place, u) \in Int
  <2>1. u \in Upto(Span) /\ place[u] \in 0..(cvdeg[com[u]] - 1)
    BY DEF Claimed, Placed
  <2>2. /\ com[u] \in Upto(CN) /\ com[u] \in 0..CN /\ com[u] + 1 \in 0..CN
    BY <1>1, <2>1, CommunityOf
  <2>3. cvdeg[com[u]] = Cardinality(ClaimedOf(com[u]))
    BY <1>1, <2>2
  <2>4. /\ Cardinality(ClaimedOf(com[u])) \in Nat
        /\ Cardinality(MembersOf(com[u])) \in Nat
        /\ Cardinality(ClaimedOf(com[u])) <= Cardinality(MembersOf(com[u]))
    <3>1. ClaimedOf(com[u]) \in SUBSET MembersOf(com[u])
      BY DEF ClaimedOf
    <3>2. IsFiniteSet(MembersOf(com[u]))
      BY <1>1, FiniteMembers
    <3> QED
      BY <3>1, <3>2, FS_Subset, FS_CardinalityType
  <2>5. /\ cvoff[com[u] + 1] = cvoff[com[u]] + Cardinality(MembersOf(com[u]))
        /\ cvoff[com[u]] \in 0..Span /\ cvoff[com[u] + 1] \in 0..Span
    BY <1>2, <2>2
  <2> QED
    BY <1>1, <2>1, <2>3, <2>4, <2>5, Spans DEF PlaceOf
<1>4. ASSUME NEW u \in Claimed, NEW w \in Claimed, com[u] < com[w]
      PROVE  PlaceOf(place, u) < PlaceOf(place, w)
  <2>1. /\ com[u] \in Nat /\ com[w] \in Nat /\ CN \in Nat
        /\ com[u] + 1 \in 0..CN /\ com[w] \in 0..CN
    BY <1>1, <1>3, CommunityOf
  <2>2. com[u] + 1 <= com[w]
    BY <1>4, <2>1
  <2>3. cvoff[com[u] + 1] <= cvoff[com[w]]
    BY <1>2, <2>1, <2>2
  <2> QED
    BY <1>1, <1>3, <2>3, Spans
<1>5. ASSUME NEW u \in Claimed, NEW w \in Claimed, PlaceOf(place, u) = PlaceOf(place, w)
      PROVE  u = w
  <2>1. com[u] \in Nat /\ com[w] \in Nat
    BY <1>1, <1>3, CommunityOf
  <2>2. com[u] = com[w]
    BY <1>3, <1>4, <1>5, <2>1
  <2>3. place[u] = place[w]
    BY <1>1, <1>3, <1>5, <2>2, Spans DEF PlaceOf
  <2> QED
    BY <2>2, <2>3 DEF Placed
<1>6. ASSUME NEW u \in Claimed
      PROVE  /\ PlaceOf(place, u) \in cvoff[com[u]]..(cvoff[com[u] + 1] - 1)
             /\ PlaceOf(place, u) \in Upto(Span)
  BY <1>1, <1>3, Spans DEF Upto
<1> QED
  BY <1>3, <1>5, <1>6

LEMMA ClaimKeeps ==
  ASSUME LiveInv, NEW u \in Upto(S), Claim(u)
  PROVE  LiveInv'
<1>1. /\ pc = "claim" /\ pc' = "claim" /\ u \in todo /\ todo' = todo \ {u}
      /\ slot' = [slot EXCEPT ![u] = cvdeg[com[u]]]
      /\ cvdeg' = [cvdeg EXCEPT ![com[u]] = @ + 1]
      /\ p' = p /\ y' = y /\ ucom' = ucom /\ vcom' = vcom /\ CN' = CN
      /\ cvkey' = cvkey /\ cvoff' = cvoff /\ z' = z /\ T' = T
  BY DEF Claim, moved
<1>2. Fits /\ Labels /\ Places /\ Claims /\ pc \in Renumbered /\ pc \in Listing
  BY <1>1 DEF LiveInv, Renumbered, Listing
<1>3. /\ isFirst' = isFirst /\ Span' = Span /\ com' = com
      /\ \A c : MembersOf(c)' = MembersOf(c)
  BY <1>1, SameLabels
<1>4. /\ todo \subseteq Upto(Span)
      /\ \A w \in Upto(S) : w \notin Claimed => slot[w] = Stale
      /\ \A c \in Upto(CN) : cvdeg[c] = Cardinality(ClaimedOf(c))
  BY <1>1, <1>2 DEF Claims
<1>5. PICK place \in [Claimed -> Upto(Span)] :
        Placed(place, Claimed, com, cvoff, cvdeg, cvkey, slot)
  BY <1>1, <1>2 DEF Claims
<1>6. /\ u \in Upto(Span) /\ com[u] \in Upto(CN) /\ u \notin Claimed
      /\ DOMAIN cvdeg = Upto(CN) /\ DOMAIN slot = Upto(S)
  BY <1>1, <1>2, <1>4, CommunityOf DEF Claimed, Fits
<1>7. Claimed' = Claimed \cup {u} /\ Claimed \subseteq Upto(Span)
  BY <1>1, <1>3, <1>6 DEF Claimed
<1>8. ASSUME NEW c \in Upto(CN)
      PROVE  /\ IsFiniteSet(ClaimedOf(c)) /\ Cardinality(ClaimedOf(c)) \in Nat
             /\ Cardinality(ClaimedOf(c)') = IF c = com[u] THEN Cardinality(ClaimedOf(c)) + 1
                                                           ELSE Cardinality(ClaimedOf(c))
  <2>1. ClaimedOf(c) \in SUBSET MembersOf(c) /\ IsFiniteSet(MembersOf(c))
    BY <1>2, FiniteMembers DEF ClaimedOf
  <2>2. IsFiniteSet(ClaimedOf(c)) /\ Cardinality(ClaimedOf(c)) \in Nat
    BY <2>1, FS_Subset, FS_CardinalityType
  <2>3. CASE c = com[u]
    <3>1. ClaimedOf(c)' = ClaimedOf(c) \cup {u} /\ u \notin ClaimedOf(c)
      BY <1>3, <1>6, <1>7, <2>3 DEF ClaimedOf, MembersOf
    <3> QED
      BY <2>2, <2>3, <3>1, FS_AddElement
  <2>4. CASE c # com[u]
    <3>1. ClaimedOf(c)' = ClaimedOf(c)
      BY <1>3, <1>7, <2>4 DEF ClaimedOf, MembersOf
    <3> QED
      BY <2>2, <2>4, <3>1
  <2> QED
    BY <2>2, <2>3, <2>4
<1>9. /\ cvdeg[com[u]] \in Nat /\ cvdeg[com[u]] \in Upto(Span)
      /\ cvdeg'[com[u]] = cvdeg[com[u]] + 1
      /\ \A c \in Upto(CN) : cvdeg[c] \in Nat /\ (c # com[u] => cvdeg'[c] = cvdeg[c])
  <2>1. \A c \in Upto(CN) : cvdeg[c] \in Nat
    BY <1>4, <1>8
  <2>2. cvdeg[com[u]] < Span
    <3>1. ClaimedOf(com[u]) \in SUBSET Upto(Span) /\ ClaimedOf(com[u]) # Upto(Span)
      BY <1>6, <1>7 DEF ClaimedOf
    <3>2. /\ Cardinality(ClaimedOf(com[u])) <= Span
          /\ Cardinality(ClaimedOf(com[u])) # Span
      BY <1>2, <3>1, Spans, FS_Subset
    <3> QED
      BY <1>2, <1>4, <1>6, <2>1, <3>2, Spans
  <2> QED
    BY <1>1, <1>2, <1>6, <2>1, <2>2, Spans DEF Upto
<1> DEFINE place1 == [w \in Claimed \cup {u} |-> IF w = u THEN cvdeg[com[u]] ELSE place[w]]
<1>10. place1 \in [Claimed \cup {u} -> Upto(Span)]
  BY <1>5, <1>9
<1>11. Placed(place1, Claimed \cup {u}, com, cvoff, cvdeg', cvkey, slot')
  <2>1. ASSUME NEW w \in Claimed
        PROVE  /\ place1[w] = place[w] /\ place[w] \in 0..(cvdeg[com[w]] - 1)
               /\ slot'[w] = slot[w] /\ slot[w] \in {Stale, place[w]}
               /\ slot[w] = Stale => cvkey[cvoff[com[w]] + place[w]] = w
               /\ com[w] \in Upto(CN)
    <3>1. w # u /\ w \in Upto(S)
      BY <1>2, <1>6, <1>7, Spans
    <3>2. w \in Upto(Span)
      BY <1>7
    <3> QED
      BY <1>1, <1>2, <1>5, <1>6, <3>1, <3>2, CommunityOf DEF Placed
  <2>2. /\ place1[u] = cvdeg[com[u]] /\ slot'[u] = cvdeg[com[u]] /\ cvdeg[com[u]] # Stale
    BY <1>1, <1>6, <1>9 DEF Stale
  <2>3. ASSUME NEW w \in Claimed
        PROVE  /\ place1[w] \in 0..(cvdeg'[com[w]] - 1)
               /\ com[w] = com[u] => place1[w] # place1[u]
    BY <1>9, <2>1, <2>2
  <2>4. ASSUME NEW v \in Claimed, NEW w \in Claimed, com[v] = com[w], place1[v] = place1[w]
        PROVE  v = w
    BY <1>5, <2>1, <2>4 DEF Placed
  <2>5. place1[u] \in 0..(cvdeg'[com[u]] - 1)
    BY <1>9, <2>2
  <2> HIDE DEF place1
  <2>6. ASSUME NEW w \in Claimed \cup {u}
        PROVE  /\ place1[w] \in 0..(cvdeg'[com[w]] - 1)
               /\ slot'[w] \in {Stale, place1[w]}
               /\ slot'[w] = Stale => cvkey[cvoff[com[w]] + place1[w]] = w
    <3>1. CASE w = u
      BY <2>2, <2>5, <3>1
    <3>2. CASE w # u
      <4>1. w \in Claimed
        BY <3>2
      <4> QED
        BY <2>1, <2>3, <4>1
    <3> QED
      BY <3>1, <3>2
  <2>7. ASSUME NEW v \in Claimed \cup {u}, NEW w \in Claimed \cup {u},
               com[v] = com[w], place1[v] = place1[w]
        PROVE  v = w
    BY <2>3, <2>4, <2>7
  <2> QED
    BY <2>6, <2>7 DEF Placed
<1>12. Claims'
  <2> HIDE DEF place1
  <2>1. \A w \in Upto(S) : w \notin Claimed' => slot'[w] = Stale
    BY <1>1, <1>4, <1>6, <1>7
  <2>2. \A c \in Upto(CN) : cvdeg'[c] = Cardinality(ClaimedOf(c)')
    BY <1>4, <1>8, <1>9
  <2>3. \E q \in [Claimed' -> Upto(Span)] :
          Placed(q, Claimed', com', cvoff', cvdeg', cvkey', slot')
    BY <1>1, <1>3, <1>7, <1>10, <1>11
  <2> QED
    BY <1>1, <1>3, <1>4, <2>1, <2>2, <2>3 DEF Claims
<1>13. Fits'
  BY <1>1, <1>2, <1>3 DEF Fits, Renumbered, Listing
<1>14. Labels' /\ Places'
  BY <1>1, <1>2, <1>3 DEF Labels, Places, Renumbered, Listing
<1>15. Marks' /\ Scans' /\ Listings' /\ Clean'
  BY <1>1 DEF Marks, Scans, Listings, Clean
<1> QED
  BY <1>12, <1>13, <1>14, <1>15 DEF LiveInv

LEMMA WriteKeeps ==
  ASSUME LiveInv, NEW u \in Upto(S), Write(u)
  PROVE  LiveInv'
<1>1. /\ pc = "claim" /\ pc' = "claim" /\ slot[u] # Stale /\ todo' = todo
      /\ slot' = [slot EXCEPT ![u] = Stale]
      /\ cvkey' = [cvkey EXCEPT ![cvoff[com[u]] + slot[u]] = u]
      /\ p' = p /\ y' = y /\ ucom' = ucom /\ vcom' = vcom /\ CN' = CN
      /\ cvdeg' = cvdeg /\ cvoff' = cvoff /\ z' = z /\ T' = T
  BY DEF Write, moved
<1>2. Fits /\ Labels /\ Places /\ Claims
  BY DEF LiveInv
<1>3. /\ isFirst' = isFirst /\ Span' = Span /\ com' = com
      /\ \A c : MembersOf(c)' = MembersOf(c)
  BY <1>1, SameLabels
<1>4. Claimed' = Claimed /\ \A c : ClaimedOf(c)' = ClaimedOf(c)
  BY <1>1, <1>3 DEF Claimed, ClaimedOf
<1>5. /\ \A w \in Upto(S) : w \notin Claimed => slot[w] = Stale
      /\ ClaimsHold
  BY <1>1, <1>2 DEF Claims, ClaimsHold
<1>6. PICK place \in [Claimed -> Upto(Span)] :
        Placed(place, Claimed, com, cvoff, cvdeg, cvkey, slot)
  BY <1>1, <1>2 DEF Claims
<1>7. /\ u \in Claimed /\ slot[u] = place[u] /\ cvoff[com[u]] + slot[u] = PlaceOf(place, u)
      /\ Claimed \subseteq Upto(S) /\ DOMAIN slot = Upto(S) /\ DOMAIN cvkey = Upto(S)
  BY <1>1, <1>2, <1>5, <1>6, Spans DEF Placed, PlaceOf, Claimed, Fits
<1>8. PlaceOf(place, u) \in Upto(S)
  BY <1>2, <1>5, <1>6, <1>7, PlacesApart, Spans
<1>9. Placed(place, Claimed, com, cvoff, cvdeg, cvkey', slot')
  <2>1. ASSUME NEW w \in Claimed
        PROVE  /\ slot'[w] \in {Stale, place[w]}
               /\ slot'[w] = Stale => cvkey'[cvoff[com[w]] + place[w]] = w
    <3>1. CASE w = u
      BY <1>1, <1>7, <1>8, <3>1
    <3>2. CASE w # u
      <4>1. PlaceOf(place, w) # PlaceOf(place, u)
        BY <1>5, <1>6, <1>7, <3>2, PlacesApart
      <4>2. slot'[w] = slot[w]
        BY <1>1, <1>7, <3>2
      <4>3. cvkey'[PlaceOf(place, w)] = cvkey[PlaceOf(place, w)]
        <5>1. PlaceOf(place, w) \in Upto(S)
          BY <1>2, <1>5, <1>6, PlacesApart, Spans
        <5> QED
          BY <1>1, <1>7, <4>1, <5>1
      <4> QED
        BY <1>6, <4>2, <4>3 DEF Placed, PlaceOf
    <3> QED
      BY <3>1, <3>2
  <2> QED
    BY <1>6, <2>1 DEF Placed
<1>10. Claims'
  <2>1. \A w \in Upto(S) : w \notin Claimed' => slot'[w] = Stale
    BY <1>1, <1>4, <1>5, <1>7
  <2>2. \E q \in [Claimed' -> Upto(Span)] :
          Placed(q, Claimed', com', cvoff', cvdeg', cvkey', slot')
    BY <1>1, <1>3, <1>4, <1>6, <1>9
  <2> QED
    BY <1>1, <1>3, <1>4, <1>5, <2>1, <2>2 DEF Claims, ClaimsHold
<1>11. Fits'
  BY <1>1, <1>2, <1>3 DEF Fits, Renumbered, Listing
<1>12. Labels' /\ Places'
  BY <1>1, <1>2, <1>3 DEF Labels, Places, Renumbered, Listing
<1>13. Marks' /\ Scans' /\ Listings' /\ Clean'
  BY <1>1 DEF Marks, Scans, Listings, Clean
<1> QED
  BY <1>10, <1>11, <1>12, <1>13 DEF LiveInv

-----------------------------------------------------------------------------
(* Rows, regions and listings are sequences.                               *)
LEMMA IsSequence ==
  ASSUME NEW n \in Nat, NEW f, f = [i \in 1..n |-> f[i]]
  PROVE  Len(f) = n /\ DOMAIN f = 1..n /\ \A A : (\A i \in 1..n : f[i] \in A) => f \in Seq(A)
<1>1. DOMAIN f = 1..n
  OBVIOUS
<1>2. ASSUME NEW A, \A i \in 1..n : f[i] \in A PROVE f \in Seq(A)
  <2>1. f \in [1..n -> A]
    BY <1>2
  <2> QED
    BY <2>1
<1>3. Len(f) = n
  <2>1. f \in Seq({ f[i] : i \in 1..n })
    BY <1>2
  <2> QED
    BY <1>1, <2>1
<1> QED
  BY <1>1, <1>2, <1>3

LEMMA RowLength ==
  ASSUME Fits, NEW u \in Upto(Span)
  PROVE  \E n \in Nat : Row(u) = [i \in 1..n |-> Row(u)[i]]
<1>1. CASE isFirst
  <2> DEFINE I == { v \in Upto(S) : <<u, v>> \in DOMAIN x }
  <2>1. IsFiniteSet(I)
    <3>1. IsFiniteSet(Upto(S))
      <4>1. S \in Nat
        BY PassesAssumption
      <4> QED
        BY <4>1, FS_Interval DEF Upto
    <3> QED
      BY <3>1, FS_Subset
  <2>2. DOMAIN Ascending(I) = 1..Cardinality(I) /\ Cardinality(I) \in Nat
    <3> HIDE DEF I
    <3> QED
      BY <2>1, AscendingLength
  <2>3. Row(u) = [i \in DOMAIN Ascending(I) |-> <<Ascending(I)[i], x[<<u, Ascending(I)[i]>>]>>]
    BY <1>1 DEF Row, InputRow
  <2> HIDE DEF I
  <2> QED
    BY <2>2, <2>3
<1>2. CASE ~isFirst
  <2>1. y.deg[u] \in Nat
    BY <1>2 DEF Fits
  <2>2. Row(u) = [i \in 1..y.deg[u] |-> <<y.key[y.off[u] + i - 1], y.val[y.off[u] + i - 1]>>]
    BY <1>2 DEF Row, CsrRow
  <2> QED
    BY <2>1, <2>2
<1> QED
  BY <1>1, <1>2

LEMMA RoomIsInt ==
  ASSUME Fits, NEW c
  PROVE  Room(c) \in Int
<1> DEFINE f == [u \in Upto(Span) |-> IF com[u] = c THEN Len(Row(u)) ELSE 0]
<1>1. \A u \in 0..(Span - 1) : f[u] \in Int
  <2>1. \A u \in Upto(Span) : Len(Row(u)) \in Nat
    BY RowLength, IsSequence
  <2>2. \A u \in Upto(Span) : f[u] \in Int
    BY <2>1
  <2> QED
    BY <2>2 DEF Upto
<1>2. Room(c) = Sum(f, 0, Span)
  BY SameSums DEF Room
<1> HIDE DEF f
<1> QED
  BY <1>1, <1>2, Spans, SumInt

LEMMA SubSeqIs ==
  ASSUME NEW A, NEW s \in Seq(A), NEW a \in Nat, NEW n \in Nat, a + n <= Len(s)
  PROVE  SubSeq(s, a + 1, a + n) = [i \in 1..n |-> s[a + i]]
<1> DEFINE r == SubSeq(s, a + 1, a + n)
<1>1. r \in Seq(A) /\ Len(r) = n /\ \A i \in 1..n : r[i] = s[i + (a + 1) - 1]
  BY SubSeqProperties
<1> HIDE DEF r
<1>2. r = [i \in 1..n |-> r[i]]
  BY <1>1
<1>3. \A i \in 1..n : r[i] = s[a + i]
  <2>1. \A i \in 1..n : i + (a + 1) - 1 = a + i
    OBVIOUS
  <2> QED
    BY <1>1, <2>1
<1>4. r = [i \in 1..n |-> s[a + i]]
  BY <1>2, <1>3
<1> QED
  BY <1>4 DEF r

LEMMA ListedIs ==
  ASSUME Fits, Places, pc \in Listing, NEW c \in Upto(CN)
  PROVE  /\ DOMAIN Listed(c) = 1..Cardinality(MembersOf(c))
         /\ Len(Listed(c)) = Cardinality(MembersOf(c))
         /\ \A i \in 1..Cardinality(MembersOf(c)) : Listed(c)[i] = cvkey[cvoff[c] + i - 1]
         /\ Listed(c) = [i \in 1..Cardinality(MembersOf(c)) |-> Listed(c)[i]]
<1> DEFINE s == [i \in 1..S |-> cvkey[i - 1]]
           n == Cardinality(MembersOf(c))
<1>1. /\ S \in Nat /\ n \in Nat /\ cvoff[c] \in 0..S /\ cvoff[c + 1] = cvoff[c] + n
      /\ cvoff[c] + n <= S
  <2>1. /\ c \in 0..CN /\ c + 1 \in 0..CN /\ Span \in 0..S /\ S \in Nat
    BY Spans DEF Upto, Fits, Listing, Renumbered
  <2>2. /\ cvoff[c] \in 0..Span /\ cvoff[c + 1] \in 0..Span /\ cvoff[c + 1] = cvoff[c] + n
    BY <2>1 DEF Places
  <2> QED
    BY <2>1, <2>2, FiniteMembers
<1> HIDE DEF n
<1>2. PICK A : s \in Seq(A) /\ Len(s) = S
  <2>1. s \in Seq({ cvkey[i - 1] : i \in 1..S }) /\ Len(s) = S
    BY <1>1, IsSequence
  <2> QED
    BY <2>1
<1>3. Listed(c) = SubSeq(s, cvoff[c] + 1, cvoff[c] + n)
  BY <1>1 DEF Listed
<1>4. SubSeq(s, cvoff[c] + 1, cvoff[c] + n) = [i \in 1..n |-> s[cvoff[c] + i]]
  <2> DEFINE a == cvoff[c]
  <2> HIDE DEF s
  <2>1. a \in Nat /\ n \in Nat /\ a + n <= Len(s) /\ s \in Seq(A)
    BY <1>1, <1>2
  <2> HIDE DEF a
  <2>2. SubSeq(s, a + 1, a + n) = [i \in 1..n |-> s[a + i]]
    BY <2>1, SubSeqIs
  <2> QED
    BY <2>2 DEF a
<1>5. Listed(c) = [i \in 1..n |-> cvkey[cvoff[c] + i - 1]]
  <2>1. \A i \in 1..n : s[cvoff[c] + i] = cvkey[cvoff[c] + i - 1]
    BY <1>1, SMTT(30)
  <2> HIDE DEF s
  <2> QED
    BY <1>3, <1>4, <2>1
<1>6. Listed(c) = [i \in 1..n |-> Listed(c)[i]]
  BY <1>5
<1>7. Len(Listed(c)) = n
  BY <1>1, <1>6, IsSequence
<1> QED
  BY <1>5, <1>6, <1>7 DEF n

(* When all have claimed and written, the places of the members of a       *)
(* community fill its region.                                              *)
LEMMA RegionsFilled ==
  ASSUME LiveInv, pc = "claim", todo = {}, \A u \in Upto(S) : slot[u] = Stale, NEW c \in Upto(CN)
  PROVE  /\ ToSet(Listed(c)) = MembersOf(c)
         /\ Len(Listed(c)) = Cardinality(MembersOf(c))
<1> DEFINE M == MembersOf(c)
           n == Cardinality(M)
<1>1. Fits /\ Places /\ Claims /\ pc \in Listing
  BY DEF LiveInv, Listing
<1>2. Claimed = Upto(Span) /\ ClaimedOf(c) = M /\ M \subseteq Upto(Span)
  BY DEF Claimed, ClaimedOf, MembersOf
<1>3. PICK place \in [Claimed -> Upto(Span)] :
        Placed(place, Claimed, com, cvoff, cvdeg, cvkey, slot)
  BY <1>1 DEF Claims
<1>4. ASSUME NEW u \in M
      PROVE  /\ place[u] \in 0..(n - 1)
             /\ cvkey[cvoff[c] + place[u]] = u
             /\ \A w \in M : place[u] = place[w] => u = w
  <2>1. \A w \in M : w \in Claimed /\ com[w] = c /\ slot[w] = Stale
    BY <1>1, <1>2, Spans DEF MembersOf
  <2>2. cvdeg[c] = n
    BY <1>1, <1>2 DEF Claims
  <2> HIDE DEF M, n
  <2> QED
    BY <1>3, <2>1, <2>2 DEF Placed
<1>5. IsFiniteSet(M) /\ n \in Nat
  BY <1>1, FiniteMembers, FS_CardinalityType
<1>6. \A i \in 1..n : \E u \in M : place[u] + 1 = i
  <2> DEFINE f == [u \in M |-> place[u] + 1]
  <2> HIDE DEF M, n
  <2>1. f \in [M -> 1..n] /\ \A u, w \in M : f[u] = f[w] => u = w
    BY <1>4, <1>5
  <2>2. IsFiniteSet(1..n) /\ Cardinality(1..n) = n
    BY <1>5, FS_Interval
  <2> HIDE DEF f
  <2>3. f \in Injection(M, 1..n)
    BY <2>1 DEF Injection, IsInjective
  <2>4. f \in Surjection(M, 1..n)
    BY <2>2, <2>3, FS_Injection DEF n
  <2>5. \A i \in 1..n : \E u \in M : f[u] = i
    BY <2>4 DEF Surjection
  <2> QED
    BY <2>5 DEF f
<1>7. /\ DOMAIN Listed(c) = 1..n /\ Len(Listed(c)) = n
      /\ \A i \in 1..n : Listed(c)[i] = cvkey[cvoff[c] + i - 1]
  BY <1>1, ListedIs
<1>8. \A u \in M : place[u] + 1 \in 1..n /\ Listed(c)[place[u] + 1] = u
  <2>1. cvoff[c] \in Int
    BY <1>1, CommunityOf, Spans DEF Places, Fits, Listing, Renumbered, Upto
  <2>2. ASSUME NEW u \in M PROVE place[u] + 1 \in 1..n /\ cvoff[c] + (place[u] + 1) - 1 = cvoff[c] + place[u]
    <3> HIDE DEF n, M
    <3> QED
      BY <1>4, <1>5, <2>1
  <2> HIDE DEF n, M
  <2> QED
    BY <1>4, <1>7, <2>2
<1>9. ToSet(Listed(c)) = M
  <2> HIDE DEF n, M
  <2>1. ToSet(Listed(c)) = { Listed(c)[i] : i \in 1..n }
    BY <1>7 DEF ToSet
  <2>2. \A i \in 1..n : Listed(c)[i] \in M
    BY <1>6, <1>8
  <2> QED
    BY <1>8, <2>1, <2>2
<1> QED
  BY <1>7, <1>9

LEMMA TotalDegreesKeeps ==
  ASSUME LiveInv, TotalDegrees
  PROVE  LiveInv'
<1>1. /\ pc = "claim" /\ pc' = "regions" /\ todo = {} /\ \A u \in Upto(S) : slot[u] = Stale
      /\ zoff' = [c \in 0..CN |-> IF c < CN THEN Room(c) ELSE 0]
      /\ stage' = "local" /\ buf' = [t \in 0..(H - 1) |-> 0] /\ todo' = 0..(T - 1)
      /\ given' = zoff'
      /\ p' = p /\ y' = y /\ ucom' = ucom /\ vcom' = vcom /\ CN' = CN
      /\ cvkey' = cvkey /\ cvdeg' = cvdeg /\ cvoff' = cvoff /\ slot' = slot /\ z' = z /\ T' = T
  BY DEF TotalDegrees, moved, cv, Rows!StartScan
<1>2. Fits /\ Labels /\ Places /\ CN \in Nat
  BY <1>1, Spans DEF LiveInv, Fits, Renumbered, Listing
<1>3. /\ isFirst' = isFirst /\ Span' = Span /\ com' = com
      /\ \A c : MembersOf(c)' = MembersOf(c)
  BY <1>1, SameLabels
<1>4. Scans'
  <2>1. 0..(CN - 1) \subseteq DOMAIN zoff' /\ \A c \in 0..(CN - 1) : zoff'[c] \in Int
    BY <1>1, <1>2, RoomIsInt
  <2>2. ScanOK(zoff', [t \in 0..(H - 1) |-> 0], T, "local", 0..(T - 1), zoff', CN)
    BY <1>2, <2>1, Spans, ScanStarts
  <2> QED
    BY <1>1, <2>2 DEF Scans
<1>5. Listings'
  <2>1. \A c : Listed(c)' = Listed(c)
    BY <1>1 DEF Listed
  <2> QED
    BY <1>1, <1>3, <2>1, RegionsFilled DEF Listings
<1>6. Fits'
  BY <1>1, <1>2, <1>3 DEF Fits, Renumbered, Listing
<1>7. Labels' /\ Places'
  BY <1>1, <1>2, <1>3 DEF Labels, Places, Renumbered, Listing
<1>8. Marks' /\ Claims' /\ Clean'
  BY <1>1 DEF Marks, Claims, Clean
<1> QED
  BY <1>4, <1>5, <1>6, <1>7, <1>8 DEF LiveInv

LEMMA RegionsKeeps ==
  ASSUME LiveInv, Regions
  PROVE  LiveInv'
<1>1. /\ pc = "regions" /\ pc' = "regions"
      /\ p' = p /\ y' = y /\ ucom' = ucom /\ vcom' = vcom /\ CN' = CN
      /\ cvkey' = cvkey /\ cvdeg' = cvdeg /\ cvoff' = cvoff /\ slot' = slot /\ z' = z
  BY DEF Regions, moved, cv
<1>2. Fits /\ Labels /\ Places /\ Scans /\ Clean /\ Listings /\ CN \in Nat
  BY <1>1, Spans DEF LiveInv, Fits, Renumbered, Listing
<1>3. /\ isFirst' = isFirst /\ Span' = Span /\ com' = com
      /\ \A c : MembersOf(c)' = MembersOf(c)
  BY <1>1, SameLabels
<1>4. T' = T /\ given' = given /\ ScanMoves(zoff, zoff', CN)
  BY <1>2, Spans, RowsMove DEF Regions
<1>5. ScanOK(zoff', buf', T', stage', todo', given', CN)
  BY <1>1, <1>2, <1>4, Spans, ScanMovesKeep DEF Scans
<1>6. Listings'
  <2>1. \A c : Listed(c)' = Listed(c)
    BY <1>1 DEF Listed
  <2> QED
    BY <1>1, <1>2, <1>3, <2>1 DEF Listings
<1>7. Fits'
  BY <1>1, <1>2, <1>3, <1>4 DEF Fits, Renumbered, Listing
<1>8. Labels' /\ Places'
  BY <1>1, <1>2, <1>3 DEF Labels, Places, Renumbered, Listing
<1>9. Marks' /\ Scans' /\ Claims' /\ Clean'
  BY <1>1, <1>2, <1>5 DEF Marks, Scans, Claims, Clean
<1> QED
  BY <1>6, <1>7, <1>8, <1>9 DEF LiveInv

LEMMA StartAggregationKeeps ==
  ASSUME LiveInv, StartAggregation
  PROVE  LiveInv'
<1>1. /\ pc = "regions" /\ pc' = "aggregate" /\ z' = [z EXCEPT !.deg = Fill(CN, 0)]
      /\ p' = p /\ y' = y /\ ucom' = ucom /\ vcom' = vcom /\ CN' = CN /\ T' = T
      /\ cvkey' = cvkey /\ cvdeg' = cvdeg /\ cvoff' = cvoff /\ slot' = slot
  BY DEF StartAggregation, moved, cv
<1>2. Fits /\ Labels /\ Places /\ Clean /\ Listings
  BY DEF LiveInv
<1>3. /\ isFirst' = isFirst /\ Span' = Span /\ com' = com
      /\ \A c : MembersOf(c)' = MembersOf(c)
  BY <1>1, SameLabels
<1>4. /\ z' = [deg |-> z'.deg, key |-> z'.key, val |-> z'.val]
      /\ z'.deg = Fill(CN, 0)
  BY <1>1, <1>2 DEF Fits
<1>5. DOMAIN z'.deg = Upto(CN) /\ \A c \in Upto(CN) : z'.deg[c] \in Nat
  BY <1>4 DEF Fill
<1>6. Listings'
  <2>1. \A c : Listed(c)' = Listed(c)
    BY <1>1 DEF Listed
  <2> QED
    BY <1>1, <1>2, <1>3, <2>1 DEF Listings
<1>7. Fits'
  BY <1>1, <1>2, <1>3, <1>4, <1>5 DEF Fits, Renumbered, Listing
<1>8. Labels' /\ Places'
  BY <1>1, <1>2, <1>3 DEF Labels, Places, Renumbered, Listing
<1>9. Marks' /\ Scans' /\ Claims' /\ Clean'
  BY <1>1, <1>2 DEF Marks, Scans, Claims, Clean
<1> QED
  BY <1>6, <1>7, <1>8, <1>9 DEF LiveInv

(* The row of a community is a sequence: so are those of its members.      *)
LEMMA SeenLength ==
  ASSUME Fits, Places, Listings, pc = "aggregate", NEW c \in Upto(CN)
  PROVE  Len(Seen(c)) \in Nat
<1> DEFINE A == UNION { { Row(u)[i] : i \in DOMAIN Row(u) } : u \in Upto(Span) }
           k == Cardinality(MembersOf(c))
           rows == [i \in DOMAIN Listed(c) |-> Row(Listed(c)[i])]
<1>1. k \in Nat /\ DOMAIN Listed(c) = 1..k
  BY FiniteMembers, ListedIs DEF Listing
<1>2. \A u \in Upto(Span) : Row(u) \in Seq(A)
  <2>1. \A u \in Upto(Span) : \A i \in DOMAIN Row(u) : Row(u)[i] \in A
    OBVIOUS
  <2> HIDE DEF A
  <2> QED
    BY <2>1, RowLength, IsSequence
<1>3. \A i \in 1..k : Listed(c)[i] \in Upto(Span)
  <2>1. ToSet(Listed(c)) = MembersOf(c)
    BY DEF Listings
  <2>2. \A i \in 1..k : Listed(c)[i] \in ToSet(Listed(c))
    BY <1>1 DEF ToSet
  <2> QED
    BY <2>1, <2>2 DEF MembersOf
<1> HIDE DEF A, k
<1>4. Edges(c) \in Seq(A)
  <2>1. rows \in Seq(Seq(A))
    <3>1. rows \in [1..k -> Seq(A)]
      BY <1>1, <1>2, <1>3
    <3> HIDE DEF rows
    <3> QED
      BY <1>1, <3>1
  <2>2. Edges(c) = FlattenSeq(rows)
    BY DEF Edges
  <2> HIDE DEF rows
  <2> QED
    BY <2>1, <2>2, FlattenType
<1> DEFINE ds == [i \in DOMAIN Edges(c) |-> com[Edges(c)[i][1]]]
           I == { i \in DOMAIN ds : \A j \in 1..(i - 1) : ds[j] # ds[i] }
<1>5. IsFiniteSet(I)
  <2>1. DOMAIN ds = 1..Len(Edges(c)) /\ Len(Edges(c)) \in Nat
    BY <1>4
  <2>2. IsFiniteSet(DOMAIN ds)
    BY <2>1, FS_Interval, SMTT(30)
  <2> HIDE DEF ds
  <2> QED
    BY <2>2, FS_Subset
<1>6. DOMAIN Seen(c) = DOMAIN Ascending(I)
  BY DEF Seen
<1>7. \E n \in Nat : DOMAIN Seen(c) = 1..n
  <2> HIDE DEF I
  <2> QED
    BY <1>5, <1>6, AscendingLength
<1>8. \E n \in Nat : Seen(c) = [i \in 1..n |-> Seen(c)[i]]
  <2> DEFINE edges == Edges(c)
             firsts == Ascending(I)
             W(d) == SumOf([i \in Upto(Len(ds)) |-> IF ds[i + 1] = d THEN edges[i + 1][2] ELSE 0], Len(ds))
  <2>1. Seen(c) = [i \in DOMAIN firsts |-> <<ds[firsts[i]], W(ds[firsts[i]])>>]
    BY Zenon DEF Seen
  <2> HIDE DEF W, firsts, ds, I
  <2>2. Seen(c) = [i \in DOMAIN Seen(c) |-> Seen(c)[i]]
    BY <2>1
  <2> QED
    BY <1>7, <2>2
<1> QED
  BY <1>8, IsSequence

LEMMA AggregateKeeps ==
  ASSUME LiveInv, NEW c \in Upto(S), Aggregate(c)
  PROVE  LiveInv'
<1>1. /\ pc = "aggregate" /\ pc' = "aggregate"
      /\ \E k, v : z' = [deg |-> [z.deg EXCEPT ![c] = Len(Seen(c))], key |-> k, val |-> v]
      /\ p' = p /\ y' = y /\ ucom' = ucom /\ vcom' = vcom /\ CN' = CN /\ T' = T
      /\ cvkey' = cvkey /\ cvdeg' = cvdeg /\ cvoff' = cvoff /\ slot' = slot
  BY DEF Aggregate, moved, cv
<1>2. Fits /\ Labels /\ Places /\ Clean /\ Listings
  BY DEF LiveInv
<1>3. /\ isFirst' = isFirst /\ Span' = Span /\ com' = com
      /\ \A d : MembersOf(d)' = MembersOf(d)
  BY <1>1, SameLabels
<1>4. /\ z' = [deg |-> z'.deg, key |-> z'.key, val |-> z'.val]
      /\ z'.deg = [z.deg EXCEPT ![c] = Len(Seen(c))]
  BY <1>1
<1>5. DOMAIN z'.deg = Upto(CN) /\ \A d \in Upto(CN) : z'.deg[d] \in Nat
  <2>1. DOMAIN z.deg = Upto(CN) /\ \A d \in Upto(CN) : z.deg[d] \in Nat
    BY <1>1, <1>2 DEF Fits
  <2>2. c \in Upto(CN) => Len(Seen(c)) \in Nat
    BY <1>1, <1>2, SeenLength
  <2> QED
    BY <1>4, <2>1, <2>2
<1>6. Listings'
  <2>1. \A d : Listed(d)' = Listed(d)
    BY <1>1 DEF Listed
  <2> QED
    BY <1>1, <1>2, <1>3, <2>1 DEF Listings
<1>7. Fits'
  BY <1>1, <1>2, <1>3, <1>4, <1>5 DEF Fits, Renumbered, Listing
<1>8. Labels' /\ Places'
  BY <1>1, <1>2, <1>3 DEF Labels, Places, Renumbered, Listing
<1>9. Marks' /\ Scans' /\ Claims' /\ Clean'
  BY <1>1, <1>2 DEF Marks, Scans, Claims, Clean
<1> QED
  BY <1>6, <1>7, <1>8, <1>9 DEF LiveInv

(* The next pass is on as many vertices as there are communities.          *)
LEMMA NextPassKeeps ==
  ASSUME LiveInv, NextPass
  PROVE  LiveInv'
<1>1. /\ pc = "aggregate" /\ pc' = "move" /\ p' = p /\ y' = aggregated
      /\ z' = [deg |-> y.deg, key |-> Fill(EdgeCount, Stale), val |-> Fill(EdgeCount, Stale)]
      /\ cvkey' = Fill(S, Stale) /\ vcom' = Alone /\ ucom' = ucom /\ T' = T
      /\ cvdeg' = cvdeg /\ slot' = slot
  BY DEF NextPass
<1>2. /\ p \in Nat /\ p >= 1 /\ T \in 1..H /\ DOMAIN ucom = Upto(S) /\ DOMAIN slot = Upto(S)
      /\ CN \in 0..S /\ CN \in Nat
      /\ DOMAIN cvdeg = Upto(CN) /\ DOMAIN z.deg = Upto(CN)
      /\ \A c \in Upto(CN) : z.deg[c] \in Nat
      /\ \A u \in Upto(S) : slot[u] = Stale
  <2>1. Fits /\ Clean
    BY DEF LiveInv
  <2>2. CN \in 0..Span /\ Span \in 0..S /\ S \in Nat
    BY <1>1, <2>1, Spans DEF Fits, Renumbered
  <2>3. CN \in 0..S /\ CN \in Nat
    BY <2>2
  <2> QED
    BY <1>1, <2>1, <2>3 DEF Fits, Clean, Listing
<1>3. ~isFirst' /\ Span' = Cardinality(DOMAIN y'.deg)
  BY <1>1, <1>2 DEF isFirst, Span
<1>4. y'.deg = z.deg
  BY <1>1 DEF aggregated
<1>5. Span' = CN
  <2>1. 0 \in Int /\ CN - 1 \in Int /\ (0 > CN - 1 => CN = 0)
    BY <1>2
  <2>2. Cardinality(0..(CN - 1)) = IF 0 > CN - 1 THEN 0 ELSE CN - 1 - 0 + 1
    BY <2>1, FS_Interval
  <2>3. Cardinality(0..(CN - 1)) = CN
    BY <1>2, <2>1, <2>2
  <2> QED
    BY <1>2, <1>3, <1>4, <2>3 DEF Upto
<1>6. DOMAIN vcom' = Upto(S) /\ DOMAIN cvkey' = Upto(S)
  BY <1>1 DEF Alone, Fill
<1>7. z' = [deg |-> z'.deg, key |-> z'.key, val |-> z'.val]
  BY <1>1
<1>8. Fits'
  BY <1>1, <1>2, <1>3, <1>4, <1>5, <1>6, <1>7 DEF Fits, Renumbered, Listing
<1>9. Labels' /\ Marks' /\ Scans' /\ Places' /\ Claims' /\ Listings' /\ Clean'
  BY <1>1, <1>2 DEF Labels, Marks, Scans, Places, Claims, Listings, Clean, Renumbered, Listing
<1> QED
  BY <1>8, <1>9 DEF LiveInv

LEMMA StepKeeps ==
  ASSUME PInv, Live', [Next]_vars
  PROVE  LiveInv'
<1>1. CASE UNCHANGED vars
  <2>1. LiveInv
    BY <1>1 DEF PInv, Live, vars
  <2>2. /\ p' = p /\ pc' = pc /\ ucom' = ucom /\ vcom' = vcom /\ y' = y /\ z' = z /\ zoff' = zoff
        /\ cvoff' = cvoff /\ cvdeg' = cvdeg /\ cvkey' = cvkey /\ CN' = CN /\ slot' = slot
        /\ buf' = buf /\ stage' = stage /\ given' = given /\ T' = T /\ todo' = todo
    BY <1>1 DEF vars, moved, cv, scan
  <2>3. isFirst' = isFirst /\ Span' = Span /\ com' = com
    BY <2>2 DEF isFirst, Span, com
  <2>4. /\ \A c : MembersOf(c)' = MembersOf(c) /\ Listed(c)' = Listed(c)
        /\ \A c : ClaimedOf(c)' = ClaimedOf(c)
        /\ Claimed' = Claimed
    BY <2>2, <2>3 DEF MembersOf, Listed, ClaimedOf, Claimed
  <2>5. Fits'
    BY <2>1, <2>2, <2>3 DEF LiveInv, Fits
  <2>6. Labels' /\ Marks'
    BY <2>1, <2>2, <2>3 DEF LiveInv, Labels, Marks, Marked
  <2>7. Scans' /\ Places' /\ Listings'
    BY <2>1, <2>2, <2>3, <2>4 DEF LiveInv, Scans, Places, Listings
  <2>8. Claims' /\ Clean'
    BY <2>1, <2>2, <2>3, <2>4 DEF LiveInv, Claims, Clean
  <2> QED
    BY <2>5, <2>6, <2>7, <2>8 DEF LiveInv
<1>2. CASE Next
  <2>1. LiveInv
    <3>1. Live
      BY <1>2 DEF Live, Next, Move, Exists, Claim, Write, Aggregate, Existed, Rank, Renumber, Lookup,
         Count, Offsets, StartClaims, TotalDegrees, Regions, StartAggregation, NextPass, End, Group
    <3> QED
      BY <3>1, SMTT(30) DEF PInv
  <2>2. ASSUME NEW m \in 1..L, Move(m) PROVE LiveInv'
    BY <2>1, <2>2, MoveKeeps
  <2>3. ASSUME NEW u \in Upto(S), Exists(u) \/ Claim(u) \/ Write(u) \/ Aggregate(u) PROVE LiveInv'
    BY <2>1, <2>3, ExistsKeeps, ClaimKeeps, WriteKeeps, AggregateKeeps
  <2>4. CASE Existed \/ Rank \/ Renumber \/ Lookup \/ Count \/ Offsets
    BY <2>1, <2>4, ExistedKeeps, RankKeeps, RenumberKeeps, LookupKeeps, CountKeeps, OffsetsKeeps
  <2>5. CASE StartClaims \/ TotalDegrees \/ Regions \/ StartAggregation \/ NextPass
    BY <2>1, <2>5, StartClaimsKeeps, TotalDegreesKeeps, RegionsKeeps, StartAggregationKeeps,
       NextPassKeeps
  <2>6. CASE End \/ \E sorted \in BOOLEAN : Group(sorted)
    BY <2>6 DEF End, Group, Live
  <2> QED
    BY <1>2, <2>2, <2>3, <2>4, <2>5, <2>6 DEF Next
<1> QED
  BY <1>1, <1>2

(* The invariant of the passes, for every graph and number of threads.     *)
THEOREM PassesInvariant == Spec => []PInv
<1>1. Init => PInv
  BY InitOK
<1>2. PInv /\ [Next]_vars => PInv'
  <2>1. ASSUME PInv, [Next]_vars, Live' PROVE LiveInv'
    BY <2>1, StepKeeps
  <2>2. PInv' <=> (Live' => LiveInv')
    BY DEF PInv
  <2> QED
    BY <2>1, <2>2
<1> QED
  BY <1>1, <1>2, PTL DEF Spec

(***************************************************************************)
(* Of exclusiveScanOmpW: the three calls of a pass leave the prefix sums   *)
(* of what they were given, whichever threads run and in what order, and   *)
(* the ranks of the marked communities are as many as the captures of      *)
(* louvainCommunityExistsOmpW have counted.                                *)
(***************************************************************************)
THEOREM ScansAddUp == Spec => []ScansAreSums
<1>1. PInv => ScansAreSums
  <2> SUFFICES ASSUME PInv PROVE ScansAreSums
    OBVIOUS
  <2>1. ASSUME pc = "rank"
        PROVE  Ranks!IsPrefixSum(Span) /\ (Ranks!Scanned => Ranks!Total = CN)
    <3>1. Fits /\ Marked(given, {}) /\ ScanOK(cvdeg, buf, T, stage, todo, given, Span)
      BY <2>1 DEF PInv, Live, LiveInv, Marks, Scans
    <3>2. ASSUME Ranks!Scanned
          PROVE  /\ \A i \in 0..(Span - 1) : cvdeg[i] = Sum(given, 0, i)
                 /\ buf[H - 1] = Sum(given, 0, Span)
      BY <3>1, <3>2, Spans, ScanEnds DEF Ranks!Scanned
    <3> QED
      BY <3>1, <3>2, SameSums DEF Ranks!IsPrefixSum, Ranks!Total, Marked
  <2>2. ASSUME pc = "offsets" PROVE Members!IsPrefixSum(CN)
    <3>1. Fits /\ ScanOK(cvoff, buf, T, stage, todo, given, CN)
      BY <2>2 DEF PInv, Live, LiveInv, Scans
    <3>2. ASSUME Members!Scanned
          PROVE  /\ \A i \in 0..(CN - 1) : cvoff[i] = Sum(given, 0, i)
                 /\ buf[H - 1] = Sum(given, 0, CN)
      BY <3>1, <3>2, Spans, ScanEnds DEF Members!Scanned
    <3> QED
      BY <3>2, SameSums DEF Members!IsPrefixSum, Members!Total
  <2>3. ASSUME pc = "regions" PROVE Rows!IsPrefixSum(CN)
    <3>1. Fits /\ ScanOK(zoff, buf, T, stage, todo, given, CN)
      BY <2>3 DEF PInv, Live, LiveInv, Scans
    <3>2. ASSUME Rows!Scanned
          PROVE  /\ \A i \in 0..(CN - 1) : zoff[i] = Sum(given, 0, i)
                 /\ buf[H - 1] = Sum(given, 0, CN)
      BY <3>1, <3>2, Spans, ScanEnds DEF Rows!Scanned
    <3> QED
      BY <3>2, SameSums DEF Rows!IsPrefixSum, Rows!Total
  <2> QED
    BY <2>1, <2>2, <2>3 DEF ScansAreSums
<1> QED
  BY <1>1, PassesInvariant, PTL

(***************************************************************************)
(* Of louvainCommunityVerticesOmpW: threads that capture slots of a        *)
(* community at once write to places of their own, inside its region, and  *)
(* the listing ends as the members of the community, each once.            *)
(***************************************************************************)
THEOREM CommunitiesAreListed == Spec => []ListingIsExact
<1>1. PInv => ListingIsExact
  <2> SUFFICES ASSUME PInv PROVE ListingIsExact
    OBVIOUS
  <2>1. ASSUME pc = "claim", NEW u \in Upto(S), slot[u] # Stale
        PROVE  /\ cvoff[com[u]] + slot[u] < cvoff[com[u] + 1]
               /\ \A w \in Upto(S) : u # w /\ slot[w] # Stale =>
                    cvoff[com[u]] + slot[u] # cvoff[com[w]] + slot[w]
    <3>1. Fits /\ Labels /\ Places /\ Claims
      BY <2>1 DEF PInv, Live, LiveInv
    <3>2. /\ ClaimsHold
          /\ \A w \in Upto(S) : w \notin Claimed => slot[w] = Stale
      BY <2>1, <3>1 DEF ClaimsHold, Claims
    <3>3. PICK place \in [Claimed -> Upto(Span)] :
            Placed(place, Claimed, com, cvoff, cvdeg, cvkey, slot)
      BY <2>1, <3>1 DEF Claims
    <3>4. \A w \in Upto(S) : slot[w] # Stale =>
            w \in Claimed /\ cvoff[com[w]] + slot[w] = PlaceOf(place, w)
      BY <3>2, <3>3 DEF Placed, PlaceOf
    <3>5. PlaceOf(place, u) < cvoff[com[u] + 1]
      <4>1. PlaceOf(place, u) \in cvoff[com[u]]..(cvoff[com[u] + 1] - 1)
        BY <2>1, <3>2, <3>3, <3>4, PlacesApart
      <4>2. cvoff[com[u] + 1] \in 0..Span /\ cvoff[com[u]] \in 0..Span
        <5>1. u \in Upto(Span) /\ pc \in Renumbered /\ pc \in Listing
          BY <2>1, <3>4 DEF Claimed, Renumbered, Listing
        <5>2. com[u] \in 0..CN /\ com[u] + 1 \in 0..CN
          BY <3>1, <5>1, CommunityOf
        <5> QED
          BY <3>1, <5>1, <5>2 DEF Places
      <4> QED
        BY <3>1, <4>1, <4>2, Spans
    <3> QED
      BY <2>1, <3>2, <3>3, <3>4, <3>5, PlacesApart
  <2>2. ASSUME pc \in {"regions", "aggregate"}, NEW c \in Upto(CN)
        PROVE  /\ ToSet(Listed(c)) = MembersOf(c)
               /\ Len(Listed(c)) = Cardinality(MembersOf(c))
    BY <2>2 DEF PInv, Live, LiveInv, Listings
  <2> QED
    BY <2>1, <2>2 DEF ListingIsExact, MembersOf
<1> QED
  BY <1>1, PassesInvariant, PTL

-----------------------------------------------------------------------------
(***************************************************************************)
(* That the passes implement Coarsening.  What is needed beside PInv says  *)
(* which vector holds the communities of the input's vertices: while it is *)
(* ucom, a later pass may index its graph by them, and while it is vcom    *)
(* after ucom, the communities that ucom names are vertices of the pass.   *)
(***************************************************************************)
Composing == {"exists", "rank", "lookup"}
Composite == {"count", "offsets"} \cup Listing

CInv ==
  /\ p \in Nat /\ DOMAIN ucom = Upto(S) /\ (pc \notin {"group", "done"} => DOMAIN vcom = Upto(S))
  /\ pc = "move" /\ p = 0 => \A u \in Upto(S) : ucom[u] = u
  /\ pc = "move" /\ p > 0 => \A c \in Upto(Span) : vcom[c] = c
  /\ (pc = "move" /\ p > 0) \/ (pc \in Composing /\ p > 1) => \A u \in Upto(S) : ucom[u] \in Upto(Span)
  /\ pc = "end" /\ p > 1 => \A u \in Upto(S) : ucom[u] \in Upto(S)
  /\ pc \in Composite => \A u \in Upto(S) : ucom[u] \in Upto(CN)

(* The vector after a step follows from the one before, for each vertex.   *)
Follows ==
  \A u, w \in Upto(S) : Composed(u) = Composed(w) => Composed(u)' = Composed(w)'

Direct ==
  \/ p = 0 \/ Returned
  \/ p = 1 /\ pc # "move"
  \/ pc \in Composite

LEMMA ComposedIs ==
  /\ \A u : Composed(u) = IF Direct THEN ucom[u] ELSE vcom[ucom[u]]
  /\ \A u : Composed(u)' = IF Direct' THEN ucom'[u] ELSE vcom'[ucom'[u]]
BY DEF Composed, Direct, Composite, Listing

LEMMA FollowsWhenSame ==
  ASSUME Direct' <=> Direct, ucom' = ucom, vcom' = vcom
  PROVE  Follows
BY ComposedIs DEF Follows

LEMMA MoveFollows ==
  ASSUME PInv, CInv, NEW m \in 1..L, Move(m)
  PROVE  CInv' /\ Follows
<1>1. /\ pc = "move" /\ pc' \in {"exists", "end"} /\ p' = p + 1 /\ y' = y
      /\ p \in Nat /\ DOMAIN ucom = Upto(S) /\ DOMAIN vcom = Upto(S)
  BY DEF Move, CInv
<1>2. Fits /\ Span \in 0..S /\ S \in Nat
  <2>1. Fits
    BY <1>1 DEF PInv, Live, LiveInv
  <2> QED
    BY <2>1, Spans
<1>3. isFirst' = isFirst /\ Span' = Span /\ (isFirst <=> p = 0)
  BY <1>1 DEF isFirst, Span
<1>4. CASE p = 0
  <2>1. vcom' = vcom /\ DOMAIN ucom' = Upto(S)
    BY <1>1, <1>3, <1>4 DEF Move
  <2>2. CInv'
    BY <1>1, <1>4, <2>1 DEF CInv, Composing, Composite, Listing
  <2>3. \A u \in Upto(S) : Composed(u) = u
    BY <1>1, <1>4, ComposedIs DEF CInv, Direct
  <2> QED
    BY <2>2, <2>3 DEF Follows
<1>5. CASE p # 0
  <2>1. ucom' = ucom /\ DOMAIN vcom' = Upto(S)
    BY <1>1, <1>3, <1>5 DEF Move
  <2>2. \A u \in Upto(S) : ucom[u] \in Upto(Span) /\ ucom[u] \in Upto(S)
    BY <1>1, <1>2, <1>5 DEF CInv, Upto
  <2>3. CInv'
    BY <1>1, <1>3, <1>5, <2>1, <2>2 DEF CInv, Composing, Composite, Listing
  <2>4. ~Direct /\ ~Direct'
    BY <1>1, <1>5 DEF Direct, Returned, Composite, Listing
  <2>5. \A u \in Upto(S) : Composed(u) = ucom[u] /\ Composed(u)' = vcom'[ucom[u]]
    BY <1>1, <1>5, <2>1, <2>2, <2>4, ComposedIs DEF CInv
  <2> QED
    BY <2>3, <2>5 DEF Follows
<1> QED
  BY <1>4, <1>5

LEMMA CountingFollows ==
  ASSUME PInv, CInv, (\E u \in Upto(S) : Exists(u)) \/ Existed \/ Rank
  PROVE  CInv' /\ Follows
<1>1. /\ pc \in {"exists", "rank"} /\ pc' \in {"exists", "rank", "end"}
      /\ p' = p /\ y' = y /\ ucom' = ucom /\ vcom' = vcom
  BY DEF Exists, Existed, Rank, moved
<1>2. Fits /\ Span \in 0..S /\ S \in Nat
  <2>1. Fits
    BY <1>1 DEF PInv, Live, LiveInv
  <2> QED
    BY <2>1, Spans
<1>3. isFirst' = isFirst /\ Span' = Span
  BY <1>1, SamePass
<1>4. p >= 1
  BY <1>1, <1>2 DEF Fits
<1>5. CInv'
  <2>1. p > 1 => \A u \in Upto(S) : ucom[u] \in Upto(Span) /\ ucom[u] \in Upto(S)
    BY <1>1, <1>2 DEF CInv, Composing, Upto
  <2> QED
    BY <1>1, <1>3, <2>1 DEF CInv, Composing, Composite, Listing
<1>6. Direct' <=> Direct
  BY <1>1 DEF Direct, Returned, Composite, Listing
<1> QED
  BY <1>1, <1>5, <1>6, FollowsWhenSame

LEMMA RenumberFollows ==
  ASSUME PInv, CInv, Renumber
  PROVE  CInv' /\ Follows
<1>1. LiveInv /\ pc = "rank"
  BY DEF Renumber, PInv, Live
<1>2. LiveInv' /\ Fits /\ Fits' /\ p >= 1
  BY <1>1, RenumberKeeps DEF LiveInv, Fits
<1>3. /\ p' = p /\ y' = y /\ CN' = CN /\ p \in Nat
      /\ isFirst => pc' = "count" /\ vcom' = vcom /\ ucom' = LookedUp(ucom, cvdeg)
      /\ ~isFirst => pc' = "lookup" /\ ucom' = ucom /\ vcom' = LookedUp(vcom, cvdeg)
      /\ DOMAIN ucom = Upto(S) /\ DOMAIN vcom = Upto(S)
  BY <1>1 DEF Renumber, CInv
<1>4. /\ pc' \in {"count", "lookup"} /\ isFirst' = isFirst /\ Span' = Span
      /\ (isFirst <=> p = 1)
  BY <1>1, <1>3, SamePass DEF isFirst
<1>5. CASE isFirst
  <2>1. \A u \in Upto(S) : ucom'[u] \in Upto(CN)
    <3>1. Span' = S /\ com' = ucom' /\ Labels'
      BY <1>2, <1>4, <1>5 DEF Span, com, LiveInv
    <3> QED
      BY <1>3, <1>5, <3>1 DEF Labels, Renumbered
  <2>2. CInv'
    BY <1>3, <1>5, <2>1 DEF CInv, Composing, LookedUp
  <2>3. Direct /\ Direct'
    BY <1>1, <1>3, <1>4, <1>5 DEF Direct, Composite
  <2>4. \A u \in Upto(S) : /\ Composed(u) = ucom[u]
                           /\ Composed(u)' = IF ucom[u] \in DOMAIN cvdeg THEN cvdeg[ucom[u]] ELSE Stale
    BY <1>3, <1>5, <2>3, ComposedIs DEF LookedUp
  <2> QED
    BY <2>2, <2>4 DEF Follows
<1>6. CASE ~isFirst
  <2>1. p > 1
    BY <1>2, <1>3, <1>4, <1>6
  <2>2. \A u \in Upto(S) : ucom[u] \in Upto(Span) /\ ucom[u] \in Upto(S)
    BY <1>1, <1>2, <2>1, Spans DEF CInv, Composing
  <2>3. CInv'
    BY <1>3, <1>4, <1>6, <2>1, <2>2 DEF CInv, Composing, Composite, Listing, LookedUp
  <2>4. ~Direct /\ ~Direct'
    BY <1>1, <1>3, <1>6, <2>1 DEF Direct, Returned, Composite, Listing
  <2>5. \A u \in Upto(S) :
          /\ Composed(u) = vcom[ucom[u]]
          /\ Composed(u)' = IF vcom[ucom[u]] \in DOMAIN cvdeg THEN cvdeg[vcom[ucom[u]]] ELSE Stale
    BY <1>3, <1>6, <2>2, <2>4, ComposedIs DEF LookedUp
  <2> QED
    BY <2>3, <2>5 DEF Follows
<1> QED
  BY <1>5, <1>6

LEMMA LookupFollows ==
  ASSUME PInv, CInv, Lookup
  PROVE  CInv' /\ Follows
<1>1. /\ pc = "lookup" /\ pc' = "count" /\ ucom' = LookedUp(ucom, vcom) /\ CN' = CN
      /\ p' = p /\ y' = y /\ vcom' = vcom
  BY DEF Lookup
<1>2. LiveInv /\ Fits /\ Labels /\ ~isFirst /\ p > 1
  <2>1. LiveInv
    BY <1>1 DEF PInv, Live
  <2>2. Fits /\ Labels /\ ~isFirst
    BY <1>1, <2>1 DEF LiveInv, Fits
  <2> QED
    BY <1>1, <2>1, <2>2 DEF Fits, isFirst
<1>3. \A u \in Upto(S) : ucom[u] \in Upto(Span) /\ ucom[u] \in Upto(S)
  BY <1>1, <1>2, Spans DEF CInv, Composing
<1>4. DOMAIN ucom = Upto(S) /\ DOMAIN vcom = Upto(S) /\ p \in Nat
  BY <1>1 DEF CInv
<1>5. \A u \in Upto(S) : ucom'[u] = vcom[ucom[u]]
  BY <1>1, <1>3, <1>4 DEF LookedUp
<1>6. \A u \in Upto(S) : ucom'[u] \in Upto(CN)
  BY <1>1, <1>2, <1>3, <1>5 DEF Labels, Renumbered, com
<1>7. CInv'
  BY <1>1, <1>4, <1>6 DEF CInv, Composing, LookedUp
<1>8. ~Direct /\ Direct'
  BY <1>1, <1>2 DEF Direct, Returned, Composite, Listing
<1>9. \A u \in Upto(S) : Composed(u)' = Composed(u)
  BY <1>5, <1>8, ComposedIs
<1> QED
  BY <1>7, <1>9 DEF Follows

(* From the count to the aggregation no vertex changes its community.      *)
Composites ==
  \/ Count \/ Offsets \/ StartClaims \/ TotalDegrees \/ Regions \/ StartAggregation
  \/ \E u \in Upto(S) : Claim(u) \/ Write(u) \/ Aggregate(u)

LEMMA CompositesFollow ==
  ASSUME CInv, Composites
  PROVE  CInv' /\ Follows
<1>1. /\ pc \in Composite /\ pc' \in Composite
      /\ p' = p /\ ucom' = ucom /\ vcom' = vcom /\ CN' = CN
  BY DEF Composites, Count, Offsets, StartClaims, TotalDegrees, Regions, StartAggregation,
     Claim, Write, Aggregate, moved, Composite, Listing
<1>2. CInv'
  BY <1>1 DEF CInv, Composing, Composite, Listing
<1>3. Direct /\ Direct'
  BY <1>1 DEF Direct
<1> QED
  BY <1>1, <1>2, <1>3, FollowsWhenSame

LEMMA NextPassFollows ==
  ASSUME PInv, CInv, NextPass
  PROVE  CInv' /\ Follows
<1>1. /\ pc = "aggregate" /\ pc' = "move" /\ p' = p /\ y' = aggregated
      /\ ucom' = ucom /\ vcom' = Alone
  BY DEF NextPass
<1>2. LiveInv /\ LiveInv'
  BY <1>1, NextPassKeeps DEF PInv, Live
<1>3. /\ p >= 1 /\ p \in Nat /\ ~isFirst' /\ DOMAIN z.deg = Upto(CN)
      /\ DOMAIN y'.deg = Upto(Span') /\ CN \in 0..Span /\ Span \in 0..S /\ S \in Nat
  <2>1. Fits /\ Fits'
    BY <1>2 DEF LiveInv
  <2>2. p >= 1 /\ p \in Nat
    BY <1>1, <2>1 DEF Fits
  <2>3. ~isFirst'
    BY <1>1, <2>2 DEF isFirst
  <2>4. Span \in 0..S /\ S \in Nat
    BY <2>1, Spans
  <2> QED
    BY <1>1, <2>1, <2>2, <2>3, <2>4 DEF Fits, Renumbered
<1>4. Upto(Span') = Upto(CN)
  BY <1>1, <1>3 DEF aggregated
<1>5. \A u \in Upto(S) : ucom[u] \in Upto(CN)
  BY <1>1 DEF CInv, Composite, Listing
<1>6. DOMAIN vcom' = Upto(S) /\ \A c \in Upto(CN) : vcom'[c] = c
  BY <1>1, <1>3 DEF Alone, Upto
<1>7. CInv'
  BY <1>1, <1>3, <1>4, <1>5, <1>6 DEF CInv, Composing, Composite, Listing
<1>8. Direct /\ ~Direct'
  BY <1>1, <1>3 DEF Direct, Returned, Composite, Listing
<1>9. \A u \in Upto(S) : Composed(u) = ucom[u] /\ Composed(u)' = ucom[u]
  BY <1>1, <1>5, <1>6, <1>8, ComposedIs
<1> QED
  BY <1>7, <1>9 DEF Follows

LEMMA EndFollows ==
  ASSUME CInv, End
  PROVE  CInv' /\ Follows
<1>1. /\ pc = "end" /\ pc' = "group" /\ p' = p /\ p \in Nat
      /\ ucom' = IF p <= 1 THEN ucom ELSE LookedUp(ucom, vcom)
      /\ DOMAIN ucom = Upto(S) /\ DOMAIN vcom = Upto(S)
  BY DEF End, CInv
<1>2. CInv'
  BY <1>1 DEF CInv, Composing, Composite, Listing, LookedUp
<1>3. Direct' /\ (Direct <=> p <= 1)
  BY <1>1 DEF Direct, Returned, Composite, Listing
<1>4. p > 1 => \A u \in Upto(S) : ucom'[u] = vcom[ucom[u]]
  BY <1>1 DEF CInv, LookedUp
<1>5. \A u \in Upto(S) : Composed(u)' = Composed(u)
  BY <1>1, <1>3, <1>4, ComposedIs
<1> QED
  BY <1>2, <1>5 DEF Follows

(* The communities of Coarsening before the end.                           *)
Together(u) == { w \in Upto(S) : Composed(w) = Composed(u) }
Bunches == { Together(u) : u \in Upto(S) }

LEMMA InitCoarsens == Init => CInv /\ Abstract!Init
<1> SUFFICES ASSUME Init PROVE CInv /\ Abstract!Init
  OBVIOUS
<1>1. /\ p = 0 /\ pc \in {"move", "end"} /\ ucom = [u \in Upto(S) |-> u] /\ vcom = Fill(S, 0)
  BY DEF Init
<1>2. CInv
  BY <1>1 DEF CInv, Composing, Composite, Listing, Fill
<1>3. \A u \in Upto(S) : Composed(u) = u
  BY <1>1, ComposedIs DEF Direct
<1>4. Bunches = { {a} : a \in Upto(S) }
  <2>1. \A u \in Upto(S) : Together(u) = {u}
    BY <1>3 DEF Together
  <2> QED
    BY <2>1 DEF Bunches
<1>5. (pc = "done") = FALSE
  BY <1>1
<1>6. Abstract!Init
  BY <1>4, <1>5 DEF Abstract!Init, Bunches, Together
<1> QED
  BY <1>2, <1>6

(* Vertices of one community stay together, so the communities after the   *)
(* step are a partition into unions of the ones before it.                 *)
LEMMA FollowsMerges ==
  ASSUME Follows, pc # "done", pc' # "done"
  PROVE  Abstract!Merge
<1>1. Abstract!IsPartition(Bunches')
  <2>1. Bunches' = { Together(u)' : u \in Upto(S) }
    BY DEF Bunches
  <2>2. \A u : Together(u)' = { w \in Upto(S) : Composed(w)' = Composed(u)' }
    BY DEF Together
  <2>3. \A u \in Upto(S) : u \in Together(u)' /\ Together(u)' \subseteq Upto(S)
    BY <2>2
  <2>4. \A u, w \in Upto(S) : Together(u)' = Together(w)' \/ Together(u)' \cap Together(w)' = {}
    BY <2>2
  <2>5. UNION Bunches' = Upto(S) /\ {} \notin Bunches'
    BY <2>1, <2>3
  <2>6. \A c, d \in Bunches' : c = d \/ c \cap d = {}
    BY <2>1, <2>4
  <2> QED
    BY <2>5, <2>6 DEF Abstract!IsPartition
<1>2. \A c \in Bunches : \E d \in Bunches' : c \subseteq d
  <2> SUFFICES ASSUME NEW u \in Upto(S) PROVE \E d \in Bunches' : Together(u) \subseteq d
    BY DEF Bunches
  <2>1. Together(u)' \in Bunches'
    BY DEF Bunches
  <2>2. Together(u) \subseteq Together(u)'
    BY DEF Together, Follows
  <2> QED
    BY <2>1, <2>2
<1>3. (pc = "done") = FALSE /\ (pc' = "done") = FALSE
  OBVIOUS
<1> QED
  BY <1>1, <1>2, <1>3 DEF Abstract!Merge, Bunches, Together

(* The buckets of LouvainCommunity are all communities, each once.         *)
LEMMA BucketsFinite == IsFiniteSet(Buckets)
<1> DEFINE f == [u \in Upto(S) |-> { w \in Upto(S) : ucom[w] = ucom[u] }]
<1>1. IsFiniteSet(Upto(S))
  <2>1. S \in Nat /\ 0 \in Int /\ S - 1 \in Int
    BY PassesAssumption
  <2> QED
    BY <2>1, FS_Interval DEF Upto
<1>2. f \in Surjection(Upto(S), Buckets)
  <2>1. \A u \in Upto(S) : f[u] \in Buckets
    BY DEF Buckets
  <2>2. \A b \in Buckets : \E u \in Upto(S) : f[u] = b
    BY DEF Buckets
  <2> HIDE DEF f
  <2>3. f \in [Upto(S) -> Buckets]
    BY <2>1 DEF f
  <2> QED
    BY <2>2, <2>3 DEF Surjection
<1> HIDE DEF f
<1> QED
  BY <1>1, <1>2, FS_Surjection

LEMMA SequencedSet ==
  ASSUME NEW B, IsFiniteSet(B), NEW s \in SetToSeqs(B)
  PROVE  ToSet(s) = B
<1> DEFINE n == Cardinality(B)
<1>1. /\ n \in Nat /\ s \in [1..n -> B]
      /\ \A i, j \in 1..n : i # j => s[i] # s[j]
  BY FS_CardinalityType DEF SetToSeqs
<1>2. s \in Injection(1..n, B)
  BY <1>1 DEF Injection, IsInjective
<1>3. Cardinality(1..n) = n
  BY <1>1, FS_Interval
<1>4. s \in Surjection(1..n, B)
  BY <1>2, <1>3, FS_Injection
<1> QED
  BY <1>1, <1>4 DEF Surjection, ToSet

LEMMA GroupFinishes ==
  ASSUME CInv, NEW sorted \in BOOLEAN, Group(sorted)
  PROVE  CInv' /\ Abstract!Finish
<1>1. /\ pc = "group" /\ pc' = "done" /\ p' = p /\ ucom' = ucom /\ vcom' = vcom
      /\ p \in Nat /\ DOMAIN ucom = Upto(S)
  BY DEF Group, moved, CInv
<1>2. CInv'
  BY <1>1 DEF CInv, Composing, Composite, Listing
<1>3. ToSet(result'.buckets) = Buckets
  <2>1. PICK buckets \in SetToSeqs(Buckets) : result' = [sorted |-> sorted, buckets |-> buckets]
    BY DEF Group
  <2>2. result'.buckets = buckets
    BY <2>1
  <2> QED
    BY <2>2, BucketsFinite, SequencedSet
<1>4. Bunches = Buckets
  <2>1. \A u : Composed(u) = ucom[u]
    BY <1>1, ComposedIs DEF Direct, Returned
  <2>2. \A u : Together(u) = { w \in Upto(S) : ucom[w] = ucom[u] }
    BY <2>1 DEF Together
  <2> QED
    BY <2>2 DEF Bunches, Buckets
<1>5. (pc = "done") = FALSE /\ (pc' = "done") = TRUE
  BY <1>1
<1>6. Abstract!Finish
  BY <1>3, <1>4, <1>5 DEF Abstract!Finish, Bunches, Together
<1> QED
  BY <1>2, <1>6

LEMMA StepCoarsens ==
  ASSUME PInv, CInv, [Next]_vars
  PROVE  CInv' /\ [Abstract!Next]_(Abstract!vars)
<1>1. CASE UNCHANGED vars
  <2>1. /\ p' = p /\ pc' = pc /\ ucom' = ucom /\ vcom' = vcom /\ y' = y /\ CN' = CN
        /\ result' = result
    BY <1>1 DEF vars, moved
  <2>2. Span' = Span
    BY <2>1 DEF Span, isFirst
  <2>3. CInv'
    BY <2>1, <2>2 DEF CInv
  <2>4. \A u : Composed(u)' = Composed(u)
    BY <2>1 DEF Composed, Returned
  <2>5. Bunches' = Bunches
    BY <2>4 DEF Bunches, Together
  <2>6. UNCHANGED Abstract!vars
    BY <2>1, <2>5 DEF Abstract!vars, Bunches, Together
  <2> QED
    BY <2>3, <2>6
<1>2. CASE \E sorted \in BOOLEAN : Group(sorted)
  BY <1>2, GroupFinishes DEF Abstract!Next
<1>3. CASE Next /\ ~\E sorted \in BOOLEAN : Group(sorted)
  <2>1. CInv' /\ Follows
    <3>1. ASSUME NEW m \in 1..L, Move(m) PROVE CInv' /\ Follows
      BY <3>1, MoveFollows
    <3>2. CASE (\E u \in Upto(S) : Exists(u)) \/ Existed \/ Rank
      BY <3>2, CountingFollows
    <3>3. CASE Composites
      BY <3>3, CompositesFollow
    <3>4. CASE Renumber \/ Lookup \/ NextPass \/ End
      BY <3>4, RenumberFollows, LookupFollows, NextPassFollows, EndFollows, SMTT(30)
    <3> QED
      BY <1>3, <3>1, <3>2, <3>3, <3>4 DEF Next, Composites
  <2>2. pc # "done" /\ pc' # "done"
    BY <1>3 DEF Next, Move, Exists, Claim, Write, Aggregate, Existed, Rank, Renumber, Lookup,
       Count, Offsets, StartClaims, TotalDegrees, Regions, StartAggregation, NextPass, End
  <2> QED
    BY <2>1, <2>2, FollowsMerges DEF Abstract!Next
<1> QED
  BY <1>1, <1>2, <1>3

(***************************************************************************)
(* For every graph, number of threads and number of passes: from phase to  *)
(* phase the communities of the input's vertices only grow together, and   *)
(* the buckets of LouvainCommunity are the last ones.  No exit from the    *)
(* loop of louvainInvokeOmp leaves a look-up out or does it twice, though  *)
(* the renumbering runs over what longer passes have left in vcom.         *)
(***************************************************************************)
THEOREM PassesOnlyCoarsen == Spec => OnlyCoarsens
<1>1. Init => PInv /\ CInv /\ Abstract!Init
  BY InitOK, InitCoarsens
<1>2. PInv /\ CInv /\ [Next]_vars => PInv' /\ CInv'
  <2> SUFFICES ASSUME PInv, CInv, [Next]_vars PROVE PInv' /\ CInv'
    OBVIOUS
  <2>1. Live' => LiveInv'
    BY StepKeeps
  <2>2. CInv'
    BY StepCoarsens
  <2> QED
    BY <2>1, <2>2 DEF PInv
<1>3. PInv /\ CInv /\ [Next]_vars => [Abstract!Next]_(Abstract!vars)
  BY StepCoarsens
<1> QED
  BY <1>1, <1>2, <1>3, PTL DEF Spec, OnlyCoarsens, Abstract!Spec

-----------------------------------------------------------------------------
(* The aggregation, up to the end of the module: the edges of the next     *)
(* graph fit, and each later pass works on the quotient of the input.      *)

(* Sums over sequences, one after the other and flattened.                 *)
SeqSum(g, s) == Sum([i \in 0..(Len(s) - 1) |-> g[s[i + 1]]], 0, Len(s))

LEMMA SeqSumInt ==
  ASSUME NEW A, NEW g, \A a \in A : g[a] \in Int, NEW s \in Seq(A)
  PROVE  SeqSum(g, s) \in Int
<1> DEFINE f == [i \in 0..(Len(s) - 1) |-> g[s[i + 1]]]
<1>1. \A i \in 0..(Len(s) - 1) : f[i] \in Int
  <2>1. \A i \in 0..(Len(s) - 1) : s[i + 1] \in A
    OBVIOUS
  <2> QED
    BY <2>1
<1>2. SeqSum(g, s) = Sum(f, 0, Len(s)) /\ Len(s) \in Nat
  BY DEF SeqSum
<1> HIDE DEF f
<1> QED
  BY <1>1, <1>2, SumInt

LEMMA SeqSumConcat ==
  ASSUME NEW A, NEW g, \A a \in A : g[a] \in Int, NEW s \in Seq(A), NEW r \in Seq(A)
  PROVE  SeqSum(g, s \o r) = SeqSum(g, s) + SeqSum(g, r)
<1> DEFINE q == s \o r
           a == Len(s)
           b == Len(r)
           f == [i \in 0..((a + b) - 1) |-> g[q[i + 1]]]
           fs == [i \in 0..(a - 1) |-> g[s[i + 1]]]
           fr == [i \in 0..(b - 1) |-> g[r[i + 1]]]
<1>1. /\ a \in Nat /\ b \in Nat /\ Len(q) = a + b
      /\ \A i \in 1..(a + b) : q[i] = IF i <= a THEN s[i] ELSE r[i - a]
      /\ \A i \in 1..(a + b) : q[i] \in A
  OBVIOUS
<1>2. SeqSum(g, q) = Sum(f, 0, a + b) /\ SeqSum(g, s) = Sum(fs, 0, a) /\ SeqSum(g, r) = Sum(fr, 0, b)
  <2>1. SeqSum(g, s) = Sum(fs, 0, a) /\ SeqSum(g, r) = Sum(fr, 0, b)
    BY DEF SeqSum
  <2>2. SeqSum(g, q) = Sum([i \in 0..(Len(q) - 1) |-> g[q[i + 1]]], 0, Len(q))
    BY DEF SeqSum
  <2> QED
    BY <1>1, <2>1, <2>2
<1> HIDE DEF q, a, b
<1>3. \A i \in 0..((a + b) - 1) : f[i] \in Int
  <2>1. \A i \in 0..((a + b) - 1) : i + 1 \in 1..(a + b)
    BY <1>1
  <2> QED
    BY <1>1, <2>1
<1>4. Sum(f, 0, a + b) = Sum(f, 0, a) + Sum(f, a, a + b)
  <2> HIDE DEF f
  <2>1. 0 <= a /\ a <= a + b /\ a + b \in Nat
    BY <1>1
  <2> QED
    BY <1>1, <1>3, <2>1, SumSplit
<1>5. Sum(f, 0, a) = Sum(fs, 0, a)
  <2>1. \A i \in 0..(a - 1) : f[i] = fs[i]
    BY <1>1
  <2>2. 0 \in Nat /\ a \in Nat
    BY <1>1
  <2> HIDE DEF f, fs
  <2> QED
    BY <2>1, <2>2, SumEqual
<1>6. Sum(f, a, a + b) = Sum(fr, 0, b)
  <2> DEFINE h == [j \in 0..(b - 1) |-> f[a + j]]
  <2>1. \A j \in 0..(b - 1) : h[j] = fr[j]
    <3> SUFFICES ASSUME NEW j \in 0..(b - 1) PROVE f[a + j] = fr[j]
      OBVIOUS
    <3>1. a + j \in 0..((a + b) - 1) /\ (a + j) + 1 \in 1..(a + b) /\ ~((a + j) + 1 <= a)
          /\ ((a + j) + 1) - a = j + 1
      BY <1>1
    <3>2. q[(a + j) + 1] = r[j + 1]
      BY <1>1, <3>1
    <3> QED
      BY <3>1, <3>2
  <2> HIDE DEF f, fr
  <2>2. Sum(f, a, a + b) = Sum(h, 0, b)
    BY <1>1, SumShifted
  <2> HIDE DEF h
  <2> QED
    BY <1>1, <2>1, <2>2, SumEqual
<1> QED
  BY <1>2, <1>4, <1>5, <1>6 DEF q

LEMMA SeqSumFlatten ==
  ASSUME NEW A, NEW g, \A a \in A : g[a] \in Int, NEW q \in Seq(Seq(A))
  PROVE  SeqSum(g, FlattenSeq(q))
           = Sum([i \in 0..(Len(q) - 1) |-> SeqSum(g, q[i + 1])], 0, Len(q))
<1> DEFINE m == Len(q)
           f == [i \in 0..(m - 1) |-> SeqSum(g, q[i + 1])]
<1>1. m \in Nat /\ \A i \in 1..m : q[i] \in Seq(A)
  OBVIOUS
<1>2. CASE m = 0
  <2>1. FlattenSeq(q) = << >>
    <3>1. q = << >>
      BY <1>2
    <3> QED
      BY <3>1 DEF FlattenSeq
  <2>2. SeqSum(g, << >>) = 0
    <3>1. Len(<< >>) = 0
      OBVIOUS
    <3> QED
      BY <3>1, SumNone DEF SeqSum
  <2>3. Sum(f, 0, m) = 0
    BY <1>2, SumNone
  <2> QED
    BY <2>1, <2>2, <2>3
<1>3. CASE m # 0
  <2>1. PICK s : IsFlattened(s, q, m) /\ FlattenSeq(q) = s[m]
    BY <1>3, FlattenIs
  <2>2. \A i \in 0..(m - 1) : f[i] = SeqSum(g, q[i + 1])
    OBVIOUS
  <2> HIDE DEF m, f
  <2>3. \A i \in 1..m : s[i] \in Seq(A)
    BY <1>1, <2>1, FlattenedIsSeq
  <2> DEFINE R == { i \in Nat : i \in 1..m => SeqSum(g, s[i]) = Sum(f, 0, i) }
  <2>4. 1 \in R
    <3>1. s[1] = q[1] /\ f[0] = SeqSum(g, q[1])
      BY <1>1, <1>3, <2>1, <2>2 DEF IsFlattened
    <3>2. Sum(f, 0, 0) = 0 /\ Sum(f, 0, 0 + 1) = Sum(f, 0, 0) + f[0]
      BY SumNone, SumNext
    <3>3. q[1] \in Seq(A)
      BY <1>1, <1>3
    <3>4. SeqSum(g, q[1]) \in Int
      BY <3>3, SeqSumInt
    <3> QED
      BY <3>1, <3>2, <3>4
  <2>5. ASSUME NEW i \in Nat, 1 <= i, i \in R PROVE i + 1 \in R
    <3> SUFFICES ASSUME i + 1 \in 1..m PROVE SeqSum(g, s[i + 1]) = Sum(f, 0, i + 1)
      OBVIOUS
    <3>1. i \in 1..m /\ i \in 0..(m - 1) /\ i + 1 # 1 /\ (i + 1) - 1 = i
      BY <1>1, <2>5
    <3>2. s[i + 1] = s[i] \o q[i + 1] /\ s[i] \in Seq(A) /\ q[i + 1] \in Seq(A)
      BY <1>1, <2>1, <2>3, <3>1 DEF IsFlattened
    <3>3. SeqSum(g, s[i + 1]) = SeqSum(g, s[i]) + SeqSum(g, q[i + 1])
      BY <3>2, SeqSumConcat, ZenonT(60)
    <3>4. Sum(f, 0, i + 1) = Sum(f, 0, i) + f[i]
      BY SumNext
    <3>5. SeqSum(g, s[i]) = Sum(f, 0, i) /\ f[i] = SeqSum(g, q[i + 1])
      BY <2>2, <2>5, <3>1
    <3> QED
      BY <3>3, <3>4, <3>5
  <2> HIDE DEF R
  <2>6. m \in R
    <3>1. 1 \in Nat /\ 1 <= m
      BY <1>1, <1>3
    <3> QED
      BY <1>1, <2>4, <2>5, <3>1, Upward
  <2>7. SeqSum(g, s[m]) = Sum(f, 0, m)
    BY <1>1, <1>3, <2>6 DEF R
  <2> QED
    BY <2>1, <2>7 DEF m, f
<1> QED
  BY <1>2, <1>3

LEMMA SeqSumOnes ==
  ASSUME NEW A, NEW s \in Seq(A), NEW g, \A a \in A : g[a] = 1
  PROVE  SeqSum(g, s) = Len(s)
<1> DEFINE f == [i \in 0..(Len(s) - 1) |-> g[s[i + 1]]]
           R == { i \in Nat : i <= Len(s) => Sum(f, 0, i) = i }
<1>1. \A i \in 0..(Len(s) - 1) : f[i] = 1
  <2>1. \A i \in 0..(Len(s) - 1) : s[i + 1] \in A
    OBVIOUS
  <2> QED
    BY <2>1
<1>2. SeqSum(g, s) = Sum(f, 0, Len(s)) /\ Len(s) \in Nat
  BY DEF SeqSum
<1> HIDE DEF f
<1>3. 0 \in R
  BY SumNone
<1>4. ASSUME NEW i \in Nat, i \in R PROVE i + 1 \in R
  <2> SUFFICES ASSUME i + 1 <= Len(s) PROVE Sum(f, 0, i + 1) = i + 1
    OBVIOUS
  <2>1. f[i] = 1 /\ Sum(f, 0, i) = i
    BY <1>1, <1>2, <1>4
  <2>2. Sum(f, 0, i + 1) = Sum(f, 0, i) + f[i]
    BY SumNext
  <2> QED
    BY <2>1, <2>2
<1> HIDE DEF R
<1>5. Len(s) \in R
  BY <1>2, <1>3, <1>4, Upward
<1> QED
  BY <1>2, <1>5 DEF R

-----------------------------------------------------------------------------
(* The rows of the input, in ascending order of their targets.             *)
LEMMA AscendingEnumerates ==
  ASSUME NEW I, IsFiniteSet(I), I \subseteq Int
  PROVE  Enumerates(Ascending(I), I)
<1> DEFINE s == [i \in I |-> i]
           N == Cardinality(I)
<1>1. /\ At(s, I) = [n \in 1..N |-> At(s, I)[n]]
      /\ \E e : Enumerates(e, I) /\ \A n \in 1..N : At(s, I)[n] = s[e[n]]
  BY AtEnumerates, ZenonT(60)
<1>2. PICK e : Enumerates(e, I) /\ \A n \in 1..N : At(s, I)[n] = s[e[n]]
  BY <1>1
<1>3. \A n \in 1..N : At(s, I)[n] = e[n]
  <2>1. \A n \in 1..N : e[n] \in I
    BY <1>2 DEF Enumerates
  <2> QED
    BY <1>2, <2>1
<1>4. \A n \in 1..N : At(s, I)[n] = Ascending(I)[n]
  <2> SUFFICES ASSUME NEW n \in 1..N PROVE At(s, I)[n] = Ascending(I)[n]
    OBVIOUS
  <2> DEFINE c == CHOOSE i \in I : Cardinality({ j \in I : j <= i }) = n
  <2>1. At(s, I)[n] = s[c] /\ Ascending(I)[n] = c
    BY Zenon DEF At, Ascending
  <2>2. \E i \in I : Cardinality({ j \in I : j <= i }) = n
    BY RankOntoRange DEF UpTo
  <2>3. c \in I
    BY <2>2
  <2> HIDE DEF c
  <2> QED
    BY <2>1, <2>3
<1>5. e = Ascending(I)
  <2>1. e = [n \in 1..N |-> e[n]]
    BY <1>2 DEF Enumerates
  <2>2. Ascending(I) = [n \in 1..N |-> Ascending(I)[n]]
    BY SMTT(30) DEF Ascending
  <2>3. \A n \in 1..N : e[n] = Ascending(I)[n]
    BY <1>3, <1>4
  <2> HIDE DEF N
  <2> QED
    BY ONLY <2>1, <2>2, <2>3
<1> QED
  BY <1>2, <1>5

Targets(u) == { v \in Upto(S) : <<u, v>> \in DOMAIN x }
InputIsGraph == DOMAIN x \subseteq Upto(S) \X Upto(S) /\ \A e \in DOMAIN x : x[e] \in Nat

LEMMA FiniteInput ==
  ASSUME InputIsGraph
  PROVE  IsFiniteSet(DOMAIN x) /\ EdgeCount \in Nat
<1>1. 0 \in Int /\ S - 1 \in Int
  BY PassesAssumption
<1>2. IsFiniteSet(Upto(S))
  BY <1>1, FS_Interval DEF Upto
<1>3. IsFiniteSet(Upto(S) \X Upto(S))
  BY <1>2, FS_Product
<1>4. IsFiniteSet(DOMAIN x)
  BY <1>3, FS_Subset DEF InputIsGraph
<1> QED
  BY <1>4, FS_CardinalityType DEF EdgeCount

LEMMA InputRowIs ==
  ASSUME InputIsGraph, NEW u \in Upto(S)
  PROVE  \E vs :
           /\ IsFiniteSet(Targets(u)) /\ Enumerates(vs, Targets(u))
           /\ InputRow(u) = [i \in 1..Cardinality(Targets(u)) |-> <<vs[i], x[<<u, vs[i]>>]>>]
           /\ Len(InputRow(u)) = Cardinality(Targets(u))
           /\ InputRow(u) \in Seq(Upto(S) \X Nat)
<1> DEFINE I == Targets(u)
           n == Cardinality(I)
           vs == Ascending(I)
<1>1. IsFiniteSet(I) /\ I \subseteq Int /\ I \subseteq Upto(S)
  <2>1. S \in Nat /\ 0 \in Int /\ S - 1 \in Int
    BY PassesAssumption
  <2>2. IsFiniteSet(Upto(S)) /\ Upto(S) \subseteq Int
    BY <2>1, FS_Interval DEF Upto
  <2> QED
    BY <2>2, FS_Subset DEF Targets
<1>2. Enumerates(vs, I) /\ n \in Nat
  BY <1>1, AscendingEnumerates, FS_CardinalityType
<1>3. DOMAIN vs = 1..n
  BY <1>2 DEF Enumerates
<1>4. InputRow(u) = [i \in DOMAIN vs |-> <<vs[i], x[<<u, vs[i]>>]>>]
  BY DEF InputRow, Targets
<1> HIDE DEF n, vs
<1>5. InputRow(u) = [i \in 1..n |-> <<vs[i], x[<<u, vs[i]>>]>>]
  BY <1>3, <1>4
<1>6. \A i \in 1..n : vs[i] \in I /\ <<u, vs[i]>> \in DOMAIN x
  BY <1>2 DEF Enumerates, n, Targets
<1>7. \A i \in 1..n : InputRow(u)[i] \in Upto(S) \X Nat
  BY <1>1, <1>5, <1>6 DEF InputIsGraph
<1>8. InputRow(u) = [i \in 1..n |-> InputRow(u)[i]]
  BY <1>5
<1>9. Len(InputRow(u)) = n /\ InputRow(u) \in Seq(Upto(S) \X Nat)
  BY <1>2, <1>7, <1>8, IsSequence
<1> QED
  BY <1>1, <1>2, <1>5, <1>9 DEF n

(* There are as many edges as the rows are long.                           *)
LEMMA InputRowsAddUp ==
  ASSUME InputIsGraph
  PROVE  Sum([u \in Upto(S) |-> Len(InputRow(u))], 0, S) = EdgeCount
<1> DEFINE D == DOMAIN x
           f == [u \in Upto(S) |-> Len(InputRow(u))]
           Before(m) == { e \in D : e[1] < m }
           R == { m \in Nat : m <= S => Sum(f, 0, m) = Cardinality(Before(m)) }
<1>1. S \in Nat /\ IsFiniteSet(D)
  BY PassesAssumption, FiniteInput
<1>2. \A e \in D : e = <<e[1], e[2]>> /\ e[1] \in Upto(S) /\ e[2] \in Upto(S)
  BY DEF InputIsGraph
<1>3. 0 \in R
  <2>1. Before(0) = {}
    BY <1>2 DEF Upto
  <2>2. Cardinality(Before(0)) = 0
    BY <2>1, FS_EmptySet
  <2> HIDE DEF f, Before
  <2> QED
    BY <2>2, SumNone
<1>4. ASSUME NEW m \in Nat, m \in R PROVE m + 1 \in R
  <2> HIDE DEF f, Before
  <2> SUFFICES ASSUME m + 1 <= S PROVE Sum(f, 0, m + 1) = Cardinality(Before(m + 1))
    OBVIOUS
  <2> USE DEF f, Before
  <2> DEFINE E == { e \in D : e[1] = m }
             pair == [v \in Targets(m) |-> <<m, v>>]
  <2>1. m \in Upto(S) /\ f[m] = Cardinality(Targets(m)) /\ IsFiniteSet(Targets(m))
    <3>1. m \in Upto(S)
      BY <1>1 DEF Upto
    <3> QED
      BY <3>1, InputRowIs
  <2>2. pair \in Bijection(Targets(m), E)
    <3>1. \A v \in Targets(m) : pair[v] = <<m, v>> /\ pair[v] \in E
      BY DEF Targets
    <3>2. \A e \in E : e[2] \in Targets(m) /\ pair[e[2]] = e
      BY <1>2 DEF Targets
    <3>3. pair \in [Targets(m) -> E]
      BY <3>1
    <3> HIDE DEF pair
    <3>4. pair \in Surjection(Targets(m), E)
      BY <3>2, <3>3 DEF Surjection
    <3>5. pair \in Injection(Targets(m), E)
      BY <3>1, <3>3 DEF Injection, IsInjective
    <3> QED
      BY <3>4, <3>5 DEF Bijection
  <2>3. IsFiniteSet(E) /\ Cardinality(E) = f[m]
    <3>1. ExistsBijection(Targets(m), E)
      BY <2>2 DEF ExistsBijection
    <3> QED
      BY <2>1, <3>1, FS_Bijection
  <2>4. Before(m + 1) = Before(m) \cup E /\ Before(m) \cap E = {}
    <3>1. \A e \in D : e[1] \in Int
      BY <1>2 DEF Upto
    <3>2. \A e \in D : e[1] < m + 1 <=> (e[1] < m \/ e[1] = m)
      BY <3>1
    <3>3. \A e \in D : ~(e[1] < m /\ e[1] = m)
      BY <3>1
    <3> QED
      BY <3>2, <3>3
  <2>5. IsFiniteSet(Before(m))
    BY <1>1, FS_Subset
  <2> HIDE DEF E, Before
  <2>6. Cardinality(Before(m + 1)) = Cardinality(Before(m)) + Cardinality(E) - Cardinality({})
    BY <2>3, <2>4, <2>5, FS_Union
  <2>7. Cardinality(Before(m)) \in Nat /\ Cardinality(E) \in Nat /\ Cardinality({}) = 0
    BY <2>3, <2>5, FS_CardinalityType, FS_EmptySet
  <2> HIDE DEF f
  <2>8. Sum(f, 0, m) = Cardinality(Before(m))
    BY <1>1, <1>4
  <2>9. Sum(f, 0, m + 1) = Sum(f, 0, m) + f[m]
    BY SumNext
  <2> QED
    BY <2>3, <2>6, <2>7, <2>8, <2>9
<1>5. S \in R
  <2> HIDE DEF R
  <2> QED
    BY <1>1, <1>3, <1>4, Upward
<1>6. Before(S) = D
  <2>1. \A e \in D : e[1] < S
    BY <1>1, <1>2 DEF Upto
  <2> QED
    BY <2>1
<1> QED
  BY <1>1, <1>5, <1>6 DEF EdgeCount

-----------------------------------------------------------------------------
(* What the edges out of a community add up to, in whatever order its      *)
(* vertices are listed.                                                    *)
Cells == Upto(Span) \X Nat
ProperRows == \A u \in Upto(Span) : Row(u) \in Seq(Cells)

Degrees == [u \in Upto(Span) |-> Len(Row(u))]
Rooms == [c \in Upto(CN) |-> Room(c)]
RowSum(g, c) == [u \in Upto(Span) |-> IF com[u] = c THEN SeqSum(g, Row(u)) ELSE 0]

LEMMA ListedOnce ==
  ASSUME Fits, Places, Listings, pc = "aggregate", NEW c \in Upto(CN)
  PROVE  LET k == Cardinality(MembersOf(c))
         IN  /\ k \in Nat /\ DOMAIN Listed(c) = 1..k
             /\ Lists([i \in 0..(k - 1) |-> Listed(c)[i + 1]], k, Span, MembersOf(c))
<1> DEFINE k == Cardinality(MembersOf(c))
           L0 == Listed(c)
           e == [i \in 0..(k - 1) |-> L0[i + 1]]
<1>1. /\ k \in Nat /\ DOMAIN L0 = 1..k /\ IsFiniteSet(MembersOf(c))
      /\ MembersOf(c) \subseteq Upto(Span)
  BY FiniteMembers, ListedIs DEF Listing
<1>2. L0 = [i \in 1..k |-> L0[i]]
  BY ListedIs DEF Listing
<1>3. { L0[i] : i \in 1..k } = MembersOf(c)
  <2>1. ToSet(L0) = MembersOf(c)
    BY DEF Listings
  <2> HIDE DEF L0, k
  <2> QED
    BY <1>1, <2>1 DEF ToSet
<1> HIDE DEF L0
<1>4. L0 \in Surjection(1..k, MembersOf(c))
  <2> HIDE DEF k
  <2> QED
    BY <1>2, <1>3 DEF Surjection
<1>5. \A i, j \in 1..k : L0[i] = L0[j] => i = j
  <2>1. IsFiniteSet(1..k) /\ Cardinality(1..k) = k
    BY <1>1, FS_Interval
  <2>2. L0 \in Injection(1..k, MembersOf(c))
    BY <1>4, <2>1, FS_SurjSameCardinalityImpliesInj
  <2> HIDE DEF k
  <2> QED
    BY <2>2 DEF Injection, IsInjective
<1>6. Lists(e, k, Span, MembersOf(c))
  <2> HIDE DEF k
  <2>1. \A i \in 0..(k - 1) : i + 1 \in 1..k /\ e[i] = L0[i + 1]
    BY <1>1
  <2>2. \A i \in 1..k : i - 1 \in 0..(k - 1) /\ e[i - 1] = L0[i]
    BY <1>1
  <2> HIDE DEF e
  <2>3. \A i \in 0..(k - 1) : e[i] \in 0..(Span - 1) /\ e[i] \in MembersOf(c)
    BY <1>1, <1>3, <2>1 DEF Upto
  <2>4. \A i, j \in 0..(k - 1) : e[i] = e[j] => i = j
    <3> SUFFICES ASSUME NEW i \in 0..(k - 1), NEW j \in 0..(k - 1), e[i] = e[j] PROVE i = j
      OBVIOUS
    <3>1. i + 1 = j + 1
      BY <1>5, <2>1
    <3> QED
      BY <3>1
  <2>5. \A u \in MembersOf(c) : \E i \in 0..(k - 1) : e[i] = u
    BY <1>3, <2>2
  <2> QED
    BY <2>3, <2>4, <2>5 DEF Lists
<1> QED
  BY <1>1, <1>6 DEF L0

LEMMA EdgesAddUp ==
  ASSUME Fits, Places, Listings, ProperRows, pc = "aggregate", NEW c \in Upto(CN)
  PROVE  /\ Edges(c) \in Seq(Cells)
         /\ \A g : (\A e \in Cells : g[e] \in Int) => SeqSum(g, Edges(c)) = Sum(RowSum(g, c), 0, Span)
<1> DEFINE k == Cardinality(MembersOf(c))
           L0 == Listed(c)
           l == [i \in 0..(k - 1) |-> L0[i + 1]]
           rows == [i \in 1..k |-> Row(L0[i])]
<1>1. k \in Nat /\ DOMAIN L0 = 1..k /\ Lists(l, k, Span, MembersOf(c))
  BY ListedOnce
<1>2. Edges(c) = FlattenSeq(rows)
  BY <1>1 DEF Edges
<1> HIDE DEF k, L0
<1>3. \A i \in 1..k : L0[i] \in Upto(Span)
  <2>1. \A i \in 1..k : i - 1 \in 0..(k - 1) /\ l[i - 1] = L0[i]
    BY <1>1
  <2>2. \A i \in 0..(k - 1) : l[i] \in Upto(Span)
    BY <1>1 DEF Lists, Upto
  <2> HIDE DEF l
  <2> QED
    BY <2>1, <2>2
<1>4. rows \in Seq(Seq(Cells)) /\ Len(rows) = k
  <2>1. \A i \in 1..k : rows[i] \in Seq(Cells)
    BY <1>3 DEF ProperRows
  <2>2. rows = [i \in 1..k |-> rows[i]]
    OBVIOUS
  <2> HIDE DEF rows
  <2> QED
    BY <1>1, <2>1, <2>2, IsSequence
<1>5. Edges(c) \in Seq(Cells)
  <2> HIDE DEF rows
  <2> QED
    BY <1>2, <1>4, FlattenType
<1>6. ASSUME NEW g, \A e \in Cells : g[e] \in Int
      PROVE  SeqSum(g, Edges(c)) = Sum(RowSum(g, c), 0, Span)
  <2> DEFINE f == [u \in Upto(Span) |-> SeqSum(g, Row(u))]
             s == [i \in 0..(k - 1) |-> SeqSum(g, rows[i + 1])]
             fl == [i \in 0..(k - 1) |-> f[l[i]]]
             fm == [u \in 0..(Span - 1) |-> IF u \in MembersOf(c) THEN f[u] ELSE 0]
  <2>1. SeqSum(g, Edges(c)) = Sum(s, 0, k)
    <3> HIDE DEF rows
    <3>1. SeqSum(g, FlattenSeq(rows))
            = Sum([i \in 0..(Len(rows) - 1) |-> SeqSum(g, rows[i + 1])], 0, Len(rows))
      BY <1>4, <1>6, SeqSumFlatten
    <3> QED
      BY <1>2, <1>4, <3>1
  <2>2. Sum(s, 0, k) = Sum(fl, 0, k)
    <3>1. \A i \in 0..(k - 1) : s[i] = fl[i]
      <4> SUFFICES ASSUME NEW i \in 0..(k - 1) PROVE s[i] = fl[i]
        OBVIOUS
      <4>1. i + 1 \in 1..k /\ l[i] = L0[i + 1] /\ L0[i + 1] \in Upto(Span)
        BY <1>1, <1>3
      <4> QED
        BY <4>1
    <3> HIDE DEF s, fl
    <3> QED
      BY <1>1, <3>1, SumEqual
  <2>3. Sum(fl, 0, k) = Sum(fm, 0, Span)
    <3>1. \A u \in 0..(Span - 1) : f[u] \in Int
      <4>1. \A u \in Upto(Span) : Row(u) \in Seq(Cells)
        BY DEF ProperRows
      <4>2. \A u \in Upto(Span) : SeqSum(g, Row(u)) \in Int
        BY <1>6, <4>1, SeqSumInt
      <4> QED
        BY <4>2 DEF Upto
    <3> HIDE DEF f, l
    <3> QED
      BY <1>1, <3>1, Spans, SumReordered
  <2>4. Sum(fm, 0, Span) = Sum(RowSum(g, c), 0, Span)
    <3>1. \A u \in 0..(Span - 1) : fm[u] = RowSum(g, c)[u]
      BY DEF RowSum, MembersOf, Upto
    <3> HIDE DEF fm
    <3> QED
      BY <3>1, Spans, SumEqual
  <2> QED
    BY <2>1, <2>2, <2>3, <2>4
<1> QED
  BY <1>5, <1>6

(* A community has room for exactly the edges of its vertices, and all     *)
(* have as much room as the rows of the pass.                              *)
LEMMA RoomIsLength ==
  ASSUME Fits, Places, Listings, ProperRows, pc = "aggregate", NEW c \in Upto(CN)
  PROVE  Len(Edges(c)) = Room(c)
<1> DEFINE one == [e \in Cells |-> 1]
           f == [u \in Upto(Span) |-> IF com[u] = c THEN Len(Row(u)) ELSE 0]
<1>1. \A e \in Cells : one[e] = 1 /\ one[e] \in Int
  OBVIOUS
<1> HIDE DEF one
<1>2. Edges(c) \in Seq(Cells) /\ SeqSum(one, Edges(c)) = Sum(RowSum(one, c), 0, Span)
  BY <1>1, EdgesAddUp
<1>3. SeqSum(one, Edges(c)) = Len(Edges(c))
  BY <1>1, <1>2, SeqSumOnes
<1>4. \A u \in 0..(Span - 1) : RowSum(one, c)[u] = f[u]
  <2>1. \A u \in Upto(Span) : SeqSum(one, Row(u)) = Len(Row(u))
    BY <1>1, SeqSumOnes DEF ProperRows
  <2> QED
    BY <2>1 DEF RowSum, Upto
<1>5. Room(c) = Sum(f, 0, Span)
  BY SameSums DEF Room
<1> HIDE DEF f
<1>6. Sum(RowSum(one, c), 0, Span) = Sum(f, 0, Span)
  <2>1. 0 \in Nat /\ Span \in Nat
    BY Spans
  <2> QED
    BY <1>4, <2>1, SumEqual
<1> QED
  BY <1>2, <1>3, <1>5, <1>6

LEMMA RoomsAddUp ==
  ASSUME Fits, Labels, pc \in Renumbered
  PROVE  Sum(Rooms, 0, CN) = Sum(Degrees, 0, Span)
<1>1. Span \in Nat /\ CN \in Nat
  BY Spans DEF Fits
<1>2. \A u \in 0..(Span - 1) : Degrees[u] \in Int /\ com[u] \in 0..(CN - 1)
  <2>1. \A u \in Upto(Span) : Len(Row(u)) \in Nat
    BY RowLength, IsSequence
  <2> QED
    BY <2>1 DEF Degrees, Labels, Upto
<1>3. Sum(ClassSums(Degrees, com, CN, Span), 0, CN) = Sum(Degrees, 0, Span)
  BY <1>1, <1>2, SumByClass
<1>4. \A c \in 0..(CN - 1) : ClassSums(Degrees, com, CN, Span)[c] = Rooms[c]
  <2> SUFFICES ASSUME NEW c \in 0..(CN - 1)
               PROVE  Sum(InClass(Degrees, com, c, Span), 0, Span) = Room(c)
    BY DEF ClassSums, Rooms, Upto
  <2> DEFINE f == [u \in Upto(Span) |-> IF com[u] = c THEN Len(Row(u)) ELSE 0]
  <2>1. InClass(Degrees, com, c, Span) = f
    BY DEF InClass, Degrees, Upto
  <2>2. Room(c) = Sum(f, 0, Span)
    BY SameSums DEF Room
  <2> QED
    BY <2>1, <2>2
<1>5. Sum(ClassSums(Degrees, com, CN, Span), 0, CN) = Sum(Rooms, 0, CN)
  BY <1>1, <1>4, SumEqual
<1> QED
  BY <1>3, <1>5

-----------------------------------------------------------------------------
(* Sums by the first element of each label, of the labels in B.            *)
Firsts(f, k, m, n) ==
  /\ \A i \in 0..(n - 1) : f[i] \in 0..(m - 1)
  /\ \A i, j \in 0..(n - 1) : k[f[i]] = k[f[j]] => i = j
  /\ \A j \in 0..(m - 1) : \E i \in 0..(n - 1) : k[f[i]] = k[j]

FirstSums(f, k, w, B, m, n) ==
  [i \in 0..(n - 1) |-> IF k[f[i]] \in B THEN Sum(InClass(w, k, k[f[i]], m), 0, m) ELSE 0]
Labelled(k, w, B, m) == [j \in 0..(m - 1) |-> IF k[j] \in B THEN w[j] ELSE 0]

LEMMA SumByFirsts ==
  ASSUME NEW k, NEW w, NEW f, NEW B, NEW m \in Nat, NEW n \in Nat,
         Firsts(f, k, m, n), \A j \in 0..(m - 1) : w[j] \in Int
  PROVE  Sum(FirstSums(f, k, w, B, m, n), 0, n) = Sum(Labelled(k, w, B, m), 0, m)
<1> DEFINE g == FirstSums(f, k, w, B, m, n)
           v == Labelled(k, w, B, m)
           q == [j \in 0..(m - 1) |-> CHOOSE i \in 0..(n - 1) : k[f[i]] = k[j]]
<1>1. /\ \A j \in 0..(m - 1) : q[j] \in 0..(n - 1) /\ k[f[q[j]]] = k[j]
      /\ \A i \in 0..(n - 1) : f[i] \in 0..(m - 1)
      /\ \A i, j \in 0..(n - 1) : k[f[i]] = k[f[j]] => i = j
  BY DEF Firsts
<1>2. \A j \in 0..(m - 1) : v[j] \in Int
  BY DEF Labelled
<1>3. \A j \in 0..(m - 1) : v[j] = IF k[j] \in B THEN w[j] ELSE 0
  BY DEF Labelled
<1>4. \A i \in 0..(n - 1) : g[i] = IF k[f[i]] \in B THEN Sum(InClass(w, k, k[f[i]], m), 0, m) ELSE 0
  BY DEF FirstSums
<1> HIDE DEF g, v, q
<1>5. Sum(ClassSums(v, q, n, m), 0, n) = Sum(v, 0, m)
  <2>1. /\ m \in Nat /\ n \in Nat
        /\ \A j \in 0..(m - 1) : v[j] \in Int /\ q[j] \in 0..(n - 1)
    BY <1>1, <1>2
  <2> QED
    BY ONLY <2>1, SumByClass
<1>6. ASSUME NEW i \in 0..(n - 1) PROVE ClassSums(v, q, n, m)[i] = g[i]
  <2>1. ClassSums(v, q, n, m)[i] = Sum(InClass(v, q, i, m), 0, m)
    BY DEF ClassSums
  <2>2. \A j \in 0..(m - 1) : q[j] = i <=> k[j] = k[f[i]]
    BY <1>1
  <2>3. \A j \in 0..(m - 1) :
          InClass(v, q, i, m)[j] = IF k[j] = k[f[i]] THEN v[j] ELSE 0
    BY <2>2 DEF InClass
  <2>4. CASE k[f[i]] \in B
    <3>1. \A j \in 0..(m - 1) : InClass(v, q, i, m)[j] = InClass(w, k, k[f[i]], m)[j]
      BY <1>3, <2>3, <2>4 DEF InClass
    <3>2. Sum(InClass(v, q, i, m), 0, m) = Sum(InClass(w, k, k[f[i]], m), 0, m)
      <4> DEFINE a == InClass(v, q, i, m)
                 b == InClass(w, k, k[f[i]], m)
      <4>1. 0 \in Nat /\ m \in Nat /\ \A j \in 0..(m - 1) : a[j] = b[j]
        BY <3>1
      <4> HIDE DEF a, b
      <4>2. Sum(a, 0, m) = Sum(b, 0, m)
        BY ONLY <4>1, SumEqual
      <4> QED
        BY <4>2 DEF a, b
    <3> QED
      BY <1>4, <2>1, <2>4, <3>2
  <2>5. CASE k[f[i]] \notin B
    <3>1. \A j \in 0..(m - 1) : InClass(v, q, i, m)[j] = 0
      BY <1>3, <2>3, <2>5
    <3>2. Sum(InClass(v, q, i, m), 0, m) = 0
      BY <3>1, SumZero
    <3> QED
      BY <1>4, <2>1, <2>5, <3>2
  <2> QED
    BY <2>4, <2>5
<1>7. Sum(ClassSums(v, q, n, m), 0, n) = Sum(g, 0, n)
  <2>1. \A i \in 0..(n - 1) : ClassSums(v, q, n, m)[i] = g[i]
    BY <1>6
  <2> DEFINE h == ClassSums(v, q, n, m)
  <2> HIDE DEF h
  <2>2. 0 \in Nat /\ n \in Nat /\ \A i \in 0..(n - 1) : h[i] = g[i]
    BY <2>1 DEF h
  <2>3. Sum(h, 0, n) = Sum(g, 0, n)
    BY ONLY <2>2, SumEqual
  <2> QED
    BY <2>3 DEF h
<1> QED
  BY <1>5, <1>7 DEF g, v

(***************************************************************************)
(* What the edges out of a community become: one edge to each community    *)
(* that they lead to, in the order first seen.                             *)
(***************************************************************************)
SeenLabels(c) == [i \in DOMAIN Edges(c) |-> com[Edges(c)[i][1]]]
FirstSeen(c) == { i \in DOMAIN Edges(c) : \A j \in 1..(i - 1) : SeenLabels(c)[j] # SeenLabels(c)[i] }
SeenWeight(c, d) ==
  Sum([i \in Upto(Len(Edges(c))) |-> IF SeenLabels(c)[i + 1] = d THEN Edges(c)[i + 1][2] ELSE 0],
      0, Len(Edges(c)))

LEMMA SeenIs ==
  ASSUME NEW c, NEW m \in Nat, DOMAIN Edges(c) = 1..m, Len(Edges(c)) = m
  PROVE  \E vs :
           /\ IsFiniteSet(FirstSeen(c)) /\ Enumerates(vs, FirstSeen(c))
           /\ Cardinality(FirstSeen(c)) \in 0..m
           /\ Seen(c) = [i \in 1..Cardinality(FirstSeen(c)) |->
                          <<SeenLabels(c)[vs[i]], SeenWeight(c, SeenLabels(c)[vs[i]])>>]
<1> DEFINE edges == Edges(c)
           ds == [i \in DOMAIN edges |-> com[edges[i][1]]]
           I == { i \in DOMAIN ds : \A j \in 1..(i - 1) : ds[j] # ds[i] }
           firsts == Ascending(I)
           W(d) == SumOf([i \in Upto(Len(ds)) |-> IF ds[i + 1] = d THEN edges[i + 1][2] ELSE 0], Len(ds))
<1>1. Seen(c) = [i \in DOMAIN firsts |-> <<ds[firsts[i]], W(ds[firsts[i]])>>]
  BY Zenon DEF Seen
<1>2. ds = SeenLabels(c) /\ I = FirstSeen(c)
  BY DEF SeenLabels, FirstSeen
<1>3. Len(ds) = m
  <2>1. ds = [i \in 1..m |-> ds[i]]
    OBVIOUS
  <2> HIDE DEF ds
  <2> QED
    BY <2>1, IsSequence
<1>4. \A d : W(d) = SeenWeight(c, d)
  <2>1. \A d : W(d) = Sum([i \in Upto(Len(ds)) |-> IF ds[i + 1] = d THEN edges[i + 1][2] ELSE 0], 0, Len(ds))
    BY SameSums
  <2> HIDE DEF ds, W
  <2> QED
    BY <1>2, <1>3, <2>1 DEF SeenWeight
<1> HIDE DEF ds, W, edges
<1>5. IsFiniteSet(FirstSeen(c)) /\ FirstSeen(c) \subseteq Int /\ Cardinality(FirstSeen(c)) \in 0..m
  <2>1. IsFiniteSet(1..m) /\ Cardinality(1..m) = m
    BY FS_Interval
  <2>2. FirstSeen(c) \subseteq 1..m
    BY DEF FirstSeen
  <2>3. IsFiniteSet(FirstSeen(c)) /\ Cardinality(FirstSeen(c)) <= m
    BY <2>1, <2>2, FS_Subset
  <2> QED
    BY <2>2, <2>3, FS_CardinalityType
<1> HIDE DEF I
<1>6. Enumerates(firsts, FirstSeen(c)) /\ DOMAIN firsts = 1..Cardinality(FirstSeen(c))
  <2>1. Enumerates(firsts, FirstSeen(c))
    BY <1>2, <1>5, AscendingEnumerates
  <2> QED
    BY <2>1 DEF Enumerates
<1> HIDE DEF firsts
<1> QED
  BY <1>1, <1>2, <1>4, <1>5, <1>6

Distinct(row) == \A i, j \in DOMAIN row : i # j => row[i][1] # row[j][1]
\* The weight of an edge to one of B, of those to the first n vertices.
Into(n, B) == [e \in Upto(n) \X Nat |-> IF e[1] \in B THEN e[2] ELSE 0]
Before(B) == { u \in Upto(Span) : com[u] \in B }

LEMMA SeenFacts ==
  ASSUME Fits, Labels, pc = "aggregate", CN \in Nat,
         NEW c \in Upto(CN), Edges(c) \in Seq(Cells)
  PROVE  /\ Seen(c) \in Seq(Upto(CN) \X Nat) /\ Len(Seen(c)) \in 0..Len(Edges(c))
         /\ Distinct(Seen(c))
         /\ \A B : SeqSum(Into(CN, B), Seen(c)) = SeqSum(Into(Span, Before(B)), Edges(c))
<1> DEFINE m == Len(Edges(c))
           E == Edges(c)
           l == SeenLabels(c)
           n == Cardinality(FirstSeen(c))
           W(d) == SeenWeight(c, d)
<1>1. /\ m \in Nat /\ DOMAIN E = 1..m /\ \A i \in 1..m : E[i] \in Cells
      /\ Len(Edges(c)) = m /\ DOMAIN Edges(c) = 1..m
  OBVIOUS
<1> HIDE DEF E, m
<1>2. PICK vs : /\ IsFiniteSet(FirstSeen(c)) /\ Enumerates(vs, FirstSeen(c)) /\ n \in 0..m
                /\ Seen(c) = [i \in 1..n |-> <<l[vs[i]], W(l[vs[i]])>>]
  BY ONLY <1>1, SeenIs
<1>3. \A i \in 1..m : l[i] = com[E[i][1]] /\ l[i] \in Upto(CN) /\ E[i][2] \in Nat /\ E[i][1] \in Upto(Span)
  BY <1>1 DEF SeenLabels, Cells, Labels, Renumbered, E
<1> HIDE DEF l
<1>4. \A d : W(d) \in Nat
  <2> SUFFICES ASSUME NEW d PROVE SeenWeight(c, d) \in Nat
    OBVIOUS
  <2> DEFINE h == [i \in Upto(m) |-> IF l[i + 1] = d THEN E[i + 1][2] ELSE 0]
  <2>1. \A i \in 0..(m - 1) : h[i] \in Nat
    <3>1. \A i \in 0..(m - 1) : i + 1 \in 1..m
      BY <1>1
    <3> QED
      BY <1>3, <3>1 DEF Upto
  <2>2. SeenWeight(c, d) = Sum(h, 0, m)
    BY DEF SeenWeight, m, E, l
  <2> HIDE DEF h
  <2>3. 0 \in Nat
    OBVIOUS
  <2> QED
    BY <1>1, <2>1, <2>2, <2>3, SumNat
<1> HIDE DEF W, n
<1>5. /\ \A i \in 1..n : vs[i] \in FirstSeen(c) /\ vs[i] \in 1..m
      /\ \A i, j \in 1..n : i < j => vs[i] < vs[j]
      /\ \A i \in FirstSeen(c) : \E j \in 1..n : vs[j] = i
  <2>1. FirstSeen(c) \subseteq 1..m
    BY <1>1 DEF FirstSeen, E
  <2> QED
    BY <1>2, <2>1 DEF Enumerates, n
<1>6. /\ Seen(c) \in Seq(Upto(CN) \X Nat) /\ Len(Seen(c)) = n /\ DOMAIN Seen(c) = 1..n
      /\ \A i \in 1..n : Seen(c)[i] = <<l[vs[i]], W(l[vs[i]])>>
  <2>1. \A i \in 1..n : Seen(c)[i] = <<l[vs[i]], W(l[vs[i]])>>
    BY <1>2
  <2>2. \A i \in 1..n : Seen(c)[i] \in Upto(CN) \X Nat
    <3> SUFFICES ASSUME NEW i \in 1..n PROVE Seen(c)[i] \in Upto(CN) \X Nat
      OBVIOUS
    <3>1. l[vs[i]] \in Upto(CN) /\ W(l[vs[i]]) \in Nat
      BY <1>3, <1>4, <1>5
    <3>2. <<l[vs[i]], W(l[vs[i]])>> \in Upto(CN) \X Nat
      BY ONLY <3>1
    <3> QED
      BY <2>1, <3>2
  <2>3. Seen(c) = [i \in 1..n |-> Seen(c)[i]] /\ n \in Nat
    BY <1>1, <1>2
  <2> QED
    BY <2>1, <2>2, <2>3, IsSequence
<1>7. ASSUME NEW i \in 1..n, NEW j \in 1..n, i < j PROVE l[vs[i]] # l[vs[j]]
  <2>1. vs[i] \in 1..(vs[j] - 1)
    BY <1>1, <1>5, <1>7
  <2>2. \A k \in 1..(vs[j] - 1) : l[k] # l[vs[j]]
    BY <1>5 DEF FirstSeen, l
  <2> QED
    BY <2>1, <2>2
<1>8. \A i, j \in 1..n : l[vs[i]] = l[vs[j]] => i = j
  <2> SUFFICES ASSUME NEW i \in 1..n, NEW j \in 1..n, i # j PROVE l[vs[i]] # l[vs[j]]
    OBVIOUS
  <2>1. n \in Int /\ (i < j \/ j < i)
    BY <1>1, <1>2
  <2> QED
    BY <1>7, <2>1
<1>9. Distinct(Seen(c))
  <2> SUFFICES ASSUME NEW i \in 1..n, NEW j \in 1..n, i # j PROVE Seen(c)[i][1] # Seen(c)[j][1]
    BY <1>6 DEF Distinct
  <2>1. Seen(c)[i][1] = l[vs[i]] /\ Seen(c)[j][1] = l[vs[j]]
    BY <1>6
  <2> QED
    BY <1>8, <2>1
<1>10. \A i \in 1..m : \E j \in 1..n : l[vs[j]] = l[i]
  <2> SUFFICES ASSUME NEW i \in 1..m PROVE \E j \in 1..n : l[vs[j]] = l[i]
    OBVIOUS
  <2> DEFINE R == { j \in 1..m : l[j] = l[i] }
  <2>1. R \subseteq Nat /\ R # {}
    OBVIOUS
  <2>2. PICK k \in R : \A j \in R : k <= j
    BY <2>1, LeastNat
  <2>3. k \in 1..m /\ l[k] = l[i] /\ \A j \in 1..(k - 1) : l[j] # l[k]
    <3>1. k \in 1..m /\ l[k] = l[i] /\ \A j \in 1..(k - 1) : j \in 1..m /\ ~(k <= j)
      BY <1>1, <2>2
    <3> QED
      BY <2>2, <3>1
  <2>4. k \in FirstSeen(c)
    BY <1>1, <2>3 DEF FirstSeen, E, l
  <2>5. PICK j \in 1..n : vs[j] = k
    BY <1>5, <2>4
  <2> QED
    BY <2>3, <2>5
<1>11. ASSUME NEW B
       PROVE  SeqSum(Into(CN, B), Seen(c)) = SeqSum(Into(Span, Before(B)), Edges(c))
  <2> DEFINE k == [j \in 0..(m - 1) |-> l[j + 1]]
             w == [j \in 0..(m - 1) |-> E[j + 1][2]]
             f == [i \in 0..(n - 1) |-> vs[i + 1] - 1]
             g == FirstSums(f, k, w, B, m, n)
             v == Labelled(k, w, B, m)
             sg == [i \in 0..(n - 1) |-> Into(CN, B)[Seen(c)[i + 1]]]
             sv == [j \in 0..(m - 1) |-> Into(Span, Before(B))[E[j + 1]]]
  <2>1. \A j \in 0..(m - 1) : j + 1 \in 1..m /\ k[j] = l[j + 1] /\ w[j] = E[j + 1][2] /\ w[j] \in Int
    BY <1>1, <1>3
  <2>2. \A i \in 0..(n - 1) : /\ i + 1 \in 1..n /\ f[i] \in 0..(m - 1) /\ f[i] + 1 = vs[i + 1]
                              /\ k[f[i]] = l[vs[i + 1]]
    <3>1. \A i \in 0..(n - 1) : i + 1 \in 1..n
      BY <1>1, <1>2
    <3>2. \A i \in 0..(n - 1) : vs[i + 1] \in 1..m /\ f[i] = vs[i + 1] - 1
      BY <1>5, <3>1
    <3>3. \A i \in 0..(n - 1) : f[i] \in 0..(m - 1) /\ f[i] + 1 = vs[i + 1]
      BY <1>1, <3>2
    <3> HIDE DEF f, k
    <3> QED
      BY <2>1, <3>1, <3>3
  <2> HIDE DEF k, w, f
  <2>3. \A i, j \in 0..(n - 1) : k[f[i]] = k[f[j]] => i = j
    <3> SUFFICES ASSUME NEW i \in 0..(n - 1), NEW j \in 0..(n - 1), k[f[i]] = k[f[j]] PROVE i = j
      OBVIOUS
    <3>1. i + 1 = j + 1
      BY <1>8, <2>2
    <3> QED
      BY <1>1, <1>2, <3>1
  <2>4. \A j \in 0..(m - 1) : \E i \in 0..(n - 1) : k[f[i]] = k[j]
    <3> SUFFICES ASSUME NEW j \in 0..(m - 1) PROVE \E i \in 0..(n - 1) : k[f[i]] = k[j]
      OBVIOUS
    <3>1. PICK h \in 1..n : l[vs[h]] = l[j + 1]
      BY <1>10, <2>1
    <3>2. h - 1 \in 0..(n - 1) /\ (h - 1) + 1 = h
      BY <1>1, <1>2
    <3> QED
      BY <2>1, <2>2, <3>1, <3>2
  <2>5. Sum(g, 0, n) = Sum(v, 0, m)
    <3>1. m \in Nat /\ n \in Nat /\ Firsts(f, k, m, n)
      BY <1>1, <1>2, <2>2, <2>3, <2>4 DEF Firsts
    <3>2. \A j \in 0..(m - 1) : w[j] \in Int
      BY <2>1
    <3> QED
      BY ONLY <3>1, <3>2, SumByFirsts
  <2>6. \A i \in 0..(n - 1) : g[i] = sg[i]
    <3> SUFFICES ASSUME NEW i \in 0..(n - 1) PROVE g[i] = sg[i]
      OBVIOUS
    <3> DEFINE d == l[vs[i + 1]]
    <3>1. Seen(c)[i + 1] = <<d, W(d)>> /\ d \in Upto(CN) /\ W(d) \in Nat /\ k[f[i]] = d
      BY <1>3, <1>4, <1>5, <1>6, <2>2
    <3> HIDE DEF d
    <3>2. sg[i] = IF d \in B THEN W(d) ELSE 0
      <4>1. sg[i] = Into(CN, B)[Seen(c)[i + 1]]
        OBVIOUS
      <4>2. Into(CN, B)[<<d, W(d)>>] = IF d \in B THEN W(d) ELSE 0
        BY <3>1 DEF Into
      <4> QED
        BY <3>1, <4>1, <4>2
    <3>3. W(d) = Sum(InClass(w, k, d, m), 0, m)
      <4>1. [j \in Upto(m) |-> IF l[j + 1] = d THEN E[j + 1][2] ELSE 0] = InClass(w, k, d, m)
        BY <2>1 DEF InClass, Upto
      <4>2. W(d) = Sum([j \in Upto(m) |-> IF l[j + 1] = d THEN E[j + 1][2] ELSE 0], 0, m)
        BY DEF W, SeenWeight, m, E, l
      <4> QED
        BY <4>1, <4>2
    <3> HIDE DEF sg
    <3>4. g[i] = IF d \in B THEN Sum(InClass(w, k, d, m), 0, m) ELSE 0
      BY <3>1 DEF FirstSums
    <3> QED
      BY <3>2, <3>3, <3>4
  <2>7. \A j \in 0..(m - 1) : v[j] = sv[j]
    <3> SUFFICES ASSUME NEW j \in 0..(m - 1) PROVE v[j] = sv[j]
      OBVIOUS
    <3>1. /\ E[j + 1] \in Upto(Span) \X Nat /\ w[j] = E[j + 1][2] /\ k[j] = com[E[j + 1][1]]
          /\ E[j + 1][1] \in Upto(Span)
      BY <1>1, <1>3, <2>1 DEF Cells
    <3>2. E[j + 1][1] \in Before(B) <=> k[j] \in B
      BY <3>1 DEF Before
    <3> QED
      BY <3>1, <3>2 DEF Into, Labelled
  <2>8. SeqSum(Into(CN, B), Seen(c)) = Sum(sg, 0, n)
    BY <1>6 DEF SeqSum
  <2>9. SeqSum(Into(Span, Before(B)), E) = Sum(sv, 0, m)
    BY DEF SeqSum, m, E
  <2> HIDE DEF g, v, sg, sv
  <2>10. Sum(g, 0, n) = Sum(sg, 0, n) /\ Sum(v, 0, m) = Sum(sv, 0, m)
    <3>1. 0 \in Nat /\ n \in Nat /\ m \in Nat
      BY <1>1, <1>2
    <3>2. Sum(g, 0, n) = Sum(sg, 0, n)
      BY ONLY <2>6, <3>1, SumEqual
    <3>3. Sum(v, 0, m) = Sum(sv, 0, m)
      BY ONLY <2>7, <3>1, SumEqual
    <3> QED
      BY <3>2, <3>3
  <2> QED
    BY <2>5, <2>8, <2>9, <2>10 DEF E
<1> QED
  BY <1>2, <1>6, <1>9, <1>11 DEF m

-----------------------------------------------------------------------------
(***************************************************************************)
(* The inductive invariant of the aggregation, beside PInv: the graph of   *)
(* the pass is one, with no more edges than the input, so that each        *)
(* community has room in the buffers, and those that have been aggregated  *)
(* are still there.                                                        *)
(***************************************************************************)
Graphs ==
  /\ InputIsGraph
  /\ ProperRows /\ \A u \in Upto(Span) : Distinct(Row(u))
  /\ Sum(Degrees, 0, Span) <= EdgeCount

Buffers == DOMAIN z.key = Upto(EdgeCount) /\ DOMAIN z.val = Upto(EdgeCount)

LaidOut ==
  /\ pc \in {"regions", "aggregate"} => DOMAIN zoff = 0..CN
  /\ pc = "regions" => \A c \in Upto(CN) : given[c] = Room(c)
  /\ pc = "aggregate" => \A c \in 0..CN : zoff[c] = Sum(Rooms, 0, c)

FilledIn ==
  pc = "aggregate" =>
    /\ todo \subseteq Upto(CN)
    /\ \A c \in todo : z.deg[c] = 0
    /\ \A c \in Upto(CN) \ todo : CsrRow(aggregated, c) = Seen(c)

AInv == Live => Graphs /\ Buffers /\ LaidOut /\ FilledIn

LEMMA SameRows ==
  ASSUME x' = x, y' = y, isFirst' = isFirst, Span' = Span
  PROVE  /\ \A u : Row(u)' = Row(u)
         /\ Degrees' = Degrees /\ EdgeCount' = EdgeCount
         /\ Graphs => Graphs'
<1>1. \A u : Row(u)' = Row(u)
  <2>1. \A u : InputRow(u)' = InputRow(u) /\ CsrRow(y, u)' = CsrRow(y, u)
    BY DEF InputRow, CsrRow
  <2> QED
    BY <2>1 DEF Row
<1>2. Degrees' = Degrees /\ EdgeCount' = EdgeCount
  BY <1>1 DEF Degrees, EdgeCount
<1>3. Graphs => Graphs'
  BY <1>1, <1>2 DEF Graphs, InputIsGraph, ProperRows, Cells
<1> QED
  BY <1>1, <1>2, <1>3

LEMMA SameRooms ==
  ASSUME x' = x, y' = y, isFirst' = isFirst, Span' = Span, com' = com, CN' = CN
  PROVE  (\A c : Room(c)' = Room(c)) /\ Rooms' = Rooms
<1>1. \A u : Row(u)' = Row(u)
  BY SameRows
<1>2. \A c : Room(c)' = Room(c)
  BY <1>1 DEF Room
<1> QED
  BY <1>2 DEF Rooms

LEMMA SameSeen ==
  ASSUME x' = x, y' = y, isFirst' = isFirst, Span' = Span, com' = com,
         cvkey' = cvkey, cvoff' = cvoff
  PROVE  \A c : Seen(c)' = Seen(c)
<1>1. \A u : Row(u)' = Row(u)
  BY SameRows
<1>2. \A c : Listed(c)' = Listed(c)
  BY DEF Listed
<1>3. \A c : Edges(c)' = Edges(c)
  BY <1>1, <1>2 DEF Edges
<1>4. ASSUME NEW c PROVE Seen(c)' = Seen(c)
  <2> DEFINE SeenOf(edges, label) ==
        LET ds == [i \in DOMAIN edges |-> label[edges[i][1]]]
            firsts == Ascending({ i \in DOMAIN ds : \A j \in 1..(i - 1) : ds[j] # ds[i] })
            W(d) == SumOf([i \in Upto(Len(ds)) |-> IF ds[i + 1] = d THEN edges[i + 1][2] ELSE 0], Len(ds))
        IN  [i \in DOMAIN firsts |-> <<ds[firsts[i]], W(ds[firsts[i]])>>]
  <2>1. Seen(c) = SeenOf(Edges(c), com)
    BY Zenon DEF Seen
  <2>2. Seen(c)' = SeenOf(Edges(c)', com')
    BY Zenon DEF Seen
  <2> HIDE DEF SeenOf
  <2> QED
    BY <1>3, <2>1, <2>2
<1> QED
  BY <1>4

(* Where a community's edges are, and how many.                            *)
LEMMA Aggregated ==
  ASSUME LiveInv, Graphs, pc = "aggregate", NEW c \in Upto(CN)
  PROVE  /\ Edges(c) \in Seq(Cells) /\ Len(Edges(c)) = Room(c) /\ Room(c) \in Nat
         /\ Seen(c) \in Seq(Upto(CN) \X Nat) /\ Len(Seen(c)) \in 0..Room(c)
         /\ Distinct(Seen(c))
         /\ \A B : SeqSum(Into(CN, B), Seen(c)) = SeqSum(Into(Span, Before(B)), Edges(c))
<1>1. Fits /\ Labels /\ Places /\ Listings /\ ProperRows
  BY DEF LiveInv, Graphs
<1>2. CN \in Nat
  BY <1>1, Spans DEF Fits, Renumbered
<1>3. Edges(c) \in Seq(Cells) /\ Len(Edges(c)) = Room(c)
  BY <1>1, EdgesAddUp, RoomIsLength
<1>4. Room(c) \in Nat
  <2>1. Len(Edges(c)) \in Nat
    BY <1>3
  <2> QED
    BY <1>3, <2>1
<1>5. /\ Seen(c) \in Seq(Upto(CN) \X Nat) /\ Len(Seen(c)) \in 0..Len(Edges(c))
      /\ Distinct(Seen(c))
      /\ \A B : SeqSum(Into(CN, B), Seen(c)) = SeqSum(Into(Span, Before(B)), Edges(c))
  BY <1>1, <1>2, <1>3, SeenFacts
<1> QED
  BY <1>3, <1>4, <1>5

LEMMA OffsetsAddUp ==
  ASSUME LiveInv, Graphs, LaidOut, pc = "aggregate"
  PROVE  /\ CN \in Nat /\ Sum(Rooms, 0, CN) = Sum(Degrees, 0, Span)
         /\ \A c \in Upto(CN) : zoff[c] \in Nat /\ zoff[c + 1] = zoff[c] + Room(c)
         /\ \A c, d \in 0..CN : c <= d => zoff[c] <= zoff[d]
         /\ zoff[CN] \in Nat /\ zoff[CN] <= EdgeCount
<1>1. CN \in Nat /\ Fits /\ Labels
  BY Spans DEF LiveInv, Fits, Renumbered
<1>2. \A c \in 0..(CN - 1) : Rooms[c] = Room(c) /\ Rooms[c] \in Nat
  BY Aggregated DEF Rooms, Upto
<1>3. \A c \in 0..CN : zoff[c] = Sum(Rooms, 0, c)
  BY DEF LaidOut
<1>4. Sum(Rooms, 0, CN) = Sum(Degrees, 0, Span)
  BY <1>1, RoomsAddUp DEF Renumbered
<1> HIDE DEF Rooms
<1>5. ASSUME NEW c \in 0..CN PROVE zoff[c] \in Nat
  <2>1. c \in Nat /\ 0 \in Nat /\ \A j \in 0..(c - 1) : Rooms[j] \in Nat
    BY <1>1, <1>2
  <2> QED
    BY <1>3, <2>1, SumNat
<1>6. ASSUME NEW c \in Upto(CN) PROVE zoff[c + 1] = zoff[c] + Room(c)
  <2>1. c \in Nat /\ 0 \in Nat /\ 0 <= c /\ c \in 0..CN /\ c + 1 \in 0..CN /\ c \in 0..(CN - 1)
    BY <1>1 DEF Upto
  <2>2. Sum(Rooms, 0, c + 1) = Sum(Rooms, 0, c) + Rooms[c]
    BY <2>1, SumNext
  <2> QED
    BY <1>2, <1>3, <2>1, <2>2
<1>7. ASSUME NEW c \in 0..CN, NEW d \in 0..CN, c <= d PROVE zoff[c] <= zoff[d]
  <2>1. c \in Nat /\ d \in Nat /\ 0 \in Nat /\ 0 <= c /\ \A j \in 0..(d - 1) : Rooms[j] \in Int
    BY <1>1, <1>2
  <2>2. Sum(Rooms, 0, d) = Sum(Rooms, 0, c) + Sum(Rooms, c, d)
    BY <1>7, <2>1, SumSplit
  <2>3. \A j \in c..(d - 1) : Rooms[j] \in Nat
    BY <1>1, <1>2, <2>1
  <2>4. Sum(Rooms, c, d) \in Nat
    BY <2>1, <2>3, SumNat
  <2> QED
    BY <1>3, <1>5, <2>2, <2>4
<1>8. CN \in 0..CN /\ Upto(CN) \subseteq 0..CN
  BY <1>1 DEF Upto
<1>9. zoff[CN] <= EdgeCount
  BY <1>3, <1>4, <1>8 DEF Graphs
<1> QED
  BY <1>1, <1>4, <1>5, <1>6, <1>7, <1>8, <1>9

-----------------------------------------------------------------------------
(* The invariant, action by action                                         *)

LEMMA InitAggregation == Init => AInv
<1> SUFFICES ASSUME Init, Live PROVE Graphs /\ Buffers /\ LaidOut /\ FilledIn
  BY DEF AInv
<1>1. pc = "move" /\ p = 0 /\ isFirst /\ Span = S
  BY DEF Init, Live, isFirst, Span
<1>2. InputIsGraph
  BY InputsAssumption DEF Init, InputIsGraph
<1>3. \A u \in Upto(Span) : Row(u) = InputRow(u)
  BY <1>1 DEF Row
<1>4. ProperRows
  <2>1. \A u \in Upto(S) : InputRow(u) \in Seq(Upto(S) \X Nat)
    BY <1>2, InputRowIs
  <2> QED
    BY <1>1, <1>3, <2>1 DEF ProperRows, Cells
<1>5. ASSUME NEW u \in Upto(Span) PROVE Distinct(Row(u))
  <2> DEFINE n == Cardinality(Targets(u))
  <2>1. PICK vs :
          /\ IsFiniteSet(Targets(u)) /\ Enumerates(vs, Targets(u))
          /\ InputRow(u) = [i \in 1..n |-> <<vs[i], x[<<u, vs[i]>>]>>]
    BY <1>1, <1>2, InputRowIs
  <2>2. n \in Nat /\ Targets(u) \subseteq Int
    BY <2>1, FS_CardinalityType DEF Targets, Upto
  <2>3. \A i, j \in 1..n : i # j => vs[i] # vs[j]
    <3> SUFFICES ASSUME NEW i \in 1..n, NEW j \in 1..n, i # j PROVE vs[i] # vs[j]
      OBVIOUS
    <3>1. i < j \/ j < i
      BY <2>2
    <3>2. vs[i] \in Int /\ vs[j] \in Int
      BY <2>1, <2>2 DEF Enumerates
    <3> QED
      BY <2>1, <3>1, <3>2 DEF Enumerates
  <2> DEFINE w(i) == x[<<u, vs[i]>>]
  <2>4. DOMAIN Row(u) = 1..n /\ \A i \in 1..n : Row(u)[i][1] = vs[i]
    <3>1. Row(u) = [i \in 1..n |-> <<vs[i], w(i)>>]
      BY <1>3, <2>1
    <3> HIDE DEF n, w
    <3> QED
      BY <3>1
  <2> HIDE DEF n
  <2> QED
    BY <2>3, <2>4 DEF Distinct
<1>6. Sum(Degrees, 0, Span) <= EdgeCount
  <2>1. Degrees = [u \in Upto(S) |-> Len(InputRow(u))]
    BY <1>1, <1>3 DEF Degrees
  <2>2. Sum([u \in Upto(S) |-> Len(InputRow(u))], 0, S) = EdgeCount
    BY <1>2, InputRowsAddUp
  <2>3. Sum(Degrees, 0, Span) = EdgeCount
    BY <1>1, <2>1, <2>2
  <2>4. EdgeCount \in Nat
    BY <1>2, FiniteInput
  <2> QED
    BY <2>3, <2>4
<1>7. Buffers
  BY DEF Init, Buffers, Fill
<1> QED
  BY <1>1, <1>2, <1>4, <1>5, <1>6, <1>7 DEF Graphs, LaidOut, FilledIn

(* Before the regions are laid out, nothing is asked of offsets and rows.  *)
LEMMA BeforeRegionsKeep ==
  ASSUME PInv, AInv, Live, Live',
         \/ \E m \in 1..L : Move(m)
         \/ \E u \in Upto(S) : Exists(u) \/ Claim(u) \/ Write(u)
         \/ Existed \/ Rank \/ Renumber \/ Lookup \/ Count \/ Offsets \/ StartClaims
  PROVE  AInv'
<1>1. Fits /\ Graphs /\ Buffers
  BY DEF PInv, LiveInv, AInv
<1>2. /\ x' = x /\ y' = y /\ pc' \notin {"regions", "aggregate"}
      /\ z'.key = z.key /\ z'.val = z.val
  BY <1>1 DEF Move, Exists, Claim, Write, Existed, Rank, Renumber, Lookup, Count, Offsets, StartClaims, Fits
<1>3. isFirst' = isFirst /\ Span' = Span
  <2>1. \/ pc = "move" /\ pc' = "exists" /\ p' = p + 1
        \/ pc # "move" /\ pc' # "move" /\ p' = p
    BY DEF Live, Move, Exists, Claim, Write, Existed, Rank, Renumber, Lookup, Count, Offsets, StartClaims
  <2> QED
    BY <1>1, <1>2, <2>1 DEF isFirst, Span, Fits
<1>4. Graphs' /\ EdgeCount' = EdgeCount
  BY <1>1, <1>2, <1>3, SameRows
<1>5. Buffers'
  BY <1>1, <1>2, <1>4 DEF Buffers
<1> QED
  BY <1>2, <1>4, <1>5 DEF AInv, LaidOut, FilledIn

LEMMA LayingOutKeeps ==
  ASSUME LiveInv, Graphs, Buffers, LaidOut, TotalDegrees \/ Regions \/ StartAggregation
  PROVE  AInv'
<1>1. /\ x' = x /\ y' = y /\ p' = p /\ ucom' = ucom /\ vcom' = vcom /\ CN' = CN
      /\ pc \in {"claim", "regions"} /\ pc' \in {"regions", "aggregate"}
  BY DEF TotalDegrees, Regions, StartAggregation, moved
<1>2. Fits /\ Scans /\ CN \in Nat
  BY <1>1, Spans DEF LiveInv, Fits, Renumbered
<1>3. isFirst' = isFirst /\ Span' = Span /\ com' = com
  BY <1>1, SameLabels
<1>4. Graphs' /\ EdgeCount' = EdgeCount /\ (\A c : Room(c)' = Room(c)) /\ Rooms' = Rooms
  BY <1>1, <1>3, SameRows, SameRooms
<1>5. z'.key = z.key /\ z'.val = z.val
  BY <1>2 DEF TotalDegrees, Regions, StartAggregation, Fits
<1>6. Buffers'
  BY <1>4, <1>5 DEF Buffers
<1>7. CASE TotalDegrees
  <2>1. /\ pc' = "regions" /\ zoff' = [c \in 0..CN |-> IF c < CN THEN Room(c) ELSE 0]
        /\ given' = zoff'
    BY <1>7 DEF TotalDegrees, Rows!StartScan
  <2>2. \A c \in Upto(CN) : given'[c] = Room(c)
    BY <1>2, <2>1 DEF Upto
  <2> QED
    BY <1>1, <1>4, <1>6, <2>1, <2>2 DEF AInv, LaidOut, FilledIn
<1>8. CASE Regions
  <2>1. pc = "regions" /\ pc' = "regions"
    BY <1>8 DEF Regions
  <2>2. T' = T /\ given' = given /\ ScanMoves(zoff, zoff', CN)
    BY <1>2, <1>8, Spans, RowsMove DEF Regions
  <2>3. DOMAIN zoff' = DOMAIN zoff
    BY <1>2, <2>1, <2>2, Spans, ScanMovesKeep DEF Scans
  <2> QED
    BY <1>1, <1>4, <1>6, <2>1, <2>2, <2>3 DEF AInv, LaidOut, FilledIn
<1>9. CASE StartAggregation
  <2>1. /\ pc = "regions" /\ pc' = "aggregate" /\ stage = "add" /\ todo = {} /\ todo' = Upto(CN)
        /\ zoff' = [zoff EXCEPT ![CN] = buf[H - 1]]
        /\ z' = [z EXCEPT !.deg = Fill(CN, 0)]
    BY <1>9 DEF StartAggregation, Rows!EndScan, Rows!Scanned, Rows!Total
  <2>2. ScanOK(zoff, buf, T, "add", {}, given, CN) /\ H \in Nat
    BY <1>2, <2>1, Spans DEF Scans
  <2>3. /\ \A c \in 0..(CN - 1) : zoff[c] = Sum(given, 0, c)
        /\ buf[H - 1] = Sum(given, 0, CN)
    BY <2>2, ScanEnds
  <2>4. \A c \in 0..CN : Sum(given, 0, c) = Sum(Rooms, 0, c)
    <3> SUFFICES ASSUME NEW c \in 0..CN PROVE Sum(given, 0, c) = Sum(Rooms, 0, c)
      OBVIOUS
    <3>1. \A d \in 0..(CN - 1) : given[d] = Rooms[d]
      BY <2>1 DEF LaidOut, Rooms, Upto
    <3>2. 0 \in Nat /\ c \in Nat /\ \A d \in 0..(c - 1) : given[d] = Rooms[d]
      BY <1>2, <3>1
    <3> QED
      BY <3>2, SumEqual
  <2>5. DOMAIN zoff = 0..CN /\ CN \in 0..CN
    BY <1>2, <2>1 DEF LaidOut
  <2>6. \A c \in 0..CN : zoff'[c] = Sum(Rooms, 0, c)
    <3> SUFFICES ASSUME NEW c \in 0..CN PROVE zoff'[c] = Sum(Rooms, 0, c)
      OBVIOUS
    <3>1. c # CN => c \in 0..(CN - 1)
      BY <1>2
    <3> QED
      BY <2>1, <2>3, <2>4, <2>5, <3>1
  <2>7. z'.deg = Fill(CN, 0)
    BY <1>2, <2>1 DEF Fits
  <2>8. \A c \in todo' : z'.deg[c] = 0
    BY <2>1, <2>7 DEF Fill
  <2>9. DOMAIN zoff' = 0..CN
    BY <2>1, <2>5
  <2>10. LaidOut'
    BY <1>1, <1>4, <2>1, <2>6, <2>9 DEF LaidOut
  <2>11. FilledIn'
    BY <1>1, <2>1, <2>8 DEF FilledIn
  <2> QED
    BY <1>4, <1>6, <2>10, <2>11 DEF AInv
<1> QED
  BY <1>7, <1>8, <1>9

LEMMA AggregateFills ==
  ASSUME LiveInv, Graphs, Buffers, LaidOut, FilledIn, NEW c \in Upto(S), Aggregate(c)
  PROVE  AInv'
<1> DEFINE s == Seen(c)
           at(i) == i - zoff[c] + 1
<1>1. /\ pc = "aggregate" /\ pc' = "aggregate" /\ c \in todo /\ todo' = todo \ {c}
      /\ z' = [deg |-> [z.deg EXCEPT ![c] = Len(s)],
               key |-> [i \in DOMAIN z.key |-> IF at(i) \in DOMAIN s THEN s[at(i)][1] ELSE z.key[i]],
               val |-> [i \in DOMAIN z.val |-> IF at(i) \in DOMAIN s THEN s[at(i)][2] ELSE z.val[i]]]
      /\ x' = x /\ y' = y /\ p' = p /\ ucom' = ucom /\ vcom' = vcom /\ CN' = CN
      /\ cvkey' = cvkey /\ cvoff' = cvoff /\ zoff' = zoff
  BY DEF Aggregate, moved, cv
<1>2. todo \subseteq Upto(CN) /\ c \in Upto(CN) /\ DOMAIN z.deg = Upto(CN)
  BY <1>1 DEF FilledIn, LiveInv, Fits
<1>3. isFirst' = isFirst /\ Span' = Span /\ com' = com
  BY <1>1, SameLabels
<1>4. Graphs' /\ EdgeCount' = EdgeCount /\ Rooms' = Rooms
      /\ (\A d : Room(d)' = Room(d)) /\ \A d : Seen(d)' = Seen(d)
  BY <1>1, <1>3, SameRows, SameRooms, SameSeen
<1>5. LaidOut'
  BY <1>1, <1>4 DEF LaidOut
<1>6. Buffers'
  BY <1>1, <1>4 DEF Buffers
<1>7. /\ CN \in Nat /\ zoff[CN] \in Nat /\ zoff[CN] <= EdgeCount
      /\ \A d \in Upto(CN) : zoff[d] \in Nat /\ zoff[d + 1] = zoff[d] + Room(d)
      /\ \A d, e \in 0..CN : d <= e => zoff[d] <= zoff[e]
  BY <1>1, OffsetsAddUp
<1>8. \A d \in Upto(CN) : /\ Room(d) \in Nat /\ Len(Seen(d)) \in 0..Room(d)
                          /\ Seen(d) \in Seq(Upto(CN) \X Nat)
  BY <1>1, Aggregated
\* An edge of d lies in the buffers, at a place of its own.
<1>9. ASSUME NEW d \in Upto(CN), NEW i \in 1..Len(Seen(d))
      PROVE  /\ zoff[d] + i - 1 \in DOMAIN z.key /\ zoff[d] + i - 1 \in DOMAIN z.val
             /\ d = c => at(zoff[d] + i - 1) = i
             /\ d # c => at(zoff[d] + i - 1) \notin 1..Len(s)
  <2>1. /\ d \in 0..CN /\ d + 1 \in 0..CN /\ c \in 0..CN /\ c + 1 \in 0..CN /\ CN \in 0..CN
        /\ d + 1 <= CN /\ (d < c => d + 1 <= c) /\ (c < d => c + 1 <= d)
        /\ (d # c => d < c \/ c < d)
    BY <1>2, <1>7, SMTT(30) DEF Upto
  <2>2. /\ zoff[d] \in Nat /\ zoff[d + 1] = zoff[d] + Room(d) /\ Room(d) \in Nat
        /\ zoff[c] \in Nat /\ zoff[c + 1] = zoff[c] + Room(c) /\ Room(c) \in Nat
        /\ Len(Seen(d)) \in 0..Room(d) /\ Len(s) \in 0..Room(c)
    BY <1>2, <1>7, <1>8
  <2>3. /\ zoff[d + 1] <= zoff[CN] /\ zoff[CN] <= EdgeCount /\ zoff[CN] \in Nat
        /\ (d < c => zoff[d + 1] <= zoff[c]) /\ (c < d => zoff[c + 1] <= zoff[d])
    BY <1>7, <2>1
  <2>4. DOMAIN z.key = Upto(EdgeCount) /\ DOMAIN z.val = Upto(EdgeCount)
    BY DEF Buffers
  <2>5. i \in Nat /\ 1 <= i /\ i <= Len(Seen(d)) /\ Len(Seen(d)) \in Nat
    BY <2>2
  <2>6. EdgeCount \in Int
    BY FiniteInput DEF Graphs
  <2>7. zoff[d] + i - 1 \in Upto(EdgeCount)
    <3>1. 0 <= zoff[d] + i - 1 /\ zoff[d] + i - 1 < EdgeCount /\ zoff[d] + i - 1 \in Int
      BY <2>2, <2>3, <2>5, <2>6, SMTT(30)
    <3> QED
      BY <2>6, <3>1 DEF Upto
  <2>8. d = c => at(zoff[d] + i - 1) = i
    BY <2>2, <2>5
  <2>9. d < c => at(zoff[d] + i - 1) <= 0
    BY <2>2, <2>3, <2>5, SMTT(30)
  <2>10. c < d => at(zoff[d] + i - 1) > Len(s)
    BY <2>2, <2>3, <2>5, SMTT(30)
  <2>11. at(zoff[d] + i - 1) \in Int /\ Len(s) \in Nat
    BY <2>2, <2>5, SMTT(30)
  <2> HIDE DEF at, s
  <2> QED
    BY <2>1, <2>4, <2>7, <2>8, <2>9, <2>10, <2>11
<1>10. DOMAIN s = 1..Len(s) /\ \A d \in Upto(CN) : DOMAIN Seen(d) = 1..Len(Seen(d))
  BY <1>2, <1>8
<1>11. /\ z'.deg = [z.deg EXCEPT ![c] = Len(s)]
       /\ z'.key = [i \in DOMAIN z.key |-> IF at(i) \in DOMAIN s THEN s[at(i)][1] ELSE z.key[i]]
       /\ z'.val = [i \in DOMAIN z.val |-> IF at(i) \in DOMAIN s THEN s[at(i)][2] ELSE z.val[i]]
  BY <1>1
<1>12. \A d \in todo' : z'.deg[d] = 0
  BY <1>1, <1>2, <1>11 DEF FilledIn
<1>13. ASSUME NEW d \in Upto(CN) \ todo' PROVE CsrRow(aggregated, d)' = Seen(d)
  <2> DEFINE n == Len(Seen(d))
             key(i) == z'.key[zoff[d] + i - 1]
             val(i) == z'.val[zoff[d] + i - 1]
  <2>1. CsrRow(aggregated, d)' = [i \in 1..z'.deg[d] |-> <<key(i), val(i)>>]
    BY <1>1 DEF CsrRow, aggregated
  <2>2. n \in Nat /\ Seen(d) = [i \in 1..n |-> Seen(d)[i]]
        /\ \A i \in 1..n : Seen(d)[i] = <<Seen(d)[i][1], Seen(d)[i][2]>>
    <3>1. Seen(d) \in Seq(Upto(CN) \X Nat)
      BY <1>8
    <3> QED
      BY <3>1
  <2>3. CASE d = c
    <3>1. z'.deg[d] = n
      BY <1>2, <1>11, <2>3
    <3>2. \A i \in 1..n : key(i) = s[i][1] /\ val(i) = s[i][2]
      BY <1>9, <1>10, <1>11, <2>3
    <3> HIDE DEF n, key, val
    <3> QED
      BY <2>1, <2>2, <2>3, <3>1, <3>2
  <2>4. CASE d # c
    <3>1. d \notin todo /\ CsrRow(aggregated, d) = Seen(d)
      BY <1>1, <2>4 DEF FilledIn
    <3> DEFINE key0(i) == z.key[zoff[d] + i - 1]
               val0(i) == z.val[zoff[d] + i - 1]
    <3>2. Seen(d) = [i \in 1..z.deg[d] |-> <<key0(i), val0(i)>>]
      BY <3>1 DEF CsrRow, aggregated
    <3>3. z.deg[d] \in Nat /\ z'.deg[d] = z.deg[d]
      BY <1>1, <1>2, <1>11, <2>4 DEF LiveInv, Fits
    <3>4. z.deg[d] = n
      <4> HIDE DEF key0, val0
      <4>1. Seen(d) = [i \in 1..z.deg[d] |-> Seen(d)[i]]
        BY <3>2
      <4> QED
        BY <3>3, <4>1, IsSequence
    <3>5. \A i \in 1..n : key(i) = key0(i) /\ val(i) = val0(i)
      BY <1>9, <1>10, <1>11, <2>4
    <3> HIDE DEF n, key, val, key0, val0
    <3> QED
      BY <2>1, <3>2, <3>3, <3>4, <3>5
  <2> QED
    BY <2>3, <2>4
<1>14. FilledIn'
  BY <1>1, <1>2, <1>4, <1>12, <1>13 DEF FilledIn
<1> QED
  BY <1>4, <1>5, <1>6, <1>14 DEF AInv

(* The graph of the next pass has the rows that have been filled in.       *)
LEMMA NextRows ==
  ASSUME LiveInv, FilledIn, NextPass
  PROVE  /\ ~isFirst' /\ Span' = CN /\ CN \in Nat /\ x' = x /\ ucom' = ucom /\ vcom' = Alone
         /\ pc = "aggregate" /\ pc' = "move"
         /\ \A c \in Upto(CN) : Row(c)' = Seen(c) /\ CsrRow(aggregated, c) = Seen(c)
<1>1. /\ pc = "aggregate" /\ todo = {} /\ pc' = "move" /\ p' = p /\ y' = aggregated
      /\ x' = x /\ ucom' = ucom /\ vcom' = Alone
  BY DEF NextPass
<1>2. Fits /\ CN \in Nat /\ DOMAIN z.deg = Upto(CN) /\ p >= 1 /\ p \in Nat
  BY <1>1, Spans DEF LiveInv, Fits, Renumbered
<1>3. ~isFirst'
  BY <1>1, <1>2 DEF isFirst
<1>4. Span' = CN
  <2>1. 0 \in Int /\ CN - 1 \in Int /\ (0 > CN - 1 => CN = 0)
    BY <1>2
  <2>2. Cardinality(0..(CN - 1)) = IF 0 > CN - 1 THEN 0 ELSE CN - 1 - 0 + 1
    BY <2>1, FS_Interval
  <2>3. Cardinality(Upto(CN)) = CN
    BY <1>2, <2>1, <2>2 DEF Upto
  <2>4. Span' = Cardinality(DOMAIN z.deg)
    BY <1>1, <1>3 DEF Span, aggregated
  <2> QED
    BY <1>2, <2>3, <2>4
<1>5. ASSUME NEW c \in Upto(CN) PROVE Row(c)' = Seen(c) /\ CsrRow(aggregated, c) = Seen(c)
  <2>1. CsrRow(aggregated, c) = Seen(c)
    BY <1>1 DEF FilledIn
  <2>2. Row(c)' = CsrRow(y', c)
    BY <1>3 DEF Row, CsrRow
  <2> QED
    BY <1>1, <2>1, <2>2
<1> QED
  BY <1>1, <1>2, <1>3, <1>4, <1>5

LEMMA NextPassAggregates ==
  ASSUME LiveInv, Graphs, LaidOut, FilledIn, NextPass
  PROVE  AInv'
<1>1. /\ ~isFirst' /\ Span' = CN /\ CN \in Nat /\ x' = x /\ pc = "aggregate" /\ pc' = "move"
      /\ \A c \in Upto(CN) : Row(c)' = Seen(c)
  BY NextRows
<1>2. \A c \in Upto(CN) : /\ Room(c) \in Nat /\ Len(Seen(c)) \in 0..Room(c)
                          /\ Seen(c) \in Seq(Upto(CN) \X Nat) /\ Distinct(Seen(c))
  BY <1>1, Aggregated
<1>3. InputIsGraph' /\ EdgeCount' = EdgeCount
  BY <1>1 DEF Graphs, InputIsGraph, EdgeCount
<1>4. ProperRows' /\ \A u \in Upto(Span)' : Distinct(Row(u)')
  <2>1. Upto(Span)' = Upto(CN) /\ Cells' = Upto(CN) \X Nat
    BY <1>1 DEF Upto, Cells
  <2> QED
    BY <1>1, <1>2, <2>1 DEF ProperRows
<1>5. Sum(Degrees', 0, Span') <= EdgeCount'
  <2>1. \A c \in 0..(CN - 1) : Degrees'[c] = Len(Seen(c))
    BY <1>1 DEF Degrees, Upto
  <2>2. \A c \in 0..(CN - 1) : Rooms[c] = Room(c)
    BY DEF Rooms, Upto
  <2>3. \A c \in 0..(CN - 1) : Degrees'[c] \in Int /\ Rooms[c] \in Int /\ Degrees'[c] <= Rooms[c]
    <3>1. \A c \in 0..(CN - 1) : Room(c) \in Nat /\ Len(Seen(c)) \in 0..Room(c)
      BY <1>2 DEF Upto
    <3>2. \A c \in 0..(CN - 1) : Len(Seen(c)) \in Int /\ Room(c) \in Int /\ Len(Seen(c)) <= Room(c)
      BY <3>1
    <3> QED
      BY <2>1, <2>2, <3>2
  <2>4. Sum(Rooms, 0, CN) = zoff[CN] /\ zoff[CN] \in Nat /\ zoff[CN] <= EdgeCount
    <3>1. CN \in 0..CN
      BY <1>1
    <3> QED
      BY <1>1, <3>1, OffsetsAddUp DEF LaidOut
  <2> DEFINE f == Degrees'
             g == Rooms
  <2>5. \A c \in 0..(CN - 1) : f[c] \in Int /\ g[c] \in Int /\ f[c] <= g[c]
    BY <2>3
  <2>6. 0 \in Nat /\ \A c \in 0..(CN - 1) : f[c] \in Int
    BY <2>3
  <2> HIDE DEF f, g
  <2>7. Sum(f, 0, CN) <= Sum(g, 0, CN)
    BY <1>1, <2>5, SumBounded
  <2>8. Sum(f, 0, CN) \in Int
    BY <1>1, <2>6, SumInt
  <2>9. Sum(g, 0, CN) \in Int /\ Sum(g, 0, CN) <= EdgeCount
    BY <2>4 DEF g
  <2>10. EdgeCount \in Int
    BY FiniteInput DEF Graphs
  <2>11. Sum(f, 0, CN) <= EdgeCount
    BY <2>7, <2>8, <2>9, <2>10
  <2> QED
    BY <1>1, <1>3, <2>11 DEF f
<1>6. Graphs'
  BY <1>3, <1>4, <1>5 DEF Graphs
<1>7. Buffers'
  <2>1. z'.key = Fill(EdgeCount, Stale) /\ z'.val = Fill(EdgeCount, Stale)
    BY DEF NextPass
  <2> QED
    BY <1>3, <2>1 DEF Buffers, Fill
<1> QED
  BY <1>1, <1>6, <1>7 DEF AInv, LaidOut, FilledIn

LEMMA StepAggregates ==
  ASSUME PInv, AInv, [Next]_vars
  PROVE  AInv'
<1> SUFFICES ASSUME Live' PROVE AInv'
  BY DEF AInv
<1>1. CASE UNCHANGED vars
  <2>1. /\ Live /\ x' = x /\ p' = p /\ pc' = pc /\ ucom' = ucom /\ vcom' = vcom /\ y' = y /\ z' = z
        /\ cvoff' = cvoff /\ cvkey' = cvkey /\ zoff' = zoff /\ given' = given /\ todo' = todo
        /\ CN' = CN
    BY <1>1 DEF vars, moved, cv, scan, Live
  <2>2. isFirst' = isFirst /\ Span' = Span /\ com' = com
    BY <2>1 DEF isFirst, Span, com
  <2>3. Graphs' /\ EdgeCount' = EdgeCount /\ Rooms' = Rooms
        /\ (\A c : Room(c)' = Room(c)) /\ \A c : Seen(c)' = Seen(c)
    BY <2>1, <2>2, SameRows, SameRooms, SameSeen DEF AInv
  <2>4. \A c : CsrRow(aggregated, c)' = CsrRow(aggregated, c)
    BY <2>1 DEF CsrRow, aggregated
  <2>5. Buffers' /\ LaidOut' /\ FilledIn'
    BY <2>1, <2>3, <2>4 DEF AInv, Buffers, LaidOut, FilledIn
  <2> QED
    BY <2>3, <2>5 DEF AInv
<1>2. CASE Next
  <2>1. Live
    BY <1>2 DEF Live, Next, Move, Exists, Claim, Write, Aggregate, Existed, Rank, Renumber, Lookup,
       Count, Offsets, StartClaims, TotalDegrees, Regions, StartAggregation, NextPass, End, Group
  <2>2. LiveInv /\ Graphs /\ Buffers /\ LaidOut /\ FilledIn
    BY <2>1 DEF PInv, AInv
  <2>3. CASE \/ \E m \in 1..L : Move(m)
             \/ \E u \in Upto(S) : Exists(u) \/ Claim(u) \/ Write(u)
             \/ Existed \/ Rank \/ Renumber \/ Lookup \/ Count \/ Offsets \/ StartClaims
    BY <2>1, <2>3, BeforeRegionsKeep
  <2>4. CASE TotalDegrees \/ Regions \/ StartAggregation
    BY <2>2, <2>4, LayingOutKeeps
  <2>5. ASSUME NEW u \in Upto(S), Aggregate(u) PROVE AInv'
    BY <2>2, <2>5, AggregateFills
  <2>6. CASE NextPass
    BY <2>2, <2>6, NextPassAggregates
  <2>7. CASE End \/ \E sorted \in BOOLEAN : Group(sorted)
    BY <2>7 DEF End, Group, Live
  <2> QED
    BY <1>2, <2>3, <2>4, <2>5, <2>6, <2>7, SMTT(30) DEF Next
<1> QED
  BY <1>1, <1>2

THEOREM AggregationInvariant == Spec => [](PInv /\ AInv)
<1>1. Init => PInv /\ AInv
  BY InitOK, InitAggregation
<1>2. PInv /\ AInv /\ [Next]_vars => PInv' /\ AInv'
  <2> SUFFICES ASSUME PInv, AInv, [Next]_vars PROVE PInv' /\ AInv'
    OBVIOUS
  <2>1. Live' => LiveInv'
    BY StepKeeps
  <2>2. AInv'
    BY StepAggregates
  <2> QED
    BY <2>1, <2>2 DEF PInv
<1> QED
  BY <1>1, <1>2, PTL DEF Spec

(***************************************************************************)
(* Of csrAddEdgeU, which writes without a check: for every graph, number   *)
(* of threads and number of passes, the edges written for a community stay *)
(* within its region, and the regions within the buffers, which are as     *)
(* long as the input has edges and never made longer.                      *)
(***************************************************************************)
THEOREM AggregationFits == Spec => []RegionsFit
<1>1. PInv /\ AInv => RegionsFit
  <2> SUFFICES ASSUME PInv, AInv, pc = "aggregate"
               PROVE  /\ zoff[CN] <= EdgeCount
                      /\ \A c \in Upto(CN) : z.deg[c] <= zoff[c + 1] - zoff[c]
    BY DEF RegionsFit
  <2>1. LiveInv /\ Graphs /\ Buffers /\ LaidOut /\ FilledIn
    BY DEF PInv, AInv, Live
  <2>2. /\ zoff[CN] <= EdgeCount
        /\ \A c \in Upto(CN) : zoff[c] \in Nat /\ zoff[c + 1] = zoff[c] + Room(c)
    BY <2>1, OffsetsAddUp
  <2>3. ASSUME NEW c \in Upto(CN) PROVE z.deg[c] \in Nat /\ z.deg[c] <= Room(c)
    <3>1. Room(c) \in Nat /\ Len(Seen(c)) \in 0..Room(c) /\ z.deg[c] \in Nat
      BY <2>1, Aggregated DEF LiveInv, Fits
    <3>2. CASE c \in todo
      BY <2>1, <3>1, <3>2 DEF FilledIn
    <3>3. CASE c \notin todo
      <4> DEFINE e(i) == <<z.key[zoff[c] + i - 1], z.val[zoff[c] + i - 1]>>
      <4>1. Seen(c) = [i \in 1..z.deg[c] |-> e(i)]
        BY <2>1, <3>3 DEF FilledIn, CsrRow, aggregated
      <4> HIDE DEF e
      <4>2. Seen(c) = [i \in 1..z.deg[c] |-> Seen(c)[i]]
        BY <4>1
      <4>3. Len(Seen(c)) = z.deg[c]
        BY <3>1, <4>2, IsSequence
      <4> QED
        BY <3>1, <4>3
    <3> QED
      BY <3>2, <3>3
  <2>4. \A c \in Upto(CN) : z.deg[c] <= zoff[c + 1] - zoff[c]
    <3> SUFFICES ASSUME NEW c \in Upto(CN) PROVE z.deg[c] <= zoff[c + 1] - zoff[c]
      OBVIOUS
    <3>1. Room(c) \in Nat
      BY <2>1, Aggregated
    <3> QED
      BY <2>2, <2>3, <3>1
  <2> QED
    BY <2>2, <2>4
<1> QED
  BY <1>1, AggregationInvariant, PTL

-----------------------------------------------------------------------------
(***************************************************************************)
(* What a pass starts from, though NextPass resets the buffers as far as   *)
(* the communities only; and that the input's vertices stay within those   *)
(* of the pass, which is shorter than vcom.                                *)
(***************************************************************************)
Fresh ==
  pc = "move" => \A u \in Upto(Span) :
    /\ com[u] = u /\ vaff[u]
    /\ ctot[u] = RowWeight(Row(u))
    /\ ~isFirst => vtot[u] = ctot[u]

Inside ==
  ~isFirst /\ pc \in {"move", "exists", "rank", "lookup", "end"} =>
    \A u \in Upto(S) : ucom[u] \in Upto(Span)

LEMMA InitIsFresh == Init => Fresh /\ Inside
<1> SUFFICES ASSUME Init PROVE Fresh /\ Inside
  OBVIOUS
<1>1. /\ pc \in {"move", "end"} /\ p = 0 /\ ucom = [u \in Upto(S) |-> u]
      /\ vaff = [u \in Upto(S) |-> TRUE]
      /\ ctot = [u \in Upto(S) |-> RowWeight(InputRow(u))]
      /\ y.deg = Fill(S, 0)
  BY DEF Init, Fill
<1>2. Span = S
  <2>1. S \in Nat /\ 0 \in Int /\ S - 1 \in Int /\ (0 > S - 1 => S = 0)
    BY PassesAssumption
  <2>2. Cardinality(0..(S - 1)) = IF 0 > S - 1 THEN 0 ELSE S - 1 - 0 + 1
    BY <2>1, FS_Interval
  <2>3. Cardinality(Upto(S)) = S
    BY <2>1, <2>2 DEF Upto
  <2>4. DOMAIN y.deg = Upto(S)
    BY <1>1 DEF Fill
  <2> QED
    BY <2>3, <2>4 DEF Span
<1>3. pc = "move" => isFirst /\ com = ucom /\ \A u : Row(u) = InputRow(u)
  BY <1>1 DEF isFirst, com, Row
<1>4. Fresh
  BY <1>1, <1>2, <1>3 DEF Fresh
<1>5. Inside
  BY <1>1, <1>2 DEF Inside
<1> QED
  BY <1>4, <1>5

LEMMA NextPassIsFresh ==
  ASSUME LiveInv, CInv, FilledIn, NextPass
  PROVE  Fresh' /\ Inside'
<1>1. /\ ~isFirst' /\ Span' = CN /\ CN \in Nat /\ ucom' = ucom /\ vcom' = Alone
      /\ pc = "aggregate" /\ pc' = "move"
      /\ \A c \in Upto(CN) : Row(c)' = Seen(c) /\ CsrRow(aggregated, c) = Seen(c)
  BY NextRows
<1>2. /\ vtot' = NewWeights /\ vaff' = [u \in Upto(S) |-> u < CN \/ vaff[u]]
      /\ ctot' = [u \in Upto(S) |-> IF u < CN THEN NewWeights[u] ELSE ctot[u]]
  BY DEF NextPass
<1>3. \A u \in Upto(CN) : u \in Upto(S) /\ u < CN
  <2>1. CN \in 0..Span /\ Span \in 0..S /\ S \in Nat
    BY <1>1, Spans DEF LiveInv, Fits, Renumbered
  <2> QED
    BY <2>1 DEF Upto
<1>4. \A u \in Upto(CN) : NewWeights[u] = RowWeight(Seen(u))
  BY <1>1, <1>3 DEF NewWeights
<1>5. com' = vcom' /\ Upto(Span)' = Upto(CN)
  BY <1>1 DEF com, Upto
<1>6. \A u \in Upto(CN) : /\ vcom'[u] = u /\ vaff'[u] /\ vtot'[u] = NewWeights[u]
                          /\ ctot'[u] = NewWeights[u]
  BY <1>1, <1>2, <1>3 DEF Alone
<1>7. \A u \in Upto(CN) : RowWeight(Row(u))' = RowWeight(Seen(u))
  BY <1>1 DEF RowWeight
<1>8. Fresh'
  BY <1>1, <1>4, <1>5, <1>6, <1>7 DEF Fresh
<1>9. \A u \in Upto(S) : ucom[u] \in Upto(CN)
  BY <1>1 DEF CInv, Composite, Listing
<1>10. Inside'
  BY <1>1, <1>5, <1>9 DEF Inside
<1> QED
  BY <1>8, <1>10

LEMMA StepIsFresh ==
  ASSUME PInv, CInv, AInv, Fresh, Inside, [Next]_vars
  PROVE  Fresh' /\ Inside'
<1>1. CASE UNCHANGED vars
  <2>1. /\ x' = x /\ p' = p /\ pc' = pc /\ ucom' = ucom /\ vcom' = vcom /\ y' = y
        /\ vtot' = vtot /\ ctot' = ctot /\ vaff' = vaff
    BY <1>1 DEF vars, moved
  <2>2. isFirst' = isFirst /\ Span' = Span /\ com' = com
    BY <2>1 DEF isFirst, Span, com
  <2>3. \A u : Row(u)' = Row(u)
    BY <2>1, <2>2, SameRows
  <2>4. \A u : RowWeight(Row(u))' = RowWeight(Row(u))
    BY <2>3 DEF RowWeight
  <2> QED
    BY <2>1, <2>2, <2>4 DEF Fresh, Inside
<1>2. ASSUME NEW m \in 1..L, Move(m) PROVE Fresh' /\ Inside'
  <2>1. pc = "move" /\ pc' \in {"exists", "end"} /\ p' = p + 1 /\ y' = y /\ p \in Nat
    BY <1>2 DEF Move, CInv
  <2>2. isFirst' = isFirst /\ Span' = Span
    BY <2>1 DEF isFirst, Span
  <2>3. ~isFirst => ucom' = ucom
    BY <1>2 DEF Move
  <2> QED
    BY <2>1, <2>2, <2>3 DEF Fresh, Inside
<1>3. CASE (\E u \in Upto(S) : Exists(u)) \/ Existed \/ Rank \/ Renumber
  <2>1. /\ pc \in {"exists", "rank"} /\ pc' # "move" /\ p' = p /\ y' = y
        /\ ~isFirst => ucom' = ucom
    BY <1>3 DEF Exists, Existed, Rank, Renumber, moved
  <2>2. isFirst' = isFirst /\ Span' = Span
    BY <2>1, SamePass
  <2> QED
    BY <2>1, <2>2 DEF Fresh, Inside
<1>4. CASE NextPass
  <2>1. LiveInv /\ FilledIn
    BY <1>4 DEF PInv, AInv, Live, NextPass
  <2> QED
    BY <1>4, <2>1, NextPassIsFresh
<1>5. CASE \/ \E u \in Upto(S) : Claim(u) \/ Write(u) \/ Aggregate(u)
           \/ Lookup \/ Count \/ Offsets \/ StartClaims \/ TotalDegrees \/ Regions
           \/ StartAggregation \/ End \/ \E sorted \in BOOLEAN : Group(sorted)
  <2>1. pc' \notin {"move", "exists", "rank", "lookup", "end"}
    BY <1>5 DEF Claim, Write, Aggregate, Lookup, Count, Offsets, StartClaims, TotalDegrees, Regions,
       StartAggregation, End, Group
  <2> QED
    BY <2>1 DEF Fresh, Inside
<1> QED
  BY <1>1, <1>2, <1>3, <1>4, <1>5 DEF Next

(***************************************************************************)
(* For every graph, number of threads and number of passes: the loop of    *)
(* louvainInvokeOmp starts each pass as LouvainMove does, though its       *)
(* buffers keep their first length and are reset as far as the number of   *)
(* communities only, and no look-up that the result rests on leaves the    *)
(* span of the pass.                                                       *)
(***************************************************************************)
THEOREM PassesStartAnew == Spec => []NothingStale
<1> DEFINE Inv == PInv /\ CInv /\ AInv /\ Fresh /\ Inside
<1>1. Init => Inv
  BY InitOK, InitCoarsens, InitAggregation, InitIsFresh
<1>2. Inv /\ [Next]_vars => Inv'
  <2> SUFFICES ASSUME PInv, CInv, AInv, Fresh, Inside, [Next]_vars PROVE Inv'
    OBVIOUS
  <2>1. PInv'
    <3>1. Live' => LiveInv'
      BY StepKeeps
    <3> QED
      BY <3>1 DEF PInv
  <2>2. CInv' /\ AInv' /\ Fresh' /\ Inside'
    BY StepCoarsens, StepAggregates, StepIsFresh
  <2> QED
    BY <2>1, <2>2
<1>3. Inv => NothingStale
  <2> SUFFICES ASSUME Inv PROVE NothingStale
    OBVIOUS
  <2>1. pc = "move" => \A u \in Upto(Span) : Row(u) \in Seq(Upto(Span) \X Nat)
    BY DEF AInv, Live, Graphs, ProperRows, Cells
  <2>2. pc = "rank" => \A u \in Upto(Span) : com[u] \in DOMAIN cvdeg
    BY DEF PInv, Live, LiveInv, Fits, Labels
  <2> QED
    BY <2>1, <2>2 DEF NothingStale, Fresh, Inside
<1> QED
  BY <1>1, <1>2, <1>3, PTL DEF Spec

-----------------------------------------------------------------------------
(***************************************************************************)
(* The quotient.  The input's vertices are those of the pass by way of b;  *)
(* the weight from any set A of vertices of the pass to any set B is that  *)
(* of the input from the vertices that b sends into A to those into B.     *)
(* Sets instead of single vertices, as communities of communities are.     *)
(***************************************************************************)
Weight(i, j) == IF <<i, j>> \in DOMAIN x THEN x[<<i, j>>] ELSE 0
LinkCells(b, A, B) ==
  [i \in 0..(S - 1) |-> [j \in 0..(S - 1) |-> IF b[i] \in A /\ b[j] \in B THEN Weight(i, j) ELSE 0]]
Links(b, A, B) == Sum(RowSums(LinkCells(b, A, B), S, S), 0, S)

FromTo(A, B) == [u \in Upto(Span) |-> IF u \in A THEN SeqSum(Into(Span, B), Row(u)) ELSE 0]
Quotient(b) == \A A, B : Sum(FromTo(A, B), 0, Span) = Links(b, A, B)

(* The first graph is the input itself.                                    *)
LEMMA InputRowLinks ==
  ASSUME InputIsGraph, NEW u \in Upto(S), NEW B
  PROVE  SeqSum(Into(S, B), InputRow(u))
           = Sum([j \in 0..(S - 1) |-> IF j \in B THEN Weight(u, j) ELSE 0], 0, S)
<1> DEFINE n == Cardinality(Targets(u))
           f == [j \in 0..(S - 1) |-> IF j \in B THEN Weight(u, j) ELSE 0]
<1>1. PICK vs :
        /\ IsFiniteSet(Targets(u)) /\ Enumerates(vs, Targets(u))
        /\ InputRow(u) = [i \in 1..n |-> <<vs[i], x[<<u, vs[i]>>]>>]
        /\ Len(InputRow(u)) = n
  BY InputRowIs
<1> DEFINE e == [i \in 0..(n - 1) |-> vs[i + 1]]
           w(i) == x[<<u, vs[i]>>]
           r == [i \in 0..(n - 1) |-> Into(S, B)[InputRow(u)[i + 1]]]
           fe == [i \in 0..(n - 1) |-> f[e[i]]]
           ft == [j \in 0..(S - 1) |-> IF j \in Targets(u) THEN f[j] ELSE 0]
<1>2. n \in Nat /\ S \in Nat /\ Targets(u) \subseteq 0..(S - 1)
  BY <1>1, PassesAssumption, FS_CardinalityType DEF Targets, Upto
<1>3. \A i \in 1..n : vs[i] \in Targets(u) /\ w(i) \in Nat /\ w(i) = Weight(u, vs[i])
  <2>1. \A i \in 1..n : vs[i] \in Targets(u)
    BY <1>1 DEF Enumerates
  <2> QED
    BY <2>1 DEF Targets, InputIsGraph, Weight
<1>4. \A j \in 0..(S - 1) : f[j] \in Int /\ f[j] = IF j \in B THEN Weight(u, j) ELSE 0
  <2>1. \A j \in 0..(S - 1) : Weight(u, j) \in Int
    BY DEF Weight, InputIsGraph
  <2> QED
    BY <2>1
<1>5. Lists(e, n, S, Targets(u))
  <2> HIDE DEF n
  <2>1. \A i \in 0..(n - 1) : i + 1 \in 1..n /\ e[i] = vs[i + 1]
    BY <1>2
  <2>2. \A i \in 1..n : i - 1 \in 0..(n - 1) /\ (i - 1) + 1 = i /\ e[i - 1] = vs[i]
    BY <1>2
  <2> HIDE DEF e
  <2>3. \A i, j \in 0..(n - 1) : e[i] = e[j] => i = j
    <3> SUFFICES ASSUME NEW i \in 0..(n - 1), NEW j \in 0..(n - 1), i # j PROVE e[i] # e[j]
      OBVIOUS
    <3>1. i + 1 \in 1..n /\ j + 1 \in 1..n /\ (i + 1 < j + 1 \/ j + 1 < i + 1)
      BY <1>2
    <3>2. vs[i + 1] \in Int /\ vs[j + 1] \in Int
      <4>1. vs[i + 1] \in Targets(u) /\ vs[j + 1] \in Targets(u)
        BY <1>3, <3>1
      <4> QED
        BY <1>2, <4>1
    <3> QED
      BY <1>1, <2>1, <3>1, <3>2 DEF Enumerates, n
  <2>4. \A v \in Targets(u) : \E i \in 0..(n - 1) : e[i] = v
    <3> SUFFICES ASSUME NEW v \in Targets(u) PROVE \E i \in 0..(n - 1) : e[i] = v
      OBVIOUS
    <3>1. PICK i \in 1..n : vs[i] = v
      BY <1>1 DEF Enumerates, n
    <3> QED
      BY <2>2, <3>1
  <2> QED
    BY <1>2, <1>3, <2>1, <2>3, <2>4 DEF Lists
<1>6. SeqSum(Into(S, B), InputRow(u)) = Sum(r, 0, n)
  BY <1>1 DEF SeqSum
<1>7. \A i \in 0..(n - 1) : r[i] = fe[i]
  <2> SUFFICES ASSUME NEW i \in 0..(n - 1) PROVE r[i] = fe[i]
    OBVIOUS
  <2>1. i + 1 \in 1..n /\ e[i] = vs[i + 1] /\ vs[i + 1] \in 0..(S - 1) /\ w(i + 1) \in Nat
        /\ w(i + 1) = Weight(u, vs[i + 1])
    BY <1>2, <1>3
  <2>2. InputRow(u)[i + 1] = <<vs[i + 1], w(i + 1)>>
    <3>1. InputRow(u) = [k \in 1..n |-> <<vs[k], w(k)>>]
      BY <1>1
    <3> HIDE DEF n, w
    <3> QED
      BY <2>1, <3>1
  <2>3. Into(S, B)[<<vs[i + 1], w(i + 1)>>] = IF vs[i + 1] \in B THEN w(i + 1) ELSE 0
    <3> HIDE DEF w
    <3> QED
      BY <2>1 DEF Into, Upto
  <2>4. r[i] = IF vs[i + 1] \in B THEN w(i + 1) ELSE 0
    BY <2>2, <2>3
  <2>5. fe[i] = IF vs[i + 1] \in B THEN Weight(u, vs[i + 1]) ELSE 0
    <3>1. fe[i] = f[vs[i + 1]]
      BY <2>1
    <3> HIDE DEF f, fe
    <3> QED
      BY <1>4, <2>1, <3>1
  <2> QED
    BY <2>1, <2>4, <2>5
<1>8. \A j \in 0..(S - 1) : ft[j] = f[j]
  BY <1>2 DEF Weight, Targets, Upto
<1>9. Sum(fe, 0, n) = Sum(ft, 0, S)
  <2> HIDE DEF f, e, n
  <2>1. n \in Nat /\ S \in Nat /\ \A j \in 0..(S - 1) : f[j] \in Int
    BY <1>2, <1>4
  <2> QED
    BY ONLY <1>5, <2>1, SumReordered
<1> HIDE DEF r, fe, ft, n, f
<1>10. Sum(r, 0, n) = Sum(fe, 0, n) /\ Sum(ft, 0, S) = Sum(f, 0, S)
  <2>1. 0 \in Nat /\ n \in Nat
    BY <1>2
  <2>2. Sum(r, 0, n) = Sum(fe, 0, n)
    BY ONLY <1>7, <2>1, SumEqual, ZenonT(60)
  <2>3. 0 \in Nat /\ S \in Nat
    BY <1>2
  <2>4. Sum(ft, 0, S) = Sum(f, 0, S)
    BY ONLY <1>8, <2>3, SumEqual, ZenonT(60)
  <2> QED
    BY <2>2, <2>4
<1> QED
  BY <1>6, <1>9, <1>10 DEF f

LEMMA InputIsQuotient ==
  ASSUME InputIsGraph, Span = S, NEW b, \A u \in Upto(S) : b[u] = u /\ Row(u) = InputRow(u)
  PROVE  Quotient(b)
<1> SUFFICES ASSUME NEW A, NEW B PROVE Sum(FromTo(A, B), 0, S) = Links(b, A, B)
  BY DEF Quotient
<1> DEFINE f == FromTo(A, B)
           g == RowSums(LinkCells(b, A, B), S, S)
<1>1. S \in Nat /\ 0 \in Nat /\ \A u \in Upto(S) : u \in 0..(S - 1)
  BY PassesAssumption DEF Upto
<1>2. ASSUME NEW u \in 0..(S - 1) PROVE f[u] = g[u]
  <2> DEFINE h == [j \in 0..(S - 1) |-> IF u \in A /\ j \in B THEN Weight(u, j) ELSE 0]
             r == [j \in 0..(S - 1) |-> IF j \in B THEN Weight(u, j) ELSE 0]
  <2>1. u \in Upto(S) /\ b[u] = u /\ Row(u) = InputRow(u) /\ \A j \in 0..(S - 1) : b[j] = j
    BY DEF Upto
  <2>2. g[u] = Sum(h, 0, S)
    <3>1. LinkCells(b, A, B)[u] = h
      BY <2>1 DEF LinkCells
    <3> QED
      BY <3>1 DEF RowSums
  <2>3. f[u] = IF u \in A THEN Sum(r, 0, S) ELSE 0
    BY <2>1, InputRowLinks DEF FromTo
  <2>4. CASE u \in A
    <3>1. h = r
      BY <2>4
    <3> QED
      BY <2>2, <2>3, <2>4, <3>1
  <2>5. CASE u \notin A
    <3>1. \A j \in 0..(S - 1) : h[j] = 0
      BY <2>5
    <3> HIDE DEF h
    <3>2. Sum(h, 0, S) = 0
      BY <1>1, <3>1, SumZero
    <3> QED
      BY <2>2, <2>3, <2>5, <3>2
  <2> QED
    BY <2>4, <2>5
<1>3. \A u \in 0..(S - 1) : f[u] = g[u]
  BY <1>2
<1> HIDE DEF f, g
<1>4. Sum(f, 0, S) = Sum(g, 0, S)
  BY ONLY <1>1, <1>3, SumEqual, ZenonT(60)
<1> QED
  BY <1>4 DEF Links, f, g

(***************************************************************************)
(* The graph of the next pass is the quotient of the one of this pass by   *)
(* its communities, and so of the input by theirs.                         *)
(***************************************************************************)
LEMMA NextIsQuotient ==
  ASSUME LiveInv, Graphs, FilledIn, NextPass, NEW b,
         \A i \in Upto(S) : b[i] \in Upto(Span) /\ ucom[i] = com[b[i]], Quotient(b)
  PROVE  Quotient(ucom)'
<1>1. /\ Span' = CN /\ CN \in Nat /\ x' = x /\ ucom' = ucom /\ pc = "aggregate"
      /\ \A c \in Upto(CN) : Row(c)' = Seen(c)
  BY NextRows
<1>2. Fits /\ Labels /\ Places /\ Listings /\ ProperRows /\ Span \in Nat
  BY Spans DEF LiveInv, Graphs
<1> SUFFICES ASSUME NEW A, NEW B
             PROVE  Sum(FromTo(A, B)', 0, CN) = Links(ucom, A, B)'
  BY <1>1 DEF Quotient
<1> DEFINE g == Into(Span, Before(B))
           f == FromTo(Before(A), Before(B))
           t == [c \in 0..(CN - 1) |-> IF c \in A THEN Sum(RowSum(g, c), 0, Span) ELSE 0]
           s == ClassSums(f, com, CN, Span)
\* The rows of the next graph, by the rows of this one.
<1>3. \A e \in Cells : g[e] \in Int
  BY DEF Into, Cells
<1>4. ASSUME NEW c \in 0..(CN - 1) PROVE FromTo(A, B)'[c] = t[c]
  <2>1. c \in Upto(CN) /\ Upto(Span)' = Upto(CN) /\ Row(c)' = Seen(c)
    BY <1>1 DEF Upto
  <2>2. FromTo(A, B)'[c] = IF c \in A THEN SeqSum(Into(CN, B), Seen(c)) ELSE 0
    <3>1. FromTo(A, B)' = [u \in Upto(CN) |-> IF u \in A THEN SeqSum(Into(CN, B), Row(u)') ELSE 0]
      BY <1>1, <2>1 DEF FromTo, SeqSum, Into, Upto
    <3> QED
      BY <2>1, <3>1
  <2>3. SeqSum(Into(CN, B), Seen(c)) = SeqSum(g, Edges(c))
    BY <1>1, <2>1, Aggregated
  <2>4. SeqSum(g, Edges(c)) = Sum(RowSum(g, c), 0, Span)
    BY <1>1, <1>2, <1>3, <2>1, EdgesAddUp
  <2> QED
    BY <2>2, <2>3, <2>4
<1>5. \A u \in 0..(Span - 1) : f[u] = IF u \in Before(A) THEN SeqSum(g, Row(u)) ELSE 0
  BY DEF FromTo, Upto
<1>6. \A u \in 0..(Span - 1) : f[u] \in Int /\ com[u] \in 0..(CN - 1)
  <2>1. \A u \in Upto(Span) : SeqSum(g, Row(u)) \in Int
    BY <1>2, <1>3, SeqSumInt DEF ProperRows
  <2>2. \A u \in 0..(Span - 1) : u \in Upto(Span)
    BY DEF Upto
  <2>3. \A u \in Upto(Span) : com[u] \in Upto(CN)
    BY <1>1, <1>2 DEF Labels, Renumbered
  <2> HIDE DEF f, g
  <2> QED
    BY <1>5, <2>1, <2>2, <2>3 DEF Upto
<1> HIDE DEF f
<1>7. ASSUME NEW c \in 0..(CN - 1) PROVE s[c] = t[c]
  <2> DEFINE h == InClass(f, com, c, Span)
             r == RowSum(g, c)
  <2>1. s[c] = Sum(h, 0, Span)
    BY DEF ClassSums
  <2>2. \A u \in 0..(Span - 1) : h[u] = IF com[u] = c THEN f[u] ELSE 0
    BY DEF InClass
  <2>3. \A u \in 0..(Span - 1) : r[u] = IF com[u] = c THEN SeqSum(g, Row(u)) ELSE 0
    BY DEF RowSum, Upto
  <2>4. \A u \in 0..(Span - 1) : com[u] = c => (u \in Before(A) <=> c \in A)
    BY DEF Before, Upto
  <2>5. 0 \in Nat /\ Span \in Nat
    BY <1>2
  <2> HIDE DEF g, h, r
  <2>6. CASE c \in A
    <3>1. \A u \in 0..(Span - 1) : h[u] = r[u]
      BY <1>5, <2>2, <2>3, <2>4, <2>6
    <3>2. Sum(h, 0, Span) = Sum(r, 0, Span)
      BY ONLY <2>5, <3>1, SumEqual
    <3> QED
      BY <2>1, <2>6, <3>2 DEF r
  <2>7. CASE c \notin A
    <3>1. \A u \in 0..(Span - 1) : h[u] = 0
      BY <1>5, <2>2, <2>4, <2>7
    <3>2. Sum(h, 0, Span) = 0
      BY ONLY <2>5, <3>1, SumZero
    <3> QED
      BY <2>1, <2>7, <3>2
  <2> QED
    BY <2>6, <2>7
<1>8. Sum(s, 0, CN) = Sum(f, 0, Span)
  BY <1>1, <1>2, <1>6, SumByClass
<1>9. Sum(FromTo(A, B)', 0, CN) = Sum(s, 0, CN)
  <2> DEFINE a == FromTo(A, B)'
  <2>1. 0 \in Nat /\ CN \in Nat /\ \A c \in 0..(CN - 1) : a[c] = s[c]
    BY <1>1, <1>4, <1>7
  <2> HIDE DEF a, s
  <2>2. Sum(a, 0, CN) = Sum(s, 0, CN)
    BY ONLY <2>1, SumEqual
  <2> QED
    BY <2>2 DEF a
\* The weights of the input are the same ones.
<1>10. LinkCells(b, Before(A), Before(B)) = LinkCells(ucom, A, B)'
  <2>1. \A i \in 0..(S - 1) : b[i] \in Upto(Span) /\ ucom[i] = com[b[i]]
    BY DEF Upto
  <2>2. \A i \in 0..(S - 1) : /\ b[i] \in Before(A) <=> ucom'[i] \in A
                              /\ b[i] \in Before(B) <=> ucom'[i] \in B
    BY <1>1, <2>1 DEF Before
  <2>3. \A i, j : Weight(i, j)' = Weight(i, j)
    BY <1>1 DEF Weight
  <2> QED
    BY <1>1, <2>2, <2>3 DEF LinkCells
<1>11. Links(b, Before(A), Before(B)) = Links(ucom, A, B)'
  BY <1>10 DEF Links, RowSums
<1>12. Sum(f, 0, Span) = Links(b, Before(A), Before(B))
  BY DEF Quotient, f
<1> QED
  BY <1>8, <1>9, <1>11, <1>12

(***************************************************************************)
(* There is such a b: the vertices themselves at first, and then the       *)
(* communities of the input's vertices as the last pass has left them.     *)
(***************************************************************************)
Based(b) ==
  /\ \A u \in Upto(S) : b[u] \in Upto(Span)
  /\ isFirst => \A u \in Upto(S) : b[u] = u
  /\ pc \in Composite => \A u \in Upto(S) : ucom[u] = com[b[u]]
  /\ ~isFirst /\ pc \notin Composite => \A u \in Upto(S) : ucom[u] = b[u]
  /\ Quotient(b)

QInv == Live => \E b : Based(b)

LEMMA SameQuotient ==
  ASSUME x' = x, y' = y, isFirst' = isFirst, Span' = Span, NEW b
  PROVE  Quotient(b)' = Quotient(b)
<1>1. \A u : Row(u)' = Row(u)
  BY SameRows
<1>2. \A A, B : FromTo(A, B)' = FromTo(A, B)
  <2> SUFFICES ASSUME NEW A, NEW B PROVE FromTo(A, B)' = FromTo(A, B)
    OBVIOUS
  <2>1. FromTo(A, B)' = [u \in Upto(Span) |-> IF u \in A THEN SeqSum(Into(Span, B), Row(u)') ELSE 0]
    BY DEF FromTo, SeqSum, Into, Upto
  <2> QED
    BY <1>1, <2>1 DEF FromTo
<1>3. \A i, j : Weight(i, j)' = Weight(i, j)
  BY DEF Weight
<1>4. \A A, B : LinkCells(b, A, B)' = LinkCells(b, A, B)
  BY <1>3 DEF LinkCells
<1>5. \A A, B : Links(b, A, B)' = Links(b, A, B)
  BY <1>4 DEF Links, RowSums
<1> QED
  BY <1>2, <1>5 DEF Quotient

LEMMA InitIsQuotient == Init => QInv
<1> SUFFICES ASSUME Init, Live PROVE \E b : Based(b)
  BY DEF QInv
<1> DEFINE b == [u \in Upto(S) |-> u]
<1>1. /\ pc = "move" /\ p = 0 /\ y.deg = Fill(S, 0)
  BY DEF Init, Live
<1>2. isFirst /\ Span = S /\ \A u \in Upto(S) : b[u] = u /\ Row(u) = InputRow(u)
  BY <1>1 DEF isFirst, Span, Row
<1>3. InputIsGraph
  BY InitAggregation DEF AInv, Graphs
<1>4. Quotient(b)
  BY <1>2, <1>3, InputIsQuotient
<1>5. Based(b)
  <2> HIDE DEF b
  <2> QED
    BY <1>1, <1>2, <1>4 DEF Based, Composite, Listing
<1> QED
  BY <1>5

LEMMA StepIsQuotient ==
  ASSUME PInv, CInv, AInv, QInv, [Next]_vars
  PROVE  QInv'
<1> SUFFICES ASSUME Live' PROVE (\E b : Based(b))'
  BY DEF QInv
<1>1. CASE UNCHANGED vars
  <2>1. /\ x' = x /\ p' = p /\ pc' = pc /\ ucom' = ucom /\ vcom' = vcom /\ y' = y
    BY <1>1 DEF vars, moved
  <2>2. isFirst' = isFirst /\ Span' = Span /\ com' = com /\ Live
    BY <2>1 DEF isFirst, Span, com, Live
  <2>3. PICK b : Based(b)
    BY <2>2 DEF QInv
  <2>4. Based(b)'
    BY <2>1, <2>2, <2>3, SameQuotient DEF Based
  <2> QED
    BY <2>4
<1>2. CASE Next
  <2>1. Live /\ LiveInv /\ Graphs /\ FilledIn
    <3>1. Live
      BY <1>2 DEF Live, Next, Move, Exists, Claim, Write, Aggregate, Existed, Rank, Renumber, Lookup,
         Count, Offsets, StartClaims, TotalDegrees, Regions, StartAggregation, NextPass, End, Group
    <3> QED
      BY <3>1, SMTT(30) DEF PInv, AInv
  <2>2. PICK b : Based(b)
    BY <2>1 DEF QInv
  <2>3. ASSUME NEW m \in 1..L, Move(m) PROVE Based(b)'
    <3>1. /\ pc = "move" /\ pc' \in {"exists", "end"} /\ p' = p + 1 /\ y' = y /\ x' = x
          /\ p \in Nat /\ (~isFirst => ucom' = ucom)
      BY <2>3 DEF Move, CInv
    <3>2. isFirst' = isFirst /\ Span' = Span
      BY <3>1 DEF isFirst, Span
    <3>3. Quotient(b)'
      BY <2>2, <3>1, <3>2, SameQuotient DEF Based
    <3> QED
      BY <2>2, <3>1, <3>2, <3>3 DEF Based, Composite, Listing
  <2>4. CASE \/ \E u \in Upto(S) : Exists(u) \/ Claim(u) \/ Write(u) \/ Aggregate(u)
             \/ Existed \/ Rank \/ Count \/ Offsets \/ StartClaims \/ TotalDegrees \/ Regions
             \/ StartAggregation
    <3>1. /\ x' = x /\ p' = p /\ ucom' = ucom /\ vcom' = vcom /\ y' = y
          /\ pc # "move" /\ pc' # "move" /\ (pc \in Composite <=> pc' \in Composite)
      BY <2>4 DEF Exists, Existed, Rank, Claim, Write, Aggregate, Count, Offsets, StartClaims,
         TotalDegrees, Regions, StartAggregation, moved, Composite, Listing
    <3>2. isFirst' = isFirst /\ Span' = Span /\ com' = com
      BY <3>1, SamePass DEF com
    <3>3. Quotient(b)'
      BY <2>2, <3>1, <3>2, SameQuotient DEF Based
    <3> QED
      BY <2>2, <3>1, <3>2, <3>3 DEF Based
  <2>5. CASE Renumber
    <3>1. /\ x' = x /\ p' = p /\ y' = y /\ pc = "rank" /\ pc' = IF isFirst THEN "count" ELSE "lookup"
          /\ (~isFirst => ucom' = ucom)
      BY <2>5 DEF Renumber
    <3>2. isFirst' = isFirst /\ Span' = Span
      BY <3>1, SamePass
    <3>3. Quotient(b)'
      BY <2>2, <3>1, <3>2, SameQuotient DEF Based
    <3>4. isFirst => \A u \in Upto(S) : b[u] = u /\ com' = ucom'
      BY <2>2, <3>2 DEF Based, com
    <3> QED
      BY <2>2, <3>1, <3>2, <3>3, <3>4 DEF Based, Composite, Listing
  <2>6. CASE Lookup
    <3>1. /\ x' = x /\ p' = p /\ y' = y /\ pc = "lookup" /\ pc' = "count" /\ vcom' = vcom
          /\ ucom' = [u \in DOMAIN ucom |-> IF ucom[u] \in DOMAIN vcom THEN vcom[ucom[u]] ELSE Stale]
      BY <2>6 DEF Lookup, LookedUp
    <3>2. isFirst' = isFirst /\ Span' = Span
      BY <3>1, SamePass
    <3>3. Quotient(b)'
      BY <2>2, <3>1, <3>2, SameQuotient DEF Based
    <3>4. ~isFirst /\ com' = vcom
      BY <2>1, <3>1, <3>2 DEF LiveInv, Fits, com
    <3>5. DOMAIN ucom = Upto(S) /\ DOMAIN vcom = Upto(S) /\ \A u \in Upto(Span) : u \in Upto(S)
      BY <2>1, <3>1, Spans DEF CInv, LiveInv, Upto
    <3>6. ASSUME NEW u \in Upto(S) PROVE ucom'[u] = com'[b[u]]
      <4>1. ucom[u] = b[u] /\ b[u] \in Upto(Span)
        BY <2>2, <3>1, <3>4 DEF Based, Composite, Listing
      <4> QED
        BY <3>1, <3>4, <3>5, <4>1
    <3> QED
      BY <2>2, <3>1, <3>2, <3>3, <3>4, <3>6 DEF Based, Composite, Listing
  <2>7. CASE NextPass
    <3>1. /\ ~isFirst' /\ Span' = CN /\ ucom' = ucom /\ pc = "aggregate" /\ pc' = "move"
      BY <2>1, <2>7, NextRows
    <3>2. \A u \in Upto(S) : b[u] \in Upto(Span) /\ ucom[u] = com[b[u]]
      BY <2>2, <3>1 DEF Based, Composite, Listing
    <3>3. Quotient(ucom)'
      BY <2>1, <2>2, <2>7, <3>2, NextIsQuotient DEF Based
    <3>4. \A u \in Upto(S) : ucom[u] \in Upto(CN)
      BY <3>1 DEF CInv, Composite, Listing
    <3>5. Upto(Span)' = Upto(CN)
      BY <3>1 DEF Upto
    <3>6. Based(ucom)'
      BY <3>1, <3>3, <3>4, <3>5 DEF Based, Composite, Listing
    <3> QED
      BY <3>6
  <2>8. CASE End \/ \E sorted \in BOOLEAN : Group(sorted)
    BY <2>8 DEF End, Group, Live
  <2> QED
    BY <1>2, <2>3, <2>4, <2>5, <2>6, <2>7, <2>8 DEF Next
<1> QED
  BY <1>1, <1>2

(* The weights between two communities, as QuotientOfInput adds them up.   *)
Among(f, c, d) == { e \in DOMAIN x : f[e[1]] = c /\ f[e[2]] = d }

LEMMA SetToSeqLists ==
  ASSUME NEW U, IsFiniteSet(U)
  PROVE  LET s == SetToSeq(U)
         IN  /\ Len(s) \in Nat /\ s \in [1..Len(s) -> U]
             /\ \A i, j \in 1..Len(s) : s[i] = s[j] => i = j
             /\ \A e \in U : \E i \in 1..Len(s) : s[i] = e
<1> DEFINE n == Cardinality(U)
           s == SetToSeq(U)
<1>1. n \in Nat /\ Bijection(1..n, U) # {}
  BY FS_CardinalityType DEF ExistsBijection
<1>2. PICK g : g \in [1..n -> U] /\ IsInjective(g)
  BY <1>1 DEF Bijection, Injection
<1>3. s \in [1..n -> U] /\ IsInjective(s)
  BY <1>2 DEF SetToSeq
<1>4. Len(s) = n /\ s \in Injection(1..n, U)
  <2> HIDE DEF s
  <2> QED
    BY <1>1, <1>3 DEF Injection
<1>5. Cardinality(1..n) = n
  BY <1>1, FS_Interval
<1>6. s \in Surjection(1..n, U)
  <2> HIDE DEF s
  <2>1. IsFiniteSet(1..n) /\ Cardinality(1..n) = Cardinality(U)
    BY <1>1, <1>5, FS_Interval
  <2> QED
    BY <1>4, <2>1, FS_Injection
<1>7. DOMAIN s = 1..n /\ \A e \in U : \E i \in 1..n : s[i] = e
  <2> HIDE DEF s, n
  <2> QED
    BY <1>3, <1>6 DEF Surjection
<1>8. \A i, j \in 1..n : s[i] = s[j] => i = j
  BY <1>3, <1>7 DEF IsInjective
<1> HIDE DEF s, n
<1>9. /\ Len(s) \in Nat /\ s \in [1..Len(s) -> U]
      /\ \A i, j \in 1..Len(s) : s[i] = s[j] => i = j
      /\ \A e \in U : \E i \in 1..Len(s) : s[i] = e
  BY <1>1, <1>3, <1>4, <1>7, <1>8
<1> QED
  BY <1>9 DEF s

LEMMA BetweenIs ==
  ASSUME InputIsGraph, NEW f, NEW c, NEW d
  PROVE  Between(f, c, d) = Links(f, {c}, {d})
<1> DEFINE U == Among(f, c, d)
           es == SetToSeq(U)
           k == Len(es)
           w == [i \in 0..(k - 1) |-> x[es[i + 1]]]
           k1 == [i \in 0..(k - 1) |-> es[i + 1][1]]
           k2 == [i \in 0..(k - 1) |-> es[i + 1][2]]
           h == LinkCells(f, {c}, {d})
           r == RowSums(h, S, S)
           q == ClassSums(w, k1, S, k)
<1>1. Between(f, c, d) = Sum(w, 0, k)
  <2>1. Between(f, c, d) = SumOf([i \in Upto(k) |-> x[es[i + 1]]], k)
    BY DEF Between, Among
  <2> QED
    BY <2>1, SameSums DEF Upto
<1>2. S \in Nat /\ 0 \in Nat
  BY PassesAssumption
<1>3. /\ k \in Nat /\ es \in [1..k -> U]
      /\ \A i, j \in 1..k : es[i] = es[j] => i = j
      /\ \A e \in U : \E i \in 1..k : es[i] = e
  <2>1. IsFiniteSet(U)
    BY FiniteInput, FS_Subset DEF Among
  <2> HIDE DEF U
  <2> QED
    BY <2>1, SetToSeqLists
<1> HIDE DEF es, k
<1>4. \A i \in 0..(k - 1) :
        /\ es[i + 1] \in U /\ es[i + 1] = <<k1[i], k2[i]>> /\ w[i] = x[<<k1[i], k2[i]>>]
        /\ k1[i] \in 0..(S - 1) /\ k2[i] \in 0..(S - 1) /\ w[i] \in Int
  <2> SUFFICES ASSUME NEW i \in 0..(k - 1)
               PROVE  /\ es[i + 1] \in U /\ es[i + 1] = <<k1[i], k2[i]>> /\ w[i] = x[<<k1[i], k2[i]>>]
                      /\ k1[i] \in 0..(S - 1) /\ k2[i] \in 0..(S - 1) /\ w[i] \in Int
    OBVIOUS
  <2>1. i + 1 \in 1..k /\ es[i + 1] \in U
    BY <1>3
  <2>2. es[i + 1] \in Upto(S) \X Upto(S) /\ x[es[i + 1]] \in Nat
    BY <2>1 DEF InputIsGraph, Among
  <2> QED
    BY <2>1, <2>2 DEF Upto
<1>5. \A i \in 0..(k - 1) : k1[i] \in 0..(S - 1) /\ k2[i] \in 0..(S - 1) /\ w[i] \in Int
  BY <1>4
<1>6. \A i \in 0..(k - 1) : es[i + 1] \in U /\ es[i + 1] = <<k1[i], k2[i]>> /\ w[i] = x[<<k1[i], k2[i]>>]
  BY <1>4
<1>7. ASSUME NEW i \in 0..(S - 1), NEW j \in 0..(S - 1)
      PROVE  Sum(InClass(InClass(w, k1, i, k), k2, j, k), 0, k) = h[i][j]
  <2> DEFINE t == InClass(InClass(w, k1, i, k), k2, j, k)
  <2>1. \A n \in 0..(k - 1) : t[n] = IF k1[n] = i /\ k2[n] = j THEN w[n] ELSE 0
    BY DEF InClass
  <2>2. h[i][j] = IF f[i] = c /\ f[j] = d THEN Weight(i, j) ELSE 0
    BY DEF LinkCells
  <2> HIDE DEF w, k1, k2, h, t
  <2>3. CASE <<i, j>> \in U
    <3>1. h[i][j] = x[<<i, j>>]
      BY <2>2, <2>3 DEF Among, Weight
    <3>2. PICK m \in 1..k : es[m] = <<i, j>>
      BY <1>3, <2>3
    <3> DEFINE n == m - 1
    <3>3. n \in 0..(k - 1) /\ n + 1 = m
      BY <1>3
    <3>4. k1[n] = i /\ k2[n] = j /\ w[n] = x[<<i, j>>] /\ w[n] \in Int
      <4>1. es[n + 1] = <<k1[n], k2[n]>> /\ w[n] = x[<<k1[n], k2[n]>>]
        BY <1>6, <3>3
      <4>2. w[n] \in Int
        BY <1>5, <3>3
      <4>3. <<k1[n], k2[n]>> = <<i, j>>
        BY <3>2, <3>3, <4>1
      <4> QED
        BY <4>1, <4>2, <4>3
    <3>5. ASSUME NEW l \in 0..(k - 1), k1[l] = i, k2[l] = j PROVE l = n
      <4>1. es[l + 1] = <<i, j>> /\ l + 1 \in 1..k
        <5>1. l + 1 \in 1..k
          BY <1>3
        <5>2. es[l + 1] = <<k1[l], k2[l]>>
          BY <1>6
        <5> QED
          BY <3>5, <5>1, <5>2
      <4>2. l + 1 = m
        BY <1>3, <3>2, <4>1
      <4> QED
        BY <3>3, <4>2
    <3>6. t[n] = w[n] /\ \A l \in 0..(k - 1) : l # n => t[l] = 0
      BY <2>1, <3>3, <3>4, <3>5
    <3> HIDE DEF n
    <3>7. Sum(t, 0, k) = t[n]
      <4>1. k \in Nat /\ t[n] \in Int /\ \A l \in 0..(k - 1) : l # n => t[l] = 0
        BY <1>3, <3>4, <3>6
      <4> QED
        BY ONLY <3>3, <4>1, SumSingle
    <3> QED
      BY <3>1, <3>4, <3>6, <3>7 DEF t
  <2>4. CASE <<i, j>> \notin U
    <3>1. h[i][j] = 0
      BY <2>2, <2>4 DEF Among, Weight
    <3>2. \A n \in 0..(k - 1) : t[n] = 0
      <4> SUFFICES ASSUME NEW n \in 0..(k - 1), k1[n] = i, k2[n] = j PROVE FALSE
        BY <2>1
      <4> QED
        BY <1>4, <2>4
    <3>3. Sum(t, 0, k) = 0
      BY <1>2, <1>3, <3>2, SumZero
    <3> QED
      BY <3>1, <3>3 DEF t
  <2> QED
    BY <2>3, <2>4
<1>8. ASSUME NEW i \in 0..(S - 1) PROVE q[i] = r[i]
  <2> DEFINE g == InClass(w, k1, i, k)
             s == ClassSums(g, k2, S, k)
             v == h[i]
  <2>1. q[i] = Sum(g, 0, k) /\ r[i] = Sum(v, 0, S)
    BY DEF ClassSums, RowSums
  <2>2. \A n \in 0..(k - 1) : g[n] \in Int /\ k2[n] \in 0..(S - 1)
    <3>1. \A n \in 0..(k - 1) : g[n] = IF k1[n] = i THEN w[n] ELSE 0
      BY DEF InClass
    <3> HIDE DEF w, k1, k2, g
    <3> QED
      BY ONLY <1>5, <3>1
  <2>3. \A j \in 0..(S - 1) : s[j] = v[j]
    <3>1. \A j \in 0..(S - 1) : s[j] = Sum(InClass(g, k2, j, k), 0, k)
      BY DEF ClassSums
    <3> HIDE DEF w, k1, k2, h
    <3> QED
      BY <1>7, <3>1
  <2> HIDE DEF w, k1, k2, g, h
  <2>4. Sum(s, 0, S) = Sum(g, 0, k)
    <3>1. S \in Nat /\ k \in Nat
      BY <1>2, <1>3
    <3> QED
      BY ONLY <2>2, <3>1, SumByClass, SMTT(30)
  <2> HIDE DEF s, v
  <2>5. Sum(s, 0, S) = Sum(v, 0, S)
    BY ONLY <1>2, <2>3, SumEqual
  <2> QED
    BY <2>1, <2>4, <2>5
<1>9. \A n \in 0..(k - 1) : w[n] \in Int /\ k1[n] \in 0..(S - 1)
  BY <1>4
<1> HIDE DEF w, k1, k2, h
<1>10. Sum(q, 0, S) = Sum(w, 0, k)
  <2>1. k \in Nat /\ S \in Nat
    BY <1>2, <1>3
  <2> QED
    BY ONLY <1>9, <2>1, SumByClass
<1>11. \A i \in 0..(S - 1) : q[i] = r[i]
  BY <1>8
<1> HIDE DEF q, r
<1>12. Sum(q, 0, S) = Sum(r, 0, S)
  BY ONLY <1>2, <1>11, SumEqual
<1> QED
  BY <1>1, <1>10, <1>12 DEF Links, r, h

(***************************************************************************)
(* For every graph, number of threads, number of passes and tolerance:     *)
(* whatever the order in which the threads of louvainCommunityVerticesOmpW *)
(* list the vertices of a community and louvainAggregateEdgesOmpW takes    *)
(* the communities, the graph that louvainInvokeOmp hands to a later pass  *)
(* has one edge between two communities that are linked, and its weight is *)
(* the sum of the weights between their vertices in the input.             *)
(***************************************************************************)
THEOREM LaterPassesAreQuotients == Spec => []QuotientOfInput
<1> DEFINE Inv == PInv /\ CInv /\ AInv /\ QInv
<1>1. Init => Inv
  BY InitOK, InitCoarsens, InitAggregation, InitIsQuotient
<1>2. Inv /\ [Next]_vars => Inv'
  <2> SUFFICES ASSUME PInv, CInv, AInv, QInv, [Next]_vars PROVE Inv'
    OBVIOUS
  <2>1. PInv'
    <3>1. Live' => LiveInv'
      BY StepKeeps
    <3> QED
      BY <3>1 DEF PInv
  <2>2. CInv' /\ AInv' /\ QInv'
    BY StepCoarsens, StepAggregates, StepIsQuotient
  <2> QED
    BY <2>1, <2>2
<1>3. Inv => QuotientOfInput
  <2> DEFINE W(c, d) ==
        [i \in Upto(Len(Row(c))) |-> IF Row(c)[i + 1][1] = d THEN Row(c)[i + 1][2] ELSE 0]
  <2> SUFFICES ASSUME PInv, CInv, AInv, QInv, pc = "move", p > 0, NEW c \in Upto(Span)
               PROVE  /\ Distinct(Row(c))
                      /\ \A d \in Upto(Span) : Between(ucom, c, d) = SumOf(W(c, d), Len(Row(c)))
    BY DEF QuotientOfInput, Distinct
  <2>1. LiveInv /\ Graphs /\ ~isFirst /\ Span \in Nat
    <3>1. LiveInv /\ Graphs
      BY DEF PInv, AInv, Live
    <3> QED
      BY <3>1, Spans DEF isFirst, LiveInv
  <2>2. PICK b : Based(b)
    BY DEF QInv, Live
  <2>3. (\A u \in Upto(S) : ucom[u] = b[u]) /\ Quotient(b)
    BY <2>1, <2>2 DEF Based, Composite, Listing
  <2>4. \A A, B : Links(ucom, A, B) = Links(b, A, B)
    <3>1. \A i \in 0..(S - 1) : ucom[i] = b[i]
      BY <2>3 DEF Upto
    <3>2. \A A, B : LinkCells(ucom, A, B) = LinkCells(b, A, B)
      BY <3>1 DEF LinkCells
    <3> QED
      BY <3>2 DEF Links, RowSums
  <2>5. ASSUME NEW d \in Upto(Span)
        PROVE  Between(ucom, c, d) = SumOf(W(c, d), Len(Row(c)))
    <3> DEFINE f == FromTo({c}, {d})
               n == Len(Row(c))
               g == [i \in 0..(n - 1) |-> Into(Span, {d})[Row(c)[i + 1]]]
               w == W(c, d)
    <3>1. Between(ucom, c, d) = Sum(f, 0, Span)
      BY <2>1, <2>3, <2>4, BetweenIs DEF Graphs, Quotient
    <3>2. Row(c) \in Seq(Cells) /\ n \in Nat
      BY <2>1 DEF Graphs, ProperRows
    <3>3. f[c] = SeqSum(Into(Span, {d}), Row(c)) /\ f[c] \in Int
      <4>1. \A e \in Cells : Into(Span, {d})[e] \in Int
        BY DEF Into, Cells
      <4>2. SeqSum(Into(Span, {d}), Row(c)) \in Int
        BY <3>2, <4>1, SeqSumInt
      <4> QED
        BY <4>2 DEF FromTo
    <3>4. Sum(f, 0, Span) = f[c]
      <4>1. c \in 0..(Span - 1) /\ \A u \in 0..(Span - 1) : u # c => f[u] = 0
        BY DEF FromTo, Upto
      <4> HIDE DEF f
      <4> QED
        BY <2>1, <3>3, <4>1, SumSingle
    <3>5. f[c] = Sum(g, 0, n)
      BY <3>3 DEF SeqSum
    <3>6. \A i \in 0..(n - 1) : g[i] = w[i]
      <4> SUFFICES ASSUME NEW i \in 0..(n - 1) PROVE g[i] = w[i]
        OBVIOUS
      <4>1. i + 1 \in 1..n /\ Row(c)[i + 1] \in Upto(Span) \X Nat
        BY <3>2 DEF Cells
      <4> QED
        BY <4>1 DEF Into, Upto
    <3> HIDE DEF g, w, n
    <3>7. Sum(g, 0, n) = Sum(w, 0, n)
      <4>1. 0 \in Nat /\ n \in Nat
        BY <3>2
      <4> QED
        BY ONLY <3>6, <4>1, SumEqual, ZenonT(60)
    <3> QED
      BY <3>1, <3>4, <3>5, <3>7, SameSums DEF w, n
  <2> QED
    BY <2>1, <2>5 DEF Graphs
<1> QED
  BY <1>1, <1>2, <1>3, PTL DEF Spec
=============================================================================
