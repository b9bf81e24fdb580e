--------------------------- MODULE Queries_proofs ---------------------------
(***************************************************************************)
(* The queries answer what they promise, for every store, every number of  *)
(* accounts and posts, every clock and every width of int.  A behaviour is *)
(* one query, so every invariant below is about the steps of one kind.     *)
(***************************************************************************)
EXTENDS Queries, Operators_proofs

-----------------------------------------------------------------------------
(***************************************************************************)
(* What the conversions of DateTime compute, for every date and for a      *)
(* clock of any units: the loops of FromUnixSeconds undo the loops of      *)
(* UnixSeconds, the result is a date, and operator< orders dates by their  *)
(* seconds.                                                                *)
(***************************************************************************)

-----------------------------------------------------------------------------
(* The loop of TakeOff stops before the first length that it has not got.  *)

Lengths(length) ==
  DOMAIN length \subseteq Nat /\ \A j \in DOMAIN length : length[j] \in Nat \ {0}

IsLoop(g, length) ==
  g = [s \in Nat \X Nat |->
         IF s[2] \in DOMAIN length /\ s[1] > 0 /\ s[1] >= length[s[2]]
         THEN g[<<s[1] - length[s[2]], s[2] + 1>>] ELSE s]

Filled(length) == [j \in Nat |-> IF j \in DOMAIN length THEN length[j] ELSE 1]
Stops(length, d, i) ==
  { z \in Nat : i <= z /\ (z \notin DOMAIN length \/ d < Sum(Filled(length), i, z + 1)) }
First(T) == CHOOSE x \in T : \A y \in T : x <= y
Landed(length, d, i) ==
  <<d - Sum(Filled(length), i, First(Stops(length, d, i))), First(Stops(length, d, i))>>

LEMMA FilledFacts ==
  ASSUME NEW length, Lengths(length)
  PROVE  /\ \A j \in Nat : Filled(length)[j] \in Nat \ {0}
         /\ \A j \in DOMAIN length : Filled(length)[j] = length[j]
         /\ \A i, n \in Nat : Sum(Filled(length), i, n) \in Nat
         /\ \A i \in Nat : Sum(Filled(length), i, i) = 0
         /\ \A i, n \in Nat : i < n => Sum(Filled(length), i, n)
                                         = Filled(length)[i] + Sum(Filled(length), i + 1, n)
<1> DEFINE f == Filled(length)
<1>1. \A j \in Nat : f[j] \in Nat \ {0}
  BY DEF Filled, Lengths
<1>2. \A j \in DOMAIN length : f[j] = length[j]
  BY DEF Filled, Lengths
<1> HIDE DEF f
<1>3. \A i, n \in Nat : Sum(f, i, n) \in Nat
  <2> TAKE i, n \in Nat
  <2>1. \A j \in i..(n - 1) : f[j] \in Nat
    BY <1>1
  <2> QED BY <2>1, SumNat
<1>4. \A i \in Nat : Sum(f, i, i) = 0
  BY SumNone
<1>5. ASSUME NEW i \in Nat, NEW n \in Nat, i < n
      PROVE  Sum(f, i, n) = f[i] + Sum(f, i + 1, n)
  <2>1. \A j \in i..(n - 1) : f[j] \in Int
    BY <1>1
  <2>2. i + 1 \in Nat /\ i <= i + 1 /\ i + 1 <= n
    BY <1>5
  <2>3. Sum(f, i, n) = Sum(f, i, i + 1) + Sum(f, i + 1, n)
    BY <2>1, <2>2, SumSplit
  <2>4. Sum(f, i, i + 1) = Sum(f, i, i) + f[i]
    BY SumNext
  <2> QED BY <1>1, <1>4, <2>3, <2>4
<1> QED BY <1>1, <1>2, <1>3, <1>4, <1>5 DEF f

LEMMA StopsExist ==
  ASSUME NEW length, Lengths(length), NEW d \in Nat, NEW i \in Nat
  PROVE  /\ First(Stops(length, d, i)) \in Stops(length, d, i)
         /\ \A y \in Stops(length, d, i) : First(Stops(length, d, i)) <= y
<1> DEFINE f == Filled(length)
           T == { n \in Nat : Sum(f, i, n) >= n - i }
<1>1. /\ \A j \in Nat : f[j] \in Nat \ {0}
      /\ \A m, n \in Nat : Sum(f, m, n) \in Nat
      /\ \A m \in Nat : Sum(f, m, m) = 0
  BY FilledFacts
<1>2. \A n \in Nat : i <= n => Sum(f, i, n + 1) = Sum(f, i, n) + f[n]
  BY SumNext
<1> HIDE DEF f
<1>3. i \in T
  BY <1>1
<1>4. \A n \in Nat : i <= n /\ n \in T => n + 1 \in T
  <2> TAKE n \in Nat
  <2> SUFFICES ASSUME i <= n, n \in T PROVE n + 1 \in T
    OBVIOUS
  <2>1. Sum(f, i, n + 1) = Sum(f, i, n) + f[n] /\ f[n] \in Nat \ {0} /\ Sum(f, i, n) \in Nat
    BY <1>1, <1>2
  <2> QED BY <2>1
<1>5. i + d + 1 \in T
  <2> HIDE DEF T
  <2>1. i + d + 1 \in Nat /\ i <= i + d + 1
    OBVIOUS
  <2> QED BY <1>3, <1>4, <2>1, Upward
<1>6. i + d \in Stops(length, d, i)
  <2>1. Sum(f, i, (i + d) + 1) >= (i + d + 1) - i /\ Sum(f, i, i + d + 1) \in Nat
    BY <1>1, <1>5
  <2>2. d < Sum(f, i, (i + d) + 1)
    BY <2>1
  <2> QED BY <2>2 DEF Stops, f
<1>7. \E x \in Stops(length, d, i) : \A y \in Stops(length, d, i) : x <= y
  <2>1. Stops(length, d, i) \subseteq Nat /\ Stops(length, d, i) # {}
    BY <1>6 DEF Stops
  <2> QED BY <2>1, LeastNat
<1> QED BY <1>7 DEF First

LEMMA LandedGoesOn ==
  ASSUME NEW length, Lengths(length), NEW d \in Nat, NEW i \in DOMAIN length, d >= length[i]
  PROVE  Landed(length, d, i) = Landed(length, d - length[i], i + 1)
<1> DEFINE f == Filled(length)
           e == d - length[i]
<1>1. i \in Nat /\ length[i] \in Nat \ {0} /\ f[i] = length[i] /\ e \in Nat /\ i + 1 \in Nat
  <2>1. i \in Nat /\ length[i] \in Nat \ {0}
    BY DEF Lengths
  <2>2. f[i] = length[i]
    BY FilledFacts
  <2> HIDE DEF f
  <2> QED BY <2>1, <2>2
<1>2. \A m, n \in Nat : Sum(f, m, n) \in Nat
  BY FilledFacts
<1>3. \A n \in Nat : i < n => Sum(f, i, n) = f[i] + Sum(f, i + 1, n)
  BY <1>1, FilledFacts
<1>4. Sum(f, i, i + 1) = f[i]
  <2>1. i < i + 1 /\ Sum(f, i + 1, i + 1) = 0
    BY <1>1, FilledFacts
  <2> QED BY <1>1, <1>3, <2>1
<1> HIDE DEF f
<1>5. Stops(length, d, i) = Stops(length, e, i + 1)
  <2>1. ASSUME NEW z \in Nat, i + 1 <= z
        PROVE  d < Sum(f, i, z + 1) <=> e < Sum(f, i + 1, z + 1)
    <3>1. Sum(f, i, z + 1) = length[i] + Sum(f, i + 1, z + 1)
      BY <1>1, <1>3, <2>1
    <3>2. Sum(f, i + 1, z + 1) \in Nat
      <4>1. i + 1 \in Nat /\ z + 1 \in Nat
        BY <1>1
      <4> QED BY <1>2, <4>1
    <3> QED BY <1>1, <3>1, <3>2
  <2>2. i \notin Stops(length, d, i)
    BY <1>1, <1>4 DEF Stops, f
  <2>3. \A z \in Nat : i <= z /\ z # i => i + 1 <= z
    BY <1>1
  <2>4. \A z \in Nat : i + 1 <= z => i <= z /\ z # i
    BY <1>1
  <2>5. \A z \in Stops(length, d, i) : z \in Stops(length, e, i + 1)
    BY <2>1, <2>2, <2>3 DEF Stops, f
  <2>6. \A z \in Stops(length, e, i + 1) : z \in Stops(length, d, i)
    BY <2>1, <2>4 DEF Stops, f
  <2> QED BY <2>5, <2>6
<1> DEFINE z == First(Stops(length, e, i + 1))
<1>6. z \in Nat /\ i + 1 <= z
  <2> HIDE DEF e
  <2>1. z \in Stops(length, e, i + 1)
    BY <1>1, StopsExist
  <2> QED BY <2>1 DEF Stops
<1>7. d - Sum(f, i, z) = e - Sum(f, i + 1, z)
  <2> HIDE DEF z
  <2>1. Sum(f, i, z) = length[i] + Sum(f, i + 1, z) /\ Sum(f, i + 1, z) \in Nat
    BY <1>1, <1>2, <1>3, <1>6
  <2> QED BY <1>1, <2>1
<1> HIDE DEF e, z
<1>8. Landed(length, d, i) = <<d - Sum(f, i, z), z>>
  BY <1>5 DEF Landed, f, z
<1>9. Landed(length, e, i + 1) = <<e - Sum(f, i + 1, z), z>>
  BY DEF Landed, f, z
<1> QED BY <1>7, <1>8, <1>9 DEF e

LEMMA LandedStays ==
  ASSUME NEW length, Lengths(length), NEW d \in Nat, NEW i \in Nat,
         i \notin DOMAIN length \/ d = 0 \/ d < length[i]
  PROVE  Landed(length, d, i) = <<d, i>>
<1> DEFINE f == Filled(length)
<1>1. i \in Stops(length, d, i)
  <2>1. Sum(f, i, i + 1) = Sum(f, i, i) + f[i] /\ Sum(f, i, i) = 0 /\ f[i] \in Nat \ {0}
    BY FilledFacts, SumNext
  <2>2. i \in DOMAIN length => f[i] = length[i]
    BY FilledFacts
  <2>3. i \in DOMAIN length => d < Sum(f, i, i + 1)
    <3> HIDE DEF f
    <3> QED BY <2>1, <2>2
  <2> QED BY <2>3 DEF Stops
<1>2. First(Stops(length, d, i)) = i
  <2>1. /\ First(Stops(length, d, i)) \in Stops(length, d, i)
        /\ \A y \in Stops(length, d, i) : First(Stops(length, d, i)) <= y
    BY StopsExist
  <2>2. First(Stops(length, d, i)) <= i /\ i <= First(Stops(length, d, i))
        /\ First(Stops(length, d, i)) \in Nat
    BY <1>1, <2>1 DEF Stops
  <2> QED BY <2>2
<1>3. Sum(f, i, i) = 0
  BY FilledFacts
<1>4. Landed(length, d, i) = <<d - 0, i>>
  BY <1>2, <1>3 DEF Landed
<1> QED BY <1>4

LEMMA LoopExists ==
  ASSUME NEW length, Lengths(length)
  PROVE  \E g : IsLoop(g, length)
<1> DEFINE g == [s \in Nat \X Nat |-> Landed(length, s[1], s[2])]
<1>1. ASSUME NEW s \in Nat \X Nat
      PROVE  g[s] = IF s[2] \in DOMAIN length /\ s[1] > 0 /\ s[1] >= length[s[2]]
                    THEN g[<<s[1] - length[s[2]], s[2] + 1>>] ELSE s
  <2>1. s[1] \in Nat /\ s[2] \in Nat /\ s = <<s[1], s[2]>> /\ g[s] = Landed(length, s[1], s[2])
    OBVIOUS
  <2>2. CASE s[2] \in DOMAIN length /\ s[1] > 0 /\ s[1] >= length[s[2]]
    <3> DEFINE t == <<s[1] - length[s[2]], s[2] + 1>>
    <3>1. length[s[2]] \in Nat \ {0}
      BY <2>2 DEF Lengths
    <3>2. t \in Nat \X Nat
      BY <2>1, <2>2, <3>1
    <3>3. g[t] = Landed(length, s[1] - length[s[2]], s[2] + 1)
      BY <3>2
    <3>4. Landed(length, s[1], s[2]) = Landed(length, s[1] - length[s[2]], s[2] + 1)
      BY <2>1, <2>2, LandedGoesOn
    <3> HIDE DEF g, t
    <3>5. g[s] = g[t]
      BY <2>1, <3>3, <3>4
    <3> QED BY <2>2, <3>5 DEF t
  <2>3. CASE ~(s[2] \in DOMAIN length /\ s[1] > 0 /\ s[1] >= length[s[2]])
    <3>1. s[2] \notin DOMAIN length \/ s[1] = 0 \/ s[1] < length[s[2]]
      BY <2>1, <2>3 DEF Lengths
    <3>2. Landed(length, s[1], s[2]) = <<s[1], s[2]>>
      BY <2>1, <3>1, LandedStays
    <3> HIDE DEF g
    <3> QED BY <2>1, <2>3, <3>2
  <2> QED BY <2>2, <2>3
<1>2. IsLoop(g, length)
  <2> DEFINE h == [s \in Nat \X Nat |->
                     IF s[2] \in DOMAIN length /\ s[1] > 0 /\ s[1] >= length[s[2]]
                     THEN g[<<s[1] - length[s[2]], s[2] + 1>>] ELSE s]
  <2>1. \A s \in Nat \X Nat : g[s] = h[s]
    <3> HIDE DEF g
    <3> QED BY <1>1
  <2>2. g = h
    <3>1. g = [s \in Nat \X Nat |-> g[s]] /\ h = [s \in Nat \X Nat |-> h[s]]
      OBVIOUS
    <3> HIDE DEF g, h
    <3> QED BY <2>1, <3>1
  <2> HIDE DEF g
  <2> QED BY <2>2 DEF IsLoop
<1> QED BY <1>2

LEMMA TakeOffLands ==
  ASSUME NEW length, Lengths(length), NEW days \in Nat, NEW i \in Nat
  PROVE  TakeOff(length, days, i) = Landed(length, days, i)
<1> DEFINE g == CHOOSE h : IsLoop(h, length)
<1>1. IsLoop(g, length)
  BY LoopExists
<1>2. TakeOff(length, days, i) = g[<<days, i>>]
  BY Zenon DEF TakeOff, IsLoop
<1> HIDE DEF g
<1>3. \A s \in Nat \X Nat :
        g[s] = IF s[2] \in DOMAIN length /\ s[1] > 0 /\ s[1] >= length[s[2]]
               THEN g[<<s[1] - length[s[2]], s[2] + 1>>] ELSE s
  BY <1>1 DEF IsLoop
<1>4. \A d, n \in Nat :
        g[<<d, n>>] = IF n \in DOMAIN length /\ d > 0 /\ d >= length[n]
                      THEN g[<<d - length[n], n + 1>>] ELSE <<d, n>>
  <2> TAKE d, n \in Nat
  <2> DEFINE s == <<d, n>>
  <2>1. s \in Nat \X Nat /\ s[1] = d /\ s[2] = n
    OBVIOUS
  <2> HIDE DEF s
  <2>2. g[s] = IF n \in DOMAIN length /\ d > 0 /\ d >= length[n]
               THEN g[<<d - length[n], n + 1>>] ELSE s
    BY <1>3, <2>1
  <2> QED BY <2>2 DEF s
<1> DEFINE Bad == { d \in Nat : \E n \in Nat : g[<<d, n>>] # Landed(length, d, n) }
<1>5. Bad = {}
  <2> SUFFICES ASSUME Bad # {} PROVE FALSE
    OBVIOUS
  <2>1. PICK d \in Bad : \A e \in Bad : d <= e
    BY LeastNat
  <2>2. d \in Nat
    OBVIOUS
  <2>3. PICK n \in Nat : g[<<d, n>>] # Landed(length, d, n)
    OBVIOUS
  <2>4. CASE n \in DOMAIN length /\ d > 0 /\ d >= length[n]
    <3>1. length[n] \in Nat \ {0}
      BY <2>4 DEF Lengths
    <3>2. d - length[n] \in Nat /\ d - length[n] < d /\ n + 1 \in Nat
      BY <2>2, <2>4, <3>1
    <3>3. d - length[n] \notin Bad
      <4> HIDE DEF Bad
      <4> QED BY <2>1, <2>2, <3>2
    <3>4. g[<<d - length[n], n + 1>>] = Landed(length, d - length[n], n + 1)
      BY <3>2, <3>3
    <3>5. Landed(length, d, n) = Landed(length, d - length[n], n + 1)
      BY <2>2, <2>4, LandedGoesOn
    <3>6. g[<<d, n>>] = g[<<d - length[n], n + 1>>]
      BY <1>4, <2>2, <2>4
    <3> QED BY <2>3, <3>4, <3>5, <3>6
  <2>5. CASE ~(n \in DOMAIN length /\ d > 0 /\ d >= length[n])
    <3>1. n \notin DOMAIN length \/ d = 0 \/ d < length[n]
      BY <2>2, <2>5 DEF Lengths
    <3>2. Landed(length, d, n) = <<d, n>>
      BY <2>2, <3>1, LandedStays
    <3>3. g[<<d, n>>] = <<d, n>>
      BY <1>4, <2>2, <2>5
    <3> QED BY <2>3, <3>2, <3>3
  <2> QED BY <2>4, <2>5
<1> QED BY <1>2, <1>5

\* What the loop returns: the lengths it has taken off and less than the next.
LEMMA TakeOffFacts ==
  ASSUME NEW length, Lengths(length), NEW days \in Nat, NEW i \in Nat
  PROVE  \E r, z \in Nat :
           /\ TakeOff(length, days, i) = <<r, z>>
           /\ i <= z /\ i..(z - 1) \subseteq DOMAIN length
           /\ Sum(length, i, z) \in Nat /\ days = Sum(length, i, z) + r
           /\ z \in DOMAIN length => r < length[z]
<1> DEFINE f == Filled(length)
           z == First(Stops(length, days, i))
           r == days - Sum(f, i, z)
<1>1. z \in Nat /\ i <= z /\ (z \in DOMAIN length => days < Sum(f, i, z + 1))
  <2>1. z \in Stops(length, days, i)
    BY StopsExist
  <2> HIDE DEF z
  <2> QED BY <2>1 DEF Stops
<1>2. \A y \in Nat : i <= y /\ y < z => y \in DOMAIN length /\ ~(days < Sum(f, i, y + 1))
  <2> TAKE y \in Nat
  <2> SUFFICES ASSUME i <= y, y < z PROVE y \in DOMAIN length /\ ~(days < Sum(f, i, y + 1))
    OBVIOUS
  <2>1. \A x \in Stops(length, days, i) : z <= x
    BY StopsExist
  <2> HIDE DEF z
  <2>2. y \notin Stops(length, days, i)
    BY <1>1, <2>1
  <2> QED BY <2>2 DEF Stops
<1>3. \A m, n \in Nat : Sum(f, m, n) \in Nat
  BY FilledFacts
<1>4. Sum(f, i, i) = 0 /\ (\A j \in Nat : f[j] \in Nat \ {0})
      /\ (\A j \in DOMAIN length : f[j] = length[j])
  BY FilledFacts
<1>5. TakeOff(length, days, i) = <<r, z>>
  BY TakeOffLands DEF Landed
<1> HIDE DEF f, z
<1>6. Sum(f, i, z) \in Nat /\ Sum(f, i, z) <= days
  <2>1. CASE z = i
    BY <1>4, <2>1
  <2>2. CASE z # i
    <3>1. z - 1 \in Nat /\ i <= z - 1 /\ z - 1 < z /\ (z - 1) + 1 = z
      BY <1>1, <2>2
    <3>2. ~(days < Sum(f, i, z)) /\ Sum(f, i, z) \in Nat
      BY <1>1, <1>2, <1>3, <3>1
    <3> QED BY <3>2
  <2> QED BY <2>1, <2>2
<1>7. r \in Nat /\ days = Sum(f, i, z) + r
  BY <1>6
<1>8. i..(z - 1) \subseteq DOMAIN length
  BY <1>1, <1>2
<1>9. Sum(length, i, z) = Sum(f, i, z)
  <2>1. \A j \in i..(z - 1) : length[j] = f[j]
    BY <1>4, <1>8
  <2> QED BY <1>1, <2>1, SumEqual
<1>10. z \in DOMAIN length => r < length[z]
  <2> SUFFICES ASSUME z \in DOMAIN length PROVE r < length[z]
    OBVIOUS
  <2>1. Sum(f, i, z + 1) = Sum(f, i, z) + f[z]
    BY <1>1, SumNext
  <2>2. f[z] = length[z] /\ f[z] \in Nat
    BY <1>1, <1>4
  <2> QED BY <1>1, <1>6, <2>1, <2>2
<1> HIDE DEF r
<1> QED BY <1>1, <1>5, <1>6, <1>7, <1>8, <1>9, <1>10

-----------------------------------------------------------------------------
(* The lengths of years and months, summed up in closed form.              *)

Leap(y) == IF is_leap_year(y) THEN 1 ELSE 0

\* Days from the first of January 1970 to that of year y.
DaysTo(y) ==
  365 * (y - 1) + (y - 1) \div 4 - (y - 1) \div 100 + (y - 1) \div 400 - 719162

LEMMA YearLengths ==
  /\ Lengths(YearDays) /\ DOMAIN YearDays = Nat
  /\ \A y \in Nat : YearDays[y] = 365 + Leap(y)
<1>1. \A y \in Nat : YearDays[y] = 365 + Leap(y) /\ YearDays[y] \in Nat \ {0}
  BY DEF YearDays, days_in_year, Leap
<1>2. DOMAIN YearDays = Nat
  BY DEF YearDays
<1> QED BY <1>1, <1>2 DEF Lengths

LEMMA YearSums ==
  ASSUME NEW y \in Nat, y >= 1970
  PROVE  Sum(YearDays, 1970, y) = DaysTo(y) /\ DaysTo(y) \in Nat
<1> DEFINE T == { n \in Nat : Sum(YearDays, 1970, n) = DaysTo(n) /\ DaysTo(n) \in Nat }
<1>1. 1970 \in T
  <2>1. Sum(YearDays, 1970, 1970) = 0
    BY SumNone
  <2>2. DaysTo(1970) = 0
    BY DEF DaysTo
  <2> QED BY <2>1, <2>2
<1>2. ASSUME NEW n \in Nat, 1970 <= n, n \in T PROVE n + 1 \in T
  <2>1. Sum(YearDays, 1970, n + 1) = Sum(YearDays, 1970, n) + YearDays[n]
    BY <1>2, SumNext
  <2>2. YearDays[n] = 365 + Leap(n)
    BY YearLengths
  <2>3. DaysTo(n + 1) = DaysTo(n) + 365 + Leap(n) /\ DaysTo(n) \in Int /\ Leap(n) \in Nat
    BY <1>2 DEF DaysTo, Leap, is_leap_year
  <2> QED BY <1>2, <2>1, <2>2, <2>3
<1> HIDE DEF T
<1>3. y \in T
  BY <1>1, <1>2, Upward
<1> QED BY <1>3 DEF T

LEMMA MonthLengths ==
  ASSUME NEW y \in Nat
  PROVE  /\ Lengths(MonthDays(y)) /\ DOMAIN MonthDays(y) = 1..12
         /\ \A m \in 1..12 : MonthDays(y)[m] = days_in_month(y, m)
         /\ \A m \in 1..12 : days_in_month(y, m) \in 28..31
<1>1. \A m \in 1..12 : days_in_month(y, m) \in 28..31
  BY DEF days_in_month
<1>2. DOMAIN MonthDays(y) = 1..12 /\ \A m \in 1..12 : MonthDays(y)[m] = days_in_month(y, m)
  BY DEF MonthDays
<1> QED BY <1>1, <1>2 DEF Lengths

\* The days of the year before month m, and the whole year for m = 13.
DaysBefore(y, m) ==
  <<0, 31, 59, 90, 120, 151, 181, 212, 243, 273, 304, 334, 365>>[m]
    + IF m > 2 THEN Leap(y) ELSE 0

LEMMA MonthSums ==
  ASSUME NEW y \in Nat, NEW m \in 1..13
  PROVE  Sum(MonthDays(y), 1, m) = DaysBefore(y, m)
<1> DEFINE M == MonthDays(y)
           l == Leap(y)
<1>1. /\ M[1] = 31 /\ M[2] = 28 + l /\ M[3] = 31 /\ M[4] = 30 /\ M[5] = 31 /\ M[6] = 30
      /\ M[7] = 31 /\ M[8] = 31 /\ M[9] = 30 /\ M[10] = 31 /\ M[11] = 30 /\ M[12] = 31
  BY DEF MonthDays, days_in_month, Leap
<1>2. l \in Nat
  BY DEF Leap
<1> HIDE DEF M, l
<1>3. Sum(M, 1, 1) = 0
  BY SumNone
<1>4. \A n \in 1..12 : Sum(M, 1, n + 1) = Sum(M, 1, n) + M[n]
  BY SumNext
<1>5. /\ Sum(M, 1, 2) = Sum(M, 1, 1) + M[1]
      /\ Sum(M, 1, 3) = Sum(M, 1, 2) + M[2]
      /\ Sum(M, 1, 4) = Sum(M, 1, 3) + M[3]
      /\ Sum(M, 1, 5) = Sum(M, 1, 4) + M[4]
      /\ Sum(M, 1, 6) = Sum(M, 1, 5) + M[5]
      /\ Sum(M, 1, 7) = Sum(M, 1, 6) + M[6]
      /\ Sum(M, 1, 8) = Sum(M, 1, 7) + M[7]
      /\ Sum(M, 1, 9) = Sum(M, 1, 8) + M[8]
      /\ Sum(M, 1, 10) = Sum(M, 1, 9) + M[9]
      /\ Sum(M, 1, 11) = Sum(M, 1, 10) + M[10]
      /\ Sum(M, 1, 12) = Sum(M, 1, 11) + M[11]
      /\ Sum(M, 1, 13) = Sum(M, 1, 12) + M[12]
  BY <1>4
<1>6. /\ Sum(M, 1, 2) = 31 /\ Sum(M, 1, 3) = 59 + l /\ Sum(M, 1, 4) = 90 + l
      /\ Sum(M, 1, 5) = 120 + l /\ Sum(M, 1, 6) = 151 + l /\ Sum(M, 1, 7) = 181 + l
      /\ Sum(M, 1, 8) = 212 + l /\ Sum(M, 1, 9) = 243 + l /\ Sum(M, 1, 10) = 273 + l
      /\ Sum(M, 1, 11) = 304 + l /\ Sum(M, 1, 12) = 334 + l /\ Sum(M, 1, 13) = 365 + l
  BY <1>1, <1>2, <1>3, <1>5
<1>7. m \in {1, 2, 3, 4, 5, 6, 7, 8, 9, 10, 11, 12, 13}
  OBVIOUS
<1>8. Sum(M, 1, m) = DaysBefore(y, m)
  BY <1>2, <1>3, <1>6, <1>7 DEF DaysBefore, l
<1> QED BY <1>8 DEF M

-----------------------------------------------------------------------------
(* A date and its seconds. *)

IsDate(d) == d \in [1..6 -> Nat] /\ Valid(d)

DayNumber(y, m, n) == DaysTo(y) + DaysBefore(y, m) + n - 1
InDay(h, i, s) == s + i * SecondsPerMinute + h * SECONDS_PER_HOUR

LEMMA Units ==
  /\ SecondsPerMinute \in Nat \ {0} /\ MinutesPerHour \in Nat \ {0}
  /\ HoursPerDay \in Nat \ {0}
  /\ SECONDS_PER_HOUR \in Nat \ {0} /\ SECONDS_PER_DAY \in Nat \ {0}
<1>1. /\ SecondsPerMinute \in Nat \ {0} /\ MinutesPerHour \in Nat \ {0}
      /\ HoursPerDay \in Nat \ {0}
  BY ClockAssumption
<1>2. \A a, b \in Nat \ {0} : a * b \in Nat \ {0}
  OBVIOUS
<1>3. SECONDS_PER_HOUR \in Nat \ {0}
  BY <1>1, <1>2 DEF SECONDS_PER_HOUR
<1>4. SECONDS_PER_DAY \in Nat \ {0}
  BY <1>1, <1>2, <1>3 DEF SECONDS_PER_DAY
<1> QED BY <1>1, <1>3, <1>4

\* Numbers of two digits, the lower one below `unit`.
LEMMA TwoDigits ==
  ASSUME NEW unit \in Nat \ {0}, NEW a \in Nat, NEW b \in Nat,
         NEW r \in 0..(unit - 1), NEW s \in Nat, a < b
  PROVE  r + a * unit < s + b * unit
<1>1. (a + 1) * unit <= b * unit
  OBVIOUS
<1>2. (a + 1) * unit = a * unit + unit
  OBVIOUS
<1>3. a * unit \in Nat /\ b * unit \in Nat
  OBVIOUS
<1> QED BY <1>1, <1>2, <1>3

LEMMA DivMod ==
  ASSUME NEW n \in Nat, NEW unit \in Nat \ {0}
  PROVE  /\ n \div unit \in Nat /\ n % unit \in 0..(unit - 1)
         /\ n = (n % unit) + (n \div unit) * unit
<1>1. n % unit = n - (n \div unit) * unit
  BY Z3T(30)
<1>2. n \div unit \in Nat
  OBVIOUS
<1>3. n % unit \in 0..(unit - 1)
  OBVIOUS
<1>4. (n \div unit) * unit \in Nat
  BY <1>2
<1> QED BY <1>1, <1>2, <1>3, <1>4

LEMMA InDayBounds ==
  ASSUME NEW h \in 0..(HoursPerDay - 1), NEW i \in 0..(MinutesPerHour - 1),
         NEW s \in 0..(SecondsPerMinute - 1)
  PROVE  /\ s + i * SecondsPerMinute \in 0..(SECONDS_PER_HOUR - 1)
         /\ InDay(h, i, s) \in 0..(SECONDS_PER_DAY - 1)
<1>1. s + i * SecondsPerMinute < 0 + MinutesPerHour * SecondsPerMinute
  BY Units, TwoDigits
<1>2. s + i * SecondsPerMinute \in Nat
  BY Units
<1>3. s + i * SecondsPerMinute \in 0..(SECONDS_PER_HOUR - 1)
  BY <1>1, <1>2, Units DEF SECONDS_PER_HOUR
<1>4. (s + i * SecondsPerMinute) + h * SECONDS_PER_HOUR < 0 + HoursPerDay * SECONDS_PER_HOUR
  BY <1>3, Units, TwoDigits
<1>5. h * SECONDS_PER_HOUR \in Nat
  BY Units
<1>6. InDay(h, i, s) \in Nat /\ InDay(h, i, s) < SECONDS_PER_DAY
  BY <1>2, <1>4, <1>5, Units DEF InDay, SECONDS_PER_DAY
<1> QED BY <1>3, <1>6, Units

LEMMA MonthStep ==
  ASSUME NEW y \in Nat, NEW m \in 1..12
  PROVE  /\ DaysBefore(y, m) \in Nat /\ DaysBefore(y, m + 1) \in Nat
         /\ DaysBefore(y, m + 1) = DaysBefore(y, m) + days_in_month(y, m)
<1>1. Leap(y) \in Nat
  BY DEF Leap
<1>2. days_in_month(y, m) = <<31, 28, 31, 30, 31, 30, 31, 31, 30, 31, 30, 31>>[m]
                              + IF m = 2 THEN Leap(y) ELSE 0
  BY DEF days_in_month, Leap
<1>3. m \in {1, 2, 3, 4, 5, 6, 7, 8, 9, 10, 11, 12}
  OBVIOUS
<1> QED BY <1>1, <1>2, <1>3 DEF DaysBefore

LEMMA MonthsGrow ==
  ASSUME NEW y \in Nat, NEW m \in 1..13, NEW n \in 1..13, m <= n
  PROVE  DaysBefore(y, m) <= DaysBefore(y, n)
<1>1. Leap(y) \in Nat
  BY DEF Leap
<1>2. m \in {1, 2, 3, 4, 5, 6, 7, 8, 9, 10, 11, 12, 13} /\ n \in {1, 2, 3, 4, 5, 6, 7, 8, 9, 10, 11, 12, 13}
  OBVIOUS
<1> QED BY <1>1, <1>2 DEF DaysBefore

LEMMA YearsGrow ==
  ASSUME NEW y \in Nat, NEW z \in Nat, y >= 1970, y < z
  PROVE  DaysTo(y) + 365 + Leap(y) <= DaysTo(z) /\ DaysTo(y) \in Nat /\ DaysTo(z) \in Nat
<1>1. Sum(YearDays, 1970, z) = Sum(YearDays, 1970, y + 1) + Sum(YearDays, y + 1, z)
  <2>1. \A j \in 1970..(z - 1) : YearDays[j] \in Int
    BY YearLengths DEF Lengths
  <2>2. y + 1 \in Nat /\ 1970 <= y + 1 /\ y + 1 <= z /\ 1970 \in Nat
    OBVIOUS
  <2> QED BY <2>1, <2>2, SumSplit
<1>2. Sum(YearDays, y + 1, z) \in Nat
  <2>1. \A j \in (y + 1)..(z - 1) : YearDays[j] \in Nat
    BY YearLengths DEF Lengths
  <2> QED BY <2>1, SumNat
<1>3. Sum(YearDays, 1970, y + 1) = Sum(YearDays, 1970, y) + (365 + Leap(y))
  BY SumNext, YearLengths
<1>4. /\ Sum(YearDays, 1970, z) = DaysTo(z) /\ DaysTo(z) \in Nat
      /\ Sum(YearDays, 1970, y) = DaysTo(y) /\ DaysTo(y) \in Nat
  BY YearSums
<1>5. Leap(y) \in Nat
  BY DEF Leap
<1> QED BY <1>1, <1>2, <1>3, <1>4, <1>5

LEMMA DateFields ==
  ASSUME NEW d, IsDate(d)
  PROVE  /\ d[1] \in Nat /\ d[1] >= 1970 /\ d[2] \in 1..12
         /\ d[3] \in 1..days_in_month(d[1], d[2]) /\ days_in_month(d[1], d[2]) \in 28..31
         /\ d[4] \in 0..(HoursPerDay - 1) /\ d[5] \in 0..(MinutesPerHour - 1)
         /\ d[6] \in 0..(SecondsPerMinute - 1)
<1>1. d[1] \in Nat
  BY DEF IsDate
<1>2. /\ d[1] >= 1970 /\ d[2] \in 1..12 /\ d[3] \in 1..days_in_month(d[1], d[2])
      /\ d[4] \in 0..(HoursPerDay - 1) /\ d[5] \in 0..(MinutesPerHour - 1)
      /\ d[6] \in 0..(SecondsPerMinute - 1)
  BY DEF IsDate, Valid
<1> QED BY <1>1, <1>2, MonthLengths

LEMMA SecondsOfDate ==
  ASSUME NEW d, IsDate(d)
  PROVE  /\ UnixSeconds(d) = InDay(d[4], d[5], d[6]) + DayNumber(d[1], d[2], d[3]) * SECONDS_PER_DAY
         /\ DayNumber(d[1], d[2], d[3]) \in Nat
         /\ InDay(d[4], d[5], d[6]) \in 0..(SECONDS_PER_DAY - 1)
         /\ UnixSeconds(d) \in Nat
<1>1. Sum(YearDays, 1970, d[1]) = DaysTo(d[1]) /\ DaysTo(d[1]) \in Nat
  BY DateFields, YearSums
<1>2. Sum(MonthDays(d[1]), 1, d[2]) = DaysBefore(d[1], d[2]) /\ DaysBefore(d[1], d[2]) \in Nat
  <2>1. d[1] \in Nat /\ d[2] \in 1..12 /\ d[2] \in 1..13
    BY DateFields
  <2> QED BY <2>1, MonthSums, MonthStep
<1>3. d[3] \in Nat /\ d[3] >= 1
  BY DateFields
<1>4. DayNumber(d[1], d[2], d[3]) \in Nat
  BY <1>1, <1>2, <1>3 DEF DayNumber
<1>5. InDay(d[4], d[5], d[6]) \in 0..(SECONDS_PER_DAY - 1)
  BY DateFields, InDayBounds
<1>6. UnixSeconds(d) = InDay(d[4], d[5], d[6]) + DayNumber(d[1], d[2], d[3]) * SECONDS_PER_DAY
  BY <1>1, <1>2 DEF UnixSeconds, FromDdHhMmSs, InDay, DayNumber
<1>7. DayNumber(d[1], d[2], d[3]) * SECONDS_PER_DAY \in Nat
  BY <1>4, Units
<1> QED BY <1>4, <1>5, <1>6, <1>7

-----------------------------------------------------------------------------
(* operator< orders dates by their seconds. *)

\* The last day of a month comes before the next month, that of December
\* before the next year.
LEMMA DayOfYear ==
  ASSUME NEW d, IsDate(d)
  PROVE  /\ DaysBefore(d[1], d[2]) \in Nat /\ DaysBefore(d[1], d[2] + 1) \in Nat
         /\ DaysBefore(d[1], d[2]) + d[3] <= DaysBefore(d[1], d[2] + 1)
         /\ DaysBefore(d[1], d[2]) + d[3] <= 365 + Leap(d[1])
<1>1. /\ d[1] \in Nat /\ d[2] \in 1..12 /\ d[3] \in 1..days_in_month(d[1], d[2])
      /\ days_in_month(d[1], d[2]) \in 28..31
  BY DateFields
<1>2. /\ DaysBefore(d[1], d[2]) \in Nat /\ DaysBefore(d[1], d[2] + 1) \in Nat
      /\ DaysBefore(d[1], d[2] + 1) = DaysBefore(d[1], d[2]) + days_in_month(d[1], d[2])
  BY <1>1, MonthStep
<1>3. DaysBefore(d[1], d[2] + 1) <= DaysBefore(d[1], 13)
  <2>1. d[2] + 1 \in 1..13 /\ 13 \in 1..13 /\ d[2] + 1 <= 13
    BY <1>1
  <2> QED BY <1>1, <2>1, MonthsGrow
<1>4. DaysBefore(d[1], 13) = 365 + Leap(d[1]) /\ Leap(d[1]) \in Nat
  BY DEF DaysBefore, Leap
<1> QED BY <1>1, <1>2, <1>3, <1>4

LEMMA EarlierDay ==
  ASSUME NEW d, IsDate(d), NEW e, IsDate(e),
         \/ d[1] < e[1]
         \/ d[1] = e[1] /\ d[2] < e[2]
         \/ d[1] = e[1] /\ d[2] = e[2] /\ d[3] < e[3]
  PROVE  DayNumber(d[1], d[2], d[3]) < DayNumber(e[1], e[2], e[3])
<1>1. /\ d[1] \in Nat /\ d[1] >= 1970 /\ d[2] \in 1..12 /\ d[3] \in Nat /\ d[3] >= 1
      /\ e[1] \in Nat /\ e[1] >= 1970 /\ e[2] \in 1..12 /\ e[3] \in Nat /\ e[3] >= 1
  BY DateFields
<1>2. /\ DaysBefore(d[1], d[2]) \in Nat /\ DaysBefore(d[1], d[2] + 1) \in Nat
      /\ DaysBefore(d[1], d[2]) + d[3] <= DaysBefore(d[1], d[2] + 1)
      /\ DaysBefore(d[1], d[2]) + d[3] <= 365 + Leap(d[1])
      /\ DaysBefore(e[1], e[2]) \in Nat
  BY DayOfYear
<1>3. DaysTo(d[1]) \in Nat /\ DaysTo(e[1]) \in Nat /\ Leap(d[1]) \in Nat
  BY <1>1, YearSums DEF Leap
<1>4. CASE d[1] < e[1]
  <2>1. DaysTo(d[1]) + 365 + Leap(d[1]) <= DaysTo(e[1])
    BY <1>1, <1>4, YearsGrow
  <2> QED BY <1>1, <1>2, <1>3, <2>1 DEF DayNumber
<1>5. CASE d[1] = e[1] /\ d[2] < e[2]
  <2>1. d[2] + 1 \in 1..13 /\ e[2] \in 1..13 /\ d[2] + 1 <= e[2]
    BY <1>1, <1>5
  <2>2. DaysBefore(d[1], d[2] + 1) <= DaysBefore(d[1], e[2])
    BY <1>1, <2>1, MonthsGrow
  <2> QED BY <1>1, <1>2, <1>3, <1>5, <2>2 DEF DayNumber
<1>6. CASE d[1] = e[1] /\ d[2] = e[2] /\ d[3] < e[3]
  BY <1>1, <1>2, <1>3, <1>6 DEF DayNumber
<1> QED BY <1>4, <1>5, <1>6

LEMMA EarlierInDay ==
  ASSUME NEW d, IsDate(d), NEW e, IsDate(e),
         \/ d[4] < e[4]
         \/ d[4] = e[4] /\ d[5] < e[5]
         \/ d[4] = e[4] /\ d[5] = e[5] /\ d[6] < e[6]
  PROVE  InDay(d[4], d[5], d[6]) < InDay(e[4], e[5], e[6])
<1>1. /\ d[4] \in 0..(HoursPerDay - 1) /\ d[5] \in 0..(MinutesPerHour - 1)
      /\ d[6] \in 0..(SecondsPerMinute - 1)
      /\ e[4] \in 0..(HoursPerDay - 1) /\ e[5] \in 0..(MinutesPerHour - 1)
      /\ e[6] \in 0..(SecondsPerMinute - 1)
  BY DateFields
<1>2. /\ d[4] \in Nat /\ d[5] \in Nat /\ d[6] \in Nat /\ e[4] \in Nat /\ e[5] \in Nat /\ e[6] \in Nat
  BY <1>1
<1> DEFINE i == d[6] + d[5] * SecondsPerMinute
           j == e[6] + e[5] * SecondsPerMinute
<1>3. i \in 0..(SECONDS_PER_HOUR - 1) /\ j \in 0..(SECONDS_PER_HOUR - 1)
  BY <1>1, InDayBounds
<1>4. d[5] < e[5] => i < j
  BY <1>1, <1>2, Units, TwoDigits
<1>5. d[5] = e[5] /\ d[6] < e[6] => i < j
  <2>1. \A a \in Nat : d[6] < e[6] => d[6] + a < e[6] + a
    BY <1>2
  <2>2. d[5] * SecondsPerMinute \in Nat
    BY <1>2, Units
  <2> QED BY <2>1, <2>2
<1> DEFINE x == d[4] * SECONDS_PER_HOUR
           y == e[4] * SECONDS_PER_HOUR
<1>6. x \in Nat /\ y \in Nat
  BY <1>2, Units
<1>7. d[4] < e[4] => i + x < j + y
  <2>1. i \in 0..(SECONDS_PER_HOUR - 1) /\ j \in Nat
    BY <1>3, Units
  <2> HIDE DEF i, j
  <2> QED BY <1>2, <2>1, Units, TwoDigits
<1>8. d[4] = e[4] => x = y
  OBVIOUS
<1>9. InDay(d[4], d[5], d[6]) = i + x /\ InDay(e[4], e[5], e[6]) = j + y
  BY DEF InDay
<1>10. i \in Nat /\ j \in Nat
  BY <1>3, Units
<1> HIDE DEF i, j, x, y
<1> QED BY <1>4, <1>5, <1>6, <1>7, <1>8, <1>9, <1>10

LEMMA BeforeIsFewerSeconds ==
  ASSUME NEW d, IsDate(d), NEW e, IsDate(e), Before(d, e)
  PROVE  UnixSeconds(d) < UnixSeconds(e)
<1>1. PICK i \in 1..6 : d[i] < e[i] /\ \A j \in 1..(i - 1) : d[j] = e[j]
  BY DEF Before
<1>2. /\ UnixSeconds(d) = InDay(d[4], d[5], d[6]) + DayNumber(d[1], d[2], d[3]) * SECONDS_PER_DAY
      /\ DayNumber(d[1], d[2], d[3]) \in Nat
      /\ InDay(d[4], d[5], d[6]) \in 0..(SECONDS_PER_DAY - 1)
  BY SecondsOfDate
<1>3. /\ UnixSeconds(e) = InDay(e[4], e[5], e[6]) + DayNumber(e[1], e[2], e[3]) * SECONDS_PER_DAY
      /\ DayNumber(e[1], e[2], e[3]) \in Nat
      /\ InDay(e[4], e[5], e[6]) \in 0..(SECONDS_PER_DAY - 1)
  BY SecondsOfDate
<1>4. CASE i \in 1..3
  <2>1. \/ d[1] < e[1]
        \/ d[1] = e[1] /\ d[2] < e[2]
        \/ d[1] = e[1] /\ d[2] = e[2] /\ d[3] < e[3]
    <3>1. i = 1 \/ i = 2 \/ i = 3
      BY <1>4
    <3> QED BY <1>1, <3>1
  <2>2. DayNumber(d[1], d[2], d[3]) < DayNumber(e[1], e[2], e[3])
    BY <2>1, EarlierDay
  <2>3. InDay(e[4], e[5], e[6]) \in Nat
    BY <1>3, Units
  <2> QED BY <1>2, <1>3, <2>2, <2>3, Units, TwoDigits
<1>5. CASE i \in 4..6
  <2>1. d[1] = e[1] /\ d[2] = e[2] /\ d[3] = e[3]
    BY <1>1, <1>5
  <2>2. \/ d[4] < e[4]
        \/ d[4] = e[4] /\ d[5] < e[5]
        \/ d[4] = e[4] /\ d[5] = e[5] /\ d[6] < e[6]
    <3>1. i = 4 \/ i = 5 \/ i = 6
      BY <1>5
    <3> QED BY <1>1, <3>1
  <2>3. InDay(d[4], d[5], d[6]) < InDay(e[4], e[5], e[6])
    BY <2>2, EarlierInDay
  <2>4. \A a, b, c \in Nat : a < b => a + c < b + c
    OBVIOUS
  <2>5. DayNumber(d[1], d[2], d[3]) * SECONDS_PER_DAY \in Nat
        /\ InDay(d[4], d[5], d[6]) \in Nat /\ InDay(e[4], e[5], e[6]) \in Nat
    BY <1>2, <1>3, Units
  <2> QED BY <1>2, <1>3, <2>1, <2>3, <2>4, <2>5
<1> QED BY <1>4, <1>5

\* The order of dates and that of their seconds are one.
LEMMA OrderIsSeconds ==
  ASSUME NEW d, IsDate(d), NEW e, IsDate(e)
  PROVE  /\ Before(d, e) <=> UnixSeconds(d) < UnixSeconds(e)
         /\ AtMost(d, e) <=> UnixSeconds(d) <= UnixSeconds(e)
<1>1. UnixSeconds(d) \in Nat /\ UnixSeconds(e) \in Nat
  BY SecondsOfDate
<1>2. ASSUME NEW a, IsDate(a), NEW b, IsDate(b), ~Before(a, b), ~Before(b, a)
      PROVE  UnixSeconds(a) = UnixSeconds(b)
  <2>1. \A i \in 1..6 : a[i] \in Nat /\ b[i] \in Nat
    BY <1>2 DEF IsDate
  <2>2. \A i \in 1..6 : a[i] = b[i]
    <3> SUFFICES ASSUME \E i \in 1..6 : a[i] # b[i] PROVE FALSE
      OBVIOUS
    <3> DEFINE D == { i \in 1..6 : a[i] # b[i] }
    <3>1. PICK i \in D : \A j \in D : i <= j
      <4>1. D \subseteq Nat /\ D # {}
        OBVIOUS
      <4> HIDE DEF D
      <4> QED BY <4>1, LeastNat
    <3>2. \A j \in 1..(i - 1) : a[j] = b[j]
      BY <3>1
    <3>3. a[i] < b[i] \/ b[i] < a[i]
      BY <2>1
    <3> QED BY <1>2, <3>2, <3>3 DEF Before
  <2> QED BY <2>2 DEF UnixSeconds
<1>3. Before(d, e) => UnixSeconds(d) < UnixSeconds(e)
  BY BeforeIsFewerSeconds
<1>4. Before(e, d) => UnixSeconds(e) < UnixSeconds(d)
  BY BeforeIsFewerSeconds
<1>5. ~Before(d, e) /\ ~Before(e, d) => UnixSeconds(d) = UnixSeconds(e)
  BY <1>2
<1> QED BY <1>1, <1>3, <1>4, <1>5 DEF AtMost

-----------------------------------------------------------------------------
(* FromUnixSeconds undoes UnixSeconds. *)

LEMMA YearsTakenOff ==
  ASSUME NEW days \in Nat
  PROVE  \E r, y \in Nat : /\ YearsOff(days) = <<r, y>>
                           /\ y >= 1970 /\ DaysTo(y) \in Nat
                           /\ days = DaysTo(y) + r /\ r < 365 + Leap(y)
<1> DEFINE first == 1970
<1>1. Lengths(YearDays) /\ DOMAIN YearDays = Nat /\ first \in Nat
  BY YearLengths
<1> HIDE DEF first
<1>2. PICK r \in Nat, y \in Nat :
        /\ TakeOff(YearDays, days, first) = <<r, y>>
        /\ first <= y /\ first..(y - 1) \subseteq DOMAIN YearDays
        /\ Sum(YearDays, first, y) \in Nat /\ days = Sum(YearDays, first, y) + r
        /\ y \in DOMAIN YearDays => r < YearDays[y]
  BY <1>1, TakeOffFacts
<1> USE DEF first
<1>3. YearDays[y] = 365 + Leap(y) /\ Sum(YearDays, 1970, y) = DaysTo(y) /\ DaysTo(y) \in Nat
  BY <1>2, YearLengths, YearSums
<1> QED BY <1>1, <1>2, <1>3 DEF YearsOff

LEMMA MonthsTakenOff ==
  ASSUME NEW y \in Nat, NEW days \in Nat, days < 365 + Leap(y)
  PROVE  \E r, m \in Nat : /\ MonthsOff(days, y) = <<r, m>>
                           /\ m \in 1..12 /\ r < days_in_month(y, m)
                           /\ DaysBefore(y, m) \in Nat /\ days = DaysBefore(y, m) + r
<1> DEFINE M == MonthDays(y)
<1>1. /\ Lengths(M) /\ DOMAIN M = 1..12 /\ 1 \in Nat
      /\ \A m \in 1..12 : M[m] = days_in_month(y, m)
  BY MonthLengths
<1>2. PICK r \in Nat, m \in Nat :
        /\ TakeOff(M, days, 1) = <<r, m>>
        /\ 1 <= m /\ 1..(m - 1) \subseteq DOMAIN M
        /\ Sum(M, 1, m) \in Nat /\ days = Sum(M, 1, m) + r
        /\ m \in DOMAIN M => r < M[m]
  BY <1>1, TakeOffFacts
<1>3. m \in 1..13
  <2>1. m > 1 => m - 1 \in 1..(m - 1)
    BY <1>2
  <2>2. m > 1 => m - 1 \in 1..12
    BY <1>1, <1>2, <2>1
  <2> QED BY <1>2, <2>2
<1>4. Sum(M, 1, m) = DaysBefore(y, m)
  BY <1>3, MonthSums
<1>5. m # 13
  <2> SUFFICES ASSUME m = 13 PROVE FALSE
    OBVIOUS
  <2>1. DaysBefore(y, 13) = 365 + Leap(y) /\ Leap(y) \in Nat
    BY DEF DaysBefore, Leap
  <2> HIDE DEF M
  <2> QED BY <1>2, <1>4, <2>1
<1>6. m \in 1..12
  BY <1>3, <1>5
<1> QED BY <1>1, <1>2, <1>4, <1>6 DEF MonthsOff

LEMMA FromUnixSecondsIsRight ==
  ASSUME NEW secs \in Nat
  PROVE  IsDate(FromUnixSeconds(secs)) /\ UnixSeconds(FromUnixSeconds(secs)) = secs
<1> DEFINE days == secs \div SECONDS_PER_DAY
           rest == secs % SECONDS_PER_DAY
           h == rest \div SECONDS_PER_HOUR
           low == rest % SECONDS_PER_HOUR
           i == low \div SecondsPerMinute
           s == low % SecondsPerMinute
<1>1. /\ days \in Nat /\ rest \in 0..(SECONDS_PER_DAY - 1)
      /\ secs = rest + days * SECONDS_PER_DAY
  BY DivMod, Units
<1>2. rest \in Nat
  BY <1>1, Units
<1> HIDE DEF days, rest
<1>3. /\ h \in Nat /\ low \in 0..(SECONDS_PER_HOUR - 1) /\ rest = low + h * SECONDS_PER_HOUR
  BY <1>2, DivMod, Units
<1>4. low \in Nat
  BY <1>3, Units
<1> HIDE DEF h, low
<1>5. /\ i \in Nat /\ s \in 0..(SecondsPerMinute - 1) /\ low = s + i * SecondsPerMinute
  BY <1>4, DivMod, Units
<1> HIDE DEF i, s
<1>6. h \in 0..(HoursPerDay - 1)
  <2> SUFFICES ASSUME HoursPerDay <= h PROVE FALSE
    BY <1>3, Units
  <2>1. HoursPerDay * SECONDS_PER_HOUR <= h * SECONDS_PER_HOUR
    BY <1>3, Units
  <2>2. SECONDS_PER_DAY <= h * SECONDS_PER_HOUR
    BY <2>1 DEF SECONDS_PER_DAY
  <2>3. h * SECONDS_PER_HOUR \in Nat
    BY <1>3, Units
  <2> QED BY <1>1, <1>3, <1>4, <2>2, <2>3, Units
<1>7. i \in 0..(MinutesPerHour - 1)
  <2> SUFFICES ASSUME MinutesPerHour <= i PROVE FALSE
    BY <1>5, Units
  <2>1. MinutesPerHour * SecondsPerMinute <= i * SecondsPerMinute
    BY <1>5, Units
  <2>2. SECONDS_PER_HOUR <= i * SecondsPerMinute
    BY <2>1 DEF SECONDS_PER_HOUR
  <2>3. i * SecondsPerMinute \in Nat /\ s \in Nat
    BY <1>5, Units
  <2> QED BY <1>3, <1>5, <2>2, <2>3, Units
<1>8. PICK r \in Nat, y \in Nat :
        /\ YearsOff(days) = <<r, y>> /\ y >= 1970 /\ DaysTo(y) \in Nat
        /\ days = DaysTo(y) + r /\ r < 365 + Leap(y)
  BY <1>1, YearsTakenOff
<1>9. PICK q \in Nat, m \in Nat :
        /\ MonthsOff(r, y) = <<q, m>> /\ m \in 1..12 /\ q < days_in_month(y, m)
        /\ DaysBefore(y, m) \in Nat /\ r = DaysBefore(y, m) + q
  BY <1>8, MonthsTakenOff
<1> DEFINE d == <<y, m, q + 1, h, i, s>>
<1>10. FromUnixSeconds(secs) = d
  BY <1>8, <1>9 DEF FromUnixSeconds, days, rest, h, low, i, s
<1>11. d[1] = y /\ d[2] = m /\ d[3] = q + 1 /\ d[4] = h /\ d[5] = i /\ d[6] = s
  OBVIOUS
<1>12. d \in [1..6 -> Nat]
  <2>1. y \in Nat /\ m \in Nat /\ q + 1 \in Nat /\ h \in Nat /\ i \in Nat /\ s \in Nat
    BY <1>3, <1>5, <1>8, <1>9, Units
  <2> HIDE DEF h, i, s
  <2> QED BY <2>1
<1> HIDE DEF d
<1>13. q + 1 \in 1..days_in_month(y, m)
  <2>1. days_in_month(y, m) \in Nat
    BY <1>8, <1>9, MonthLengths
  <2> QED BY <1>9, <2>1
<1>14. IsDate(d)
  BY <1>6, <1>7, <1>5, <1>8, <1>9, <1>11, <1>12, <1>13 DEF IsDate, Valid
<1>15. UnixSeconds(d) = InDay(h, i, s) + DayNumber(y, m, q + 1) * SECONDS_PER_DAY
  BY <1>11, <1>14, SecondsOfDate
<1>16. DayNumber(y, m, q + 1) = days
  BY <1>8, <1>9 DEF DayNumber
<1>17. InDay(h, i, s) = rest
  <2>1. h * SECONDS_PER_HOUR \in Nat /\ i * SecondsPerMinute \in Nat /\ s \in Nat
    BY <1>3, <1>5, Units
  <2> QED BY <1>3, <1>5, <2>1 DEF InDay
<1> QED BY <1>1, <1>10, <1>14, <1>15, <1>16, <1>17

-----------------------------------------------------------------------------
(* The days before a date in closed form, with years that begin in March.  *)

DaysInMarchYears(y, m, n) ==
  LET z == IF m <= 2 THEN y - 1 ELSE y
      k == (m + 9) % 12
  IN  365 * z + z \div 4 - z \div 100 + z \div 400 + (153 * k + 2) \div 5 + n - 1 - 719468

LEMMA DaysInClosedForm ==
  ASSUME NEW y \in Nat, y >= 1970, NEW m \in 1..12, NEW n \in Nat
  PROVE  DayNumber(y, m, n) = DaysInMarchYears(y, m, n)
<1> DEFINE leap == IF (y % 4 = 0 /\ y % 100 # 0) \/ y % 400 = 0 THEN 1 ELSE 0
           x == y - 1
<1>1. y \div 4 - y \div 100 + y \div 400 = x \div 4 - x \div 100 + x \div 400 + leap
  OBVIOUS
<1>2. m \in {1, 2, 3, 4, 5, 6, 7, 8, 9, 10, 11, 12}
  OBVIOUS
<1>3. DaysTo(y) = 365 * x + (x \div 4 - x \div 100 + x \div 400) - 719162
  BY DEF DaysTo
<1>4. leap \in Int /\ x \in Int /\ Leap(y) = leap
  BY DEF Leap, is_leap_year
<1> DEFINE c == x \div 4 - x \div 100 + x \div 400
           e == y \div 4 - y \div 100 + y \div 400
<1>5. c \in Int /\ e \in Int /\ e = c + leap
  BY <1>1
<1>6. DaysTo(y) = 365 * y - 365 + c - 719162
  BY <1>3, <1>5
<1> HIDE DEF leap, c, e
<1>7. CASE m = 1
  <2>1. (153 * ((m + 9) % 12) + 2) \div 5 = 306 /\ DaysBefore(y, m) = 0
    BY <1>7 DEF DaysBefore
  <2> QED BY <1>5, <1>6, <1>7, <2>1, SMT DEF DayNumber, DaysInMarchYears, c
<1>8. CASE m = 2
  <2>1. (153 * ((m + 9) % 12) + 2) \div 5 = 337 /\ DaysBefore(y, m) = 31
    BY <1>8 DEF DaysBefore
  <2> QED BY <1>5, <1>6, <1>8, <2>1, SMT DEF DayNumber, DaysInMarchYears, c
<1>9. CASE m > 2
  <2>1. (153 * ((m + 9) % 12) + 2) \div 5 = DaysBefore(y, m) - 59 - leap
    BY <1>2, <1>4, <1>9 DEF DaysBefore
  <2>2. DaysBefore(y, m) \in Nat
    BY <1>2 DEF DaysBefore, Leap
  <2>3. DayNumber(y, m, n) = 365 * y + e + (DaysBefore(y, m) - 59 - leap) + n - 1 - 719468
    BY <1>4, <1>5, <1>6, <2>2 DEF DayNumber
  <2> QED BY <1>9, <2>1, <2>3, SMT DEF DaysInMarchYears, e
<1> QED BY <1>7, <1>8, <1>9

-----------------------------------------------------------------------------
(* The queries.                                                            *)

\* The steps that each kind of query takes.
LEMMA StepsOfKind ==
  ASSUME [QueryNext]_allVars
  PROVE  /\ query' = query
         /\ query = "topk" => Topk \/ UNCHANGED allVars
         /\ query = "common" => FirstAccount \/ NextAccount \/ UNCHANGED allVars
         /\ query = "oldest" => \/ \E p \in Dated : SkipPost(p) \/ Throw(p) \/ OldestPost(p)
                                \/ EndLoop \/ UNCHANGED allVars
         /\ query = "freq" => \/ \E p \in Dated : SkipPost(p) \/ Throw(p) \/ CountPost(p)
                              \/ EndLoop \/ SortBuckets \/ UNCHANGED allVars
         /\ query = "dates" => (\E range \in Ranges : Advance(range)) \/ UNCHANGED allVars
<1>1. CASE UNCHANGED allVars
  BY <1>1 DEF allVars, args
<1>2. CASE Topk
  BY <1>2 DEF Topk, args
<1>3. CASE FirstAccount
  BY <1>3 DEF FirstAccount, args
<1>4. CASE NextAccount
  BY <1>4 DEF NextAccount, args
<1>5. CASE EndLoop
  BY <1>5 DEF EndLoop, args
<1>6. CASE SortBuckets
  BY <1>6 DEF SortBuckets, args
<1>7. CASE \E p \in Dated : SkipPost(p) \/ Throw(p) \/ OldestPost(p) \/ CountPost(p)
  <2>1. PICK p \in Dated : SkipPost(p) \/ Throw(p) \/ OldestPost(p) \/ CountPost(p)
    BY <1>7
  <2>2. CASE SkipPost(p)
    BY <2>2 DEF SkipPost, args
  <2>3. CASE Throw(p)
    BY <2>3 DEF Throw, args
  <2>4. CASE OldestPost(p)
    BY <2>4 DEF OldestPost, args
  <2>5. CASE CountPost(p)
    BY <2>5 DEF CountPost, args
  <2> QED BY <2>1, <2>2, <2>3, <2>4, <2>5
<1>8. CASE \E range \in Ranges : Advance(range)
  BY <1>8 DEF Advance
<1> QED BY <1>1, <1>2, <1>3, <1>4, <1>5, <1>6, <1>7, <1>8 DEF QueryNext

LEMMA DatesAreDates ==
  /\ \A d \in Starts \cup Ends \cup Dates : IsDate(d)
  /\ \A d \in Texts : Valid(d) => IsDate(d)
BY QueriesAssumption DEF IsDate

-----------------------------------------------------------------------------
(* operator+= *)

StartIsDate == query = "dates" /\ at = "loop" => start \in Dates

LEMMA ClosedForm ==
  ASSUME NEW d, IsDate(d)
  PROVE  UnixSeconds(d) = GregorianSeconds(d)
<1>1. d[1] \in Nat /\ d[1] >= 1970 /\ d[2] \in 1..12 /\ d[3] \in Nat
  BY DateFields
<1>2. DayNumber(d[1], d[2], d[3]) = DaysInMarchYears(d[1], d[2], d[3])
  BY <1>1, DaysInClosedForm
<1>3. UnixSeconds(d) = InDay(d[4], d[5], d[6]) + DayNumber(d[1], d[2], d[3]) * SECONDS_PER_DAY
  BY SecondsOfDate
<1>4. GregorianSeconds(d) = FromDdHhMmSs(DaysInMarchYears(d[1], d[2], d[3]), d[4], d[5], d[6])
  BY SMT DEF GregorianSeconds, DaysInMarchYears
<1> QED BY <1>2, <1>3, <1>4 DEF FromDdHhMmSs, InDay

LEMMA InitStart == QueryInit => StartIsDate
BY DEF QueryInit, StartIsDate

LEMMA NextStart == StartIsDate /\ [QueryNext]_allVars => StartIsDate'
<1> SUFFICES ASSUME StartIsDate, [QueryNext]_allVars, query' = "dates", at' = "loop"
             PROVE  start' \in Dates
  BY DEF StartIsDate
<1>1. query = "dates" /\ ((\E range \in Ranges : Advance(range)) \/ UNCHANGED allVars)
  BY StepsOfKind
<1>2. UNCHANGED allVars
  BY <1>1 DEF Advance
<1> QED BY <1>1, <1>2 DEF StartIsDate, allVars, args

\* operator+= leads from a date of the Gregorian calendar to the date of that
\* calendar which is the range later, whatever the year.
THEOREM DatesAdvance == QuerySpec => AdvancesByRange
<1> DEFINE Later == query = "dates" /\ start' # start =>
                      /\ Valid(start')
                      /\ UnixSeconds(start) = GregorianSeconds(start)
                      /\ GregorianSeconds(start') - GregorianSeconds(start) \in Ranges
<1>1. StartIsDate /\ [QueryNext]_allVars => Later
  <2> SUFFICES ASSUME StartIsDate, [QueryNext]_allVars, query = "dates", start' # start
               PROVE  /\ Valid(start')
                      /\ UnixSeconds(start) = GregorianSeconds(start)
                      /\ GregorianSeconds(start') - GregorianSeconds(start) \in Ranges
    OBVIOUS
  <2>1. (\E range \in Ranges : Advance(range)) \/ UNCHANGED allVars
    BY StepsOfKind
  <2>2. PICK range \in Ranges : Advance(range)
    BY <2>1 DEF allVars, args
  <2>3. at = "loop" /\ start' = FromUnixSeconds(UnixSeconds(start) + range)
    BY <2>2 DEF Advance, Plus
  <2>4. IsDate(start)
    BY <2>3, DatesAreDates DEF StartIsDate
  <2>5. range \in Nat /\ UnixSeconds(start) \in Nat
    BY <2>4, QueriesAssumption, SecondsOfDate
  <2>6. IsDate(start') /\ UnixSeconds(start') = UnixSeconds(start) + range
    <3>1. UnixSeconds(start) + range \in Nat
      BY <2>5
    <3> QED BY <2>3, <3>1, FromUnixSecondsIsRight
  <2>7. GregorianSeconds(start) = UnixSeconds(start)
        /\ GregorianSeconds(start') = UnixSeconds(start')
    BY <2>4, <2>6, ClosedForm
  <2>8. Valid(start')
    BY <2>6 DEF IsDate
  <2>9. GregorianSeconds(start') - GregorianSeconds(start) = range
    BY <2>5, <2>6, <2>7
  <2> QED BY <2>7, <2>8, <2>9
<1>2. StartIsDate /\ [QueryNext]_allVars => [Later]_allVars
  BY <1>1
<1> QED BY <1>2, InitStart, NextStart, PTL DEF QuerySpec, AdvancesByRange

-----------------------------------------------------------------------------
(* GetOldestPost *)

\* What a loop over the posts knows of those it has come to.
Passed == Dated \ posts
DatesGiven ==
  /\ data \in [Dated -> {Null, NoTime, BadText} \cup Texts]
  /\ start \in Starts /\ end \in Ends
LoopState ==
  /\ posts \subseteq Dated
  /\ at \in {"loop", "sort", "done", "thrown"}
  /\ at = "thrown" => BadTime
  /\ at # "thrown" => \A p \in Passed : Skipped(p) \/ Parses(data[p])
  /\ at \in {"sort", "done"} => posts = {}

Oldest ==
  \/ oldest = [NoPost EXCEPT !.time = end] /\ \A p \in Passed : ~InRange(p)
  \/ /\ oldest.id \in Passed /\ oldest.time = data[oldest.id] /\ InRange(oldest.id)
     /\ \A p \in Passed : InRange(p) => AtMost(oldest.time, data[p])

OldestInv ==
  query = "oldest" => DatesGiven /\ LoopState /\ (at # "thrown" => Oldest)

LEMMA DateOrder ==
  ASSUME NEW d, IsDate(d), NEW e, IsDate(e), NEW f, IsDate(f)
  PROVE  /\ AtMost(d, d) /\ (AtMost(d, e) \/ AtMost(e, d))
         /\ AtMost(d, e) /\ AtMost(e, f) => AtMost(d, f)
<1>1. UnixSeconds(d) \in Nat /\ UnixSeconds(e) \in Nat /\ UnixSeconds(f) \in Nat
  BY SecondsOfDate
<1>2. /\ AtMost(d, d) <=> UnixSeconds(d) <= UnixSeconds(d)
      /\ AtMost(d, e) <=> UnixSeconds(d) <= UnixSeconds(e)
      /\ AtMost(e, d) <=> UnixSeconds(e) <= UnixSeconds(d)
      /\ AtMost(e, f) <=> UnixSeconds(e) <= UnixSeconds(f)
      /\ AtMost(d, f) <=> UnixSeconds(d) <= UnixSeconds(f)
  BY OrderIsSeconds
<1> QED BY <1>1, <1>2

LEMMA ParsedIsDate ==
  ASSUME DatesGiven, NEW p \in Dated, ~Skipped(p), Parses(data[p])
  PROVE  IsDate(data[p])
<1>1. data[p] \in {Null, NoTime, BadText} \cup Texts
  BY DEF DatesGiven
<1>2. data[p] \in Texts /\ Valid(data[p])
  BY <1>1 DEF Skipped, Parses
<1> QED BY <1>2, DatesAreDates

LEMMA EndsAreDates ==
  ASSUME DatesGiven
  PROVE  IsDate(start) /\ IsDate(end)
BY DatesAreDates DEF DatesGiven

LEMMA LoopStep ==
  ASSUME query \in {"oldest", "freq"}, DatesGiven, LoopState, UNCHANGED <<query, data, start, end>>,
         \/ \E p \in Dated : \/ Visit(p) /\ Skipped(p) /\ at' = at
                             \/ Visit(p) /\ ~Skipped(p) /\ ~Parses(data[p]) /\ at' = "thrown"
                             \/ Visit(p) /\ ~Skipped(p) /\ Parses(data[p]) /\ at' = at
         \/ at = "loop" /\ posts = {} /\ posts' = posts /\ at' \in {"sort", "done"}
         \/ at = "sort" /\ at' = "done" /\ posts' = posts
         \/ UNCHANGED <<at, posts>>
  PROVE  DatesGiven' /\ LoopState'
<1>1. DatesGiven'
  BY DEF DatesGiven
<1>2. (BadTime <=> BadTime') /\ \A p \in Dated : (Skipped(p) <=> Skipped(p)') /\ data'[p] = data[p]
  BY DEF BadTime, Skipped
<1>3. CASE \E p \in Dated : \/ Visit(p) /\ Skipped(p) /\ at' = at
                            \/ Visit(p) /\ ~Skipped(p) /\ ~Parses(data[p]) /\ at' = "thrown"
                            \/ Visit(p) /\ ~Skipped(p) /\ Parses(data[p]) /\ at' = at
  <2>1. PICK p \in Dated : \/ Visit(p) /\ Skipped(p) /\ at' = at
                           \/ Visit(p) /\ ~Skipped(p) /\ ~Parses(data[p]) /\ at' = "thrown"
                           \/ Visit(p) /\ ~Skipped(p) /\ Parses(data[p]) /\ at' = at
    BY <1>3
  <2>2. at = "loop" /\ posts' = posts \ {p} /\ p \in posts
    BY <2>1 DEF Visit
  <2>3. Passed' = Passed \cup {p}
    BY <2>2 DEF Passed, LoopState
  <2>4. ~Skipped(p) /\ ~Parses(data[p]) => BadTime
    BY DEF BadTime, Parses
  <2>5. at' # "thrown" => \A q \in Passed' : Skipped(q) \/ Parses(data[q])
    BY <2>1, <2>2, <2>3 DEF LoopState
  <2>6. at' # "thrown" => \A q \in Passed' : Skipped(q)' \/ Parses(data'[q])
    BY <1>2, <2>5 DEF Passed
  <2>7. at' = "thrown" => BadTime
    BY <2>1, <2>2, <2>4
  <2> QED BY <1>1, <1>2, <2>1, <2>2, <2>6, <2>7 DEF LoopState, Parses
<1>4. CASE UNCHANGED posts /\ at' \in {at, "sort", "done"} /\ (at' # at => at \in {"loop", "sort"} /\ posts = {})
  <2>1. Passed' = Passed
    BY <1>4 DEF Passed
  <2>2. \A p \in Passed : Skipped(p) \/ Parses(data[p]) => Skipped(p)' \/ Parses(data'[p])
    BY <1>2 DEF Passed
  <2>3. at' # "thrown" => at # "thrown"
    BY <1>4
  <2> QED BY <1>1, <1>2, <1>4, <2>1, <2>2, <2>3 DEF LoopState, Parses
<1>5. at = "sort" => posts = {}
  BY DEF LoopState
<1> QED BY <1>3, <1>4, <1>5

LEMMA InitOldest == QueryInit => OldestInv
<1> SUFFICES ASSUME QueryInit, query = "oldest" PROVE DatesGiven /\ LoopState /\ Oldest
  BY DEF OldestInv
<1>1. DatesGiven
  BY DEF QueryInit, DatesGiven, AnyData
<1>2. posts = Dated /\ at = "loop" /\ oldest = [NoPost EXCEPT !.time = end]
  BY DEF QueryInit
<1>3. Passed = {}
  BY <1>2 DEF Passed
<1> QED BY <1>1, <1>2, <1>3 DEF LoopState, Oldest

LEMMA OldestPostKeeps ==
  ASSUME DatesGiven, LoopState, Oldest, NEW p \in Dated, OldestPost(p)
  PROVE  Oldest'
<1>1. /\ p \in posts /\ posts' = posts \ {p} /\ ~Skipped(p) /\ Parses(data[p])
      /\ oldest' = IF Older(data[p]) THEN [id |-> p, time |-> data[p]] ELSE oldest
      /\ UNCHANGED <<data, start, end>> /\ at = "loop"
  BY DEF OldestPost, Visit, args
<1>2. Passed' = Passed \cup {p}
  BY <1>1 DEF Passed, LoopState
<1>3. IsDate(start) /\ IsDate(end) /\ IsDate(data[p])
  BY <1>1, EndsAreDates, ParsedIsDate
<1>4. \A q \in Passed : Skipped(q) \/ IsDate(data[q])
  <2> TAKE q \in Passed
  <2> SUFFICES ASSUME ~Skipped(q) PROVE IsDate(data[q])
    OBVIOUS
  <2>1. q \in Dated /\ Parses(data[q])
    BY <1>1 DEF LoopState, Passed
  <2> QED BY <2>1, ParsedIsDate
<1>5. \A q \in Dated : InRange(q)' <=> InRange(q)
  BY <1>1 DEF InRange, Skipped
<1>6. Passed \subseteq Dated
  BY DEF Passed
<1>7. InRange(p) <=> AtMost(start, data[p]) /\ AtMost(data[p], end)
  BY <1>1 DEF InRange
<1>8. CASE oldest = [NoPost EXCEPT !.time = end] /\ \A q \in Passed : ~InRange(q)
  <2>1. oldest.time = end
    BY <1>8 DEF NoPost
  <2>2. Older(data[p]) <=> InRange(p)
    BY <1>7, <2>1 DEF Older
  <2>3. CASE InRange(p)
    <3>1. oldest' = [id |-> p, time |-> data[p]]
      BY <1>1, <2>2, <2>3
    <3>2. oldest'.id = p /\ oldest'.time = data'[p]
      BY <1>1, <3>1
    <3>3. AtMost(data[p], data[p])
      BY <1>3, DateOrder
    <3>4. \A q \in Passed' : InRange(q)' => AtMost(oldest'.time, data'[q])
      BY <1>1, <1>2, <1>5, <1>6, <1>8, <3>2, <3>3
    <3> QED BY <1>2, <1>5, <2>3, <3>2, <3>4 DEF Oldest
  <2>4. CASE ~InRange(p)
    <3>1. oldest' = [NoPost EXCEPT !.time = end']
      BY <1>1, <1>8, <2>2, <2>4
    <3>2. \A q \in Passed' : ~(InRange(q)')
      BY <1>2, <1>5, <1>6, <1>8, <2>4
    <3> QED BY <3>1, <3>2 DEF Oldest
  <2> QED BY <2>3, <2>4
<1>9. CASE /\ oldest.id \in Passed /\ oldest.time = data[oldest.id] /\ InRange(oldest.id)
           /\ \A q \in Passed : InRange(q) => AtMost(oldest.time, data[q])
  <2> DEFINE o == oldest.id
             t == oldest.time
  <2>1. IsDate(t) /\ AtMost(start, t) /\ AtMost(t, end)
    BY <1>4, <1>9 DEF InRange
  <2>2. Older(data[p]) <=> AtMost(start, data[p]) /\ AtMost(data[p], t)
    BY DEF Older
  <2>3. \A q \in Passed : InRange(q) => IsDate(data[q]) /\ AtMost(t, data[q])
    BY <1>4, <1>9 DEF InRange
  <2>4. CASE Older(data[p])
    <3>1. oldest' = [id |-> p, time |-> data[p]]
      BY <1>1, <2>4
    <3>2. oldest'.id = p /\ oldest'.time = data[p] /\ data'[p] = data[p]
      BY <1>1, <3>1
    <3>3. AtMost(data[p], end) /\ AtMost(data[p], data[p])
      BY <1>3, <2>1, <2>2, <2>4, DateOrder
    <3>4. InRange(p)
      BY <1>7, <2>2, <2>4, <3>3
    <3>5. \A q \in Passed : InRange(q) => AtMost(data[p], data[q])
      BY <1>3, <2>1, <2>2, <2>3, <2>4, DateOrder
    <3>6. \A q \in Passed' : InRange(q)' => AtMost(oldest'.time, data'[q])
      BY <1>1, <1>2, <1>5, <1>6, <3>2, <3>3, <3>5
    <3> QED BY <1>2, <1>5, <3>2, <3>4, <3>6 DEF Oldest
  <2>5. CASE ~Older(data[p])
    <3>1. oldest' = oldest
      BY <1>1, <2>5
    <3>2. InRange(p) => AtMost(t, data[p])
      BY <1>3, <1>7, <2>1, <2>2, <2>5, DateOrder
    <3>3. \A q \in Passed' : InRange(q)' => AtMost(oldest'.time, data'[q])
      BY <1>1, <1>2, <1>5, <1>6, <1>9, <3>1, <3>2
    <3>4. o \in Passed' /\ InRange(o)' /\ oldest'.time = data'[o] /\ oldest'.id = o
      BY <1>1, <1>2, <1>5, <1>6, <1>9, <3>1
    <3> QED BY <3>3, <3>4 DEF Oldest
  <2> QED BY <2>4, <2>5
<1> QED BY <1>8, <1>9 DEF Oldest

LEMMA NextOldest == OldestInv /\ [QueryNext]_allVars => OldestInv'
<1> SUFFICES ASSUME OldestInv, [QueryNext]_allVars, query' = "oldest"
             PROVE  DatesGiven' /\ LoopState' /\ (at' # "thrown" => Oldest')
  BY DEF OldestInv
<1>1. /\ query = "oldest" /\ query' = query
      /\ \/ \E p \in Dated : SkipPost(p) \/ Throw(p) \/ OldestPost(p)
         \/ EndLoop \/ UNCHANGED allVars
  BY StepsOfKind
<1>2. DatesGiven /\ LoopState /\ (at # "thrown" => Oldest)
  BY <1>1 DEF OldestInv
<1>3. CASE \E p \in Dated : SkipPost(p)
  <2>1. PICK p \in Dated : SkipPost(p)
    BY <1>3
  <2>2. Visit(p) /\ Skipped(p) /\ at' = at /\ UNCHANGED <<query, data, start, end, oldest>>
    BY <2>1 DEF SkipPost, args, folds
  <2>3. DatesGiven' /\ LoopState'
    BY <1>1, <1>2, <2>2, LoopStep
  <2>4. Passed' = Passed \cup {p}
    BY <1>2, <2>2 DEF Visit, Passed, LoopState
  <2>5. \A q \in Dated : InRange(q)' <=> InRange(q)
    BY <2>2 DEF InRange, Skipped
  <2>6. ~InRange(p) /\ at # "thrown"
    BY <2>2 DEF InRange, Visit
  <2>7. Oldest'
    <3>1. Passed \subseteq Dated
      BY DEF Passed
    <3> QED BY <1>2, <2>2, <2>4, <2>5, <2>6, <3>1 DEF Oldest
  <2> QED BY <2>3, <2>7
<1>4. CASE \E p \in Dated : Throw(p)
  <2>1. PICK p \in Dated : Throw(p)
    BY <1>4
  <2>2. Visit(p) /\ ~Skipped(p) /\ ~Parses(data[p]) /\ at' = "thrown"
        /\ UNCHANGED <<query, data, start, end>>
    BY <2>1 DEF Throw, args
  <2> QED BY <1>1, <1>2, <2>2, LoopStep
<1>5. CASE \E p \in Dated : OldestPost(p)
  <2>1. PICK p \in Dated : OldestPost(p)
    BY <1>5
  <2>2. Visit(p) /\ ~Skipped(p) /\ Parses(data[p]) /\ at' = at
        /\ UNCHANGED <<query, data, start, end>>
    BY <2>1 DEF OldestPost, args
  <2>3. DatesGiven' /\ LoopState'
    BY <1>1, <1>2, <2>2, LoopStep
  <2>4. at # "thrown"
    BY <2>2 DEF Visit
  <2> QED BY <1>2, <2>1, <2>3, <2>4, OldestPostKeeps
<1>6. CASE EndLoop \/ UNCHANGED allVars
  <2>1. /\ UNCHANGED <<query, data, start, end, oldest, posts>>
        /\ \/ at = "loop" /\ posts = {} /\ at' \in {"sort", "done"}
           \/ at' = at
    BY <1>6 DEF EndLoop, allVars, args, folds
  <2>2. DatesGiven' /\ LoopState'
    BY <1>1, <1>2, <2>1, LoopStep
  <2>3. Passed' = Passed
    BY <2>1 DEF Passed
  <2>4. \A q \in Dated : InRange(q)' <=> InRange(q)
    BY <2>1 DEF InRange, Skipped
  <2>5. at # "thrown" => Oldest'
    <3>1. Passed \subseteq Dated
      BY DEF Passed
    <3> QED BY <1>2, <2>1, <2>3, <2>4, <3>1 DEF Oldest
  <2> QED BY <2>1, <2>2, <2>5
<1> QED BY <1>1, <1>3, <1>4, <1>5, <1>6

LEMMA LoopFails ==
  ASSUME LoopState
  PROVE  FailsOnBadTime
<1>1. at = "done" => \A p \in Dated : Skipped(p) \/ Parses(data[p])
  BY DEF LoopState, Passed
<1> QED BY <1>1 DEF LoopState, FailsOnBadTime, BadTime, Parses

LEMMA OldestInvImplies == OldestInv => OldestIsEarliest
<1> SUFFICES ASSUME OldestInv, query = "oldest" PROVE OldestIsEarliest
  BY DEF OldestIsEarliest, Answered
<1>1. FailsOnBadTime
  BY LoopFails DEF OldestInv
<1> SUFFICES ASSUME at = "done"
             PROVE  IF oldest.id = NoPost.id THEN \A p \in Dated : ~InRange(p)
                    ELSE /\ InRange(oldest.id) /\ oldest.time = data[oldest.id]
                         /\ \A p \in Dated : InRange(p) => AtMost(oldest.time, data[p])
  BY <1>1 DEF OldestIsEarliest, Answered
<1>2. Passed = Dated /\ Oldest
  BY DEF OldestInv, LoopState, Passed
<1>3. NoPost.id \notin Dated
  BY QueriesAssumption
<1>4. CASE oldest = [NoPost EXCEPT !.time = end] /\ \A p \in Passed : ~InRange(p)
  <2>1. oldest.id = NoPost.id
    BY <1>4 DEF NoPost
  <2> QED BY <1>2, <1>4, <2>1
<1>5. CASE /\ oldest.id \in Passed /\ oldest.time = data[oldest.id] /\ InRange(oldest.id)
           /\ \A p \in Passed : InRange(p) => AtMost(oldest.time, data[p])
  <2>1. oldest.id # NoPost.id
    BY <1>2, <1>3, <1>5
  <2> QED BY <1>2, <1>5, <2>1
<1> QED BY <1>2, <1>4, <1>5 DEF Oldest

\* In whatever order the hash map yields the posts, the answer of GetOldestPost
\* is a post of the range than which none is older, and only a text that is no
\* date makes it fail.
THEOREM OldestCorrect == QuerySpec => []OldestIsEarliest
BY InitOldest, NextOldest, OldestInvImplies, PTL DEF QuerySpec

-----------------------------------------------------------------------------
(* GetCommonInteractingAccounts *)

Asked == { asked[i] : i \in DOMAIN asked } \ {Stranger}
Taken == Len(known) - Len(uidxs)

CommonInv ==
  query = "common" =>
    /\ asked \in UNION { [1..n -> Accounts \cup {Stranger}] : n \in 0..MaxAsked }
    /\ at \in {"loop", "done"}
    /\ uidxs \in Seq(Accounts) /\ Taken \in Nat
    /\ \A i \in 1..Len(uidxs) : uidxs[i] = known[Taken + i]
    /\ commons = { v \in Accounts : Taken > 0 /\ \A i \in 1..Taken : v \in account_graph(known[i]) }
    /\ at = "done" => uidxs = <<>> \/ (Taken > 0 /\ commons = {})
    /\ at = "loop" => uidxs # <<>> \/ Taken = 0

\* The loop that skips strangers leaves the accounts asked for.
LEMMA KnownFacts ==
  ASSUME asked \in UNION { [1..n -> Accounts \cup {Stranger}] : n \in 0..MaxAsked }
  PROVE  /\ known \in Seq(Accounts) /\ Len(known) \in Nat
         /\ { known[i] : i \in 1..Len(known) } = Asked
<1> DEFINE I == { i \in DOMAIN asked : asked[i] # Stranger }
<1>1. PICK n \in 0..MaxAsked : asked \in [1..n -> Accounts \cup {Stranger}]
  OBVIOUS
<1>2. MaxAsked \in Nat /\ n \in Nat /\ DOMAIN asked = 1..n
  BY <1>1, QueriesAssumption
<1>3. IsFiniteSet(I) /\ I \subseteq Int
  <2>1. IsFiniteSet(1..n) /\ I \subseteq 1..n
    BY <1>2, FS_Interval
  <2> QED BY <1>2, <2>1, FS_Subset
<1> DEFINE N == Cardinality(I)
<1>4. N \in Nat
  BY <1>3, FS_CardinalityType
<1>5. known = At(asked, I)
  BY DEF known
<1>6. known = [m \in 1..N |-> known[m]]
  <2>1. At(asked, I) = [m \in 1..N |-> At(asked, I)[m]]
    BY <1>3, AtEnumerates
  <2> HIDE DEF I, N
  <2> QED BY <1>5, <2>1
<1> HIDE DEF I
<1>7. PICK e : Enumerates(e, I) /\ \A m \in 1..N : known[m] = asked[e[m]]
  <2>1. \E e : Enumerates(e, I) /\ \A m \in 1..Cardinality(I) : At(asked, I)[m] = asked[e[m]]
    BY <1>3, AtEnumerates
  <2> QED BY <1>5, <2>1
<1> USE DEF I
<1>8. \A m \in 1..N : e[m] \in DOMAIN asked /\ asked[e[m]] # Stranger
  <2>1. e \in [1..N -> I]
    BY <1>7 DEF Enumerates
  <2>2. \A m \in 1..N : e[m] \in I
    BY <2>1
  <2> QED BY <2>2
<1>9. \A m \in 1..N : known[m] \in Accounts
  BY <1>1, <1>2, <1>7, <1>8
<1>10. known \in [1..N -> Accounts]
  <2> HIDE DEF known, N
  <2> QED BY <1>6, <1>9
<1>11. known \in Seq(Accounts) /\ Len(known) = N
  <2> HIDE DEF known, N
  <2> QED BY <1>4, <1>10
<1>12. ASSUME NEW u \in Asked PROVE u \in { known[i] : i \in 1..Len(known) }
  <2>1. PICK i \in DOMAIN asked : u = asked[i] /\ u # Stranger
    BY DEF Asked
  <2>2. PICK m \in 1..N : e[m] = i
    BY <1>7, <2>1 DEF Enumerates
  <2>3. known[m] = u
    BY <1>7, <2>1, <2>2
  <2> HIDE DEF known, N
  <2> QED BY <1>11, <2>3
<1>13. ASSUME NEW i \in 1..Len(known) PROVE known[i] \in Asked
  <2>1. known[i] = asked[e[i]] /\ e[i] \in DOMAIN asked /\ asked[e[i]] # Stranger
    BY <1>7, <1>8, <1>11, <1>13
  <2> QED BY <2>1 DEF Asked
<1> QED BY <1>4, <1>11, <1>12, <1>13

LEMMA InitCommon == QueryInit => CommonInv
<1> SUFFICES ASSUME QueryInit, query = "common" PROVE CommonInv
  BY DEF CommonInv
<1>1. /\ asked \in UNION { [1..n -> Accounts \cup {Stranger}] : n \in 0..MaxAsked }
      /\ at = "loop" /\ uidxs = known /\ commons = {}
  BY DEF QueryInit
<1>2. known \in Seq(Accounts) /\ Len(known) \in Nat
  BY <1>1, KnownFacts
<1>3. Taken = 0
  BY <1>1, <1>2 DEF Taken
<1>4. \A i \in 1..Len(uidxs) : 0 + i = i
  BY <1>1, <1>2
<1> QED BY <1>1, <1>2, <1>3, <1>4 DEF CommonInv

LEMMA TailTakes ==
  ASSUME query = "common", CommonInv, uidxs # <<>>, uidxs' = Tail(uidxs), UNCHANGED asked
  PROVE  /\ Taken' = Taken + 1 /\ Taken \in Nat /\ known' = known
         /\ uidxs' \in Seq(Accounts) /\ uidxs[1] = known[Taken + 1]
         /\ \A i \in 1..Len(uidxs') : uidxs'[i] = known[Taken' + i]
<1>1. /\ uidxs \in Seq(Accounts) /\ Taken \in Nat
      /\ \A i \in 1..Len(uidxs) : uidxs[i] = known[Taken + i]
      /\ known \in Seq(Accounts) /\ Len(known) \in Nat
  BY KnownFacts DEF CommonInv
<1>2. known' = known
  BY DEF known
<1>3. /\ uidxs' \in Seq(Accounts) /\ Len(uidxs') = Len(uidxs) - 1 /\ Len(uidxs) \in Nat
      /\ Len(uidxs) >= 1 /\ \A i \in 1..Len(uidxs') : uidxs'[i] = uidxs[i + 1]
  BY <1>1
<1>4. Taken' = Taken + 1
  BY <1>1, <1>2, <1>3 DEF Taken
<1>5. uidxs[1] = known[Taken + 1]
  BY <1>1, <1>3
<1>6. ASSUME NEW i \in 1..Len(uidxs') PROVE uidxs'[i] = known[Taken' + i]
  <2>1. i + 1 \in 1..Len(uidxs) /\ Taken + (i + 1) = Taken' + i
    BY <1>1, <1>3, <1>4, <1>6
  <2>2. uidxs[i + 1] = known[Taken + (i + 1)]
    BY <1>1, <2>1
  <2> QED BY <1>3, <2>1, <2>2
<1> QED BY <1>1, <1>2, <1>3, <1>4, <1>5, <1>6

LEMMA NextCommon == CommonInv /\ [QueryNext]_allVars => CommonInv'
<1> SUFFICES ASSUME CommonInv, [QueryNext]_allVars, query' = "common"
             PROVE  CommonInv'
  BY DEF CommonInv
<1>1. query = "common" /\ (FirstAccount \/ NextAccount \/ UNCHANGED allVars)
  BY StepsOfKind
<1>2. /\ asked \in UNION { [1..n -> Accounts \cup {Stranger}] : n \in 0..MaxAsked }
      /\ at \in {"loop", "done"}
      /\ uidxs \in Seq(Accounts) /\ Taken \in Nat
      /\ \A i \in 1..Len(uidxs) : uidxs[i] = known[Taken + i]
      /\ commons = { v \in Accounts : Taken > 0 /\ \A i \in 1..Taken : v \in account_graph(known[i]) }
      /\ at = "done" => uidxs = <<>> \/ (Taken > 0 /\ commons = {})
      /\ at = "loop" => uidxs # <<>> \/ Taken = 0
  BY <1>1 DEF CommonInv
<1>3. known \in Seq(Accounts) /\ Len(known) \in Nat /\ Len(uidxs) \in Nat
  BY <1>2, KnownFacts
<1>4. UNCHANGED <<store, asked>>
  BY <1>1 DEF FirstAccount, NextAccount, allVars, args, topkVars, vars, store
<1>5. \A u : account_graph(u)' = account_graph(u)
  BY <1>4 DEF account_graph, Times, store
<1>6. \A u : account_graph(u) \subseteq Accounts
  BY DEF account_graph
<1>7. known' = known
  BY <1>4 DEF known
<1>8. CASE UNCHANGED allVars \/ (FirstAccount /\ uidxs = <<>>)
  <2>1. UNCHANGED <<uidxs, commons>> /\ (at' = at \/ (at' = "done" /\ uidxs = <<>>))
    BY <1>8 DEF FirstAccount, allVars, folds
  <2>2. Taken' = Taken
    BY <1>7, <2>1 DEF Taken
  <2> HIDE DEF known
  <2> QED BY <1>2, <1>4, <1>5, <1>7, <2>1, <2>2 DEF CommonInv
<1>9. CASE FirstAccount /\ uidxs # <<>>
  <2>1. /\ Len(uidxs) = Len(known)
        /\ commons' = account_graph(uidxs[1]) /\ uidxs' = Tail(uidxs)
        /\ at' = IF uidxs' = <<>> THEN "done" ELSE "loop"
    BY <1>9 DEF FirstAccount
  <2>2. /\ Taken' = Taken + 1 /\ uidxs' \in Seq(Accounts) /\ uidxs[1] = known[Taken + 1]
        /\ \A i \in 1..Len(uidxs') : uidxs'[i] = known[Taken' + i]
    BY <1>1, <1>4, <1>9, <2>1, TailTakes
  <2>3. Taken = 0
    BY <1>3, <2>1 DEF Taken
  <2>4. commons' = account_graph(known[1]) /\ Taken' = 1
    BY <2>1, <2>2, <2>3
  <2>5. commons' = { v \in Accounts : Taken' > 0 /\ \A i \in 1..Taken' : v \in account_graph(known[i]) }
    <3>1. 1..1 = {1}
      OBVIOUS
    <3> HIDE DEF known
    <3> QED BY <1>6, <2>4, <3>1
  <2>6. /\ asked' \in UNION { [1..n -> Accounts \cup {Stranger}] : n \in 0..MaxAsked }
        /\ at' \in {"loop", "done"} /\ Taken' \in Nat
        /\ at' = "done" => uidxs' = <<>>
        /\ at' = "loop" => uidxs' # <<>>
    BY <1>2, <1>4, <2>1, <2>4
  <2> HIDE DEF known
  <2> QED BY <1>5, <1>7, <2>2, <2>5, <2>6 DEF CommonInv
<1>10. CASE NextAccount
  <2>1. /\ Len(uidxs) < Len(known) /\ at = "loop"
        /\ commons' = account_graph(uidxs[1]) \cap commons /\ uidxs' = Tail(uidxs)
        /\ at' = IF uidxs' = <<>> \/ commons' = {} THEN "done" ELSE "loop"
    BY <1>10 DEF NextAccount
  <2>2. Taken > 0 /\ uidxs # <<>>
    BY <1>2, <1>3, <2>1 DEF Taken
  <2>3. /\ Taken' = Taken + 1 /\ uidxs' \in Seq(Accounts) /\ uidxs[1] = known[Taken + 1]
        /\ \A i \in 1..Len(uidxs') : uidxs'[i] = known[Taken' + i]
    BY <1>1, <1>4, <2>1, <2>2, TailTakes
  <2>4. Taken' \in Nat /\ Taken' > 0 /\ Taken \in Nat
    BY <1>2, <2>3
  <2>5. commons' = { v \in Accounts : Taken' > 0 /\ \A i \in 1..Taken' : v \in account_graph(known[i]) }
    <3> HIDE DEF known
    <3>1. \A i \in 1..Taken' : i \in 1..Taken \/ i = Taken + 1
      BY <2>3, <2>4
    <3>2. 1..Taken \subseteq 1..Taken' /\ Taken + 1 \in 1..Taken'
      BY <2>3, <2>4
    <3>3. commons' = account_graph(known[Taken + 1]) \cap commons
      BY <2>1, <2>3
    <3>4. ASSUME NEW v \in Accounts
          PROVE  v \in commons' <=> \A i \in 1..Taken' : v \in account_graph(known[i])
      BY <1>2, <2>2, <3>1, <3>2, <3>3
    <3>5. commons' \subseteq Accounts
      BY <1>6, <3>3
    <3> QED BY <2>4, <3>4, <3>5
  <2>6. /\ asked' \in UNION { [1..n -> Accounts \cup {Stranger}] : n \in 0..MaxAsked }
        /\ at' \in {"loop", "done"}
        /\ at' = "done" => uidxs' = <<>> \/ (Taken' > 0 /\ commons' = {})
        /\ at' = "loop" => uidxs' # <<>>
    BY <1>2, <1>4, <2>1, <2>4
  <2> HIDE DEF known
  <2> QED BY <1>5, <1>7, <2>3, <2>4, <2>5, <2>6 DEF CommonInv
<1> QED BY <1>1, <1>8, <1>9, <1>10

LEMMA CommonInvImplies == CommonInv => CommonIsIntersection
<1> SUFFICES ASSUME CommonInv, query = "common", at = "done"
             PROVE  commons = { v \in Accounts : Asked # {} /\ \A u \in Asked : v \in account_graph(u) }
  BY DEF CommonIsIntersection, Answered, Asked
<1>1. /\ asked \in UNION { [1..n -> Accounts \cup {Stranger}] : n \in 0..MaxAsked }
      /\ uidxs \in Seq(Accounts) /\ Taken \in Nat
      /\ commons = { v \in Accounts : Taken > 0 /\ \A i \in 1..Taken : v \in account_graph(known[i]) }
      /\ uidxs = <<>> \/ (Taken > 0 /\ commons = {})
  BY DEF CommonInv
<1>2. Len(known) \in Nat /\ { known[i] : i \in 1..Len(known) } = Asked
  BY <1>1, KnownFacts
<1>3. Taken <= Len(known) /\ (uidxs = <<>> => Taken = Len(known))
  <2>1. Len(uidxs) \in Nat /\ (uidxs = <<>> => Len(uidxs) = 0)
    BY <1>1
  <2> HIDE DEF known
  <2> QED BY <1>2, <2>1 DEF Taken
<1> HIDE DEF known
<1>4. Asked # {} <=> Len(known) > 0
  <2>1. Len(known) > 0 => known[1] \in Asked
    BY <1>2
  <2>2. Len(known) = 0 => Asked = {}
    BY <1>2
  <2> QED BY <1>2, <2>1, <2>2
<1>5. \A v : (\A u \in Asked : v \in account_graph(u))
             <=> (\A i \in 1..Len(known) : v \in account_graph(known[i]))
  BY <1>2
<1>6. CASE uidxs = <<>>
  BY <1>1, <1>3, <1>4, <1>5, <1>6
<1>7. CASE Taken > 0 /\ commons = {}
  <2>1. 1..Taken \subseteq 1..Len(known)
    BY <1>1, <1>2, <1>3
  <2>2. ASSUME NEW v \in Accounts, \A u \in Asked : v \in account_graph(u) PROVE v \in commons
    BY <1>1, <1>5, <1>7, <2>1, <2>2
  <2> QED BY <1>7, <2>2
<1> QED BY <1>1, <1>6, <1>7

\* Swapping the sets, clearing one and leaving early, the loop still ends with
\* the accounts that every known account has an edge to.
THEOREM CommonCorrect == QuerySpec => []CommonIsIntersection
BY InitCommon, NextCommon, CommonInvImplies, PTL DEF QuerySpec

-----------------------------------------------------------------------------
(* PostsByFreq *)

\* A post that the loop counts, the bucket it goes to, and what is in there.
Counted(p) ==
  ~Skipped(p) /\ ~(UnixSeconds(data[p]) < UnixSeconds(start) \/ UnixSeconds(data[p]) > UnixSeconds(end))
Id(p) == bucket_id(data[p])
InBucket(id) == { p \in Passed : Counted(p) /\ Id(p) = id }
Bucket(id) == <<id, Cardinality(InBucket(id))>>

BucketsFilled ==
  /\ \A b \in buckets : \E p \in Passed : Counted(p) /\ b = Bucket(Id(p))
  /\ \A p \in Passed : Counted(p) => Bucket(Id(p)) \in buckets

Listed ==
  \E s \in [1..Cardinality(buckets) -> buckets] :
    /\ { s[i] : i \in DOMAIN s } = buckets
    /\ sorted => \A i, j \in DOMAIN s : i < j => s[i][2] >= s[j][2]
    /\ freq = [i \in DOMAIN s |-> <<Label(s[i][1]), s[i][2]>>]

FreqInv ==
  query = "freq" =>
    /\ DatesGiven /\ interval \in Intervals /\ LoopState
    /\ at # "thrown" => BucketsFilled
    /\ at = "done" => Listed

LEMMA InitFreq == QueryInit => FreqInv
<1> SUFFICES ASSUME QueryInit, query = "freq"
             PROVE  DatesGiven /\ interval \in Intervals /\ LoopState /\ BucketsFilled /\ at = "loop"
  BY DEF FreqInv
<1>1. DatesGiven /\ interval \in Intervals
  BY DEF QueryInit, DatesGiven, AnyData
<1>2. posts = Dated /\ at = "loop" /\ buckets = {}
  BY DEF QueryInit
<1>3. Passed = {}
  BY <1>2 DEF Passed
<1> QED BY <1>1, <1>2, <1>3 DEF LoopState, BucketsFilled

\* Taking one more post that is not counted leaves every bucket as it is.
LEMMA BucketsStay ==
  ASSUME BucketsFilled, UNCHANGED <<data, start, end, interval, buckets>>,
         Passed \subseteq Passed', \A p \in Passed' \ Passed : ~Counted(p)
  PROVE  BucketsFilled'
<1>1. \A p : (Counted(p)' <=> Counted(p)) /\ Id(p)' = Id(p)
  BY DEF Counted, Skipped, Id, bucket_id, Minus
<1>2. \A id : InBucket(id)' = InBucket(id)
  BY <1>1 DEF InBucket
<1>3. \A p : Bucket(Id(p))' = Bucket(Id(p))
  BY <1>1, <1>2 DEF Bucket
<1>4. \A b \in buckets' : \E p \in Passed' : Counted(p)' /\ b = Bucket(Id(p))'
  BY <1>1, <1>3 DEF BucketsFilled
<1>5. \A p \in Passed' : Counted(p)' => Bucket(Id(p))' \in buckets'
  BY <1>1, <1>3 DEF BucketsFilled
<1> QED BY <1>4, <1>5 DEF BucketsFilled

LEMMA BucketSize ==
  ASSUME NEW id
  PROVE  IsFiniteSet(InBucket(id)) /\ Cardinality(InBucket(id)) \in Nat
<1>1. InBucket(id) \subseteq Dated
  BY DEF InBucket, Passed
<1>2. IsFiniteSet(InBucket(id))
  BY <1>1, QueriesAssumption, FS_Subset
<1> QED BY <1>2, FS_CardinalityType

\* What the map holds of a bucket is the number of posts counted for it.
LEMMA CountOfBucket ==
  ASSUME BucketsFilled, NEW id
  PROVE  CountOf(id) = Cardinality(InBucket(id))
<1>1. CASE \E b \in buckets : b[1] = id
  <2> DEFINE c == CHOOSE b \in buckets : b[1] = id
  <2>1. c \in buckets /\ c[1] = id
    BY <1>1
  <2>2. PICK p \in Passed : c = Bucket(Id(p))
    BY <2>1 DEF BucketsFilled
  <2>3. c[2] = Cardinality(InBucket(id))
    <3> HIDE DEF c
    <3> QED BY <2>1, <2>2 DEF Bucket
  <2> QED BY <1>1, <2>3 DEF CountOf
<1>2. CASE ~ \E b \in buckets : b[1] = id
  <2>1. \A p \in Passed : Counted(p) => Bucket(Id(p)) \in buckets /\ Bucket(Id(p))[1] = Id(p)
    BY DEF BucketsFilled, Bucket
  <2>2. InBucket(id) = {}
    BY <1>2, <2>1 DEF InBucket
  <2>3. CountOf(id) = 0
    BY <1>2 DEF CountOf
  <2> QED BY <2>2, <2>3, FS_EmptySet
<1> QED BY <1>1, <1>2

LEMMA BucketGrows ==
  ASSUME BucketsFilled, UNCHANGED <<data, start, end, interval>>,
         NEW p \in Dated \ Passed, Counted(p), Passed' = Passed \cup {p},
         buckets' = { b \in buckets : b[1] # Id(p) } \cup {<<Id(p), CountOf(Id(p)) + 1>>}
  PROVE  BucketsFilled'
<1>0. PICK d : d = Id(p)
  OBVIOUS
<1>1. \A q : (Counted(q)' <=> Counted(q)) /\ Id(q)' = Id(q)
  BY DEF Counted, Skipped, Id, bucket_id, Minus
<1>2. \A id : id # d => InBucket(id)' = InBucket(id)
  BY <1>0, <1>1 DEF InBucket
<1>3. InBucket(d)' = InBucket(d) \cup {p}
  BY <1>0, <1>1 DEF InBucket
<1>4. Cardinality(InBucket(d) \cup {p}) = Cardinality(InBucket(d)) + 1
  <2>1. p \notin InBucket(d)
    BY DEF InBucket
  <2> QED BY <2>1, BucketSize, FS_AddElement
<1>5. <<d, CountOf(d) + 1>> = <<d, Cardinality(InBucket(d)')>>
  BY <1>3, <1>4, CountOfBucket
<1>7. \A q : Id(q) # d => Bucket(Id(q))' = Bucket(Id(q))
  BY <1>1, <1>2 DEF Bucket
<1>8. \A q : Id(q) = d => Bucket(Id(q))' = <<d, CountOf(d) + 1>>
  BY <1>1, <1>5 DEF Bucket, InBucket
<1>9. \A q : Bucket(Id(q))[1] = Id(q)
  BY DEF Bucket
<1>10. ASSUME NEW b \in buckets' PROVE \E q \in Passed' : Counted(q)' /\ b = Bucket(Id(q))'
  <2>1. CASE b \in buckets /\ b[1] # d
    <3>1. PICK q \in Passed : Counted(q) /\ b = Bucket(Id(q))
      BY <2>1 DEF BucketsFilled
    <3>2. Id(q) # d
      BY <1>9, <2>1, <3>1
    <3> QED BY <1>1, <1>7, <3>1, <3>2
  <2>2. CASE b = <<d, CountOf(d) + 1>>
    BY <1>0, <1>1, <1>8, <2>2
  <2> QED BY <1>10, <1>0, <2>1, <2>2
<1>11. ASSUME NEW q \in Passed', Counted(q)' PROVE Bucket(Id(q))' \in buckets'
  <2>1. CASE Id(q) = d
    BY <1>0, <1>8, <2>1
  <2>2. CASE Id(q) # d
    <3>1. q \in Passed /\ Counted(q)
      BY <1>1, <1>0, <1>11, <2>2
    <3>2. Bucket(Id(q)) \in buckets
      BY <3>1 DEF BucketsFilled
    <3>3. Bucket(Id(q)) \in buckets'
      BY <1>9, <2>2, <1>0, <3>2
    <3> QED BY <1>7, <2>2, <3>3
  <2> QED BY <2>1, <2>2
<1> QED BY <1>10, <1>11 DEF BucketsFilled

LEMMA NextFreq == FreqInv /\ [QueryNext]_allVars => FreqInv'
<1> SUFFICES ASSUME FreqInv, [QueryNext]_allVars, query' = "freq"
             PROVE  /\ DatesGiven' /\ interval' \in Intervals /\ LoopState'
                    /\ at' # "thrown" => BucketsFilled'
                    /\ at' = "done" => Listed'
  BY DEF FreqInv
<1>1. /\ query = "freq" /\ query' = query
      /\ \/ \E p \in Dated : SkipPost(p) \/ Throw(p) \/ CountPost(p)
         \/ EndLoop \/ SortBuckets \/ UNCHANGED allVars
  BY StepsOfKind
<1>2. /\ DatesGiven /\ interval \in Intervals /\ LoopState
      /\ at # "thrown" => BucketsFilled
      /\ at = "done" => Listed
  BY <1>1 DEF FreqInv
<1>3. /\ UNCHANGED <<query, data, start, end, interval, sorted>>
      /\ \A b : Label(b)' = Label(b)
  <2>1. UNCHANGED <<data, start, end, interval, sorted>>
    BY <1>1 DEF SkipPost, Throw, CountPost, EndLoop, SortBuckets, allVars, args
  <2> QED BY <1>1, <2>1 DEF Label
<1>4. CASE \E p \in Dated : SkipPost(p)
  <2>1. PICK p \in Dated : SkipPost(p)
    BY <1>4
  <2>2. Visit(p) /\ Skipped(p) /\ at' = at /\ UNCHANGED buckets
    BY <2>1 DEF SkipPost, folds
  <2>3. DatesGiven' /\ LoopState'
    BY <1>1, <1>2, <1>3, <2>2, LoopStep
  <2>4. Passed' = Passed \cup {p} /\ at = "loop"
    BY <1>2, <2>2 DEF Visit, Passed, LoopState
  <2>5. \A q \in Passed' \ Passed : ~Counted(q)
    BY <2>2, <2>4 DEF Counted
  <2>6. BucketsFilled'
    BY <1>2, <1>3, <2>2, <2>4, <2>5, BucketsStay
  <2> QED BY <1>2, <1>3, <2>2, <2>3, <2>4, <2>6
<1>5. CASE \E p \in Dated : Throw(p)
  <2>1. PICK p \in Dated : Throw(p)
    BY <1>5
  <2>2. Visit(p) /\ ~Skipped(p) /\ ~Parses(data[p]) /\ at' = "thrown"
    BY <2>1 DEF Throw
  <2> QED BY <1>1, <1>2, <1>3, <2>2, LoopStep
<1>6. CASE \E p \in Dated : CountPost(p)
  <2>1. PICK p \in Dated : CountPost(p)
    BY <1>6
  <2>2. Visit(p) /\ ~Skipped(p) /\ Parses(data[p]) /\ at' = at
    BY <2>1 DEF CountPost, args
  <2>3. DatesGiven' /\ LoopState'
    BY <1>1, <1>2, <1>3, <2>2, LoopStep
  <2>4. Passed' = Passed \cup {p} /\ at = "loop" /\ p \in Dated \ Passed
    BY <1>2, <2>2 DEF Visit, Passed, LoopState
  <2>5. IF UnixSeconds(data[p]) < UnixSeconds(start) \/ UnixSeconds(data[p]) > UnixSeconds(end)
        THEN UNCHANGED buckets
        ELSE buckets' = { b \in buckets : b[1] # Id(p) } \cup {<<Id(p), CountOf(Id(p)) + 1>>}
    BY <2>1 DEF CountPost, Id
  <2>6. CASE Counted(p)
    <3>1. buckets' = { b \in buckets : b[1] # Id(p) } \cup {<<Id(p), CountOf(Id(p)) + 1>>}
      BY <2>5, <2>6 DEF Counted
    <3>2. BucketsFilled'
      BY <1>2, <1>3, <2>4, <2>6, <3>1, BucketGrows
    <3> QED BY <1>2, <1>3, <2>2, <2>3, <2>4, <3>2
  <2>7. CASE ~Counted(p)
    <3>1. UNCHANGED buckets
      BY <2>2, <2>5, <2>7 DEF Counted
    <3>2. \A q \in Passed' \ Passed : ~Counted(q)
      BY <2>4, <2>7
    <3>3. BucketsFilled'
      BY <1>2, <1>3, <2>4, <3>1, <3>2, BucketsStay
    <3> QED BY <1>2, <1>3, <2>2, <2>3, <2>4, <3>3
  <2> QED BY <2>6, <2>7
<1>7. CASE EndLoop \/ SortBuckets \/ UNCHANGED allVars
  <2>1. /\ UNCHANGED <<posts, buckets>>
        /\ \/ at = "loop" /\ posts = {} /\ at' \in {"sort", "done"}
           \/ at = "sort" /\ at' = "done"
           \/ at' = at
    BY <1>7 DEF EndLoop, SortBuckets, allVars, args, folds
  <2>2. DatesGiven' /\ LoopState'
    BY <1>1, <1>2, <1>3, <2>1, LoopStep
  <2>3. Passed' = Passed /\ (at' # "thrown" => at # "thrown")
    BY <2>1 DEF Passed
  <2>4. at' # "thrown" => BucketsFilled'
    BY <1>2, <1>3, <2>1, <2>3, BucketsStay
  <2>5. at' = "done" => Listed'
    <3>1. CASE SortBuckets
      BY <1>3, <2>1, <3>1 DEF SortBuckets, Listed
    <3>2. CASE EndLoop
      BY <1>1, <3>2 DEF EndLoop
    <3>3. CASE UNCHANGED allVars
      <4>1. at' = at /\ freq' = freq
        BY <3>3 DEF allVars, folds
      <4> QED BY <1>2, <1>3, <2>1, <4>1 DEF Listed
    <3> QED BY <1>7, <3>1, <3>2, <3>3
  <2> QED BY <1>2, <1>3, <2>2, <2>4, <2>5
<1> QED BY <1>1, <1>4, <1>5, <1>6, <1>7

\* A bucket number that an int can hold is the quotient, and its label is the
\* first second of the bucket.
LEMMA LabelTimes ==
  ASSUME DatesGiven, interval \in Intervals, Fits,
         NEW p \in Dated, Counted(p), Parses(data[p]),
         NEW q \in Dated, Counted(q), Parses(data[q])
  PROVE  Minus(data[q], Label(Id(p))) \in 0..(interval - 1) <=> Id(p) = Id(q)
<1> DEFINE S == UnixSeconds(start)
           m(x) == UnixSeconds(data[x]) - S
           quotient(x) == m(x) \div interval
<1>1. IsDate(start) /\ IsDate(end) /\ IsDate(data[p]) /\ IsDate(data[q])
  BY EndsAreDates, ParsedIsDate DEF Counted
<1>2. S \in Nat /\ UnixSeconds(end) \in Nat /\ UnixSeconds(data[p]) \in Nat /\ UnixSeconds(data[q]) \in Nat
  BY <1>1, SecondsOfDate
<1>3. interval \in Nat \ {0} /\ INT_MAX \in Nat
  BY QueriesAssumption
<1>4. /\ m(p) \in Nat /\ m(p) <= Minus(end, start)
      /\ m(q) \in Nat /\ m(q) <= Minus(end, start)
  BY <1>2 DEF Counted, Minus
<1>5. \A a, b \in Nat : a <= b => a \div interval \in Nat /\ a \div interval <= b \div interval
  <2> TAKE a, b \in Nat
  <2> HAVE a <= b
  <2>1. /\ a \div interval \in Nat /\ a % interval \in 0..(interval - 1)
        /\ a = (a % interval) + (a \div interval) * interval
    BY <1>3, DivMod
  <2>2. /\ b \div interval \in Nat /\ b % interval \in 0..(interval - 1)
        /\ b = (b % interval) + (b \div interval) * interval
    BY <1>3, DivMod
  <2>3. ~(b \div interval < a \div interval)
    <3> SUFFICES ASSUME b \div interval < a \div interval PROVE FALSE
      OBVIOUS
    <3>1. (b % interval) + (b \div interval) * interval < (a % interval) + (a \div interval) * interval
      BY <1>3, <2>1, <2>2, TwoDigits
    <3> QED BY <2>1, <2>2, <3>1
  <2> QED BY <2>1, <2>2, <2>3
<1>6. Minus(end, start) \in Nat /\ Minus(end, start) \div interval <= INT_MAX
  BY <1>2, <1>4 DEF Fits, Minus
<1>7. \A n \in 0..INT_MAX : Int2W(n) = n
  BY <1>3 DEF Int2W
<1>8. Id(p) = quotient(p) /\ quotient(p) \in Nat /\ Id(q) = quotient(q) /\ quotient(q) \in Nat
  <2>1. quotient(p) \in 0..INT_MAX /\ quotient(q) \in 0..INT_MAX
    <3>1. Minus(end, start) \div interval \in Nat
      BY <1>5, <1>6
    <3> QED BY <1>3, <1>4, <1>5, <1>6, <3>1, SMTT(30)
  <2>2. Id(p) = Int2W(quotient(p)) /\ Id(q) = Int2W(quotient(q))
    BY DEF Id, bucket_id, Minus
  <2> QED BY <1>7, <2>1, <2>2
<1>9. UnixSeconds(Label(Id(p))) = S + quotient(p) * interval
  <2>1. S + quotient(p) * interval \in Nat
    <3> HIDE DEF S, quotient
    <3> QED BY <1>2, <1>3, <1>8
  <2>2. Label(Id(p)) = FromUnixSeconds(S + quotient(p) * interval)
    BY <1>8, <2>1 DEF Label
  <2> HIDE DEF S, quotient
  <2> QED BY <2>1, <2>2, FromUnixSecondsIsRight
<1>10. Minus(data[q], Label(Id(p))) = m(q) - quotient(p) * interval
  <2> HIDE DEF quotient
  <2> QED BY <1>2, <1>3, <1>8, <1>9 DEF Minus
<1>11. /\ m(q) % interval \in 0..(interval - 1)
       /\ m(q) = (m(q) % interval) + quotient(q) * interval
  BY <1>3, <1>4, DivMod
<1> HIDE DEF m, quotient
<1>12. CASE Id(p) = Id(q)
  BY <1>3, <1>4, <1>8, <1>10, <1>11, <1>12
<1>13. ASSUME m(q) - quotient(p) * interval \in 0..(interval - 1) PROVE Id(p) = Id(q)
  <2> DEFINE r == m(q) - quotient(p) * interval
  <2>1. r \in 0..(interval - 1) /\ r \in Nat /\ m(q) = r + quotient(p) * interval
    BY <1>3, <1>4, <1>8, <1>13
  <2> HIDE DEF r
  <2>2. m(q) % interval \in Nat
    BY <1>3, <1>11
  <2>3. ~(quotient(p) < quotient(q))
    <3> SUFFICES ASSUME quotient(p) < quotient(q) PROVE FALSE
      OBVIOUS
    <3>1. r + quotient(p) * interval < (m(q) % interval) + quotient(q) * interval
      BY <1>3, <1>8, <2>1, <2>2, TwoDigits
    <3> QED BY <1>4, <1>11, <2>1, <3>1
  <2>4. ~(quotient(q) < quotient(p))
    <3> SUFFICES ASSUME quotient(q) < quotient(p) PROVE FALSE
      OBVIOUS
    <3>1. (m(q) % interval) + quotient(q) * interval < r + quotient(p) * interval
      BY <1>3, <1>8, <1>11, <2>1, TwoDigits
    <3> QED BY <1>4, <1>11, <2>1, <3>1
  <2> QED BY <1>8, <2>3, <2>4
<1> QED BY <1>10, <1>12, <1>13

\* The order that the sort leaves lists each bucket once.
LEMMA ListedOnce ==
  ASSUME BucketsFilled, NEW s \in [1..Cardinality(buckets) -> buckets],
         { s[i] : i \in DOMAIN s } = buckets
  PROVE  /\ DOMAIN s = 1..Cardinality(buckets)
         /\ \A b \in buckets : \E i \in DOMAIN s : s[i] = b
         /\ \A i, j \in DOMAIN s : s[i] = s[j] => i = j
<1> DEFINE C == { p \in Passed : Counted(p) }
           f == [p \in C |-> Bucket(Id(p))]
           N == Cardinality(buckets)
<1>1. IsFiniteSet(C)
  <2>1. C \subseteq Dated
    BY DEF Passed
  <2> QED BY <2>1, QueriesAssumption, FS_Subset
<1>2. f \in Surjection(C, buckets)
  BY DEF Surjection, BucketsFilled
<1>3. IsFiniteSet(buckets) /\ N \in Nat
  <2> HIDE DEF C, f
  <2>1. IsFiniteSet(buckets)
    BY <1>1, <1>2, FS_Surjection
  <2> QED BY <2>1, FS_CardinalityType
<1> HIDE DEF C, f
<1>4. IsFiniteSet(1..N) /\ Cardinality(1..N) = N
  BY <1>3, FS_Interval
<1>5. s \in Surjection(1..N, buckets)
  BY DEF Surjection
<1>6. s \in Injection(1..N, buckets)
  <2> HIDE DEF N
  <2>1. N = Cardinality(buckets)
    BY DEF N
  <2> QED BY <1>4, <1>5, <2>1, FS_SurjSameCardinalityImpliesInj
<1> QED BY <1>6 DEF Injection, IsInjective

LEMMA FreqInvImplies == FreqInv => FreqCountsIntervals
<1> SUFFICES ASSUME FreqInv, query = "freq" PROVE FreqCountsIntervals
  BY DEF FreqCountsIntervals, Answered
<1>1. FailsOnBadTime
  BY LoopFails DEF FreqInv
<1> DEFINE At0(p, d) == Minus(data[p], d) \in 0..(interval - 1)
           Here(d) == { p \in Dated : InRange(p) /\ At0(p, d) }
<1> SUFFICES ASSUME at = "done", Fits
             PROVE  /\ \A i \in DOMAIN freq :
                         /\ freq[i][2] = Cardinality(Here(freq[i][1]))
                         /\ \A j \in DOMAIN freq : i < j => /\ freq[i][1] # freq[j][1]
                                                            /\ sorted => freq[i][2] >= freq[j][2]
                    /\ \A p \in Dated : InRange(p) => \E i \in DOMAIN freq : At0(p, freq[i][1])
  BY <1>1 DEF FreqCountsIntervals, Answered
<1>2. /\ DatesGiven /\ interval \in Intervals /\ Passed = Dated /\ BucketsFilled /\ Listed
      /\ \A p \in Dated : Skipped(p) \/ Parses(data[p])
  BY DEF FreqInv, LoopState, Passed
<1>3. \A p \in Dated : InRange(p) <=> Counted(p)
  <2> TAKE p \in Dated
  <2> SUFFICES ASSUME ~Skipped(p) PROVE InRange(p) <=> Counted(p)
    BY DEF InRange, Counted
  <2>1. IsDate(start) /\ IsDate(end) /\ IsDate(data[p])
    BY <1>2, EndsAreDates, ParsedIsDate
  <2>2. UnixSeconds(start) \in Nat /\ UnixSeconds(end) \in Nat /\ UnixSeconds(data[p]) \in Nat
    BY <2>1, SecondsOfDate
  <2>3. /\ AtMost(start, data[p]) <=> UnixSeconds(start) <= UnixSeconds(data[p])
        /\ AtMost(data[p], end) <=> UnixSeconds(data[p]) <= UnixSeconds(end)
    BY <2>1, OrderIsSeconds
  <2> QED BY <2>2, <2>3 DEF InRange, Counted
<1>4. \A p, q \in Dated : Counted(p) /\ Counted(q) => (At0(q, Label(Id(p))) <=> Id(p) = Id(q))
  <2> TAKE p, q \in Dated
  <2> HAVE Counted(p) /\ Counted(q)
  <2>1. Parses(data[p]) /\ Parses(data[q])
    BY <1>2 DEF Counted
  <2> QED BY <1>2, <2>1, LabelTimes
<1> HIDE DEF At0
<1>5. PICK s \in [1..Cardinality(buckets) -> buckets] :
         /\ { s[i] : i \in DOMAIN s } = buckets
         /\ sorted => \A i, j \in DOMAIN s : i < j => s[i][2] >= s[j][2]
         /\ freq = [i \in DOMAIN s |-> <<Label(s[i][1]), s[i][2]>>]
  BY <1>2 DEF Listed
<1>6. /\ DOMAIN s = 1..Cardinality(buckets) /\ DOMAIN freq = DOMAIN s
      /\ \A b \in buckets : \E i \in DOMAIN s : s[i] = b
      /\ \A i, j \in DOMAIN s : s[i] = s[j] => i = j
      /\ \A i \in DOMAIN s : freq[i][1] = Label(s[i][1]) /\ freq[i][2] = s[i][2]
  BY <1>2, <1>5, ListedOnce
<1>7. \A i \in DOMAIN s : \E p \in Dated : Counted(p) /\ s[i] = Bucket(Id(p))
  BY <1>2, <1>5 DEF BucketsFilled
<1>8. \A p \in Dated : Counted(p) => Here(Label(Id(p))) = InBucket(Id(p))
  BY <1>2, <1>3, <1>4 DEF InBucket
<1> HIDE DEF Here
<1>9. ASSUME NEW i \in DOMAIN freq PROVE freq[i][2] = Cardinality(Here(freq[i][1]))
  <2>1. PICK p \in Dated : Counted(p) /\ s[i] = Bucket(Id(p))
    BY <1>6, <1>7
  <2>2. freq[i][1] = Label(Id(p)) /\ freq[i][2] = Cardinality(InBucket(Id(p)))
    BY <1>6, <2>1 DEF Bucket
  <2> QED BY <1>8, <2>1, <2>2
<1>10. ASSUME NEW i \in DOMAIN freq, NEW j \in DOMAIN freq, i < j
       PROVE  freq[i][1] # freq[j][1] /\ (sorted => freq[i][2] >= freq[j][2])
  <2>1. PICK p \in Dated : Counted(p) /\ s[i] = Bucket(Id(p))
    BY <1>6, <1>7
  <2>2. PICK q \in Dated : Counted(q) /\ s[j] = Bucket(Id(q))
    BY <1>6, <1>7
  <2>3. i # j /\ i \in Int /\ j \in Int
    <3>1. i \in Int /\ j \in Int
      BY <1>6
    <3> QED BY <1>10, <3>1
  <2>4. Id(p) # Id(q)
    BY <1>6, <2>1, <2>2, <2>3
  <2>5. Label(Id(p)) # Label(Id(q))
    BY <1>4, <2>1, <2>2, <2>4
  <2>6. freq[i][1] = Label(Id(p)) /\ freq[j][1] = Label(Id(q))
    BY <1>6, <2>1, <2>2 DEF Bucket
  <2> QED BY <1>5, <1>6, <1>10, <2>5, <2>6
<1>11. ASSUME NEW p \in Dated, InRange(p) PROVE \E i \in DOMAIN freq : At0(p, freq[i][1])
  <2>1. Counted(p) /\ Bucket(Id(p)) \in buckets
    BY <1>2, <1>3, <1>11 DEF BucketsFilled
  <2>2. PICK i \in DOMAIN s : s[i] = Bucket(Id(p))
    BY <1>6, <2>1
  <2>3. freq[i][1] = Label(Id(p))
    BY <1>6, <2>2 DEF Bucket
  <2>4. At0(p, Label(Id(p)))
    BY <1>4, <2>1
  <2> QED BY <1>6, <2>3, <2>4
<1> QED BY <1>9, <1>10, <1>11

\* In whatever order the hash map yields posts and buckets, PostsByFreq has one
\* label for each interval with a post, in descending order if that is asked for,
\* and the count of a label is the number of posts of its interval.
THEOREM FreqCorrect == QuerySpec => []FreqCountsIntervals
BY InitFreq, NextFreq, FreqInvImplies, PTL DEF QuerySpec

-----------------------------------------------------------------------------
(* GetTopkAccounts: what the counters add up to *)

StoreLoaded ==
  /\ unnamed \subseteq Accounts
  /\ listed \in [Posts -> Nat]
  /\ author \in [Posts -> (Accounts \ unnamed) \cup {NoAuthor}]
  /\ received \in [Posts -> UNION { [1..n -> Accounts] : n \in 0..MaxReceived }]
  /\ missed \in [Posts -> 0..MaxReceived]
  /\ \A p \in Posts : /\ missed[p] <= Len(received[p])
                      /\ author[p] = NoAuthor => missed[p] = Len(received[p])

\* The interactions of p by v that are in the account graph.
Kept(p, v) == { k \in DOMAIN received[p] : k > missed[p] /\ received[p][k] = v }

LEMMA StoreFacts ==
  ASSUME StoreLoaded, NEW p \in Posts
  PROVE  /\ Len(received[p]) \in 0..MaxReceived /\ DOMAIN received[p] = 1..Len(received[p])
         /\ \A k \in DOMAIN received[p] : received[p][k] \in Accounts
         /\ missed[p] \in Nat
         /\ DOMAIN received[p] \subseteq 1..MaxReceived
         /\ \A k \in DOMAIN received[p] : k > missed[p] => author[p] \in Accounts
         /\ IsFiniteSet(1..Len(received[p])) /\ Cardinality(1..Len(received[p])) = Len(received[p])
         /\ \A v : IsFiniteSet(Kept(p, v)) /\ Cardinality(Kept(p, v)) \in Nat
         /\ \A v : Cardinality(Kept(p, v)) > 0 <=> Kept(p, v) # {}
<1>1. MaxReceived \in Nat
  BY TopkAssumption
<1>2. PICK n \in 0..MaxReceived : received[p] \in [1..n -> Accounts]
  BY SMTT(30) DEF StoreLoaded
<1>3. /\ Len(received[p]) = n /\ DOMAIN received[p] = 1..n /\ n \in Nat
      /\ \A k \in DOMAIN received[p] : received[p][k] \in Accounts
  BY <1>1, <1>2
<1>4. missed[p] \in Nat
  BY <1>1 DEF StoreLoaded
<1>5. \A k \in DOMAIN received[p] : k > missed[p] => author[p] \in Accounts
  BY <1>3, <1>4 DEF StoreLoaded
<1>6. IsFiniteSet(1..n) /\ Cardinality(1..n) = n
  <2>1. n \in Nat /\ n \in Int /\ 1 \in Int
    BY <1>3
  <2>2. IsFiniteSet(1..n) /\ Cardinality(1..n) = IF 1 > n THEN 0 ELSE n - 1 + 1
    BY ONLY <2>1, FS_Interval
  <2> QED BY ONLY <2>1, <2>2
<1>7. ASSUME NEW v
      PROVE  /\ IsFiniteSet(Kept(p, v)) /\ Cardinality(Kept(p, v)) \in Nat
             /\ Cardinality(Kept(p, v)) > 0 <=> Kept(p, v) # {}
  <2>1. Kept(p, v) \subseteq 1..n
    BY <1>3 DEF Kept
  <2>2. IsFiniteSet(Kept(p, v))
    BY <1>6, <2>1, FS_Subset
  <2>3. Cardinality(Kept(p, v)) \in Nat
    BY <2>2, FS_CardinalityType
  <2>4. Cardinality(Kept(p, v)) = 0 <=> Kept(p, v) = {}
    BY <2>2, FS_EmptySet
  <2> QED BY <2>2, <2>3, <2>4
<1> QED BY <1>1, <1>3, <1>4, <1>5, <1>6, <1>7

LEMMA TimesFacts ==
  ASSUME StoreLoaded, NEW p \in Posts, NEW u, NEW v
  PROVE  /\ Times(u, v, p) = IF author[p] = u THEN Cardinality(Kept(p, v)) ELSE 0
         /\ Times(u, v, p) \in Nat
         /\ Times(u, v, p) > 0 <=> author[p] = u /\ Kept(p, v) # {}
<1>1. Times(u, v, p) = IF author[p] = u THEN Cardinality(Kept(p, v)) ELSE 0
  BY DEF Times, Kept
<1> QED BY <1>1, StoreFacts

\* Entered interactions by v with posts of u.
EnteredBy(v) == { e \in Entered : received[e[1]][e[2]] = v }
Between(u, v) == { e \in EnteredBy(v) : author[e[1]] = u }

LEMMA StoredFinite == IsFiniteSet(Stored)
<1>1. MaxReceived \in Nat /\ 1 \in Int /\ IsFiniteSet(Posts)
  BY TopkAssumption
<1>2. IsFiniteSet(1..MaxReceived)
  BY <1>1, FS_Interval
<1>3. IsFiniteSet(Posts \X (1..MaxReceived))
  BY <1>1, <1>2, FS_Product
<1>4. Stored \subseteq Posts \X (1..MaxReceived)
  BY DEF Stored
<1> QED BY <1>3, <1>4, FS_Subset

LEMMA EnteredFacts ==
  ASSUME StoreLoaded
  PROVE  /\ IsFiniteSet(Entered)
         /\ \A e \in Entered : /\ e[1] \in Posts /\ author[e[1]] \in Accounts
                               /\ received[e[1]][e[2]] \in Accounts
                               /\ e = <<e[1], e[2]>> /\ e[2] \in Kept(e[1], received[e[1]][e[2]])
         /\ \A p \in Posts : \A v : \A k \in Kept(p, v) : <<p, k>> \in Entered /\ received[p][k] = v
<1>1. IsFiniteSet(Entered)
  BY StoredFinite, FS_Subset DEF Entered
<1>2. ASSUME NEW e \in Entered
      PROVE  /\ e[1] \in Posts /\ author[e[1]] \in Accounts
             /\ received[e[1]][e[2]] \in Accounts
             /\ e = <<e[1], e[2]>> /\ e[2] \in Kept(e[1], received[e[1]][e[2]])
  <2>1. e[1] \in Posts /\ e = <<e[1], e[2]>> /\ e[2] \in DOMAIN received[e[1]] /\ e[2] > missed[e[1]]
    BY DEF Entered, Stored
  <2> QED BY <2>1, StoreFacts DEF Kept
<1>3. ASSUME NEW p \in Posts, NEW v, NEW k \in Kept(p, v)
      PROVE  <<p, k>> \in Entered /\ received[p][k] = v
  <2>1. k \in DOMAIN received[p] /\ k > missed[p] /\ received[p][k] = v
    BY DEF Kept
  <2>2. k \in 1..MaxReceived
    BY <2>1, StoreFacts
  <2> QED BY <2>1, <2>2 DEF Entered, Stored
<1> QED BY <1>1, <1>2, <1>3

\* The account graph has an edge where an interaction was entered.
LEMMA GraphIsEntered ==
  ASSUME StoreLoaded, NEW u, NEW v
  PROVE  /\ v \in account_graph(u) <=> Between(u, v) # {}
         /\ v \in account_graph(u) => v \in Accounts /\ u \in Accounts
         /\ \A p \in Posts : Times(u, v, p) > 0 <=> \E e \in Between(u, v) : e[1] = p
<1>1. ASSUME NEW p \in Posts
      PROVE  Times(u, v, p) > 0 <=> \E e \in Between(u, v) : e[1] = p
  <2>1. ASSUME author[p] = u, NEW k \in Kept(p, v) PROVE \E e \in Between(u, v) : e[1] = p
    <3>1. <<p, k>> \in Entered /\ received[p][k] = v
      BY <2>1, EnteredFacts
    <3>2. <<p, k>> \in Between(u, v)
      BY <2>1, <3>1 DEF Between, EnteredBy
    <3> QED BY <3>2
  <2>2. ASSUME NEW e \in Between(u, v), e[1] = p PROVE author[p] = u /\ Kept(p, v) # {}
    <3>1. e \in Entered /\ received[e[1]][e[2]] = v /\ author[e[1]] = u
      BY DEF Between, EnteredBy
    <3>2. e[2] \in Kept(e[1], v)
      BY <3>1, EnteredFacts
    <3> QED BY <2>2, <3>1, <3>2
  <2> QED BY <2>1, <2>2, TimesFacts
<1>2. \A e \in Between(u, v) : e[1] \in Posts /\ v \in Accounts /\ u \in Accounts
  BY EnteredFacts DEF Between, EnteredBy
<1>3. v \in account_graph(u) <=> v \in Accounts /\ \E p \in Posts : Times(u, v, p) > 0
  BY DEF account_graph
<1> QED BY <1>1, <1>2, <1>3

\* The data of an edge are the interactions entered between its accounts.
LEMMA EdgeSize ==
  ASSUME StoreLoaded, NEW u, NEW v
  PROVE  edge_size(u, v) = Cardinality(Between(u, v))
<1> DEFINE E == Between(u, v)
           key == [e \in E |-> e[1]]
           f == [p \in Posts |-> Times(u, v, p)]
<1>1. E \subseteq Entered /\ IsFiniteSet(E) /\ IsFiniteSet(Posts)
  <2>1. E \subseteq Entered
    BY DEF Between, EnteredBy
  <2> QED BY <2>1, EnteredFacts, FS_Subset, TopkAssumption
<1>2. \A e \in E : key[e] \in Posts /\ key[e] = e[1]
  BY <1>1, EnteredFacts
<1>3. ASSUME NEW p \in Posts PROVE f[p] = Cardinality(Part(E, key, p))
  <2>1. CASE author[p] = u
    <3>1. Part(E, key, p) = {p} \X Kept(p, v)
      <4>1. ASSUME NEW e \in Part(E, key, p) PROVE e \in {p} \X Kept(p, v)
        <5>1. e \in Entered /\ received[e[1]][e[2]] = v /\ e[1] = p
          BY <1>2 DEF Part, Between, EnteredBy
        <5>2. e = <<e[1], e[2]>> /\ e[2] \in Kept(p, v)
          BY <5>1, EnteredFacts
        <5> QED BY <5>1, <5>2
      <4>2. ASSUME NEW k \in Kept(p, v) PROVE <<p, k>> \in Part(E, key, p)
        <5>1. <<p, k>> \in Entered /\ received[p][k] = v
          BY EnteredFacts
        <5>2. <<p, k>> \in E
          BY <2>1, <5>1 DEF Between, EnteredBy
        <5> QED BY <1>2, <5>2 DEF Part
      <4> QED BY <4>1, <4>2
    <3>2. Cardinality({p} \X Kept(p, v)) = Cardinality(Kept(p, v))
      BY StoreFacts, ColumnSize
    <3> QED BY <2>1, <3>1, <3>2, TimesFacts
  <2>2. CASE author[p] # u
    <3>1. Part(E, key, p) = {}
      BY <1>2, <2>2 DEF Part, Between, EnteredBy
    <3> QED BY <2>2, <3>1, TimesFacts, FS_EmptySet
  <2> QED BY <2>1, <2>2
<1>4. edge_size(u, v) = SetSum(f, Posts)
  BY DEF edge_size
<1> HIDE DEF E, key, f
<1>5. SetSum(f, Posts) = Cardinality(E)
  BY <1>1, <1>2, <1>3, CountByName
<1> QED BY <1>4, <1>5 DEF E

\* What each edge to v adds to the counter of v, and what the label counts, as
\* the parts and the whole of one set.
EdgeCount(v) == [u \in Accounts |-> IF v \in account_graph(u) THEN Contribution(u, v) ELSE 0]

LEMMA TimesAddUp ==
  ASSUME StoreLoaded, NEW v, label = "INTERACTING_TIMES"
  PROVE  Sum(EdgeCount(v), 0, num_accounts) = Meaning(v, Entered)
<1> DEFINE E == EnteredBy(v)
           key == [e \in E |-> author[e[1]]]
           n == num_accounts
<1>1. E \subseteq Entered /\ IsFiniteSet(E)
  <2>1. E \subseteq Entered
    BY DEF EnteredBy
  <2> QED BY <2>1, EnteredFacts, FS_Subset
<1>2. \A e \in E : key[e] \in 0..(n - 1)
  BY <1>1, EnteredFacts DEF Accounts
<1>3. ASSUME NEW u \in 0..(n - 1) PROVE EdgeCount(v)[u] = Cardinality(Part(E, key, u))
  <2>1. Part(E, key, u) = Between(u, v)
    BY DEF Part, Between
  <2>2. EdgeCount(v)[u] = IF v \in account_graph(u) THEN edge_size(u, v) ELSE 0
    BY DEF EdgeCount, Contribution, Accounts
  <2>3. v \notin account_graph(u) => Cardinality(Between(u, v)) = 0
    BY GraphIsEntered, FS_EmptySet
  <2> QED BY <2>1, <2>2, <2>3, EdgeSize
<1>4. 0 \in Nat /\ n \in Nat /\ 0 <= n
  BY TopkAssumption
<1>5. SizesOfParts(EdgeCount(v), E, key, 0, n)
  BY <1>2, <1>3 DEF SizesOfParts
<1>6. Sum(EdgeCount(v), 0, n) = Cardinality(E)
  <2> HIDE DEF E, key, n
  <2> QED BY <1>1, <1>4, <1>5, CountByNumber
<1> QED BY <1>6 DEF Meaning, EnteredBy

LEMMA PostsAddUp ==
  ASSUME StoreLoaded, NEW v, label = "INTERACTING_POSTS"
  PROVE  Sum(EdgeCount(v), 0, num_accounts) = Meaning(v, Entered)
<1> DEFINE E == { e[1] : e \in EnteredBy(v) }
           key == [p \in E |-> author[p]]
           n == num_accounts
<1>1. E \subseteq Posts /\ IsFiniteSet(E)
  <2>1. E \subseteq Posts
    BY EnteredFacts DEF EnteredBy
  <2> QED BY <2>1, FS_Subset, TopkAssumption
<1>2. \A p \in E : key[p] \in 0..(n - 1)
  BY EnteredFacts DEF EnteredBy, Accounts
<1>3. ASSUME NEW u \in 0..(n - 1) PROVE EdgeCount(v)[u] = Cardinality(Part(E, key, u))
  <2>1. Part(E, key, u) = { p \in Posts : Times(u, v, p) > 0 }
    <3>1. ASSUME NEW p \in Part(E, key, u) PROVE p \in Posts /\ Times(u, v, p) > 0
      <4>1. PICK e \in EnteredBy(v) : e[1] = p /\ author[p] = u
        BY DEF Part
      <4>2. p \in Posts /\ e \in Between(u, v)
        BY <1>1, <4>1 DEF Between
      <4> QED BY <4>1, <4>2, GraphIsEntered
    <3>2. ASSUME NEW p \in Posts, Times(u, v, p) > 0 PROVE p \in Part(E, key, u)
      <4>1. PICK e \in Between(u, v) : e[1] = p
        BY <3>2, GraphIsEntered
      <4>2. p \in E /\ author[p] = u
        BY <4>1 DEF Between
      <4> QED BY <4>2 DEF Part
    <3> QED BY <3>1, <3>2
  <2>2. EdgeCount(v)[u] = IF v \in account_graph(u) THEN edge_posts(u, v) ELSE 0
    BY DEF EdgeCount, Contribution, Accounts
  <2>3. v \notin account_graph(u) => { p \in Posts : Times(u, v, p) > 0 } = {}
    BY GraphIsEntered
  <2> QED BY <2>1, <2>2, <2>3, FS_EmptySet DEF edge_posts
<1>4. 0 \in Nat /\ n \in Nat /\ 0 <= n
  BY TopkAssumption
<1>5. SizesOfParts(EdgeCount(v), E, key, 0, n)
  BY <1>2, <1>3 DEF SizesOfParts
<1>6. Sum(EdgeCount(v), 0, n) = Cardinality(E)
  <2> HIDE DEF E, key, n
  <2> QED BY <1>1, <1>4, <1>5, CountByNumber
<1> QED BY <1>6 DEF Meaning, EnteredBy

LEMMA AccountsAddUp ==
  ASSUME StoreLoaded, NEW v, label = "INTERACTING_ACCOUNTS"
  PROVE  Sum(EdgeCount(v), 0, num_accounts) = Meaning(v, Entered)
<1> DEFINE E == { author[e[1]] : e \in EnteredBy(v) }
           key == [u \in E |-> u]
           n == num_accounts
<1>1. \A u \in E : u \in 0..(n - 1)
  BY EnteredFacts DEF EnteredBy, Accounts
<1>2. IsFiniteSet(E)
  <2>1. n \in Nat /\ IsFiniteSet(0..(n - 1))
    <3>1. n \in Nat /\ 0 \in Int /\ n - 1 \in Int
      BY TopkAssumption
    <3> QED BY <3>1, FS_Interval
  <2> HIDE DEF E
  <2> QED BY <1>1, <2>1, FS_Subset
<1>3. ASSUME NEW u \in 0..(n - 1) PROVE EdgeCount(v)[u] = Cardinality(Part(E, key, u))
  <2>1. u \in E <=> v \in account_graph(u)
    BY GraphIsEntered DEF Between
  <2>2. Part(E, key, u) = IF u \in E THEN {u} ELSE {}
    <3> HIDE DEF E
    <3> QED BY DEF Part
  <2>3. EdgeCount(v)[u] = IF v \in account_graph(u) THEN 1 ELSE 0
    BY DEF EdgeCount, Contribution, Accounts
  <2>4. Cardinality({u}) = 1 /\ Cardinality({}) = 0
    BY FS_EmptySet, FS_Singleton
  <2> HIDE DEF E, key
  <2> QED BY <2>1, <2>2, <2>3, <2>4
<1>4. 0 \in Nat /\ n \in Nat /\ 0 <= n
  BY TopkAssumption
<1>5. SizesOfParts(EdgeCount(v), E, key, 0, n)
  <2>1. \A u \in E : key[u] = u
    OBVIOUS
  <2> HIDE DEF E, key
  <2> QED BY <1>1, <1>3, <2>1 DEF SizesOfParts
<1>6. Sum(EdgeCount(v), 0, n) = Cardinality(E)
  <2> HIDE DEF E, key, n
  <2> QED BY <1>2, <1>4, <1>5, CountByNumber
<1>7. E \ {NoAuthor} = E
  <2>1. NoAuthor \notin 0..(n - 1)
    BY TopkAssumption DEF Accounts
  <2> HIDE DEF E, n
  <2> QED BY <1>1, <2>1
<1> QED BY <1>6, <1>7 DEF Meaning, EnteredBy

LEMMA EdgesAddUp ==
  ASSUME StoreLoaded, NEW v, label \in Scattered
  PROVE  Sum(EdgeCount(v), 0, num_accounts) = Meaning(v, Entered)
BY TimesAddUp, PostsAddUp, AccountsAddUp DEF Scattered

\* The other labels are read off the account's own vectors.
LEMMA OwnIsMeaning ==
  ASSUME StoreLoaded, NEW u, label \in Labels \ Scattered, ~Listless(u)
  PROVE  Own(u) = Meaning(u, Entered)
<1>1. CASE label = "POSTS"
  <2> DEFINE E == { p \in Posts : author[p] = u }
             key == [p \in E |-> p]
             f == [p \in Posts |-> account_posts(u, p)]
  <2>1. IsFiniteSet(Posts) /\ IsFiniteSet(E) /\ E \subseteq Posts
    <3>1. IsFiniteSet(Posts) /\ E \subseteq Posts
      BY TopkAssumption
    <3> QED BY <3>1, FS_Subset
  <2>2. ASSUME NEW p \in Posts PROVE f[p] = Cardinality(Part(E, key, p))
    <3>1. Part(E, key, p) = IF p \in E THEN {p} ELSE {}
      <4>1. \A q \in E : key[q] = q
        OBVIOUS
      <4> HIDE DEF E, key
      <4> QED BY <4>1 DEF Part
    <3>2. f[p] = IF p \in E THEN 1 ELSE 0
      BY <1>1 DEF account_posts, Listless
    <3>3. Cardinality({p}) = 1 /\ Cardinality({}) = 0
      BY FS_EmptySet, FS_Singleton
    <3> HIDE DEF E, key, f
    <3> QED BY <3>1, <3>2, <3>3
  <2>3. \A p \in E : key[p] \in Posts
    OBVIOUS
  <2>4. SetSum(f, Posts) = Cardinality(E)
    <3> HIDE DEF E, key, f
    <3> QED BY <2>1, <2>2, <2>3, CountByName
  <2> QED BY <1>1, <2>4 DEF Own, Meaning
<1>2. CASE label = "INTERACTED_ACCOUNTS"
  <2> DEFINE D == { received[e[1]][e[2]] : e \in { d \in Entered : author[d[1]] = u } }
  <2>1. \A v : v \in account_graph(u) <=> \E e \in Between(u, v) : TRUE
    BY GraphIsEntered
  <2>2. \A v : (\E e \in Between(u, v) : TRUE) <=> v \in D
    BY DEF Between, EnteredBy
  <2>3. account_graph(u) = D
    <3> HIDE DEF D
    <3> QED BY <2>1, <2>2
  <2> QED BY <1>2, <2>3 DEF Own, Meaning
<1>3. CASE label = "INTERACTED_TIMES"
  <2> DEFINE E == { e \in Stored : author[e[1]] = u }
             key == [e \in E |-> e[1]]
             f == [p \in Posts |-> account_posts(u, p) * Len(received[p])]
  <2>1. IsFiniteSet(Posts)
    BY TopkAssumption
  <2>2. IsFiniteSet(E)
    <3>1. E \subseteq Stored
      OBVIOUS
    <3> QED BY <3>1, StoredFinite, FS_Subset
  <2>3. \A e \in E : key[e] \in Posts /\ key[e] = e[1]
    BY DEF Stored
  <2>4. ASSUME NEW p \in Posts PROVE f[p] = Cardinality(Part(E, key, p))
    <3>1. CASE author[p] = u
      <4>1. Part(E, key, p) = {p} \X (1..Len(received[p]))
        <5>1. DOMAIN received[p] = 1..Len(received[p]) /\ DOMAIN received[p] \subseteq 1..MaxReceived
          BY StoreFacts
        <5>2. ASSUME NEW e \in Part(E, key, p) PROVE e \in {p} \X (1..Len(received[p]))
          <6>1. e \in E /\ e[1] = p
            BY <2>3 DEF Part
          <6>2. e = <<e[1], e[2]>> /\ e[2] \in DOMAIN received[p]
            BY <6>1 DEF Stored
          <6> QED BY <5>1, <6>1, <6>2
        <5>3. ASSUME NEW k \in 1..Len(received[p]) PROVE <<p, k>> \in Part(E, key, p)
          <6>1. <<p, k>> \in E
            BY <3>1, <5>1 DEF Stored
          <6> QED BY <2>3, <6>1 DEF Part
        <5> QED BY <5>2, <5>3
      <4>2. Cardinality({p} \X (1..Len(received[p]))) = Len(received[p])
        BY StoreFacts, ColumnSize
      <4>3. f[p] = 1 * Len(received[p]) /\ Len(received[p]) \in Nat
        <5>1. account_posts(u, p) = 1
          BY <1>3, <3>1 DEF account_posts, Listless
        <5>2. Len(received[p]) \in Nat
          BY StoreFacts, TopkAssumption
        <5> QED BY <5>1, <5>2
      <4> HIDE DEF E, key, f
      <4> QED BY <4>1, <4>2, <4>3
    <3>2. CASE author[p] # u
      <4>1. Part(E, key, p) = {}
        BY <2>3, <3>2 DEF Part
      <4>2. f[p] = 0
        <5>1. account_posts(u, p) = 0
          BY <1>3, <3>2 DEF account_posts, Listless
        <5>2. Len(received[p]) \in Nat
          BY StoreFacts, TopkAssumption
        <5> QED BY <5>1, <5>2
      <4> HIDE DEF E, key, f
      <4> QED BY <4>1, <4>2, FS_EmptySet
    <3> QED BY <3>1, <3>2
  <2>5. SetSum(f, Posts) = Cardinality(E)
    <3> HIDE DEF E, key, f
    <3> QED BY <2>1, <2>2, <2>3, <2>4, CountByName
  <2> QED BY <1>3, <2>5 DEF Own, Meaning
<1> QED BY <1>1, <1>2, <1>3 DEF Labels, Scattered

LEMMA CountsAreNat ==
  ASSUME StoreLoaded, label \in Labels, NEW u \in Accounts
  PROVE  /\ label \notin Scattered => Own(u) \in Nat
         /\ label \in Scattered => \A v : Contribution(u, v) \in Nat
<1>1. IsFiniteSet(Posts) /\ num_accounts \in Nat /\ MaxReceived \in Nat
  BY TopkAssumption
<1>2. \A S : S \subseteq Posts => Cardinality(S) \in Nat
  BY <1>1, FS_Subset, FS_CardinalityType
<1>3. Cardinality(account_graph(u)) \in Nat
  <2>1. IsFiniteSet(Accounts)
    <3>1. 0 \in Int /\ num_accounts - 1 \in Int
      BY <1>1
    <3> QED BY <3>1, FS_Interval DEF Accounts
  <2>2. account_graph(u) \subseteq Accounts
    BY DEF account_graph
  <2> QED BY <2>1, <2>2, FS_Subset, FS_CardinalityType
<1>4. \A p \in Posts : account_posts(u, p) \in Nat /\ Len(received[p]) \in Nat
  BY <1>1, StoreFacts DEF account_posts, StoreLoaded
<1>5. CASE label = "POSTS"
  <2> DEFINE f == [p \in Posts |-> account_posts(u, p)]
  <2>1. Own(u) = SetSum(f, Posts) /\ \A p \in Posts : f[p] \in Nat
    BY <1>4, <1>5 DEF Own
  <2> HIDE DEF f
  <2>2. SetSum(f, Posts) \in Nat
    BY <1>1, <2>1, SetSumNat
  <2> QED BY <1>5, <2>1, <2>2 DEF Scattered
<1>6. CASE label = "INTERACTED_ACCOUNTS"
  BY <1>3, <1>6 DEF Own, Scattered
<1>7. CASE label = "INTERACTED_TIMES"
  <2> DEFINE f == [p \in Posts |-> account_posts(u, p) * Len(received[p])]
  <2>1. \A m, n \in Nat : m * n \in Nat
    OBVIOUS
  <2>2. Own(u) = SetSum(f, Posts)
    BY <1>7 DEF Own
  <2>3. \A p \in Posts : f[p] \in Nat
    BY <1>4, <2>1
  <2> HIDE DEF f
  <2>4. SetSum(f, Posts) \in Nat
    BY <1>1, <2>3, SetSumNat
  <2> QED BY <1>7, <2>2, <2>4 DEF Scattered
<1>8. CASE label \in Scattered
  <2>1. \A v : edge_size(u, v) \in Nat
    <3> TAKE v
    <3>1. Between(u, v) \subseteq Entered
      BY DEF Between, EnteredBy
    <3> QED BY <3>1, EdgeSize, EnteredFacts, FS_Subset, FS_CardinalityType
  <2>2. \A v : edge_posts(u, v) \in Nat
    BY <1>2 DEF edge_posts
  <2> QED BY <1>8, <2>1, <2>2 DEF Contribution, Scattered
<1> QED BY <1>5, <1>6, <1>7, <1>8 DEF Labels, Scattered

-----------------------------------------------------------------------------
(* GetTopkAccounts: the loops and the sort *)

\* The edges to v that the loops have come to.
Gathered(v) ==
  [u \in Accounts |-> IF v \in account_graph(u) \ todo[u] THEN Contribution(u, v) ELSE 0]

Counting ==
  /\ StoreLoaded /\ label \in Labels /\ topk \in Nat
  /\ counts \in [Accounts -> Nat]
  /\ todo \in [Accounts -> SUBSET Accounts] /\ \A u \in Accounts : todo[u] \subseteq Work(u)
  /\ label \notin Scattered => \A u \in Accounts : todo[u] = {} => counts[u] = Own(u)
  /\ label \in Scattered => \A v \in Accounts : counts[v] = Sum(Gathered(v), 0, num_accounts)

Ordered ==
  /\ \A u \in Accounts : todo[u] = {}
  /\ \E s \in Orders : results = [i \in 1..Shown |-> [user |-> s[i], count |-> counts[s[i]]]]

TopkInv ==
  IF query = "topk"
  THEN Counting /\ ((pc = "count" /\ results = <<>>) \/ (pc = "done" /\ Ordered))
  ELSE topk = 0 /\ results = <<>>

LEMMA InitTopk == QueryInit => TopkInv
<1> SUFFICES ASSUME QueryInit PROVE TopkInv
  OBVIOUS
<1>1. CASE query # "topk"
  BY <1>1 DEF QueryInit, NoTopk, TopkInv
<1>2. CASE query = "topk"
  <2>1. Init
    BY <1>2 DEF QueryInit
  <2>2. StoreLoaded /\ label \in Labels /\ topk \in Nat /\ pc = "count" /\ results = <<>>
    BY <2>1, TopkAssumption DEF Init, StoreLoaded
  <2>3. counts \in [Accounts -> Nat] /\ \A u \in Accounts : counts[u] = 0
    BY <2>1 DEF Init
  <2>4. \A u \in Accounts : Work(u) \subseteq Accounts
    BY DEF Work, account_graph
  <2>5. todo \in [Accounts -> SUBSET Accounts] /\ \A u \in Accounts : todo[u] = Work(u)
    BY <2>1, <2>4 DEF Init
  <2>6. label \notin Scattered => \A u \in Accounts : todo[u] # {}
    BY <2>5 DEF Work
  <2>7. ASSUME label \in Scattered, NEW v \in Accounts PROVE Sum(Gathered(v), 0, num_accounts) = 0
    <3>1. \A u \in 0..(num_accounts - 1) : Gathered(v)[u] = 0
      BY <2>5, <2>7 DEF Gathered, Work, Accounts
    <3> QED BY <3>1, SumZero, TopkAssumption
  <2>8. Counting
    BY <2>2, <2>3, <2>5, <2>6, <2>7 DEF Counting
  <2> QED BY <1>2, <2>2, <2>8 DEF TopkInv
<1> QED BY <1>1, <1>2

\* The store and the label stay, so what is counted stays.
LEMMA StoreStays ==
  ASSUME UNCHANGED <<store, label>>
  PROVE  /\ StoreLoaded' <=> StoreLoaded
         /\ \A u : account_graph(u)' = account_graph(u) /\ Work(u)' = Work(u) /\ Own(u)' = Own(u)
         /\ \A u, v : Contribution(u, v)' = Contribution(u, v)
<1>1. UNCHANGED <<author, received, missed, unnamed, listed, label>>
  BY DEF store
<1>2. StoreLoaded' <=> StoreLoaded
  BY <1>1 DEF StoreLoaded
<1>3. \A u, v, p : Times(u, v, p)' = Times(u, v, p)
  BY <1>1 DEF Times
<1>4. \A u : account_graph(u)' = account_graph(u)
  BY <1>3 DEF account_graph
<1>5. \A u : Work(u)' = Work(u)
  BY <1>1, <1>4 DEF Work
<1>6. \A u : Own(u)' = Own(u)
  BY <1>1, <1>4 DEF Own, account_posts
<1>7. \A u, v : Contribution(u, v)' = Contribution(u, v)
  <2>1. \A u, v : edge_size(u, v)' = edge_size(u, v)
    BY <1>3 DEF edge_size
  <2>2. \A u, v : edge_posts(u, v)' = edge_posts(u, v)
    BY <1>3 DEF edge_posts
  <2> QED BY <1>1, <2>1, <2>2 DEF Contribution
<1> QED BY <1>2, <1>4, <1>5, <1>6, <1>7

LEMMA TransformCounts ==
  ASSUME Counting, NEW u \in Accounts, Transform(u)
  PROVE  Counting'
<1>1. /\ UNCHANGED <<store, label, topk>> /\ label \notin Scattered
      /\ counts' = [counts EXCEPT ![u] = Own(u)] /\ todo' = [todo EXCEPT ![u] = {}]
  BY DEF Transform, store
<1>2. Own(u) \in Nat
  BY <1>1, CountsAreNat DEF Counting
<1>3. \A w \in Accounts : Own(w)' = Own(w) /\ Work(w)' = Work(w)
  BY <1>1, StoreStays
<1>4. StoreLoaded' /\ label' \in Labels /\ topk' \in Nat
  BY <1>1, StoreStays DEF Counting
<1>5. /\ counts' \in [Accounts -> Nat] /\ todo' \in [Accounts -> SUBSET Accounts]
      /\ \A w \in Accounts : todo'[w] \subseteq Work(w)'
      /\ \A w \in Accounts : todo'[w] = {} => counts'[w] = Own(w)'
  BY <1>1, <1>2, <1>3 DEF Counting
<1> QED BY <1>1, <1>4, <1>5 DEF Counting

\* One atomic addition: the counter of v has gathered one edge more.
LEMMA ScatterCounts ==
  ASSUME Counting, NEW u \in Accounts, Scatter(u)
  PROVE  Counting'
<1>1. PICK v \in todo[u] : /\ counts' = [counts EXCEPT ![v] = @ + Contribution(u, v)]
                           /\ todo' = [todo EXCEPT ![u] = @ \ {v}]
  BY DEF Scatter
<1>2. UNCHANGED <<store, label, topk>> /\ label \in Scattered
  BY DEF Scatter, store
<1>3. v \in Accounts /\ v \in account_graph(u)
  BY <1>2 DEF Counting, Work
<1>4. \A w \in Accounts : \A x : Contribution(w, x) \in Nat
  BY <1>2, CountsAreNat DEF Counting
<1>5. StoreLoaded' /\ label' \in Labels /\ topk' \in Nat
  BY <1>2, StoreStays DEF Counting
<1>6. /\ counts' \in [Accounts -> Nat] /\ todo' \in [Accounts -> SUBSET Accounts]
      /\ \A w \in Accounts : todo'[w] \subseteq Work(w)'
  <2>1. \A w \in Accounts : Work(w)' = Work(w)
    BY <1>2, StoreStays
  <2> QED BY <1>1, <1>3, <1>4, <2>1 DEF Counting
<1>7. \A w, x \in Accounts :
        Gathered(x)'[w] = IF x \in account_graph(w) \ todo'[w] THEN Contribution(w, x) ELSE 0
  BY <1>2, StoreStays DEF Gathered
<1>8. \A w, x \in Accounts :
        Gathered(x)[w] = IF x \in account_graph(w) \ todo[w] THEN Contribution(w, x) ELSE 0
  BY DEF Gathered
<1>9. \A w, x \in Accounts : w # u \/ x # v => Gathered(x)'[w] = Gathered(x)[w]
  BY <1>1, <1>3, <1>7, <1>8 DEF Counting
<1>10. Gathered(v)'[u] = Contribution(u, v) /\ Gathered(v)[u] = 0
  BY <1>1, <1>3, <1>7, <1>8 DEF Counting
<1>11. num_accounts \in Nat /\ 0 \in Nat /\ Accounts = 0..(num_accounts - 1)
  BY TopkAssumption DEF Accounts
<1>12. ASSUME NEW x \in Accounts PROVE counts'[x] = Sum(Gathered(x)', 0, num_accounts)
  <2>1. counts[x] = Sum(Gathered(x), 0, num_accounts) /\ counts[x] \in Nat
    BY <1>2 DEF Counting
  <2>2. PICK g, h : g = Gathered(x) /\ h = Gathered(x)'
    OBVIOUS
  <2>3. CASE x = v
    <3>1. \A w \in 0..(num_accounts - 1) : g[w] \in Int /\ h[w] \in Int
      BY <1>4, <1>7, <1>8, <1>11, <2>2
    <3>2. \A w \in 0..(num_accounts - 1) : w # u => g[w] = h[w]
      BY <1>9, <1>11, <2>2
    <3>3. u \in 0..(num_accounts - 1) /\ h[u] = Contribution(u, v) /\ g[u] = 0
      BY <1>10, <1>11, <2>2, <2>3
    <3>4. Sum(h, 0, num_accounts) = Sum(g, 0, num_accounts) + (h[u] - g[u])
      BY <1>11, <3>1, <3>2, <3>3, SumChanged
    <3>5. counts'[x] = counts[x] + Contribution(u, v)
      BY <1>1, <1>3, <2>3 DEF Counting
    <3> QED BY <1>4, <2>1, <2>2, <3>3, <3>4, <3>5
  <2>4. CASE x # v
    <3>1. \A w \in 0..(num_accounts - 1) : h[w] = g[w]
      BY <1>9, <1>11, <2>2, <2>4
    <3>2. Sum(h, 0, num_accounts) = Sum(g, 0, num_accounts)
      BY <1>11, <3>1, SumEqual
    <3>3. counts'[x] = counts[x]
      BY <1>1, <2>4 DEF Counting
    <3> QED BY <2>1, <2>2, <3>2, <3>3
  <2> QED BY <2>3, <2>4
<1> QED BY <1>2, <1>5, <1>6, <1>12 DEF Counting

LEMMA SortOrders ==
  ASSUME Counting, Sort
  PROVE  Counting' /\ Ordered'
<1>1. /\ UNCHANGED <<store, label, topk, counts, todo>> /\ \A u \in Accounts : todo[u] = {}
      /\ \E s \in Orders :
           results' = [i \in 1..Shown |-> [user |-> s[i], count |-> counts[s[i]]]]
  BY DEF Sort, store
<1>2. /\ StoreLoaded' /\ \A w \in Accounts : Own(w)' = Own(w) /\ Work(w)' = Work(w)
      /\ \A x : Gathered(x)' = Gathered(x)
  BY <1>1, StoreStays DEF Counting, Gathered
<1>3. Counting'
  <2>1. label \in Scattered => \A v \in Accounts : counts[v] = Sum(Gathered(v)', 0, num_accounts)
    BY <1>2 DEF Counting
  <2> QED BY <1>1, <1>2, <2>1 DEF Counting
<1>4. Orders' = Orders /\ Shown' = Shown
  BY <1>1 DEF Orders, Descending, Shown
<1>5. Ordered'
  BY <1>1, <1>4 DEF Ordered
<1> QED BY <1>3, <1>5

LEMMA NextTopk == TopkInv /\ [QueryNext]_allVars => TopkInv'
<1> SUFFICES ASSUME TopkInv, [QueryNext]_allVars PROVE TopkInv'
  OBVIOUS
<1>1. query' = query
  BY StepsOfKind
<1>2. (query = "topk" /\ Next /\ UNCHANGED at) \/ UNCHANGED topkVars
  <2>1. CASE Topk
    BY <2>1 DEF Topk
  <2>2. CASE FirstAccount \/ NextAccount \/ EndLoop \/ SortBuckets \/ UNCHANGED allVars
    BY <2>2 DEF FirstAccount, NextAccount, EndLoop, SortBuckets, allVars
  <2>3. CASE \E p \in Dated : SkipPost(p) \/ Throw(p) \/ OldestPost(p) \/ CountPost(p)
    BY <2>3 DEF SkipPost, Throw, OldestPost, CountPost
  <2>4. CASE \E range \in Ranges : Advance(range)
    BY <2>4 DEF Advance
  <2> QED BY <2>1, <2>2, <2>3, <2>4 DEF QueryNext
<1>3. CASE UNCHANGED topkVars
  <2>1. UNCHANGED <<store, label, topk, counts, todo, results, pc>>
    BY <1>3 DEF topkVars, vars, store
  <2>2. /\ StoreLoaded' <=> StoreLoaded
        /\ \A w \in Accounts : Own(w)' = Own(w) /\ Work(w)' = Work(w)
        /\ \A x : Gathered(x)' = Gathered(x)
    BY <2>1, StoreStays DEF Gathered
  <2>3. Counting => Counting'
    <3> SUFFICES ASSUME Counting PROVE Counting'
      OBVIOUS
    <3>1. label \in Scattered => \A v \in Accounts : counts[v] = Sum(Gathered(v)', 0, num_accounts)
      BY <2>2 DEF Counting
    <3> QED BY <2>1, <2>2, <3>1 DEF Counting
  <2>4. Ordered => Ordered'
    <3>1. Orders' = Orders /\ Shown' = Shown
      BY <2>1 DEF Orders, Descending, Shown
    <3> QED BY <2>1, <3>1 DEF Ordered
  <2> QED BY <1>1, <2>1, <2>3, <2>4 DEF TopkInv
<1>4. CASE query = "topk" /\ Next
  <2>1. Counting /\ ((pc = "count" /\ results = <<>>) \/ (pc = "done" /\ Ordered))
    BY <1>4 DEF TopkInv
  <2>2. CASE \E u \in Accounts : Transform(u)
    <3>1. Counting'
      BY <2>1, <2>2, TransformCounts
    <3>2. pc' = "count" /\ pc = "count" /\ results' = results
      BY <2>2 DEF Transform
    <3> QED BY <1>1, <1>4, <2>1, <3>1, <3>2 DEF TopkInv
  <2>3. CASE \E u \in Accounts : Scatter(u)
    <3>1. Counting'
      BY <2>1, <2>3, ScatterCounts
    <3>2. pc' = "count" /\ pc = "count" /\ results' = results
      BY <2>3 DEF Scatter
    <3> QED BY <1>1, <1>4, <2>1, <3>1, <3>2 DEF TopkInv
  <2>4. CASE Sort
    <3>1. pc' = "done"
      BY <2>4 DEF Sort
    <3> QED BY <1>1, <1>4, <2>1, <2>4, <3>1, SortOrders DEF TopkInv
  <2> QED BY <1>4, <2>2, <2>3, <2>4 DEF Next
<1> QED BY <1>2, <1>3, <1>4

\* When no work is left, a counter has what its label names.
LEMMA CountsAreMeanings ==
  ASSUME Counting, \A u \in Accounts : todo[u] = {}
  PROVE  \A v \in Accounts : ~Listless(v) => counts[v] = Meaning(v, Entered)
<1>1. CASE label \notin Scattered
  BY <1>1, OwnIsMeaning DEF Counting
<1>2. CASE label \in Scattered
  <2> TAKE v \in Accounts
  <2>1. Gathered(v) = EdgeCount(v)
    BY DEF Gathered, EdgeCount
  <2>2. Sum(EdgeCount(v), 0, num_accounts) = Meaning(v, Entered)
    BY <1>2, EdgesAddUp DEF Counting
  <2>3. counts[v] = Sum(Gathered(v), 0, num_accounts)
    BY <1>2 DEF Counting
  <2> QED BY <2>1, <2>2, <2>3
<1> QED BY <1>1, <1>2

LEMMA ShownFacts ==
  ASSUME topk \in Nat
  PROVE  Shown \in Nat /\ Shown <= num_accounts /\ num_accounts \in Nat
         /\ Shown = IF topk < num_accounts THEN topk ELSE num_accounts
BY TopkAssumption DEF Shown

\* An order that names no account twice names all of them.
LEMMA OrderNamesAll ==
  ASSUME NEW s \in Orders
  PROVE  /\ s \in [1..num_accounts -> Accounts]
         /\ \A i, j \in 1..num_accounts : s[i] = s[j] => i = j
         /\ \A i, j \in 1..num_accounts : i < j => counts[s[i]] >= counts[s[j]]
         /\ \A u \in Accounts : \E i \in 1..num_accounts : s[i] = u
<1>1. /\ s \in [1..num_accounts -> Accounts]
      /\ \A i, j \in DOMAIN s : s[i] = s[j] => i = j
      /\ \A i, j \in DOMAIN s : i < j => counts[s[i]] >= counts[s[j]]
  BY DEF Orders, Descending
<1>2. s \in Injection(1..num_accounts, Accounts)
  BY <1>1 DEF Injection, IsInjective
<1>3. /\ IsFiniteSet(1..num_accounts) /\ Cardinality(1..num_accounts) = num_accounts
      /\ IsFiniteSet(Accounts) /\ Cardinality(Accounts) = num_accounts
  <2>1. num_accounts \in Nat /\ num_accounts - 1 \in Int /\ 0 \in Int /\ 1 \in Int /\ num_accounts \in Int
    BY TopkAssumption
  <2> QED BY <2>1, FS_Interval DEF Accounts
<1>4. s \in Surjection(1..num_accounts, Accounts)
  BY <1>2, <1>3, FS_Injection
<1>5. \A u \in Accounts : \E i \in 1..num_accounts : s[i] = u
  BY <1>4 DEF Surjection
<1> QED BY <1>1, <1>5

LEMMA TopkInvImplies == TopkInv => CountsAreRecorded /\ TopkIsMaximal
<1> SUFFICES ASSUME TopkInv PROVE CountsAreRecorded /\ TopkIsMaximal
  OBVIOUS
<1>1. CASE query # "topk"
  <2>1. topk = 0 /\ results = <<>> /\ DOMAIN results = {} /\ Len(results) = 0
    BY <1>1 DEF TopkInv
  <2>2. Len(results) = IF topk < num_accounts THEN topk ELSE num_accounts
    BY <2>1, TopkAssumption
  <2> QED BY <2>1, <2>2 DEF CountsAreRecorded, TopkIsMaximal
<1>2. CASE query = "topk" /\ pc = "count" /\ results = <<>>
  <2>1. DOMAIN results = {} /\ pc # "done"
    BY <1>2
  <2> QED BY <2>1 DEF CountsAreRecorded, TopkIsMaximal
<1>3. CASE Counting /\ Ordered
  <2>1. PICK s \in Orders : results = [i \in 1..Shown |-> [user |-> s[i], count |-> counts[s[i]]]]
    BY <1>3 DEF Ordered
  <2>2. /\ s \in [1..num_accounts -> Accounts]
        /\ \A i, j \in 1..num_accounts : s[i] = s[j] => i = j
        /\ \A i, j \in 1..num_accounts : i < j => counts[s[i]] >= counts[s[j]]
        /\ \A u \in Accounts : \E i \in 1..num_accounts : s[i] = u
    BY OrderNamesAll
  <2>3. /\ Shown \in Nat /\ Shown <= num_accounts /\ num_accounts \in Nat
        /\ Shown = IF topk < num_accounts THEN topk ELSE num_accounts
    BY <1>3, ShownFacts DEF Counting
  <2>4. \A v \in Accounts : counts[v] \in Nat /\ (~Listless(v) => counts[v] = Meaning(v, Entered))
    BY <1>3, CountsAreMeanings DEF Counting, Ordered
  <2>5. /\ DOMAIN results = 1..Shown /\ Len(results) = Shown
        /\ \A i \in 1..Shown : results[i].user = s[i] /\ results[i].count = counts[s[i]]
    BY <2>1, <2>3
  <2>6. 1..Shown \subseteq 1..num_accounts
    BY <2>3
  <2>7. CountsAreRecorded
    BY <2>2, <2>4, <2>5, <2>6 DEF CountsAreRecorded
  <2>8. ASSUME NEW i \in DOMAIN results, NEW j \in DOMAIN results, i < j
        PROVE  results[i].count >= results[j].count /\ results[i].user # results[j].user
    <3>1. i \in 1..num_accounts /\ j \in 1..num_accounts /\ i # j
      BY <2>5, <2>6, <2>8
    <3> QED BY <2>2, <2>5, <2>8, <3>1
  <2>9. ASSUME NEW u \in Accounts \ { results[i].user : i \in DOMAIN results },
               ~Listless(u), NEW i \in DOMAIN results
        PROVE  Meaning(u, Entered) <= results[i].count
    <3>1. PICK j \in 1..num_accounts : s[j] = u
      BY <2>2, <2>9
    <3>2. j \notin 1..Shown
      BY <2>5, <2>9, <3>1
    <3>3. i \in 1..num_accounts /\ i < j
      BY <2>3, <2>5, <2>6, <3>2
    <3>4. counts[s[i]] >= counts[u]
      BY <2>2, <3>1, <3>3
    <3>5. counts[s[i]] \in Nat /\ counts[u] \in Nat /\ counts[u] = Meaning(u, Entered)
      BY <2>2, <2>4, <2>9, <3>3
    <3> QED BY <2>5, <3>4, <3>5
  <2>10. TopkIsMaximal
    BY <2>3, <2>5, <2>8, <2>9 DEF TopkIsMaximal
  <2> QED BY <2>7, <2>10
<1> QED BY <1>1, <1>2, <1>3 DEF TopkInv

\* In every order of the atomic additions, GetTopkAccounts counts for each
\* account what its label names over the interactions that came after the author
\* of their post was known (the lists of the account "" excepted).
THEOREM CountsCorrect == QuerySpec => []CountsAreRecorded
BY InitTopk, NextTopk, TopkInvImplies, PTL DEF QuerySpec

\* Whatever order the unstable sort leaves ties in, it shows the k first.
THEOREM TopkCorrect == QuerySpec => []TopkIsMaximal
BY InitTopk, NextTopk, TopkInvImplies, PTL DEF QuerySpec
=============================================================================
