------------------------- MODULE InplaceSets_proofs -------------------------
(***************************************************************************)
(* The in-place union and difference, for parts of any length: they never  *)
(* read what they have written (TypeOK and UnreadUntouched), and what they *)
(* leave in front of the array is UnionLast and SetDifference of the parts *)
(* (ResultIsRight).                                                        *)
(***************************************************************************)
EXTENDS InplaceSets, Operators_proofs

\* Where the cursors are in each loop.  `it` counts what was written; in the
\* deque loops that and what waits is at most what was read from both parts.
Cursors ==
  /\ pc = "seek" => Size(deque) = 0
  /\ pc = "copy" => xb = im + 1 /\ im <= it /\ it < yb /\ yb <= ye
  /\ pc \in {"insert", "drain"} =>
       /\ op = "union" /\ 1 <= it
       /\ xb <= im => it = xb - 1
       /\ xb = im + 1 => im <= it
       /\ it + Size(deque) <= xb - 1 + (yb - 1 - im)
       /\ Size(deque) <= yb - 1 - im
  /\ pc = "drain" => yb = ye + 1
  /\ pc = "shift" => op = "difference" /\ it < xb

IInv == TypeOK /\ Cursors /\ UnreadUntouched

-----------------------------------------------------------------------------
(* The deque *)

\* While it is not full, pushing adds one element.
LEMMA PushFacts ==
  ASSUME TypeOK, NEW d \in Deque, NEW e \in Entry, Size(d) < BufferSize - 1
  PROVE  PushBack(d, e) \in Deque /\ Size(PushBack(d, e)) = Size(d) + 1
<1>1. BufferSize \in Nat /\ BufferSize >= 4
  BY DEF TypeOK, BufferSize, ye, Slack
<1>2. d.ib \in 0..(BufferSize - 1) /\ d.ie \in 0..(BufferSize - 1)
      /\ d.buf \in [0..(BufferSize - 1) -> Entry]
  BY DEF Deque
<1>3. After(d.ie) \in 0..(BufferSize - 1)
  BY <1>1, <1>2 DEF After
<1>4. PushBack(d, e) \in Deque
  BY <1>2, <1>3 DEF PushBack, Deque
<1>5. PushBack(d, e).ib = d.ib /\ PushBack(d, e).ie = After(d.ie)
  BY DEF PushBack
<1>6. (IF d.ib <= d.ie THEN d.ie - d.ib ELSE d.ie + BufferSize - d.ib) < BufferSize - 1
  BY DEF Size
<1>7. Size(PushBack(d, e)) = Size(d) + 1
  <2> DEFINE b == d.ib
             f == d.ie
             n == BufferSize
             g == After(f)
             old == IF b <= f THEN f - b ELSE f + n - b
             new == IF b <= g THEN g - b ELSE g + n - b
  <2>1. old = Size(d) /\ new = Size(PushBack(d, e))
    BY <1>5 DEF Size
  <2>2. g = IF f + 1 = n THEN 0 ELSE f + 1
    BY DEF After
  <2>3. b \in 0..(n - 1) /\ f \in 0..(n - 1) /\ n \in Nat /\ n >= 4 /\ old < n - 1
    BY <1>1, <1>2, <1>6
  <2>4. ASSUME NEW k \in Nat, NEW i \in 0..(k - 1), NEW j \in 0..(k - 1), NEW h,
               h = (IF j + 1 = k THEN 0 ELSE j + 1),
               (IF i <= j THEN j - i ELSE j + k - i) < k - 1
        PROVE  (IF i <= h THEN h - i ELSE h + k - i)
                 = (IF i <= j THEN j - i ELSE j + k - i) + 1
    BY <2>4
  <2> HIDE DEF b, f, n, g
  <2>5. new = old + 1
    BY <2>2, <2>3, <2>4
  <2> QED BY <2>1, <2>5
<1> QED BY <1>4, <1>7

\* The front of a deque that is not empty is an entry; popping removes one.
LEMMA PopFacts ==
  ASSUME TypeOK, NEW d \in Deque
  PROVE  /\ Size(d) \in Nat /\ (Empty(d) <=> Size(d) = 0)
         /\ Front(d) \in Entry
         /\ PopFront(d) \in Deque
         /\ ~Empty(d) => Size(PopFront(d)) = Size(d) - 1
<1>1. BufferSize \in Nat /\ BufferSize >= 4
  BY DEF TypeOK, BufferSize, ye, Slack
<1>2. d.ib \in 0..(BufferSize - 1) /\ d.ie \in 0..(BufferSize - 1)
      /\ d.buf \in [0..(BufferSize - 1) -> Entry]
  BY DEF Deque
<1>3. PopFront(d) = [buf |-> d.buf, ib |-> After(d.ib), ie |-> d.ie]
  BY DEF PopFront
<1>4. After(d.ib) \in 0..(BufferSize - 1)
  BY <1>1, <1>2 DEF After
<1> QED BY <1>1, <1>2, <1>3, <1>4, SMTT(30) DEF Size, Empty, Front, Deque, After

\* In the deque loops there is room to save one more entry of x.
LEMMA SavedFacts ==
  ASSUME IInv, pc \in {"insert", "drain"}
  PROVE  /\ Saved \in Deque /\ NextX \in Nat
         /\ xb <= im => Size(Saved) = Size(deque) + 1 /\ NextX = xb + 1
         /\ xb > im => Saved = deque /\ NextX = xb
<1>1. CASE xb <= im
  <2>1. pairs[xb] \in Entry
    BY <1>1 DEF IInv, TypeOK, ye
  <2>2. deque \in Deque /\ Size(deque) < BufferSize - 1
    BY SMTT(30) DEF IInv, TypeOK, Cursors, BufferSize, ye, Slack, Size, Deque
  <2> QED BY <1>1, <2>1, <2>2, PushFacts DEF Saved, NextX, IInv, TypeOK
<1>2. CASE xb > im
  BY <1>2 DEF Saved, NextX, IInv, TypeOK, ye
<1> QED BY <1>1, <1>2 DEF IInv, TypeOK, ye

-----------------------------------------------------------------------------
(* The invariant holds at the call *)

LEMMA InitIInv == Init => IInv
<1> SUFFICES ASSUME Init PROVE IInv
  OBVIOUS
<1>1. PICK n \in 0..MaxX, m \in 0..MaxY : \E x \in Increasing(n), y \in Increasing(m) :
        /\ input = [i \in 1..(n + m) |->
                      [first |-> IF i <= n THEN x[i] ELSE y[i - n], second |-> i]]
        /\ im = n /\ pairs = input /\ xb = 1 /\ yb = n + 1
        /\ it = IF op = "union" THEN 0 ELSE n + 1
        /\ deque = [buf |-> [i \in 0..(BufferSize - 1) |-> junk], ib |-> 0, ie |-> 0]
        /\ pc = IF op = "difference" /\ (n = 0 \/ m = 0) THEN "done" ELSE "seek"
  BY DEF Init
<1>2. PICK x \in Increasing(n), y \in Increasing(m) :
        /\ input = [i \in 1..(n + m) |->
                      [first |-> IF i <= n THEN x[i] ELSE y[i - n], second |-> i]]
        /\ im = n /\ pairs = input /\ xb = 1 /\ yb = n + 1
        /\ it = IF op = "union" THEN 0 ELSE n + 1
        /\ deque = [buf |-> [i \in 0..(BufferSize - 1) |-> junk], ib |-> 0, ie |-> 0]
        /\ pc = IF op = "difference" /\ (n = 0 \/ m = 0) THEN "done" ELSE "seek"
  BY <1>1
<1>3. n \in Nat /\ m \in Nat
  BY BoundsAssumption
<1>4. x \in [1..n -> Key] /\ y \in [1..m -> Key]
  BY DEF Increasing
<1>5. \A i \in 1..(n + m) : [first |-> IF i <= n THEN x[i] ELSE y[i - n], second |-> i] \in Entry
  BY <1>3, <1>4 DEF Entry
<1>6. input \in Seq(Entry) /\ Len(input) = n + m
  BY <1>2, <1>3, <1>5
<1>7. BufferSize \in Nat /\ BufferSize >= 4
  BY <1>2, <1>3, <1>6 DEF BufferSize, ye, Slack
<1>8. deque \in Deque /\ Size(deque) = 0
  BY <1>2, <1>7 DEF Deque, Size, junk, Entry
<1>9. TypeOK
  BY <1>2, <1>3, <1>6, <1>8 DEF TypeOK, ye, Init
<1>10. Cursors
  BY <1>2, <1>8 DEF Cursors
<1>11. UnreadUntouched
  BY <1>2 DEF UnreadUntouched
<1> QED BY <1>9, <1>10, <1>11 DEF IInv

-----------------------------------------------------------------------------
(* The invariant is kept *)

\* Writing an entry changes at most one place of the array.
LEMMA WriteFacts ==
  ASSUME TypeOK, NEW k \in Nat, NEW e \in Entry, pairs' = [pairs EXCEPT ![k] = e],
         UNCHANGED <<input, im>>
  PROVE  /\ pairs' \in Seq(Entry)
         /\ Len(pairs') = ye
         /\ \A i \in 1..ye : i # k => pairs'[i] = pairs[i]
         /\ k \in 1..ye => pairs'[k] = e
<1>1. pairs \in Seq(Entry) /\ Len(pairs) = ye /\ ye \in Nat
  BY DEF TypeOK, ye
<1>2. pairs \in [1..ye -> Entry]
  BY <1>1
<1>3. pairs' \in [1..ye -> Entry]
  BY <1>2
<1>4. pairs' \in Seq(Entry)
  BY <1>1, <1>3
<1>5. Len(pairs') = ye
  BY <1>1, <1>3
<1> QED BY <1>2, <1>4, <1>5

LEMMA ReadFacts ==
  ASSUME TypeOK
  PROVE  /\ ye \in Nat /\ im \in Nat /\ im <= ye /\ xb \in Nat /\ yb \in Nat /\ it \in Nat
         /\ \A i \in 1..ye : pairs[i] \in Entry
         /\ Slack = 4 /\ BufferSize = ye - im + 4
BY DEF TypeOK, ye, Slack, BufferSize

LEMMA Frame ==
  ASSUME UNCHANGED <<input, im>>
  PROVE  ye' = ye /\ Deque' = Deque /\ Size(deque)' = Size(deque')
<1>1. ye' = ye
  BY DEF ye
<1>2. BufferSize' = BufferSize
  BY <1>1 DEF BufferSize, Slack
<1> QED BY <1>1, <1>2 DEF Deque, Size, Entry

\* The unread parts stay as they were when the cursors only advance and no
\* place they have not passed is written.
LEMMA UnreadStep ==
  ASSUME TypeOK, UnreadUntouched, UNCHANGED <<op, input, im>>,
         xb' \in xb..(im + 1), yb' \in yb..(ye + 1),
         \A i \in yb'..ye : pairs'[i] = pairs[i],
         \A i \in xb'..im : pairs'[i] = pairs[i],
         op = "union" /\ pc \in {"seek", "done"} /\ xb' = xb /\ xb <= im
           => pc' \in {"seek", "done"}
  PROVE  UnreadUntouched'
<1>1. ye' = ye /\ im' = im /\ input' = input /\ op' = op
  BY Frame
<1>2. \A i \in yb'..ye : pairs'[i] = input[i]
  BY ReadFacts DEF UnreadUntouched
<1>3. ASSUME NEW i \in xb'..im
      PROVE  \/ pairs'[i] = input[i]
             \/ op = "union" /\ pc' \in {"seek", "done"} /\ i = xb' /\ Same(pairs'[i], input[i])
  <2>1. pairs'[i] = pairs[i] /\ i \in xb..im
    BY <1>3, ReadFacts
  <2>2. \/ pairs[i] = input[i]
        \/ op = "union" /\ pc \in {"seek", "done"} /\ i = xb /\ Same(pairs[i], input[i])
    BY <2>1 DEF UnreadUntouched
  <2>3. i = xb => xb' = xb /\ xb <= im
    BY <1>3, <2>1, ReadFacts
  <2> QED BY <2>1, <2>2, <2>3
<1>4. \A i, j : Same(i, j)' = Same(i, j)
  BY DEF Same
<1>5. \A i \in xb'..im : Same(pairs[i], input[i])' <=> Same(pairs'[i], input[i])
  BY <1>1 DEF Same
<1> QED BY <1>1, <1>2, <1>3, <1>5 DEF UnreadUntouched

LEMMA UnionTypeStep ==
  ASSUME TypeOK, UNCHANGED <<op, input, im>>, op = "union",
         pairs' \in Seq(Entry), Len(pairs') = ye,
         xb' \in 1..(im + 1), yb' \in (im + 1)..(ye + 1), it' \in 0..(ye + 1),
         deque' \in Deque, pc' \in {"seek", "copy", "insert", "drain", "shift", "done"}
  PROVE  TypeOK'
<1>1. ye' = ye /\ Deque' = Deque
  BY Frame
<1>2. Entry' = Entry
  BY DEF Entry
<1> QED BY <1>1, <1>2 DEF TypeOK

LEMMA SeekKeeps ==
  ASSUME IInv, SeekDone \/ SeekEnd \/ SeekSkip
  PROVE  IInv'
<1>1. UNCHANGED <<input, im, deque, op, pairs, yb>> /\ op = "union" /\ pc = "seek"
  BY DEF SeekDone, SeekEnd, SeekSkip
<1>2. ye' = ye /\ Deque' = Deque /\ Size(deque)' = Size(deque)
  BY <1>1, Frame
<1>3. /\ xb' \in xb..(im + 1) /\ xb' \in 1..(im + 1) /\ it' \in {it, im}
      /\ pc' \in {"seek", "copy", "done"}
      /\ pc' = "copy" => xb' = im + 1 /\ it' = im /\ yb' <= ye
      /\ xb' = xb /\ xb <= im => pc' \in {"seek", "done"}
  BY ReadFacts, SMTT(30) DEF SeekDone, SeekEnd, SeekSkip, IInv, TypeOK
<1>4. TypeOK'
  BY <1>1, <1>2, <1>3, ReadFacts DEF IInv, TypeOK
<1>5. Size(deque) = 0 /\ im < yb /\ im \in Nat /\ yb \in Nat
  BY <1>1, ReadFacts DEF IInv, TypeOK, Cursors
<1>6. Cursors'
  BY <1>1, <1>2, <1>3, <1>5 DEF Cursors
<1>7. UnreadUntouched'
  BY <1>1, <1>3, ReadFacts, UnreadStep DEF IInv, TypeOK
<1> QED BY <1>4, <1>6, <1>7 DEF IInv

LEMMA SeekReplaceKeeps ==
  ASSUME IInv, SeekReplace
  PROVE  IInv'
<1>1. UNCHANGED <<input, im, deque, op, xb, it, pc>> /\ op = "union" /\ pc = "seek"
      /\ yb' = yb + 1 /\ pairs' = [pairs EXCEPT ![xb] = pairs[yb]]
      /\ xb <= im /\ yb <= ye /\ pairs[xb].first = pairs[yb].first
  BY DEF SeekReplace, Same
<1>2. ye' = ye /\ Deque' = Deque /\ Size(deque)' = Size(deque)
  BY <1>1, Frame
<1>3. pairs[yb] \in Entry /\ yb \in (im + 1)..ye /\ xb \in 1..im
  BY <1>1, ReadFacts, SMTT(30) DEF IInv, TypeOK
<1>4. TypeOK
  BY DEF IInv
<1>5. /\ pairs' \in Seq(Entry) /\ Len(pairs') = ye
      /\ \A i \in 1..ye : i # xb => pairs'[i] = pairs[i]
      /\ xb \in 1..ye => pairs'[xb] = pairs[yb]
  BY <1>1, <1>3, <1>4, ReadFacts, WriteFacts
<1>6. TypeOK'
  BY <1>1, <1>2, <1>3, <1>5, ReadFacts DEF IInv, TypeOK
<1>7. Cursors'
  BY <1>1, <1>2 DEF IInv, Cursors
<1>8. UnreadUntouched
  BY DEF IInv
<1>9. \A i \in (yb + 1)..ye : pairs'[i] = input[i]
  BY <1>1, <1>3, <1>4, <1>5, <1>8, ReadFacts, SMTT(30) DEF UnreadUntouched
<1>10. \A i \in xb..im : i # xb => pairs'[i] = input[i]
  BY <1>1, <1>3, <1>4, <1>5, <1>8, ReadFacts DEF UnreadUntouched
<1>11. pairs'[xb].first = input[xb].first
  <2>1. pairs'[xb] = pairs[yb]
    BY <1>3, <1>4, <1>5, ReadFacts
  <2>2. pairs[xb].first = input[xb].first
    BY <1>3, <1>4, <1>8, ReadFacts DEF UnreadUntouched, Same
  <2> QED BY <1>1, <2>1, <2>2
<1>12. UnreadUntouched'
  BY <1>1, <1>2, <1>9, <1>10, <1>11 DEF UnreadUntouched, Same
<1> QED BY <1>6, <1>7, <1>12 DEF IInv

LEMMA SeekInsertKeeps ==
  ASSUME IInv, SeekInsert
  PROVE  IInv'
<1>1. UNCHANGED <<input, im, op>> /\ op = "union" /\ pc = "seek" /\ pc' = "insert"
      /\ xb' = xb + 1 /\ yb' = yb + 1 /\ pairs' = [pairs EXCEPT ![xb] = pairs[yb]]
      /\ it' = xb /\ deque' = PushBack(deque, pairs[xb])
      /\ xb <= im /\ yb <= ye
  BY DEF SeekInsert
<1>2. ye' = ye /\ Deque' = Deque /\ Size(deque)' = Size(deque')
  BY <1>1, Frame
<1>3. TypeOK /\ UnreadUntouched
  BY DEF IInv
<1>4. pairs[yb] \in Entry /\ pairs[xb] \in Entry /\ yb \in (im + 1)..ye /\ xb \in 1..im
  BY <1>1, <1>3, ReadFacts DEF TypeOK
<1>5. /\ pairs' \in Seq(Entry) /\ Len(pairs') = ye
      /\ \A i \in 1..ye : i # xb => pairs'[i] = pairs[i]
  BY <1>1, <1>3, <1>4, ReadFacts, WriteFacts
<1>6. deque \in Deque /\ Size(deque) = 0
  BY <1>1 DEF IInv, TypeOK, Cursors
<1>7. deque' \in Deque /\ Size(deque') = 1
  BY <1>1, <1>3, <1>4, <1>6, ReadFacts, PushFacts
<1>8. TypeOK'
  BY <1>1, <1>2, <1>3, <1>4, <1>5, <1>7, ReadFacts, SMTT(30) DEF TypeOK
<1>9. Cursors'
  BY <1>1, <1>2, <1>3, <1>4, <1>7, ReadFacts DEF Cursors
<1>10. UnreadUntouched'
  BY <1>1, <1>3, <1>4, <1>5, ReadFacts, UnreadStep
<1> QED BY <1>8, <1>9, <1>10 DEF IInv

LEMMA CopyLastKeeps ==
  ASSUME IInv, CopyLast
  PROVE  IInv'
<1>1. UNCHANGED <<input, im, op, xb, deque>> /\ pc = "copy" /\ yb' = yb + 1
      /\ pc' = (IF yb = ye THEN "done" ELSE "copy")
  BY DEF CopyLast
<1>2. ye' = ye /\ Deque' = Deque /\ TypeOK /\ UnreadUntouched
  BY <1>1, Frame DEF IInv
<1>3. pairs[yb] \in Entry /\ yb \in (im + 1)..ye /\ im <= it /\ it < yb /\ xb = im + 1
  BY <1>1, ReadFacts DEF IInv, TypeOK, Cursors
<1>4. /\ pairs' \in Seq(Entry) /\ Len(pairs') = ye /\ it' \in {it, it + 1}
      /\ \A i \in (yb + 1)..ye : pairs'[i] = pairs[i]
  <2>1. CASE UNCHANGED <<pairs, it>>
    BY <1>2, <2>1 DEF TypeOK
  <2>2. CASE it' = it + 1 /\ pairs' = [pairs EXCEPT ![it + 1] = pairs[yb]]
    <3>1. it + 1 \in Nat /\ it + 1 <= yb /\ yb \in Nat
      BY <1>2, <1>3, ReadFacts
    <3>2. /\ pairs' \in Seq(Entry) /\ Len(pairs') = ye
          /\ \A i \in 1..ye : i # it + 1 => pairs'[i] = pairs[i]
      BY <1>1, <1>2, <1>3, <2>2, <3>1, WriteFacts
    <3>3. ye \in Nat
      BY <1>2, ReadFacts
    <3> QED BY <2>2, <3>1, <3>2, <3>3
  <2> QED BY <2>1, <2>2 DEF CopyLast
<1>5. TypeOK'
  BY <1>1, <1>2, <1>3, <1>4, ReadFacts, SMTT(30) DEF TypeOK
<1>6. Cursors'
  BY <1>1, <1>2, <1>3, <1>4, ReadFacts DEF Cursors
<1>7. UnreadUntouched'
  BY <1>1, <1>2, <1>3, <1>4, ReadFacts, UnreadStep
<1> QED BY <1>5, <1>6, <1>7 DEF IInv

LEMMA InsertOverwriteKeeps ==
  ASSUME IInv, InsertOverwrite
  PROVE  IInv'
<1>1. UNCHANGED <<input, im, op, xb, it, deque, pc>> /\ pc = "insert" /\ yb' = yb + 1
      /\ pairs' = [pairs EXCEPT ![it] = pairs[yb]] /\ yb <= ye
  BY DEF InsertOverwrite
<1>2. /\ ye' = ye /\ Deque' = Deque /\ Size(deque)' = Size(deque)
      /\ TypeOK /\ Cursors /\ UnreadUntouched
  BY <1>1, Frame DEF IInv
<1>3. Size(deque) \in Nat /\ pairs[yb] \in Entry /\ yb \in (im + 1)..ye /\ xb \in 1..(im + 1)
  BY <1>1, <1>2, ReadFacts, PopFacts DEF TypeOK
<1>4. /\ op = "union" /\ 1 <= it /\ (xb <= im => it = xb - 1) /\ (xb = im + 1 => im <= it)
      /\ it + Size(deque) <= xb - 1 + (yb - 1 - im) /\ Size(deque) <= yb - 1 - im
  BY <1>1, <1>2 DEF Cursors
<1>5. it < yb /\ (xb <= im => it < xb)
  BY <1>2, <1>3, <1>4, ReadFacts
<1>6. /\ pairs' \in Seq(Entry) /\ Len(pairs') = ye
      /\ \A i \in 1..ye : i # it => pairs'[i] = pairs[i]
  BY <1>1, <1>2, <1>3, ReadFacts, WriteFacts
<1>7. TypeOK'
  <2>1. xb' \in 1..(im + 1) /\ yb' \in (im + 1)..(ye + 1) /\ it' \in 0..(ye + 1)
    BY <1>1, <1>2, <1>3, ReadFacts, SMTT(30) DEF TypeOK
  <2>2. deque' \in Deque /\ pc' = "insert"
    BY <1>1, <1>2 DEF TypeOK
  <2> QED BY <1>1, <1>2, <1>4, <1>6, <2>1, <2>2, UnionTypeStep
<1>8. Cursors'
  BY <1>1, <1>2, <1>3, <1>4, ReadFacts DEF Cursors
<1>9. UnreadUntouched'
  BY <1>1, <1>2, <1>3, <1>5, <1>6, ReadFacts, UnreadStep
<1> QED BY <1>7, <1>8, <1>9 DEF IInv

LEMMA InsertDoneKeeps ==
  ASSUME IInv, InsertDone
  PROVE  IInv'
<1>1. UNCHANGED <<op, input, im, pairs, xb, yb, it, deque>> /\ pc = "insert" /\ pc' = "drain"
      /\ yb > ye
  BY DEF InsertDone
<1>2. /\ ye' = ye /\ Deque' = Deque /\ Size(deque)' = Size(deque)
      /\ TypeOK /\ Cursors /\ UnreadUntouched
  BY <1>1, Frame DEF IInv
<1>3. TypeOK' /\ Cursors'
  BY <1>1, <1>2, ReadFacts DEF TypeOK, Cursors
<1>4. UnreadUntouched'
  BY <1>1, <1>2, ReadFacts, UnreadStep DEF TypeOK
<1> QED BY <1>3, <1>4 DEF IInv

\* The loops that move entries through the deque write one place further each
\* turn: in step with the reading of x, or, when x is read, behind that of y.
LEMMA DequeLoopsKeep ==
  ASSUME IInv, TakeQueued \/ TakeNew \/ Drain
  PROVE  IInv'
<1>1. /\ UNCHANGED <<op, input, im, pc>> /\ pc \in {"insert", "drain"}
      /\ it' = it + 1 /\ xb' = NextX
      /\ pc = "insert" => yb <= ye
  BY DEF TakeQueued, TakeNew, Drain
<1>2. /\ ye' = ye /\ Deque' = Deque /\ Size(deque)' = Size(deque')
      /\ TypeOK /\ Cursors /\ UnreadUntouched
  BY <1>1, Frame DEF IInv
<1>3. /\ Size(deque) \in Nat /\ xb \in 1..(im + 1) /\ yb \in (im + 1)..(ye + 1)
      /\ op = "union" /\ 1 <= it /\ (xb <= im => it = xb - 1) /\ (xb = im + 1 => im <= it)
      /\ it + Size(deque) <= xb - 1 + (yb - 1 - im) /\ Size(deque) <= yb - 1 - im
      /\ (pc = "drain" => yb = ye + 1)
  BY <1>1, <1>2, PopFacts DEF TypeOK, Cursors
<1>4. /\ Saved \in Deque
      /\ xb <= im => Size(Saved) = Size(deque) + 1 /\ NextX = xb + 1
      /\ xb > im => Saved = deque /\ NextX = xb
  BY <1>1, SavedFacts
<1>5. /\ pairs' \in Seq(Entry) /\ Len(pairs') = ye
      /\ \A i \in 1..ye : i # it + 1 => pairs'[i] = pairs[i]
  <2>1. \E e \in Entry : pairs' = [pairs EXCEPT ![it + 1] = e]
    <3>1. Front(Saved) \in Entry
      BY <1>2, <1>4, PopFacts
    <3>2. TakeNew => pairs[yb] \in Entry
      BY <1>2, <1>3, ReadFacts DEF TakeNew
    <3> QED BY <3>1, <3>2 DEF TakeQueued, TakeNew, Drain
  <2>2. it + 1 \in Nat
    BY <1>2, ReadFacts
  <2> QED BY <1>1, <1>2, <2>1, <2>2, WriteFacts
<1>6. \/ /\ yb' = yb /\ deque' \in Deque /\ Size(Saved) >= 1
         /\ Size(deque') = Size(Saved) - 1
      \/ yb' = yb + 1 /\ yb <= ye /\ deque' = Saved
  <2>1. CASE TakeQueued \/ Drain
    <3>1. yb' = yb /\ deque' = PopFront(Saved) /\ ~Empty(Saved)
      BY <2>1 DEF TakeQueued, Drain, QueuedFirst
    <3> QED BY <1>2, <1>4, <3>1, PopFacts
  <2>2. CASE TakeNew
    BY <2>2 DEF TakeNew
  <2> QED BY <2>1, <2>2
<1>7. /\ xb' \in xb..(im + 1) /\ xb' \in 1..(im + 1) /\ yb' \in yb..(ye + 1)
      /\ yb' \in (im + 1)..(ye + 1) /\ it' \in 1..ye
      /\ xb' <= im => it' = xb' - 1
      /\ xb' = im + 1 => im <= it'
      /\ it' + Size(deque') <= xb' - 1 + (yb' - 1 - im) /\ Size(deque') <= yb' - 1 - im
      /\ it + 1 < yb' /\ (it + 1 < xb' \/ xb' > im)
      /\ deque' \in Deque
  BY <1>1, <1>2, <1>3, <1>4, <1>6, ReadFacts
<1>8. TypeOK'
  <2>1. it' \in 0..(ye + 1)
    BY <1>2, <1>7, ReadFacts
  <2> QED BY <1>1, <1>2, <1>3, <1>5, <1>7, <2>1, UnionTypeStep
<1>9. pc = "drain" => yb' = ye + 1
  BY <1>3, <1>6, <1>2, ReadFacts
<1>10. Cursors'
  BY <1>1, <1>2, <1>3, <1>7, <1>9 DEF Cursors
<1>11. UnreadUntouched'
  <2> DEFINE w == it + 1
  <2> w \in Nat /\ ye \in Nat /\ im \in Nat /\ im <= ye /\ xb' \in Nat /\ yb' \in Nat
    BY <1>2, <1>7, ReadFacts
  <2> w < yb' /\ (w < xb' \/ xb' > im) /\ 1 <= xb' /\ 1 <= yb'
    BY <1>7
  <2> \A i \in 1..ye : i # w => pairs'[i] = pairs[i]
    BY <1>5
  <2> HIDE DEF w
  <2>1. \A i \in yb'..ye : pairs'[i] = pairs[i]
    OBVIOUS
  <2>2. \A i \in xb'..im : pairs'[i] = pairs[i]
    OBVIOUS
  <2>3. pc \notin {"seek", "done"}
    BY <1>1
  <2> QED BY <1>1, <1>2, <1>7, <2>1, <2>2, <2>3, UnreadStep
<1> QED BY <1>8, <1>10, <1>11 DEF IInv

LEMMA DrainDoneKeeps ==
  ASSUME IInv, DrainDone
  PROVE  IInv'
<1>1. /\ UNCHANGED <<op, input, im, pairs, yb, it>> /\ pc = "drain" /\ pc' = "done"
      /\ xb' = NextX /\ deque' = Saved
  BY DEF DrainDone
<1>2. /\ ye' = ye /\ Deque' = Deque /\ TypeOK /\ Cursors /\ UnreadUntouched
  BY <1>1, Frame DEF IInv
<1>3. /\ Saved \in Deque
      /\ xb <= im => NextX = xb + 1
      /\ xb > im => NextX = xb
  BY <1>1, SavedFacts
<1>4. op = "union"
  BY <1>1, <1>2 DEF Cursors
<1>5. xb \in 1..(im + 1) /\ yb \in (im + 1)..(ye + 1) /\ it \in 0..(ye + 1)
      /\ pairs \in Seq(Entry) /\ Len(pairs) = ye
  BY <1>2 DEF TypeOK
<1>6. xb' \in xb..(im + 1) /\ xb' \in 1..(im + 1) /\ yb \in yb..(ye + 1)
  BY <1>1, <1>2, <1>3, <1>5, ReadFacts
<1>7. TypeOK'
  BY <1>1, <1>2, <1>3, <1>4, <1>5, <1>6, UnionTypeStep
<1>8. Cursors'
  BY <1>1 DEF Cursors
<1>9. UnreadUntouched'
  BY <1>1, <1>2, <1>6, ReadFacts, UnreadStep
<1> QED BY <1>7, <1>8, <1>9 DEF IInv

LEMMA DiffReadsKeep ==
  ASSUME IInv, DiffSkip \/ DiffMiss \/ DiffMatch \/ ShiftMiss \/ ShiftMatch
  PROVE  IInv'
<1>1. UNCHANGED <<op, input, im, deque, pairs>>
  BY DEF DiffSkip, DiffMiss, DiffMatch, ShiftMiss, ShiftMatch
<1>2. /\ ye' = ye /\ Deque' = Deque /\ Size(deque)' = Size(deque)
      /\ TypeOK /\ Cursors /\ UnreadUntouched
  BY <1>1, Frame DEF IInv
<1>3. op = "difference" /\ pc \in {"seek", "shift"} /\ xb \in 1..im /\ yb \in (im + 1)..ye
      /\ (pc = "shift" => it < xb) /\ it \in 0..(ye + 1)
  BY <1>2, ReadFacts DEF TypeOK, Cursors, DiffSkip, DiffMiss, DiffMatch, ShiftMiss, ShiftMatch
<1>4. /\ xb' \in {xb, xb + 1} /\ yb' \in {yb, yb + 1} /\ it' \in {it, xb}
      /\ pc' \in {"seek", "shift", "done"}
      /\ pc' # "done" => xb' <= im
      /\ pc' = "seek" => yb' <= ye /\ pc = "seek"
      /\ pc' = "shift" => it' < xb'
  BY <1>2, <1>3, ReadFacts DEF DiffSkip, DiffMiss, DiffMatch, ShiftMiss, ShiftMatch
<1>5. TypeOK'
  BY <1>1, <1>2, <1>3, <1>4, ReadFacts DEF TypeOK
<1>6. Cursors'
  BY <1>1, <1>2, <1>3, <1>4 DEF Cursors
<1>7. UnreadUntouched'
  BY <1>1, <1>2, <1>3, <1>4, ReadFacts, UnreadStep
<1> QED BY <1>5, <1>6, <1>7 DEF IInv

LEMMA ShiftKeepKeeps ==
  ASSUME IInv, ShiftKeep
  PROVE  IInv'
<1>1. /\ UNCHANGED <<op, input, im, deque, yb>> /\ pc = "shift"
      /\ pairs' = [pairs EXCEPT ![it] = pairs[xb]] /\ it' = it + 1 /\ xb' = xb + 1
      /\ pc' = (IF xb = im THEN "done" ELSE "shift")
  BY DEF ShiftKeep
<1>2. /\ ye' = ye /\ Deque' = Deque /\ TypeOK /\ Cursors /\ UnreadUntouched
  BY <1>1, Frame DEF IInv
<1>3. xb \in 1..im /\ yb \in (im + 1)..(ye + 1) /\ it < xb /\ op = "difference"
  BY <1>1, <1>2, ReadFacts DEF TypeOK, Cursors
<1>4. pairs[xb] \in Entry
  BY <1>2, <1>3, ReadFacts
<1>5. /\ pairs' \in Seq(Entry) /\ Len(pairs') = ye
      /\ \A i \in 1..ye : i # it => pairs'[i] = pairs[i]
  BY <1>1, <1>2, <1>4, ReadFacts, WriteFacts
<1>6. TypeOK'
  BY <1>1, <1>2, <1>3, <1>5, ReadFacts, SMTT(30) DEF TypeOK
<1>7. Cursors'
  BY <1>1, <1>2, <1>3, ReadFacts DEF Cursors
<1>8. UnreadUntouched'
  BY <1>1, <1>2, <1>3, <1>5, ReadFacts, UnreadStep
<1> QED BY <1>6, <1>7, <1>8 DEF IInv

LEMMA CopyRestKeeps ==
  ASSUME IInv, CopyRest
  PROVE  IInv'
<1>1. /\ UNCHANGED <<op, input, im, deque, yb>> /\ pc = "shift" /\ pc' = "done" /\ yb > ye
      /\ pairs' = [i \in DOMAIN pairs |->
                     IF i \in it..(it + im - xb) THEN pairs[i + xb - it] ELSE pairs[i]]
      /\ it' = it + im - xb + 1 /\ xb' = im + 1
  BY DEF CopyRest
<1>2. /\ ye' = ye /\ Deque' = Deque /\ TypeOK /\ Cursors /\ UnreadUntouched
  BY <1>1, Frame DEF IInv
<1>3. xb \in 1..im /\ yb = ye + 1 /\ it < xb /\ op = "difference"
  BY <1>1, <1>2, ReadFacts, SMTT(30) DEF TypeOK, Cursors
<1>4. DOMAIN pairs = 1..ye
  BY <1>2, ReadFacts DEF TypeOK
<1>5. pairs' \in [1..ye -> Entry]
  <2>1. ASSUME NEW i \in 1..ye
        PROVE  (IF i \in it..(it + im - xb) THEN pairs[i + xb - it] ELSE pairs[i]) \in Entry
    <3>1. CASE i \in it..(it + im - xb)
      <4>1. i + xb - it \in 1..ye
        BY <1>2, <1>3, <3>1, ReadFacts
      <4> QED BY <1>2, <3>1, <4>1, ReadFacts
    <3> QED BY <1>2, <3>1, ReadFacts
  <2> QED BY <1>1, <1>4, <2>1
<1>6. pairs' \in Seq(Entry) /\ Len(pairs') = ye
  BY <1>2, <1>5, ReadFacts
<1>7. TypeOK'
  BY <1>1, <1>2, <1>3, <1>6, ReadFacts DEF TypeOK
<1>8. Cursors'
  BY <1>1, <1>2 DEF Cursors
<1>9. UnreadUntouched'
  BY <1>1, <1>2, <1>3, ReadFacts, UnreadStep
<1> QED BY <1>7, <1>8, <1>9 DEF IInv

-----------------------------------------------------------------------------
(* The theorems *)

LEMMA NextKeepsIInv == IInv /\ [Next]_vars => IInv'
<1> SUFFICES ASSUME IInv, [Next]_vars PROVE IInv'
  OBVIOUS
<1>1. CASE UNCHANGED vars
  <2>1. UNCHANGED <<op, input, im, pairs, xb, yb, it, deque, pc>>
    BY <1>1 DEF vars
  <2>2. ye' = ye /\ Deque' = Deque /\ Size(deque)' = Size(deque)
    BY <2>1, Frame
  <2>3. TypeOK' /\ Cursors'
    BY <2>1, <2>2 DEF IInv, TypeOK, Cursors
  <2>4. UnreadUntouched'
    BY <2>1, <2>2 DEF IInv, UnreadUntouched, Same
  <2> QED BY <2>3, <2>4 DEF IInv
<1>2. CASE Next
  BY <1>2, SeekKeeps, SeekReplaceKeeps, SeekInsertKeeps, CopyLastKeeps,
     InsertOverwriteKeeps, InsertDoneKeeps, DequeLoopsKeep, DrainDoneKeeps,
     DiffReadsKeep, ShiftKeepKeeps, CopyRestKeeps DEF Next
<1> QED BY <1>1, <1>2

\* Every cursor and the deque stay within their bounds, for every key set and
\* parts of every length: no loop reads or writes outside the array.
THEOREM TypeCorrect == Spec => []TypeOK
<1>1. IInv => TypeOK
  BY DEF IInv
<1> QED BY <1>1, InitIInv, NextKeepsIInv, PTL DEF Spec

\* An in-place union or difference never overwrites what it has yet to read,
\* for parts of every length.
THEOREM UnreadNeverOverwritten == Spec => []UnreadUntouched
<1>1. IInv => UnreadUntouched
  BY DEF IInv
<1> QED BY <1>1, InitIInv, NextKeepsIInv, PTL DEF Spec


-----------------------------------------------------------------------------
(* What a difference keeps, by counting how often a key was met.           *)

LEMMA SortedFacts ==
  ASSUME NEW E, HasKeys(E), NEW s \in Seq(E), Sorted(s)
  PROVE  \A i, j \in 1..Len(s) : i <= j => s[i].first <= s[j].first
<1>1. DOMAIN s = 1..Len(s) /\ Len(s) \in Nat /\ \A i \in 1..Len(s) : s[i].first \in Nat
  BY EntryFacts
<1> SUFFICES ASSUME NEW i \in 1..Len(s), NEW j \in 1..Len(s), i <= j
             PROVE  s[i].first <= s[j].first
  OBVIOUS
<1>2. i = j \/ i < j
  BY <1>1
<1>3. i < j => s[i].first <= s[j].first
  BY <1>1 DEF Sorted
<1>4. s[i].first \in Nat
  BY <1>1
<1> QED BY <1>2, <1>3, <1>4

\* Places up to n of the entries of s with key k.
OfKey(s, k, n) == { j \in 1..n : s[j].first = k }

LEMMA OfKeyFacts ==
  ASSUME NEW s, NEW k, NEW n \in Nat
  PROVE  /\ IsFiniteSet(OfKey(s, k, n)) /\ Cardinality(OfKey(s, k, n)) \in Nat
         /\ OfKey(s, k, n) = {} => Cardinality(OfKey(s, k, n)) = 0
         /\ s[n + 1].first = k
              => Cardinality(OfKey(s, k, n + 1)) = Cardinality(OfKey(s, k, n)) + 1
         /\ s[n + 1].first # k => OfKey(s, k, n + 1) = OfKey(s, k, n)
         /\ \A m \in Nat : n <= m =>
              Cardinality(OfKey(s, k, n)) <= Cardinality(OfKey(s, k, m))
<1>1. \A m \in Nat : IsFiniteSet(OfKey(s, k, m))
  <2> SUFFICES ASSUME NEW m \in Nat PROVE IsFiniteSet(OfKey(s, k, m))
    OBVIOUS
  <2>1. IsFiniteSet(1..m)
    BY FS_Interval
  <2>2. OfKey(s, k, m) \subseteq 1..m
    BY DEF OfKey
  <2> QED BY <2>1, <2>2, FS_Subset
<1>2. Cardinality(OfKey(s, k, n)) \in Nat
  BY <1>1, FS_CardinalityType
<1>3. n + 1 \notin OfKey(s, k, n)
  BY DEF OfKey
<1>4. ASSUME s[n + 1].first = k
      PROVE  Cardinality(OfKey(s, k, n + 1)) = Cardinality(OfKey(s, k, n)) + 1
  <2>1. OfKey(s, k, n + 1) = OfKey(s, k, n) \cup {n + 1}
    BY <1>4 DEF OfKey
  <2> QED BY <1>1, <1>3, <2>1, FS_AddElement
<1>5. ASSUME s[n + 1].first # k PROVE OfKey(s, k, n + 1) = OfKey(s, k, n)
  BY <1>5 DEF OfKey
<1>6. ASSUME NEW m \in Nat, n <= m
      PROVE  Cardinality(OfKey(s, k, n)) <= Cardinality(OfKey(s, k, m))
  <2>1. OfKey(s, k, n) \in SUBSET OfKey(s, k, m)
    BY <1>6 DEF OfKey
  <2> QED BY <1>1, <2>1, FS_Subset
<1> QED BY <1>1, <1>2, <1>4, <1>5, <1>6, FS_EmptySet

\* Places in x of the entries that a difference keeps.
Kept(x, y) ==
  { i \in DOMAIN x :
      Cardinality({ j \in 1..(i - 1) : x[j].first = x[i].first })
        >= Cardinality({ j \in DOMAIN y : y[j].first = x[i].first }) }

LEMMA KeptIs ==
  ASSUME NEW E, HasKeys(E), NEW x \in Seq(E), NEW y \in Seq(E)
  PROVE  /\ Kept(x, y) \subseteq 1..Len(x)
         /\ \A i \in 1..Len(x) :
              i \in Kept(x, y) <=> Cardinality(OfKey(x, x[i].first, i - 1))
                                     >= Cardinality(OfKey(y, x[i].first, Len(y)))
<1>1. DOMAIN x = 1..Len(x) /\ DOMAIN y = 1..Len(y)
  BY EntryFacts
<1> QED BY <1>1 DEF Kept, OfKey

\* Entry a of x is the next, c entries of y were read: of a's key as many of y
\* as of x, unless those were all of y.
Balanced(x, y, a, c) ==
  /\ \A j \in 1..c : y[j].first <= x[a].first
  /\ Cardinality(OfKey(y, x[a].first, c)) <= Cardinality(OfKey(x, x[a].first, a - 1))
  /\ \/ Cardinality(OfKey(y, x[a].first, c)) = Cardinality(OfKey(x, x[a].first, a - 1))
     \/ \A j \in 1..Len(y) : c < j => y[j].first # x[a].first

\* Nothing of a greater key was read.
LEMMA BalancedAnew ==
  ASSUME NEW E, HasKeys(E), NEW x \in Seq(E), NEW y \in Seq(E), Sorted(x),
         NEW a \in 1..Len(x), NEW c \in 0..Len(y), a + 1 <= Len(x),
         \A j \in 1..c : y[j].first <= x[a].first, x[a + 1].first # x[a].first
  PROVE  Balanced(x, y, a + 1, c)
<1> DEFINE k == x[a].first
           l == x[a + 1].first
<1>1. /\ Len(x) \in Nat /\ DOMAIN x = 1..Len(x) /\ Len(y) \in Nat
      /\ \A i \in 1..Len(x) : x[i].first \in Nat
      /\ \A i \in 1..Len(y) : y[i].first \in Nat
  BY EntryFacts
<1>2. a + 1 \in 1..Len(x) /\ a \in Nat /\ c \in Nat
  BY <1>1
<1>3. k \in Nat /\ l \in Nat /\ k < l
  <2>1. k \in Nat /\ l \in Nat /\ k # l
    BY <1>1, <1>2
  <2>2. k <= l
    BY <1>2, SortedFacts
  <2> HIDE DEF k, l
  <2> QED BY <2>1, <2>2
<1>4. OfKey(y, l, c) = {}
  <2> SUFFICES ASSUME NEW j \in 1..c PROVE y[j].first # l
    BY DEF OfKey
  <2>1. y[j].first \in Nat /\ y[j].first <= k
    BY <1>1
  <2> HIDE DEF k, l
  <2> QED BY <1>3, <2>1
<1>5. OfKey(x, l, a) = {}
  <2> SUFFICES ASSUME NEW j \in 1..a PROVE x[j].first # l
    BY DEF OfKey
  <2>1. x[j].first \in Nat /\ x[j].first <= k
    <3>1. j \in 1..Len(x) /\ j <= a
      BY <1>1
    <3> QED BY <1>1, <3>1, SortedFacts
  <2> HIDE DEF k, l
  <2> QED BY <1>3, <2>1
<1>6. Cardinality(OfKey(y, l, c)) = 0 /\ Cardinality(OfKey(x, l, a)) = 0
  <2> HIDE DEF l
  <2>1. c \in Nat /\ a \in Nat
    BY <1>2
  <2>2. Cardinality(OfKey(y, l, c)) = 0
    BY <1>4, <2>1, OfKeyFacts, ZenonT(60)
  <2>3. Cardinality(OfKey(x, l, a)) = 0
    BY <1>5, <2>1, OfKeyFacts, ZenonT(60)
  <2> QED BY <2>2, <2>3
<1>7. \A j \in 1..c : y[j].first <= l
  <2> SUFFICES ASSUME NEW j \in 1..c PROVE y[j].first <= l
    OBVIOUS
  <2>1. y[j].first \in Nat /\ y[j].first <= k
    BY <1>1
  <2> HIDE DEF k, l
  <2> QED BY <1>3, <2>1
<1>8. (a + 1) - 1 = a
  BY <1>2
<1> QED BY <1>6, <1>7, <1>8 DEF Balanced

\* DiffSkip, ShiftKeep: the entry stays.
LEMMA KeepsSmaller ==
  ASSUME NEW E, HasKeys(E), NEW x \in Seq(E), NEW y \in Seq(E), Sorted(x), Sorted(y),
         NEW a \in 1..Len(x), NEW c \in 0..(Len(y) - 1), Balanced(x, y, a, c),
         x[a].first < y[c + 1].first
  PROVE  a \in Kept(x, y) /\ (a + 1 <= Len(x) => Balanced(x, y, a + 1, c))
<1> DEFINE k == x[a].first
           n == Cardinality(OfKey(x, k, a - 1))
           m == Cardinality(OfKey(y, k, c))
<1>1. /\ Len(x) \in Nat /\ DOMAIN x = 1..Len(x) /\ Len(y) \in Nat /\ DOMAIN y = 1..Len(y)
      /\ \A i \in 1..Len(x) : x[i].first \in Nat
      /\ \A i \in 1..Len(y) : y[i].first \in Nat
  BY EntryFacts
<1>2. a - 1 \in Nat /\ c \in Nat /\ c + 1 \in 1..Len(y) /\ (a - 1) + 1 = a
  BY <1>1
<1>3. \A j \in 1..Len(y) : c < j => y[j].first # k
  <2> SUFFICES ASSUME NEW j \in 1..Len(y), c < j PROVE y[j].first # k
    OBVIOUS
  <2>1. y[c + 1].first <= y[j].first
    <3>1. CASE j = c + 1
      BY <1>1, <1>2, <3>1
    <3>2. CASE c + 1 < j
      BY <1>1, <1>2, <3>2 DEF Sorted
    <3> QED BY <1>1, <1>2, <3>1, <3>2
  <2>2. y[j].first \in Nat /\ y[c + 1].first \in Nat /\ k \in Nat /\ k < y[c + 1].first
    BY <1>1, <1>2
  <2> HIDE DEF k
  <2> QED BY <2>1, <2>2
<1>4. OfKey(y, k, Len(y)) = OfKey(y, k, c)
  <2>1. \A j \in 1..Len(y) : y[j].first = k => j \in 1..c
    BY <1>1, <1>2, <1>3
  <2>2. \A j \in 1..c : j \in 1..Len(y)
    BY <1>1, <1>2
  <2> HIDE DEF k
  <2> QED BY <2>1, <2>2 DEF OfKey
<1>5. m <= n /\ m \in Nat /\ n \in Nat
  BY <1>2, OfKeyFacts DEF Balanced
<1>6. a \in Kept(x, y)
  <2>1. a \in Kept(x, y) <=> n >= m
    BY <1>4, KeptIs
  <2> HIDE DEF n, m
  <2> QED BY <1>5, <2>1
<1>7. ASSUME a + 1 <= Len(x), x[a + 1].first = k PROVE Balanced(x, y, a + 1, c)
  <2>1. Cardinality(OfKey(x, k, a)) = n + 1
    <3> HIDE DEF k
    <3>1. x[(a - 1) + 1].first = k
      BY <1>2 DEF k
    <3> QED BY <1>2, <3>1, OfKeyFacts, SMTT(30)
  <2>2. \A j \in 1..c : y[j].first <= k
    BY DEF Balanced
  <2>3. (a + 1) - 1 = a
    BY <1>2
  <2>4. m <= Cardinality(OfKey(x, k, a))
    <3> HIDE DEF n, m, k
    <3> QED BY <1>5, <2>1
  <2> QED BY <1>3, <1>7, <2>2, <2>3, <2>4 DEF Balanced
<1>8. ASSUME a + 1 <= Len(x), x[a + 1].first # k PROVE Balanced(x, y, a + 1, c)
  <2>1. c \in 0..Len(y) /\ \A j \in 1..c : y[j].first <= x[a].first
    BY <1>1 DEF Balanced
  <2> QED BY <1>8, <2>1, BalancedAnew
<1> QED BY <1>6, <1>7, <1>8

\* DiffMiss, ShiftMiss: the removal finds nothing.
LEMMA KeepsGreater ==
  ASSUME NEW E, HasKeys(E), NEW x \in Seq(E), NEW y \in Seq(E),
         NEW a \in 1..Len(x), NEW c \in 0..(Len(y) - 1), Balanced(x, y, a, c),
         y[c + 1].first < x[a].first
  PROVE  Balanced(x, y, a, c + 1)
<1> DEFINE k == x[a].first
<1>1. /\ Len(y) \in Nat /\ x[a].first \in Nat
      /\ \A i \in 1..Len(y) : y[i].first \in Nat
  BY EntryFacts
<1>2. c \in Nat /\ c + 1 \in 1..Len(y) /\ y[c + 1].first # k
  BY <1>1
<1>3. OfKey(y, k, c + 1) = OfKey(y, k, c)
  BY <1>2, OfKeyFacts
<1>4. \A j \in 1..(c + 1) : y[j].first <= k
  <2> SUFFICES ASSUME NEW j \in 1..(c + 1) PROVE y[j].first <= k
    OBVIOUS
  <2>1. CASE j = c + 1
    BY <1>1, <1>2, <2>1
  <2>2. CASE j \in 1..c
    BY <2>2 DEF Balanced
  <2> QED BY <1>2, <2>1, <2>2
<1>5. \A j \in 1..Len(y) : c + 1 < j => c < j
  BY <1>2
<1> QED BY <1>3, <1>4, <1>5 DEF Balanced

\* DiffMatch, ShiftMatch: the removal takes the entry.
LEMMA DropsMatch ==
  ASSUME NEW E, HasKeys(E), NEW x \in Seq(E), NEW y \in Seq(E), Sorted(x), Sorted(y),
         NEW a \in 1..Len(x), NEW c \in 0..(Len(y) - 1), Balanced(x, y, a, c),
         x[a].first = y[c + 1].first
  PROVE  a \notin Kept(x, y) /\ (a + 1 <= Len(x) => Balanced(x, y, a + 1, c + 1))
<1> DEFINE k == x[a].first
           n == Cardinality(OfKey(x, k, a - 1))
           m == Cardinality(OfKey(y, k, c))
<1>1. /\ Len(x) \in Nat /\ Len(y) \in Nat /\ k \in Nat
      /\ \A i \in 1..Len(y) : y[i].first \in Nat
  BY EntryFacts
<1>2. a - 1 \in Nat /\ c \in Nat /\ c + 1 \in 1..Len(y) /\ (a - 1) + 1 = a
  BY <1>1
<1>3. m = n /\ m \in Nat
  <2>1. ~ \A j \in 1..Len(y) : c < j => y[j].first # k
    BY <1>2
  <2> QED BY <1>2, <2>1, OfKeyFacts DEF Balanced
<1>4. Cardinality(OfKey(y, k, c + 1)) = m + 1 /\ Cardinality(OfKey(x, k, a)) = n + 1
  <2>1. x[(a - 1) + 1].first = k /\ y[c + 1].first = k
    BY <1>2
  <2> HIDE DEF k
  <2> QED BY <1>2, <2>1, OfKeyFacts
<1>5. a \notin Kept(x, y)
  <2>1. Cardinality(OfKey(y, k, c + 1)) <= Cardinality(OfKey(y, k, Len(y)))
    BY <1>1, <1>2, OfKeyFacts
  <2>2. Cardinality(OfKey(y, k, Len(y))) \in Nat
    BY <1>1, OfKeyFacts
  <2>3. a \in Kept(x, y) <=> n >= Cardinality(OfKey(y, k, Len(y)))
    BY KeptIs
  <2> HIDE DEF n, m
  <2> QED BY <1>3, <1>4, <2>1, <2>2, <2>3
<1>6. \A j \in 1..(c + 1) : y[j].first <= k
  BY <1>1, <1>2 DEF Balanced
<1>7. ASSUME a + 1 <= Len(x), x[a + 1].first = k PROVE Balanced(x, y, a + 1, c + 1)
  <2>1. Cardinality(OfKey(y, k, c + 1)) = Cardinality(OfKey(x, k, (a + 1) - 1))
    <3>1. (a + 1) - 1 = a
      BY <1>2
    <3> QED BY <1>3, <1>4, <3>1
  <2>2. Cardinality(OfKey(y, k, c + 1)) <= Cardinality(OfKey(x, k, (a + 1) - 1))
    <3> HIDE DEF n, m
    <3> QED BY <1>3, <1>4, <2>1
  <2> QED BY <1>6, <1>7, <2>1, <2>2 DEF Balanced
<1>8. ASSUME a + 1 <= Len(x), x[a + 1].first # k PROVE Balanced(x, y, a + 1, c + 1)
  <2>1. c + 1 \in 0..Len(y)
    BY <1>2
  <2> QED BY <1>6, <1>8, <2>1, BalancedAnew
<1> QED BY <1>5, <1>7, <1>8

\* All removals were read: what is left of x stays.
LEMMA KeepsRest ==
  ASSUME NEW E, HasKeys(E), NEW x \in Seq(E), NEW y \in Seq(E), Sorted(x),
         NEW a \in 1..Len(x), Balanced(x, y, a, Len(y)), NEW i \in a..Len(x)
  PROVE  i \in Kept(x, y)
<1> DEFINE k == x[a].first
           l == x[i].first
           n == Cardinality(OfKey(x, l, i - 1))
           m == Cardinality(OfKey(y, l, Len(y)))
<1>1. /\ Len(x) \in Nat /\ Len(y) \in Nat /\ DOMAIN x = 1..Len(x)
      /\ \A j \in 1..Len(x) : x[j].first \in Nat
      /\ \A j \in 1..Len(y) : y[j].first \in Nat
  BY EntryFacts
<1>2. i \in 1..Len(x) /\ i - 1 \in Nat /\ a - 1 \in Nat /\ a - 1 <= i - 1
  BY <1>1
<1>3. n \in Nat /\ m \in Nat
  BY <1>1, <1>2, OfKeyFacts
<1>4. CASE l = k
  <2>1. m <= Cardinality(OfKey(x, l, a - 1))
    BY <1>4 DEF Balanced
  <2>2. Cardinality(OfKey(x, l, a - 1)) <= n /\ Cardinality(OfKey(x, l, a - 1)) \in Nat
    BY <1>2, OfKeyFacts
  <2>3. n >= m
    <3> HIDE DEF n, m, l, k
    <3> QED BY <1>3, <2>1, <2>2
  <2> QED BY <1>2, <2>3, KeptIs
<1>5. CASE l # k
  <2>1. k < l /\ k \in Nat /\ l \in Nat
    <3>1. k \in Nat /\ l \in Nat
      BY <1>1, <1>2
    <3>2. k <= l
      BY <1>2, SortedFacts
    <3> HIDE DEF k, l
    <3> QED BY <1>5, <3>1, <3>2
  <2>2. OfKey(y, l, Len(y)) = {}
    <3> SUFFICES ASSUME NEW j \in 1..Len(y) PROVE y[j].first # l
      BY DEF OfKey
    <3>1. y[j].first <= k /\ y[j].first \in Nat
      BY <1>1 DEF Balanced
    <3> HIDE DEF k, l
    <3> QED BY <2>1, <3>1
  <2>3. m = 0
    BY <1>1, <2>2, OfKeyFacts, ZenonT(60)
  <2>4. n >= m
    <3> HIDE DEF n, m
    <3> QED BY <1>3, <2>3
  <2> QED BY <1>2, <2>4, KeptIs
<1> QED BY <1>4, <1>5

-----------------------------------------------------------------------------
(* The kept entries in front of an array, each at its rank.                *)

\* w places of r are written: with the kept entries among the first n of x.
Written(x, K, n, r, w) ==
  /\ w = Cardinality(UpTo(K, n))
  /\ \A i \in K : i <= n => r[Cardinality(UpTo(K, i))] = x[i]

\* K is a set of indices of a sequence of length l.
Places(K, l) == \A i \in K : i \in Nat /\ 1 <= i /\ i <= l

LEMMA RankFacts ==
  ASSUME NEW l \in Nat, NEW K, Places(K, l)
  PROVE  /\ IsFiniteSet(K) /\ K \subseteq Int
         /\ \A i \in Int : IsFiniteSet(UpTo(K, i)) /\ Cardinality(UpTo(K, i)) \in Nat
         /\ \A i, j \in Int : i <= j => Cardinality(UpTo(K, i)) <= Cardinality(UpTo(K, j))
         /\ \A i \in K : Cardinality(UpTo(K, i)) >= 1
         /\ \A i \in 1..l : i \notin K => UpTo(K, i) = UpTo(K, i - 1)
         /\ \A i \in K : Cardinality(UpTo(K, i)) = Cardinality(UpTo(K, i - 1)) + 1
         /\ UpTo(K, 0) = {}
<1>1. IsFiniteSet(K) /\ K \subseteq Int
  <2>1. IsFiniteSet(1..l)
    BY FS_Interval
  <2>2. K \subseteq 1..l /\ K \subseteq Int
    BY DEF Places
  <2> QED BY <2>1, <2>2, FS_Subset
<1>0. \A i \in K : i \in Int /\ i >= 1 /\ i <= l
  BY DEF Places
<1>2. ASSUME NEW i \in Int PROVE IsFiniteSet(UpTo(K, i)) /\ Cardinality(UpTo(K, i)) \in Nat
  <2>1. IsFiniteSet(UpTo(K, i))
    <3>1. UpTo(K, i) \subseteq K
      BY DEF UpTo
    <3> QED BY <1>1, <3>1, FS_Subset
  <2> QED BY <2>1, FS_CardinalityType
<1>3. ASSUME NEW i \in Int, NEW j \in Int, i <= j
      PROVE  Cardinality(UpTo(K, i)) <= Cardinality(UpTo(K, j))
  <2>1. UpTo(K, i) \in SUBSET UpTo(K, j)
    BY <1>0, <1>3 DEF UpTo
  <2> QED BY <1>2, <2>1, FS_Subset
<1>4. ASSUME NEW i \in K
      PROVE  Cardinality(UpTo(K, i)) = Cardinality(UpTo(K, i - 1)) + 1
  <2>1. UpTo(K, i) = UpTo(K, i - 1) \cup {i} /\ i \notin UpTo(K, i - 1) /\ i - 1 \in Int
    BY <1>0 DEF UpTo
  <2>2. IsFiniteSet(UpTo(K, i - 1))
    BY <1>2, <2>1
  <2> QED BY <2>1, <2>2, FS_AddElement
<1>5. ASSUME NEW i \in K PROVE Cardinality(UpTo(K, i)) >= 1
  <2>1. i - 1 \in Int
    BY <1>0
  <2>2. Cardinality(UpTo(K, i - 1)) \in Nat
    BY <1>2, <2>1
  <2> QED BY <1>4, <2>2
<1>6. ASSUME NEW i \in 1..l, i \notin K PROVE UpTo(K, i) = UpTo(K, i - 1)
  BY <1>0, <1>6 DEF UpTo
<1>7. UpTo(K, 0) = {}
  BY <1>0 DEF UpTo
<1> QED BY <1>1, <1>2, <1>3, <1>4, <1>5, <1>6, <1>7

\* Entry a is not kept.
LEMMA WrittenSkips ==
  ASSUME NEW x, NEW l \in Nat, NEW K, Places(K, l), NEW a \in 1..l, a \notin K,
         NEW r, NEW w, Written(x, K, a - 1, r, w)
  PROVE  Written(x, K, a, r, w)
<1>1. UpTo(K, a) = UpTo(K, a - 1)
  BY RankFacts
<1>2. \A i \in K : i \in Int /\ i # a
  BY DEF Places
<1>3. \A i \in K : i <= a => i <= a - 1
  BY <1>2
<1> QED BY <1>1, <1>3 DEF Written

\* The entries from a to m are kept and written behind the others.
LEMMA WrittenKeeps ==
  ASSUME NEW x, NEW l \in Nat, NEW K, Places(K, l), NEW a \in 1..l, NEW m \in a..l,
         a..m \subseteq K, NEW r, NEW s, NEW w, Written(x, K, a - 1, r, w),
         \A i \in 1..w : s[i] = r[i],
         \A i \in a..m : s[w + (i - a) + 1] = x[i]
  PROVE  Written(x, K, m, s, w + (m - a) + 1)
<1> DEFINE R(i) == Cardinality(UpTo(K, i))
<1>1. w = R(a - 1) /\ w \in Nat /\ a \in Nat /\ m \in Nat
  <2>1. a - 1 \in Int /\ a \in Nat /\ m \in Nat
    OBVIOUS
  <2>2. R(a - 1) \in Nat
    BY <2>1, RankFacts
  <2>3. w = R(a - 1)
    BY DEF Written
  <2> QED BY <2>1, <2>2, <2>3
<1>2. ASSUME NEW i \in a..m PROVE R(i) = w + (i - a) + 1
  <2> DEFINE T == { n \in Nat : n \in a..m => R(n) = w + (n - a) + 1 }
  <2>1. a \in T
    <3>1. a \in K
      BY <1>1
    <3>2. R(a) = R(a - 1) + 1
      BY <3>1, RankFacts
    <3> HIDE DEF R
    <3> QED BY <1>1, <3>2
  <2>2. ASSUME NEW n \in Nat, a <= n, n \in T PROVE n + 1 \in T
    <3> SUFFICES ASSUME n + 1 \in a..m PROVE R(n + 1) = w + (n + 1 - a) + 1
      OBVIOUS
    <3>1. n \in a..m /\ n + 1 \in K /\ (n + 1) - 1 = n
      BY <1>1, <2>2
    <3>2. R(n + 1) = R(n) + 1
      <4> DEFINE b == n + 1
      <4>1. b \in K /\ b - 1 = n
        BY <3>1
      <4> HIDE DEF b
      <4>2. R(b) = R(b - 1) + 1
        BY <4>1, RankFacts
      <4>3. R(b) = R(n) + 1
        BY <4>1, <4>2
      <4> QED BY <4>3 DEF b
    <3> HIDE DEF R
    <3> QED BY <1>1, <2>2, <3>1, <3>2
  <2> HIDE DEF T, R
  <2>3. i \in Nat /\ a <= i
    BY <1>1
  <2>4. i \in T
    BY <1>1, <2>1, <2>2, <2>3, Upward
  <2> QED BY <2>4 DEF T
<1>3. ASSUME NEW i \in K, i <= m PROVE s[R(i)] = x[i]
  <2>1. CASE i \in a..m
    <3>1. R(i) = w + (i - a) + 1
      BY <1>2, <2>1
    <3> HIDE DEF R
    <3> QED BY <2>1, <3>1
  <2>2. CASE i <= a - 1
    <3>1. R(i) \in 1..w
      <4>1. R(i) >= 1 /\ R(i) \in Nat
        BY RankFacts
      <4>2. R(i) <= R(a - 1)
        <5>1. i \in Int /\ a - 1 \in Int
          BY <1>1 DEF Places
        <5> QED BY <2>2, <5>1, RankFacts
      <4> HIDE DEF R
      <4> QED BY <1>1, <4>1, <4>2
    <3>2. r[R(i)] = x[i]
      BY <2>2 DEF Written
    <3> HIDE DEF R
    <3> QED BY <3>1, <3>2
  <2>3. i \in Nat
    BY DEF Places
  <2> QED BY <1>1, <1>3, <2>1, <2>2, <2>3
<1>4. R(m) = w + (m - a) + 1
  <2>1. m \in a..m
    BY <1>1
  <2> HIDE DEF R
  <2> QED BY <1>2, <2>1
<1> QED BY <1>3, <1>4 DEF Written

\* Up to n everything is kept and where it was.
LEMMA WrittenPrefix ==
  ASSUME NEW x, NEW l \in Nat, NEW K, Places(K, l), NEW n \in 0..l, 1..n \subseteq K,
         NEW r, \A i \in 1..n : r[i] = x[i]
  PROVE  Written(x, K, n, r, n)
<1>1. Written(x, K, 0, r, 0)
  <2>1. UpTo(K, 0) = {}
    BY RankFacts
  <2>2. \A i \in K : ~(i <= 0)
    BY DEF Places
  <2> QED BY <2>1, <2>2, FS_EmptySet DEF Written
<1>2. CASE n = 0
  BY <1>1, <1>2
<1>3. CASE n # 0
  <2>1. n \in 1..l /\ 1 \in 1..l /\ n \in 1..l
    BY <1>3
  <2>2. 1 - 1 = 0 /\ 0 + (n - 1) + 1 = n /\ \A i \in 1..n : 0 + (i - 1) + 1 = i
    OBVIOUS
  <2>3. \A i \in 1..n : r[0 + (i - 1) + 1] = x[i]
    BY <2>2
  <2>4. Written(x, K, n, r, 0 + (n - 1) + 1)
    <3>1. \A i \in 1..0 : r[i] = r[i]
      OBVIOUS
    <3>2. Written(x, K, 1 - 1, r, 0)
      BY <1>1, <2>2
    <3> QED BY <2>1, <2>3, <3>1, <3>2, WrittenKeeps
  <2> QED BY <2>2, <2>4
<1> QED BY <1>2, <1>3

\* All kept entries were written: they are what At lists.
LEMMA WrittenAll ==
  ASSUME NEW E, NEW x \in Seq(E), NEW K, Places(K, Len(x)),
         NEW r \in Seq(E), NEW w \in 0..Len(r), Written(x, K, Len(x), r, w)
  PROVE  SubSeq(r, 1, w) = At(x, K)
<1> DEFINE R(i) == Cardinality(UpTo(K, i))
           N == Cardinality(K)
           c(n) == CHOOSE i \in K : R(i) = n
<1>1. Len(x) \in Nat /\ Len(r) \in Nat
  OBVIOUS
<1>2. w = N
  <2>1. UpTo(K, Len(x)) = K
    BY <1>1 DEF UpTo, Places
  <2> QED BY <2>1 DEF Written
<1>3. At(x, K) = [n \in 1..N |-> x[c(n)]]
  BY Zenon DEF At, UpTo
<1>4. ASSUME NEW n \in 1..N PROVE x[c(n)] = r[n]
  <2>1. IsFiniteSet(K) /\ K \subseteq Int
    BY <1>1, RankFacts
  <2>2. \E i \in K : R(i) = n
    BY <2>1, RankOntoRange
  <2>3. c(n) \in K /\ R(c(n)) = n
    <3> HIDE DEF R
    <3> QED BY <2>2
  <2> HIDE DEF c
  <2>4. c(n) <= Len(x)
    BY <1>1, <2>3 DEF Places
  <2>5. r[R(c(n))] = x[c(n)]
    BY <2>3, <2>4 DEF Written
  <2> HIDE DEF R
  <2> QED BY <2>3, <2>5
<1>5. SubSeq(r, 1, w) = [n \in 1..N |-> r[n]]
  <2> HIDE DEF N
  <2>1. SubSeq(r, 1, w) = [n \in 1..w |-> r[n]]
    BY <1>1
  <2> QED BY <1>2, <2>1
<1> HIDE DEF c, N
<1> QED BY <1>3, <1>4, <1>5

-----------------------------------------------------------------------------
(* What the array holds: the contents of the two parts.                    *)

\* What was read of y, and how long it is.
yc == yb - 1 - im
yn == ye - im

PartsSorted == Sorted(X) /\ Sorted(Y) /\ \A i \in 1..ye : input[i].second = i

LEMMA PartsFacts ==
  ASSUME TypeOK
  PROVE  /\ HasKeys(Entry)
         /\ X \in Seq(Entry) /\ Len(X) = im /\ DOMAIN X = 1..im
         /\ Y \in Seq(Entry) /\ Len(Y) = yn /\ DOMAIN Y = 1..yn
         /\ im \in Nat /\ yn \in Nat /\ ye = im + yn
         /\ yc \in 0..yn /\ yb = im + yc + 1 /\ (yb > ye => yc = yn) /\ (yb <= ye => yc < yn)
         /\ \A i \in 1..im : X[i] = input[i]
         /\ \A j \in 1..yn : Y[j] = input[im + j]
<1>1. input \in Seq(Entry) /\ Len(input) = ye /\ ye \in Nat /\ im \in 0..ye /\ yb \in (im + 1)..(ye + 1)
  BY DEF TypeOK, ye
<1>2. HasKeys(Entry)
  <2>1. \A e \in Entry : e.first \in Key \cup {0}
    BY DEF Entry
  <2>2. \A k \in Key \cup {0} : k \in Nat
    BY BoundsAssumption
  <2> QED BY <2>1, <2>2 DEF HasKeys
<1>3. /\ X \in Seq(Entry) /\ Len(X) = im /\ DOMAIN X = 1..im
      /\ \A i \in 1..im : X[i] = input[i]
  <2>1. X = [i \in 1..im |-> input[i]]
    BY <1>1 DEF X
  <2>2. \A i \in 1..im : input[i] \in Entry
    BY <1>1
  <2>3. X \in Seq(Entry) /\ Len(X) = im
    BY <1>1, <2>1, <2>2, EntriesFrom
  <2> QED BY <2>1, <2>3
<1>4. /\ Y \in Seq(Entry) /\ Len(Y) = yn /\ DOMAIN Y = 1..yn
      /\ \A j \in 1..yn : Y[j] = input[im + j]
  <2>1. yn \in Nat
    BY <1>1 DEF yn
  <2>2. Y = [j \in 1..yn |-> input[im + j]]
    <3>1. Y = [j \in 1..(ye - (im + 1) + 1) |-> input[(im + 1) + j - 1]]
      BY <1>1 DEF Y
    <3>2. ye - (im + 1) + 1 = yn /\ \A j \in 1..yn : (im + 1) + j - 1 = im + j
      BY <1>1 DEF yn
    <3> QED BY <3>1, <3>2
  <2>3. \A j \in 1..yn : input[im + j] \in Entry
    <3>1. \A j \in 1..yn : im + j \in 1..ye
      BY <1>1 DEF yn
    <3> QED BY <1>1, <3>1
  <2>4. Y \in Seq(Entry) /\ Len(Y) = yn
    BY <2>1, <2>2, <2>3, EntriesFrom
  <2> QED BY <2>2, <2>4
<1>5. /\ im \in Nat /\ yn \in Nat /\ ye = im + yn
      /\ yc \in 0..yn /\ yb = im + yc + 1 /\ (yb > ye => yc = yn) /\ (yb <= ye => yc < yn)
  BY <1>1 DEF yc, yn
<1> QED BY <1>2, <1>3, <1>4, <1>5

LEMMA PartsStay ==
  ASSUME UNCHANGED <<input, im>>
  PROVE  X' = X /\ Y' = Y /\ yn' = yn /\ ye' = ye /\ yc' = yb' - 1 - im /\ (PartsSorted => PartsSorted')
<1>1. X' = X /\ Y' = Y /\ yn' = yn /\ ye' = ye /\ yc' = yb' - 1 - im
  BY DEF X, Y, yn, ye, yc
<1>2. PartsSorted => PartsSorted'
  BY <1>1 DEF PartsSorted, Sorted
<1> QED BY <1>1, <1>2

LEMMA AtTheCall ==
  ASSUME Init
  PROVE  \E n \in 0..MaxX, m \in 0..MaxY : \E x \in Increasing(n), y \in Increasing(m) :
           /\ input = [i \in 1..(n + m) |->
                         [first |-> IF i <= n THEN x[i] ELSE y[i - n], second |-> i]]
           /\ im = n /\ pairs = input /\ xb = 1 /\ yb = n + 1
           /\ it = IF op = "union" THEN 0 ELSE n + 1
           /\ pc = IF op = "difference" /\ (n = 0 \/ m = 0) THEN "done" ELSE "seek"
  BY DEF Init

LEMMA InitSorted == Init => PartsSorted
<1> SUFFICES ASSUME Init PROVE PartsSorted
  OBVIOUS
<1>1. TypeOK
  BY InitIInv DEF IInv
<1>2. PICK n \in 0..MaxX, m \in 0..MaxY : \E x \in Increasing(n), y \in Increasing(m) :
        /\ input = [i \in 1..(n + m) |->
                      [first |-> IF i <= n THEN x[i] ELSE y[i - n], second |-> i]]
        /\ im = n /\ pairs = input /\ xb = 1 /\ yb = n + 1
        /\ it = IF op = "union" THEN 0 ELSE n + 1
        /\ pc = IF op = "difference" /\ (n = 0 \/ m = 0) THEN "done" ELSE "seek"
  BY AtTheCall
<1>3. PICK a \in Increasing(n), b \in Increasing(m) :
        /\ input = [i \in 1..(n + m) |->
                      [first |-> IF i <= n THEN a[i] ELSE b[i - n], second |-> i]]
        /\ im = n
  BY <1>2
<1>4. n \in Nat /\ m \in Nat
  BY BoundsAssumption
<1>5. ye = n + m /\ yn = m
  <2>1. Len(input) = n + m
    BY <1>3, <1>4
  <2> QED BY <2>1, <1>3, <1>4 DEF ye, yn
<1>6. ASSUME NEW k \in Nat, NEW s \in Increasing(k), NEW i \in 1..k
      PROVE  \A j \in 1..k : i <= j => s[i] <= s[j]
  <2> DEFINE T == { j \in Nat : j <= k => s[i] <= s[j] }
  <2>1. s \in [1..k -> Key] /\ \A j \in 1..(k - 1) : s[j] <= s[j + 1]
    BY DEF Increasing
  <2>2. \A j \in 1..k : s[j] \in Nat
    BY <2>1, BoundsAssumption
  <2>3. i \in T
    BY <2>2
  <2>4. ASSUME NEW j \in Nat, i <= j, j \in T PROVE j + 1 \in T
    <3> SUFFICES ASSUME j + 1 <= k PROVE s[i] <= s[j + 1]
      OBVIOUS
    <3>1. j \in 1..(k - 1) /\ j \in 1..k /\ j + 1 \in 1..k
      BY <2>4
    <3>2. s[i] <= s[j] /\ s[j] <= s[j + 1]
      BY <2>1, <2>4, <3>1
    <3> QED BY <2>2, <3>1, <3>2
  <2>5. i \in Nat
    OBVIOUS
  <2> HIDE DEF T
  <2>6. \A j \in Nat : i <= j => j \in T
    BY <2>3, <2>4, <2>5, Upward
  <2> QED BY <2>6 DEF T
<1>0. \A i \in 1..(n + m) : input[i].first = IF i <= n THEN a[i] ELSE b[i - n]
  BY <1>3
<1>7. Sorted(X)
  <2>1. \A i \in 1..n : X[i].first = a[i]
    <3>1. \A i \in 1..n : i \in 1..(n + m) /\ i <= n
      BY <1>4
    <3>2. \A i \in 1..n : X[i] = input[i]
      BY <1>1, <1>3, PartsFacts
    <3> QED BY <1>0, <3>1, <3>2
  <2>2. DOMAIN X = 1..n
    BY <1>1, <1>3, PartsFacts
  <2>3. \A i, j \in 1..n : i < j => a[i] <= a[j]
    BY <1>4, <1>6
  <2> QED BY <2>1, <2>2, <2>3 DEF Sorted
<1>8. Sorted(Y)
  <2>1. \A j \in 1..m : Y[j].first = b[j]
    <3>1. \A j \in 1..m : n + j \in 1..(n + m) /\ ~(n + j <= n) /\ (n + j) - n = j
      BY <1>4
    <3>2. \A j \in 1..m : Y[j] = input[n + j]
      BY <1>1, <1>3, <1>5, PartsFacts, ZenonT(60)
    <3>3. \A j \in 1..m : input[n + j].first = b[(n + j) - n]
      BY <1>0, <3>1
    <3> QED BY <3>1, <3>2, <3>3
  <2>2. DOMAIN Y = 1..m
    BY <1>1, <1>5, PartsFacts
  <2>3. \A i, j \in 1..m : i < j => b[i] <= b[j]
    BY <1>4, <1>6
  <2> QED BY <2>1, <2>2, <2>3 DEF Sorted
<1>9. \A i \in 1..ye : input[i].second = i
  BY <1>3, <1>5
<1> QED BY <1>7, <1>8, <1>9 DEF PartsSorted

-----------------------------------------------------------------------------
(* The difference: what is kept is in front, each entry at its rank.       *)

DiffInv ==
  op = "difference" =>
    /\ pc = "seek" => /\ pairs = input /\ it = im + 1
                      /\ Balanced(X, Y, xb, yc)
                      /\ 1..(xb - 1) \subseteq Kept(X, Y)
    /\ pc = "shift" => /\ Balanced(X, Y, xb, yc)
                       /\ Written(X, Kept(X, Y), xb - 1, pairs, it - 1)
    /\ pc = "done" => Written(X, Kept(X, Y), im, pairs, it - 1)

LEMMA KeptPlaces ==
  ASSUME TypeOK
  PROVE  Places(Kept(X, Y), im)
<1>1. Kept(X, Y) \subseteq 1..im
  BY PartsFacts, KeptIs
<1>2. im \in Nat
  BY PartsFacts
<1> QED BY <1>1, <1>2 DEF Places

\* What the loops of the difference read.
LEMMA DiffReads ==
  ASSUME IInv, op = "difference", pc \in {"seek", "shift"}
  PROVE  /\ xb \in 1..im /\ it \in Nat /\ it <= ye + 1
         /\ \A i \in xb..im : pairs[i] = X[i]
         /\ pairs[xb] = X[xb]
         /\ yb <= ye => pairs[yb] = Y[yc + 1] /\ yc \in 0..(yn - 1)
         /\ yb > ye => yc = yn
         /\ yb = ye => yc + 1 = yn
         /\ pc = "seek" => yb <= ye
<1>1. TypeOK /\ UnreadUntouched
  BY DEF IInv
<1>2. xb \in 1..im /\ it \in Nat /\ it <= ye + 1 /\ (pc = "seek" => yb <= ye) /\ yb \in Int
  BY <1>1, ReadFacts DEF TypeOK
<1>3. \A i \in xb..im : pairs[i] = X[i]
  BY <1>1, <1>2, PartsFacts, SMTT(30) DEF UnreadUntouched
<1>4. yb <= ye => pairs[yb] = Y[yc + 1] /\ yc \in 0..(yn - 1)
  <2> SUFFICES ASSUME yb <= ye PROVE pairs[yb] = Y[yc + 1] /\ yc \in 0..(yn - 1)
    OBVIOUS
  <2>1. yc \in 0..(yn - 1) /\ im + (yc + 1) = yb /\ yc + 1 \in 1..yn
    BY <1>1, PartsFacts
  <2>2. pairs[yb] = input[yb]
    BY <1>1, <1>2, ReadFacts DEF UnreadUntouched
  <2>3. Y[yc + 1] = input[im + (yc + 1)]
    BY <1>1, <2>1, PartsFacts
  <2> QED BY <2>1, <2>2, <2>3
<1>5. pairs[xb] = X[xb]
  <2>1. xb \in xb..im
    BY <1>2
  <2> QED BY <1>3, <2>1
<1>6. (yb > ye => yc = yn) /\ (yb = ye => yc + 1 = yn)
  BY <1>1, <1>2, PartsFacts, ReadFacts, SMTT(30) DEF yc, yn
<1> QED BY <1>2, <1>3, <1>4, <1>5, <1>6

\* Nothing was written yet: the kept entries are where they were.
LEMMA DiffPrefix ==
  ASSUME IInv, DiffInv, op = "difference", pc = "seek"
  PROVE  Written(X, Kept(X, Y), xb - 1, pairs, xb - 1)
<1>1. TypeOK /\ xb \in 1..im /\ im \in Nat /\ pairs = input /\ 1..(xb - 1) \subseteq Kept(X, Y)
  BY DiffReads, PartsFacts DEF IInv, DiffInv
<1>2. \A i \in 1..(xb - 1) : pairs[i] = X[i]
  BY <1>1, PartsFacts
<1>3. xb - 1 \in 0..im
  BY <1>1
<1> DEFINE n == xb - 1
<1> HIDE DEF n
<1>4. n \in 0..im /\ 1..n \subseteq Kept(X, Y) /\ \A i \in 1..n : pairs[i] = X[i]
  BY <1>1, <1>2, <1>3 DEF n
<1>5. Written(X, Kept(X, Y), n, pairs, n)
  BY <1>1, <1>4, KeptPlaces, WrittenPrefix
<1> QED BY <1>5 DEF n

LEMMA DiffSkipResult ==
  ASSUME IInv, PartsSorted, DiffInv, DiffSkip
  PROVE  DiffInv'
<1>1. /\ UNCHANGED <<op, input, im, deque, pairs, yb, it>> /\ op = "difference" /\ pc = "seek"
      /\ pairs[xb].first < pairs[yb].first
      /\ xb' = xb + 1 /\ pc' = IF xb = im THEN "done" ELSE "seek"
  BY DEF DiffSkip, Less
<1>2. TypeOK /\ Sorted(X) /\ Sorted(Y)
  BY DEF IInv, PartsSorted
<1>3. X' = X /\ Y' = Y /\ yc' = yc
  BY <1>1, PartsStay DEF yc
<1>4. /\ xb \in 1..im /\ im \in Nat /\ yc \in 0..(yn - 1)
      /\ X[xb].first < Y[yc + 1].first
  BY <1>1, <1>2, DiffReads, PartsFacts
<1>5. /\ pairs = input /\ it = im + 1 /\ Balanced(X, Y, xb, yc) /\ 1..(xb - 1) \subseteq Kept(X, Y)
  BY <1>1 DEF DiffInv
<1>6. xb \in Kept(X, Y) /\ (xb + 1 <= im => Balanced(X, Y, xb + 1, yc))
  BY <1>2, <1>4, <1>5, PartsFacts, KeepsSmaller
<1>7. 1..((xb + 1) - 1) \subseteq Kept(X, Y)
  <2>1. \A i \in 1..((xb + 1) - 1) : i = xb \/ i \in 1..(xb - 1)
    BY <1>4
  <2> QED BY <1>5, <1>6, <2>1
<1>8. CASE xb = im
  <2>1. Written(X, Kept(X, Y), im, pairs, im)
    <3>1. 1..im \subseteq Kept(X, Y) /\ im \in 0..im
      BY <1>4, <1>7, <1>8
    <3>2. \A i \in 1..im : pairs[i] = X[i]
      BY <1>2, <1>5, PartsFacts
    <3> QED BY <1>2, <1>4, <3>1, <3>2, KeptPlaces, WrittenPrefix
  <2>2. it - 1 = im
    BY <1>4, <1>5
  <2> QED BY <1>1, <1>3, <1>8, <2>1, <2>2 DEF DiffInv
<1>9. CASE xb # im
  <2>1. xb + 1 <= im
    BY <1>4, <1>9
  <2> QED BY <1>1, <1>3, <1>5, <1>6, <1>7, <1>9, <2>1 DEF DiffInv
<1> QED BY <1>8, <1>9

LEMMA DiffMissResult ==
  ASSUME IInv, PartsSorted, DiffInv, DiffMiss
  PROVE  DiffInv'
<1>1. /\ UNCHANGED <<op, input, im, deque, pairs, xb, it>> /\ op = "difference" /\ pc = "seek"
      /\ pairs[yb].first < pairs[xb].first
      /\ yb' = yb + 1 /\ pc' = IF yb = ye THEN "done" ELSE "seek"
  BY DEF DiffMiss, Less
<1>2. TypeOK /\ Sorted(X) /\ Sorted(Y)
  BY DEF IInv, PartsSorted
<1>3. X' = X /\ Y' = Y /\ yc' = yc + 1
  <2>1. yb \in Int /\ im \in Int
    BY <1>2, ReadFacts
  <2> QED BY <1>1, <2>1, PartsStay DEF yc
<1>4. /\ xb \in 1..im /\ im \in Nat /\ yc \in 0..(yn - 1) /\ yn \in Nat
      /\ Y[yc + 1].first < X[xb].first /\ (yb = ye => yc + 1 = yn)
  BY <1>1, <1>2, DiffReads, PartsFacts
<1>5. /\ pairs = input /\ it = im + 1 /\ Balanced(X, Y, xb, yc) /\ 1..(xb - 1) \subseteq Kept(X, Y)
  BY <1>1 DEF DiffInv
<1>6. Balanced(X, Y, xb, yc + 1)
  BY <1>2, <1>4, <1>5, PartsFacts, KeepsGreater
<1>7. CASE yb = ye
  <2>1. \A i \in xb..im : i \in Kept(X, Y)
    <3>1. Balanced(X, Y, xb, Len(Y))
      BY <1>2, <1>4, <1>6, <1>7, PartsFacts
    <3> QED BY <1>2, <1>4, <3>1, PartsFacts, KeepsRest
  <2>2. Written(X, Kept(X, Y), im, pairs, im)
    <3>1. \A i \in 1..im : i \in xb..im \/ i \in 1..(xb - 1)
      BY <1>4
    <3>2. 1..im \subseteq Kept(X, Y) /\ im \in 0..im
      BY <1>4, <1>5, <2>1, <3>1
    <3>3. \A i \in 1..im : pairs[i] = X[i]
      BY <1>2, <1>5, PartsFacts
    <3> QED BY <1>2, <1>4, <3>2, <3>3, KeptPlaces, WrittenPrefix
  <2>3. it - 1 = im
    BY <1>4, <1>5
  <2> QED BY <1>1, <1>3, <1>7, <2>2, <2>3 DEF DiffInv
<1>8. CASE yb # ye
  BY <1>1, <1>3, <1>5, <1>6, <1>8 DEF DiffInv
<1> QED BY <1>7, <1>8

\* DiffMatch and ShiftMatch: the entry is not kept, nothing is written.
LEMMA MatchResult ==
  ASSUME IInv, PartsSorted, DiffInv, DiffMatch \/ ShiftMatch
  PROVE  DiffInv'
<1>1. /\ UNCHANGED <<op, input, im, deque, pairs>> /\ pc \in {"seek", "shift"} /\ yb <= ye
      /\ op = "difference" /\ pairs[xb].first = pairs[yb].first
      /\ xb' = xb + 1 /\ yb' = yb + 1 /\ it' = (IF pc = "seek" THEN xb ELSE it)
      /\ pc' = IF xb = im THEN "done" ELSE "shift"
  <2>1. TypeOK /\ Cursors
    BY DEF IInv
  <2> QED BY <2>1 DEF DiffMatch, ShiftMatch, Same, TypeOK, Cursors
<1>2. TypeOK /\ Sorted(X) /\ Sorted(Y)
  BY DEF IInv, PartsSorted
<1>3. X' = X /\ Y' = Y /\ yc' = yc + 1
  <2>1. yb \in Int /\ im \in Int
    BY <1>2, ReadFacts
  <2> QED BY <1>1, <2>1, PartsStay DEF yc
<1>4. /\ xb \in 1..im /\ im \in Nat /\ yc \in 0..(yn - 1)
      /\ X[xb].first = Y[yc + 1].first
  BY <1>1, <1>2, DiffReads, PartsFacts
<1>5. Balanced(X, Y, xb, yc) /\ Written(X, Kept(X, Y), xb - 1, pairs, it' - 1)
  BY <1>1, DiffPrefix DEF DiffInv
<1>6. xb \notin Kept(X, Y) /\ (xb + 1 <= im => Balanced(X, Y, xb + 1, yc + 1))
  BY <1>2, <1>4, <1>5, PartsFacts, DropsMatch
<1>7. Written(X, Kept(X, Y), xb, pairs, it' - 1)
  <2> DEFINE w == it' - 1
  <2> HIDE DEF w
  <2>1. Written(X, Kept(X, Y), xb - 1, pairs, w)
    BY <1>5 DEF w
  <2>2. Written(X, Kept(X, Y), xb, pairs, w)
    BY <1>2, <1>4, <1>6, <2>1, KeptPlaces, WrittenSkips
  <2> QED BY <2>2 DEF w
<1>8. (xb + 1) - 1 = xb /\ (xb # im => xb + 1 <= im)
  BY <1>4
<1> QED BY <1>1, <1>3, <1>6, <1>7, <1>8 DEF DiffInv

LEMMA ShiftMissResult ==
  ASSUME IInv, PartsSorted, DiffInv, ShiftMiss
  PROVE  DiffInv'
<1>1. /\ UNCHANGED <<op, input, im, deque, pairs, xb, it, pc>> /\ pc = "shift" /\ yb <= ye
      /\ op = "difference" /\ pairs[yb].first < pairs[xb].first /\ yb' = yb + 1
  BY DEF ShiftMiss, Less, IInv, Cursors
<1>2. TypeOK
  BY DEF IInv
<1>3. X' = X /\ Y' = Y /\ yc' = yc + 1
  <2>1. yb \in Int /\ im \in Int
    BY <1>2, ReadFacts
  <2> QED BY <1>1, <2>1, PartsStay DEF yc
<1>4. xb \in 1..im /\ yc \in 0..(yn - 1) /\ Y[yc + 1].first < X[xb].first
  BY <1>1, <1>2, DiffReads, PartsFacts
<1>5. Balanced(X, Y, xb, yc) /\ Written(X, Kept(X, Y), xb - 1, pairs, it - 1)
  BY <1>1 DEF DiffInv
<1>6. Balanced(X, Y, xb, yc + 1)
  BY <1>2, <1>4, <1>5, PartsFacts, KeepsGreater
<1> QED BY <1>1, <1>3, <1>5, <1>6 DEF DiffInv

LEMMA ShiftKeepResult ==
  ASSUME IInv, PartsSorted, DiffInv, ShiftKeep
  PROVE  DiffInv'
<1>1. /\ UNCHANGED <<op, input, im, deque, yb>> /\ pc = "shift" /\ yb <= ye
      /\ op = "difference" /\ pairs[xb].first < pairs[yb].first
      /\ pairs' = [pairs EXCEPT ![it] = pairs[xb]] /\ it' = it + 1 /\ xb' = xb + 1
      /\ pc' = IF xb = im THEN "done" ELSE "shift"
  BY DEF ShiftKeep, Less, IInv, Cursors
<1>2. TypeOK /\ Sorted(X) /\ Sorted(Y)
  BY DEF IInv, PartsSorted
<1>3. X' = X /\ Y' = Y /\ yc' = yc
  BY <1>1, PartsStay DEF yc
<1>4. /\ xb \in 1..im /\ im \in Nat /\ yc \in 0..(yn - 1) /\ it \in Nat /\ it < xb
      /\ X[xb].first < Y[yc + 1].first /\ pairs[xb] = X[xb]
  <2>1. it < xb
    BY <1>1 DEF IInv, Cursors
  <2>2. xb \in xb..im
    BY <1>1, DiffReads
  <2> QED BY <1>1, <1>2, <2>1, <2>2, DiffReads, PartsFacts
<1>5. Balanced(X, Y, xb, yc) /\ Written(X, Kept(X, Y), xb - 1, pairs, it - 1)
  BY <1>1 DEF DiffInv
<1>6. xb \in Kept(X, Y) /\ (xb + 1 <= im => Balanced(X, Y, xb + 1, yc))
  BY <1>2, <1>4, <1>5, PartsFacts, KeepsSmaller
<1>7. Written(X, Kept(X, Y), xb, pairs', it' - 1)
  <2> DEFINE w == it - 1
             K == Kept(X, Y)
  <2>1. w \in Nat /\ Places(K, im)
    <3>1. Places(K, im)
      BY <1>2, KeptPlaces
    <3>2. w = Cardinality(UpTo(K, xb - 1)) /\ xb - 1 \in Int
      BY <1>4, <1>5 DEF Written
    <3> HIDE DEF w, K
    <3>3. w \in Nat
      BY <1>4, <3>1, <3>2, RankFacts
    <3> QED BY <3>1, <3>3
  <2>2. it \in 1..ye /\ pairs[xb] \in Entry
    <3>1. im <= ye /\ ye \in Nat /\ xb \in 1..ye
      BY <1>2, <1>4, ReadFacts
    <3> QED BY <1>2, <1>4, <2>1, <3>1, ReadFacts
  <2>3. pairs'[it] = X[xb] /\ \A i \in 1..w : pairs'[i] = pairs[i]
    <3>1. /\ \A i \in 1..ye : i # it => pairs'[i] = pairs[i]
          /\ pairs'[it] = pairs[xb]
      BY <1>1, <1>2, <2>2, <1>4, WriteFacts
    <3>2. \A i \in 1..w : i \in 1..ye /\ i # it
      <4>1. ye \in Nat
        BY <1>2, ReadFacts
      <4> HIDE DEF K
      <4> QED BY <2>1, <2>2, <4>1
    <3> QED BY <1>4, <3>1, <3>2
  <2>4. \A i \in xb..xb : pairs'[w + (i - xb) + 1] = X[i]
    <3>1. \A i \in xb..xb : w + (i - xb) + 1 = it /\ i = xb
      BY <1>4
    <3> QED BY <2>3, <3>1
  <2>5. xb..xb \subseteq K /\ xb \in xb..im
    <3>1. \A i \in xb..xb : i = xb
      BY <1>4
    <3> QED BY <1>4, <1>6, <3>1
  <2> HIDE DEF w, K
  <2>6. Written(X, K, xb - 1, pairs, w)
    BY <1>5 DEF w, K
  <2>7. Written(X, K, xb, pairs', w + (xb - xb) + 1)
    BY <1>4, <2>1, <2>3, <2>4, <2>5, <2>6, WrittenKeeps
  <2>8. w + (xb - xb) + 1 = it' - 1
    BY <1>1, <1>4 DEF w
  <2> QED BY <2>7, <2>8 DEF K
<1>8. (xb + 1) - 1 = xb /\ (xb # im => xb + 1 <= im)
  BY <1>4
<1> QED BY <1>1, <1>3, <1>6, <1>7, <1>8 DEF DiffInv

LEMMA CopyRestResult ==
  ASSUME IInv, PartsSorted, DiffInv, CopyRest
  PROVE  DiffInv'
<1>1. /\ UNCHANGED <<op, input, im, deque, yb>> /\ pc = "shift" /\ pc' = "done" /\ yb > ye
      /\ op = "difference"
      /\ pairs' = [i \in DOMAIN pairs |->
                     IF i \in it..(it + im - xb) THEN pairs[i + xb - it] ELSE pairs[i]]
      /\ it' = it + im - xb + 1 /\ xb' = im + 1
  BY DEF CopyRest, IInv, Cursors
<1>2. TypeOK /\ Sorted(X)
  BY DEF IInv, PartsSorted
<1>3. X' = X /\ Y' = Y
  BY <1>1, PartsStay
<1>4. /\ xb \in 1..im /\ im \in Nat /\ yc = Len(Y) /\ it \in Nat /\ it < xb
      /\ \A i \in xb..im : pairs[i] = X[i]
  <2>1. it < xb
    BY <1>1 DEF IInv, Cursors
  <2> QED BY <1>1, <1>2, <2>1, DiffReads, PartsFacts
<1>5. Balanced(X, Y, xb, Len(Y)) /\ Written(X, Kept(X, Y), xb - 1, pairs, it - 1)
  BY <1>1, <1>4 DEF DiffInv
<1>6. \A i \in xb..im : i \in Kept(X, Y)
  BY <1>2, <1>4, <1>5, PartsFacts, KeepsRest
<1> DEFINE w == it - 1
           K == Kept(X, Y)
<1>7. w \in Nat /\ Places(K, im)
  <2>1. Places(K, im)
    BY <1>2, KeptPlaces
  <2>2. w = Cardinality(UpTo(K, xb - 1)) /\ xb - 1 \in Int
    BY <1>4, <1>5 DEF Written
  <2> HIDE DEF w, K
  <2>3. w \in Nat
    BY <1>4, <2>1, <2>2, RankFacts
  <2> QED BY <2>1, <2>3
<1>8. DOMAIN pairs = 1..ye /\ im <= ye /\ ye \in Nat
  BY <1>2, ReadFacts DEF TypeOK
<1>9. \A i \in 1..w : pairs'[i] = pairs[i]
  <2>1. \A i \in 1..w : i \in 1..ye /\ i \notin it..(it + im - xb)
    BY <1>4, <1>7, <1>8
  <2> QED BY <1>1, <1>8, <2>1
<1>10. \A i \in xb..im : pairs'[w + (i - xb) + 1] = X[i]
  <2> TAKE i \in xb..im
  <2> DEFINE j == w + (i - xb) + 1
  <2>1. j \in 1..ye /\ j \in it..(it + im - xb) /\ j + xb - it = i
    BY <1>4, <1>7, <1>8
  <2> HIDE DEF j, w
  <2>2. pairs'[j] = pairs[j + xb - it]
    BY <1>1, <1>8, <2>1
  <2> QED BY <1>4, <2>1, <2>2 DEF j
<1>11. w + (im - xb) + 1 = it' - 1 /\ im \in xb..im
  BY <1>1, <1>4
<1> HIDE DEF w, K
<1>12. Written(X, K, xb - 1, pairs, w) /\ xb..im \subseteq K
  BY <1>5, <1>6 DEF w, K
<1>13. Written(X, K, im, pairs', w + (im - xb) + 1)
  BY <1>4, <1>7, <1>9, <1>10, <1>11, <1>12, WrittenKeeps
<1> QED BY <1>1, <1>3, <1>11, <1>13 DEF DiffInv, K

LEMMA InitDiff == Init => DiffInv
<1> SUFFICES ASSUME Init, op = "difference" PROVE DiffInv
  BY DEF DiffInv
<1>1. TypeOK
  BY InitIInv DEF IInv
<1>2. PICK n \in 0..MaxX, m \in 0..MaxY :
        /\ Len(input) = n + m
        /\ im = n /\ pairs = input /\ xb = 1 /\ yb = n + 1
        /\ it = n + 1
        /\ pc = IF n = 0 \/ m = 0 THEN "done" ELSE "seek"
  <2>1. PICK n \in 0..MaxX, m \in 0..MaxY : \E x \in Increasing(n), y \in Increasing(m) :
          /\ input = [i \in 1..(n + m) |->
                        [first |-> IF i <= n THEN x[i] ELSE y[i - n], second |-> i]]
          /\ im = n /\ pairs = input /\ xb = 1 /\ yb = n + 1
          /\ it = IF op = "union" THEN 0 ELSE n + 1
          /\ pc = IF op = "difference" /\ (n = 0 \/ m = 0) THEN "done" ELSE "seek"
    BY AtTheCall
  <2>2. n \in Nat /\ m \in Nat
    BY BoundsAssumption
  <2>3. Len(input) = n + m
    BY <2>1, <2>2
  <2> QED BY <2>1, <2>3
<1>3. n \in Nat /\ m \in Nat /\ yc = 0 /\ im = n /\ yn = m
  <2>1. n \in Nat /\ m \in Nat
    BY BoundsAssumption
  <2> QED BY <1>2, <2>1 DEF yc, yn, ye
<1>4. \A i \in 1..im : pairs[i] = X[i]
  BY <1>1, <1>2, PartsFacts
<1>5. CASE n = 0 \/ m = 0
  <2>1. 1..im \subseteq Kept(X, Y)
    <3> SUFFICES ASSUME NEW i \in 1..im PROVE i \in Kept(X, Y)
      OBVIOUS
    <3> DEFINE k == X[i].first
    <3>1. Len(X) = im /\ Len(Y) = 0 /\ X \in Seq(Entry) /\ Y \in Seq(Entry) /\ HasKeys(Entry)
      BY <1>1, <1>3, <1>5, PartsFacts
    <3>2. i - 1 \in Nat /\ im \in Nat
      BY <1>3
    <3> HIDE DEF k
    <3>3. OfKey(Y, k, 0) = {}
      BY DEF OfKey
    <3>4. Cardinality(OfKey(Y, k, 0)) = 0
      BY <3>3, FS_EmptySet
    <3>5. Cardinality(OfKey(X, k, i - 1)) \in Nat
      BY <3>2, OfKeyFacts
    <3>6. i \in Kept(X, Y) <=> Cardinality(OfKey(X, k, i - 1)) >= Cardinality(OfKey(Y, k, 0))
      BY <3>1, KeptIs DEF k
    <3> QED BY <3>4, <3>5, <3>6
  <2>2. im \in 0..im /\ im \in Nat
    BY <1>3
  <2>3. Written(X, Kept(X, Y), im, pairs, im)
    BY <1>1, <1>4, <2>1, <2>2, KeptPlaces, WrittenPrefix
  <2>4. it - 1 = im
    BY <1>2, <1>3
  <2> QED BY <1>2, <1>5, <2>3, <2>4 DEF DiffInv
<1>6. CASE n # 0 /\ m # 0
  <2>1. Balanced(X, Y, 1, 0)
    <3>1. \A k : OfKey(X, k, 0) = {} /\ OfKey(Y, k, 0) = {}
      BY DEF OfKey
    <3>2. 1 - 1 = 0 /\ \A j \in 1..0 : FALSE
      OBVIOUS
    <3> DEFINE k == X[1].first
    <3> HIDE DEF k
    <3>3. Cardinality(OfKey(X, k, 0)) = 0 /\ Cardinality(OfKey(Y, k, 0)) = 0
      BY <3>1, FS_EmptySet
    <3> QED BY <3>2, <3>3 DEF Balanced, k
  <2>2. \A i \in 1..(xb - 1) : FALSE
    BY <1>2
  <2>3. xb = 1 /\ it = im + 1 /\ pc = "seek" /\ pairs = input
    BY <1>2, <1>6
  <2> QED BY <1>3, <2>1, <2>2, <2>3 DEF DiffInv
<1> QED BY <1>5, <1>6

\* What a difference leaves in front is SetDifference of the parts.
LEMMA DiffResult ==
  ASSUME IInv, DiffInv, op = "difference", pc = "done"
  PROVE  SubSeq(pairs, 1, it - 1) = SetDifference(X, Y)
<1> DEFINE K == Kept(X, Y)
           w == it - 1
<1>1. TypeOK /\ Places(K, im) /\ Written(X, K, im, pairs, w)
  BY KeptPlaces DEF IInv, DiffInv
<1>2. X \in Seq(Entry) /\ Len(X) = im /\ im \in Nat /\ pairs \in Seq(Entry) /\ Len(pairs) = ye
      /\ it \in 0..(ye + 1) /\ ye \in Nat
  BY <1>1, PartsFacts DEF TypeOK, ye
<1>3. w \in Int /\ w <= ye
  BY <1>2
<1> HIDE DEF K, w
<1>4. w \in 0..Len(pairs)
  <2>1. w = Cardinality(UpTo(K, im)) /\ im \in Int
    BY <1>1, <1>2 DEF Written
  <2>2. w \in Nat
    BY <1>1, <1>2, <2>1, RankFacts
  <2> QED BY <1>2, <1>3, <2>2
<1>5. SubSeq(pairs, 1, w) = At(X, K)
  BY <1>1, <1>2, <1>4, WrittenAll
<1>6. SetDifference(X, Y) = At(X, K)
  BY DEF SetDifference, K, Kept
<1> QED BY <1>5, <1>6 DEF w

-----------------------------------------------------------------------------
(* The order of the merge: by key, and among equal keys the entries of y   *)
(* (the values beyond n) first.  It determines a sequence by its entries.  *)

Numbered(E) == \A e \in E : e.first \in Nat /\ e.second \in Nat

Comes(n, d, e) ==
  \/ d.first < e.first
  \/ /\ d.first = e.first
     /\ IF d.second > n THEN e.second <= n \/ d.second < e.second
        ELSE e.second <= n /\ d.second < e.second

InOrder(n, s) == \A i, j \in DOMAIN s : i < j => Comes(n, s[i], s[j])

Entries(s) == { s[i] : i \in DOMAIN s }

Ascending(s) == \A i, j \in DOMAIN s : i < j => s[i].second < s[j].second

LEMMA ComesOneWay ==
  ASSUME NEW E, Numbered(E), NEW n \in Nat, NEW d \in E, NEW e \in E, Comes(n, d, e)
  PROVE  ~Comes(n, e, d)
<1>1. d.first \in Nat /\ d.second \in Nat /\ e.first \in Nat /\ e.second \in Nat
  BY DEF Numbered
<1> QED BY <1>1 DEF Comes

LEMMA OrderAgree ==
  ASSUME NEW E, Numbered(E), NEW n \in Nat, NEW s \in Seq(E), NEW t \in Seq(E),
         InOrder(n, s), InOrder(n, t), Entries(s) \subseteq Entries(t),
         NEW i \in 1..Len(s), \A j \in 1..(i - 1) : j <= Len(t) /\ t[j] = s[j]
  PROVE  i <= Len(t) /\ (t[i] = s[i] \/ Comes(n, t[i], s[i]))
<1>1. /\ Len(s) \in Nat /\ DOMAIN s = 1..Len(s) /\ Len(t) \in Nat /\ DOMAIN t = 1..Len(t)
      /\ \A j \in 1..Len(s) : s[j] \in E
  OBVIOUS
<1>2. PICK m \in 1..Len(t) : t[m] = s[i]
  BY <1>1 DEF Entries
<1>3. ~(m < i)
  <2> SUFFICES ASSUME m < i PROVE FALSE
    OBVIOUS
  <2>1. m \in 1..(i - 1) /\ m \in 1..Len(s)
    BY <1>1
  <2>2. s[m] = s[i]
    BY <1>2, <2>1
  <2>3. Comes(n, s[m], s[i])
    BY <1>1, <2>1 DEF InOrder
  <2>4. s[i] \in E
    BY <1>1
  <2> QED BY <2>2, <2>3, <2>4, ComesOneWay
<1>4. i \in 1..Len(t)
  BY <1>1, <1>3
<1>5. i = m \/ Comes(n, t[i], t[m])
  BY <1>1, <1>3, <1>4 DEF InOrder
<1> QED BY <1>2, <1>4, <1>5

LEMMA OrderUnique ==
  ASSUME NEW E, Numbered(E), NEW n \in Nat, NEW s \in Seq(E), NEW t \in Seq(E),
         InOrder(n, s), InOrder(n, t), Entries(s) = Entries(t)
  PROVE  s = t
<1> DEFINE T == { i \in Nat : \/ i \in 1..Len(s) /\ ~(i <= Len(t) /\ t[i] = s[i])
                              \/ i \in 1..Len(t) /\ ~(i <= Len(s) /\ t[i] = s[i]) }
<1>1. /\ Len(s) \in Nat /\ Len(t) \in Nat
      /\ \A j \in 1..Len(s) : s[j] \in E
      /\ \A j \in 1..Len(t) : t[j] \in E
  OBVIOUS
<1>2. T = {}
  <2> SUFFICES ASSUME T # {} PROVE FALSE
    OBVIOUS
  <2>1. PICK i \in T : \A j \in T : i <= j
    BY LeastNat
  <2>2. \A j \in 1..(i - 1) : j \in Nat /\ j \notin T
    BY <2>1
  <2>3. \A j \in 1..(i - 1) : /\ j <= Len(s) <=> j <= Len(t)
                              /\ j <= Len(s) => t[j] = s[j]
    BY <1>1, <2>2
  <2>4. CASE i \in 1..Len(s)
    <3>1. \A j \in 1..(i - 1) : j <= Len(t) /\ t[j] = s[j]
      BY <1>1, <2>3, <2>4
    <3>2. i <= Len(t) /\ (t[i] = s[i] \/ Comes(n, t[i], s[i]))
      BY <2>4, <3>1, OrderAgree
    <3>3. i \in 1..Len(t) /\ \A j \in 1..(i - 1) : j <= Len(s) /\ s[j] = t[j]
      BY <1>1, <2>4, <3>1, <3>2
    <3>4. s[i] = t[i] \/ Comes(n, s[i], t[i])
      BY <3>3, OrderAgree
    <3>5. s[i] = t[i]
      <4>1. s[i] \in E /\ t[i] \in E
        BY <1>1, <2>4, <3>3
      <4> QED BY <3>2, <3>4, <4>1, ComesOneWay
    <3> QED BY <1>1, <2>1, <2>4, <3>2, <3>3, <3>5
  <2>5. CASE i \in 1..Len(t)
    <3>1. \A j \in 1..(i - 1) : j <= Len(s) /\ s[j] = t[j]
      BY <1>1, <2>3, <2>5
    <3>2. i <= Len(s)
      BY <2>5, <3>1, OrderAgree
    <3>3. i \in 1..Len(s)
      BY <1>1, <2>5, <3>2
    <3> QED BY <2>4, <3>3
  <2> QED BY <2>1, <2>4, <2>5
<1>3. \A i \in 1..Len(s) : i <= Len(t) /\ t[i] = s[i]
  BY <1>2
<1>4. \A i \in 1..Len(t) : i <= Len(s)
  BY <1>2
<1>5. Len(s) = Len(t)
  <2>1. Len(s) <= Len(t)
    BY <1>1, <1>3
  <2>2. Len(t) <= Len(s)
    BY <1>1, <1>4
  <2> QED BY <1>1, <2>1, <2>2
<1>6. s = [i \in 1..Len(s) |-> s[i]] /\ t = [i \in 1..Len(t) |-> t[i]]
  OBVIOUS
<1> QED BY <1>3, <1>5, <1>6

\* What At lists is in the order of s.
LEMMA AtAscends ==
  ASSUME NEW E, NEW s \in Seq(E), Ascending(s), NEW I, Places(I, Len(s))
  PROVE  /\ At(s, I) \in Seq(E)
         /\ Entries(At(s, I)) = { s[i] : i \in I }
         /\ Ascending(At(s, I))
<1> DEFINE t == At(s, I)
           N == Cardinality(I)
<1>1. /\ Len(s) \in Nat /\ DOMAIN s = 1..Len(s)
      /\ \A i \in 1..Len(s) : s[i] \in E
  OBVIOUS
<1>2. IsFiniteSet(I) /\ I \subseteq Int /\ N \in Nat
  <2>1. IsFiniteSet(I) /\ I \subseteq Int
    BY <1>1, RankFacts
  <2> QED BY <2>1, FS_CardinalityType
<1>3. \A i \in I : i \in 1..Len(s)
  BY <1>1 DEF Places
<1>5. /\ t = [n \in 1..N |-> t[n]]
      /\ \E e : Enumerates(e, I) /\ \A n \in 1..N : t[n] = s[e[n]]
  BY <1>2, AtEnumerates
<1>4. PICK e : Enumerates(e, I) /\ \A n \in 1..N : t[n] = s[e[n]]
  BY <1>5
<1>6. /\ \A n \in 1..N : e[n] \in I
      /\ \A m, n \in 1..N : m < n => e[m] < e[n]
      /\ \A i \in I : \E n \in 1..N : e[n] = i
  BY <1>4 DEF Enumerates
<1> HIDE DEF t, N
<1>7. \A n \in 1..N : t[n] \in E
  <2> TAKE n \in 1..N
  <2>1. e[n] \in 1..Len(s)
    BY <1>3, <1>6
  <2> QED BY <1>1, <1>4, <2>1
<1>8. t \in Seq(E) /\ Len(t) = N /\ DOMAIN t = 1..N
  <2>1. t \in Seq(E) /\ Len(t) = N
    BY <1>2, <1>5, <1>7, EntriesFrom
  <2> QED BY <2>1
<1>9. Entries(t) = { s[i] : i \in I }
  <2>1. \A n \in 1..N : t[n] \in { s[i] : i \in I }
    BY <1>4, <1>6
  <2>2. \A i \in I : \E n \in 1..N : t[n] = s[i]
    BY <1>4, <1>6
  <2> QED BY <1>8, <2>1, <2>2 DEF Entries
<1>10. Ascending(t)
  <2> SUFFICES ASSUME NEW m \in 1..N, NEW n \in 1..N, m < n PROVE t[m].second < t[n].second
    BY <1>8 DEF Ascending
  <2>1. e[m] \in 1..Len(s) /\ e[n] \in 1..Len(s) /\ e[m] < e[n]
    BY <1>3, <1>6
  <2> QED BY <1>1, <1>4, <2>1 DEF Ascending
<1> QED BY <1>8, <1>9, <1>10 DEF t

\* a are entries of y and b entries of x, each by place; both sorted together.
StableMerge(a, b) == StableSort(a \o b)

Mergeable(E, n, a, b) ==
  /\ Numbered(E) /\ n \in Nat /\ a \in Seq(E) /\ b \in Seq(E) /\ Ascending(a) /\ Ascending(b)
  /\ (\A e \in Entries(a) : e.second > n) /\ (\A e \in Entries(b) : e.second <= n)

\* A stable sort of entries of y followed by entries of x is in order.
LEMMA MergeInOrder ==
  ASSUME NEW E, NEW n, NEW a, NEW b, Mergeable(E, n, a, b)
  PROVE  /\ StableMerge(a, b) \in Seq(E)
         /\ InOrder(n, StableMerge(a, b))
         /\ Entries(StableMerge(a, b)) = Entries(a) \cup Entries(b)
<1> DEFINE s == a \o b
           t == StableSort(s)
           A == Len(a)
           B == Len(b)
           N == Len(s)
<1>0. /\ Numbered(E) /\ n \in Nat /\ a \in Seq(E) /\ b \in Seq(E) /\ Ascending(a) /\ Ascending(b)
      /\ (\A e \in Entries(a) : e.second > n) /\ (\A e \in Entries(b) : e.second <= n)
  BY DEF Mergeable
<1>1. /\ A \in Nat /\ B \in Nat /\ DOMAIN a = 1..A /\ DOMAIN b = 1..B
      /\ s \in Seq(E) /\ N = A + B /\ DOMAIN s = 1..N /\ N \in Nat
      /\ \A i \in 1..N : s[i] = IF i <= A THEN a[i] ELSE b[i - A]
      /\ \A i \in 1..N : s[i] \in E
  BY <1>0
<1>2. HasKeys(E)
  BY <1>0 DEF HasKeys, Numbered
<1> HIDE DEF s
<1>3. PICK e \in [1..N -> 1..N] :
        /\ t = [m \in 1..N |-> s[e[m]]]
        /\ \A i \in 1..N : \E m \in 1..N : e[m] = i
        /\ \A m, l \in 1..N : m < l => e[m] # e[l] /\ Precedes(s, e[m], e[l])
  BY <1>1, <1>2, StableSortOrders
<1> HIDE DEF t, A, B, N
<1>4. \A m \in 1..N : e[m] \in 1..N /\ t[m] = s[e[m]]
  BY <1>3
<1>5. t \in Seq(E) /\ Len(t) = N /\ DOMAIN t = 1..N
  <2>1. t = [m \in 1..N |-> t[m]]
    BY <1>3
  <2>2. \A m \in 1..N : t[m] \in E
    BY <1>1, <1>4
  <2>3. t \in Seq(E) /\ Len(t) = N
    BY <1>1, <2>1, <2>2, EntriesFrom
  <2> QED BY <2>3
<1>6. /\ \A i \in 1..N : i <= A => i \in 1..A /\ s[i] = a[i] /\ a[i] \in Entries(a)
      /\ \A i \in 1..N : ~(i <= A) => i - A \in 1..B /\ s[i] = b[i - A] /\ b[i - A] \in Entries(b)
  <2>1. (\A i \in 1..A : a[i] \in Entries(a)) /\ (\A i \in 1..B : b[i] \in Entries(b))
    BY <1>1 DEF Entries
  <2>2. \A i \in 1..N : i <= A => i \in 1..A /\ s[i] = a[i]
    BY <1>1
  <2>3. \A i \in 1..N : ~(i <= A) => i - A \in 1..B /\ s[i] = b[i - A]
    BY <1>1
  <2> QED BY <2>1, <2>2, <2>3
<1>7. Entries(t) = Entries(a) \cup Entries(b)
  <2>1. \A m \in 1..N : t[m] \in Entries(a) \cup Entries(b)
    BY <1>4, <1>6
  <2>2. ASSUME NEW i \in 1..A PROVE \E m \in 1..N : t[m] = a[i]
    <3>1. i \in 1..N /\ i <= A
      BY <1>1
    <3>2. PICK m \in 1..N : e[m] = i
      BY <1>3, <3>1
    <3> QED BY <1>4, <1>6, <3>1, <3>2
  <2>3. ASSUME NEW i \in 1..B PROVE \E m \in 1..N : t[m] = b[i]
    <3>1. A + i \in 1..N /\ ~(A + i <= A) /\ (A + i) - A = i
      BY <1>1
    <3>2. PICK m \in 1..N : e[m] = A + i
      BY <1>3, <3>1
    <3>3. s[A + i] = b[(A + i) - A]
      BY <1>6, <3>1
    <3> QED BY <1>4, <3>1, <3>2, <3>3
  <2>4. /\ \A z \in Entries(t) : \E m \in 1..N : z = t[m]
        /\ \A m \in 1..N : t[m] \in Entries(t)
        /\ \A z \in Entries(a) : \E i \in 1..A : z = a[i]
        /\ \A z \in Entries(b) : \E i \in 1..B : z = b[i]
    BY <1>1, <1>5 DEF Entries
  <2>5. ASSUME NEW z \in Entries(t) PROVE z \in Entries(a) \cup Entries(b)
    BY <2>1, <2>4
  <2>6. ASSUME NEW z \in Entries(a) \cup Entries(b) PROVE z \in Entries(t)
    BY <2>2, <2>3, <2>4
  <2> QED BY <2>5, <2>6
<1>8. ASSUME NEW i \in 1..N, NEW j \in 1..N, i # j, Precedes(s, i, j)
      PROVE  Comes(n, s[i], s[j])
  <2>1. s[i].second \in Nat /\ s[j].second \in Nat /\ s[i].first \in Nat /\ s[j].first \in Nat
    BY <1>0, <1>1 DEF Numbered
  <2>2. s[i].first < s[j].first \/ (s[i].first = s[j].first /\ i < j)
    BY <1>8 DEF Precedes
  <2>3. CASE s[i].first < s[j].first
    BY <2>3 DEF Comes
  <2>4. CASE s[i].first = s[j].first /\ i < j
    <3>1. CASE j <= A
      <4>1. i \in 1..A /\ j \in 1..A /\ s[i] = a[i] /\ s[j] = a[j]
        BY <1>1, <1>6, <2>4, <3>1
      <4>2. a[i].second < a[j].second
        BY <1>0, <1>1, <2>4, <4>1 DEF Ascending
      <4>3. a[i].second > n
        BY <1>0, <1>6, <3>1, <2>4, <1>1
      <4> QED BY <2>4, <4>1, <4>2, <4>3 DEF Comes
    <3>2. CASE i <= A /\ ~(j <= A)
      <4>1. s[i].second > n /\ s[j].second <= n
        BY <1>0, <1>6, <3>2
      <4> QED BY <2>4, <4>1 DEF Comes
    <3>3. CASE ~(i <= A)
      <4>1. i - A \in 1..B /\ j - A \in 1..B /\ i - A < j - A /\ ~(j <= A)
        BY <1>1, <2>4, <3>3
      <4>2. s[i] = b[i - A] /\ s[j] = b[j - A] /\ s[i].second <= n /\ s[j].second <= n
        BY <1>0, <1>6, <3>3, <4>1
      <4>3. s[i].second < s[j].second
        BY <1>0, <1>1, <4>1, <4>2 DEF Ascending
      <4> QED BY <2>1, <2>4, <4>2, <4>3 DEF Comes
    <3> QED BY <1>1, <2>4, <3>1, <3>2, <3>3
  <2> QED BY <2>2, <2>3, <2>4
<1>9. InOrder(n, t)
  <2> SUFFICES ASSUME NEW m \in 1..N, NEW l \in 1..N, m < l PROVE Comes(n, t[m], t[l])
    BY <1>5 DEF InOrder
  <2>1. e[m] # e[l] /\ Precedes(s, e[m], e[l]) /\ e[m] \in 1..N /\ e[l] \in 1..N
    BY <1>3, <1>4
  <2>2. Comes(n, s[e[m]], s[e[l]])
    BY <1>8, <2>1
  <2> QED BY <1>4, <2>2
<1> QED BY <1>5, <1>7, <1>9 DEF t, s, StableMerge

-----------------------------------------------------------------------------
(* What a union makes of its parts.                                        *)

\* x and y as they lie in one array, numbered by their places.
Inputs(E, x, y) ==
  /\ Numbered(E) /\ x \in Seq(E) /\ y \in Seq(E) /\ Sorted(x) /\ Sorted(y)
  /\ \A i \in 1..Len(x) : x[i].second = i
  /\ \A j \in 1..Len(y) : y[j].second = Len(x) + j

LEMMA InputFacts ==
  ASSUME NEW E, NEW x, NEW y, Inputs(E, x, y)
  PROVE  /\ Len(x) \in Nat /\ DOMAIN x = 1..Len(x) /\ Len(y) \in Nat /\ DOMAIN y = 1..Len(y)
         /\ \A i \in 1..Len(x) : x[i] \in E /\ x[i].first \in Nat /\ x[i].second = i
         /\ \A j \in 1..Len(y) : y[j] \in E /\ y[j].first \in Nat /\ y[j].second = Len(x) + j
         /\ \A i, j \in 1..Len(x) : i <= j => x[i].first <= x[j].first
         /\ \A i, j \in 1..Len(y) : i <= j => y[i].first <= y[j].first
<1>1. HasKeys(E) /\ x \in Seq(E) /\ y \in Seq(E) /\ Sorted(x) /\ Sorted(y)
  BY DEF Inputs, HasKeys, Numbered
<1>2. /\ Len(x) \in Nat /\ DOMAIN x = 1..Len(x) /\ \A i \in 1..Len(x) : x[i] \in E /\ x[i].first \in Nat
      /\ Len(y) \in Nat /\ DOMAIN y = 1..Len(y) /\ \A i \in 1..Len(y) : y[i] \in E /\ y[i].first \in Nat
  BY <1>1, EntryFacts
<1>3. \A i, j \in 1..Len(x) : i <= j => x[i].first <= x[j].first
  BY <1>1, SortedFacts
<1>4. \A i, j \in 1..Len(y) : i <= j => y[i].first <= y[j].first
  BY <1>1, SortedFacts
<1> QED BY <1>2, <1>3, <1>4 DEF Inputs

\* The entries of y up to c that are the last of their key.
LastsTo(y, c) == { j \in 1..c : \A l \in (j + 1)..c : y[l].first # y[j].first }

LEMMA LastsFacts ==
  ASSUME NEW y, NEW c \in Nat
  PROVE  /\ \A j \in 1..c : \E l \in LastsTo(y, c) : y[l].first = y[j].first
         /\ \A j, l \in LastsTo(y, c) : y[j].first = y[l].first => j = l
<1>1. ASSUME NEW j \in 1..c PROVE \E l \in LastsTo(y, c) : y[l].first = y[j].first
  <2> DEFINE T == { n \in Nat : n < c /\ y[c - n].first = y[j].first }
  <2>1. c - j \in T
    BY <1>1
  <2>2. PICK n \in T : \A m \in T : n <= m
    BY <2>1, LeastNat
  <2>3. c - n \in 1..c /\ y[c - n].first = y[j].first
    BY <2>2
  <2>4. ASSUME NEW l \in ((c - n) + 1)..c PROVE y[l].first # y[c - n].first
    <3>1. c - l \in Nat /\ c - l < c /\ ~(n <= c - l) /\ c - (c - l) = l
      BY <2>3
    <3>2. c - l \notin T
      BY <2>2, <3>1
    <3> QED BY <2>3, <3>1, <3>2
  <2>5. c - n \in LastsTo(y, c)
    BY <2>3, <2>4 DEF LastsTo
  <2> QED BY <2>3, <2>5
<1>2. ASSUME NEW j \in LastsTo(y, c), NEW l \in LastsTo(y, c), y[j].first = y[l].first
      PROVE  j = l
  <2>1. j \in 1..c /\ l \in 1..c
    BY DEF LastsTo
  <2>2. j < l => l \in (j + 1)..c
    BY <2>1
  <2>3. l < j => j \in (l + 1)..c
    BY <2>1
  <2>4. ~(j < l) /\ ~(l < j)
    BY <1>2, <2>2, <2>3 DEF LastsTo
  <2> QED BY <2>1, <2>4
<1> QED BY <1>1, <1>2

LEMMA LastsNext ==
  ASSUME NEW y, NEW c \in Nat
  PROVE  \A j : j \in LastsTo(y, c + 1)
                  <=> j = c + 1 \/ (j \in LastsTo(y, c) /\ y[j].first # y[c + 1].first)
<1>1. c + 1 \in LastsTo(y, c + 1)
  BY DEF LastsTo
<1>2. ASSUME NEW j \in LastsTo(y, c + 1), j # c + 1
      PROVE  j \in LastsTo(y, c) /\ y[j].first # y[c + 1].first
  <2>1. j \in 1..c /\ c + 1 \in (j + 1)..(c + 1)
    BY <1>2 DEF LastsTo
  <2>2. \A l \in (j + 1)..c : l \in (j + 1)..(c + 1)
    BY <2>1
  <2>3. \A l \in (j + 1)..(c + 1) : y[l].first # y[j].first
    BY DEF LastsTo
  <2> QED BY <2>1, <2>2, <2>3 DEF LastsTo
<1>3. ASSUME NEW j \in LastsTo(y, c), y[j].first # y[c + 1].first
      PROVE  j \in LastsTo(y, c + 1)
  <2>1. j \in 1..(c + 1) /\ \A l \in (j + 1)..(c + 1) : l = c + 1 \/ l \in (j + 1)..c
    BY DEF LastsTo
  <2>2. \A l \in (j + 1)..c : y[l].first # y[j].first
    BY DEF LastsTo
  <2> QED BY <1>3, <2>1, <2>2 DEF LastsTo
<1> QED BY <1>1, <1>2, <1>3

\* e is entry i of x after c entries of y have replaced their matches.
Matched(x, y, i, c) == IsFirst(x, i) /\ \E j \in 1..c : y[j].first = x[i].first
Replaced(x, y, i, c, e) ==
  /\ Matched(x, y, i, c) => \E j \in LastsTo(y, c) : y[j].first = x[i].first /\ e = y[j]
  /\ ~Matched(x, y, i, c) => e = x[i]

\* Entries of y with other keys change nothing.
LEMMA ReplacedLater ==
  ASSUME NEW x, NEW y, NEW i, NEW e, NEW c \in Nat, NEW d \in Nat, c <= d, Replaced(x, y, i, c, e),
         ~IsFirst(x, i) \/ \A j \in (c + 1)..d : y[j].first # x[i].first
  PROVE  Replaced(x, y, i, d, e)
<1>1. CASE ~IsFirst(x, i)
  BY <1>1 DEF Replaced, Matched
<1>2. CASE \A j \in (c + 1)..d : y[j].first # x[i].first
  <2>1. \A j \in 1..d : j \in 1..c \/ j \in (c + 1)..d
    OBVIOUS
  <2>2. \A j \in 1..c : j \in 1..d
    OBVIOUS
  <2>3. Matched(x, y, i, d) <=> Matched(x, y, i, c)
    BY <1>2, <2>1, <2>2 DEF Matched
  <2>4. ASSUME NEW j \in LastsTo(y, c), y[j].first = x[i].first
        PROVE  j \in LastsTo(y, d)
    <3>1. j \in 1..d /\ \A l \in (j + 1)..d : l \in (j + 1)..c \/ l \in (c + 1)..d
      BY DEF LastsTo
    <3>2. \A l \in (j + 1)..c : y[l].first # y[j].first
      BY DEF LastsTo
    <3> QED BY <1>2, <2>4, <3>1, <3>2 DEF LastsTo
  <2> QED BY <2>3, <2>4 DEF Replaced
<1> QED BY <1>1, <1>2

\* The keys of y that are not in x, and the keys of x before all of them.
Missing(x, y) == Keys(y) \ Keys(x)
Early(x, y) == { k \in Keys(x) : \A m \in Missing(x, y) : k < m }

\* c entries of y match some of the first h of x, and the next lies behind
\* these and before the rest of x, or there is none.
Splits(x, y, c, h) ==
  /\ \A j \in 1..c : \E i \in 1..h : x[i].first = y[j].first
  /\ c < Len(y) => /\ \A i \in 1..h : x[i].first < y[c + 1].first
                   /\ \A i \in (h + 1)..Len(x) : y[c + 1].first < x[i].first
  /\ c = Len(y) => h = Len(x)

\* Then the first h of x are the early ones.
LEMMA EarlyIs ==
  ASSUME NEW E, NEW x, NEW y, Inputs(E, x, y), NEW c \in 0..Len(y), NEW h \in 0..Len(x),
         Splits(x, y, c, h)
  PROVE  /\ \A i \in 1..Len(x) : x[i].first \in Early(x, y) <=> i <= h
         /\ \A j \in 1..Len(y) : y[j].first \in Early(x, y) <=> j <= c
         /\ c < Len(y) => y[c + 1].first \in Missing(x, y)
<1>0. Len(x) \in Nat /\ Len(y) \in Nat /\ c \in Nat /\ h \in Nat /\ h <= Len(x) /\ c <= Len(y)
  BY InputFacts
<1>1. DOMAIN x = 1..Len(x) /\ DOMAIN y = 1..Len(y)
  BY InputFacts
<1>2. /\ \A i \in 1..Len(x) : x[i].first \in Nat
      /\ \A j \in 1..Len(y) : y[j].first \in Nat
  BY InputFacts
<1>3. \A i, j \in 1..Len(y) : i <= j => y[i].first <= y[j].first
  BY InputFacts
<1>4. ASSUME c < Len(y)
      PROVE  /\ c + 1 \in 1..Len(y) /\ y[c + 1].first \in Nat
             /\ y[c + 1].first \in Missing(x, y)
  <2>1. c + 1 \in 1..Len(y)
    BY <1>0, <1>4
  <2>2. ASSUME NEW i \in 1..Len(x) PROVE x[i].first # y[c + 1].first
    <3>1. i \in 1..h \/ i \in (h + 1)..Len(x)
      BY <1>0
    <3>2. x[i].first \in Nat /\ y[c + 1].first \in Nat
      BY <1>2, <2>1
    <3>3. x[i].first < y[c + 1].first \/ y[c + 1].first < x[i].first
      BY <1>4, <3>1 DEF Splits
    <3> QED BY <3>2, <3>3
  <2> QED BY <1>1, <1>2, <2>1, <2>2 DEF Missing, Keys
<1>5. ASSUME NEW j \in 1..Len(y), ~(j <= c)
      PROVE  c < Len(y) /\ y[c + 1].first <= y[j].first
  <2>1. c < Len(y) /\ c + 1 \in 1..Len(y) /\ c + 1 <= j
    BY <1>0, <1>5
  <2> QED BY <1>3, <2>1
<1>6. ASSUME NEW j \in 1..Len(y), j <= c
      PROVE  \E i \in 1..Len(x) : i <= h /\ x[i].first = y[j].first
  <2>1. j \in 1..c
    BY <1>0, <1>6
  <2>2. PICK i \in 1..h : x[i].first = y[j].first
    BY <2>1 DEF Splits
  <2>3. i \in 1..Len(x) /\ i <= h
    BY <1>0
  <2> QED BY <2>2, <2>3
<1>7. ASSUME NEW m \in Missing(x, y)
      PROVE  c < Len(y) /\ m \in Nat /\ y[c + 1].first <= m
  <2>1. PICK j \in 1..Len(y) : m = y[j].first
    BY <1>1 DEF Missing, Keys
  <2>2. ~(j <= c)
    <3> SUFFICES ASSUME j <= c PROVE FALSE
      OBVIOUS
    <3>1. PICK i \in 1..Len(x) : x[i].first = y[j].first
      BY <1>6
    <3>2. m \in Keys(x)
      BY <1>1, <2>1, <3>1 DEF Keys
    <3> QED BY <3>2 DEF Missing
  <2> QED BY <1>2, <1>5, <2>1, <2>2
<1>8. ASSUME NEW i \in 1..Len(x), i <= h PROVE x[i].first \in Early(x, y)
  <2>1. x[i].first \in Keys(x) /\ x[i].first \in Nat
    BY <1>1, <1>2 DEF Keys
  <2>2. i \in 1..h
    BY <1>0, <1>8
  <2>3. ASSUME NEW m \in Missing(x, y) PROVE x[i].first < m
    <3>1. c < Len(y) /\ m \in Nat /\ y[c + 1].first <= m
      BY <1>7
    <3>2. x[i].first < y[c + 1].first
      BY <2>2, <3>1 DEF Splits
    <3>3. y[c + 1].first \in Nat
      BY <1>4, <3>1
    <3> QED BY <2>1, <3>1, <3>2, <3>3
  <2> QED BY <2>1, <2>3 DEF Early
<1>9. ASSUME NEW i \in 1..Len(x), ~(i <= h) PROVE x[i].first \notin Early(x, y)
  <2>1. i \in (h + 1)..Len(x)
    BY <1>0, <1>9
  <2>2. c < Len(y)
    <3>1. c # Len(y)
      BY <1>0, <1>9 DEF Splits
    <3> QED BY <1>0, <3>1
  <2>3. y[c + 1].first < x[i].first
    BY <2>1, <2>2 DEF Splits
  <2>4. ~(x[i].first < y[c + 1].first)
    BY <1>2, <1>4, <2>2, <2>3
  <2> QED BY <1>4, <2>2, <2>4 DEF Early
<1>10. ASSUME NEW j \in 1..Len(y), j <= c PROVE y[j].first \in Early(x, y)
  <2>1. PICK i \in 1..Len(x) : i <= h /\ x[i].first = y[j].first
    BY <1>6, <1>10
  <2>2. x[i].first \in Early(x, y)
    BY <1>8, <2>1
  <2> QED BY <2>1, <2>2
<1>11. ASSUME NEW j \in 1..Len(y), ~(j <= c) PROVE y[j].first \notin Early(x, y)
  <2>1. c < Len(y) /\ y[c + 1].first <= y[j].first /\ y[c + 1].first \in Missing(x, y)
    BY <1>4, <1>5, <1>11
  <2>2. ~(y[j].first < y[c + 1].first)
    BY <1>2, <1>4, <2>1
  <2> QED BY <2>1, <2>2 DEF Early
<1> QED BY <1>4, <1>8, <1>9, <1>10, <1>11

-----------------------------------------------------------------------------
(* The first loop of the union: a is the next entry of x, c entries of y   *)
(* were read and all of them replaced a match in the array r.              *)

Seeking(x, y, r, a, c) ==
  /\ \A i \in 1..Len(x) : Replaced(x, y, i, c, r[i])
  /\ c < Len(y) => \A i \in 1..(a - 1) : x[i].first < y[c + 1].first
  /\ \A j \in 1..c : \E i \in 1..Len(x) : i <= a /\ x[i].first = y[j].first

LEMMA SeekingSkips ==
  ASSUME NEW E, NEW x, NEW y, Inputs(E, x, y), NEW a \in 1..Len(x), NEW c \in Nat, c < Len(y),
         NEW r, Seeking(x, y, r, a, c), x[a].first < y[c + 1].first
  PROVE  Seeking(x, y, r, a + 1, c)
<1>1. Len(x) \in Nat
  BY InputFacts
<1>2. \A i \in 1..((a + 1) - 1) : i = a \/ i \in 1..(a - 1)
  BY <1>1
<1>3. \A i \in 1..((a + 1) - 1) : x[i].first < y[c + 1].first
  BY <1>2 DEF Seeking
<1>4. \A j \in 1..c : \E i \in 1..Len(x) : i <= a + 1 /\ x[i].first = y[j].first
  <2> TAKE j \in 1..c
  <2>1. PICK i \in 1..Len(x) : i <= a /\ x[i].first = y[j].first
    BY DEF Seeking
  <2>2. i <= a + 1
    BY <1>1, <2>1
  <2> QED BY <2>1, <2>2
<1> QED BY <1>3, <1>4 DEF Seeking

LEMMA SeekingReplaces ==
  ASSUME NEW E, NEW x, NEW y, Inputs(E, x, y), NEW a \in 1..Len(x), NEW c \in Nat, c < Len(y),
         NEW r, Seeking(x, y, r, a, c), x[a].first = y[c + 1].first,
         NEW s, \A i \in 1..Len(x) : i # a => s[i] = r[i], s[a] = y[c + 1]
  PROVE  Seeking(x, y, s, a, c + 1)
<1>0. Len(x) \in Nat /\ Len(y) \in Nat
  BY InputFacts
<1>1. c + 1 \in 1..Len(y) /\ c + 1 \in Nat /\ c <= c + 1
  BY <1>0
<1>2. \A i \in 1..(a - 1) : x[i].first < x[a].first
  BY DEF Seeking
<1>3. x[a].first \in Nat
  BY InputFacts
<1>4. \A i \in 1..(a - 1) : i \in 1..Len(x) /\ x[i].first \in Nat /\ x[i].first # x[a].first
  <2>1. \A i \in 1..(a - 1) : i \in 1..Len(x)
    BY <1>0
  <2>2. \A i \in 1..Len(x) : x[i].first \in Nat
    BY InputFacts
  <2> QED BY <1>2, <1>3, <2>1, <2>2
<1>5. Replaced(x, y, a, c + 1, s[a])
  <2>1. IsFirst(x, a)
    BY <1>4 DEF IsFirst
  <2>2. c + 1 \in LastsTo(y, c + 1)
    BY LastsNext
  <2>3. Matched(x, y, a, c + 1)
    BY <1>1, <2>1 DEF Matched
  <2> QED BY <2>2, <2>3 DEF Replaced
<1>6. ASSUME NEW i \in 1..Len(x), i # a PROVE Replaced(x, y, i, c + 1, s[i])
  <2>1. Replaced(x, y, i, c, s[i])
    BY <1>6 DEF Seeking
  <2>2. ~IsFirst(x, i) \/ \A j \in (c + 1)..(c + 1) : y[j].first # x[i].first
    <3> SUFFICES ASSUME IsFirst(x, i) PROVE y[c + 1].first # x[i].first
      OBVIOUS
    <3>1. CASE i < a
      <4>1. i \in 1..(a - 1)
        BY <1>0, <3>1
      <4> QED BY <1>4, <4>1
    <3>2. CASE a < i
      <4>1. a \in 1..(i - 1)
        BY <1>0, <3>2
      <4> QED BY <4>1 DEF IsFirst
    <3> QED BY <1>0, <1>6, <3>1, <3>2
  <2> QED BY <1>1, <2>1, <2>2, ReplacedLater
<1>7. ASSUME c + 1 < Len(y), NEW i \in 1..(a - 1)
      PROVE  x[i].first < y[(c + 1) + 1].first
  <2>1. (c + 1) + 1 \in 1..Len(y) /\ c + 1 <= (c + 1) + 1
    BY <1>0, <1>7
  <2>2. y[c + 1].first <= y[(c + 1) + 1].first /\ y[(c + 1) + 1].first \in Nat
    BY <1>1, <2>1, InputFacts
  <2>3. x[i].first < y[c + 1].first /\ x[i].first \in Nat
    BY <1>2, <1>4
  <2> QED BY <1>3, <2>2, <2>3, SMTT(30)
<1>8. ASSUME NEW j \in 1..(c + 1)
      PROVE  \E i \in 1..Len(x) : i <= a /\ x[i].first = y[j].first
  <2>1. CASE j = c + 1
    <3>1. a <= a
      OBVIOUS
    <3> QED BY <2>1, <3>1
  <2>2. CASE j \in 1..c
    BY <2>2 DEF Seeking
  <2> QED BY <1>1, <2>1, <2>2
<1> QED BY <1>5, <1>6, <1>7, <1>8 DEF Seeking

\* Where the loop ends: at the end of y, at the end of x, or where the next
\* entry of y is missing in x.
LEMMA SeekingEnds ==
  ASSUME NEW E, NEW x, NEW y, Inputs(E, x, y), NEW a \in Nat, NEW c \in Nat, c <= Len(y),
         NEW r, Seeking(x, y, r, a, c), c = Len(y) \/ a = Len(x) + 1
  PROVE  Splits(x, y, c, Len(x))
<1>0. Len(x) \in Nat /\ Len(y) \in Nat
  BY InputFacts
<1>1. \A j \in 1..c : \E i \in 1..Len(x) : x[i].first = y[j].first
  BY DEF Seeking
<1>2. c < Len(y) => a - 1 = Len(x)
  BY <1>0
<1>3. c < Len(y) => \A i \in 1..Len(x) : x[i].first < y[c + 1].first
  BY <1>2 DEF Seeking
<1>4. \A i \in (Len(x) + 1)..Len(x) : FALSE
  BY <1>0
<1> QED BY <1>1, <1>3, <1>4 DEF Splits

LEMMA SeekingMisses ==
  ASSUME NEW E, NEW x, NEW y, Inputs(E, x, y), NEW a \in 1..Len(x), NEW c \in Nat, c < Len(y),
         NEW r, Seeking(x, y, r, a, c), r[a].first = x[a].first,
         y[c + 1].first < r[a].first
  PROVE  Splits(x, y, c, a - 1) /\ r[a] = x[a]
<1>0. Len(x) \in Nat /\ Len(y) \in Nat
  BY InputFacts
<1>1. c + 1 \in 1..Len(y) /\ \A j \in 1..c : j \in 1..Len(y) /\ j <= c + 1
  BY <1>0
<1>2. x[a].first \in Nat /\ y[c + 1].first \in Nat /\ y[c + 1].first < x[a].first
  BY <1>1, InputFacts
<1>3. ASSUME NEW j \in 1..c PROVE y[j].first # x[a].first
  <2>1. y[j].first <= y[c + 1].first /\ y[j].first \in Nat
    BY <1>1, InputFacts
  <2> QED BY <1>2, <2>1
<1>4. r[a] = x[a]
  <2>1. ~Matched(x, y, a, c)
    BY <1>3 DEF Matched
  <2> QED BY <2>1 DEF Seeking, Replaced
<1>5. ASSUME NEW j \in 1..c PROVE \E i \in 1..(a - 1) : x[i].first = y[j].first
  <2>1. PICK i \in 1..Len(x) : i <= a /\ x[i].first = y[j].first
    BY DEF Seeking
  <2>2. i # a
    BY <1>3, <2>1
  <2>3. i \in 1..(a - 1)
    BY <1>0, <2>1, <2>2
  <2> QED BY <2>1, <2>3
<1>6. \A i \in 1..(a - 1) : x[i].first < y[c + 1].first
  BY DEF Seeking
<1>7. ASSUME NEW i \in ((a - 1) + 1)..Len(x) PROVE y[c + 1].first < x[i].first
  <2>1. i \in 1..Len(x) /\ a <= i
    BY <1>0
  <2>2. x[a].first <= x[i].first /\ x[i].first \in Nat
    BY <2>1, InputFacts
  <2> QED BY <1>2, <2>2, SMTT(30)
<1>8. c # Len(y)
  BY <1>0
<1> QED BY <1>4, <1>5, <1>6, <1>7, <1>8 DEF Splits

-----------------------------------------------------------------------------
(* The result up to place w of r: the first h entries of x, which are the  *)
(* early ones, updated; behind them the entries M in the order of the merge.*)

Merged(x, y, r, w, h, M) ==
  /\ h \in 0..Len(x) /\ h <= w
  /\ \A i \in 1..Len(x) : x[i].first \in Early(x, y) <=> i <= h
  /\ \A i \in 1..h : Replaced(x, y, i, Len(y), r[i])
  /\ \A i, j \in (h + 1)..w : i < j => Comes(Len(x), r[i], r[j])
  /\ { r[i] : i \in (h + 1)..w } = M

LEMMA MergedStarts ==
  ASSUME NEW E, NEW x, NEW y, Inputs(E, x, y), NEW c \in 0..Len(y), NEW h \in 0..Len(x),
         Splits(x, y, c, h), NEW r, \A i \in 1..h : Replaced(x, y, i, c, r[i])
  PROVE  Merged(x, y, r, h, h, {})
<1>0. Len(x) \in Nat /\ Len(y) \in Nat /\ c <= Len(y) /\ c \in Nat
  BY InputFacts
<1>1. \A i \in 1..Len(x) : x[i].first \in Early(x, y) <=> i <= h
  BY EarlyIs
<1>2. ASSUME NEW i \in 1..h PROVE Replaced(x, y, i, Len(y), r[i])
  <2>1. ASSUME NEW j \in (c + 1)..Len(y) PROVE y[j].first # x[i].first
    <3>1. c < Len(y) /\ c + 1 \in 1..Len(y) /\ j \in 1..Len(y) /\ c + 1 <= j /\ i \in 1..Len(x)
      BY <1>0
    <3>2. x[i].first < y[c + 1].first
      BY <3>1 DEF Splits
    <3>3. y[c + 1].first <= y[j].first
      BY <3>1, InputFacts
    <3>4. x[i].first \in Nat /\ y[c + 1].first \in Nat /\ y[j].first \in Nat
      BY <3>1, InputFacts
    <3> QED BY <3>2, <3>3, <3>4
  <2> QED BY <1>0, <2>1, ReplacedLater
<1>3. \A i \in (h + 1)..h : FALSE
  BY <1>0
<1>4. { r[i] : i \in (h + 1)..h } = {}
  BY <1>3
<1> QED BY <1>1, <1>2, <1>3, <1>4 DEF Merged

LEMMA MergedGrows ==
  ASSUME NEW x, NEW y, NEW r, NEW s, NEW w \in Nat, NEW h, NEW M, Merged(x, y, r, w, h, M),
         NEW e, \A d \in M : Comes(Len(x), d, e),
         \A i \in 1..w : s[i] = r[i], s[w + 1] = e, Len(x) \in Nat
  PROVE  Merged(x, y, s, w + 1, h, M \cup {e})
<1>1. h \in Nat /\ h <= w + 1 /\ h <= w /\ h \in 0..Len(x)
  BY DEF Merged
<1>2. \A i \in 1..h : i \in 1..w
  BY <1>1
<1>3. \A i \in (h + 1)..(w + 1) : i = w + 1 \/ (i \in (h + 1)..w /\ i \in 1..w)
  BY <1>1
<1>4. \A i \in (h + 1)..w : r[i] \in M /\ s[i] = r[i] /\ i \in (h + 1)..(w + 1)
  <2>1. \A i \in (h + 1)..w : i \in 1..w /\ i \in (h + 1)..(w + 1)
    BY <1>1
  <2> QED BY <2>1 DEF Merged
<1>5. ASSUME NEW i \in (h + 1)..(w + 1), NEW j \in (h + 1)..(w + 1), i < j
      PROVE  Comes(Len(x), s[i], s[j])
  <2>1. i \in (h + 1)..w
    BY <1>1, <1>5
  <2>2. CASE j = w + 1
    BY <1>4, <2>1, <2>2
  <2>3. CASE j \in (h + 1)..w
    BY <1>4, <1>5, <2>1, <2>3 DEF Merged
  <2> QED BY <1>3, <2>2, <2>3
<1>6. { s[i] : i \in (h + 1)..(w + 1) } = M \cup {e}
  <2>1. \A d \in M : \E i \in (h + 1)..w : d = r[i]
    BY DEF Merged
  <2>2. ASSUME NEW d \in M \cup {e} PROVE d \in { s[i] : i \in (h + 1)..(w + 1) }
    <3>1. w + 1 \in (h + 1)..(w + 1)
      BY <1>1
    <3> QED BY <1>4, <2>1, <2>2, <3>1
  <2>3. ASSUME NEW i \in (h + 1)..(w + 1) PROVE s[i] \in M \cup {e}
    BY <1>3, <1>4
  <2> QED BY <2>2, <2>3
<1>7. \A i \in 1..h : Replaced(x, y, i, Len(y), s[i])
  BY <1>2 DEF Merged
<1> QED BY <1>1, <1>5, <1>6, <1>7 DEF Merged

\* The entry written last is replaced.
LEMMA MergedReplaces ==
  ASSUME NEW E, NEW x, NEW y, Inputs(E, x, y), NEW r, NEW s, NEW w \in Nat, NEW h, NEW M,
         Merged(x, y, r, w, h, M), h < w, r[w] \in E,
         NEW e, \A d \in M \ {r[w]} : Comes(Len(x), d, e),
         \A i \in 1..(w - 1) : s[i] = r[i], s[w] = e
  PROVE  Merged(x, y, s, w, h, (M \ {r[w]}) \cup {e})
<1>0. Len(x) \in Nat /\ Numbered(E)
  BY InputFacts DEF Inputs
<1>1. h \in Nat /\ h <= w /\ h \in 0..Len(x) /\ w \in (h + 1)..w
  BY DEF Merged
<1>2. \A i \in 1..h : i \in 1..(w - 1)
  BY <1>1
<1>3. \A i \in (h + 1)..w : i = w \/ (i \in 1..(w - 1) /\ i < w)
  BY <1>1
<1>4. \A i \in (h + 1)..w : i # w => r[i] \in M \ {r[w]} /\ s[i] = r[i]
  <2> SUFFICES ASSUME NEW i \in (h + 1)..w, i # w PROVE r[i] \in M \ {r[w]} /\ s[i] = r[i]
    OBVIOUS
  <2>1. i \in 1..(w - 1) /\ i < w
    BY <1>3
  <2>2. r[i] \in M
    BY DEF Merged
  <2>3. Comes(Len(x), r[i], r[w])
    BY <1>1, <2>1 DEF Merged
  <2>4. r[i] # r[w]
    BY <1>0, <2>3, ComesOneWay
  <2> QED BY <2>1, <2>2, <2>4
<1>5. ASSUME NEW i \in (h + 1)..w, NEW j \in (h + 1)..w, i < j
      PROVE  Comes(Len(x), s[i], s[j])
  <2>1. i # w
    BY <1>1, <1>5
  <2>2. CASE j = w
    BY <1>4, <2>1, <2>2
  <2>3. CASE j # w
    <3>1. Comes(Len(x), r[i], r[j])
      BY <1>5 DEF Merged
    <3> QED BY <1>4, <2>1, <2>3, <3>1
  <2> QED BY <2>2, <2>3
<1>6. { s[i] : i \in (h + 1)..w } = (M \ {r[w]}) \cup {e}
  <2>1. \A d \in M : \E i \in (h + 1)..w : d = r[i]
    BY DEF Merged
  <2>2. ASSUME NEW d \in (M \ {r[w]}) \cup {e} PROVE d \in { s[i] : i \in (h + 1)..w }
    <3>1. CASE d = e
      BY <1>1, <3>1
    <3>2. CASE d \in M \ {r[w]}
      <4>1. PICK i \in (h + 1)..w : d = r[i]
        BY <2>1, <3>2
      <4>2. i # w
        BY <3>2, <4>1
      <4> QED BY <1>4, <4>1, <4>2
    <3> QED BY <3>1, <3>2
  <2>3. ASSUME NEW i \in (h + 1)..w PROVE s[i] \in (M \ {r[w]}) \cup {e}
    BY <1>4
  <2> QED BY <2>2, <2>3
<1>7. \A i \in 1..h : Replaced(x, y, i, Len(y), s[i])
  BY <1>2 DEF Merged
<1> QED BY <1>1, <1>5, <1>6, <1>7 DEF Merged

-----------------------------------------------------------------------------
(* The loops that write behind the updated entries.                        *)

\* What is merged there once c entries of y and t of x were taken.
Rest(x, y, h, c, t) ==
  { y[j] : j \in { l \in LastsTo(y, c) : y[l].first \notin Early(x, y) } }
    \cup { x[i] : i \in (h + 1)..t }

\* unique_last_copy: what was read of y and is the last of its key in y.
Copied(x, y, c) ==
  { y[j] : j \in { l \in LastsTo(y, Len(y)) : l <= c /\ y[l].first \notin Early(x, y) } }

Copying(x, y, r, w, c) ==
  /\ c < Len(y) => \A i \in 1..Len(x) : x[i].first < y[c + 1].first
  /\ Merged(x, y, r, w, Len(x), Copied(x, y, c))

LEMMA CopyingNext ==
  ASSUME NEW E, NEW x, NEW y, Inputs(E, x, y), NEW c \in Nat, c < Len(y),
         \A i \in 1..Len(x) : x[i].first < y[c + 1].first, c + 1 < Len(y)
  PROVE  \A i \in 1..Len(x) : x[i].first < y[(c + 1) + 1].first
<1>0. Len(x) \in Nat /\ Len(y) \in Nat
  BY InputFacts
<1> SUFFICES ASSUME NEW i \in 1..Len(x) PROVE x[i].first < y[(c + 1) + 1].first
  OBVIOUS
<1>1. c + 1 \in 1..Len(y) /\ (c + 1) + 1 \in 1..Len(y) /\ c + 1 <= (c + 1) + 1
  BY <1>0
<1>2. /\ x[i].first < y[c + 1].first /\ y[c + 1].first <= y[(c + 1) + 1].first
      /\ x[i].first \in Nat /\ y[c + 1].first \in Nat /\ y[(c + 1) + 1].first \in Nat
  BY <1>1, InputFacts
<1> QED BY <1>2

\* An entry that is followed by one of its key is skipped.
LEMMA CopyingSkips ==
  ASSUME NEW E, NEW x, NEW y, Inputs(E, x, y), NEW c \in Nat, c + 1 < Len(y),
         NEW r, NEW w, Copying(x, y, r, w, c), y[c + 1].first = y[c + 2].first
  PROVE  Copying(x, y, r, w, c + 1)
<1>0. Len(x) \in Nat /\ Len(y) \in Nat
  BY InputFacts
<1>1. c < Len(y) /\ c + 2 = (c + 1) + 1 /\ c + 2 \in ((c + 1) + 1)..Len(y)
  BY <1>0
<1>2. c + 1 \notin LastsTo(y, Len(y))
  BY <1>1 DEF LastsTo
<1>3. \A l \in LastsTo(y, Len(y)) : l <= c + 1 <=> l <= c
  <2>1. \A l \in LastsTo(y, Len(y)) : l \in Nat /\ l # c + 1
    BY <1>2 DEF LastsTo
  <2> QED BY <2>1
<1>4. Copied(x, y, c + 1) = Copied(x, y, c)
  BY <1>3 DEF Copied
<1>5. \A i \in 1..Len(x) : x[i].first < y[c + 1].first
  BY <1>1 DEF Copying
<1> QED BY <1>1, <1>4, <1>5, CopyingNext DEF Copying

LEMMA CopyingCopies ==
  ASSUME NEW E, NEW x, NEW y, Inputs(E, x, y), NEW c \in Nat, c < Len(y),
         NEW r, NEW w \in Nat, Copying(x, y, r, w, c),
         c + 1 = Len(y) \/ y[c + 1].first # y[c + 2].first,
         NEW s, \A i \in 1..w : s[i] = r[i], s[w + 1] = y[c + 1]
  PROVE  Copying(x, y, s, w + 1, c + 1)
<1>0. Len(x) \in Nat /\ Len(y) \in Nat
  BY InputFacts
<1>1. c + 1 \in 1..Len(y)
  BY <1>0
<1>2. /\ \A l \in 1..Len(y) : y[l].first \in Nat /\ y[l].second = Len(x) + l
      /\ \A l, m \in 1..Len(y) : l <= m => y[l].first <= y[m].first
      /\ \A i \in 1..Len(x) : x[i].first \in Nat
  BY InputFacts
<1>3. \A i \in 1..Len(x) : x[i].first < y[c + 1].first
  BY DEF Copying
<1>4. c + 1 \in LastsTo(y, Len(y))
  <2> SUFFICES ASSUME NEW l \in ((c + 1) + 1)..Len(y) PROVE y[l].first # y[c + 1].first
    BY <1>1 DEF LastsTo
  <2>1. c + 2 \in 1..Len(y) /\ l \in 1..Len(y) /\ c + 2 <= l /\ c + 1 <= c + 2 /\ c + 1 # Len(y)
    BY <1>0
  <2>2. y[c + 1].first <= y[c + 2].first /\ y[c + 2].first <= y[l].first
    BY <1>1, <1>2, <2>1
  <2>3. y[c + 1].first \in Nat /\ y[c + 2].first \in Nat /\ y[l].first \in Nat
    BY <1>1, <1>2, <2>1
  <2> QED BY <2>1, <2>2, <2>3
<1>5. y[c + 1].first \notin Early(x, y)
  <2>1. \A i \in 1..Len(x) : x[i].first # y[c + 1].first
    BY <1>1, <1>2, <1>3, SMTT(30)
  <2>2. DOMAIN x = 1..Len(x)
    BY InputFacts
  <2> QED BY <2>1, <2>2 DEF Early, Keys
<1>6. Copied(x, y, c + 1) = Copied(x, y, c) \cup {y[c + 1]}
  <2>1. \A l \in LastsTo(y, Len(y)) : l <= c + 1 <=> l <= c \/ l = c + 1
    BY DEF LastsTo
  <2> QED BY <1>4, <1>5, <2>1 DEF Copied
<1>7. ASSUME NEW d \in Copied(x, y, c) PROVE Comes(Len(x), d, y[c + 1])
  <2>1. PICK l \in LastsTo(y, Len(y)) : l <= c /\ d = y[l]
    BY DEF Copied
  <2>2. l \in 1..Len(y) /\ c + 1 \in (l + 1)..Len(y) /\ l <= c + 1
    BY <1>1, <2>1 DEF LastsTo
  <2>3. y[c + 1].first # y[l].first
    BY <2>1, <2>2 DEF LastsTo
  <2>4. y[l].first <= y[c + 1].first /\ y[l].first \in Nat /\ y[c + 1].first \in Nat
    BY <1>1, <1>2, <2>2
  <2>5. d.first < y[c + 1].first
    BY <2>1, <2>3, <2>4, SMTT(30)
  <2> QED BY <2>5 DEF Comes
<1>8. Merged(x, y, s, w + 1, Len(x), Copied(x, y, c + 1))
  <2>1. Merged(x, y, r, w, Len(x), Copied(x, y, c))
    BY DEF Copying
  <2>2. Merged(x, y, s, w + 1, Len(x), Copied(x, y, c) \cup {y[c + 1]})
    BY <1>0, <1>7, <2>1, MergedGrows
  <2> QED BY <1>6, <2>2
<1>9. c + 1 < Len(y) => \A i \in 1..Len(x) : x[i].first < y[(c + 1) + 1].first
  BY <1>3, CopyingNext
<1> QED BY <1>8, <1>9 DEF Copying

\* The deque loops: t entries of x and c of y were taken.
Merging(x, y, r, w, c, h, t) ==
  /\ h \in 0..t /\ t \in 0..Len(x) /\ h < w
  /\ Merged(x, y, r, w, h, Rest(x, y, h, c, t))
  /\ c >= 1 /\ \E m \in Missing(x, y) : m <= y[c].first
  /\ c < Len(y) => \A i \in 1..t : x[i].first < y[c + 1].first
  /\ \A j \in 1..c, i \in (t + 1)..Len(x) : y[j].first <= x[i].first
  /\ c < Len(y) /\ y[c].first = y[c + 1].first => r[w] = y[c]

LEMMA RestFacts ==
  ASSUME NEW E, NEW x, NEW y, Inputs(E, x, y), NEW c \in 0..Len(y), NEW t \in 0..Len(x),
         NEW h \in Nat, NEW d \in Rest(x, y, h, c, t)
  PROVE  \/ \E j \in LastsTo(y, c) : j \in 1..c /\ j \in 1..Len(y) /\ d = y[j]
                                    /\ d.second > Len(x) /\ d.first \in Nat
         \/ \E i \in 1..t : i \in 1..Len(x) /\ d = x[i] /\ d.second = i /\ d.first \in Nat
<1>0. Len(x) \in Nat /\ Len(y) \in Nat
  BY InputFacts
<1>1. CASE \E j \in LastsTo(y, c) : d = y[j]
  <2>1. PICK j \in LastsTo(y, c) : d = y[j]
    BY <1>1
  <2>2. j \in 1..c /\ j \in 1..Len(y)
    BY <1>0 DEF LastsTo
  <2>3. y[j].second = Len(x) + j /\ y[j].first \in Nat
    BY <2>2, InputFacts
  <2> QED BY <1>0, <2>1, <2>2, <2>3
<1>2. CASE \E i \in (h + 1)..t : d = x[i]
  <2>1. PICK i \in (h + 1)..t : d = x[i]
    BY <1>2
  <2>2. i \in 1..t /\ i \in 1..Len(x)
    BY <1>0
  <2> QED BY <2>1, <2>2, InputFacts
<1> QED BY <1>1, <1>2 DEF Rest

\* SeekInsert: the first missing entry of y is written over entry a of x.
LEMMA MergingStarts ==
  ASSUME NEW E, NEW x, NEW y, Inputs(E, x, y), NEW a \in 1..Len(x), NEW c \in Nat, c < Len(y),
         NEW r, Splits(x, y, c, a - 1), \A i \in 1..(a - 1) : Replaced(x, y, i, c, r[i]),
         NEW s, \A i \in 1..(a - 1) : s[i] = r[i], s[a] = y[c + 1]
  PROVE  Merging(x, y, s, a, c + 1, a - 1, a - 1)
<1>0. Len(x) \in Nat /\ Len(y) \in Nat
  BY InputFacts
<1> DEFINE b == a - 1
<1>1. b \in 0..Len(x) /\ b \in Nat /\ b + 1 = a /\ c + 1 \in 1..Len(y) /\ c \in 0..Len(y)
  BY <1>0
<1> HIDE DEF b
<1>2. Splits(x, y, c, b) /\ \A i \in 1..b : Replaced(x, y, i, c, r[i]) /\ s[i] = r[i]
  BY DEF b
<1>3. Merged(x, y, r, b, b, {})
  BY <1>1, <1>2, MergedStarts
<1>4. Merged(x, y, s, b + 1, b, {} \cup {y[c + 1]})
  <2>1. \A d \in {} : Comes(Len(x), d, y[c + 1])
    OBVIOUS
  <2> QED BY <1>0, <1>1, <1>2, <1>3, <2>1, MergedGrows
<1>5. /\ \A j \in 1..Len(y) : y[j].first \in Early(x, y) <=> j <= c
      /\ y[c + 1].first \in Missing(x, y)
  BY <1>1, <1>2, EarlyIs
<1>6. Rest(x, y, b, c + 1, b) = {y[c + 1]}
  <2>1. \A i \in (b + 1)..b : FALSE
    BY <1>1
  <2>2. ASSUME NEW j \in LastsTo(y, c + 1)
        PROVE  y[j].first \notin Early(x, y) <=> j = c + 1
    <3>1. j \in 1..(c + 1) /\ j \in 1..Len(y)
      BY <1>1 DEF LastsTo
    <3> QED BY <1>5, <3>1
  <2>3. c + 1 \in LastsTo(y, c + 1)
    BY LastsNext
  <2>4. { l \in LastsTo(y, c + 1) : y[l].first \notin Early(x, y) } = {c + 1}
    BY <2>2, <2>3
  <2>5. { x[i] : i \in (b + 1)..b } = {}
    BY <2>1
  <2> QED BY <2>4, <2>5 DEF Rest
<1>7. \E m \in Missing(x, y) : m <= y[c + 1].first
  <2>1. y[c + 1].first \in Nat
    BY <1>1, InputFacts
  <2>2. y[c + 1].first <= y[c + 1].first
    BY <2>1
  <2> QED BY <1>5, <2>2
<1>8. ASSUME c + 1 < Len(y), NEW i \in 1..b PROVE x[i].first < y[(c + 1) + 1].first
  <2>1. (c + 1) + 1 \in 1..Len(y) /\ c + 1 <= (c + 1) + 1 /\ i \in 1..Len(x)
    BY <1>0, <1>1, <1>8
  <2>2. x[i].first < y[c + 1].first
    BY <1>2 DEF Splits
  <2>3. y[c + 1].first <= y[(c + 1) + 1].first
    BY <1>1, <2>1, InputFacts
  <2>4. x[i].first \in Nat /\ y[c + 1].first \in Nat /\ y[(c + 1) + 1].first \in Nat
    BY <1>1, <2>1, InputFacts
  <2> QED BY <2>2, <2>3, <2>4, SMTT(30)
<1>9. ASSUME NEW j \in 1..(c + 1), NEW i \in (b + 1)..Len(x) PROVE y[j].first <= x[i].first
  <2>1. j \in 1..Len(y) /\ j <= c + 1 /\ i \in 1..Len(x)
    BY <1>0, <1>1
  <2>2. y[c + 1].first < x[i].first
    BY <1>2 DEF Splits
  <2>3. y[j].first <= y[c + 1].first
    BY <1>1, <2>1, InputFacts
  <2>4. x[i].first \in Nat /\ y[c + 1].first \in Nat /\ y[j].first \in Nat
    BY <1>1, <2>1, InputFacts
  <2> QED BY <2>2, <2>3, <2>4, SMTT(30)
<1>10. Merging(x, y, s, a, c + 1, b, b)
  <2>1. Merged(x, y, s, a, b, Rest(x, y, b, c + 1, b))
    BY <1>1, <1>4, <1>6
  <2>2. b \in 0..b /\ b < a /\ c + 1 >= 1
    BY <1>1
  <2> QED BY <1>1, <1>7, <1>8, <1>9, <2>1, <2>2 DEF Merging
<1> QED BY <1>10 DEF b

\* TakeQueued and Drain: the next entry of x follows.
LEMMA MergingTakes ==
  ASSUME NEW E, NEW x, NEW y, Inputs(E, x, y), NEW c \in Nat, c <= Len(y),
         NEW r, NEW w \in Nat, NEW h, NEW t, Merging(x, y, r, w, c, h, t), t < Len(x),
         c < Len(y) => x[t + 1].first < y[c + 1].first /\ r[w].first # y[c + 1].first,
         NEW s, \A i \in 1..w : s[i] = r[i], s[w + 1] = x[t + 1]
  PROVE  Merging(x, y, s, w + 1, c, h, t + 1)
<1>0. Len(x) \in Nat /\ Len(y) \in Nat
  BY InputFacts
<1>1. /\ t \in Nat /\ h \in Nat /\ h <= t /\ h < w /\ t + 1 \in 1..Len(x) /\ t \in 0..Len(x)
      /\ h \in 0..(t + 1) /\ t + 1 \in 0..Len(x) /\ h < w + 1 /\ c \in 0..Len(y)
  BY <1>0 DEF Merging
<1>2. x[t + 1].first \in Nat /\ x[t + 1].second = t + 1
  BY <1>1, InputFacts
<1>3. ASSUME NEW d \in Rest(x, y, h, c, t) PROVE Comes(Len(x), d, x[t + 1])
  <2>1. CASE \E j \in LastsTo(y, c) : j \in 1..c /\ d = y[j] /\ d.second > Len(x) /\ d.first \in Nat
    <3>1. PICK j \in 1..c : d = y[j] /\ d.second > Len(x) /\ d.first \in Nat
      BY <2>1
    <3>2. t + 1 \in (t + 1)..Len(x)
      BY <1>0, <1>1
    <3>3. d.first <= x[t + 1].first
      BY <3>1, <3>2 DEF Merging
    <3>4. x[t + 1].second <= Len(x)
      BY <1>0, <1>1, <1>2
    <3> QED BY <1>2, <3>1, <3>3, <3>4 DEF Comes
  <2>2. CASE \E i \in 1..t : i \in 1..Len(x) /\ d = x[i] /\ d.second = i /\ d.first \in Nat
    <3>1. PICK i \in 1..t : i \in 1..Len(x) /\ d = x[i] /\ d.second = i /\ d.first \in Nat
      BY <2>2
    <3>2. i <= t + 1 /\ i < t + 1 /\ i \in Nat
      BY <1>1
    <3>3. d.first <= x[t + 1].first
      BY <1>1, <3>1, <3>2, InputFacts
    <3>4. ~(d.second > Len(x)) /\ x[t + 1].second <= Len(x) /\ d.second < x[t + 1].second
      BY <1>0, <1>1, <1>2, <3>1, <3>2
    <3> QED BY <1>2, <3>1, <3>3, <3>4 DEF Comes
  <2> QED BY <1>1, <2>1, <2>2, RestFacts, SMTT(30)
<1>4. Rest(x, y, h, c, t + 1) = Rest(x, y, h, c, t) \cup {x[t + 1]}
  <2>1. \A i : i \in (h + 1)..(t + 1) <=> i \in (h + 1)..t \/ i = t + 1
    BY <1>1
  <2> QED BY <2>1 DEF Rest
<1>5. Merged(x, y, s, w + 1, h, Rest(x, y, h, c, t + 1))
  <2>1. Merged(x, y, r, w, h, Rest(x, y, h, c, t))
    BY DEF Merging
  <2>2. Merged(x, y, s, w + 1, h, Rest(x, y, h, c, t) \cup {x[t + 1]})
    BY <1>0, <1>3, <2>1, MergedGrows
  <2> QED BY <1>4, <2>2
<1>6. c < Len(y) => \A i \in 1..(t + 1) : x[i].first < y[c + 1].first
  <2>1. \A i \in 1..(t + 1) : i = t + 1 \/ i \in 1..t
    BY <1>1
  <2> QED BY <2>1 DEF Merging
<1>7. \A j \in 1..c, i \in ((t + 1) + 1)..Len(x) : y[j].first <= x[i].first
  <2>1. \A i \in ((t + 1) + 1)..Len(x) : i \in (t + 1)..Len(x)
    BY <1>0, <1>1
  <2> QED BY <2>1 DEF Merging
<1>8. ~(c < Len(y) /\ y[c].first = y[c + 1].first)
  BY DEF Merging
<1>9. c >= 1 /\ \E m \in Missing(x, y) : m <= y[c].first
  BY DEF Merging
<1> QED BY <1>1, <1>5, <1>6, <1>7, <1>8, <1>9 DEF Merging

\* What reading the next entry of y keeps, whether it is new or not.
LEMMA MergingReads ==
  ASSUME NEW E, NEW x, NEW y, Inputs(E, x, y), NEW c \in Nat, c < Len(y),
         NEW r, NEW w \in Nat, NEW h, NEW t, Merging(x, y, r, w, c, h, t)
  PROVE  /\ t \in Nat /\ h \in Nat /\ h \in 0..t /\ t \in 0..Len(x) /\ h < w
         /\ c \in 1..Len(y) /\ c + 1 \in 1..Len(y) /\ y[c].first <= y[c + 1].first
         /\ y[c].first \in Nat /\ y[c + 1].first \in Nat
         /\ \A j \in 1..c : j \in 1..Len(y) /\ y[j].first <= y[c].first /\ y[j].first \in Nat
         /\ y[c + 1].first \notin Early(x, y)
         /\ \E m \in Missing(x, y) : m <= y[c + 1].first
         /\ c + 1 < Len(y) => \A i \in 1..t : x[i].first < y[(c + 1) + 1].first
<1>0. Len(x) \in Nat /\ Len(y) \in Nat
  BY InputFacts
<1>1. t \in Nat /\ h \in Nat /\ h \in 0..t /\ t \in 0..Len(x) /\ h < w /\ c >= 1
  BY <1>0 DEF Merging
<1>2. c \in 1..Len(y) /\ c + 1 \in 1..Len(y) /\ c <= c + 1
  BY <1>0, <1>1
<1>3. y[c].first <= y[c + 1].first /\ y[c].first \in Nat /\ y[c + 1].first \in Nat
  BY <1>2, InputFacts
<1>4. ASSUME NEW j \in 1..c PROVE j \in 1..Len(y) /\ y[j].first <= y[c].first /\ y[j].first \in Nat
  <2>1. j \in 1..Len(y) /\ j <= c
    BY <1>0, <1>2
  <2> QED BY <1>2, <2>1, InputFacts
<1>5. PICK m \in Missing(x, y) : m <= y[c].first
  BY DEF Merging
<1>6. m \in Nat /\ m <= y[c + 1].first
  <2>1. \A j \in 1..Len(y) : y[j].first \in Nat
    BY InputFacts
  <2>2. DOMAIN y = 1..Len(y)
    BY InputFacts
  <2>3. m \in Nat
    BY <2>1, <2>2 DEF Missing, Keys
  <2> QED BY <1>3, <1>5, <2>3
<1>7. y[c + 1].first \notin Early(x, y)
  <2>1. ~(y[c + 1].first < m)
    BY <1>3, <1>6
  <2> QED BY <2>1 DEF Early
<1>8. ASSUME c + 1 < Len(y), NEW i \in 1..t PROVE x[i].first < y[(c + 1) + 1].first
  <2>1. (c + 1) + 1 \in 1..Len(y) /\ c + 1 <= (c + 1) + 1 /\ i \in 1..Len(x)
    BY <1>0, <1>1, <1>8
  <2>2. x[i].first < y[c + 1].first
    BY DEF Merging
  <2>3. y[c + 1].first <= y[(c + 1) + 1].first /\ y[(c + 1) + 1].first \in Nat
    BY <1>2, <2>1, InputFacts
  <2>4. x[i].first \in Nat
    BY <2>1, InputFacts
  <2> QED BY <1>3, <2>2, <2>3, <2>4, SMTT(30)
<1> QED BY <1>1, <1>2, <1>3, <1>4, <1>6, <1>7, <1>8

\* TakeNew: an entry of y of a key that was not written last.
LEMMA MergingAdds ==
  ASSUME NEW E, NEW x, NEW y, Inputs(E, x, y), NEW c \in Nat, c < Len(y),
         NEW r, NEW w \in Nat, NEW h, NEW t, Merging(x, y, r, w, c, h, t),
         r[w].first # y[c + 1].first,
         t < Len(x) => ~(x[t + 1].first < y[c + 1].first),
         NEW s, \A i \in 1..w : s[i] = r[i], s[w + 1] = y[c + 1]
  PROVE  Merging(x, y, s, w + 1, c + 1, h, t)
<1>0. Len(x) \in Nat /\ Len(y) \in Nat
  BY InputFacts
<1>1. t \in Nat /\ h \in Nat /\ h \in 0..t /\ t \in 0..Len(x) /\ h < w
  BY MergingReads
<1>2. c \in 1..Len(y) /\ c + 1 \in 1..Len(y) /\ c \in 0..Len(y) /\ h < w + 1 /\ c + 1 >= 1
  <2>1. c \in 1..Len(y) /\ c + 1 \in 1..Len(y)
    BY MergingReads
  <2> QED BY <1>0, <1>1, <2>1
<1>3. y[c].first < y[c + 1].first /\ y[c].first \in Nat /\ y[c + 1].first \in Nat
  <2>1. y[c].first # y[c + 1].first
    BY DEF Merging
  <2>2. y[c].first <= y[c + 1].first /\ y[c].first \in Nat /\ y[c + 1].first \in Nat
    BY MergingReads
  <2> QED BY <2>1, <2>2
<1>4. \A j \in 1..c : y[j].first < y[c + 1].first /\ y[j].first # y[c + 1].first
  <2> TAKE j \in 1..c
  <2>1. y[j].first <= y[c].first /\ y[j].first \in Nat
    BY MergingReads
  <2> QED BY <1>3, <2>1, SMTT(30)
<1>5. \A j : j \in LastsTo(y, c + 1) <=> j \in LastsTo(y, c) \/ j = c + 1
  <2>1. \A j \in LastsTo(y, c) : y[j].first # y[c + 1].first
    BY <1>4 DEF LastsTo
  <2> QED BY <2>1, LastsNext
<1>6. Rest(x, y, h, c + 1, t) = Rest(x, y, h, c, t) \cup {y[c + 1]}
  <2>1. y[c + 1].first \notin Early(x, y)
    BY MergingReads
  <2> QED BY <1>5, <2>1 DEF Rest
<1>7. ASSUME NEW d \in Rest(x, y, h, c, t) PROVE Comes(Len(x), d, y[c + 1])
  <2>1. CASE \E j \in LastsTo(y, c) : j \in 1..c /\ d = y[j]
    BY <1>4, <2>1 DEF Comes
  <2>2. CASE \E i \in 1..t : d = x[i]
    BY <2>2 DEF Comes, Merging
  <2> QED BY <1>1, <1>2, <2>1, <2>2, RestFacts
<1>8. Merged(x, y, s, w + 1, h, Rest(x, y, h, c + 1, t))
  <2>1. Merged(x, y, r, w, h, Rest(x, y, h, c, t))
    BY DEF Merging
  <2>2. Merged(x, y, s, w + 1, h, Rest(x, y, h, c, t) \cup {y[c + 1]})
    BY <1>0, <1>7, <2>1, MergedGrows
  <2> QED BY <1>6, <2>2
<1>9. ASSUME NEW j \in 1..(c + 1), NEW i \in (t + 1)..Len(x) PROVE y[j].first <= x[i].first
  <2>1. CASE j \in 1..c
    BY <2>1 DEF Merging
  <2>2. CASE j = c + 1
    <3>1. t + 1 \in 1..Len(x) /\ i \in 1..Len(x) /\ t + 1 <= i /\ t < Len(x)
      BY <1>0, <1>1
    <3>2. x[t + 1].first <= x[i].first /\ x[t + 1].first \in Nat /\ x[i].first \in Nat
      BY <3>1, InputFacts
    <3> QED BY <1>3, <2>2, <3>1, <3>2, SMTT(30)
  <2> QED BY <1>2, <2>1, <2>2
<1>10. /\ \E m \in Missing(x, y) : m <= y[c + 1].first
       /\ c + 1 < Len(y) => \A i \in 1..t : x[i].first < y[(c + 1) + 1].first
  BY MergingReads
<1> QED BY <1>1, <1>2, <1>8, <1>9, <1>10 DEF Merging

\* InsertOverwrite: an entry of y of the key written last replaces it.
LEMMA MergingOverwrites ==
  ASSUME NEW E, NEW x, NEW y, Inputs(E, x, y), NEW c \in Nat, c < Len(y),
         NEW r, NEW w \in Nat, NEW h, NEW t, Merging(x, y, r, w, c, h, t),
         r[w] \in E, r[w].first = y[c + 1].first,
         NEW s, \A i \in 1..(w - 1) : s[i] = r[i], s[w] = y[c + 1]
  PROVE  Merging(x, y, s, w, c + 1, h, t)
<1>0. Len(x) \in Nat /\ Len(y) \in Nat
  BY InputFacts
<1>1. t \in Nat /\ h \in Nat /\ h \in 0..t /\ t \in 0..Len(x) /\ h < w
  BY MergingReads
<1>2. c \in 1..Len(y) /\ c + 1 \in 1..Len(y) /\ c \in 0..Len(y) /\ c + 1 >= 1
  <2>1. c \in 1..Len(y) /\ c + 1 \in 1..Len(y)
    BY MergingReads
  <2> QED BY <1>0, <2>1
<1>3. y[c].first <= y[c + 1].first /\ y[c].first \in Nat /\ y[c + 1].first \in Nat
  BY MergingReads
<1>4. r[w] \in Rest(x, y, h, c, t)
  <2>1. w \in (h + 1)..w
    BY <1>1
  <2> QED BY <2>1 DEF Merging, Merged
<1>5. ASSUME NEW i \in 1..t PROVE x[i].first < y[c + 1].first /\ x[i] # r[w]
  <2>1. i \in 1..Len(x)
    BY <1>0, <1>1
  <2>2. x[i].first \in Nat /\ x[i].first < y[c + 1].first
    BY <2>1, InputFacts DEF Merging
  <2> QED BY <1>3, <2>2
<1>6. PICK l \in LastsTo(y, c) : l \in 1..c /\ r[w] = y[l]
  <2>1. \A d \in Rest(x, y, h, c, t) :
          \/ \E j \in LastsTo(y, c) : j \in 1..c /\ d = y[j]
          \/ \E i \in 1..t : d = x[i]
    <3> TAKE d \in Rest(x, y, h, c, t)
    <3> QED BY <1>1, <1>2, RestFacts
  <2>3. \/ \E j \in LastsTo(y, c) : j \in 1..c /\ r[w] = y[j]
        \/ \E i \in 1..t : r[w] = x[i]
    BY <1>4, <2>1
  <2>2. \A i \in 1..t : x[i] # r[w]
    BY <1>5
  <2> QED BY <2>2, <2>3
<1>7. l = c
  <2> SUFFICES ASSUME l # c PROVE FALSE
    OBVIOUS
  <2>1. c \in (l + 1)..c
    BY <1>2, <1>6
  <2>2. y[c].first # y[l].first
    BY <2>1 DEF LastsTo
  <2>3. y[l].first <= y[c].first /\ y[l].first \in Nat
    BY <1>6, MergingReads
  <2> QED BY <1>3, <1>6, <2>2, <2>3
<1>8. r[w] = y[c] /\ y[c].first = y[c + 1].first /\ c \in LastsTo(y, c)
  BY <1>6, <1>7
<1>9. ASSUME NEW j \in LastsTo(y, c) PROVE y[j].first # y[c + 1].first <=> j # c
  BY <1>8, LastsFacts
<1>10. ASSUME NEW j \in 1..Len(y) PROVE y[j] = r[w] => j = c
  <2>1. y[j].second = Len(x) + j /\ y[c].second = Len(x) + c
    BY <1>2, InputFacts
  <2> QED BY <1>0, <1>2, <1>8, <2>1
<1>11. Rest(x, y, h, c + 1, t) = (Rest(x, y, h, c, t) \ {r[w]}) \cup {y[c + 1]}
  <2>1. y[c + 1].first \notin Early(x, y)
    BY MergingReads
  <2>2. \A j : j \in LastsTo(y, c + 1) <=> j = c + 1 \/ (j \in LastsTo(y, c) /\ j # c)
    BY <1>9, LastsNext
  <2>3. \A j \in LastsTo(y, c) : j \in 1..Len(y) /\ (y[j] = r[w] <=> j = c)
    <3> TAKE j \in LastsTo(y, c)
    <3>1. j \in 1..Len(y)
      BY <1>0, <1>2 DEF LastsTo
    <3> QED BY <1>8, <1>10, <3>1
  <2>4. \A i \in (h + 1)..t : i \in 1..t
    BY <1>1
  <2>5. ASSUME NEW d \in Rest(x, y, h, c + 1, t)
        PROVE  d \in (Rest(x, y, h, c, t) \ {r[w]}) \cup {y[c + 1]}
    <3>1. CASE \E j \in LastsTo(y, c + 1) : y[j].first \notin Early(x, y) /\ d = y[j]
      BY <2>2, <2>3, <3>1 DEF Rest
    <3>2. CASE \E i \in (h + 1)..t : d = x[i]
      BY <1>5, <2>4, <3>2 DEF Rest
    <3> QED BY <3>1, <3>2 DEF Rest
  <2>6. ASSUME NEW d \in (Rest(x, y, h, c, t) \ {r[w]}) \cup {y[c + 1]}
        PROVE  d \in Rest(x, y, h, c + 1, t)
    <3>1. CASE d = y[c + 1]
      BY <2>1, <2>2, <3>1 DEF Rest
    <3>2. CASE d # r[w] /\ \E j \in LastsTo(y, c) : y[j].first \notin Early(x, y) /\ d = y[j]
      BY <2>2, <2>3, <3>2 DEF Rest
    <3>3. CASE \E i \in (h + 1)..t : d = x[i]
      BY <3>3 DEF Rest
    <3> QED BY <3>1, <3>2, <3>3 DEF Rest
  <2> QED BY <2>5, <2>6
<1>12. ASSUME NEW d \in Rest(x, y, h, c, t) \ {r[w]} PROVE Comes(Len(x), d, y[c + 1])
  <2>1. CASE \E j \in LastsTo(y, c) : j \in 1..c /\ d = y[j]
    <3>1. PICK j \in LastsTo(y, c) : j \in 1..c /\ d = y[j]
      BY <2>1
    <3>2. y[j].first # y[c + 1].first
      BY <1>8, <1>9, <3>1
    <3>3. y[j].first <= y[c].first /\ y[j].first \in Nat
      BY <3>1, MergingReads
    <3>4. d.first < y[c + 1].first
      BY <1>3, <1>8, <3>1, <3>2, <3>3
    <3> QED BY <3>4 DEF Comes
  <2>2. CASE \E i \in 1..t : d = x[i]
    BY <1>5, <2>2 DEF Comes
  <2> QED BY <1>1, <1>2, <2>1, <2>2, RestFacts
<1>13. Merged(x, y, s, w, h, Rest(x, y, h, c + 1, t))
  <2>1. Merged(x, y, r, w, h, Rest(x, y, h, c, t))
    BY DEF Merging
  <2>2. Merged(x, y, s, w, h, (Rest(x, y, h, c, t) \ {r[w]}) \cup {y[c + 1]})
    BY <1>1, <1>12, <2>1, MergedReplaces
  <2> QED BY <1>11, <2>2
<1>14. ASSUME NEW j \in 1..(c + 1), NEW i \in (t + 1)..Len(x) PROVE y[j].first <= x[i].first
  <2>1. CASE j \in 1..c
    BY <2>1 DEF Merging
  <2>2. CASE j = c + 1
    <3>1. c \in 1..c
      BY <1>2
    <3>2. y[c].first <= x[i].first
      BY <3>1 DEF Merging
    <3> QED BY <1>8, <2>2, <3>2
  <2> QED BY <1>2, <2>1, <2>2
<1>15. /\ \E m \in Missing(x, y) : m <= y[c + 1].first
       /\ c + 1 < Len(y) => \A i \in 1..t : x[i].first < y[(c + 1) + 1].first
  BY MergingReads
<1> QED BY <1>1, <1>2, <1>13, <1>14, <1>15 DEF Merging

-----------------------------------------------------------------------------
(* Where the loops end, the result is UnionLast.                           *)

\* SeekDone: all of y replaced its matches.
LEMMA MergedAtSeekDone ==
  ASSUME NEW E, NEW x, NEW y, Inputs(E, x, y), NEW r, Splits(x, y, Len(y), Len(x)),
         \A i \in 1..Len(x) : Replaced(x, y, i, Len(y), r[i])
  PROVE  Merged(x, y, r, Len(x), Len(x), Rest(x, y, Len(x), Len(y), Len(x)))
<1> DEFINE h == Len(x)
           c == Len(y)
<1>0. h \in Nat /\ c \in Nat /\ h \in 0..Len(x) /\ c \in 0..Len(y)
  BY InputFacts
<1>1. Merged(x, y, r, h, h, {})
  BY <1>0, MergedStarts
<1>2. \A j \in 1..Len(y) : y[j].first \in Early(x, y) <=> j <= c
  BY <1>0, EarlyIs
<1>3. \A l \in LastsTo(y, c) : y[l].first \in Early(x, y)
  <2> TAKE l \in LastsTo(y, c)
  <2>1. l \in 1..Len(y) /\ l <= c
    BY <1>0 DEF LastsTo
  <2> QED BY <1>2, <2>1
<1>4. \A i \in (h + 1)..h : FALSE
  BY <1>0
<1>5. Rest(x, y, h, c, h) = {}
  BY <1>3, <1>4 DEF Rest
<1> QED BY <1>1, <1>5

\* SeekEnd: what remains of y is behind x.
LEMMA CopyingStarts ==
  ASSUME NEW E, NEW x, NEW y, Inputs(E, x, y), NEW c \in Nat, c < Len(y),
         NEW r, Splits(x, y, c, Len(x)), \A i \in 1..Len(x) : Replaced(x, y, i, c, r[i])
  PROVE  Copying(x, y, r, Len(x), c)
<1> DEFINE h == Len(x)
<1>0. h \in Nat /\ Len(y) \in Nat /\ h \in 0..Len(x) /\ c \in 0..Len(y)
  BY InputFacts
<1>1. Merged(x, y, r, h, h, {})
  BY <1>0, MergedStarts
<1>2. \A j \in 1..Len(y) : y[j].first \in Early(x, y) <=> j <= c
  BY <1>0, EarlyIs
<1>3. \A l \in LastsTo(y, Len(y)) : l <= c => y[l].first \in Early(x, y)
  <2> TAKE l \in LastsTo(y, Len(y))
  <2>1. l \in 1..Len(y)
    BY <1>0 DEF LastsTo
  <2> QED BY <1>2, <2>1
<1>4. Copied(x, y, c) = {}
  BY <1>3 DEF Copied
<1>5. \A i \in 1..Len(x) : x[i].first < y[c + 1].first
  BY DEF Splits
<1> QED BY <1>1, <1>4, <1>5 DEF Copying

LEMMA MergedAtCopyDone ==
  ASSUME NEW E, NEW x, NEW y, Inputs(E, x, y), NEW r, NEW w, Copying(x, y, r, w, Len(y))
  PROVE  Merged(x, y, r, w, Len(x), Rest(x, y, Len(x), Len(y), Len(x)))
<1>0. Len(x) \in Nat /\ Len(y) \in Nat
  BY InputFacts
<1>1. \A l \in LastsTo(y, Len(y)) : l <= Len(y)
  BY <1>0 DEF LastsTo
<1>2. \A i \in (Len(x) + 1)..Len(x) : FALSE
  BY <1>0
<1>3. Rest(x, y, Len(x), Len(y), Len(x)) = Copied(x, y, Len(y))
  BY <1>1, <1>2 DEF Rest, Copied
<1> QED BY <1>3 DEF Copying

LEMMA UniqueLastIs ==
  ASSUME NEW E, NEW x, NEW y, Inputs(E, x, y)
  PROVE  /\ UniqueLast(y) \in Seq(E) /\ Ascending(UniqueLast(y))
         /\ Entries(UniqueLast(y)) = { y[j] : j \in LastsTo(y, Len(y)) }
         /\ Keys(UniqueLast(y)) = Keys(y)
<1> DEFINE I == { i \in DOMAIN y : i = Len(y) \/ y[i].first # y[i + 1].first }
           L == LastsTo(y, Len(y))
           u == At(y, L)
<1>0. /\ Len(x) \in Nat /\ Len(y) \in Nat /\ DOMAIN y = 1..Len(y) /\ y \in Seq(E)
      /\ \A j \in 1..Len(y) : y[j].first \in Nat /\ y[j].second = Len(x) + j
      /\ \A i, j \in 1..Len(y) : i <= j => y[i].first <= y[j].first
  BY InputFacts DEF Inputs
<1>00. Len(y) \in Nat
  BY <1>0
<1>1. ASSUME NEW i \in 1..Len(y) PROVE i \in I <=> i \in L
  <2>1. CASE i = Len(y)
    <3>1. \A l \in (i + 1)..Len(y) : FALSE
      BY <1>0, <2>1, SMTT(30)
    <3> QED BY <1>0, <2>1, <3>1 DEF LastsTo
  <2>2. CASE i < Len(y)
    <3>1. i + 1 \in 1..Len(y) /\ i + 1 \in (i + 1)..Len(y) /\ i <= i + 1
      BY <1>0, <2>2
    <3>2. i \in L => y[i].first # y[i + 1].first
      BY <3>1 DEF LastsTo
    <3>3. ASSUME y[i].first # y[i + 1].first, NEW l \in (i + 1)..Len(y)
          PROVE  y[l].first # y[i].first
      <4>1. l \in 1..Len(y) /\ i + 1 <= l
        BY <1>0
      <4>2. y[i].first <= y[i + 1].first /\ y[i + 1].first <= y[l].first
        BY <1>0, <3>1, <4>1
      <4>3. y[i].first \in Nat /\ y[i + 1].first \in Nat /\ y[l].first \in Nat
        BY <1>0, <3>1, <4>1
      <4> QED BY <3>3, <4>2, <4>3
    <3>4. i # Len(y)
      BY <1>00, <2>2
    <3> QED BY <1>0, <3>2, <3>3, <3>4 DEF LastsTo
  <2>3. i = Len(y) \/ i < Len(y)
    BY <1>00
  <2> QED BY <2>1, <2>2, <2>3
<1>2. I = L
  <2>1. \A i \in L : i \in 1..Len(y)
    BY DEF LastsTo
  <2>2. \A i \in I : i \in 1..Len(y)
    BY <1>0
  <2> QED BY <1>1, <2>1, <2>2
<1>3. UniqueLast(y) = u
  BY <1>2 DEF UniqueLast
<1> HIDE DEF I
<1>4. Places(L, Len(y)) /\ Ascending(y)
  <2>1. Places(L, Len(y))
    BY DEF Places, LastsTo
  <2>2. Ascending(y)
    BY <1>0 DEF Ascending
  <2> QED BY <2>1, <2>2
<1>5. u \in Seq(E) /\ Entries(u) = { y[j] : j \in L } /\ Ascending(u)
  BY <1>0, <1>4, AtAscends
<1>6. Keys(u) = Keys(y)
  <2>1. \A j \in 1..Len(y) : \E l \in L : y[l].first = y[j].first
    BY <1>0, LastsFacts
  <2>2. \A j \in L : j \in 1..Len(y)
    BY DEF LastsTo
  <2> HIDE DEF L, u
  <2>3. \A k : k \in Keys(u) <=> \E e \in Entries(u) : e.first = k
    BY DEF Keys, Entries
  <2>4. \A k : k \in Keys(y) <=> \E j \in 1..Len(y) : y[j].first = k
    BY <1>0 DEF Keys
  <2>5. \A k : k \in Keys(u) <=> \E j \in L : y[j].first = k
    BY <1>5, <2>3
  <2> QED BY <2>1, <2>2, <2>4, <2>5
<1> QED BY <1>3, <1>5, <1>6

\* What the first h entries of x become.
UpdateOf(s, u, i) ==
  IF IsFirst(s, i) /\ s[i].first \in Keys(u)
  THEN u[CHOOSE j \in DOMAIN u : u[j].first = s[i].first] ELSE s[i]

LEMMA HeadIs ==
  ASSUME NEW E, NEW x \in Seq(E), NEW h \in 0..Len(x), NEW F,
         \A i \in 1..Len(x) : x[i].first \in F <=> i <= h
  PROVE  At(x, { i \in DOMAIN x : x[i].first \in F }) = SubSeq(x, 1, h)
<1>0. Len(x) \in Nat /\ DOMAIN x = 1..Len(x)
  OBVIOUS
<1>1. { i \in DOMAIN x : x[i].first \in F } = 1..h
  <2>1. \A i \in 1..Len(x) : i <= h <=> i \in 1..h
    BY <1>0
  <2>2. \A i \in 1..h : i \in 1..Len(x)
    BY <1>0
  <2> QED BY <1>0, <2>1, <2>2
<1>2. Places(1..h, Len(x))
  BY <1>0 DEF Places
<1>3. Written(x, 1..h, h, x, h)
  BY <1>0, <1>2, WrittenPrefix
<1>4. Written(x, 1..h, Len(x), x, h)
  <2>1. UpTo(1..h, Len(x)) = UpTo(1..h, h)
    BY <1>0 DEF UpTo
  <2>2. \A i \in 1..h : i <= h
    BY <1>0
  <2> QED BY <1>3, <2>1, <2>2 DEF Written
<1>5. SubSeq(x, 1, h) = At(x, 1..h)
  BY <1>0, <1>2, <1>4, WrittenAll
<1> QED BY <1>1, <1>5

LEMMA UpdateIs ==
  ASSUME NEW E, NEW x, NEW y, Inputs(E, x, y), NEW h \in 0..Len(x), NEW i \in 1..h,
         NEW e, Replaced(x, y, i, Len(y), e)
  PROVE  UpdateOf(SubSeq(x, 1, h), UniqueLast(y), i) = e
<1> DEFINE s == SubSeq(x, 1, h)
           u == UniqueLast(y)
           L == LastsTo(y, Len(y))
<1>0. Len(x) \in Nat /\ Len(y) \in Nat /\ x \in Seq(E) /\ DOMAIN y = 1..Len(y)
  BY InputFacts DEF Inputs
<1>1. \A j \in 1..h : s[j] = x[j]
  BY <1>0
<1>2. IsFirst(s, i) <=> IsFirst(x, i)
  <2>1. \A j \in 1..(i - 1) : j \in 1..h
    BY <1>0
  <2> QED BY <1>1, <2>1 DEF IsFirst
<1>3. Entries(u) = { y[j] : j \in L } /\ Keys(u) = Keys(y)
  BY UniqueLastIs
<1> HIDE DEF s, u
<1>4. s[i].first \in Keys(u) <=> \E j \in 1..Len(y) : y[j].first = x[i].first
  BY <1>0, <1>1, <1>3 DEF Keys
<1>5. Matched(x, y, i, Len(y)) <=> IsFirst(s, i) /\ s[i].first \in Keys(u)
  BY <1>2, <1>4 DEF Matched
<1>6. CASE ~Matched(x, y, i, Len(y))
  BY <1>1, <1>5, <1>6 DEF UpdateOf, Replaced, s, u
<1>7. CASE Matched(x, y, i, Len(y))
  <2>1. PICK j \in L : y[j].first = x[i].first /\ e = y[j]
    BY <1>7 DEF Replaced
  <2>2. \E n \in DOMAIN u : u[n].first = s[i].first
    BY <1>5, <1>7 DEF Keys
  <2> DEFINE n == CHOOSE m \in DOMAIN u : u[m].first = s[i].first
  <2>3. n \in DOMAIN u /\ u[n].first = s[i].first
    BY <2>2
  <2> HIDE DEF n
  <2>4. u[n] \in Entries(u)
    BY <2>3 DEF Entries
  <2>5. PICK l \in L : u[n] = y[l]
    BY <1>3, <2>4
  <2>6. l = j
    <3>1. \A a, b \in L : y[a].first = y[b].first => a = b
      BY <1>0, LastsFacts
    <3>2. y[l].first = y[j].first
      BY <1>1, <2>1, <2>3, <2>5
    <3> QED BY <3>1, <3>2
  <2>7. UpdateOf(s, u, i) = u[n]
    BY <1>5, <1>7 DEF UpdateOf, n
  <2> QED BY <2>1, <2>5, <2>6, <2>7 DEF s, u
<1> QED BY <1>6, <1>7

Late(s, F) == At(s, { i \in DOMAIN s : s[i].first \notin F })

LEMMA LateIs ==
  ASSUME NEW E, NEW s \in Seq(E), Ascending(s), NEW F
  PROVE  /\ Late(s, F) \in Seq(E) /\ Ascending(Late(s, F))
         /\ Entries(Late(s, F)) = { e \in Entries(s) : e.first \notin F }
<1> DEFINE I == { i \in DOMAIN s : s[i].first \notin F }
<1>1. Len(s) \in Nat /\ DOMAIN s = 1..Len(s)
  OBVIOUS
<1>2. Places(I, Len(s))
  BY <1>1 DEF Places
<1>3. At(s, I) \in Seq(E) /\ Entries(At(s, I)) = { s[i] : i \in I } /\ Ascending(At(s, I))
  <2> HIDE DEF I
  <2> QED BY <1>2, AtAscends
<1>4. { s[i] : i \in I } = { e \in Entries(s) : e.first \notin F }
  BY DEF Entries
<1> QED BY <1>3, <1>4 DEF Late

LEMMA UnionLastIs ==
  ASSUME NEW E, NEW x, NEW y, Inputs(E, x, y), NEW h \in 0..Len(x),
         \A i \in 1..Len(x) : x[i].first \in Early(x, y) <=> i <= h
  PROVE  UnionLast(x, y) =
           [i \in 1..h |-> UpdateOf(SubSeq(x, 1, h), UniqueLast(y), i)]
             \o StableSort(Late(UniqueLast(y), Early(x, y)) \o Late(x, Early(x, y)))
<1> DEFINE u == UniqueLast(y)
           F == { k \in Keys(x) : \A m \in Keys(u) \ Keys(x) : k < m }
           s == At(x, { i \in DOMAIN x : x[i].first \in F })
<1>1. UnionLast(x, y) = [i \in DOMAIN s |-> UpdateOf(s, u, i)]
                          \o StableSort(Late(u, F) \o Late(x, F))
  BY DEF UnionLast, UpdateOf, Late
<1>2. F = Early(x, y)
  BY UniqueLastIs DEF Early, Missing
<1>3. x \in Seq(E) /\ Len(x) \in Nat
  BY InputFacts DEF Inputs
<1> HIDE DEF u, F
<1>4. s = SubSeq(x, 1, h)
  BY <1>2, <1>3, HeadIs
<1>5. DOMAIN s = 1..h
  BY <1>3, <1>4
<1> QED BY <1>1, <1>2, <1>4, <1>5 DEF u

LEMMA UnionIs ==
  ASSUME NEW E, NEW x, NEW y, Inputs(E, x, y), NEW r \in Seq(E), NEW w \in 0..Len(r), NEW h,
         Merged(x, y, r, w, h, Rest(x, y, h, Len(y), Len(x)))
  PROVE  SubSeq(r, 1, w) = UnionLast(x, y)
<1> DEFINE n == Len(x)
           F == Early(x, y)
           u == UniqueLast(y)
           a == Late(u, F)
           b == Late(x, F)
           t == StableSort(a \o b)
           v == [i \in 1..(w - h) |-> r[h + i]]
           z == [i \in 1..h |-> UpdateOf(SubSeq(x, 1, h), u, i)]
           M == Rest(x, y, h, Len(y), Len(x))
<1>0. /\ n \in Nat /\ Len(y) \in Nat /\ x \in Seq(E) /\ DOMAIN x = 1..n /\ Numbered(E)
      /\ \A i \in 1..n : x[i].second = i
      /\ \A j \in 1..Len(y) : y[j].second = n + j
  BY InputFacts DEF Inputs
<1>1. /\ h \in 0..n /\ h \in Nat /\ w \in Nat /\ h <= w /\ w - h \in Nat /\ w <= Len(r)
      /\ \A i \in 1..n : x[i].first \in F <=> i <= h
  BY <1>0 DEF Merged
<1>2. UnionLast(x, y) = z \o t
  BY <1>1, UnionLastIs
<1>3. u \in Seq(E) /\ Ascending(u) /\ Entries(u) = { y[j] : j \in LastsTo(y, Len(y)) }
  BY UniqueLastIs
<1>4. Ascending(x)
  BY <1>0 DEF Ascending
<1> HIDE DEF F, u
<1>5. /\ a \in Seq(E) /\ Ascending(a) /\ Entries(a) = { e \in Entries(u) : e.first \notin F }
      /\ b \in Seq(E) /\ Ascending(b) /\ Entries(b) = { e \in Entries(x) : e.first \notin F }
  BY <1>0, <1>3, <1>4, LateIs
<1>6. \A e \in Entries(a) : e.second > n
  <2>1. \A j \in LastsTo(y, Len(y)) : j \in 1..Len(y) /\ n + j > n
    BY <1>0 DEF LastsTo
  <2> QED BY <1>0, <1>3, <1>5, <2>1
<1>7. \A e \in Entries(b) : e.second <= n
  <2>1. \A e \in Entries(x) : \E i \in 1..n : e = x[i]
    BY <1>0 DEF Entries
  <2>2. \A i \in 1..n : x[i].second <= n
    BY <1>0
  <2> QED BY <1>5, <2>1, <2>2
<1> HIDE DEF a, b
<1>8. t \in Seq(E) /\ InOrder(n, t) /\ Entries(t) = Entries(a) \cup Entries(b)
  <2>1. Mergeable(E, n, a, b)
    BY <1>0, <1>5, <1>6, <1>7 DEF Mergeable
  <2>2. t = StableMerge(a, b)
    BY DEF StableMerge
  <2> HIDE DEF n, t
  <2> QED BY <2>1, <2>2, MergeInOrder
<1>9. Entries(a) \cup Entries(b) = M
  <2>1. \A i \in 1..n : x[i].first \notin F <=> i \in (h + 1)..n
    BY <1>0, <1>1
  <2>2. \A i \in (h + 1)..n : i \in 1..n
    BY <1>0, <1>1
  <2>3. Entries(b) = { x[i] : i \in (h + 1)..n }
    <3>1. Entries(x) = { x[i] : i \in 1..n }
      BY <1>0 DEF Entries
    <3> QED BY <1>5, <2>1, <2>2, <3>1
  <2>4. Entries(a) = { y[j] : j \in { l \in LastsTo(y, Len(y)) : y[l].first \notin F } }
    BY <1>3, <1>5
  <2> QED BY <2>3, <2>4 DEF Rest, F
<1> HIDE DEF t
<1>10. /\ \A i, j \in (h + 1)..w : i < j => Comes(n, r[i], r[j])
       /\ { r[i] : i \in (h + 1)..w } = M
       /\ \A i \in 1..h : Replaced(x, y, i, Len(y), r[i])
  BY DEF Merged
<1>11. \A i \in 1..Len(r) : r[i] \in E
  OBVIOUS
<1> HIDE DEF M
<1>12. v \in Seq(E) /\ Len(v) = w - h /\ DOMAIN v = 1..(w - h)
  <2>1. \A i \in 1..(w - h) : r[h + i] \in E
    BY <1>1, <1>11
  <2> QED BY <1>1, <2>1
<1>13. \A i \in 1..(w - h) : v[i] = r[h + i] /\ h + i \in (h + 1)..w
  BY <1>1
<1>14. Entries(v) = M
  <2>1. ASSUME NEW i \in (h + 1)..w PROVE i - h \in 1..(w - h) /\ v[i - h] = r[i]
    BY <1>1
  <2> HIDE DEF v
  <2>2. ASSUME NEW d \in Entries(v) PROVE d \in M
    <3>1. PICK i \in 1..(w - h) : d = v[i]
      BY <1>12 DEF Entries
    <3> QED BY <1>10, <1>13, <3>1
  <2>3. ASSUME NEW d \in M PROVE d \in Entries(v)
    <3>1. PICK i \in (h + 1)..w : d = r[i]
      BY <1>10
    <3> QED BY <1>12, <2>1, <3>1 DEF Entries
  <2> QED BY <2>2, <2>3
<1> HIDE DEF v
<1>15. InOrder(n, v)
  <2> SUFFICES ASSUME NEW i \in 1..(w - h), NEW j \in 1..(w - h), i < j
               PROVE  Comes(n, v[i], v[j])
    BY <1>12 DEF InOrder
  <2>1. h + i < h + j
    BY <1>1
  <2> QED BY <1>10, <1>13, <2>1
<1>16. v = t
  BY <1>0, <1>8, <1>9, <1>12, <1>14, <1>15, OrderUnique
<1>17. \A i \in 1..h : z[i] = r[i]
  <2> SUFFICES ASSUME NEW i \in 1..h PROVE UpdateOf(SubSeq(x, 1, h), u, i) = r[i]
    OBVIOUS
  <2>1. h \in 0..Len(x)
    BY <1>1
  <2> QED BY <1>10, <2>1, UpdateIs DEF u
<1>18. z = [i \in 1..h |-> r[i]]
  BY <1>17
<1>19. [i \in 1..h |-> r[i]] \o v = SubSeq(r, 1, w)
  <2> DEFINE q == [i \in 1..h |-> r[i]]
  <2>1. q \in Seq(E) /\ Len(q) = h /\ \A i \in 1..h : q[i] = r[i]
    BY <1>1, <1>11
  <2> HIDE DEF q
  <2>2. q \o v \in Seq(E) /\ Len(q \o v) = w
    <3>1. q \o v \in Seq(E) /\ Len(q \o v) = h + (w - h)
      BY <1>12, <2>1
    <3>2. h + (w - h) = w
      BY <1>1
    <3> QED BY <3>1, <3>2
  <2>3. SubSeq(r, 1, w) \in Seq(E) /\ Len(SubSeq(r, 1, w)) = w
        /\ \A i \in 1..w : SubSeq(r, 1, w)[i] = r[i]
    BY <1>1
  <2>4. ASSUME NEW i \in 1..w PROVE (q \o v)[i] = r[i]
    <3>1. CASE i <= h
      BY <1>1, <1>12, <2>1, <3>1
    <3>2. CASE ~(i <= h)
      <4>1. i - h \in 1..(w - h) /\ h + (i - h) = i
        BY <1>1, <3>2
      <4>2. (q \o v)[i] = v[i - h]
        <5>1. Len(q) = h /\ q \in Seq(E) /\ i \in 1..(Len(q) + Len(v)) /\ i > Len(q)
          BY <1>1, <1>12, <2>1, <3>2
        <5> HIDE DEF v
        <5> QED BY <5>1, <1>1, <2>1
      <4> QED BY <1>13, <4>1, <4>2
    <3> QED BY <3>1, <3>2
  <2> HIDE DEF v
  <2>5. q \o v = SubSeq(r, 1, w)
    <3> DEFINE A == q \o v
               B == SubSeq(r, 1, w)
    <3>1. A \in Seq(E) /\ B \in Seq(E) /\ Len(A) = w /\ Len(B) = w
          /\ \A i \in 1..w : A[i] = B[i]
      BY <2>2, <2>3, <2>4
    <3> HIDE DEF A, B
    <3>2. A = B
      BY <1>1, <3>1
    <3> QED BY <3>2 DEF A, B
  <2> QED BY <2>5 DEF q
<1> QED BY <1>2, <1>16, <1>18, <1>19

-----------------------------------------------------------------------------
(* What waits in a deque over n places: the entries a+1 to b of s.         *)

Slot(n, i, k) == IF i + k < n THEN i + k ELSE i + k - n

Holds(n, d, s, a, b) ==
  /\ (IF d.ib <= d.ie THEN d.ie - d.ib ELSE d.ie + n - d.ib) = b - a
  /\ \A k \in 0..(b - a - 1) : d.buf[Slot(n, d.ib, k)] = s[a + k + 1]

\* One place further at the rear, and at the front.
LEMMA RingGrows ==
  ASSUME NEW n \in Nat, NEW i \in 0..(n - 1), NEW j \in 0..(n - 1), NEW m \in Nat, m < n - 1,
         (IF i <= j THEN j - i ELSE j + n - i) = m,
         NEW l, l = IF j + 1 = n THEN 0 ELSE j + 1
  PROVE  (IF i <= l THEN l - i ELSE l + n - i) = m + 1 /\ Slot(n, i, m) = j
<1>1. CASE i <= j
  BY <1>1 DEF Slot
<1>2. CASE ~(i <= j)
  BY <1>2 DEF Slot
<1> QED BY <1>1, <1>2

LEMMA RingShrinks ==
  ASSUME NEW n \in Nat, NEW i \in 0..(n - 1), NEW j \in 0..(n - 1), i # j, NEW m \in Int,
         (IF i <= j THEN j - i ELSE j + n - i) = m,
         NEW l, l = IF i + 1 = n THEN 0 ELSE i + 1
  PROVE  0 < m /\ (IF l <= j THEN j - l ELSE j + n - l) = m - 1
<1>1. CASE i <= j
  BY <1>1
<1>2. CASE ~(i <= j)
  BY <1>2
<1> QED BY <1>1, <1>2

LEMMA HoldsPush ==
  ASSUME NEW n \in Nat, NEW d, NEW E, d.buf \in [0..(n - 1) -> E], d.ib \in 0..(n - 1),
         d.ie \in 0..(n - 1), NEW s, NEW a \in Nat, NEW b \in Nat, Holds(n, d, s, a, b),
         b - a < n - 1,
         NEW f, f.buf = [d.buf EXCEPT ![d.ie] = s[b + 1]], f.ib = d.ib,
         f.ie = IF d.ie + 1 = n THEN 0 ELSE d.ie + 1
  PROVE  Holds(n, f, s, a, b + 1)
<1> DEFINE i == d.ib
           j == d.ie
           l == f.ie
<1>1. /\ i \in 0..(n - 1) /\ j \in 0..(n - 1) /\ l = IF j + 1 = n THEN 0 ELSE j + 1
      /\ (IF i <= j THEN j - i ELSE j + n - i) = b - a
      /\ \A k \in 0..(b - a - 1) : d.buf[Slot(n, i, k)] = s[a + k + 1]
  BY DEF Holds
<1> HIDE DEF i, j, l
<1>2. b - a \in Nat
  <2>1. (IF i <= j THEN j - i ELSE j + n - i) \in Nat
    BY <1>1
  <2> QED BY <1>1, <2>1
<1>3. (IF i <= l THEN l - i ELSE l + n - i) = (b - a) + 1 /\ Slot(n, i, b - a) = j
  BY <1>1, <1>2, RingGrows
<1>4. (IF i <= l THEN l - i ELSE l + n - i) = (b + 1) - a
  <2>1. (b - a) + 1 = (b + 1) - a
    OBVIOUS
  <2> QED BY <1>3, <2>1
<1>5. ASSUME NEW k \in 0..((b + 1) - a - 1) PROVE f.buf[Slot(n, i, k)] = s[a + k + 1]
  <2>1. CASE k = b - a
    <3>1. Slot(n, i, k) = j /\ a + k + 1 = b + 1
      BY <1>3, <2>1
    <3> QED BY <1>1, <3>1 DEF j
  <2>2. CASE k # b - a
    <3>1. k \in 0..(b - a - 1)
      BY <2>2
    <3>2. Slot(n, i, k) # j /\ Slot(n, i, k) \in 0..(n - 1)
      BY <1>1, <3>1 DEF Slot
    <3>3. f.buf[Slot(n, i, k)] = d.buf[Slot(n, i, k)]
      BY <3>2 DEF j
    <3> QED BY <1>1, <3>1, <3>3
  <2> QED BY <2>1, <2>2
<1>6. f.ib = i /\ f.ie = l
  BY DEF i, l
<1> QED BY <1>4, <1>5, <1>6 DEF Holds

LEMMA HoldsPop ==
  ASSUME NEW n \in Nat, NEW d, d.ib \in 0..(n - 1), d.ie \in 0..(n - 1), d.ib # d.ie,
         NEW s, NEW a \in Nat, NEW b \in Nat, Holds(n, d, s, a, b),
         NEW f, f.buf = d.buf, f.ie = d.ie, f.ib = IF d.ib + 1 = n THEN 0 ELSE d.ib + 1
  PROVE  a < b /\ d.buf[d.ib] = s[a + 1] /\ Holds(n, f, s, a + 1, b)
<1> DEFINE i == d.ib
           j == d.ie
           l == f.ib
<1>1. /\ i \in 0..(n - 1) /\ j \in 0..(n - 1) /\ l = (IF i + 1 = n THEN 0 ELSE i + 1) /\ i # j
      /\ (IF i <= j THEN j - i ELSE j + n - i) = b - a
      /\ \A k \in 0..(b - a - 1) : d.buf[Slot(n, i, k)] = s[a + k + 1]
  BY DEF Holds
<1> HIDE DEF i, j, l
<1>2. a < b /\ (IF l <= j THEN j - l ELSE j + n - l) = b - (a + 1)
  <2>1. 0 < b - a /\ (IF l <= j THEN j - l ELSE j + n - l) = (b - a) - 1
    BY <1>1, RingShrinks
  <2>2. (b - a) - 1 = b - (a + 1) /\ (0 < b - a => a < b)
    OBVIOUS
  <2> QED BY <2>1, <2>2
<1>3. d.buf[i] = s[a + 1]
  <2>1. 0 \in 0..(b - a - 1) /\ Slot(n, i, 0) = i /\ a + 0 + 1 = a + 1
    BY <1>1, <1>2 DEF Slot
  <2>2. d.buf[Slot(n, i, 0)] = s[a + 0 + 1]
    BY <1>1, <2>1
  <2> QED BY <2>1, <2>2
<1>4. ASSUME NEW k \in 0..(b - (a + 1) - 1) PROVE d.buf[Slot(n, l, k)] = s[(a + 1) + k + 1]
  <2>1. /\ k + 1 \in 0..(b - a - 1) /\ Slot(n, l, k) = Slot(n, i, k + 1)
        /\ (a + 1) + k + 1 = a + (k + 1) + 1
    BY <1>1, <1>2 DEF Slot
  <2>2. d.buf[Slot(n, i, k + 1)] = s[a + (k + 1) + 1]
    BY <1>1, <2>1
  <2> QED BY <2>1, <2>2
<1>5. f.ib = l /\ f.ie = j /\ f.buf = d.buf
  BY DEF j, l
<1>6. Holds(n, f, s, a + 1, b)
  BY <1>2, <1>4, <1>5 DEF Holds
<1> QED BY <1>2, <1>3, <1>6 DEF i

-----------------------------------------------------------------------------
(* The union: the invariant of what the array and the deque hold.          *)

Queued == \E h, t : /\ Merging(X, Y, pairs, it, yc, h, t)
                    /\ Holds(BufferSize, deque, X, t, xb - 1)

UnionInv ==
  /\ pc = "copy" => op = "union"
  /\ op = "union" =>
       /\ pc = "seek" => Seeking(X, Y, pairs, xb, yc)
       /\ pc = "copy" => Copying(X, Y, pairs, it, yc)
       /\ pc \in {"insert", "drain"} => Queued
       /\ pc = "done" => SubSeq(pairs, 1, it) = UnionLast(X, Y)

LEMMA InputsHold ==
  ASSUME TypeOK, PartsSorted
  PROVE  Inputs(Entry, X, Y)
<1>1. Numbered(Entry)
  <2>1. \A e \in Entry : e.first \in Nat
    BY PartsFacts DEF HasKeys
  <2>2. \A e \in Entry : e.second \in Nat
    BY DEF Entry
  <2> QED BY <2>1, <2>2 DEF Numbered
<1>2. \A i \in 1..Len(X) : X[i].second = i
  <2>1. \A i \in 1..im : X[i] = input[i] /\ i \in 1..ye
    BY PartsFacts
  <2> QED BY <2>1, PartsFacts DEF PartsSorted
<1>3. \A j \in 1..Len(Y) : Y[j].second = Len(X) + j
  <2>1. \A j \in 1..yn : Y[j] = input[im + j] /\ im + j \in 1..ye
    BY PartsFacts
  <2> QED BY <2>1, PartsFacts DEF PartsSorted
<1> QED BY <1>1, <1>2, <1>3, PartsFacts DEF Inputs, PartsSorted

\* What the loops of the union read.
LEMMA UnionReads ==
  ASSUME IInv, PartsSorted
  PROVE  /\ Inputs(Entry, X, Y) /\ Len(X) = im /\ Len(Y) = yn /\ im \in Nat /\ yn \in Nat
         /\ ye = im + yn /\ yc \in Nat /\ yc <= yn /\ yb = im + yc + 1
         /\ xb \in 1..(im + 1) /\ it \in 0..(ye + 1)
         /\ pairs \in Seq(Entry) /\ Len(pairs) = ye /\ DOMAIN pairs = 1..ye
         /\ yb <= ye => yc < yn /\ pairs[yb] = Y[yc + 1]
         /\ yb < ye => yc + 1 < yn /\ pairs[yb + 1] = Y[yc + 2]
         /\ yb = ye => yc + 1 = yn
         /\ yb > ye => yc = yn
         /\ xb <= im => pairs[xb].first = X[xb].first /\ xb \in 1..im
         /\ xb <= im /\ pc \notin {"seek", "done"} => pairs[xb] = X[xb]
<1>1. TypeOK /\ UnreadUntouched
  BY DEF IInv
<1>2. /\ Len(X) = im /\ Len(Y) = yn /\ im \in Nat /\ yn \in Nat
      /\ ye = im + yn /\ yc \in Nat /\ yc <= yn /\ yb = im + yc + 1
      /\ (yb <= ye => yc < yn) /\ (yb > ye => yc = yn)
  <2>1. yc \in 0..yn
    BY <1>1, PartsFacts
  <2> QED BY <1>1, <2>1, PartsFacts
<1>3. xb \in 1..(im + 1) /\ it \in 0..(ye + 1) /\ pairs \in Seq(Entry) /\ Len(pairs) = ye
      /\ DOMAIN pairs = 1..ye
  <2>1. xb \in 1..(im + 1) /\ it \in 0..(ye + 1) /\ pairs \in Seq(Entry) /\ Len(pairs) = ye
    BY <1>1 DEF TypeOK
  <2> QED BY <2>1
<1>4. ASSUME NEW j \in Nat, yc + j + 1 <= yn
      PROVE  pairs[yb + j] = Y[yc + j + 1]
  <2>1. yc + j + 1 \in 1..yn /\ im + (yc + j + 1) = yb + j /\ yb + j \in yb..ye
    BY <1>2, <1>4
  <2>2. Y[yc + j + 1] = input[im + (yc + j + 1)]
    BY <1>1, <2>1, PartsFacts
  <2>3. pairs[yb + j] = input[yb + j]
    BY <1>1, <2>1 DEF UnreadUntouched
  <2> QED BY <2>1, <2>2, <2>3
<1>5. yb <= ye => yc < yn /\ pairs[yb] = Y[yc + 1]
  <2> SUFFICES ASSUME yb <= ye PROVE pairs[yb] = Y[yc + 1]
    BY <1>2
  <2>1. yc + 0 + 1 <= yn /\ yb + 0 = yb /\ yc + 0 + 1 = yc + 1
    BY <1>2
  <2>2. pairs[yb + 0] = Y[yc + 0 + 1]
    BY <1>4, <2>1
  <2> QED BY <2>1, <2>2
<1>6. yb < ye => yc + 1 < yn /\ pairs[yb + 1] = Y[yc + 2]
  <2> SUFFICES ASSUME yb < ye PROVE yc + 1 < yn /\ pairs[yb + 1] = Y[yc + 2]
    OBVIOUS
  <2>1. yc + 1 < yn /\ yc + 1 + 1 <= yn /\ yc + 1 + 1 = yc + 2
    BY <1>2
  <2>2. pairs[yb + 1] = Y[yc + 1 + 1]
    BY <1>4, <2>1
  <2> QED BY <2>1, <2>2
<1>7. yb = ye => yc + 1 = yn
  BY <1>2
<1>8. ASSUME xb <= im
      PROVE  /\ xb \in 1..im /\ pairs[xb].first = X[xb].first
             /\ pc \notin {"seek", "done"} => pairs[xb] = X[xb]
  <2>1. xb \in 1..im /\ xb \in xb..im
    BY <1>2, <1>3, <1>8
  <2>2. X[xb] = input[xb]
    BY <1>1, <2>1, PartsFacts
  <2>3. \/ pairs[xb] = input[xb]
        \/ pc \in {"seek", "done"} /\ Same(pairs[xb], input[xb])
    BY <1>1, <2>1 DEF UnreadUntouched
  <2> QED BY <2>1, <2>2, <2>3 DEF Same
<1>9. Inputs(Entry, X, Y)
  BY <1>1, InputsHold
<1> QED BY <1>2, <1>3, <1>5, <1>6, <1>7, <1>8, <1>9

\* The deque with the entry of x that lies at the next place.
LEMMA SavedHolds ==
  ASSUME IInv, PartsSorted, pc \in {"insert", "drain"}, NEW t \in Nat,
         Holds(BufferSize, deque, X, t, xb - 1)
  PROVE  /\ Holds(BufferSize, Saved, X, t, NextX - 1)
         /\ NextX \in Nat /\ NextX - 1 \in Nat /\ NextX - 1 <= im /\ Saved \in Deque
         /\ xb <= im => ~Empty(Saved)
         /\ xb > im => NextX - 1 = im
<1>1. TypeOK /\ Saved \in Deque /\ NextX \in Nat /\ deque \in Deque
      /\ (xb <= im => Size(Saved) = Size(deque) + 1 /\ NextX = xb + 1)
      /\ (xb > im => Saved = deque /\ NextX = xb)
  BY SavedFacts DEF IInv, TypeOK
<1>2. xb \in 1..(im + 1) /\ im \in Nat /\ ye \in Nat /\ BufferSize = ye - im + 4 /\ im <= ye
  BY <1>1, UnionReads, ReadFacts
<1>3. xb - 1 \in Nat /\ BufferSize \in Nat
  BY <1>2
<1>4. Size(deque) \in Nat /\ Size(Saved) \in Nat /\ (Empty(Saved) <=> Size(Saved) = 0)
  BY <1>1, PopFacts
<1>5. CASE xb <= im
  <2>1. Saved = PushBack(deque, pairs[xb]) /\ pairs[xb] = X[xb] /\ (xb - 1) + 1 = xb
        /\ NextX - 1 = (xb - 1) + 1
    <3>1. pairs[xb] = X[xb]
      BY <1>5, UnionReads
    <3> QED BY <1>1, <1>2, <1>5, <3>1 DEF Saved
  <2>2. /\ deque.buf \in [0..(BufferSize - 1) -> Entry] /\ deque.ib \in 0..(BufferSize - 1)
        /\ deque.ie \in 0..(BufferSize - 1)
    BY <1>1 DEF Deque
  <2>3. (xb - 1) - t < BufferSize - 1
    <3>1. Size(deque) = (xb - 1) - t
      BY DEF Holds, Size
    <3>2. Size(deque) <= yb - 1 - im /\ yb - 1 <= ye
      <4>1. Size(deque) <= yb - 1 - im
        BY DEF IInv, Cursors
      <4>2. yb \in (im + 1)..(ye + 1)
        BY <1>1 DEF TypeOK
      <4> QED BY <1>2, <4>1, <4>2
    <3>3. yb \in Int
      BY <1>1, ReadFacts
    <3> QED BY <1>2, <1>4, <3>1, <3>2, <3>3
  <2>4. /\ Saved.buf = [deque.buf EXCEPT ![deque.ie] = X[(xb - 1) + 1]] /\ Saved.ib = deque.ib
        /\ Saved.ie = IF deque.ie + 1 = BufferSize THEN 0 ELSE deque.ie + 1
    BY <2>1 DEF PushBack, After
  <2>5. Holds(BufferSize, Saved, X, t, (xb - 1) + 1)
    BY <1>3, <2>2, <2>3, <2>4, HoldsPush
  <2>6. ~Empty(Saved)
    BY <1>1, <1>4, <1>5
  <2> QED BY <1>1, <1>2, <1>5, <2>1, <2>5, <2>6
<1>6. CASE xb > im
  BY <1>1, <1>2, <1>6
<1> QED BY <1>2, <1>5, <1>6

\* The front of that is the first entry of x that waits.
LEMMA FrontHolds ==
  ASSUME IInv, PartsSorted, pc \in {"insert", "drain"}, NEW t \in Nat,
         Holds(BufferSize, deque, X, t, xb - 1), ~Empty(Saved)
  PROVE  /\ Front(Saved) = X[t + 1] /\ t < im
         /\ Holds(BufferSize, PopFront(Saved), X, t + 1, NextX - 1)
<1>1. /\ Holds(BufferSize, Saved, X, t, NextX - 1)
      /\ NextX - 1 \in Nat /\ NextX - 1 <= im /\ Saved \in Deque
  BY SavedHolds
<1>2. Saved.ib \in 0..(BufferSize - 1) /\ Saved.ie \in 0..(BufferSize - 1) /\ Saved.ib # Saved.ie
  BY <1>1 DEF Deque, Empty
<1>3. BufferSize \in Nat /\ im \in Nat
  <2>1. BufferSize = ye - im + 4 /\ ye \in Nat /\ im \in Nat /\ im <= ye
    BY ReadFacts DEF IInv
  <2> QED BY <2>1
<1>4. /\ PopFront(Saved).buf = Saved.buf /\ PopFront(Saved).ie = Saved.ie
      /\ PopFront(Saved).ib = IF Saved.ib + 1 = BufferSize THEN 0 ELSE Saved.ib + 1
  BY DEF PopFront, After
<1>5. /\ t < NextX - 1 /\ Saved.buf[Saved.ib] = X[t + 1]
      /\ Holds(BufferSize, PopFront(Saved), X, t + 1, NextX - 1)
  BY <1>1, <1>2, <1>3, <1>4, HoldsPop
<1> QED BY <1>1, <1>3, <1>5 DEF Front

LEMMA EmptyHolds ==
  ASSUME IInv, PartsSorted, pc \in {"insert", "drain"}, NEW t \in Nat,
         Holds(BufferSize, deque, X, t, xb - 1), Empty(Saved)
  PROVE  t = im
<1>1. /\ Holds(BufferSize, Saved, X, t, NextX - 1) /\ Saved \in Deque
      /\ (xb <= im => ~Empty(Saved)) /\ (xb > im => NextX - 1 = im)
  BY SavedHolds
<1>2. xb \in 1..(im + 1) /\ im \in Nat
  BY UnionReads
<1>3. NextX - 1 = im
  BY <1>1, <1>2
<1>4. Saved.ib = Saved.ie /\ Saved.ie \in Nat
  BY <1>1 DEF Empty, Deque
<1>5. im - t = 0
  BY <1>1, <1>3, <1>4 DEF Holds
<1> QED BY <1>2, <1>5

\* A step keeps the parts.
LEMMA UnionFrame ==
  ASSUME IInv, UNCHANGED <<op, input, im>>
  PROVE  /\ X' = X /\ Y' = Y /\ BufferSize' = BufferSize /\ (yb' = yb => yc' = yc)
         /\ (yb' = yb + 1 => yc' = yc + 1)
<1>1. X' = X /\ Y' = Y /\ yc' = yb' - 1 - im /\ ye' = ye
  BY PartsStay
<1>2. BufferSize' = BufferSize
  BY <1>1 DEF BufferSize, Slack
<1>3. yb \in Nat /\ im \in Nat
  BY ReadFacts DEF IInv
<1> QED BY <1>1, <1>2, <1>3 DEF yc

LEMMA SeekDoneResult ==
  ASSUME IInv, PartsSorted, UnionInv, SeekDone
  PROVE  UnionInv'
<1>1. /\ UNCHANGED <<op, input, im, pairs, xb, yb, deque>> /\ op = "union" /\ pc = "seek"
      /\ yb > ye /\ it' = im /\ pc' = "done"
  BY DEF SeekDone
<1>2. X' = X /\ Y' = Y
  BY <1>1, UnionFrame
<1>3. /\ Inputs(Entry, X, Y) /\ Len(X) = im /\ Len(Y) = yn /\ im \in Nat /\ yn \in Nat
      /\ yc = yn /\ xb \in Nat /\ ye = im + yn
      /\ pairs \in Seq(Entry) /\ Len(pairs) = ye
  BY <1>1, UnionReads
<1>4. Seeking(X, Y, pairs, xb, Len(Y))
  BY <1>1, <1>3 DEF UnionInv
<1>5. Splits(X, Y, Len(Y), Len(X))
  <2>1. Len(Y) \in Nat /\ Len(Y) <= Len(Y)
    BY <1>3
  <2> QED BY <1>3, <1>4, <2>1, SeekingEnds
<1>6. Merged(X, Y, pairs, Len(X), Len(X), Rest(X, Y, Len(X), Len(Y), Len(X)))
  BY <1>3, <1>4, <1>5, MergedAtSeekDone DEF Seeking
<1>7. SubSeq(pairs, 1, im) = UnionLast(X, Y)
  <2>1. im \in 0..Len(pairs)
    BY <1>3
  <2> QED BY <1>3, <1>6, <2>1, UnionIs
<1> QED BY <1>1, <1>2, <1>7 DEF UnionInv

LEMMA SeekEndResult ==
  ASSUME IInv, PartsSorted, UnionInv, SeekEnd
  PROVE  UnionInv'
<1>1. /\ UNCHANGED <<op, input, im, pairs, xb, yb, deque>> /\ op = "union" /\ pc = "seek"
      /\ yb <= ye /\ xb > im /\ it' = im /\ pc' = "copy"
  BY DEF SeekEnd
<1>2. X' = X /\ Y' = Y /\ yc' = yc
  BY <1>1, UnionFrame
<1>3. /\ Inputs(Entry, X, Y) /\ Len(X) = im /\ Len(Y) = yn /\ im \in Nat /\ yn \in Nat
      /\ yc \in Nat /\ yc < yn /\ xb \in 1..(im + 1)
  BY <1>1, UnionReads
<1>4. xb \in Nat /\ xb = Len(X) + 1 /\ yc <= Len(Y)
  BY <1>1, <1>3
<1>5. Seeking(X, Y, pairs, xb, yc)
  BY <1>1 DEF UnionInv
<1>6. Splits(X, Y, yc, Len(X))
  BY <1>3, <1>4, <1>5, SeekingEnds
<1>7. Copying(X, Y, pairs, im, yc)
  BY <1>3, <1>5, <1>6, CopyingStarts DEF Seeking
<1> QED BY <1>1, <1>2, <1>7 DEF UnionInv

LEMMA SeekSkipResult ==
  ASSUME IInv, PartsSorted, UnionInv, SeekSkip
  PROVE  UnionInv'
<1>1. /\ UNCHANGED <<op, input, im, pairs, yb, it, deque, pc>> /\ op = "union" /\ pc = "seek"
      /\ yb <= ye /\ xb <= im /\ pairs[xb].first < pairs[yb].first /\ xb' = xb + 1
  BY DEF SeekSkip, Less
<1>2. X' = X /\ Y' = Y /\ yc' = yc
  BY <1>1, UnionFrame
<1>3. /\ Inputs(Entry, X, Y) /\ Len(X) = im /\ Len(Y) = yn
      /\ yc \in Nat /\ yc < yn /\ xb \in 1..im /\ X[xb].first < Y[yc + 1].first
  BY <1>1, UnionReads
<1>4. Seeking(X, Y, pairs, xb, yc)
  BY <1>1 DEF UnionInv
<1>5. Seeking(X, Y, pairs, xb + 1, yc)
  BY <1>3, <1>4, SeekingSkips
<1> QED BY <1>1, <1>2, <1>5 DEF UnionInv

LEMMA SeekReplaceResult ==
  ASSUME IInv, PartsSorted, UnionInv, SeekReplace
  PROVE  UnionInv'
<1>1. /\ UNCHANGED <<op, input, im, xb, it, deque, pc>> /\ op = "union" /\ pc = "seek"
      /\ yb <= ye /\ xb <= im /\ pairs[xb].first = pairs[yb].first
      /\ pairs' = [pairs EXCEPT ![xb] = pairs[yb]] /\ yb' = yb + 1
  BY DEF SeekReplace, Same
<1>2. X' = X /\ Y' = Y /\ yc' = yc + 1
  BY <1>1, UnionFrame
<1>3. /\ Inputs(Entry, X, Y) /\ Len(X) = im /\ Len(Y) = yn /\ im \in Nat /\ yn \in Nat
      /\ yc \in Nat /\ yc < yn /\ xb \in 1..im /\ X[xb].first = Y[yc + 1].first
      /\ pairs[yb] = Y[yc + 1] /\ DOMAIN pairs = 1..ye /\ ye = im + yn
  BY <1>1, UnionReads
<1>4. Seeking(X, Y, pairs, xb, yc)
  BY <1>1 DEF UnionInv
<1>5. (\A i \in 1..Len(X) : i # xb => pairs'[i] = pairs[i]) /\ pairs'[xb] = Y[yc + 1]
  <2>1. xb \in DOMAIN pairs /\ \A i \in 1..Len(X) : i \in DOMAIN pairs
    BY <1>3
  <2> QED BY <1>1, <1>3, <2>1
<1>6. Seeking(X, Y, pairs', xb, yc + 1)
  BY <1>3, <1>4, <1>5, SeekingReplaces
<1> QED BY <1>1, <1>2, <1>6 DEF UnionInv

LEMMA SeekInsertResult ==
  ASSUME IInv, PartsSorted, UnionInv, SeekInsert
  PROVE  UnionInv'
<1>1. /\ UNCHANGED <<op, input, im>> /\ op = "union" /\ pc = "seek"
      /\ yb <= ye /\ xb <= im /\ pairs[yb].first < pairs[xb].first
      /\ deque' = PushBack(deque, pairs[xb]) /\ it' = xb
      /\ pairs' = [pairs EXCEPT ![xb] = pairs[yb]]
      /\ xb' = xb + 1 /\ yb' = yb + 1 /\ pc' = "insert"
  BY DEF SeekInsert, Less
<1>2. X' = X /\ Y' = Y /\ yc' = yc + 1 /\ BufferSize' = BufferSize
  BY <1>1, UnionFrame
<1>3. /\ Inputs(Entry, X, Y) /\ Len(X) = im /\ Len(Y) = yn /\ im \in Nat /\ yn \in Nat
      /\ yc \in Nat /\ yc < yn /\ xb \in 1..im /\ pairs[xb].first = X[xb].first
      /\ pairs[yb] = Y[yc + 1] /\ DOMAIN pairs = 1..ye /\ ye = im + yn
  BY <1>1, UnionReads
<1>4. Seeking(X, Y, pairs, xb, yc)
  BY <1>1 DEF UnionInv
<1>5. Splits(X, Y, yc, xb - 1) /\ pairs[xb] = X[xb]
  <2>1. /\ Inputs(Entry, X, Y) /\ xb \in 1..Len(X) /\ yc \in Nat /\ yc < Len(Y)
        /\ pairs[xb].first = X[xb].first /\ Y[yc + 1].first < pairs[xb].first
    BY <1>1, <1>3
  <2> QED BY <1>4, <2>1, SeekingMisses
<1>6. (\A i \in 1..(xb - 1) : pairs'[i] = pairs[i]) /\ pairs'[xb] = Y[yc + 1]
  <2>1. xb \in DOMAIN pairs /\ \A i \in 1..(xb - 1) : i \in DOMAIN pairs /\ i # xb
    BY <1>3
  <2> QED BY <1>1, <1>3, <2>1
<1>7. \A i \in 1..(xb - 1) : Replaced(X, Y, i, yc, pairs[i])
  <2>1. \A i \in 1..(xb - 1) : i \in 1..Len(X)
    BY <1>3
  <2> QED BY <1>4, <2>1 DEF Seeking
<1>8. Merging(X, Y, pairs', xb, yc + 1, xb - 1, xb - 1)
  BY <1>3, <1>5, <1>6, <1>7, MergingStarts
<1>9. Holds(BufferSize, deque', X, xb - 1, xb)
  <2> DEFINE a == xb - 1
  <2>1. TypeOK /\ deque \in Deque /\ Size(deque) = 0 /\ a \in Nat /\ a + 1 = xb
    BY <1>1, <1>3, SMTT(30) DEF IInv, TypeOK, Cursors
  <2>2. BufferSize = ye - im + 4 /\ BufferSize \in Nat
    <3>1. BufferSize = ye - im + 4
      BY <2>1, ReadFacts
    <3> QED BY <1>3, <3>1
  <2> HIDE DEF a
  <2>3. Holds(BufferSize, deque, X, a, a)
    <3>1. (IF deque.ib <= deque.ie THEN deque.ie - deque.ib ELSE deque.ie + BufferSize - deque.ib) = a - a
      BY <2>1 DEF Size
    <3>2. \A k \in 0..(a - a - 1) : FALSE
      BY <2>1
    <3> QED BY <3>1, <3>2 DEF Holds
  <2>4. /\ deque.buf \in [0..(BufferSize - 1) -> Entry] /\ deque.ib \in 0..(BufferSize - 1)
        /\ deque.ie \in 0..(BufferSize - 1)
    BY <2>1 DEF Deque
  <2>5. /\ deque'.buf = [deque.buf EXCEPT ![deque.ie] = X[a + 1]] /\ deque'.ib = deque.ib
        /\ deque'.ie = IF deque.ie + 1 = BufferSize THEN 0 ELSE deque.ie + 1
    BY <1>1, <1>5, <2>1 DEF PushBack, After
  <2>6. a - a < BufferSize - 1
    BY <1>3, <2>1, <2>2
  <2>7. Holds(BufferSize, deque', X, a, a + 1)
    BY <2>1, <2>2, <2>3, <2>4, <2>5, <2>6, HoldsPush
  <2> QED BY <2>1, <2>7 DEF a
<1>10. xb' - 1 = xb
  BY <1>1, <1>3
<1>11. Queued'
  BY <1>1, <1>2, <1>8, <1>9, <1>10 DEF Queued
<1> QED BY <1>1, <1>11 DEF UnionInv

LEMMA CopyLastResult ==
  ASSUME IInv, PartsSorted, UnionInv, CopyLast
  PROVE  UnionInv'
<1>1. /\ UNCHANGED <<op, input, im, xb, deque>> /\ pc = "copy" /\ yb <= ye /\ yb' = yb + 1
      /\ pc' = IF yb = ye THEN "done" ELSE "copy"
      /\ \/ /\ yb < ye /\ pairs[yb].first = pairs[yb + 1].first
            /\ UNCHANGED <<pairs, it>>
         \/ /\ ~(yb < ye /\ pairs[yb].first = pairs[yb + 1].first)
            /\ it' = it + 1 /\ pairs' = [pairs EXCEPT ![it + 1] = pairs[yb]]
  BY DEF CopyLast, Same
<1>2. X' = X /\ Y' = Y /\ yc' = yc + 1
  BY <1>1, UnionFrame
<1>3. /\ Inputs(Entry, X, Y) /\ Len(X) = im /\ Len(Y) = yn /\ im \in Nat /\ yn \in Nat
      /\ yc \in Nat /\ yc < yn /\ pairs[yb] = Y[yc + 1] /\ yb = im + yc + 1
      /\ (yb < ye => yc + 1 < yn /\ pairs[yb + 1] = Y[yc + 2])
      /\ (yb = ye => yc + 1 = yn)
      /\ DOMAIN pairs = 1..ye /\ ye = im + yn
  BY <1>1, UnionReads
<1>4. op = "union" /\ Copying(X, Y, pairs, it, yc) /\ it \in Nat /\ it + 1 \in 1..ye
  <2>1. op = "union" /\ Copying(X, Y, pairs, it, yc)
    BY <1>1 DEF UnionInv
  <2>2. im <= it /\ it < yb
    BY <1>1 DEF IInv, Cursors
  <2>3. it \in Nat
    BY ReadFacts DEF IInv
  <2> QED BY <1>1, <1>3, <2>1, <2>2, <2>3, SMTT(30)
<1>5. Copying(X, Y, pairs', it', yc + 1)
  <2>1. CASE yb < ye /\ pairs[yb].first = pairs[yb + 1].first
    <3>1. yc + 1 < Len(Y) /\ Y[yc + 1].first = Y[yc + 2].first
      BY <1>3, <2>1
    <3>2. pairs' = pairs /\ it' = it
      BY <1>1, <2>1
    <3> QED BY <1>3, <1>4, <3>1, <3>2, CopyingSkips
  <2>2. CASE ~(yb < ye /\ pairs[yb].first = pairs[yb + 1].first)
    <3>1. yc + 1 = Len(Y) \/ Y[yc + 1].first # Y[yc + 2].first
      <4>1. yb = ye \/ yb < ye
        BY <1>1, <1>3
      <4> QED BY <1>3, <2>2, <4>1
    <3>2. it' = it + 1 /\ pairs' = [pairs EXCEPT ![it + 1] = Y[yc + 1]]
      BY <1>1, <1>3, <2>2
    <3>3. \A i \in 1..it : i \in DOMAIN pairs /\ i # it + 1
      BY <1>3, <1>4
    <3>4. (\A i \in 1..it : pairs'[i] = pairs[i]) /\ pairs'[it + 1] = Y[yc + 1]
      BY <1>3, <1>4, <3>2, <3>3
    <3>5. yc < Len(Y)
      BY <1>3
    <3> QED BY <1>3, <1>4, <3>1, <3>2, <3>4, <3>5, CopyingCopies
  <2> QED BY <2>1, <2>2
<1>6. CASE yb = ye
  <2>1. Copying(X, Y, pairs', it', Len(Y))
    BY <1>3, <1>5, <1>6
  <2>2. Merged(X, Y, pairs', it', Len(X), Rest(X, Y, Len(X), Len(Y), Len(X)))
    BY <1>3, <2>1, MergedAtCopyDone
  <2>3. pairs' \in Seq(Entry) /\ it' \in 0..Len(pairs')
    <3>1. TypeOK' /\ ye' = ye
      BY <1>1, CopyLastKeeps, PartsStay DEF IInv
    <3>2. pairs' \in Seq(Entry) /\ Len(pairs') = ye
      BY <3>1 DEF TypeOK, Entry
    <3>3. it' \in {it, it + 1}
      BY <1>1
    <3> QED BY <1>3, <1>4, <3>2, <3>3
  <2>4. SubSeq(pairs', 1, it') = UnionLast(X, Y)
    BY <1>3, <2>2, <2>3, UnionIs
  <2> QED BY <1>1, <1>2, <1>4, <1>6, <2>4 DEF UnionInv
<1>7. CASE yb # ye
  BY <1>1, <1>2, <1>4, <1>5, <1>7 DEF UnionInv
<1> QED BY <1>6, <1>7

\* The place that the deque loops wrote last.
LEMMA LoopFacts ==
  ASSUME IInv, PartsSorted, pc \in {"insert", "drain"}
  PROVE  op = "union" /\ it \in Nat /\ ye \in Nat /\ it \in 1..ye /\ pairs[it] \in Entry
<1>1. TypeOK /\ op = "union" /\ 1 <= it
  BY DEF IInv, Cursors
<1>2. /\ Size(deque) \in Nat /\ xb \in 1..(im + 1) /\ yb \in (im + 1)..(ye + 1)
      /\ it + Size(deque) <= xb - 1 + (yb - 1 - im)
  BY <1>1, PopFacts DEF IInv, TypeOK, Cursors
<1>3. it \in Nat /\ it <= ye
  BY <1>1, <1>2, ReadFacts
<1>4. it \in 1..ye /\ ye \in Nat
  BY <1>1, <1>3, ReadFacts
<1> QED BY <1>1, <1>3, <1>4, ReadFacts

LEMMA InsertOverwriteResult ==
  ASSUME IInv, PartsSorted, UnionInv, InsertOverwrite
  PROVE  UnionInv'
<1>1. /\ UNCHANGED <<op, input, im, xb, it, deque, pc>> /\ pc = "insert" /\ yb <= ye
      /\ pairs[it].first = pairs[yb].first
      /\ pairs' = [pairs EXCEPT ![it] = pairs[yb]] /\ yb' = yb + 1
  BY DEF InsertOverwrite, Same
<1>2. X' = X /\ Y' = Y /\ yc' = yc + 1 /\ BufferSize' = BufferSize
  BY <1>1, UnionFrame
<1>3. /\ Inputs(Entry, X, Y) /\ Len(X) = im /\ Len(Y) = yn
      /\ yc \in Nat /\ yc < yn /\ pairs[yb] = Y[yc + 1] /\ DOMAIN pairs = 1..ye
  BY <1>1, UnionReads
<1>4. op = "union" /\ it \in Nat /\ ye \in Nat /\ it \in 1..ye /\ pairs[it] \in Entry
  BY <1>1, LoopFacts
<1>5. PICK h, t : Merging(X, Y, pairs, it, yc, h, t) /\ Holds(BufferSize, deque, X, t, xb - 1)
  BY <1>1, <1>4 DEF UnionInv, Queued
<1>6. (\A i \in 1..(it - 1) : pairs'[i] = pairs[i]) /\ pairs'[it] = Y[yc + 1]
  <2>1. \A i \in 1..(it - 1) : i \in 1..ye /\ i # it
    BY <1>4
  <2> QED BY <1>1, <1>3, <1>4, <2>1
<1>7. pairs[it].first = Y[yc + 1].first /\ yc < Len(Y)
  BY <1>1, <1>3
<1>8. Merging(X, Y, pairs', it, yc + 1, h, t)
  BY <1>3, <1>4, <1>5, <1>6, <1>7, MergingOverwrites
<1>9. Queued'
  BY <1>1, <1>2, <1>5, <1>8 DEF Queued
<1> QED BY <1>1, <1>9 DEF UnionInv

\* TakeQueued and Drain.
LEMMA TakesResult ==
  ASSUME IInv, PartsSorted, UnionInv, TakeQueued \/ Drain
  PROVE  UnionInv'
<1>1. /\ UNCHANGED <<op, input, im, yb, pc>> /\ pc \in {"insert", "drain"}
      /\ it' = it + 1 /\ xb' = NextX /\ deque' = PopFront(Saved) /\ ~Empty(Saved)
      /\ pairs' = [pairs EXCEPT ![it + 1] = Front(Saved)]
      /\ pc = "insert" => /\ yb <= ye /\ pairs[it].first # pairs[yb].first
                          /\ Front(Saved).first < pairs[yb].first
  BY DEF TakeQueued, Drain, QueuedFirst, Less, Same
<1>2. X' = X /\ Y' = Y /\ yc' = yc /\ BufferSize' = BufferSize
  BY <1>1, UnionFrame
<1>3. /\ Inputs(Entry, X, Y) /\ Len(X) = im /\ Len(Y) = yn /\ yc \in Nat /\ yc <= Len(Y)
      /\ (yb <= ye => pairs[yb] = Y[yc + 1]) /\ (yb > ye => yc = yn)
      /\ DOMAIN pairs = 1..ye
  BY UnionReads
<1>4. op = "union" /\ it \in Nat /\ ye \in Nat /\ it \in 1..ye
  BY <1>1, LoopFacts
<1>5. PICK h, t : Merging(X, Y, pairs, it, yc, h, t) /\ Holds(BufferSize, deque, X, t, xb - 1)
  BY <1>1, <1>4 DEF UnionInv, Queued
<1>6. t \in Nat
  <2>1. im \in Nat
    BY UnionReads
  <2> QED BY <1>3, <1>5, <2>1 DEF Merging
<1>7. /\ Front(Saved) = X[t + 1] /\ t < Len(X)
      /\ Holds(BufferSize, deque', X, t + 1, xb' - 1)
  BY <1>1, <1>3, <1>5, <1>6, FrontHolds
<1>8. yc < Len(Y) => X[t + 1].first < Y[yc + 1].first /\ pairs[it].first # Y[yc + 1].first
  <2> SUFFICES ASSUME yc < Len(Y)
               PROVE  X[t + 1].first < Y[yc + 1].first /\ pairs[it].first # Y[yc + 1].first
    OBVIOUS
  <2>1. yb <= ye /\ pc # "drain"
    <3>1. yb = im + yc + 1 /\ ye = im + yn /\ im \in Nat /\ yn \in Nat /\ yc \in Nat
      BY UnionReads
    <3>2. yb <= ye
      BY <1>3, <3>1
    <3>3. pc = "drain" => yb = ye + 1
      BY DEF IInv, Cursors
    <3> QED BY <3>1, <3>2, <3>3
  <2> QED BY <1>1, <1>3, <1>7, <2>1
<1>9. it + 1 \in 1..ye
  <2>1. TypeOK /\ Size(Saved) \in Nat /\ (Empty(Saved) <=> Size(Saved) = 0)
        /\ (xb <= im => Size(Saved) = Size(deque) + 1) /\ (xb > im => Saved = deque)
    BY <1>1, SavedFacts, PopFacts DEF IInv
  <2>2. /\ Size(deque) \in Nat /\ xb \in 1..(im + 1) /\ yb \in (im + 1)..(ye + 1)
        /\ it + Size(deque) <= xb - 1 + (yb - 1 - im)
    BY <1>1, <2>1, PopFacts DEF IInv, TypeOK, Cursors
  <2>3. ye \in Nat /\ im \in Nat /\ im <= ye
    BY <2>1, ReadFacts
  <2>4. CASE xb <= im
    BY <1>4, <2>2, <2>3, <2>4
  <2>5. CASE xb > im
    <3>1. Size(deque) >= 1
      BY <1>1, <2>1, <2>5
    <3> QED BY <1>4, <2>2, <2>3, <3>1
  <2> QED BY <2>2, <2>3, <2>4, <2>5
<1>10. (\A i \in 1..it : pairs'[i] = pairs[i]) /\ pairs'[it + 1] = X[t + 1]
  <2>1. \A i \in 1..it : i \in 1..ye /\ i # it + 1
    BY <1>4, <1>9
  <2> QED BY <1>1, <1>3, <1>7, <1>9, <2>1
<1>11. Merging(X, Y, pairs', it + 1, yc, h, t + 1)
  BY <1>3, <1>4, <1>5, <1>7, <1>8, <1>10, MergingTakes
<1>12. Queued'
  BY <1>1, <1>2, <1>7, <1>11 DEF Queued
<1> QED BY <1>1, <1>12 DEF UnionInv

LEMMA TakeNewResult ==
  ASSUME IInv, PartsSorted, UnionInv, TakeNew
  PROVE  UnionInv'
<1>1. /\ UNCHANGED <<op, input, im, pc>> /\ pc = "insert" /\ yb <= ye
      /\ pairs[it].first # pairs[yb].first
      /\ Empty(Saved) \/ ~(Front(Saved).first < pairs[yb].first)
      /\ it' = it + 1 /\ xb' = NextX /\ yb' = yb + 1 /\ deque' = Saved
      /\ pairs' = [pairs EXCEPT ![it + 1] = pairs[yb]]
  BY DEF TakeNew, QueuedFirst, Less, Same
<1>2. X' = X /\ Y' = Y /\ yc' = yc + 1 /\ BufferSize' = BufferSize
  BY <1>1, UnionFrame
<1>3. /\ Inputs(Entry, X, Y) /\ Len(X) = im /\ Len(Y) = yn /\ yc \in Nat /\ yc < Len(Y)
      /\ pairs[yb] = Y[yc + 1] /\ DOMAIN pairs = 1..ye
  BY <1>1, UnionReads
<1>4. op = "union" /\ it \in Nat /\ ye \in Nat /\ it \in 1..ye
  BY <1>1, LoopFacts
<1>5. PICK h, t : Merging(X, Y, pairs, it, yc, h, t) /\ Holds(BufferSize, deque, X, t, xb - 1)
  BY <1>1, <1>4 DEF UnionInv, Queued
<1>6. t \in Nat /\ im \in Nat
  <2>1. im \in Nat
    BY UnionReads
  <2> QED BY <1>3, <1>5, <2>1 DEF Merging
<1>7. t < Len(X) => ~(X[t + 1].first < Y[yc + 1].first)
  <2> SUFFICES ASSUME t < Len(X) PROVE ~(X[t + 1].first < Y[yc + 1].first)
    OBVIOUS
  <2>1. ~Empty(Saved)
    <3>1. t # im
      BY <1>3, <1>6
    <3> QED BY <1>1, <1>5, <1>6, <3>1, EmptyHolds
  <2>2. Front(Saved) = X[t + 1]
    BY <1>1, <1>5, <1>6, <2>1, FrontHolds
  <2> QED BY <1>1, <1>3, <2>1, <2>2
<1>8. Holds(BufferSize, deque', X, t, xb' - 1)
  BY <1>1, <1>5, <1>6, SavedHolds
<1>9. it + 1 \in 1..ye
  <2>1. TypeOK
    BY DEF IInv
  <2>2. /\ Size(deque) \in Nat /\ xb \in 1..(im + 1) /\ yb \in (im + 1)..(ye + 1)
        /\ it + Size(deque) <= xb - 1 + (yb - 1 - im)
    BY <1>1, <2>1, PopFacts DEF IInv, TypeOK, Cursors
  <2>3. ye \in Nat /\ im \in Nat /\ im <= ye
    BY <2>1, ReadFacts
  <2> QED BY <1>1, <1>4, <2>2, <2>3
<1>10. (\A i \in 1..it : pairs'[i] = pairs[i]) /\ pairs'[it + 1] = Y[yc + 1]
  <2>1. \A i \in 1..it : i \in 1..ye /\ i # it + 1
    BY <1>4, <1>9
  <2> QED BY <1>1, <1>3, <1>9, <2>1
<1>11. pairs[it].first # Y[yc + 1].first
  BY <1>1, <1>3
<1>12. Merging(X, Y, pairs', it + 1, yc + 1, h, t)
  BY <1>3, <1>4, <1>5, <1>7, <1>10, <1>11, MergingAdds
<1>13. Queued'
  BY <1>1, <1>2, <1>8, <1>12 DEF Queued
<1> QED BY <1>1, <1>13 DEF UnionInv

LEMMA InsertDoneResult ==
  ASSUME IInv, PartsSorted, UnionInv, InsertDone
  PROVE  UnionInv'
<1>1. UNCHANGED <<op, input, im, pairs, xb, yb, it, deque>> /\ pc = "insert" /\ pc' = "drain"
  BY DEF InsertDone
<1>2. X' = X /\ Y' = Y /\ yc' = yc /\ BufferSize' = BufferSize
  BY <1>1, UnionFrame
<1>3. op = "union"
  BY <1>1, LoopFacts
<1>4. Queued
  BY <1>1, <1>3 DEF UnionInv
<1>5. Queued'
  BY <1>1, <1>2, <1>4 DEF Queued
<1> QED BY <1>1, <1>5 DEF UnionInv

LEMMA DrainDoneResult ==
  ASSUME IInv, PartsSorted, UnionInv, DrainDone
  PROVE  UnionInv'
<1>1. /\ UNCHANGED <<op, input, im, pairs, yb, it>> /\ pc = "drain" /\ pc' = "done"
      /\ Empty(Saved)
  BY DEF DrainDone
<1>2. X' = X /\ Y' = Y
  BY <1>1, UnionFrame
<1>3. /\ Inputs(Entry, X, Y) /\ Len(X) = im /\ Len(Y) = yn /\ im \in Nat
      /\ pairs \in Seq(Entry) /\ Len(pairs) = ye /\ (yb > ye => yc = yn)
  BY UnionReads
<1>4. op = "union" /\ it \in Nat /\ ye \in Nat /\ it \in 1..ye
  BY <1>1, LoopFacts
<1>5. PICK h, t : Merging(X, Y, pairs, it, yc, h, t) /\ Holds(BufferSize, deque, X, t, xb - 1)
  BY <1>1, <1>4 DEF UnionInv, Queued
<1>6. t \in Nat
  BY <1>3, <1>5 DEF Merging
<1>7. t = im
  BY <1>1, <1>5, <1>6, EmptyHolds
<1>8. yc = yn
  <2>1. yb = ye + 1 /\ ye \in Nat
    BY <1>1, ReadFacts DEF IInv, Cursors
  <2> QED BY <1>3, <2>1
<1>9. Merged(X, Y, pairs, it, h, Rest(X, Y, h, Len(Y), Len(X)))
  BY <1>3, <1>5, <1>7, <1>8 DEF Merging
<1>10. SubSeq(pairs, 1, it) = UnionLast(X, Y)
  <2>1. it \in 0..Len(pairs)
    BY <1>3, <1>4
  <2> QED BY <1>3, <1>9, <2>1, UnionIs
<1> QED BY <1>1, <1>2, <1>10 DEF UnionInv

LEMMA InitUnion == Init => UnionInv
<1> SUFFICES ASSUME Init PROVE UnionInv
  OBVIOUS
<1>1. IInv /\ PartsSorted
  BY InitIInv, InitSorted
<1>2. xb = 1 /\ pairs = input /\ yc = 0 /\ pc \in {"seek", "done"}
      /\ (op = "union" => pc = "seek")
  <2>1. PICK n \in 0..MaxX, m \in 0..MaxY : \E x \in Increasing(n), y \in Increasing(m) :
          /\ input = [i \in 1..(n + m) |->
                        [first |-> IF i <= n THEN x[i] ELSE y[i - n], second |-> i]]
          /\ im = n /\ pairs = input /\ xb = 1 /\ yb = n + 1
          /\ it = IF op = "union" THEN 0 ELSE n + 1
          /\ pc = IF op = "difference" /\ (n = 0 \/ m = 0) THEN "done" ELSE "seek"
    BY AtTheCall
  <2>2. im = n /\ pairs = input /\ xb = 1 /\ yb = n + 1
        /\ pc = IF op = "difference" /\ (n = 0 \/ m = 0) THEN "done" ELSE "seek"
    BY <2>1
  <2>3. n \in Nat
    BY BoundsAssumption
  <2> QED BY <2>2, <2>3 DEF yc
<1>3. Len(X) = im /\ \A i \in 1..im : X[i] = input[i]
  BY <1>1, PartsFacts DEF IInv
<1>4. \A i \in 1..Len(X) : Replaced(X, Y, i, 0, pairs[i])
  <2> TAKE i \in 1..Len(X)
  <2>1. ~Matched(X, Y, i, 0)
    BY DEF Matched
  <2> QED BY <1>2, <1>3, <2>1 DEF Replaced
<1>5. Seeking(X, Y, pairs, 1, 0)
  <2>1. (\A i \in 1..(1 - 1) : FALSE) /\ (\A j \in 1..0 : FALSE)
    OBVIOUS
  <2> QED BY <1>4, <2>1 DEF Seeking
<1> QED BY <1>2, <1>5 DEF UnionInv, Init

-----------------------------------------------------------------------------
(* Both algorithms.                                                        *)

\* What was read and written is as it should be, and where the cursors are.
RInv == IInv /\ PartsSorted /\ DiffInv /\ UnionInv

UnionSteps == \/ SeekDone \/ SeekEnd \/ SeekSkip \/ SeekReplace \/ SeekInsert \/ CopyLast
              \/ InsertOverwrite \/ TakeQueued \/ TakeNew \/ InsertDone \/ Drain \/ DrainDone

DiffSteps == \/ DiffSkip \/ DiffMiss \/ DiffMatch
             \/ ShiftKeep \/ ShiftMiss \/ ShiftMatch \/ CopyRest

LEMMA UnionStepsKeep ==
  ASSUME RInv, UnionSteps
  PROVE  DiffInv' /\ UnionInv' /\ PartsSorted'
<1>1. IInv /\ PartsSorted /\ UnionInv
  BY DEF RInv
<1>2. UNCHANGED <<op, input, im>>
  BY DEF UnionSteps, SeekDone, SeekEnd, SeekSkip, SeekReplace, SeekInsert, CopyLast,
         InsertOverwrite, TakeQueued, TakeNew, InsertDone, Drain, DrainDone
<1>3. op = "union"
  <2>1. pc \in {"insert", "drain"} => op = "union"
    BY <1>1 DEF IInv, Cursors
  <2>2. pc = "copy" => op = "union"
    BY <1>1 DEF UnionInv
  <2> QED BY <2>1, <2>2 DEF UnionSteps, SeekDone, SeekEnd, SeekSkip, SeekReplace, SeekInsert,
        CopyLast, InsertOverwrite, TakeQueued, TakeNew, InsertDone, Drain, DrainDone
<1>4. DiffInv'
  BY <1>2, <1>3 DEF DiffInv
<1>5. PartsSorted'
  BY <1>1, <1>2, PartsStay
<1>6. UnionInv'
  BY <1>1, SeekDoneResult, SeekEndResult, SeekSkipResult, SeekReplaceResult, SeekInsertResult,
     CopyLastResult, InsertOverwriteResult, TakesResult, TakeNewResult, InsertDoneResult,
     DrainDoneResult DEF UnionSteps
<1> QED BY <1>4, <1>5, <1>6

LEMMA DiffStepsKeep ==
  ASSUME RInv, DiffSteps
  PROVE  DiffInv' /\ UnionInv' /\ PartsSorted'
<1>1. IInv /\ PartsSorted /\ DiffInv
  BY DEF RInv
<1>2. UNCHANGED <<op, input, im>> /\ pc' \in {"seek", "shift", "done"}
  <2>1. UNCHANGED <<op, input, im>>
    BY DEF DiffSteps, DiffSkip, DiffMiss, DiffMatch, ShiftKeep, ShiftMiss, ShiftMatch, CopyRest
  <2>2. pc' \in {"seek", "shift", "done"}
    BY DEF DiffSteps, DiffSkip, DiffMiss, DiffMatch, ShiftKeep, ShiftMiss, ShiftMatch, CopyRest
  <2> QED BY <2>1, <2>2
<1>3. op = "difference"
  <2>1. pc = "shift" => op = "difference"
    BY <1>1 DEF IInv, Cursors
  <2> QED BY <2>1 DEF DiffSteps, DiffSkip, DiffMiss, DiffMatch, ShiftKeep, ShiftMiss, ShiftMatch,
        CopyRest
<1>4. UnionInv'
  BY <1>2, <1>3 DEF UnionInv
<1>5. PartsSorted'
  BY <1>1, <1>2, PartsStay
<1>6. DiffInv'
  BY <1>1, DiffSkipResult, DiffMissResult, MatchResult, ShiftKeepResult, ShiftMissResult,
     CopyRestResult DEF DiffSteps
<1> QED BY <1>4, <1>5, <1>6

LEMMA InitRInv == Init => RInv
  BY InitIInv, InitSorted, InitDiff, InitUnion DEF RInv

LEMMA NextKeepsRInv == RInv /\ [Next]_vars => RInv'
<1> SUFFICES ASSUME RInv, [Next]_vars PROVE RInv'
  OBVIOUS
<1>1. IInv'
  BY NextKeepsIInv DEF RInv
<1>2. CASE UNCHANGED vars
  <2>1. UNCHANGED <<op, input, im, pairs, xb, yb, it, deque, pc>>
    BY <1>2 DEF vars
  <2>2. /\ X' = X /\ Y' = Y /\ yc' = yc /\ BufferSize' = BufferSize
        /\ (PartsSorted => PartsSorted')
    BY <2>1, UnionFrame, PartsStay DEF RInv
  <2>3. DiffInv'
    BY <2>1, <2>2 DEF RInv, DiffInv
  <2>4. UnionInv'
    BY <2>1, <2>2 DEF RInv, UnionInv, Queued
  <2> QED BY <1>1, <2>2, <2>3, <2>4 DEF RInv
<1>3. CASE Next
  <2>1. UnionSteps \/ DiffSteps
    BY <1>3 DEF Next, UnionSteps, DiffSteps
  <2> QED BY <1>1, <2>1, UnionStepsKeep, DiffStepsKeep DEF RInv
<1> QED BY <1>2, <1>3

LEMMA RInvResult == RInv => ResultIsRight
<1> SUFFICES ASSUME RInv, pc = "done"
             PROVE  IF op = "union" THEN SubSeq(pairs, 1, it) = UnionLast(X, Y)
                    ELSE SubSeq(pairs, 1, it - 1) = SetDifference(X, Y)
  BY DEF ResultIsRight
<1>1. op = "union" => SubSeq(pairs, 1, it) = UnionLast(X, Y)
  BY DEF RInv, UnionInv
<1>2. op \in {"union", "difference"}
  BY DEF RInv, IInv, TypeOK
<1>3. op = "difference" => SubSeq(pairs, 1, it - 1) = SetDifference(X, Y)
  BY DiffResult DEF RInv
<1> QED BY <1>1, <1>2, <1>3

\* When a call returns, the front of the array is UnionLast of the two parts, or
\* their SetDifference, as the functions define them: for every set of keys and
\* sorted parts of every length, with repeated keys in either part.
THEOREM ResultCorrect == Spec => []ResultIsRight
<1> QED BY InitRInv, NextKeepsRInv, RInvResult, PTL DEF Spec
====
