---------------------------- MODULE InplaceSets ----------------------------
(***************************************************************************)
(* set_union_last_inplace and set_difference_inplace                       *)
(* (louvain/_algorithm.hxx) as updateAdd and updateRemove of the           *)
(* LazyBitset call them: the sorted entries `x` and the sorted additions   *)
(* or removals `y` are the two parts of one array, and the result is       *)
(* written over them from the left.  In the union, entries of `x` that are *)
(* in the way wait in a circular deque over a buffer of |y|+4 places.  One *)
(* step is one turn of a loop.                                             *)
(***************************************************************************)
EXTENDS SortedPairs

CONSTANTS Key,        \* the keys
          MaxX, MaxY  \* bounds on the lengths of the two parts

ASSUME BoundsAssumption == Key \subseteq Nat /\ MaxX \in Nat /\ MaxY \in Nat

VARIABLES op,      \* "union" or "difference"
          input,   \* the array at the call (not changed by the program)
          im,      \* length of the first part: x is 1..im, y is im+1..Len(input)
          pairs,   \* the array
          xb, yb,  \* next entry of x and of y to read
          it,      \* union: the last place written; difference: the next
          deque,   \* buffer of entries of x with front ib and rear ie
          pc

vars == <<op, input, im, pairs, xb, yb, it, deque, pc>>

Entry == [first : Key \cup {0}, second : Nat]
junk == [first |-> 0, second |-> 0]

ye == Len(input)

\* The places updateAdd asks for beyond the number of additions.
Slack_BUG == 1
Slack == 4

BufferSize == ye - im + Slack

Deque == [buf : [0..(BufferSize - 1) -> Entry],
          ib : 0..(BufferSize - 1), ie : 0..(BufferSize - 1)]

Increasing(n) == { s \in [1..n -> Key] : \A i \in 1..(n - 1) : s[i] <= s[i + 1] }

-----------------------------------------------------------------------------
(* UnsizedDequeView: no size, no check; full looks like empty. *)

Empty(d) == d.ib = d.ie

After(i) == IF i + 1 = BufferSize THEN 0 ELSE i + 1

PushBack(d, e) ==
  [buf |-> [d.buf EXCEPT ![d.ie] = e], ib |-> d.ib, ie |-> After(d.ie)]

Front(d) == d.buf[d.ib]

PopFront(d) == [buf |-> d.buf, ib |-> After(d.ib), ie |-> d.ie]

\* What the deque holds, from front to rear.
Size(d) == IF d.ib <= d.ie THEN d.ie - d.ib ELSE d.ie + BufferSize - d.ib
Contents(d) ==
  [n \in 1..Size(d) |-> d.buf[(d.ib + n - 1) % BufferSize]]

-----------------------------------------------------------------------------
Init ==
  /\ op \in {"union", "difference"}
  /\ \E n \in 0..MaxX, m \in 0..MaxY : \E x \in Increasing(n), y \in Increasing(m) :
       /\ input = [i \in 1..(n + m) |->
                     [first |-> IF i <= n THEN x[i] ELSE y[i - n], second |-> i]]
       /\ im = n
       /\ pairs = input
       /\ xb = 1
       /\ yb = n + 1
       /\ it = IF op = "union" THEN 0 ELSE n + 1
       /\ deque = [buf |-> [i \in 0..(BufferSize - 1) |-> junk], ib |-> 0, ie |-> 0]
       /\ pc = IF op = "difference" /\ (n = 0 \/ m = 0) THEN "done" ELSE "seek"

Less(a, b) == a.first < b.first
Same(a, b) == a.first = b.first

\* Nothing of y is left: the end of x is the end of the union.
SeekDone ==
  /\ op = "union" /\ pc = "seek" /\ yb > ye
  /\ it' = im
  /\ pc' = "done"
  /\ UNCHANGED <<op, input, im, pairs, xb, yb, deque>>

\* Nothing of x is left: what remains of y is copied behind it.
SeekEnd ==
  /\ op = "union" /\ pc = "seek" /\ yb <= ye /\ xb > im
  /\ it' = im
  /\ pc' = "copy"
  /\ UNCHANGED <<op, input, im, pairs, xb, yb, deque>>

SeekSkip ==
  /\ op = "union" /\ pc = "seek" /\ yb <= ye /\ xb <= im
  /\ Less(pairs[xb], pairs[yb])
  /\ xb' = xb + 1
  /\ UNCHANGED <<op, input, im, pairs, yb, it, deque, pc>>

SeekReplace ==
  /\ op = "union" /\ pc = "seek" /\ yb <= ye /\ xb <= im
  /\ Same(pairs[xb], pairs[yb])
  /\ pairs' = [pairs EXCEPT ![xb] = pairs[yb]]
  /\ yb' = yb + 1
  /\ UNCHANGED <<op, input, im, xb, it, deque, pc>>

\* The first insertion: the entry of x moves to the deque.
SeekInsert ==
  /\ op = "union" /\ pc = "seek" /\ yb <= ye /\ xb <= im
  /\ Less(pairs[yb], pairs[xb])
  /\ deque' = PushBack(deque, pairs[xb])
  /\ it' = xb
  /\ pairs' = [pairs EXCEPT ![xb] = pairs[yb]]
  /\ xb' = xb + 1
  /\ yb' = yb + 1
  /\ pc' = "insert"
  /\ UNCHANGED <<op, input, im>>

\* unique_last_copy of y, one entry a step.
CopyLast ==
  /\ pc = "copy" /\ yb <= ye
  /\ IF yb < ye /\ Same(pairs[yb], pairs[yb + 1])
     THEN UNCHANGED <<pairs, it>>
     ELSE /\ it' = it + 1
          /\ pairs' = [pairs EXCEPT ![it + 1] = pairs[yb]]
  /\ yb' = yb + 1
  /\ pc' = IF yb = ye THEN "done" ELSE "copy"
  /\ UNCHANGED <<op, input, im, xb, deque>>

\* Before a place is written, the entry of x that may lie there is saved.
Saved == IF xb <= im THEN PushBack(deque, pairs[xb]) ELSE deque

NextX_BUG == xb
NextX == IF xb <= im THEN xb + 1 ELSE xb

QueuedFirst == ~Empty(Saved) /\ Less(Front(Saved), pairs[yb])

InsertOverwrite ==
  /\ pc = "insert" /\ yb <= ye
  /\ Same(pairs[it], pairs[yb])
  /\ pairs' = [pairs EXCEPT ![it] = pairs[yb]]
  /\ yb' = yb + 1
  /\ UNCHANGED <<op, input, im, xb, it, deque, pc>>

TakeQueued ==
  /\ pc = "insert" /\ yb <= ye
  /\ ~Same(pairs[it], pairs[yb])
  /\ QueuedFirst
  /\ it' = it + 1
  /\ pairs' = [pairs EXCEPT ![it + 1] = Front(Saved)]
  /\ deque' = PopFront(Saved)
  /\ xb' = NextX
  /\ UNCHANGED <<op, input, im, yb, pc>>

TakeNew ==
  /\ pc = "insert" /\ yb <= ye
  /\ ~Same(pairs[it], pairs[yb])
  /\ ~QueuedFirst
  /\ it' = it + 1
  /\ pairs' = [pairs EXCEPT ![it + 1] = pairs[yb]]
  /\ deque' = Saved
  /\ xb' = NextX
  /\ yb' = yb + 1
  /\ UNCHANGED <<op, input, im, pc>>

InsertDone ==
  /\ pc = "insert" /\ yb > ye
  /\ pc' = "drain"
  /\ UNCHANGED <<op, input, im, pairs, xb, yb, it, deque>>

Drain ==
  /\ pc = "drain" /\ ~Empty(Saved)
  /\ it' = it + 1
  /\ pairs' = [pairs EXCEPT ![it + 1] = Front(Saved)]
  /\ deque' = PopFront(Saved)
  /\ xb' = NextX
  /\ UNCHANGED <<op, input, im, yb, pc>>

DrainDone ==
  /\ pc = "drain" /\ Empty(Saved)
  /\ deque' = Saved
  /\ xb' = NextX
  /\ pc' = "done"
  /\ UNCHANGED <<op, input, im, pairs, yb, it>>

-----------------------------------------------------------------------------
(* set_difference_inplace *)

\* Write-free loop: nothing was removed yet, the result ends where x ends.
DiffSkip ==
  /\ op = "difference" /\ pc = "seek"
  /\ Less(pairs[xb], pairs[yb])
  /\ xb' = xb + 1
  /\ pc' = IF xb = im THEN "done" ELSE "seek"
  /\ UNCHANGED <<op, input, im, deque, pairs, yb, it>>

DiffMiss ==
  /\ op = "difference" /\ pc = "seek"
  /\ Less(pairs[yb], pairs[xb])
  /\ yb' = yb + 1
  /\ pc' = IF yb = ye THEN "done" ELSE "seek"
  /\ UNCHANGED <<op, input, im, deque, pairs, xb, it>>

DiffMatch ==
  /\ op = "difference" /\ pc = "seek"
  /\ Same(pairs[xb], pairs[yb])
  /\ it' = xb
  /\ xb' = xb + 1
  /\ yb' = yb + 1
  /\ pc' = IF xb = im THEN "done" ELSE "shift"
  /\ UNCHANGED <<op, input, im, deque, pairs>>

\* An entry that stays moves to the left.
ShiftKeep ==
  /\ pc = "shift" /\ yb <= ye
  /\ Less(pairs[xb], pairs[yb])
  /\ pairs' = [pairs EXCEPT ![it] = pairs[xb]]
  /\ it' = it + 1
  /\ xb' = xb + 1
  /\ pc' = IF xb = im THEN "done" ELSE "shift"
  /\ UNCHANGED <<op, input, im, deque, yb>>

ShiftMiss ==
  /\ pc = "shift" /\ yb <= ye
  /\ Less(pairs[yb], pairs[xb])
  /\ yb' = yb + 1
  /\ UNCHANGED <<op, input, im, deque, pairs, xb, it, pc>>

ShiftMatch ==
  /\ pc = "shift" /\ yb <= ye
  /\ Same(pairs[xb], pairs[yb])
  /\ xb' = xb + 1
  /\ yb' = yb + 1
  /\ pc' = IF xb = im THEN "done" ELSE "shift"
  /\ UNCHANGED <<op, input, im, deque, pairs, it>>

\* No removals are left: the rest of x is copied behind what was kept.
CopyRest ==
  /\ pc = "shift" /\ yb > ye
  /\ pairs' = [i \in DOMAIN pairs |->
                 IF i \in it..(it + im - xb) THEN pairs[i + xb - it] ELSE pairs[i]]
  /\ it' = it + im - xb + 1
  /\ xb' = im + 1
  /\ pc' = "done"
  /\ UNCHANGED <<op, input, im, deque, yb>>

Next ==
  \/ SeekDone \/ SeekEnd \/ SeekSkip \/ SeekReplace \/ SeekInsert
  \/ CopyLast
  \/ InsertOverwrite \/ TakeQueued \/ TakeNew \/ InsertDone
  \/ Drain \/ DrainDone
  \/ DiffSkip \/ DiffMiss \/ DiffMatch \/ ShiftKeep \/ ShiftMiss \/ ShiftMatch \/ CopyRest

Spec == Init /\ [][Next]_vars

-----------------------------------------------------------------------------
(* Properties *)

X == SubSeq(input, 1, im)
Y == SubSeq(input, im + 1, ye)

\* Every cursor stays inside its part or one past it, and none is one past it
\* where the loops dereference it.
TypeOK ==
  /\ op \in {"union", "difference"}
  /\ input \in Seq(Entry) /\ pairs \in Seq(Entry) /\ Len(pairs) = ye
  /\ im \in 0..ye /\ xb \in 1..(im + 1) /\ yb \in (im + 1)..(ye + 1)
  /\ it \in 0..(ye + 1)
  /\ deque \in Deque
  /\ pc \in {"seek", "copy", "insert", "drain", "shift", "done"}
  /\ op = "difference" => /\ pc # "done" => xb <= im
                          /\ pc = "seek" => yb <= ye

\* What an algorithm still has to read was not overwritten by what it has
\* written: the write cursor never passes the unread part of x nor of y.
UnreadUntouched ==
  /\ \A i \in yb..ye : pairs[i] = input[i]
  /\ \A i \in xb..im : \/ pairs[i] = input[i]
                       \/ /\ op = "union" /\ pc \in {"seek", "done"}
                          /\ i = xb /\ Same(pairs[i], input[i])

\* What is left when the call returns is UnionLast, or SetDifference.
ResultIsRight ==
  pc = "done" =>
    IF op = "union" THEN SubSeq(pairs, 1, it) = UnionLast(X, Y)
    ELSE SubSeq(pairs, 1, it - 1) = SetDifference(X, Y)

\* What the comment of set_union_last_inplace promises: a union that keeps the
\* last among matching elements, so a key of strictly sorted x occurs once.
UnionHasNoDuplicates ==
  op = "union" /\ pc = "done" /\ StrictlySorted(X) =>
    StrictlySorted(SubSeq(pairs, 1, it))
=============================================================================
