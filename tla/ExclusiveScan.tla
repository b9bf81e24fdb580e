--------------------------- MODULE ExclusiveScan ---------------------------
(***************************************************************************)
(* exclusiveScanOmpW (louvain/_vector.hxx), in place: counts are replaced  *)
(* by offsets.  Each thread scans a chunk of its own and leaves the sum in *)
(* the buffer, the buffer is scanned, each thread adds what is before its  *)
(* chunk.  The number of threads that the runtime gives to a region may be *)
(* less than the length of the buffer.                                     *)
(***************************************************************************)
EXTENDS Sums

CONSTANTS H   \* omp_get_max_threads()

VARIABLES a,      \* the array
          buf,    \* the threads' sums
          T,      \* omp_get_num_threads() of both regions
          stage,  \* "idle", "local", "add"
          todo,   \* threads that have not done their part of the stage
          given   \* not in the code: the array before the scan

Smaller(i, j) == IF i < j THEN i ELSE j

\* The chunk of thread t among n elements, without its end.
chunkSize_BUG(n) == n \div T
chunkSize(n) == (n + T - 1) \div T
First(t, n) == Smaller(t * chunkSize(n), n)
End(t, n) == Smaller(First(t, n) + chunkSize(n), n)
Chunk(t, n) == First(t, n)..(End(t, n) - 1)

\* To be joined with what the caller does to a and T.
StartScan ==
  /\ stage = "idle" /\ stage' = "local"
  /\ buf' = [t \in 0..(H - 1) |-> 0]
  /\ todo' = 0..(T - 1)
  /\ given' = a'

\* exclusiveScanW on a chunk.
LocalScan(t, n) ==
  /\ stage = "local" /\ t \in todo
  /\ a' = [i \in DOMAIN a |-> IF i \in Chunk(t, n) THEN Sum(a, First(t, n), i) ELSE a[i]]
  /\ buf' = [buf EXCEPT ![t] = Sum(a, First(t, n), End(t, n))]
  /\ todo' = todo \ {t}
  /\ UNCHANGED <<T, stage, given>>

\* inclusiveScanW on the buffer, all of it.
Combine ==
  /\ stage = "local" /\ todo = {}
  /\ buf' = [t \in DOMAIN buf |-> Sum(buf, 0, t + 1)]
  /\ stage' = "add" /\ todo' = 0..(T - 1)
  /\ UNCHANGED <<a, T, given>>

\* addValueU on a chunk.
AddBefore(t, n) ==
  /\ stage = "add" /\ t \in todo
  /\ a' = [i \in DOMAIN a |->
             IF i \in Chunk(t, n) /\ t # 0 THEN a[i] + buf[t - 1] ELSE a[i]]
  /\ todo' = todo \ {t}
  /\ UNCHANGED <<buf, T, stage, given>>

ScanStep(n) ==
  \/ \E t \in 0..(H - 1) : LocalScan(t, n) \/ AddBefore(t, n)
  \/ Combine

Scanned == stage = "add" /\ todo = {}
Total == buf[H - 1]

\* The caller goes on after the second region.
EndScan == Scanned /\ stage' = "idle"

-----------------------------------------------------------------------------
\* However the chunks fall and whoever is first, the array ends as the
\* exclusive prefix sums, and the value returned is the sum of all of it.
IsPrefixSum(n) ==
  Scanned => /\ \A i \in 0..(n - 1) : a[i] = Sum(given, 0, i)
             /\ Total = Sum(given, 0, n)
=============================================================================
