------------------------------ MODULE Queries ------------------------------
(***************************************************************************)
(* The queries on a loaded store (include/interact_graph.hpp).             *)
(* GetTopkAccounts is TopkAccounts; this module adds                       *)
(* GetCommonInteractingAccounts, GetOldestPost and PostsByFreq, and the    *)
(* client that moves a start time with operator+= before it asks.  A loop  *)
(* over a hash map visits its entries in any order.  Queries are const: a  *)
(* behaviour is one query on one store.                                    *)
(*                                                                         *)
(* The data of a post is Null, lacks publishTime (NoTime), has one that    *)
(* does not parse (BadText), or one of six numbers, a date or not.         *)
(***************************************************************************)
EXTENDS TopkAccounts, Calendar, SortedPairs

CONSTANTS Null, NoTime, BadText,
          Texts,       \* what publishTime may say
          Starts, Ends,   \* arguments start_time and end_time
          Intervals,   \* argument interval, in seconds
          Dated,       \* posts of a store that is asked about times
          INT_MAX,     \* the largest int, 2^31 - 1
          Dates,       \* where a client starts, for operator+=
          Ranges,      \* what it adds
          Stranger,    \* a userId that is not in the store
          MaxAsked     \* bound on the number of userIds

\* A post without an id cannot be told from no post.
NoPost == [id |-> "", time |-> <<>>]

ASSUME QueriesAssumption ==
  /\ INT_MAX \in Nat /\ MaxAsked \in Nat
  /\ \A d \in Starts \cup Ends \cup Dates : d \in [1..6 -> Nat] /\ Valid(d)
  /\ \A d \in Texts : d \in [1..6 -> Nat]
  /\ IsFiniteSet(Dated) /\ NoPost.id \notin Dated
  /\ Intervals \subseteq Nat \ {0} /\ Ranges \subseteq Nat

VARIABLES
  query,       \* "topk", "common", "oldest", "freq", "dates"
  at,          \* of the other queries: "loop", "sort", "done", "thrown"
  data,        \* the posts' data
  start, end, interval, sorted, asked,   \* the arguments
  posts,       \* posts that the loop has not come to
  oldest,      \* oldest_post_id and oldest_datetime
  buckets,     \* post_buckets: <<bucket id, number of posts>>
  freq,        \* result of PostsByFreq: sequence of <<date, count>>
  uidxs, base, commons   \* accounts left to intersect with; the hash sets

topkVars == vars
args == <<query, data, start, end, interval, sorted, asked>>
folds == <<oldest, buckets, freq, uidxs, base, commons>>
allVars == <<topkVars, args, at, posts, folds>>

\* No query of that kind: its arguments and results stay as they are here.
NoTopk ==
  /\ label = "POSTS" /\ topk = 0 /\ results = <<>> /\ pc = "done"
  /\ counts = [u \in Accounts |-> 0] /\ todo = [u \in Accounts |-> {}]
NoUnnamed == unnamed = {} /\ listed = [p \in Posts |-> 0]
NoStore ==
  /\ author = [p \in Posts |-> NoAuthor]
  /\ received = [p \in Posts |-> <<>>] /\ missed = [p \in Posts |-> 0]
  /\ NoUnnamed
NoData == data = [p \in Dated |-> Null]
MIN_DATETIME == <<1970, 1, 1, 0, 0, 0>>
NoArguments == start = MIN_DATETIME /\ end = MIN_DATETIME /\ interval = 1 /\ sorted = FALSE

\* With an account "" the graph is that of a store where it has no posts.
AnyStore ==
  /\ author \in [Posts -> Accounts \cup {NoAuthor}]
  /\ received \in [Posts -> UNION { [1..n -> Accounts] : n \in 0..MaxReceived }]
  /\ missed = [p \in Posts |-> IF author[p] = NoAuthor THEN Len(received[p]) ELSE 0]
  /\ NoUnnamed

AnyData == data \in [Dated -> {Null, NoTime, BadText} \cup Texts]

\* Accounts in the store, in the order asked for.
known == At(asked, { i \in DOMAIN asked : asked[i] # Stranger })

QueryInit ==
  /\ \/ query = "topk" /\ Init /\ NoData /\ NoArguments /\ asked = <<>>
     \/ /\ query = "common" /\ NoTopk /\ AnyStore /\ NoData /\ NoArguments
        /\ asked \in UNION { [1..n -> Accounts \cup {Stranger}] : n \in 0..MaxAsked }
     \/ /\ query = "oldest" /\ NoTopk /\ NoStore /\ AnyData /\ asked = <<>>
        /\ start \in Starts /\ end \in Ends /\ interval = 1 /\ sorted = FALSE
     \/ /\ query = "freq" /\ NoTopk /\ NoStore /\ AnyData /\ asked = <<>>
        /\ start \in Starts /\ end \in Ends /\ interval \in Intervals /\ sorted \in BOOLEAN
     \/ /\ query = "dates" /\ NoTopk /\ NoStore /\ NoData /\ asked = <<>>
        /\ start \in Dates /\ end = MIN_DATETIME /\ interval = 1 /\ sorted = FALSE
  /\ at = IF query = "topk" THEN "done" ELSE "loop"
  /\ posts = IF query \in {"oldest", "freq"} THEN Dated ELSE {}
  /\ oldest = [NoPost EXCEPT !.time = end]
  /\ buckets = {} /\ freq = <<>>
  /\ uidxs = known
  /\ base = {} /\ commons = {}

\* GetTopkAccounts
Topk == query = "topk" /\ Next /\ UNCHANGED <<args, at, posts, folds>>

-----------------------------------------------------------------------------
(* GetCommonInteractingAccounts *)

\* commons.insert over one account's edges.
FirstAccount ==
  /\ query = "common" /\ at = "loop" /\ Len(uidxs) = Len(known)
  /\ IF uidxs = <<>> THEN at' = "done" /\ UNCHANGED <<commons, uidxs>>
     ELSE /\ commons' = account_graph(uidxs[1]) /\ uidxs' = Tail(uidxs)
          /\ at' = IF uidxs' = <<>> THEN "done" ELSE "loop"
  /\ UNCHANGED <<topkVars, args, posts, oldest, buckets, freq, base>>

\* The sets are swapped, and what both have goes to the cleared one.
NextAccount_BUG ==
  /\ query = "common" /\ at = "loop" /\ Len(uidxs) < Len(known)
  /\ base' = commons
  /\ commons' = base \cup (account_graph(uidxs[1]) \cap commons)
  /\ uidxs' = Tail(uidxs)
  /\ at' = IF uidxs' = <<>> \/ commons' = {} THEN "done" ELSE "loop"
  /\ UNCHANGED <<topkVars, args, posts, oldest, buckets, freq>>

NextAccount ==
  /\ query = "common" /\ at = "loop" /\ Len(uidxs) < Len(known)
  /\ base' = commons
  /\ commons' = account_graph(uidxs[1]) \cap commons
  /\ uidxs' = Tail(uidxs)
  /\ at' = IF uidxs' = <<>> \/ commons' = {} THEN "done" ELSE "loop"
  /\ UNCHANGED <<topkVars, args, posts, oldest, buckets, freq>>

-----------------------------------------------------------------------------
(* The loops over idx2post_map_ of GetOldestPost and PostsByFreq *)

Parses(text) == text # BadText /\ Valid(text)

Skipped(p) == data[p] \in {Null, NoTime}

Visit(p) == at = "loop" /\ p \in posts /\ posts' = posts \ {p}

SkipPost(p) ==
  /\ query \in {"oldest", "freq"} /\ Visit(p) /\ Skipped(p)
  /\ UNCHANGED <<topkVars, args, at, folds>>

Throw(p) ==
  /\ query \in {"oldest", "freq"} /\ Visit(p) /\ ~Skipped(p) /\ ~Parses(data[p])
  /\ at' = "thrown"
  /\ UNCHANGED <<topkVars, args, folds>>

\* The end of the range moves to the oldest post so far.
Older_BUG(cur) == AtMost(start, cur) /\ Before(cur, oldest.time)
Older(cur) == AtMost(start, cur) /\ AtMost(cur, oldest.time)

OldestPost(p) ==
  /\ query = "oldest" /\ Visit(p) /\ ~Skipped(p) /\ Parses(data[p])
  /\ oldest' = IF Older(data[p]) THEN [id |-> p, time |-> data[p]] ELSE oldest
  /\ UNCHANGED <<topkVars, args, at, buckets, freq, uidxs, base, commons>>

\* A 64-bit number as an int.
Int2W(n) == ((n + INT_MAX + 1) % (2 * (INT_MAX + 1))) - (INT_MAX + 1)

bucket_id_BUG(cur) == Int2W(UnixSeconds(cur) \div interval - UnixSeconds(start) \div interval)
bucket_id(cur) == Int2W(Minus(cur, start) \div interval)

CountOf(id) == IF \E b \in buckets : b[1] = id THEN (CHOOSE b \in buckets : b[1] = id)[2] ELSE 0

CountPost(p) ==
  /\ query = "freq" /\ Visit(p) /\ ~Skipped(p) /\ Parses(data[p])
  /\ LET cur == data[p]
         id == bucket_id(cur)
         others == { b \in buckets : b[1] # id }
     IN  IF UnixSeconds(cur) < UnixSeconds(start) \/ UnixSeconds(cur) > UnixSeconds(end)
         THEN UNCHANGED buckets
         ELSE buckets' = others \cup {<<id, CountOf(id) + 1>>}
  /\ UNCHANGED <<topkVars, args, at, oldest, freq, uidxs, base, commons>>

EndLoop ==
  /\ query \in {"oldest", "freq"} /\ at = "loop" /\ posts = {}
  /\ at' = IF query = "freq" THEN "sort" ELSE "done"
  /\ UNCHANGED <<topkVars, args, posts, folds>>

\* The first second of a bucket, as a date.  The sum is unsigned: below zero it
\* is a date some 10^11 years ahead, cut to an int, that is any date.
Label(id) ==
  LET secs == UnixSeconds(start) + id * interval
  IN  IF secs < 0 THEN <<>> ELSE FromUnixSeconds(secs)

SortBuckets ==
  /\ query = "freq" /\ at = "sort" /\ at' = "done"
  /\ \E s \in [1..Cardinality(buckets) -> buckets] :
       /\ { s[i] : i \in DOMAIN s } = buckets
       /\ sorted => \A i, j \in DOMAIN s : i < j => s[i][2] >= s[j][2]
       /\ freq' = [i \in DOMAIN s |-> <<Label(s[i][1]), s[i][2]>>]
  /\ UNCHANGED <<topkVars, args, posts, oldest, buckets, uidxs, base, commons>>

-----------------------------------------------------------------------------
\* operator+=
Advance(range) ==
  /\ query = "dates" /\ at = "loop" /\ at' = "done"
  /\ start' = Plus(start, range)
  /\ UNCHANGED <<topkVars, query, data, end, interval, sorted, asked, posts, folds>>

QueryNext ==
  \/ Topk \/ FirstAccount \/ NextAccount \/ EndLoop \/ SortBuckets
  \/ \E p \in Dated : SkipPost(p) \/ Throw(p) \/ OldestPost(p) \/ CountPost(p)
  \/ \E range \in Ranges : Advance(range)

QuerySpec == QueryInit /\ [][QueryNext]_allVars

-----------------------------------------------------------------------------
(* Properties *)

Answered(q) == query = q /\ at = "done"

\* The accounts that each of the known accounts has an edge to, whatever
\* strangers and repetitions are asked for; nobody when no account is known.
CommonIsIntersection ==
  Answered("common") =>
    LET us == { asked[i] : i \in DOMAIN asked } \ {Stranger}
    IN  commons = { v \in Accounts : us # {} /\ \A u \in us : v \in account_graph(u) }

\* One text that is no date makes a query fail in every order of the posts,
\* and nothing else does.
BadTime == \E p \in Dated : ~Skipped(p) /\ (data[p] = BadText \/ ~Valid(data[p]))
FailsOnBadTime == (at = "thrown" => BadTime) /\ (at = "done" => ~BadTime)

InRange(p) == ~Skipped(p) /\ AtMost(start, data[p]) /\ AtMost(data[p], end)

\* "get the oldest post and its userId from datetime [start_time, end_time]
\* (both including)": in every hash order a post of that range than which none
\* is older, none only when the range is empty, and an exception only for a
\* text that is no date.
OldestIsEarliest ==
  /\ query = "oldest" => FailsOnBadTime
  /\ Answered("oldest") =>
       IF oldest.id = NoPost.id THEN \A p \in Dated : ~InRange(p)
       ELSE /\ InRange(oldest.id) /\ oldest.time = data[oldest.id]
            /\ \A p \in Dated : InRange(p) => AtMost(oldest.time, data[p])

\* As long as no bucket number is cut to the width of an int, there is one
\* label for each interval with a post, and its count is the number of posts
\* from the label's time to the next; a text that is no date fails the query.
Fits == Minus(end, start) \div interval <= INT_MAX
FreqCountsIntervals ==
  /\ query = "freq" => FailsOnBadTime
  /\ Answered("freq") /\ Fits =>
       /\ \A i \in DOMAIN freq :
            /\ freq[i][2] = Cardinality({ p \in Dated :
                 InRange(p) /\ Minus(data[p], freq[i][1]) \in 0..(interval - 1) })
            /\ \A j \in DOMAIN freq : i < j => /\ freq[i][1] # freq[j][1]
                                               /\ sorted => freq[i][2] >= freq[j][2]
       /\ \A p \in Dated : InRange(p) =>
            \E i \in DOMAIN freq : Minus(data[p], freq[i][1]) \in 0..(interval - 1)

\* Seconds since 1970 of the proleptic Gregorian calendar, in closed form with
\* years that begin in March.
GregorianSeconds(d) ==
  LET y == IF d[2] <= 2 THEN d[1] - 1 ELSE d[1]
      m == (d[2] + 9) % 12
      days == 365 * y + y \div 4 - y \div 100 + y \div 400 + (153 * m + 2) \div 5
              + d[3] - 1 - 719468
  IN  FromDdHhMmSs(days, d[4], d[5], d[6])

\* A date plus a range is a date of that calendar, that range later: there and
\* back again over months, years, centuries and their leap years.
AdvancesByRange ==
  [][query = "dates" /\ start' # start =>
       /\ Valid(start')
       /\ UnixSeconds(start) = GregorianSeconds(start)
       /\ GregorianSeconds(start') - GregorianSeconds(start) \in Ranges]_allVars
=============================================================================
