# GFGraph: specifications, model checks and proofs

GFGraph loads accounts, posts and interactions of a social platform into an
in-memory store, answers a handful of queries about them and finds communities
with a parallel Louvain algorithm. This directory holds TLA+ models of that
code, the TLC configurations that check them on small instances, and theorems
checked by the TLA+ proof system.

## 1. The system

| Part | Source | State | Operations |
|---|---|---|---|
| Store | `include/interact_graph.hpp`, `info.hpp` | id/index maps of accounts and posts, interaction map, per-account post lists, per-post interaction lists, account graph | `AddAccounts`, `AddPosts`, `AddInteractions` (loading JSON arrays), getters |
| Queries | `include/interact_graph.hpp` | none (reads the store) | `GetTopkAccounts`, `GetCommonInteractingAccounts`, `GetOldestPost`, `PostsByFreq` |
| Calendar | `include/datetime.hpp` | a date-time | parse, validate, compare, to and from seconds since 1970, `TimeRange` |
| Communities | `include/louvain.hpp` | a weighted digraph of accounts, a membership vector | `LouvainCommunity` |
| Graph containers | `include/louvain/{Graph,_bitset,_algorithm,_queue,update,csr}.hxx` | adjacency as `LazyBitset` (sorted pairs plus pending additions and removals), CSR arrays | add/remove edges and vertices, `update`, `updateOmpU`, `csrCreate*`, `csrAddEdgeOmpU` |
| Graph library | `include/louvain/{batch,transpose,duplicate,selfLoop,symmetricize,bfs,dfs,properties}.hxx` | none of its own | batch updates, derived graphs, traversals, community checks; of these the program calls `symmetricizeOmp` and `edgeWeightOmp` |
| Louvain | `include/louvain/{louvain,properties,_vector}.hxx` | community of each vertex, vertex and community weights, affected flags | local moving, renumbering, aggregation, lookup, the pass loop |
| Bindings | `src/pyGFGraph.cpp` | none | pybind11 wrappers |

How they interact: the loaders write the store one JSON element at a time; the
queries and `LouvainCommunity` read it through indexes; `LouvainCommunity`
builds a digraph from the account graph, one thread per group of source
vertices, applies the pending edges, adds the reverse edges and runs Louvain;
inside Louvain the phases run as OpenMP loops over shared arrays, separated by
barriers. Nothing is persisted, there is no network and no blocking; what is
hard is the order in which data arrives, calls that stop half-way, in-place
algorithms with tight buffers, and unsynchronised parallel loops.

### What each part promises, and what makes that hard

- **Store.** Ids and indexes stay inverse of each other and every vector keeps
  one slot per index; each post is in the list of its author, if that has a name, once; each
  interaction is in one list once; the account graph holds, for every post, the
  interactions that came after its author was known. Hard: posts are first
  placeholders and get an author from whichever of three calls knows it first;
  one id space serves posts and interactions; `replace` flags; an empty `userId`,
  which is accepted and also means "author unknown"; a JSON
  conversion that throws after three containers were changed; Debug assertions.
- **Queries.** `GetTopkAccounts` shows the k largest counts and a count means
  what its label says, over the interactions that the account graph has, whatever
  the order of the parallel atomic additions.
  `GetCommonInteractingAccounts` is an intersection; `GetOldestPost` and
  `PostsByFreq` give the same answer in every order of a hash map, and one
  malformed time fails them in every order. Hard: a bound that moves while the
  map is visited, two sets that are swapped and cleared, a 64-bit number of
  seconds put into an int.
- **Calendar.** Conversions to and from seconds are inverse of each other
  across leap years and centuries.
- **Graph containers.** The in-place union and difference read nothing they
  have overwritten, never overflow a deque that does not check, and compute the
  sets they are named for; `LazyBitset` is a map and `DiGraph` a map of edges
  for their callers, although both work on pending edits; the digraph
  for Louvain does not depend on the schedule of the threads that build it.
- **Graph library.** A tidied batch means two sets of edges; a derived graph is
  the same with and without threads; CSR arrays and traversals read the graph
  that is there; disconnected communities are found by threads that share one
  vector of flags.
- **Louvain.** Communities stay a partition of the vertices, community weights
  agree with memberships between phases, aggregation keeps total weight, and
  the memberships of the passes compose. Hard: threads move vertices while
  others read, flags that are cleared after they were set, buffers that keep
  their length while graphs shrink.

## 2. Modules

| Module | Models | Checked by |
|---|---|---|
| `InteractLedger` | what the store promises, without indexes and vectors | refined by `InteractGraph` |
| `InteractGraph` | the store: `AddAccounts`, `AddPosts`, `AddInteractions` | `MCInteractGraph`, `MCConsistentFeed` |
| `TopkAccounts` | `GetTopkAccounts` | `MCQueries` |
| `Calendar` | `TimeRange`, `DateTime` | `MCQueries` |
| `Queries` | the other three queries, and the client that advances a start time; extends the two above | `MCQueries` |
| `SortedPairs` | sequences of keyed entries; unstable and stable sorting; the closed form of the in-place algorithms | used by the next modules |
| `InplaceSets` | `unique_last_copy`, `set_difference_inplace`, `set_union_last_inplace`, `UnsizedDequeView` | `InplaceSets.cfg`, `UnionDuplicates.cfg` |
| `KeyMap` | what `LazyBitset` promises: a map | refined by `LazyBitset` |
| `LazyBitset` | `add`, `remove`, `update`, `clear`, look-up | `LazyBitset.cfg` |
| `Digraph` | `DiGraph` as a value: vertices, rows with what waits in them, `updateOmpU` | used by the next five |
| `AccountDigraph` | `LouvainCommunity` up to Louvain: `addVerticesU`, the parallel load, `symmetricizeOmp` | `AccountDigraph.cfg` |
| `EdgeMap` | what `DiGraph` promises: vertices and a weight for each edge | refined by `DigraphLibrary` |
| `DigraphReads` | `csr.hxx`, look-ups of `DiGraphCsr`, `bfs.hxx`, `dfs.hxx` | `MCCommunityChecks` |
| `DigraphLibrary` | single edits, batches, derived graphs | `MCCommunityChecks` |
| `CommunityChecks` | `communityVerticesOmp`, `communitiesDisconnectedOmp` on such graphs | `MCCommunityChecks` |
| `LouvainMove` | `louvainMoveOmpW` with its scan, choice and change of community | `LouvainMove.cfg` |
| `Sums` | sums over a range of indices, as the reduction loops compute them | used by `TopkAccounts`, `Calendar`, `LouvainMove`, `ExclusiveScan` |
| `ExclusiveScan` | `exclusiveScanOmpW`, an action fragment | instanced three times by the next |
| `LouvainPasses` | the pass loop: renumbering, listing, aggregation, look-up, result | `MCLouvainPasses` |
| `Coarsening` | what the passes promise: a partition that only gets coarser | refined by `LouvainPasses` |
| `InteractGraph_proofs`, `Queries_proofs`, `InplaceSets_proofs`, `LazyBitset_proofs`, `AccountDigraph_proofs`, `LouvainMove_proofs`, `LouvainPasses_proofs` | theorems about the module of that name | the TLA+ proof system |
| `Operators_proofs` | lemmas about sums, ranks, counting and sequences of entries, used by all of these but the first | the TLA+ proof system |

The models are stacked. `InplaceSets` establishes by its invariant
`ResultIsRight`, proved for parts of any length, that the loops compute
`UnionLast` and `SetDifference` of `SortedPairs`; `LazyBitset` and `Digraph` use
these operators in place of the loops, and the proofs about them start from what
`Operators_proofs` says the operators do to keys and look-ups. `TopkAccounts` and
`Queries` start from every store that the invariants `AuthorLists`,
`EdgesLeaveAuthor` and `EdgesAreRecentInteractions` of `InteractGraph` allow, all
of them proved. `LouvainMove` starts from rows as `symmetricizeOmp` leaves them
according to `ScheduleIndependent` of `AccountDigraph`, a target that stands
twice in a row included (`FirstPass`), or from rows as the aggregation of an
earlier pass leaves them (`LaterPass`);
`LouvainPasses` takes local moving as one step with any communities that a
call may leave, community 0 never joined (the guard `if (c)`, louvain.hxx:604)
and the weights those of the members (`WeightsAgree`), and shows by
`NothingStale` that every pass starts `LouvainMove` in the state that module
assumes.

Functions that exist with and without threads have one model: the serial
version is the case of one thread, which the runs include.

An operator whose name ends in `_BUG` is a wrong variant of the definition
after it: a dropped guard, a missing reset, a swapped order. Put in its place,
it makes one of the properties fail; `PROJECT.json` says which, so that no
property is one that nothing could break. They are no part of the models.

### The store (`InteractGraph`)

The variables have the names of the data members; a vector is a function on
`0..size-1`, a hash map a function on its keys. `call` is the call that is
running: `AddInteractions` handles an element's forward, quote and comment
lists one interaction after the other and may stop by an exception between any
two of them. `AddAccount`, `AddPost`, `AddPostThrows` and `BeginInteractions`
are one element of the loaders, `AddInteraction` one interaction,
`EndInteractions` the end of an element or the exception that ends it. Each
action contains the nested `AddAccount_` and `AddPost_` calls.
What is in a JSON object is one value `Data`. `Users` may contain the empty string,
`NoUid`: the code registers an account "" for it, takes an author or user that is
"" for unknown, lets a replacing `AddPosts` list the post on the account ""
again, and lets a replacing `AddInteractions` fill in the user of a stored
interaction, without an account for that user and without moving the
interaction's entry in the account graph away from the account "". `NDEBUG` chooses the Release
build (assertions compiled out, the default) or the Debug build, in which
`Aborted` is what a failed assertion leaves.

### In-place algorithms (`InplaceSets`)

One behaviour is one call on two sorted parts of one array, a step is one turn
of a loop; `xb`, `yb`, `it` are the iterators, `deque` the circular buffer with
its front and rear, `pc` the loop. `Slack` is the 4 that `updateAdd` adds to
the number of additions. The deque view has no size and no checks: when full it
looks empty, in the model as in the code.

### Lazy container (`LazyBitset`)

`pairs` and `unprocessed` are the data members. `std::sort` is not stable, so
sorting what waits yields any of `Sortings`. How a container may be used
follows from its callers and is chosen by `usage`: callers that add absent keys
and remove any, and callers that add present keys (the reverse edges) and never
remove. The callers in the program add no key twice between two updates, and
`Addable` says so. `symmetricizeW`, which the program does not call, does when an
edge goes both ways; `DigraphLibrary` models it on rows without that guard.

### Account digraph (`AccountDigraph`)

`x` and `a` are the digraphs of `LouvainCommunity` and `symmetricizeOmp`:
existence flags and rows per index, order and size. `LoadEdge(u)` is one
`addEdge` of the thread that has account `u` (`std::for_each` with `par`);
`ReverseEdge(t)` is one edge of the sweep of thread `t` over all edges, guarded
by `belongsOmp`. The regions end by `Settle` and `Join`, which do the
`updateOmpU`. Every thread works on rows of its own, so a whole turn is a
step; `ParallelRegionsKeepVertices` is what makes that sound: nobody resizes
the shared vectors or sets a bit of the `vector<bool>` meanwhile.

### Queries (`TopkAccounts`, `Queries`, `Calendar`)

The store that `TopkAccounts` reads is `author`, `received` and `missed` (how many
interactions of a post came before its author); `unnamed` is the account "", if
there is one, and `listed` how often its list has each post.
`Transform(u)` is an element of a `std::transform`, `Scatter(u)` one edge of a
`std::for_each`, an atomic addition to another account's counter; `Sort` is the
unstable descending sort with any order among equals and the first k.

In `Queries` a behaviour is one query on one store, `query` says which. The
loops over `idx2post_map_` take any post that is left (`Visit`); `SkipPost`,
`OldestPost`, `CountPost` and `Throw` are the ways a turn ends. The data of a
post is what `publishTime` says: nothing, no date, or six numbers.
`FirstAccount` and `NextAccount` are one account of
`GetCommonInteractingAccounts`. `Int2W` is the assignment to an int whose largest
value is `INT_MAX`. `NoPost`, with the empty id, is what the search for the oldest
post starts from; that no post has this id is an assumption, and so is that there
are finitely many posts. `Advance` is a client's `start += range`.

`Calendar` translates the comparisons and both conversions, loop by loop. The
lengths of minute, hour and day are constants: the run has days of eight
seconds, so that years of seconds stay within TLC's integers; years, months and
leap years are those of the code.

### Local moving (`LouvainMove`)

One behaviour is one call of `louvainMoveOmpW`, the edges going both ways, started as
every pass starts it: `edges` has the rows as sequences of entries, since a row
of the first pass may have a target twice, which weighs and counts twice; each vertex is its own community and affected. `vcom`,
`ctot`, `vaff` and `el` are shared; `vcs[t]`, `vcout[t]` are the scan tables of
thread t, which survive from one vertex to the next; `at[t]` is the place of
the thread in the loop body, `u[t]` its vertex, `stop[t]` the end of its chunk.
A step is one access to what other threads write: `Scan` one edge, `Choose` one
candidate community, `Leave`, `Enter` and `Join` the three updates of
`louvainChangeCommunityOmpW`, `Wake` one neighbour's flag, `Sleep` the vertex's
own. `EndIteration` is the barrier and the test for convergence. A plain read
that races with a write is taken to return the old or the new value; `el` is
added up as the turns end, which the OpenMP reduction may do in any order.
`outdated` is a history variable of the model.

### The passes (`LouvainPasses`, `ExclusiveScan`)

The variables are the buffers of `louvainInvokeOmp`, `pc` is the phase of the
pass, `T` the number of threads. `Move(m)` is local moving after m iterations,
with the first two exits of the loop; `Exists(u)` one atomic capture of
`louvainCommunityExistsOmpW`; `Existed` the third exit, the tolerance;
`Rank` and `Renumber` the scan and the renumbering; `Lookup` the composition
with the earlier passes; `Count`, `Offsets`, `StartClaims` the offsets of the
vertex lists; `Claim(u)` and `Write(u)` the two halves of `csrAddEdgeOmpU`,
the atomic capture of a slot and the plain write into it; `TotalDegrees`,
`Regions`, `StartAggregation`, `Aggregate(c)` the aggregation, one community a
turn; `NextPass` the swap of the graphs and the resets; `End` the look-up after
the loop; `Group` the buckets of `LouvainCommunity`, by size or not.

`ExclusiveScan` is one call of `exclusiveScanOmpW` on an array, with the
threads' local scans (`LocalScan`), the scan of their totals (`Combine`) and
the second parallel region (`AddBefore`). `bufk` and `bufs` are one `buf`: each
scan writes every entry that it reads.

What must not be read again is `Stale`: the rows that a swapped graph has left
in the buffers. A model that read one would carry -1 into a weight or a
community. `NothingStale` says that no pass starts from one, and that the
look-ups that its result rests on stay within the ranks and within the span;
those at the end of `vcom` may not (section 4).

### Graph library (`Digraph`, `DigraphReads`, `DigraphLibrary`, `CommunityChecks`)

A graph is a value: existence flags, and for each index a row with what waits
in it (`unprocessed`, negative for removals), so that `addEdge` on a row with
pending removals settles them first, as `LazyBitset::add` does, with any result
of its unstable sort (`Updates`). The operations are functions from graphs to
graphs, or to sets of graphs where a sort leaves a choice.

`DigraphLibrary` runs them as actions: single edits in any order, lazy or not,
`UpdateRow` and `Update`; a batch that is drawn (`GenerateDeletion`,
`GenerateInsertion`: any edge where the code draws a random one), tidied and
applied edge by edge; and derived graphs: `Function(job)` is the graph that a
function starts from and the edges it adds, `Sweep(t)` one of them by thread t,
guarded by `belongsOmp`, `Join` the `updateOmpU` after the region.
`CommunityChecks` adds the search for disconnected communities, one turn of a
thread's loop, one expanded vertex of its frontier a step.

Guards that are the callers' and not the code's: an edge is added by hand only
when it is absent; something reads edges only when every row is settled
(`Quiet`); a parallel region gets a graph whose edges end in vertices
(`Closed`), because `addEdgeIf` creates a missing end without a lock.
`ParallelIsSerial` is false without the last one.

## 3. Runs

| Run | Instance | Shows |
|---|---|---|
| `store_any_feed` | 2 users and "", 2 ids, Release, every post and (with the exceptions below) every forward and comment over them; 526,525 distinct states | agreement of the maps, author lists, interactions listed once, edges, history kept, refinement of the ledger |
| `store_consistent_debug` | 2 users, a post, its forward, a comment on each, Debug | files that agree with each other never trip an assertion |
| `forward_without_author` | the same, Release | **fails**: a forward's post can stay without its author |
| `inplace_sets` | 4 keys, up to 4 + 4 entries, all sorted inputs | unread input untouched, result right |
| `union_duplicates` | 3 keys, up to 2 + 2 | **fails**: a key of both parts can stay twice |
| `lazy_bitset` | 3 keys, 2 values, up to 5 entries | one entry per key, refinement of a map |
| `account_digraph` | 3 accounts, all graphs of up to 3 edges, loops too, 2 threads | the digraph is the one a single thread builds, shared vectors are left alone |
| `queries` | 2 accounts, one of which may be "", 2 posts, up to 2 interactions each, k up to 3; 3 dated posts around New Year, ints of 6 bits; all days of ten years | counts are those of the label over the interactions that the account graph has, and the k largest are shown; common accounts, oldest post and buckets are right in every hash order; dates there and back again |
| `labels_ignore_early` | the same | **fails**: a count leaves out interactions that its label includes |
| `louvain_move` | 3 vertices, every row that `symmetricizeOmp` or an aggregation leaves, with total weight up to 5, 1 and 2 threads | weights of communities are those of their members at every step, a scan counts each entry of the row once, one thread per vertex; with one thread moves gain what was computed and no wake-up is lost; termination |
| `louvain_passes` | a path of 4 vertices with a loop, and no edges; 4 passes, any moves, 1 and 2 threads | scans are sums, slots and regions are right, each pass works on the quotient of the input, nothing stale is read, communities only grow together |
| `digraph_library` | 3 indices, all graphs of up to 3 of 4 edges, 2 edits, 2 draws, 2 threads | refinement of a map of edges, batches mean sets, derived graphs with and without threads, CSR, BFS and DFS, disconnected communities |

Type correctness is proved for the store and the in-place algorithms (section
5); no run spends a property on it.

### Bounds

- Store: `Users`, `Ids`, `Data` and `MaxListed`; the calls go on for
  ever, because every list is bounded by the ids, except that of the account "",
  which `MaxListed` keeps from having a post again when it is that long. Two ids
  are enough for a post that is
  a placeholder, authored, replaced, forwarded, commented and met again as an
  interaction of another post; four in the consistent instance add a forward
  with an interaction of its own. Users but "" and ids are symmetric.
  To keep the run within minutes, interactions are forwards and comments
  (`AddInteraction_` and `AddPost_` do for a quote what they do for a forward);
  only a forward with a user may have the id of the post it is filed under;
  `AddAccounts` loads the account "" alone, the accounts with names come with posts and
  interactions as well, and by `AddAccounts` in the consistent instance; data is
  null, as no property reads it. The proofs have none of these restrictions.
- In-place algorithms: `MaxX` and `MaxY`. Four entries fill the deque (8
  places) to the number of additions; with slack 1 instead of 4 the run fails.
  That the deque wraps around and that its room never runs out is proved for
  every length, see section 5.
- `MaxPairs` bounds the vector of a `LazyBitset`. Five places hold two
  settled and three waiting entries.
- `MaxEdges`, `MaxWeight` bound the account graph. With `ChunkSize` 1 the three
  vertices have different owners among two threads (1024 in the code, where
  small graphs have a single owner). Three edges contain every way in which two
  rows and their reverse rows meet in one, with loops.
- `MaxReceived`, `MaxListed`, `MaxTopk`, `MaxAsked` bound the store of the queries,
  how often the account "" lists a post, k and the accounts asked for; k runs past
  the number of accounts, and an account is asked for twice or unknown. `INT_MAX` is 31: an int of six bits, which later buckets
  do not fit.
  The dates lie on both sides of each other, of the ends of the range and of a
  day that 1971 does not have; the client's dates are all days of the years
  around 1972, 2000, 2100 and 2400, plus a second, a day, a month and a year.

- `S`, `MaxWeight`, `MaxTotal` bound Louvain's graph: three vertices give a
  vertex a choice between two communities, and loops weigh in the total. Single
  edges may have different weights in the two directions, and in a first pass a
  row may have a target twice, as they have in `AccountDigraph`: the account
  edges 0->2, 1->0, 2->0 of weight 1 suffice, a total of 5. `MaxThreads` is 2,
  `ChunkSize` 1 (2048 in the code), so that the threads are in the same iteration over a small graph. `L` is 2 iterations
  (20 in the code): a vertex that was put to sleep meets the flags of the
  next iteration. `InvTolerance` is the 1/0.01 of the first pass.

- `S` = 4 and `P` = 4 bound the passes: the tolerance lets 4 vertices become 3,
  2 and 1, so that graphs and buffers are swapped twice and shorter than their
  vectors, and every exit of the loop is taken in the first and in later passes.
  The tolerance of 0.8 is the code's, in tenths. `H` threads are the length of
  the scan's buffer, `T` the threads it runs with; with one element and two
  threads a chunk is empty.
- `MaxCalls`, `MaxBefore`, `MaxBatch`, `MaxEdges` bound the library: two edits
  meet in one row, as two removals, a removal and an addition, or an edge to a
  removed vertex; one edit comes before a batch, a derived graph or a search;
  a batch has two entries, equal ones, reverse ones or the same edge in both halves.
  `ChunkSize` 1 gives neighbours different owners.

Where the instance really stops (a call has returned, every place or key is
used up) the configuration switches the deadlock check off; the store's and the
container's run keep it on.

### Fairness

Only `LouvainMove` needs it, for `Terminates`: each thread of an OpenMP region
gets to the end of its part (`WF` of its step) and the region then ends (`WF` of
`EndIteration`). No loop waits for another thread, so weak fairness of each is
what the implicit barrier stands for; with several threads only the bound on the
iterations ends the phase. The other specifications state safety: their callers
may stop, and their loops end by a count or a shrinking set that the bounds of
the variables show.

## 4. Where the code and its comments disagree

- *A forward without its author* (`ForwardCreatesPost`). When the interactions
  with a forward are loaded before the forward, its post is a placeholder;
  `AddPost_(id, nullptr, false, dst_uid)` then returns early and does not enter
  the author; only an `AddPosts` with `replace` that has the post would.
- *Duplicates in a union* (`UnionHasNoDuplicates`). After the first insertion
  the loop takes y's entry of a matching pair and does not compare what follows
  in the deque with it: the union of 2 with 1, 2 is 1, 2, 2.
  `UnionLast` is what the code computes, and the other modules use it.
- *Labels that leave out early interactions* (`CountsMeanLabel`). The comments of
  `topk_label_t` name numbers of posts, interactions and accounts without an
  exception. Four of the six labels are counted in the account graph, which
  lacks the interactions that came before their post's author was known
  (`GraphHasEveryInteraction` in `InteractGraph` is not an invariant;
  `EdgesAreRecentInteractions` says what holds), while `INTERACTED_TIMES` is
  counted in the posts' lists and has them. `CountsAreRecorded` says what the
  numbers are: those of the label over the interactions entered.

More were met while modelling and have no run. `symmetricizeOmp` ("Obtain the
symmetric version of a graph in parallel", symmetricize.hxx:68) leaves weights that
are not symmetric: a reverse edge replaces the edge that is there, so two accounts
that interacted with each other 1 and 2 times have their weights swapped, not made
equal; `ScheduleIndependent` gives each row as the union in which the reverse
edge wins, and where the union keeps a key twice, as above, the edge is there
twice, with either weight. Louvain then scans it twice and counts both entries in
the weights of its vertex and of the graph (`ScanCountsEachEntry`).

The account "" is no account like the others. A post whose `userId` is "" remains a
post without author, and each `AddPosts` with `replace` puts it on the list of "" again;
when an author gets known, it is on two accounts' lists. The comment at
interact_graph.hpp:615 calls these lists "posts of the account". The counts of "" for
`POSTS` and `INTERACTED_TIMES` are therefore not counts of posts (`Listless`). An
interaction whose `user_id` is "" takes the user of a later replacing element
(interact_graph.hpp:561), who need not have an account, while its entry in the
account graph stays with "" (`StoredUsers`); nothing else of a stored
interaction ever changes.

A store with a single account gives a digraph without a vertex
(`EveryAccountIsVertex` in `AccountDigraph` fails for `num_accounts = 1`), because
`addVerticesIfU` returns early. Removing a key from a `LazyBitset` that a
re-addition stored twice leaves it there; the program never removes edges, which
is why `usage` separates the two kinds of callers.

Of the local-moving phase: `if (c)` reads community 0 as "no better community",
so nobody ever joins it, while the gain of the move
that was not made still counts in `el`. With two threads, a vertex can put
itself to sleep after a neighbour that moved has woken it: `NoWakeUpLost`
fails without its hypothesis `threads = 1`. And `GainIsReal` needs both its
hypotheses: with two threads, or with asymmetric weights, the change of
modularity that was computed is not the one that happens.

Of the passes: `louvainLookupCommunitiesOmpU`, called by
`louvainRenumberCommunitiesOmpW`, looks up the whole of `vcom`, although the
pass may be shorter and `cv.degrees` has become so. What earlier and longer
passes have left at the end of `vcom` need not be a vertex of this pass: a label
above all that the vertices have is renumbered to the number of communities,
which is beyond the ranks of the next pass. The look-up then reads past the size of
`cv.degrees`, though within its capacity, which is that of the first pass; what
it reads is stored at the end of `vcom` again and no vertex of the input leads
there. With the tolerance of 0.8 it takes more vertices than the run has, so
that an earlier form of `NothingStale`, that no look-up leaves the
ranks, held in the run and turned out to be false when it was to be proved. It
now speaks of the look-ups that matter, and section 5 proves it.

Of the library: an edge to a removed vertex stays in its row and can be removed
neither by `removeEdge` nor by a batch (`EdgeMap` and `BatchMeansSets` say so);
BFS goes on from a rejected start vertex where DFS stops; the search for
disconnected communities starts at the first index of a community even if it is
no vertex, so community 0 behind a removed vertex is flagged wrongly
(`DisconnectedFlags` excludes it); `csrCreateEdgeKeysW` writes 0 for a target
that was not selected.

## 5. Proofs

The theorems hold for all values of the constants, under the assumptions named
in the modules.

- `InteractGraph_proofs`, for all users, ids and elements (`FeedAssumption`,
  `CallAssumption`).
  - `TypeCorrect` and `IndexesAgree`. The invariant `MapsInv` adds to the type and
    the agreement of the maps that the maps are finite (cardinalities count slots),
    that the post of the running call is registered and that every author is a
    registered account: without the last, the slot that `AddInteraction_` indexes
    by the author might not exist. Each handler is reduced to what it does to the
    account maps and to the post maps, and there are lemmas for "register an
    account" and "register a post".
  - `EdgesLeaveAuthors` and `ListsAreAuthors`, from `MapsInv` and the fact that a
    known author never changes. The account "" is excepted where an account's list
    is a set of posts: a post enters the list of a named account only in the
    step that makes it the author.
  - `InteractionsAreListedOnce`: each step either leaves the interaction lists and
    the interaction map alone (but for the user that an interaction may get) or appends one id, stored
    nowhere before, to one list and to the map (`InteractionsShape`); `MapsInv` gives the list it is appended to.
  - `HistoryIsKept` is an action property: a step changes only what its call is
    about, and appends to lists.
  - `GraphIsRecentInteractions` has the invariant
    `RecentInv`: together with the lists and edges proved before, everybody by whom one of
    the recent interactions was stored has an account (`RecentByKnown`), so that an account registered in a
    step has none of the earlier interactions on its edges. As an interaction stored
    with the empty `user_id` may have got a user since, the invariant (like the property)
    asks for users with whom the interactions may have been stored (`StoredUsers`). How many of the last
    n entries of a list are some user's changes by one with an entry of that user
    and not otherwise.
  - `StoreImplementsLedger` is the refinement, with a step `Identify` for an
    interaction that gets its user; `LedgerInv` adds that each post has
    finitely many places in the account graph (`SlotsFinite`), so that one edge
    more is one missed interaction less.
  - `AgreeingFilesNeverAbort` is about the Debug build and has the hypothesis
    `FeedsAgree`: all files name one author for a post and one user for an
    interaction. `MCConsistentFeed` assumes the hypothesis of its instance, so
    that TLC evaluates it there. `NamedInv` says that whatever the store holds
    was named by some file; without it an assertion could compare two names that
    no file has in common.
- `InplaceSets_proofs`, for parts of every length, with repeated keys in either
  (`BoundsAssumption`).
  - `TypeCorrect` and `UnreadNeverOverwritten`. The invariant `Cursors`
    relates the write cursor to the readers: while entries of x are left, it is
    just behind the reader of x; afterwards, what was written plus what waits in
    the deque is at most what was read of both parts, so the write cursor is
    behind the reader of y as well. Its last conjunct, that no more waits than
    additions were read, gives room in the buffer (`PushFacts`, `SavedFacts`).
    Without these counts `TypeOK` and `UnreadUntouched` are not inductive.
  - `ResultCorrect`: the invariant `RInv` adds what array and deque hold, in
    terms of the two parts as they were. It rests on `UnreadUntouched`: what the
    loops read is still the input.
    For a difference (`DiffInv`): an entry of x is kept when as many of its key
    came before it as y has (`Kept`), which is what the two cursors amount to
    (`Balanced`: of the key in hand as many of y were read as of x, or all); the
    kept entries are in front of the array, each at its rank among them (`Written`).
    For a union (`UnionInv`), loop by loop: in the first, the entries of y read so
    far have all replaced a match in x (`Seeking`); where it ends, it has split both
    parts at one key (`Splits`, `EarlyIs`); after that the array holds the updated
    early entries and behind them, in the order of the merge, what was
    taken of the late ones of both parts (`Merged`, `Rest`); the deque
    holds exactly the entries of x that were read and not taken, wrapped around or
    not (`Holds`, `RingGrows`, `RingShrinks`). The order of the merge,
    by key with y before x, is strict on entries that
    know their place, so it determines a sequence by its set of entries
    (`OrderUnique`). That is why the array and the stable sort in `UnionLast`
    are the same sequence without any account of how either came about.
- `LazyBitset_proofs`, for every set of keys and values and every length
  (`LazyBitsetAssumption`). The invariant `BInv` says what the callers' discipline
  leaves in the container: callers that re-add never have removals waiting, waiting
  additions differ in their keys, and for callers that add absent keys what is
  settled is strictly sorted and has none of the keys that wait.
  - `KeysOccurOnce` follows for these callers.
  - `BitsetIsMap` is the refinement of `KeyMap`: an edit changes the map that look-ups
    see in its own key, and settling changes nothing (`UnionFacts`, `DifferenceFacts`
    and `SortingFacts` of `Operators_proofs`, for any order that `std::sort` leaves).
- `AccountDigraph_proofs`, for every store, number of threads and chunk size
  (`DigraphAssumption`). The invariant `AInv` has a part for each phase: while
  loading, a row waits with exactly the edges that are not to do any more
  (`Loaded`); while reversing, the row of v waits with the sources of the edges
  to v among those that the owner of v has passed (`Reversed`), so that the
  other threads' places in the list do not matter.
  - `ScheduleIndependence`: a settled row is strictly sorted, and such a row is
    determined by its keys and values (`HoldsUnique`). `EdgeList`
    is a recursion over the rows; that it exists and lists every edge once follows from a
    least counterexample.
  - `VerticesKept` and `AccountsAreVertices`: with more than one account all
    are vertices before a thread starts. With one account and no edge there is no
    vertex (`Bare`, section 4).
- `Queries_proofs`, for every store, every set of arguments, a clock of any units and
  an int of any size (`TopkAssumption`, `ClockAssumption`, `QueriesAssumption`).
  - `DatesAdvance`: every number of seconds is that of the date `FromUnixSeconds` makes
    of it (`FromUnixSecondsIsRight`). Each of its loops takes
    off lengths until one does not fit, and stops where the sum of the lengths
    says (`TakeOffLands`); years and months are such lengths, also across the end of
    leap years and centuries. The property is about the days in closed form, with
    years that begin in March (`DaysInClosedForm`).
  - `OldestCorrect`: after any of the posts in any order, what is remembered is
    in range and at most what each of them says (`OldestInv`); `operator<` orders
    dates by their seconds (`OrderIsSeconds`).
  - `FreqCorrect`: each bucket has the posts passed so far that the loop counts and
    whose bucket number, narrowed to int, is its own (`FreqInv`). Where the numbers
    fit an int (`Fits`, as in the property) a label is the first second of its bucket
    (`LabelTimes`); a bucket is listed once, sorted or not (`ListedOnce`).
  - `CommonCorrect`: the set that is swapped and cleared is the intersection over
    the accounts taken so far (`CommonInv`); once it is empty, it stays so.
  - `CountsCorrect` and `TopkCorrect`: with scattered additions a counter is the sum
    over the edges that the loops have come to (`Gathered`), otherwise the account's
    own sum; exchanging sums over posts, places and accounts gives what the label means over the
    interactions entered (`EdgesAddUp`, `OwnIsMeaning`); over all that are stored it
    does not hold (section 4). The list of the account "" is excepted (`Listless`). What is shown is a prefix of a descending order
    of all accounts (`Ordered`).
- `LouvainMove_proofs`, for all graphs, numbers of threads and chunk sizes
  (`MoveAssumption`):
  - `VerticesHaveOneThread`. The invariant `MInv` says
    that what is left of the threads' chunks is disjoint and behind `next`
    (`Chunks`), without which two threads could come to the same vertex later.
  - `NoWeightIsLost`: between `Leave` and `Join` a vertex counts where no
    membership says so (`CountsIn`); one step moves one term of the sum from one
    community to another. `TInv` adds the types and the places of the loops
    to `MInv`, and one thread per vertex makes `CountsIn` a single community.
  - `ScansAreComplete`: `SInv` says that a thread's list names exactly the
    entries of its table that are not 0, each once, which is why clearing by
    the list suffices from vertex to vertex, and that the table adds up to the
    entries scanned so far, also in the middle of the row. The proof is
    about any sequences of entries, in which a target may stand any number of
    times; that the rows of `symmetricizeOmp` and of an aggregation are such
    sequences is `InitGraph`.
  - `OneThreadWakesAll`: `WInv`, that an outdated vertex is awake or is about to
    be, and that the vertex in hand is not outdated itself, or `Sleep` would
    lose its wake-up.
  - `MovesGainWhatTheyClaim`: `GInv` says what the table holds for each
    community and that the best one has the gain of a move into it. That the
    modularity changes by this gain is algebra on double sums
    (`Toward`, `Inner`, `Members`) and uses that weights are symmetric.
    Both have the hypothesis of their property, one thread; section 4 says
    what happens with two.
- `LouvainPasses_proofs`, for all graphs, weights, numbers of threads and
  passes, and any moves in each (`PassesAssumption`). The invariant is `PInv`:
  the lengths of the buffers, which outlive the graphs they were made for
  (`Fits`); that labels are vertices, before and after the renumbering
  (`Labels`); that a mark is 1 exactly for a community met so far, and `CN` their
  number (`Marks`); for each scan and each of its stages, what a chunk holds
  (`Scans`: the prefix sums of the chunk alone until `AddBefore` has been
  there); that offsets are the numbers of members before (`Places`); that no
  slot of an earlier pass is pending (`Clean`); that there is a function
  from the claimed vertices to their slots, one to one in each community,
  that agrees with the slots pending and the keys written (`Claims`); that a
  region lists its community (`Listings`).
  - `ScansAddUp`: chunks are the intervals between cuts (`CutFacts`, `ChunkOf`),
    also when there are more threads than elements and chunks are empty.
  - `CommunitiesAreListed`: from `Claims`, by counting: as many different slots as members,
    all in a region of that size (`RegionsFilled`).
  - `PassesOnlyCoarsen` is the refinement of `Coarsening`. `CInv` says which
    vector holds the communities in which phase, and that those of `ucom` are
    vertices of the pass's graph, so that the look-up is within range; `Follows`
    says of each step that vertices of one community stay in one. The
    renumbering is a function of the label, whatever it does to the labels
    beyond the span.
  The rest is about the graphs of the passes, under
  `InputsAssumption` as well: weights are natural numbers on edges between
  vertices, as interactions are counted. The invariant `AInv` is inductive
  together with `PInv`: the pass has a graph, with targets in its span, one edge to
  a target, and no more edges than the input (`Graphs`); the buffers are as
  long as that (`Buffers`); the offsets are sums of the rooms (`LaidOut`);
  what has been aggregated is still there while others are (`FilledIn`).
  - `AggregationFits`: a community has room for the edges of its members, and
    what is written of it is one edge for each community seen, of which there
    are not more than edges (`Aggregated`, `OffsetsAddUp`). The rooms of all
    communities together are the edges of the pass, by exchanging sums
    (`RoomsAddUp`), so the next graph has not more edges than this one.
  - `PassesStartAnew`: `Fresh` and `Inside`, what `NextPass` resets and that
    the communities of the input's vertices stay within the span.
  - `LaterPassesAreQuotients`: the invariant `QInv` says that there is a map `b`
    from the input's vertices to those of the pass such that the weight from
    any set of them to any other is that of the input between the sets that `b`
    sends there (`Quotient`); for single vertices alone it would not be
    inductive, as a community is a set of vertices of the pass. In the
    middle of a pass `b` is what the last pass has left, and `ucom` is `b`
    followed by the new communities once they are renumbered (`Based`).
    `NextIsQuotient` is the step: what `Seen` adds up, in whatever
    order the vertices were listed and the targets met, is the sum over the edges
    out of the community's members (`SeenFacts`, `EdgesAddUp`).
- `Operators_proofs`: the library's induction theorems take an operator as a
  parameter, which the provers cannot instantiate. The lemmas use instead that a
  set of numbers that is not empty has a least element (`LeastNat`), for the set of
  counterexamples: a sum exists and is unique, is an integer, can be split, and
  changes by the change of one term; sums of sums exchange, a sum splits into
  classes and does not depend on the order of its terms; the ranks of a finite
  set of numbers enumerate it; the sizes of the parts of a finite set add up. For
  sequences of entries with keys of any kind: what differences, unions, stable and
  unstable sorts do to keys, look-ups and order, and that a strictly sorted
  sequence is determined by its look-ups.

Only model-checked:

- `Terminates` of `LouvainMove`: liveness under fairness is out of the prover's reach.
- `DigraphLibrary` and `CommunityChecks`, with the refinement of `EdgeMap`: depth-first
  search is a recursive operator, whose presence takes the prover's arithmetic
  away from every module above it, and batches and derived graphs are folds over
  lists, whose values for lists of any length need induction over data. What an
  update does to one row is the union and the difference proved above.

## 6. Abstractions, and what is not modelled

- JSON parsing, string formatting, logs, timings and the Python wrappers.
- The order of hash maps is a nondeterministic choice, or left out where no
  property depends on it.
- Integer widths: the bucket number of `PostsByFreq` has one (`INT_MAX`); the other
  counters and indexes are bounded by the size of the store or the graph. The
  narrowing of `to_days` and its siblings, `int days` (datetime.hpp:204)
  among them, is left out.
- Louvain's weights are integers, and a change of modularity is multiplied by
  2M^2, so that it is exact; the code computes in `double`. The resolution is 1.
- `Choose` of `LouvainMove` reads the weights of both communities in one step;
  louvainChooseCommunity (louvain.hxx:462) reads one after the other, and another
  thread may change one in between. The properties that speak of several
  threads do not depend on which community is chosen.
- `InputRow` of `LouvainPasses` has one entry for a target, although a row of the
  first pass may have two (section 4): what a pass does with a row is to add up
  weights by target or by community, and there two entries are one with
  the sum of their weights. That no more is written than has room does not depend on
  it either: the room is counted in entries, what is written in communities.
- A parallel loop whose turns touch entries of their own, or add atomically to
  shared ones that the loop does not read, is one step in `LouvainPasses`.
- Both parallel regions of a scan have the same number of threads, which OpenMP
  gives unless threads are limited between them.
- Vertex values of `DiGraph` (nothing depends on them, `transposeWithDegree`
  only copies degrees there), capacities, `countSelfLoops`, untidied batches.
- `modularityBy` and its parallel sum, `vertexValues`, `degrees`: read-only
  sums with independent terms; `LouvainMove` states modularity itself.
- The dynamic variants of Louvain (`louvainInitializeFrom*`,
  `louvainUpdateWeightsFrom*`, `louvainSetupInitialsW`): templates without a caller.
- Element-wise loops of `_vector.hxx`, iterators, string and type utilities:
  no state.
- `_cuda.hxx`, `_mpi.hxx`, `mtx.hxx`, `_random.hxx`: device, MPI and file code
  without a caller in the program. Vendored libraries (`third_party`).

## 7. Plan

1. The dynamic variants of Louvain, once something calls them: initial
   memberships and the affected vertices of a batch, with `DigraphLibrary` as
   the source of batches.
2. Depth-first search as a function of the visited set instead of a recursive
   operator; then the folds of `DigraphLibrary` as functions of the
   length, so that `BatchMeansSets` can be proved as `ScheduleIndependent` was.
3. `LouvainMove` with four vertices and chunks of two.
