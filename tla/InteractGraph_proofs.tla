------------------------- MODULE InteractGraph_proofs -------------------------
(***************************************************************************)
(* Machine-checked facts about InteractGraph, for every set of users, ids, *)
(* data and every feed.                                                    *)
(***************************************************************************)
EXTENDS InteractGraph, FiniteSetTheorems, TLAPS

(* What the type invariant and MapsAgree need to be inductive: the keyed   *)
(* sets are finite (an index is their size), the post being interacted     *)
(* with is registered, and a known author has an account.                  *)
FiniteMaps == IsFiniteSet(DOMAIN account2idx_map_) /\ IsFiniteSet(DOMAIN post2idx_map_)
CallOnKnownPost == call \in Calls => HasPost(call.post)
AuthorsKnown == \A q \in DOMAIN idx2post_map_ : AuthorOf(q) # NoUid => HasAccount(AuthorOf(q))

MapsInv == TypeOK /\ MapsAgree /\ FiniteMaps /\ CallOnKnownPost /\ AuthorsKnown

(* The account side after AddAccount_(u, nullptr, false), up to what the   *)
(* callers then write into the slots.                                      *)
AccountsAfter(u) ==
  /\ account2idx_map_' = Account2IdxWith(u)
  /\ DOMAIN idx2account_map_' = DOMAIN Idx2AccountWith(u)
  /\ \A a \in DOMAIN idx2account_map_' :
       idx2account_map_'[a].userId = Idx2AccountWith(u)[a].userId
  /\ DOMAIN account_posts_' = DOMAIN AccountPostsWith(u)
  /\ DOMAIN account_graph_' = DOMAIN AccountGraphWith(u)

(* The post side when no post is registered, up to the slots' contents.    *)
PostsKept ==
  /\ post2idx_map_' = post2idx_map_
  /\ DOMAIN idx2post_map_' = DOMAIN idx2post_map_
  /\ \A q \in DOMAIN idx2post_map_ : idx2post_map_'[q].post_id = idx2post_map_[q].post_id
  /\ DOMAIN post_interactions_' = DOMAIN post_interactions_

(* The post side when post p is registered.                                *)
PostRegistered(p) ==
  /\ post2idx_map_' = Put(post2idx_map_, p, num_posts)
  /\ DOMAIN idx2post_map_' = DOMAIN idx2post_map_ \cup {num_posts}
  /\ \A q \in DOMAIN idx2post_map_ : idx2post_map_'[q].post_id = idx2post_map_[q].post_id
  /\ idx2post_map_'[num_posts].post_id = p
  /\ DOMAIN post_interactions_' = DOMAIN post_interactions_ \cup {num_posts}

-----------------------------------------------------------------------------
(* Adding to a finite set what it lacks makes it one larger.               *)
LEMMA SizeAfterAdd ==
  ASSUME NEW S, IsFiniteSet(S), NEW x, x \notin S
  PROVE  /\ IsFiniteSet(S \cup {x})
         /\ Cardinality(S) \in Nat
         /\ Cardinality(S \cup {x}) = Cardinality(S) + 1
  BY FS_AddElement, FS_CardinalityType

(* push_back on one slot of a vector of vectors keeps its type.            *)
LEMMA PushBackType ==
  ASSUME NEW D, NEW T, NEW f \in [D -> Seq(T)], NEW i, NEW x \in T
  PROVE  [f EXCEPT ![i] = Append(@, x)] \in [D -> Seq(T)]
<1>1. ASSUME NEW j \in D
      PROVE  [f EXCEPT ![i] = Append(@, x)][j] \in Seq(T)
  <2>1. f[j] \in Seq(T)
    OBVIOUS
  <2>2. Append(f[j], x) \in Seq(T)
    BY <2>1
  <2> QED
    BY <2>1, <2>2
<1> QED
  BY <1>1

(* AddAccount_ keeps the account maps in agreement.                        *)
LEMMA AccountMapsAfter ==
  ASSUME AccountMaps, IsFiniteSet(DOMAIN account2idx_map_), NEW u, AccountsAfter(u)
  PROVE  AccountMaps' /\ IsFiniteSet(DOMAIN account2idx_map_)'
<1>1. CASE HasAccount(u)
  BY <1>1 DEF AccountMaps, AccountsAfter, Account2IdxWith, Idx2AccountWith,
       AccountPostsWith, AccountGraphWith, UserOfIdx, num_accounts
<1>2. CASE ~HasAccount(u)
  <2> DEFINE n == num_accounts
  <2>1. /\ n \in Nat
        /\ Cardinality(DOMAIN account2idx_map_ \cup {u}) = n + 1
        /\ IsFiniteSet(DOMAIN account2idx_map_ \cup {u})
    BY <1>2, SizeAfterAdd DEF num_accounts, HasAccount
  <2>2. /\ account2idx_map_' = Put(account2idx_map_, u, n)
        /\ DOMAIN account2idx_map_' = DOMAIN account2idx_map_ \cup {u}
    BY <1>2 DEF AccountsAfter, Account2IdxWith, Put
  <2>3. num_accounts' = n + 1
    BY <2>1, <2>2 DEF num_accounts
  <2>4. 0..n = (0..(n - 1)) \cup {n}
    BY <2>1
  <2>5. /\ DOMAIN idx2account_map_' = DOMAIN idx2account_map_ \cup {n}
        /\ DOMAIN account_posts_' = DOMAIN account_posts_ \cup {n}
        /\ DOMAIN account_graph_' = DOMAIN account_graph_ \cup {n}
    <3>1. DOMAIN idx2account_map_' = DOMAIN idx2account_map_ \cup {n}
      BY <1>2 DEF AccountsAfter, Idx2AccountWith, Put
    <3>2. DOMAIN account_posts_' = DOMAIN account_posts_ \cup {n}
      BY <1>2 DEF AccountsAfter, AccountPostsWith, Put
    <3>3. DOMAIN account_graph_' = DOMAIN account_graph_ \cup {n}
      BY <1>2 DEF AccountsAfter, AccountGraphWith, Put
    <3> QED BY <3>1, <3>2, <3>3
  <2>6. n \notin DOMAIN idx2account_map_
    BY <2>1 DEF AccountMaps
  <2>7. /\ idx2account_map_'[n].userId = u
        /\ \A a \in DOMAIN idx2account_map_ :
             idx2account_map_'[a].userId = idx2account_map_[a].userId
    BY <1>2, <2>5, <2>6 DEF AccountsAfter, Idx2AccountWith, Put
  <2>8. /\ account2idx_map_'[u] = n
        /\ \A w \in DOMAIN account2idx_map_ : account2idx_map_'[w] = account2idx_map_[w]
    BY <1>2, <2>2 DEF HasAccount, Put
  <2>9. \A w \in DOMAIN account2idx_map_' :
          /\ account2idx_map_'[w] \in DOMAIN idx2account_map_'
          /\ idx2account_map_'[account2idx_map_'[w]].userId = w
    BY <2>2, <2>5, <2>7, <2>8 DEF AccountMaps, UserOfIdx
  <2>10. \A a \in DOMAIN idx2account_map_' :
          /\ idx2account_map_'[a].userId \in DOMAIN account2idx_map_'
          /\ account2idx_map_'[idx2account_map_'[a].userId] = a
    BY <2>2, <2>5, <2>7, <2>8 DEF AccountMaps, UserOfIdx
  <2>11. /\ DOMAIN idx2account_map_' = 0..(num_accounts' - 1)
         /\ DOMAIN account_posts_' = DOMAIN idx2account_map_'
         /\ DOMAIN account_graph_' = DOMAIN idx2account_map_'
    BY <2>1, <2>3, <2>4, <2>5 DEF AccountMaps
  <2> QED
    BY <2>1, <2>2, <2>9, <2>10, <2>11 DEF AccountMaps, UserOfIdx
<1> QED
  BY <1>1, <1>2

(* Registering an unknown post keeps the post maps in agreement.           *)
LEMMA PostMapsRegistered ==
  ASSUME PostMaps, IsFiniteSet(DOMAIN post2idx_map_), NEW p, ~HasPost(p), PostRegistered(p)
  PROVE  PostMaps' /\ IsFiniteSet(DOMAIN post2idx_map_)'
<1> DEFINE n == num_posts
<1>1. /\ n \in Nat
      /\ Cardinality(DOMAIN post2idx_map_ \cup {p}) = n + 1
      /\ IsFiniteSet(DOMAIN post2idx_map_ \cup {p})
  BY SizeAfterAdd DEF num_posts, HasPost
<1>2. /\ DOMAIN post2idx_map_' = DOMAIN post2idx_map_ \cup {p}
      /\ post2idx_map_'[p] = n
      /\ \A r \in DOMAIN post2idx_map_ : post2idx_map_'[r] = post2idx_map_[r]
  BY DEF PostRegistered, HasPost, Put
<1>3. num_posts' = n + 1
  BY <1>1, <1>2 DEF num_posts
<1>4. n \notin DOMAIN idx2post_map_ /\ 0..n = (0..(n - 1)) \cup {n}
  BY <1>1 DEF PostMaps
<1>5. \A r \in DOMAIN post2idx_map_' :
        /\ post2idx_map_'[r] \in DOMAIN idx2post_map_'
        /\ idx2post_map_'[post2idx_map_'[r]].post_id = r
  BY <1>2 DEF PostMaps, PostRegistered, PostInfo
<1>6. \A q \in DOMAIN idx2post_map_' :
        /\ idx2post_map_'[q].post_id \in DOMAIN post2idx_map_'
        /\ post2idx_map_'[idx2post_map_'[q].post_id] = q
  BY <1>2, <1>4 DEF PostMaps, PostRegistered, PostInfo
<1>7. /\ DOMAIN idx2post_map_' = 0..(num_posts' - 1)
      /\ DOMAIN post_interactions_' = DOMAIN idx2post_map_'
  BY <1>1, <1>3, <1>4 DEF PostMaps, PostRegistered
<1> QED
  BY <1>1, <1>2, <1>5, <1>6, <1>7 DEF PostMaps, PostInfo

LEMMA PostMapsKept ==
  ASSUME PostMaps, IsFiniteSet(DOMAIN post2idx_map_), PostsKept
  PROVE  PostMaps' /\ IsFiniteSet(DOMAIN post2idx_map_)'
  BY DEF PostMaps, PostsKept, PostInfo, num_posts
-----------------------------------------------------------------------------
(* The shape of the maps that AddAccount_ leaves.                          *)
TypesAfter(u) ==
  /\ Account2IdxWith(u) \in [DOMAIN Account2IdxWith(u) -> Nat]
  /\ DOMAIN Account2IdxWith(u) = DOMAIN account2idx_map_ \cup {u}
  /\ Idx2AccountWith(u) \in [DOMAIN Idx2AccountWith(u) ->
                               [userId : Users, data : Data \cup {NoData}]]
  /\ AccountPostsWith(u) \in [DOMAIN AccountPostsWith(u) -> Seq(Nat)]
  /\ AccountGraphWith(u) = [a \in DOMAIN AccountGraphWith(u) |-> AccountGraphWith(u)[a]]
  /\ \A a \in DOMAIN AccountGraphWith(u) :
       AccountGraphWith(u)[a] \in [DOMAIN AccountGraphWith(u)[a] -> Seq(Nat)]
  /\ DOMAIN AccountPostsWith(u) = DOMAIN Idx2AccountWith(u)
  /\ DOMAIN AccountGraphWith(u) = DOMAIN Idx2AccountWith(u)
  /\ DOMAIN idx2account_map_ \subseteq DOMAIN Idx2AccountWith(u)
  /\ IdxWith(u) \in DOMAIN Idx2AccountWith(u)
  /\ Idx2AccountWith(u)[IdxWith(u)].userId = u

LEMMA AccountTypesAfter ==
  ASSUME MapsInv, NEW u \in Users
  PROVE  TypesAfter(u)
<1>1. num_accounts \in Nat
  BY FS_CardinalityType DEF num_accounts, MapsInv, FiniteMaps
<1>2. AccountTypeOK /\ AccountMaps
  BY DEF MapsInv, TypeOK, MapsAgree
<1>3. CASE HasAccount(u)
  BY <1>2, <1>3 DEF AccountTypeOK, AccountMaps, HasAccount, Account2IdxWith, Idx2AccountWith,
       AccountPostsWith, AccountGraphWith, IdxWith, UserOfIdx, TypesAfter
<1>4. CASE ~HasAccount(u)
  <2>1. /\ Account2IdxWith(u) \in [DOMAIN Account2IdxWith(u) -> Nat]
        /\ DOMAIN Account2IdxWith(u) = DOMAIN account2idx_map_ \cup {u}
    BY <1>1, <1>2, <1>4 DEF AccountTypeOK, Account2IdxWith, Put
  <2>2. /\ Idx2AccountWith(u) \in [DOMAIN Idx2AccountWith(u) ->
                                     [userId : Users, data : Data \cup {NoData}]]
        /\ DOMAIN Idx2AccountWith(u) = DOMAIN idx2account_map_ \cup {num_accounts}
        /\ Idx2AccountWith(u)[num_accounts].userId = u
    BY <1>2, <1>4 DEF AccountTypeOK, Idx2AccountWith, Put
  <2>3. /\ AccountPostsWith(u) \in [DOMAIN AccountPostsWith(u) -> Seq(Nat)]
        /\ DOMAIN AccountPostsWith(u) = DOMAIN account_posts_ \cup {num_accounts}
    BY <1>2, <1>4 DEF AccountTypeOK, AccountPostsWith, Put
  <2>4. /\ AccountGraphWith(u) = [a \in DOMAIN AccountGraphWith(u) |-> AccountGraphWith(u)[a]]
        /\ DOMAIN AccountGraphWith(u) = DOMAIN account_graph_ \cup {num_accounts}
    BY <1>2, <1>4 DEF AccountTypeOK, AccountGraphWith, Put
  <2>5. ASSUME NEW a \in DOMAIN AccountGraphWith(u)
        PROVE  AccountGraphWith(u)[a] \in [DOMAIN AccountGraphWith(u)[a] -> Seq(Nat)]
    BY <1>2, <1>4, <2>4 DEF AccountTypeOK, AccountGraphWith, Put, EmptyMap
  <2> QED
    BY <1>1, <1>2, <1>4, <2>1, <2>2, <2>3, <2>4, <2>5 DEF AccountMaps, IdxWith, TypesAfter
<1> QED
  BY <1>3, <1>4

(* The account half of the invariant after AddAccount_, whatever well-typed *)
(* values the caller then writes into the slots.                           *)
LEMMA AccountSideKept ==
  ASSUME MapsInv, NEW u \in Users, AccountsAfter(u),
         idx2account_map_' \in [DOMAIN Idx2AccountWith(u) ->
                                  [userId : Users, data : Data \cup {NoData}]],
         account_posts_' \in [DOMAIN AccountPostsWith(u) -> Seq(Nat)],
         account_graph_' = [a \in DOMAIN account_graph_' |-> account_graph_'[a]],
         \A a \in DOMAIN account_graph_' :
           account_graph_'[a] \in [DOMAIN account_graph_'[a] -> Seq(Nat)]
  PROVE  /\ AccountTypeOK' /\ AccountMaps' /\ IsFiniteSet(DOMAIN account2idx_map_)'
         /\ \A v \in DOMAIN account2idx_map_ \cup {u} : HasAccount(v)'
<1>1. TypesAfter(u)
  BY AccountTypesAfter
<1>2. AccountMaps' /\ IsFiniteSet(DOMAIN account2idx_map_)'
  BY AccountMapsAfter DEF MapsInv, MapsAgree, FiniteMaps
<1>3. account2idx_map_' = Account2IdxWith(u)
  BY DEF AccountsAfter
<1>4. /\ account2idx_map_' \in [DOMAIN account2idx_map_' -> Nat]
      /\ DOMAIN account2idx_map_' = DOMAIN account2idx_map_ \cup {u}
  BY <1>1, <1>3 DEF TypesAfter
<1>5. DOMAIN account2idx_map_' \subseteq Users
  BY <1>4 DEF MapsInv, TypeOK, AccountTypeOK
<1> QED
  BY <1>2, <1>4, <1>5 DEF AccountTypeOK, HasAccount

(* The same when no account is touched.                                    *)
LEMMA AccountSideUnchanged ==
  ASSUME MapsInv, UNCHANGED accountVars
  PROVE  /\ AccountTypeOK' /\ AccountMaps' /\ IsFiniteSet(DOMAIN account2idx_map_)'
         /\ \A v \in DOMAIN account2idx_map_ : HasAccount(v)'
  BY DEF MapsInv, TypeOK, AccountTypeOK, MapsAgree, AccountMaps, FiniteMaps, accountVars,
       UserOfIdx, num_accounts, HasAccount

(* AddEdge appends to one list and leaves every other list alone.          *)
LEMMA AddEdgeShape ==
  ASSUME NEW g, g = [a \in DOMAIN g |-> g[a]],
         \A a \in DOMAIN g : g[a] \in [DOMAIN g[a] -> Seq(Nat)],
         NEW src \in DOMAIN g, NEW dst, NEW pidx \in Nat
  PROVE  LET h == AddEdge(g, src, dst, pidx)
             old == IF dst \in DOMAIN g[src] THEN g[src][dst] ELSE <<>>
         IN  /\ DOMAIN h = DOMAIN g
             /\ h = [a \in DOMAIN h |-> h[a]]
             /\ \A a \in DOMAIN h : h[a] \in [DOMAIN h[a] -> Seq(Nat)]
             /\ \A a \in DOMAIN h : a # src => h[a] = g[a]
             /\ DOMAIN h[src] = DOMAIN g[src] \cup {dst}
             /\ \A b \in DOMAIN g[src] : b # dst => h[src][b] = g[src][b]
             /\ h[src][dst] = Append(old, pidx)
             /\ old \in Seq(Nat)
<1> DEFINE old == IF dst \in DOMAIN g[src] THEN g[src][dst] ELSE <<>>
           h == AddEdge(g, src, dst, pidx)
<1>1. old \in Seq(Nat)
  OBVIOUS
<1>2. Append(old, pidx) \in Seq(Nat)
  BY <1>1
<1> HIDE DEF old
<1>3. h = [g EXCEPT ![src] = Put(g[src], dst, Append(old, pidx))]
  BY DEF AddEdge, old
<1>4. /\ DOMAIN h = DOMAIN g
      /\ h = [a \in DOMAIN h |-> h[a]]
      /\ \A a \in DOMAIN h : a # src => h[a] = g[a]
      /\ h[src] = Put(g[src], dst, Append(old, pidx))
  BY <1>3
<1> HIDE DEF h
<1>5. /\ DOMAIN h[src] = DOMAIN g[src] \cup {dst}
      /\ \A b \in DOMAIN g[src] : b # dst => h[src][b] = g[src][b]
      /\ h[src][dst] = Append(old, pidx)
      /\ h[src] \in [DOMAIN h[src] -> Seq(Nat)]
  BY <1>2, <1>4 DEF Put
<1>6. \A a \in DOMAIN h : h[a] \in [DOMAIN h[a] -> Seq(Nat)]
  BY <1>4, <1>5
<1> QED
  BY <1>1, <1>4, <1>5, <1>6 DEF h, old
-----------------------------------------------------------------------------
(* The two ways the post half changes: one more post, or new contents.     *)
LEMMA PostSideRegistered ==
  ASSUME MapsInv, NEW p \in Ids, ~HasPost(p), PostRegistered(p),
         idx2post_map_' \in [DOMAIN idx2post_map_' ->
             [userId : Users \cup {NoUid}, post_id : Ids, data : Data \cup {NoData}]],
         post_interactions_' \in [DOMAIN post_interactions_' -> Seq(Ids)]
  PROVE  /\ PostTypeOK' /\ PostMaps' /\ IsFiniteSet(DOMAIN post2idx_map_)'
         /\ \A r \in DOMAIN post2idx_map_ \cup {p} : HasPost(r)'
<1>1. PostMaps' /\ IsFiniteSet(DOMAIN post2idx_map_)'
  BY PostMapsRegistered DEF MapsInv, MapsAgree, FiniteMaps
<1>2. num_posts \in Nat
  BY FS_CardinalityType DEF num_posts, MapsInv, FiniteMaps
<1>3. /\ DOMAIN post2idx_map_' = DOMAIN post2idx_map_ \cup {p}
      /\ post2idx_map_' \in [DOMAIN post2idx_map_' -> Nat]
      /\ DOMAIN post2idx_map_' \subseteq Ids
  BY <1>2 DEF MapsInv, TypeOK, PostTypeOK, PostRegistered, Put
<1> QED
  BY <1>1, <1>3 DEF PostTypeOK, HasPost

LEMMA PostSideKept ==
  ASSUME MapsInv, PostsKept,
         idx2post_map_' \in [DOMAIN idx2post_map_' ->
             [userId : Users \cup {NoUid}, post_id : Ids, data : Data \cup {NoData}]],
         post_interactions_' \in [DOMAIN post_interactions_' -> Seq(Ids)]
  PROVE  /\ PostTypeOK' /\ PostMaps' /\ IsFiniteSet(DOMAIN post2idx_map_)'
         /\ \A r \in DOMAIN post2idx_map_ : HasPost(r)'
<1>1. PostMaps' /\ IsFiniteSet(DOMAIN post2idx_map_)'
  BY PostMapsKept DEF MapsInv, MapsAgree, FiniteMaps
<1> QED
  BY <1>1 DEF MapsInv, TypeOK, PostTypeOK, PostsKept, HasPost

LEMMA PostSideUnchanged ==
  ASSUME MapsInv, UNCHANGED postVars
  PROVE  /\ PostTypeOK' /\ PostMaps' /\ IsFiniteSet(DOMAIN post2idx_map_)'
         /\ \A r \in DOMAIN post2idx_map_ : HasPost(r)'
  BY PostSideKept DEF MapsInv, TypeOK, PostTypeOK, PostsKept, postVars

-----------------------------------------------------------------------------
(* Each action keeps MapsInv.                                              *)
LEMMA AddAccountKeepsMaps ==
  ASSUME MapsInv, NEW u \in Users, NEW d \in Data, NEW replace \in BOOLEAN,
         AddAccount(u, d, replace)
  PROVE  MapsInv'
<1>1. /\ PostTypeOK' /\ PostMaps' /\ IsFiniteSet(DOMAIN post2idx_map_)'
      /\ \A r \in DOMAIN post2idx_map_ : HasPost(r)'
      /\ UNCHANGED <<post2idx_map_, idx2post_map_, post_interactions_, interact_map_, call>>
  BY PostSideUnchanged DEF AddAccount, postVars
<1>2. /\ AccountTypeOK' /\ AccountMaps' /\ IsFiniteSet(DOMAIN account2idx_map_)'
      /\ \A v \in DOMAIN account2idx_map_ : HasAccount(v)'
  <2>1. CASE HasAccount(u) /\ ~replace
    BY <2>1, AccountSideUnchanged DEF AddAccount
  <2>2. CASE ~(HasAccount(u) /\ ~replace)
    <3>1. /\ account2idx_map_' = Account2IdxWith(u)
          /\ idx2account_map_' = [Idx2AccountWith(u) EXCEPT ![IdxWith(u)].data = d]
          /\ account_posts_' = AccountPostsWith(u)
          /\ account_graph_' = AccountGraphWith(u)
      BY <2>2 DEF AddAccount
    <3>2. TypesAfter(u)
      BY AccountTypesAfter
    <3>3. idx2account_map_' \in [DOMAIN Idx2AccountWith(u) ->
                                   [userId : Users, data : Data \cup {NoData}]]
      BY <3>1, <3>2 DEF TypesAfter
    <3>4. AccountsAfter(u)
      BY <3>1, <3>2 DEF AccountsAfter, TypesAfter
    <3>5. /\ account_posts_' \in [DOMAIN AccountPostsWith(u) -> Seq(Nat)]
          /\ account_graph_' = [a \in DOMAIN account_graph_' |-> account_graph_'[a]]
          /\ \A a \in DOMAIN account_graph_' :
               account_graph_'[a] \in [DOMAIN account_graph_'[a] -> Seq(Nat)]
      BY <3>1, <3>2 DEF TypesAfter
    <3> QED
      BY <3>3, <3>4, <3>5, AccountSideKept
  <2> QED
    BY <2>1, <2>2
<1>3. CallOnKnownPost' /\ AuthorsKnown'
  BY <1>1, <1>2 DEF MapsInv, CallOnKnownPost, AuthorsKnown, HasPost, HasAccount, AuthorOf
<1> QED
  BY <1>1, <1>2, <1>3 DEF MapsInv, TypeOK, MapsAgree, FiniteMaps

(* The parts of MapsInv put together again.                                *)
LEMMA MapsFromParts ==
  ASSUME AccountTypeOK', AccountMaps', IsFiniteSet(DOMAIN account2idx_map_)',
         PostTypeOK', PostMaps', IsFiniteSet(DOMAIN post2idx_map_)',
         interact_map_' \in [DOMAIN interact_map_' -> [itype : ITypes, userId : Users]],
         DOMAIN interact_map_' \subseteq Ids,
         call' \in Calls \cup {Idle, Aborted},
         CallOnKnownPost', AuthorsKnown'
  PROVE  MapsInv'
  BY DEF MapsInv, TypeOK, MapsAgree, FiniteMaps

(* Registering a post, with or without its author.                         *)
LEMMA RegisterPostFacts ==
  ASSUME MapsInv, NEW p \in Ids, ~HasPost(p),
         NEW info \in [userId : Users \cup {NoUid}, post_id : Ids, data : Data \cup {NoData}],
         info.post_id = p, RegisterPost(p, info)
  PROVE  /\ PostTypeOK' /\ PostMaps' /\ IsFiniteSet(DOMAIN post2idx_map_)'
         /\ \A r \in DOMAIN post2idx_map_ \cup {p} : HasPost(r)'
         /\ DOMAIN idx2post_map_' = DOMAIN idx2post_map_ \cup {num_posts}
         /\ idx2post_map_'[num_posts] = info
         /\ \A q \in DOMAIN idx2post_map_ : idx2post_map_'[q] = idx2post_map_[q]
         /\ DOMAIN post_interactions_' = DOMAIN post_interactions_ \cup {num_posts}
         /\ post_interactions_'[num_posts] = <<>>
         /\ \A q \in DOMAIN post_interactions_ : post_interactions_'[q] = post_interactions_[q]
<1>1. num_posts \in Nat /\ num_posts \notin DOMAIN idx2post_map_
  BY FS_CardinalityType DEF num_posts, MapsInv, FiniteMaps, MapsAgree, PostMaps
<1>2. DOMAIN post_interactions_ = DOMAIN idx2post_map_
  BY DEF MapsInv, MapsAgree, PostMaps
<1>3. /\ DOMAIN idx2post_map_' = DOMAIN idx2post_map_ \cup {num_posts}
      /\ idx2post_map_'[num_posts] = info
      /\ \A q \in DOMAIN idx2post_map_ : idx2post_map_'[q] = idx2post_map_[q]
      /\ DOMAIN post_interactions_' = DOMAIN post_interactions_ \cup {num_posts}
      /\ post_interactions_'[num_posts] = <<>>
      /\ \A q \in DOMAIN post_interactions_ : post_interactions_'[q] = post_interactions_[q]
  BY <1>1, <1>2 DEF RegisterPost, Put
<1>4. PostRegistered(p)
  BY <1>3 DEF PostRegistered, RegisterPost
<1>5. /\ idx2post_map_' \in [DOMAIN idx2post_map_' ->
             [userId : Users \cup {NoUid}, post_id : Ids, data : Data \cup {NoData}]]
      /\ post_interactions_' \in [DOMAIN post_interactions_' -> Seq(Ids)]
  BY DEF RegisterPost, Put, MapsInv, TypeOK, PostTypeOK
<1> QED
  BY <1>3, <1>4, <1>5, PostSideRegistered

(* Appending a post to the list of account u after AddAccount_(u).         *)
LEMMA AppendPost ==
  ASSUME MapsInv, NEW u \in Users, NEW q \in Nat,
         account2idx_map_' = Account2IdxWith(u),
         idx2account_map_' = Idx2AccountWith(u),
         account_posts_' = [AccountPostsWith(u) EXCEPT ![IdxWith(u)] = Append(@, q)],
         account_graph_' = AccountGraphWith(u)
  PROVE  /\ AccountTypeOK' /\ AccountMaps' /\ IsFiniteSet(DOMAIN account2idx_map_)'
         /\ \A v \in DOMAIN account2idx_map_ \cup {u} : HasAccount(v)'
<1>1. TypesAfter(u)
  BY AccountTypesAfter
<1>2. /\ account_posts_' \in [DOMAIN AccountPostsWith(u) -> Seq(Nat)]
      /\ AccountsAfter(u)
  BY <1>1 DEF TypesAfter, AccountsAfter
<1>3. /\ idx2account_map_' \in [DOMAIN Idx2AccountWith(u) ->
                                   [userId : Users, data : Data \cup {NoData}]]
      /\ account_graph_' = [a \in DOMAIN account_graph_' |-> account_graph_'[a]]
      /\ \A a \in DOMAIN account_graph_' :
               account_graph_'[a] \in [DOMAIN account_graph_'[a] -> Seq(Nat)]
  BY <1>1 DEF TypesAfter
<1> QED
  BY <1>2, <1>3, AccountSideKept

(* New contents for the info of a known post.                              *)
LEMMA RewritePost ==
  ASSUME MapsInv, NEW p, HasPost(p), UNCHANGED <<post2idx_map_, post_interactions_>>,
         NEW info \in [userId : Users \cup {NoUid}, post_id : Ids, data : Data \cup {NoData}],
         info.post_id = PostInfo(p).post_id,
         idx2post_map_' = [idx2post_map_ EXCEPT ![post2idx_map_[p]] = info]
  PROVE  /\ PostTypeOK' /\ PostMaps' /\ IsFiniteSet(DOMAIN post2idx_map_)'
         /\ post2idx_map_[p] \in DOMAIN idx2post_map_
         /\ DOMAIN idx2post_map_' = DOMAIN idx2post_map_
         /\ idx2post_map_'[post2idx_map_[p]] = info
         /\ \A q \in DOMAIN idx2post_map_ :
              q # post2idx_map_[p] => idx2post_map_'[q] = idx2post_map_[q]
<1>1. post2idx_map_[p] \in DOMAIN idx2post_map_
  BY DEF MapsInv, MapsAgree, PostMaps, HasPost
<1>2. /\ DOMAIN idx2post_map_' = DOMAIN idx2post_map_
      /\ idx2post_map_'[post2idx_map_[p]] = info
      /\ \A q \in DOMAIN idx2post_map_ :
           q # post2idx_map_[p] => idx2post_map_'[q] = idx2post_map_[q]
  BY <1>1
<1>3. idx2post_map_' \in [DOMAIN idx2post_map_' ->
             [userId : Users \cup {NoUid}, post_id : Ids, data : Data \cup {NoData}]]
  BY <1>1 DEF MapsInv, TypeOK, PostTypeOK
<1>4. PostsKept
  BY <1>2 DEF PostsKept, PostInfo
<1>5. post_interactions_' \in [DOMAIN post_interactions_' -> Seq(Ids)]
  BY DEF MapsInv, TypeOK, PostTypeOK
<1> QED
  BY <1>1, <1>2, <1>3, <1>4, <1>5, PostSideKept

LEMMA AddPostKeepsMaps ==
  ASSUME MapsInv, NEW p \in Ids, NEW u \in Users, NEW d \in Data, NEW replace \in BOOLEAN,
         AddPost(p, u, d, replace)
  PROVE  MapsInv'
<1> USE FeedAssumption DEF FeedAssumption
<1>0. /\ interact_map_' \in [DOMAIN interact_map_' -> [itype : ITypes, userId : Users]]
      /\ DOMAIN interact_map_' \subseteq Ids
      /\ call' \in Calls \cup {Idle, Aborted}
      /\ call' \notin Calls
  BY CallAssumption DEF AddPost, MapsInv, TypeOK, CallAssumption
<1>1. CASE UNCHANGED <<accountVars, postVars>>
  <2>1. AuthorsKnown'
    BY <1>1, AccountSideUnchanged DEF MapsInv, AuthorsKnown, postVars, AuthorOf, HasAccount, accountVars
  <2> QED
    BY <1>0, <1>1, <2>1, AccountSideUnchanged, PostSideUnchanged, MapsFromParts DEF CallOnKnownPost
<1>2. CASE /\ ~HasPost(p)
           /\ RegisterPost(p, [NewPost(p, u) EXCEPT !.data = d])
           /\ account2idx_map_' = Account2IdxWith(u)
           /\ idx2account_map_' = Idx2AccountWith(u)
           /\ account_posts_' = [AccountPostsWith(u) EXCEPT ![IdxWith(u)] = Append(@, num_posts)]
           /\ account_graph_' = AccountGraphWith(u)
  <2> DEFINE info == [NewPost(p, u) EXCEPT !.data = d]
  <2>1. /\ info \in [userId : Users \cup {NoUid}, post_id : Ids, data : Data \cup {NoData}]
        /\ info.post_id = p /\ info.userId = u
    BY DEF NewPost
  <2> HIDE DEF info
  <2>2. /\ PostTypeOK' /\ PostMaps' /\ IsFiniteSet(DOMAIN post2idx_map_)'
        /\ DOMAIN idx2post_map_' = DOMAIN idx2post_map_ \cup {num_posts}
        /\ idx2post_map_'[num_posts] = info
        /\ \A q \in DOMAIN idx2post_map_ : idx2post_map_'[q] = idx2post_map_[q]
    <3>1. RegisterPost(p, info)
      BY <1>2 DEF info
    <3> QED
      BY <1>2, <2>1, <3>1, RegisterPostFacts
  <2>3. num_posts \in Nat
    BY FS_CardinalityType DEF num_posts, MapsInv, FiniteMaps
  <2>4. /\ AccountTypeOK' /\ AccountMaps' /\ IsFiniteSet(DOMAIN account2idx_map_)'
        /\ \A v \in DOMAIN account2idx_map_ \cup {u} : HasAccount(v)'
    BY <1>2, <2>3, AppendPost
  <2>5. AuthorsKnown'
    BY <2>1, <2>2, <2>4 DEF MapsInv, AuthorsKnown, AuthorOf, HasAccount
  <2> QED
    BY <1>0, <2>2, <2>4, <2>5, MapsFromParts DEF CallOnKnownPost
<1>3. CASE /\ HasPost(p) /\ replace /\ AuthorUnknown(p)
           /\ idx2post_map_' = [idx2post_map_ EXCEPT
                  ![post2idx_map_[p]] = [@ EXCEPT !.userId = u, !.data = d]]
           /\ account2idx_map_' = Account2IdxWith(u)
           /\ idx2account_map_' = Idx2AccountWith(u)
           /\ account_posts_' = [AccountPostsWith(u) EXCEPT
                  ![IdxWith(u)] = Append(@, post2idx_map_[p])]
           /\ account_graph_' = AccountGraphWith(u)
           /\ UNCHANGED <<post2idx_map_, post_interactions_, call>>
  <2>1. post2idx_map_[p] \in Nat
    BY <1>3 DEF MapsInv, TypeOK, PostTypeOK, HasPost
  <2>2. /\ AccountTypeOK' /\ AccountMaps' /\ IsFiniteSet(DOMAIN account2idx_map_)'
        /\ \A v \in DOMAIN account2idx_map_ \cup {u} : HasAccount(v)'
    BY <1>3, <2>1, AppendPost
  <2> DEFINE r == post2idx_map_[p]
             info == [idx2post_map_[r] EXCEPT !.userId = u, !.data = d]
  <2>3. /\ info \in [userId : Users \cup {NoUid}, post_id : Ids, data : Data \cup {NoData}]
        /\ info.post_id = PostInfo(p).post_id
        /\ info.userId = u
    <3>1. idx2post_map_[r] \in
            [userId : Users \cup {NoUid}, post_id : Ids, data : Data \cup {NoData}]
      BY <1>3 DEF MapsInv, TypeOK, PostTypeOK, MapsAgree, PostMaps, HasPost
    <3> QED
      BY <3>1 DEF PostInfo
  <2>4. idx2post_map_' = [idx2post_map_ EXCEPT ![r] = info]
    BY <1>3
  <2> HIDE DEF info, r
  <2>5. /\ PostTypeOK' /\ PostMaps' /\ IsFiniteSet(DOMAIN post2idx_map_)'
        /\ DOMAIN idx2post_map_' = DOMAIN idx2post_map_
        /\ r \in DOMAIN idx2post_map_
        /\ idx2post_map_'[r] = info
        /\ \A q \in DOMAIN idx2post_map_ : q # r => idx2post_map_'[q] = idx2post_map_[q]
    BY <1>3, <2>3, <2>4, RewritePost DEF r
  <2>6. AuthorsKnown'
    BY <2>2, <2>3, <2>5 DEF MapsInv, AuthorsKnown, AuthorOf, HasAccount
  <2> QED
    BY <1>0, <2>2, <2>5, <2>6, MapsFromParts DEF CallOnKnownPost
<1>4. CASE /\ HasPost(p) /\ replace /\ ~AuthorUnknown(p)
           /\ idx2post_map_' = [idx2post_map_ EXCEPT ![post2idx_map_[p]].data = d]
           /\ account2idx_map_' = Account2IdxWith(u)
           /\ idx2account_map_' = Idx2AccountWith(u)
           /\ account_posts_' = AccountPostsWith(u)
           /\ account_graph_' = AccountGraphWith(u)
           /\ UNCHANGED <<post2idx_map_, post_interactions_, call>>
  <2>1. TypesAfter(u)
    BY AccountTypesAfter
  <2>2. /\ AccountTypeOK' /\ AccountMaps' /\ IsFiniteSet(DOMAIN account2idx_map_)'
        /\ \A v \in DOMAIN account2idx_map_ \cup {u} : HasAccount(v)'
    <3>1. AccountsAfter(u)
      BY <1>4 DEF AccountsAfter
    <3> QED
      BY <1>4, <2>1, <3>1, AccountSideKept DEF TypesAfter
  <2> DEFINE r == post2idx_map_[p]
             info == [idx2post_map_[r] EXCEPT !.data = d]
  <2>3. /\ info \in [userId : Users \cup {NoUid}, post_id : Ids, data : Data \cup {NoData}]
        /\ info.post_id = PostInfo(p).post_id
        /\ info.userId = idx2post_map_[r].userId
    <3>1. idx2post_map_[r] \in
            [userId : Users \cup {NoUid}, post_id : Ids, data : Data \cup {NoData}]
      BY <1>4 DEF MapsInv, TypeOK, PostTypeOK, MapsAgree, PostMaps, HasPost
    <3> QED
      BY <3>1 DEF PostInfo
  <2>4. idx2post_map_' = [idx2post_map_ EXCEPT ![r] = info]
    BY <1>4
  <2> HIDE DEF info, r
  <2>5. /\ PostTypeOK' /\ PostMaps' /\ IsFiniteSet(DOMAIN post2idx_map_)'
        /\ DOMAIN idx2post_map_' = DOMAIN idx2post_map_
        /\ r \in DOMAIN idx2post_map_
        /\ idx2post_map_'[r] = info
        /\ \A q \in DOMAIN idx2post_map_ : q # r => idx2post_map_'[q] = idx2post_map_[q]
    BY <1>4, <2>3, <2>4, RewritePost DEF r
  <2>6. AuthorsKnown'
    BY <2>2, <2>3, <2>5 DEF MapsInv, AuthorsKnown, AuthorOf, HasAccount
  <2> QED
    BY <1>0, <2>2, <2>5, <2>6, MapsFromParts DEF CallOnKnownPost
<1> QED
  BY <1>1, <1>2, <1>3, <1>4 DEF AddPost

(* An author-less placeholder, or nothing when the post is known.          *)
LEMMA PlaceholderKeepsMaps ==
  ASSUME MapsInv, NEW p \in Ids, UNCHANGED <<accountVars, interact_map_>>,
         IF HasPost(p) THEN UNCHANGED postVars ELSE RegisterPost(p, NewPost(p, NoUid)),
         call' \in Calls \cup {Idle, Aborted}, call' \in Calls => call'.post = p
  PROVE  MapsInv'
<1>1. /\ AccountTypeOK' /\ AccountMaps' /\ IsFiniteSet(DOMAIN account2idx_map_)'
      /\ \A v \in DOMAIN account2idx_map_ : HasAccount(v)'
  BY AccountSideUnchanged
<1>2. /\ PostTypeOK' /\ PostMaps' /\ IsFiniteSet(DOMAIN post2idx_map_)'
      /\ HasPost(p)'
      /\ AuthorsKnown'
  <2>1. CASE HasPost(p)
    BY <1>1, <2>1, PostSideUnchanged
    DEF HasPost, AuthorsKnown, AuthorOf, postVars, MapsInv, HasAccount
  <2>2. CASE ~HasPost(p)
    <3> DEFINE info == NewPost(p, NoUid)
    <3>1. /\ info \in [userId : Users \cup {NoUid}, post_id : Ids, data : Data \cup {NoData}]
          /\ info.post_id = p /\ info.userId = NoUid
      BY DEF NewPost
    <3>2. RegisterPost(p, info)
      BY <2>2
    <3> HIDE DEF info
    <3>3. /\ PostTypeOK' /\ PostMaps' /\ IsFiniteSet(DOMAIN post2idx_map_)'
          /\ HasPost(p)'
          /\ DOMAIN idx2post_map_' = DOMAIN idx2post_map_ \cup {num_posts}
          /\ idx2post_map_'[num_posts] = info
          /\ \A q \in DOMAIN idx2post_map_ : idx2post_map_'[q] = idx2post_map_[q]
      BY <2>2, <3>1, <3>2, RegisterPostFacts
    <3> QED
      BY <1>1, <3>1, <3>3 DEF AuthorsKnown, AuthorOf, MapsInv, HasAccount
  <2> QED
    BY <2>1, <2>2
<1>3. /\ interact_map_' \in [DOMAIN interact_map_' -> [itype : ITypes, userId : Users]]
      /\ DOMAIN interact_map_' \subseteq Ids
  BY DEF MapsInv, TypeOK
<1> QED
  BY <1>1, <1>2, <1>3, MapsFromParts DEF CallOnKnownPost

(* The effect of a new interaction, read off its definition.               *)
LEMMA NewInteractionKeepsMaps ==
  ASSUME MapsInv, NEW t \in ITypes, NEW id \in Ids, NEW u \in Users,
         call \in Calls, NewInteraction(t, id, u)
  PROVE  MapsInv'
<1> DEFINE dst == IdxWith(u)
           creates == t \in {FORWARD, QUOTE} /\ ~HasPost(id)
           pidx == post2idx_map_[call.post]
           src_uid == idx2post_map_[pidx].userId
<1> USE FeedAssumption DEF FeedAssumption
<1>1. /\ HasPost(call.post)
      /\ pidx \in DOMAIN idx2post_map_ /\ pidx \in Nat
      /\ DOMAIN post_interactions_ = DOMAIN idx2post_map_
  BY DEF MapsInv, CallOnKnownPost, MapsAgree, PostMaps, HasPost, TypeOK, PostTypeOK
<1>2. num_posts \in Nat /\ num_posts \notin DOMAIN idx2post_map_
  BY FS_CardinalityType DEF num_posts, MapsInv, FiniteMaps, MapsAgree, PostMaps
<1>3. TypesAfter(u)
  BY AccountTypesAfter
<1>4. src_uid = NoUid \/ (src_uid \in DOMAIN account2idx_map_
                          /\ account2idx_map_[src_uid] \in DOMAIN idx2account_map_)
  BY <1>1 DEF MapsInv, AuthorsKnown, AuthorOf, HasAccount, MapsAgree, AccountMaps
<1>5. /\ DOMAIN account_graph_' = DOMAIN AccountGraphWith(u)
      /\ account_graph_' = [a \in DOMAIN account_graph_' |-> account_graph_'[a]]
      /\ \A a \in DOMAIN account_graph_' :
           account_graph_'[a] \in [DOMAIN account_graph_'[a] -> Seq(Nat)]
  <2>1. CASE src_uid = NoUid
    BY <1>3, <2>1 DEF NewInteraction, TypesAfter
  <2>2. CASE src_uid # NoUid
    <3>1. account_graph_' = AddEdge(AccountGraphWith(u), account2idx_map_[src_uid], dst, pidx)
      BY <2>2 DEF NewInteraction
    <3>2. account2idx_map_[src_uid] \in DOMAIN AccountGraphWith(u)
      BY <1>3, <1>4, <2>2 DEF TypesAfter
    <3>3. /\ AccountGraphWith(u) = [a \in DOMAIN AccountGraphWith(u) |-> AccountGraphWith(u)[a]]
          /\ \A a \in DOMAIN AccountGraphWith(u) :
               AccountGraphWith(u)[a] \in [DOMAIN AccountGraphWith(u)[a] -> Seq(Nat)]
      BY <1>3 DEF TypesAfter
    <3> HIDE DEF dst, pidx, src_uid
    <3> QED
      BY <1>1, <3>1, <3>2, <3>3, AddEdgeShape
  <2> QED
    BY <2>1, <2>2
<1>6. account_posts_' \in [DOMAIN AccountPostsWith(u) -> Seq(Nat)]
  <2>1. CASE creates /\ u # NoUid
    <3>1. account_posts_' = [AccountPostsWith(u) EXCEPT ![dst] = Append(@, num_posts)]
      BY <2>1 DEF NewInteraction
    <3>2. AccountPostsWith(u) \in [DOMAIN AccountPostsWith(u) -> Seq(Nat)]
      BY <1>3 DEF TypesAfter
    <3> HIDE DEF dst
    <3> QED
      BY <1>2, <3>1, <3>2, PushBackType
  <2>2. CASE ~(creates /\ u # NoUid)
    BY <1>3, <2>2 DEF NewInteraction, TypesAfter
  <2> QED
    BY <2>1, <2>2
<1>7. /\ AccountTypeOK' /\ AccountMaps' /\ IsFiniteSet(DOMAIN account2idx_map_)'
      /\ \A v \in DOMAIN account2idx_map_ \cup {u} : HasAccount(v)'
  <2>1. AccountsAfter(u)
    BY <1>3, <1>5, <1>6 DEF NewInteraction, AccountsAfter, TypesAfter
  <2>2. idx2account_map_' \in [DOMAIN Idx2AccountWith(u) ->
                                  [userId : Users, data : Data \cup {NoData}]]
    BY <1>3 DEF NewInteraction, TypesAfter
  <2> QED
    BY <1>5, <1>6, <2>1, <2>2, AccountSideKept, SMTT(30)
<1>8. /\ PostTypeOK' /\ PostMaps' /\ IsFiniteSet(DOMAIN post2idx_map_)'
      /\ \A r \in DOMAIN post2idx_map_ : HasPost(r)'
      /\ AuthorsKnown'
  <2>1. CASE creates
    <3>1. /\ ~HasPost(id)
          /\ post2idx_map_' = Put(post2idx_map_, id, num_posts)
          /\ idx2post_map_' = Put(idx2post_map_, num_posts, NewPost(id, u))
          /\ post_interactions_' =
               Put([post_interactions_ EXCEPT ![pidx] = Append(@, id)], num_posts, <<>>)
      BY <2>1 DEF NewInteraction
    <3>2. /\ DOMAIN idx2post_map_' = DOMAIN idx2post_map_ \cup {num_posts}
          /\ idx2post_map_'[num_posts] = NewPost(id, u)
          /\ \A q \in DOMAIN idx2post_map_ : idx2post_map_'[q] = idx2post_map_[q]
          /\ DOMAIN post_interactions_' = DOMAIN post_interactions_ \cup {num_posts}
      BY <1>2, <3>1 DEF Put
    <3>3. PostRegistered(id)
      BY <3>1, <3>2 DEF PostRegistered, NewPost
    <3>4. NewPost(id, u) \in
            [userId : Users \cup {NoUid}, post_id : Ids, data : Data \cup {NoData}]
      BY DEF NewPost
    <3>5. idx2post_map_' \in [DOMAIN idx2post_map_' ->
             [userId : Users \cup {NoUid}, post_id : Ids, data : Data \cup {NoData}]]
      BY <3>1, <3>4 DEF Put, MapsInv, TypeOK, PostTypeOK
    <3>6. post_interactions_' \in [DOMAIN post_interactions_' -> Seq(Ids)]
      BY <3>1 DEF Put, MapsInv, TypeOK, PostTypeOK
    <3>7. AuthorsKnown'
      BY <1>7, <3>2 DEF AuthorsKnown, AuthorOf, MapsInv, HasAccount, NewPost
    <3> QED
      BY <3>1, <3>3, <3>5, <3>6, <3>7, PostSideRegistered
  <2>2. CASE ~creates
    <3>1. /\ UNCHANGED <<post2idx_map_, idx2post_map_>>
          /\ post_interactions_' = [post_interactions_ EXCEPT ![pidx] = Append(@, id)]
      BY <2>2 DEF NewInteraction
    <3>2. PostsKept
      BY <3>1 DEF PostsKept
    <3>3. /\ idx2post_map_' \in [DOMAIN idx2post_map_' ->
             [userId : Users \cup {NoUid}, post_id : Ids, data : Data \cup {NoData}]]
          /\ post_interactions_' \in [DOMAIN post_interactions_' -> Seq(Ids)]
      <4>1. PostTypeOK
        BY DEF MapsInv, TypeOK
      <4> HIDE DEF pidx
      <4>2. post_interactions_' \in [DOMAIN post_interactions_' -> Seq(Ids)]
        BY <3>1, <4>1, PushBackType DEF PostTypeOK
      <4> QED
        BY <3>1, <4>1, <4>2 DEF PostTypeOK
    <3>4. AuthorsKnown'
      BY <1>7, <3>1 DEF AuthorsKnown, AuthorOf, MapsInv, HasAccount
    <3> QED
      BY <3>2, <3>3, <3>4, PostSideKept
  <2> QED
    BY <2>1, <2>2
<1>9. /\ interact_map_' \in [DOMAIN interact_map_' -> [itype : ITypes, userId : Users]]
      /\ DOMAIN interact_map_' \subseteq Ids
  BY DEF NewInteraction, Put, MapsInv, TypeOK
<1>10. call' \in Calls /\ call'.post = call.post
  BY DEF NewInteraction, Calls
<1>11. CallOnKnownPost'
  BY <1>1, <1>8, <1>10 DEF CallOnKnownPost, HasPost
<1> QED
  BY <1>7, <1>8, <1>9, <1>10, <1>11, MapsFromParts

(* An interaction that is stored already at most gets the user it lacked.  *)
LEMMA KnownInteractionNames ==
  ASSUME MapsInv, NEW t, NEW id \in Ids, NEW u \in Users, KnownInteraction(t, id, u)
  PROVE  /\ UNCHANGED accountVars /\ UNCHANGED postVars
         /\ DOMAIN interact_map_' = DOMAIN interact_map_
         /\ interact_map_' \in [DOMAIN interact_map_ -> [itype : ITypes, userId : Users]]
         /\ \A i \in DOMAIN interact_map_ :
              /\ interact_map_'[i].itype = interact_map_[i].itype
              /\ i # id => interact_map_'[i] = interact_map_[i]
              /\ interact_map_[i].userId # NoUid => interact_map_'[i] = interact_map_[i]
<1>1. UNCHANGED accountVars /\ UNCHANGED postVars
  BY DEF KnownInteraction
<1>2. interact_map_ \in [DOMAIN interact_map_ -> [itype : ITypes, userId : Users]]
  BY DEF MapsInv, TypeOK
<1>3. CASE interact_map_' = interact_map_
  BY <1>1, <1>2, <1>3
<1>4. CASE /\ interact_map_[id].userId = NoUid
           /\ interact_map_' = [interact_map_ EXCEPT ![id].userId = u]
  BY <1>1, <1>2, <1>4
<1> QED
  BY <1>3, <1>4 DEF KnownInteraction

LEMMA NextKeepsMaps == MapsInv /\ [Next]_vars => MapsInv'
<1> SUFFICES ASSUME MapsInv, [Next]_vars PROVE MapsInv'
  OBVIOUS
<1> USE FeedAssumption, CallAssumption DEF FeedAssumption, CallAssumption
<1>1. CASE \E e \in AccountFeed, replace \in BOOLEAN : AddAccount(e.user, e.data, replace)
  BY <1>1, AddAccountKeepsMaps
<1>2. CASE \E e \in PostFeed, replace \in BOOLEAN :
             e.user \in Users /\ AddPost(e.post, e.user, e.data, replace)
  BY <1>2, AddPostKeepsMaps
<1>3. CASE \E e \in PostFeed, replace \in BOOLEAN :
             e.user = BadUser /\ AddPostThrows(e.post, replace)
  <2>1. PICK e \in PostFeed, replace \in BOOLEAN : AddPostThrows(e.post, replace)
    BY <1>3
  <2> QED
    BY <2>1, PlaceholderKeepsMaps DEF AddPostThrows
<1>4. CASE \E p \in Ids, replace \in BOOLEAN : BeginInteractions(p, replace)
  <2>1. PICK p \in Ids, replace \in BOOLEAN : BeginInteractions(p, replace)
    BY <1>4
  <2>2. call' \in Calls /\ call'.post = p
    BY <2>1 DEF BeginInteractions, Calls, ITypes
  <2> QED
    BY <2>1, <2>2, PlaceholderKeepsMaps DEF BeginInteractions
<1>5. CASE \E t \in ITypes, id \in Ids, u \in Users : AddInteraction(t, id, u)
  <2>1. PICK t \in ITypes, id \in Ids, u \in Users : AddInteraction(t, id, u)
    BY <1>5
  <2>2. CASE NewInteraction(t, id, u)
    BY <2>1, <2>2, NewInteractionKeepsMaps DEF AddInteraction
  <2>3. CASE KnownInteraction(t, id, u)
    <3>1. /\ call' \in Calls \cup {Idle, Aborted}
          /\ call' \in Calls => call'.post = call.post
      BY <2>1, <2>3 DEF KnownInteraction, AddInteraction, Calls
    <3>2. /\ UNCHANGED accountVars /\ UNCHANGED postVars
          /\ interact_map_' \in [DOMAIN interact_map_' -> [itype : ITypes, userId : Users]]
          /\ DOMAIN interact_map_' \subseteq Ids
      BY <2>3, KnownInteractionNames DEF MapsInv, TypeOK
    <3>3. CallOnKnownPost'
      BY <2>1, <3>1, <3>2 DEF MapsInv, CallOnKnownPost, HasPost, postVars, AddInteraction
    <3>4. AuthorsKnown'
      BY <3>2, AccountSideUnchanged
      DEF MapsInv, AuthorsKnown, postVars, AuthorOf, HasAccount
    <3> QED
      BY <3>1, <3>2, <3>3, <3>4, AccountSideUnchanged, PostSideUnchanged, MapsFromParts
  <2> QED
    BY <2>1, <2>2, <2>3 DEF AddInteraction
<1>6. CASE EndInteractions \/ UNCHANGED vars
  <2>1. /\ UNCHANGED <<accountVars, interact_map_>>
        /\ UNCHANGED postVars
        /\ call' = call \/ call' = Idle
    BY <1>6 DEF EndInteractions, vars
  <2>2. CallOnKnownPost'
    BY <2>1, PostSideUnchanged DEF MapsInv, CallOnKnownPost, HasPost, postVars
  <2>3. AuthorsKnown'
    BY <2>1, AccountSideUnchanged DEF MapsInv, AuthorsKnown, postVars, AuthorOf, HasAccount
  <2>4. /\ interact_map_' \in [DOMAIN interact_map_' -> [itype : ITypes, userId : Users]]
        /\ DOMAIN interact_map_' \subseteq Ids
        /\ call' \in Calls \cup {Idle, Aborted}
    BY <2>1 DEF MapsInv, TypeOK
  <2> QED
    BY <2>1, <2>2, <2>3, <2>4, AccountSideUnchanged, PostSideUnchanged, MapsFromParts
<1> QED
  BY <1>1, <1>2, <1>3, <1>4, <1>5, <1>6 DEF Next

LEMMA InitMaps == Init => MapsInv
  BY FS_EmptySet, CallAssumption
  DEF Init, MapsInv, TypeOK, AccountTypeOK, PostTypeOK, MapsAgree, AccountMaps, PostMaps,
      FiniteMaps, CallOnKnownPost, AuthorsKnown, EmptyMap, num_accounts, num_posts, CallAssumption

(***************************************************************************)
(* The variables keep their types, whatever is loaded in whatever order.   *)
(***************************************************************************)
THEOREM TypeCorrect == Spec => []TypeOK
<1>1. MapsInv => TypeOK
  BY DEF MapsInv
<1> QED
  BY <1>1, InitMaps, NextKeepsMaps, PTL DEF Spec

(***************************************************************************)
(* The id and index maps stay inverse of each other, dense, and of the     *)
(* size of every vector they index: no `vec[map[id]]' in the store is out  *)
(* of range, even after a call that threw half-way.                        *)
(***************************************************************************)
THEOREM IndexesAgree == Spec => []MapsAgree
<1>1. MapsInv => MapsAgree
  BY DEF MapsInv
<1> QED
  BY <1>1, InitMaps, NextKeepsMaps, PTL DEF Spec

-----------------------------------------------------------------------------
(***************************************************************************)
(* The lists and edges of the store: AuthorLists, EdgesLeaveAuthor and     *)
(* InteractionsListedOnce, from the maps' invariant MapsInv.  Every step   *)
(* has one of a few shapes (nothing appended, one post appended to its     *)
(* author's list, one entry appended to an edge, one interaction appended  *)
(* to its post's list); the properties follow from the shapes.             *)
(***************************************************************************)

(* The list of account a before the step, empty for an account of the step. *)
PostsBefore(a) == IF a \in Accounts THEN account_posts_[a] ELSE <<>>
EdgesBefore(a) == IF a \in Accounts THEN account_graph_[a] ELSE EmptyMap

AccountsGrow ==
  /\ \A a \in Accounts : a \in Accounts' /\ UserOfIdx(a)' = UserOfIdx(a)
  /\ \A u \in DOMAIN account2idx_map_ : HasAccount(u)' /\ account2idx_map_'[u] = account2idx_map_[u]

(* No post but those of Q gets an author.                                  *)
AuthorsKept(Q) ==
  /\ \A q \in Posts : q \in Posts'
  /\ \A q \in Posts : q \notin Q => AuthorOf(q)' = AuthorOf(q)
  /\ \A q \in Posts' : q \notin Posts /\ q \notin Q => AuthorOf(q)' = NoUid

ListsQuiet ==
  /\ AccountsGrow /\ AuthorsKept({})
  /\ \A a \in Accounts' : account_posts_'[a] = PostsBefore(a)

ListsAppend(a0, q0) ==
  /\ AccountsGrow /\ AuthorsKept({q0})
  /\ q0 \in Posts => AuthorOf(q0) = NoUid
  /\ AuthorOf(q0)' = UserOfIdx(a0)'
  /\ \A a \in Accounts' :
       account_posts_'[a] = IF a = a0 THEN Append(PostsBefore(a), q0) ELSE PostsBefore(a)

EdgesQuiet == \A a \in Accounts' : account_graph_'[a] = EdgesBefore(a)

EdgesAppend(src, dst, q) ==
  /\ src \in Accounts /\ dst \in Accounts' /\ q \in Posts
  /\ AuthorOf(q) = UserOfIdx(src) /\ AuthorOf(q) # NoUid
  /\ \A a \in Accounts' : a # src => account_graph_'[a] = EdgesBefore(a)
  /\ DOMAIN account_graph_'[src] = DOMAIN account_graph_[src] \cup {dst}
  /\ \A b \in DOMAIN account_graph_[src] : b # dst => account_graph_'[src][b] = account_graph_[src][b]
  /\ account_graph_'[src][dst] =
       Append(IF dst \in DOMAIN account_graph_[src] THEN account_graph_[src][dst] ELSE <<>>, q)

(* An interaction of u with post q enters the graph if q has an author.    *)
EdgesEntered(q, u) ==
  IF AuthorOf(q) = NoUid
    THEN EdgesQuiet
    ELSE EdgesAppend(account2idx_map_[AuthorOf(q)], account2idx_map_'[u], q)

ListsShape == ListsQuiet \/ \E a \in Accounts', q \in Posts' : ListsAppend(a, q)
EdgesShape == EdgesQuiet \/ \E src \in Accounts, dst \in Accounts', q \in Posts : EdgesAppend(src, dst, q)

-----------------------------------------------------------------------------
(* What AddAccount_(u) leaves in the slots of the accounts.                *)
LEMMA AccountSlots ==
  ASSUME MapsInv, NEW u \in Users, account2idx_map_' = Account2IdxWith(u),
         DOMAIN idx2account_map_' = DOMAIN Idx2AccountWith(u),
         \A a \in DOMAIN idx2account_map_' :
           idx2account_map_'[a].userId = Idx2AccountWith(u)[a].userId,
         DOMAIN account_posts_' = DOMAIN AccountPostsWith(u)
  PROVE  /\ AccountsGrow
         /\ Accounts' = DOMAIN AccountGraphWith(u)
         /\ IdxWith(u) \in Accounts'
         /\ idx2account_map_'[IdxWith(u)].userId = u
         /\ \A a \in Accounts' : /\ AccountPostsWith(u)[a] = PostsBefore(a)
                                 /\ AccountGraphWith(u)[a] = EdgesBefore(a)
<1>1. TypesAfter(u)
  BY AccountTypesAfter
<1>2. /\ Accounts = DOMAIN idx2account_map_
      /\ DOMAIN account_graph_ = DOMAIN idx2account_map_
      /\ num_accounts \notin Accounts
  BY FS_CardinalityType
  DEF MapsInv, MapsAgree, AccountMaps, Accounts, num_accounts, FiniteMaps
<1>3. /\ Accounts' = DOMAIN Idx2AccountWith(u)
      /\ Accounts' = DOMAIN AccountGraphWith(u)
      /\ IdxWith(u) \in Accounts'
      /\ idx2account_map_'[IdxWith(u)].userId = u
  BY <1>1 DEF TypesAfter, Accounts, UserOfIdx
<1>4. \A a \in DOMAIN idx2account_map_ : Idx2AccountWith(u)[a] = idx2account_map_[a]
  BY <1>2 DEF Idx2AccountWith, Put
<1>5. \A w \in DOMAIN account2idx_map_ :
        w \in DOMAIN Account2IdxWith(u) /\ Account2IdxWith(u)[w] = account2idx_map_[w]
  BY DEF Account2IdxWith, Put, HasAccount
<1>6. AccountsGrow
  <2>1. \A a \in Accounts : a \in Accounts' /\ UserOfIdx(a)' = UserOfIdx(a)
    BY <1>1, <1>2, <1>3, <1>4 DEF TypesAfter, UserOfIdx, Accounts
  <2>2. \A w \in DOMAIN account2idx_map_ : HasAccount(w)' /\ account2idx_map_'[w] = account2idx_map_[w]
    BY <1>5 DEF HasAccount
  <2> QED
    BY <2>1, <2>2 DEF AccountsGrow
<1>7. ASSUME NEW a \in Accounts'
      PROVE  AccountPostsWith(u)[a] = PostsBefore(a)
  BY <1>2, <1>7 DEF AccountPostsWith, PostsBefore, Put, Accounts
<1>8. ASSUME NEW a \in Accounts'
      PROVE  AccountGraphWith(u)[a] = EdgesBefore(a)
  BY <1>2, <1>3, <1>8 DEF AccountGraphWith, EdgesBefore, Put, Accounts
<1> QED
  BY <1>3, <1>6, <1>7, <1>8

LEMMA UnchangedSlots ==
  ASSUME UNCHANGED accountVars
  PROVE  /\ AccountsGrow
         /\ \A a \in Accounts' : account_posts_'[a] = PostsBefore(a)
         /\ (DOMAIN account_graph_ = Accounts => EdgesQuiet)
  BY DEF accountVars, AccountsGrow, Accounts, UserOfIdx, HasAccount, PostsBefore, EdgesQuiet, EdgesBefore

-----------------------------------------------------------------------------
(* The shape of each step.                                                 *)
LEMMA AddAccountShape ==
  ASSUME MapsInv, NEW u \in Users, NEW d \in Data, NEW replace \in BOOLEAN,
         AddAccount(u, d, replace)
  PROVE  ListsShape /\ EdgesQuiet
<1>1. AuthorsKept({})
  BY DEF AddAccount, postVars, AuthorsKept, Posts, AuthorOf
<1>2. CASE HasAccount(u) /\ ~replace
  <2>1. UNCHANGED accountVars
    BY <1>2 DEF AddAccount
  <2>2. DOMAIN account_graph_ = Accounts
    BY DEF MapsInv, MapsAgree, AccountMaps, Accounts
  <2> QED
    BY <1>1, <2>1, <2>2, UnchangedSlots DEF ListsShape, ListsQuiet
<1>3. CASE ~(HasAccount(u) /\ ~replace)
  <2>1. /\ account2idx_map_' = Account2IdxWith(u)
        /\ idx2account_map_' = [Idx2AccountWith(u) EXCEPT ![IdxWith(u)].data = d]
        /\ account_posts_' = AccountPostsWith(u)
        /\ account_graph_' = AccountGraphWith(u)
    BY <1>3 DEF AddAccount
  <2>2. TypesAfter(u)
    BY AccountTypesAfter
  <2>3. /\ DOMAIN idx2account_map_' = DOMAIN Idx2AccountWith(u)
        /\ \A a \in DOMAIN idx2account_map_' :
             idx2account_map_'[a].userId = Idx2AccountWith(u)[a].userId
    BY <2>1, <2>2 DEF TypesAfter
  <2>4. /\ AccountsGrow
        /\ \A a \in Accounts' : /\ AccountPostsWith(u)[a] = PostsBefore(a)
                                /\ AccountGraphWith(u)[a] = EdgesBefore(a)
    BY <2>1, <2>3, AccountSlots
  <2> QED
    BY <1>1, <2>1, <2>4 DEF ListsShape, ListsQuiet, EdgesQuiet
<1> QED
  BY <1>2, <1>3

(* A step that appends post q to the list of its new author u.             *)
LEMMA AppendShape ==
  ASSUME MapsInv, NEW u \in Users, NEW q \in Posts',
         account2idx_map_' = Account2IdxWith(u),
         idx2account_map_' = Idx2AccountWith(u),
         account_posts_' = [AccountPostsWith(u) EXCEPT ![IdxWith(u)] = Append(@, q)],
         AuthorsKept({q}), q \in Posts => AuthorOf(q) = NoUid, idx2post_map_'[q].userId = u
  PROVE  /\ ListsShape
         /\ AccountsGrow
         /\ Accounts' = DOMAIN AccountGraphWith(u)
         /\ \A a \in Accounts' : AccountGraphWith(u)[a] = EdgesBefore(a)
<1>1. TypesAfter(u)
  BY AccountTypesAfter
<1>2. DOMAIN account_posts_' = DOMAIN AccountPostsWith(u)
  BY <1>1 DEF TypesAfter
<1>3. /\ AccountsGrow
      /\ Accounts' = DOMAIN AccountGraphWith(u)
      /\ IdxWith(u) \in Accounts'
      /\ idx2account_map_'[IdxWith(u)].userId = u
      /\ \A a \in Accounts' : /\ AccountPostsWith(u)[a] = PostsBefore(a)
                              /\ AccountGraphWith(u)[a] = EdgesBefore(a)
  BY <1>2, AccountSlots
<1>4. PICK a0 \in Accounts' : a0 = IdxWith(u)
  BY <1>3
<1>5. \A a \in Accounts' :
        account_posts_'[a] = IF a = a0 THEN Append(PostsBefore(a), q) ELSE PostsBefore(a)
  <2>1. account_posts_' = [AccountPostsWith(u) EXCEPT ![a0] = Append(@, q)]
    BY <1>4
  <2> QED
    BY <1>2, <1>3, <2>1 DEF Accounts
<1>6. AuthorOf(q)' = UserOfIdx(a0)'
  BY <1>3, <1>4 DEF AuthorOf, UserOfIdx
<1>7. ListsAppend(a0, q)
  BY <1>3, <1>5, <1>6 DEF ListsAppend
<1> QED
  BY <1>3, <1>7 DEF ListsShape

LEMMA AddPostShape ==
  ASSUME MapsInv, NEW p \in Ids, NEW u \in Users, NEW d \in Data, NEW replace \in BOOLEAN,
         AddPost(p, u, d, replace)
  PROVE  ListsShape /\ EdgesQuiet
<1>0. Posts = DOMAIN idx2post_map_ /\ num_posts \in Nat /\ num_posts \notin Posts
  BY FS_CardinalityType DEF MapsInv, MapsAgree, PostMaps, Posts, num_posts, FiniteMaps
<1>1. CASE UNCHANGED <<accountVars, postVars>>
  <2>1. AuthorsKept({})
    BY <1>1 DEF postVars, AuthorsKept, Posts, AuthorOf
  <2>2. DOMAIN account_graph_ = Accounts
    BY DEF MapsInv, MapsAgree, AccountMaps, Accounts
  <2> QED
    BY <1>1, <2>1, <2>2, UnchangedSlots DEF ListsShape, ListsQuiet
<1>2. CASE /\ ~HasPost(p)
           /\ RegisterPost(p, [NewPost(p, u) EXCEPT !.data = d])
           /\ account2idx_map_' = Account2IdxWith(u)
           /\ idx2account_map_' = Idx2AccountWith(u)
           /\ account_posts_' = [AccountPostsWith(u) EXCEPT ![IdxWith(u)] = Append(@, num_posts)]
           /\ account_graph_' = AccountGraphWith(u)
  <2> DEFINE info == [NewPost(p, u) EXCEPT !.data = d]
  <2>1. /\ info \in [userId : Users \cup {NoUid}, post_id : Ids, data : Data \cup {NoData}]
        /\ info.post_id = p /\ info.userId = u
    BY DEF NewPost
  <2> HIDE DEF info
  <2>2. /\ Posts' = Posts \cup {num_posts}
        /\ idx2post_map_'[num_posts] = info
        /\ \A q \in Posts : idx2post_map_'[q] = idx2post_map_[q]
    <3>1. RegisterPost(p, info)
      BY <1>2 DEF info
    <3> QED
      BY <1>0, <1>2, <2>1, <3>1, RegisterPostFacts DEF Posts
  <2>3. AuthorsKept({num_posts}) /\ idx2post_map_'[num_posts].userId = u
    BY <1>0, <2>1, <2>2 DEF AuthorsKept, AuthorOf
  <2> QED
    BY <1>0, <1>2, <2>2, <2>3, AppendShape DEF EdgesQuiet
<1>3. CASE /\ HasPost(p) /\ replace /\ AuthorUnknown(p)
           /\ idx2post_map_' = [idx2post_map_ EXCEPT
                  ![post2idx_map_[p]] = [@ EXCEPT !.userId = u, !.data = d]]
           /\ account2idx_map_' = Account2IdxWith(u)
           /\ idx2account_map_' = Idx2AccountWith(u)
           /\ account_posts_' = [AccountPostsWith(u) EXCEPT
                  ![IdxWith(u)] = Append(@, post2idx_map_[p])]
           /\ account_graph_' = AccountGraphWith(u)
           /\ UNCHANGED <<post2idx_map_, post_interactions_, call>>
  <2>1. PICK r \in Posts : r = post2idx_map_[p]
    BY <1>0, <1>3 DEF MapsInv, MapsAgree, PostMaps, HasPost
  <2> DEFINE info == [idx2post_map_[r] EXCEPT !.userId = u, !.data = d]
  <2>2. idx2post_map_[r] \in
          [userId : Users \cup {NoUid}, post_id : Ids, data : Data \cup {NoData}]
    BY <1>0 DEF MapsInv, TypeOK, PostTypeOK
  <2>3. idx2post_map_' = [idx2post_map_ EXCEPT ![r] = info] /\ info.userId = u
    BY <1>3, <2>1, <2>2
  <2>4. idx2post_map_[r].userId = NoUid
    BY <1>3, <2>1 DEF PostInfo, AuthorUnknown
  <2> HIDE DEF info
  <2>5. AuthorsKept({r}) /\ idx2post_map_'[r].userId = u /\ r \in Posts'
    BY <1>0, <1>3, <2>1, <2>3 DEF AuthorsKept, AuthorOf, Posts
  <2>6. account_posts_' = [AccountPostsWith(u) EXCEPT ![IdxWith(u)] = Append(@, r)]
    BY <1>3, <2>1
  <2>7. AuthorOf(r) = NoUid
    BY <2>4 DEF AuthorOf
  <2> QED
    BY <1>3, <2>1, <2>5, <2>6, <2>7, AppendShape DEF EdgesQuiet
<1>4. CASE /\ HasPost(p) /\ replace /\ ~AuthorUnknown(p)
           /\ idx2post_map_' = [idx2post_map_ EXCEPT ![post2idx_map_[p]].data = d]
           /\ account2idx_map_' = Account2IdxWith(u)
           /\ idx2account_map_' = Idx2AccountWith(u)
           /\ account_posts_' = AccountPostsWith(u)
           /\ account_graph_' = AccountGraphWith(u)
           /\ UNCHANGED <<post2idx_map_, post_interactions_, call>>
  <2>1. \A q \in DOMAIN idx2post_map_ : idx2post_map_'[q].userId = idx2post_map_[q].userId
    BY <1>4 DEF MapsInv, TypeOK, PostTypeOK
  <2>2. AuthorsKept({})
    BY <1>0, <1>4, <2>1 DEF AuthorsKept, AuthorOf, Posts
  <2>3. /\ AccountsGrow
        /\ \A a \in Accounts' : /\ AccountPostsWith(u)[a] = PostsBefore(a)
                                /\ AccountGraphWith(u)[a] = EdgesBefore(a)
    BY <1>4, AccountSlots
  <2> QED
    BY <1>4, <2>2, <2>3 DEF ListsShape, ListsQuiet, EdgesQuiet
<1> QED
  BY <1>1, <1>2, <1>3, <1>4 DEF AddPost

LEMMA PlaceholderShape ==
  ASSUME MapsInv, NEW p \in Ids, UNCHANGED accountVars,
         IF HasPost(p) THEN UNCHANGED postVars ELSE RegisterPost(p, NewPost(p, NoUid))
  PROVE  ListsShape /\ EdgesQuiet
<1>0. Posts = DOMAIN idx2post_map_
  BY DEF MapsInv, MapsAgree, PostMaps, Posts
<1>1. AuthorsKept({})
  <2>1. CASE HasPost(p)
    BY <2>1 DEF postVars, AuthorsKept, Posts, AuthorOf
  <2>2. CASE ~HasPost(p)
    <3> DEFINE info == NewPost(p, NoUid)
    <3>1. /\ info \in [userId : Users \cup {NoUid}, post_id : Ids, data : Data \cup {NoData}]
          /\ info.post_id = p /\ info.userId = NoUid
      BY DEF NewPost
    <3>2. RegisterPost(p, info)
      BY <2>2
    <3> HIDE DEF info
    <3>3. /\ Posts' = Posts \cup {num_posts}
          /\ idx2post_map_'[num_posts] = info
          /\ \A q \in Posts : idx2post_map_'[q] = idx2post_map_[q]
      BY <1>0, <2>2, <3>1, <3>2, RegisterPostFacts DEF Posts
    <3> QED
      BY <3>1, <3>3 DEF AuthorsKept, AuthorOf
  <2> QED
    BY <2>1, <2>2
<1>2. DOMAIN account_graph_ = Accounts
  BY DEF MapsInv, MapsAgree, AccountMaps, Accounts
<1> QED
  BY <1>1, <1>2, UnchangedSlots DEF ListsShape, ListsQuiet

LEMMA NewInteractionShape ==
  ASSUME MapsInv, NEW t \in ITypes, NEW id \in Ids, NEW u \in Users,
         call \in Calls, NewInteraction(t, id, u)
  PROVE  /\ ListsShape
         /\ post2idx_map_[call.post] \in Posts
         /\ HasAccount(u)' /\ account2idx_map_'[u] \in Accounts'
         /\ EdgesEntered(post2idx_map_[call.post], u)
<1> DEFINE creates == t \in {FORWARD, QUOTE} /\ ~HasPost(id)
<1> USE FeedAssumption DEF FeedAssumption
<1>0. /\ Posts = DOMAIN idx2post_map_ /\ num_posts \in Nat /\ num_posts \notin Posts
      /\ DOMAIN account_graph_ = Accounts /\ DOMAIN idx2account_map_ = Accounts
  BY FS_CardinalityType
  DEF MapsInv, MapsAgree, PostMaps, AccountMaps, Posts, Accounts, num_posts, FiniteMaps
<1>1. PICK pidx \in Posts : pidx = post2idx_map_[call.post] /\ pidx \in Nat
  BY <1>0 DEF MapsInv, CallOnKnownPost, MapsAgree, PostMaps, HasPost, TypeOK, PostTypeOK
<1>2. TypesAfter(u)
  BY AccountTypesAfter
<1>3. /\ account2idx_map_' = Account2IdxWith(u)
      /\ idx2account_map_' = Idx2AccountWith(u)
  BY DEF NewInteraction
<1>4. /\ ListsShape /\ AccountsGrow
      /\ Accounts' = DOMAIN AccountGraphWith(u)
      /\ \A a \in Accounts' : AccountGraphWith(u)[a] = EdgesBefore(a)
  <2>1. CASE creates /\ u # NoUid
    <3>1. /\ account_posts_' = [AccountPostsWith(u) EXCEPT ![IdxWith(u)] = Append(@, num_posts)]
          /\ idx2post_map_' = Put(idx2post_map_, num_posts, NewPost(id, u))
          /\ post_interactions_' =
               Put([post_interactions_ EXCEPT ![pidx] = Append(@, id)], num_posts, <<>>)
      BY <1>1, <2>1 DEF NewInteraction
    <3>2. /\ Posts' = Posts \cup {num_posts}
          /\ idx2post_map_'[num_posts] = NewPost(id, u)
          /\ \A q \in Posts : idx2post_map_'[q] = idx2post_map_[q]
      BY <1>0, <3>1 DEF Put, Posts
    <3>3. AuthorsKept({num_posts}) /\ idx2post_map_'[num_posts].userId = u
      BY <1>0, <3>2 DEF AuthorsKept, AuthorOf, NewPost
    <3> QED
      BY <1>0, <1>3, <3>1, <3>2, <3>3, AppendShape
  <2>2. CASE ~(creates /\ u # NoUid)
    <3>1. account_posts_' = AccountPostsWith(u)
      BY <2>2 DEF NewInteraction
    <3>2. AuthorsKept({})
      <4>1. CASE creates
        <5>1. /\ idx2post_map_' = Put(idx2post_map_, num_posts, NewPost(id, NoUid))
              /\ post_interactions_' =
                   Put([post_interactions_ EXCEPT ![pidx] = Append(@, id)], num_posts, <<>>)
          BY <1>1, <2>2, <4>1 DEF NewInteraction
        <5>2. /\ Posts' = Posts \cup {num_posts}
              /\ idx2post_map_'[num_posts] = NewPost(id, NoUid)
              /\ \A q \in Posts : idx2post_map_'[q] = idx2post_map_[q]
          BY <1>0, <5>1 DEF Put, Posts
        <5> QED
          BY <1>0, <5>2 DEF AuthorsKept, AuthorOf, NewPost
      <4>2. CASE ~creates
        <5>1. /\ idx2post_map_' = idx2post_map_
              /\ post_interactions_' = [post_interactions_ EXCEPT ![pidx] = Append(@, id)]
          BY <1>1, <4>2 DEF NewInteraction
        <5> QED
          BY <1>0, <5>1 DEF AuthorsKept, AuthorOf, Posts
      <4> QED
        BY <4>1, <4>2
    <3>3. /\ AccountsGrow
          /\ Accounts' = DOMAIN AccountGraphWith(u)
          /\ \A a \in Accounts' : /\ AccountPostsWith(u)[a] = PostsBefore(a)
                                  /\ AccountGraphWith(u)[a] = EdgesBefore(a)
      BY <1>2, <1>3, <3>1, AccountSlots
    <3> QED
      BY <3>1, <3>2, <3>3 DEF ListsShape, ListsQuiet
  <2> QED
    BY <2>1, <2>2
<1>5. HasAccount(u)' /\ account2idx_map_'[u] = IdxWith(u)
  BY <1>3 DEF Account2IdxWith, IdxWith, Put, HasAccount
<1>6. account2idx_map_'[u] \in Accounts'
  BY <1>2, <1>4, <1>5 DEF TypesAfter
<1>7. EdgesEntered(pidx, u)
  <2>1. CASE AuthorOf(pidx) = NoUid
    <3>1. account_graph_' = AccountGraphWith(u)
      BY <1>1, <2>1 DEF NewInteraction, AuthorOf
    <3> QED
      BY <1>4, <2>1, <3>1 DEF EdgesEntered, EdgesQuiet
  <2>2. CASE AuthorOf(pidx) # NoUid
    <3>1. /\ AuthorOf(pidx) \in DOMAIN account2idx_map_
          /\ account2idx_map_[AuthorOf(pidx)] \in Accounts
          /\ UserOfIdx(account2idx_map_[AuthorOf(pidx)]) = AuthorOf(pidx)
      BY <1>0, <2>2 DEF MapsInv, AuthorsKnown, HasAccount, MapsAgree, AccountMaps
    <3>2. PICK src \in Accounts : src = account2idx_map_[AuthorOf(pidx)]
      BY <3>1
    <3>3. PICK dst \in Accounts' : dst = IdxWith(u)
      BY <1>2, <1>3, <1>4 DEF TypesAfter
    <3>4. account_graph_' = AddEdge(AccountGraphWith(u), src, dst, pidx)
      BY <1>1, <2>2, <3>2, <3>3 DEF NewInteraction, AuthorOf
    <3>5. src \in Accounts' /\ src \in DOMAIN AccountGraphWith(u)
      BY <1>4 DEF AccountsGrow
    <3>6. /\ AccountGraphWith(u) = [a \in DOMAIN AccountGraphWith(u) |-> AccountGraphWith(u)[a]]
          /\ \A a \in DOMAIN AccountGraphWith(u) :
               AccountGraphWith(u)[a] \in [DOMAIN AccountGraphWith(u)[a] -> Seq(Nat)]
      BY <1>2 DEF TypesAfter
    <3>7. AccountGraphWith(u)[src] = account_graph_[src]
      BY <1>4, <3>5 DEF EdgesBefore
    <3> DEFINE g == AccountGraphWith(u)
    <3> HIDE DEF g
    <3>8. LET h == account_graph_'
              old == IF dst \in DOMAIN g[src] THEN g[src][dst] ELSE <<>>
          IN  /\ DOMAIN h = DOMAIN g
              /\ \A a \in DOMAIN h : a # src => h[a] = g[a]
              /\ DOMAIN h[src] = DOMAIN g[src] \cup {dst}
              /\ \A b \in DOMAIN g[src] : b # dst => h[src][b] = g[src][b]
              /\ h[src][dst] = Append(old, pidx)
      BY <1>1, <3>4, <3>5, <3>6, AddEdgeShape, SMTT(30) DEF g
    <3>9. EdgesAppend(src, dst, pidx)
      BY <1>4, <2>2, <3>1, <3>2, <3>7, <3>8 DEF EdgesAppend, g
    <3> QED
      BY <1>5, <2>2, <3>2, <3>3, <3>9 DEF EdgesEntered
  <2> QED
    BY <2>1, <2>2
<1> QED
  BY <1>1, <1>4, <1>7, <1>5, <1>6

(* So the edges have their shape.                                          *)
LEMMA EdgesEnteredShape ==
  ASSUME NEW q \in Posts, NEW u, account2idx_map_'[u] \in Accounts', EdgesEntered(q, u)
  PROVE  EdgesShape
  BY DEF EdgesEntered, EdgesShape, EdgesAppend

LEMMA StepShape == MapsInv /\ [Next]_vars => ListsShape /\ EdgesShape
<1> SUFFICES ASSUME MapsInv, [Next]_vars PROVE ListsShape /\ EdgesShape
  OBVIOUS
<1> USE FeedAssumption DEF FeedAssumption
<1>1. CASE \E e \in AccountFeed, replace \in BOOLEAN : AddAccount(e.user, e.data, replace)
  BY <1>1, AddAccountShape DEF EdgesShape
<1>2. CASE \E e \in PostFeed, replace \in BOOLEAN :
             e.user \in Users /\ AddPost(e.post, e.user, e.data, replace)
  BY <1>2, AddPostShape DEF EdgesShape
<1>3. CASE \E e \in PostFeed, replace \in BOOLEAN :
             e.user = BadUser /\ AddPostThrows(e.post, replace)
  BY <1>3, PlaceholderShape DEF AddPostThrows, EdgesShape
<1>4. CASE \E p \in Ids, replace \in BOOLEAN : BeginInteractions(p, replace)
  BY <1>4, PlaceholderShape DEF BeginInteractions, EdgesShape
<1>5. CASE /\ call \in Calls
           /\ \E t \in ITypes, id \in Ids, u \in Users : NewInteraction(t, id, u)
  BY <1>5, NewInteractionShape, EdgesEnteredShape
<1>6. CASE UNCHANGED <<accountVars, postVars>>
  <2>1. AuthorsKept({})
    BY <1>6 DEF postVars, AuthorsKept, Posts, AuthorOf
  <2>2. DOMAIN account_graph_ = Accounts
    BY DEF MapsInv, MapsAgree, AccountMaps, Accounts
  <2> QED
    BY <1>6, <2>1, <2>2, UnchangedSlots DEF ListsShape, ListsQuiet, EdgesShape
<1> QED
  BY <1>1, <1>2, <1>3, <1>4, <1>5, <1>6
  DEF Next, AddInteraction, KnownInteraction, EndInteractions, vars

-----------------------------------------------------------------------------
(* An author, once known, stays; so do the accounts' names.                *)
LEMMA AuthorsStay ==
  ASSUME MapsInv, ListsShape
  PROVE  /\ AccountsGrow
         /\ \A q \in Posts : q \in Posts' /\ (AuthorOf(q) # NoUid => AuthorOf(q)' = AuthorOf(q))
<1>1. CASE ListsQuiet
  BY <1>1 DEF ListsQuiet, AuthorsKept
<1>2. CASE \E a \in Accounts', q \in Posts' : ListsAppend(a, q)
  BY <1>2 DEF ListsAppend, AuthorsKept
<1> QED
  BY <1>1, <1>2 DEF ListsShape

(* Edges carry their source's posts: authors never change and an entry is  *)
(* appended only under the author's account.                               *)
LEMMA EdgesStep ==
  ASSUME MapsInv, MapsInv', EdgesLeaveAuthor, ListsShape, EdgesShape
  PROVE  EdgesLeaveAuthor'
<1>1. /\ AccountsGrow
      /\ \A q \in Posts : q \in Posts' /\ (AuthorOf(q) # NoUid => AuthorOf(q)' = AuthorOf(q))
  BY AuthorsStay
<1>2. ASSUME NEW a \in Accounts, NEW b \in DOMAIN account_graph_[a]
      PROVE  /\ b \in Accounts' /\ idx2account_map_'[a].userId # NoUid
             /\ \A k \in DOMAIN account_graph_[a][b] :
                  /\ account_graph_[a][b][k] \in Posts'
                  /\ idx2post_map_'[account_graph_[a][b][k]].userId = idx2account_map_'[a].userId
  BY <1>1 DEF EdgesLeaveAuthor, AccountsGrow, AuthorOf, UserOfIdx
<1>3. ASSUME NEW a \in Accounts', account_graph_'[a] = EdgesBefore(a),
             NEW b \in DOMAIN account_graph_'[a]
      PROVE  /\ b \in Accounts' /\ idx2account_map_'[a].userId # NoUid
             /\ \A k \in DOMAIN account_graph_'[a][b] :
                  /\ account_graph_'[a][b][k] \in Posts'
                  /\ idx2post_map_'[account_graph_'[a][b][k]].userId = idx2account_map_'[a].userId
  BY <1>2, <1>3 DEF EdgesBefore, EmptyMap
<1>4. CASE EdgesQuiet
  BY <1>3, <1>4 DEF EdgesQuiet, EdgesLeaveAuthor, AuthorOf, UserOfIdx
<1>5. CASE \E src \in Accounts, dst \in Accounts', q \in Posts : EdgesAppend(src, dst, q)
  <2>1. PICK src \in Accounts, dst \in Accounts', q \in Posts : EdgesAppend(src, dst, q)
    BY <1>5
  <2>2. /\ src \in Accounts' /\ idx2account_map_'[src].userId # NoUid
        /\ idx2post_map_'[q].userId = idx2account_map_'[src].userId /\ q \in Posts'
    BY <1>1, <2>1 DEF EdgesAppend, AccountsGrow, AuthorOf, UserOfIdx
  <2>3. ASSUME NEW b \in DOMAIN account_graph_'[src]
        PROVE  /\ b \in Accounts' /\ idx2account_map_'[src].userId # NoUid
               /\ \A k \in DOMAIN account_graph_'[src][b] :
                    /\ account_graph_'[src][b][k] \in Posts'
                    /\ idx2post_map_'[account_graph_'[src][b][k]].userId
                         = idx2account_map_'[src].userId
    <3>1. CASE b # dst
      BY <1>2, <2>1, <2>2, <3>1 DEF EdgesAppend
    <3>2. CASE b = dst
      <4> DEFINE old == IF dst \in DOMAIN account_graph_[src] THEN account_graph_[src][dst] ELSE <<>>
      <4>1. account_graph_'[src][b] = Append(old, q)
        BY <2>1, <3>2 DEF EdgesAppend
      <4>2. old \in Seq(Nat)
        BY DEF MapsInv, TypeOK, AccountTypeOK, MapsAgree, AccountMaps, Accounts
      <4>3. \A k \in DOMAIN old : /\ old[k] \in Posts'
                                  /\ idx2post_map_'[old[k]].userId = idx2account_map_'[src].userId
        BY <1>2
      <4> HIDE DEF old
      <4>4. \A k \in DOMAIN Append(old, q) : k \in DOMAIN old \/ Append(old, q)[k] = q
        BY <4>2
      <4>5. \A k \in DOMAIN old : Append(old, q)[k] = old[k]
        BY <4>2
      <4> QED
        BY <2>2, <3>2, <4>1, <4>3, <4>4, <4>5
    <3> QED
      BY <3>1, <3>2
  <2>4. ASSUME NEW a \in Accounts', a # src
        PROVE  account_graph_'[a] = EdgesBefore(a)
    BY <2>1, <2>4 DEF EdgesAppend
  <2> QED
    BY <1>3, <2>3, <2>4 DEF EdgesLeaveAuthor, AuthorOf, UserOfIdx
<1> QED
  BY <1>4, <1>5 DEF EdgesShape

(***************************************************************************)
(* Every edge leaves the account of the author of each post it carries.    *)
(***************************************************************************)
THEOREM EdgesLeaveAuthors == Spec => []EdgesLeaveAuthor
<1>1. Init => MapsInv /\ EdgesLeaveAuthor
  BY InitMaps DEF Init, EdgesLeaveAuthor, Accounts, EmptyMap
<1>2. MapsInv /\ EdgesLeaveAuthor /\ [Next]_vars => (MapsInv /\ EdgesLeaveAuthor)'
  BY NextKeepsMaps, StepShape, EdgesStep
<1> QED
  BY <1>1, <1>2, PTL DEF Spec

-----------------------------------------------------------------------------
(* The lists of posts: an append puts a post that had no author, and so    *)
(* stood in no list, under its author.                                     *)
LEMMA QuietLists ==
  ASSUME MapsInv, MapsInv', AuthorLists, ListsQuiet
  PROVE  AuthorLists'
<1>1. /\ AccountsGrow
      /\ \A q \in Posts : q \in Posts' /\ AuthorOf(q)' = AuthorOf(q)
      /\ \A q \in Posts' : q \in Posts \/ AuthorOf(q)' = NoUid
      /\ \A a \in Accounts' : account_posts_'[a] = PostsBefore(a)
  BY DEF ListsQuiet, AuthorsKept
<1>2. ASSUME NEW a \in Accounts'
      PROVE  /\ \A k \in DOMAIN account_posts_'[a] : account_posts_'[a][k] \in Posts'
             /\ idx2account_map_'[a].userId # NoUid =>
                  /\ \A j, k \in DOMAIN account_posts_'[a] :
                       account_posts_'[a][j] = account_posts_'[a][k] => j = k
                  /\ \A k \in DOMAIN account_posts_'[a] :
                       idx2post_map_'[account_posts_'[a][k]].userId = idx2account_map_'[a].userId
  <2>1. CASE a \in Accounts
    <3>1. account_posts_'[a] = account_posts_[a] /\ idx2account_map_'[a].userId = UserOfIdx(a)
      BY <1>1, <2>1 DEF PostsBefore, AccountsGrow, UserOfIdx
    <3> QED
      BY <1>1, <2>1, <3>1 DEF AuthorLists, AuthorOf
  <2>2. CASE a \notin Accounts
    BY <1>1, <1>2, <2>2 DEF PostsBefore
  <2> QED
    BY <2>1, <2>2
<1>3. ASSUME NEW q \in Posts', AuthorOf(q)' # NoUid
      PROVE  /\ AuthorOf(q)' \in DOMAIN account2idx_map_'
             /\ \E k \in DOMAIN account_posts_'[account2idx_map_'[AuthorOf(q)']] :
                  account_posts_'[account2idx_map_'[AuthorOf(q)']][k] = q
  <2>1. q \in Posts /\ AuthorOf(q)' = AuthorOf(q)
    BY <1>1, <1>3
  <2> DEFINE a == account2idx_map_[AuthorOf(q)]
  <2>2. /\ HasAccount(AuthorOf(q))
        /\ \E k \in DOMAIN account_posts_[a] : account_posts_[a][k] = q
    BY <1>3, <2>1 DEF AuthorLists
  <2>3. AuthorOf(q)' \in DOMAIN account2idx_map_' /\ account2idx_map_'[AuthorOf(q)'] = a
    BY <1>1, <2>1, <2>2 DEF AccountsGrow, HasAccount
  <2>4. a \in Accounts
    BY <2>2 DEF MapsInv, MapsAgree, AccountMaps, Accounts, HasAccount
  <2>5. account_posts_'[a] = account_posts_[a]
    BY <1>1, <2>4 DEF PostsBefore, AccountsGrow
  <2> HIDE DEF a
  <2> QED
    BY <2>2, <2>3, <2>5
<1> QED
  BY <1>2, <1>3 DEF AuthorLists, AuthorOf, UserOfIdx, HasAccount

LEMMA AppendLists ==
  ASSUME MapsInv, MapsInv', AuthorLists, NEW a0 \in Accounts', NEW q0 \in Posts',
         ListsAppend(a0, q0)
  PROVE  AuthorLists'
<1>1. /\ AccountsGrow
      /\ \A q \in Posts : q \in Posts'
      /\ \A q \in Posts : q # q0 => AuthorOf(q)' = AuthorOf(q)
      /\ \A q \in Posts' : q \in Posts \/ q = q0 \/ AuthorOf(q)' = NoUid
      /\ q0 \in Posts => AuthorOf(q0) = NoUid
      /\ idx2post_map_'[q0].userId = idx2account_map_'[a0].userId
      /\ \A a \in Accounts' : a # a0 => account_posts_'[a] = PostsBefore(a)
      /\ account_posts_'[a0] = Append(PostsBefore(a0), q0)
  BY DEF ListsAppend, AuthorsKept, AuthorOf, UserOfIdx
<1>2. ASSUME NEW a \in Accounts'
      PROVE  /\ PostsBefore(a) \in Seq(Nat)
             /\ \A k \in DOMAIN PostsBefore(a) : PostsBefore(a)[k] \in Posts'
  BY <1>1, <1>2 DEF PostsBefore, AuthorLists, MapsInv, TypeOK, AccountTypeOK, Accounts
<1>3. ASSUME NEW a \in Accounts', idx2account_map_'[a].userId # NoUid
      PROVE  /\ \A j, k \in DOMAIN PostsBefore(a) :
                  PostsBefore(a)[j] = PostsBefore(a)[k] => j = k
             /\ \A k \in DOMAIN PostsBefore(a) :
                  /\ PostsBefore(a)[k] # q0
                  /\ idx2post_map_'[PostsBefore(a)[k]].userId = idx2account_map_'[a].userId
  <2>1. CASE a \in Accounts
    <3>1. PostsBefore(a) = account_posts_[a]
      BY <2>1 DEF PostsBefore
    <3>2. UserOfIdx(a) # NoUid /\ idx2account_map_'[a].userId = UserOfIdx(a)
      BY <1>1, <1>3, <2>1 DEF AccountsGrow, UserOfIdx
    <3>3. /\ \A j, k \in DOMAIN account_posts_[a] :
               account_posts_[a][j] = account_posts_[a][k] => j = k
          /\ \A k \in DOMAIN account_posts_[a] :
               account_posts_[a][k] \in Posts /\ AuthorOf(account_posts_[a][k]) = UserOfIdx(a)
      BY <2>1, <3>2 DEF AuthorLists
    <3>4. \A k \in DOMAIN account_posts_[a] :
            /\ account_posts_[a][k] # q0
            /\ idx2post_map_'[account_posts_[a][k]].userId = idx2account_map_'[a].userId
      BY <1>1, <3>2, <3>3 DEF AuthorOf
    <3> QED
      BY <3>1, <3>3, <3>4
  <2>2. CASE a \notin Accounts
    BY <2>2 DEF PostsBefore
  <2> QED
    BY <2>1, <2>2
<1>4. ASSUME NEW a \in Accounts'
      PROVE  /\ \A k \in DOMAIN account_posts_'[a] : account_posts_'[a][k] \in Posts'
             /\ idx2account_map_'[a].userId # NoUid =>
                  /\ \A j, k \in DOMAIN account_posts_'[a] :
                       account_posts_'[a][j] = account_posts_'[a][k] => j = k
                  /\ \A k \in DOMAIN account_posts_'[a] :
                       idx2post_map_'[account_posts_'[a][k]].userId = idx2account_map_'[a].userId
  <2>1. CASE a # a0
    BY <1>1, <1>2, <1>3, <2>1
  <2>2. CASE a = a0
    <3> DEFINE s == PostsBefore(a)
    <3>1. s \in Seq(Nat) /\ \A k \in DOMAIN s : s[k] \in Posts'
      BY <1>2
    <3>2. /\ \A k \in DOMAIN Append(s, q0) : k \in DOMAIN s \/ k = Len(s) + 1
          /\ Len(s) + 1 \notin DOMAIN s
          /\ \A k \in DOMAIN s : Append(s, q0)[k] = s[k]
          /\ Append(s, q0)[Len(s) + 1] = q0
      BY <3>1
    <3>3. account_posts_'[a] = Append(s, q0)
      BY <1>1, <2>2
    <3>4. idx2account_map_'[a].userId # NoUid =>
            /\ \A j, k \in DOMAIN s : s[j] = s[k] => j = k
            /\ \A k \in DOMAIN s : /\ s[k] # q0
                                   /\ idx2post_map_'[s[k]].userId = idx2account_map_'[a].userId
      BY <1>3
    <3> HIDE DEF s
    <3>5. \A k \in DOMAIN Append(s, q0) : Append(s, q0)[k] \in Posts'
      BY <3>1, <3>2
    <3>6. ASSUME idx2account_map_'[a].userId # NoUid
          PROVE  /\ \A j, k \in DOMAIN Append(s, q0) :
                      Append(s, q0)[j] = Append(s, q0)[k] => j = k
                 /\ \A k \in DOMAIN Append(s, q0) :
                      idx2post_map_'[Append(s, q0)[k]].userId = idx2account_map_'[a].userId
      BY <1>1, <2>2, <3>2, <3>4, <3>6
    <3> QED
      BY <3>3, <3>5, <3>6
  <2> QED
    BY <2>1, <2>2
<1>5. ASSUME NEW q \in Posts', AuthorOf(q)' # NoUid
      PROVE  /\ AuthorOf(q)' \in DOMAIN account2idx_map_'
             /\ \E k \in DOMAIN account_posts_'[account2idx_map_'[AuthorOf(q)']] :
                  account_posts_'[account2idx_map_'[AuthorOf(q)']][k] = q
  <2>1. CASE q = q0
    <3>1. /\ AuthorOf(q)' = idx2account_map_'[a0].userId
          /\ AuthorOf(q)' \in DOMAIN account2idx_map_'
          /\ account2idx_map_'[AuthorOf(q)'] = a0
      BY <1>1, <2>1 DEF MapsInv, MapsAgree, AccountMaps, Accounts, AuthorOf, UserOfIdx
    <3>2. PostsBefore(a0) \in Seq(Nat)
      BY <1>2
    <3>3. /\ Len(PostsBefore(a0)) + 1 \in DOMAIN Append(PostsBefore(a0), q0)
          /\ Append(PostsBefore(a0), q0)[Len(PostsBefore(a0)) + 1] = q0
      BY <3>2
    <3> QED
      BY <1>1, <2>1, <3>1, <3>3
  <2>2. CASE q # q0
    <3>1. q \in Posts /\ AuthorOf(q)' = AuthorOf(q)
      BY <1>1, <1>5, <2>2
    <3> DEFINE a == account2idx_map_[AuthorOf(q)]
    <3>2. /\ HasAccount(AuthorOf(q))
          /\ \E k \in DOMAIN account_posts_[a] : account_posts_[a][k] = q
      BY <1>5, <3>1 DEF AuthorLists
    <3>3. AuthorOf(q)' \in DOMAIN account2idx_map_' /\ account2idx_map_'[AuthorOf(q)'] = a
      BY <1>1, <3>1, <3>2 DEF AccountsGrow, HasAccount
    <3>4. a \in Accounts /\ a \in Accounts'
      BY <1>1, <3>2 DEF MapsInv, MapsAgree, AccountMaps, Accounts, HasAccount, AccountsGrow
    <3>5. account_posts_[a] = PostsBefore(a) /\ account_posts_[a] \in Seq(Nat)
      BY <1>2, <3>4 DEF PostsBefore
    <3>6. account_posts_'[a] \in {account_posts_[a], Append(account_posts_[a], q0)}
      BY <1>1, <3>4, <3>5
    <3> HIDE DEF a
    <3>7. \A k \in DOMAIN account_posts_[a] :
            k \in DOMAIN account_posts_'[a] /\ account_posts_'[a][k] = account_posts_[a][k]
      BY <3>5, <3>6
    <3> QED
      BY <3>2, <3>3, <3>7
  <2> QED
    BY <2>1, <2>2
<1> QED
  BY <1>4, <1>5 DEF AuthorLists, AuthorOf, UserOfIdx, HasAccount

(***************************************************************************)
(* The list of each account with a name holds exactly the posts it is the  *)
(* author of, each once (:476-486, :615).  The account "" is excepted: it  *)
(* may list posts again, and posts that other accounts list too.           *)
(***************************************************************************)
THEOREM ListsAreAuthors == Spec => []AuthorLists
<1>1. Init => MapsInv /\ AuthorLists
  BY InitMaps DEF Init, AuthorLists, Accounts, Posts, EmptyMap
<1>2. MapsInv /\ AuthorLists /\ [Next]_vars => (MapsInv /\ AuthorLists)'
  BY NextKeepsMaps, StepShape, QuietLists, AppendLists DEF ListsShape
<1> QED
  BY <1>1, <1>2, PTL DEF Spec

-----------------------------------------------------------------------------
(***************************************************************************)
(* The interactions of the store: every stored one stands in one post's    *)
(* list once.  A step either leaves the lists and the map of interactions  *)
(* alone or adds an id that was stored nowhere to both.                    *)
(***************************************************************************)
(* The list of post q before the step, empty for a post of the step.       *)
ListBefore(q) == IF q \in Posts THEN post_interactions_[q] ELSE <<>>

PostsGrow == \A q \in Posts : q \in Posts'

InteractionsQuiet ==
  /\ PostsGrow
  /\ DOMAIN interact_map_' = DOMAIN interact_map_
  /\ \A q \in Posts' : post_interactions_'[q] = ListBefore(q)

InteractionsAppend(q0, id) ==
  /\ PostsGrow /\ q0 \in Posts
  /\ id \notin DOMAIN interact_map_
  /\ DOMAIN interact_map_' = DOMAIN interact_map_ \cup {id}
  /\ \A q \in Posts' :
       post_interactions_'[q] = IF q = q0 THEN Append(ListBefore(q), id) ELSE ListBefore(q)

InteractionsShape ==
  InteractionsQuiet \/ \E q \in Posts, id \in Ids : InteractionsAppend(q, id)

-----------------------------------------------------------------------------
(* A post whose info is written, and whose list is not, keeps its list.    *)
LEMMA ListsUntouched ==
  ASSUME UNCHANGED post_interactions_, DOMAIN interact_map_' = DOMAIN interact_map_
  PROVE  InteractionsQuiet
  BY DEF InteractionsQuiet, PostsGrow, Posts, ListBefore

(* RegisterPost gives the next index an empty list.                        *)
LEMMA RegisterShape ==
  ASSUME MapsInv, NEW p \in Ids, NEW info, RegisterPost(p, info), UNCHANGED interact_map_
  PROVE  InteractionsQuiet
<1>1. num_posts \notin Posts
  BY FS_CardinalityType
  DEF MapsInv, MapsAgree, PostMaps, FiniteMaps, Posts, num_posts
<1>2. post_interactions_' = Put(post_interactions_, num_posts, <<>>)
  BY DEF RegisterPost
<1>3. /\ Posts' = Posts \cup {num_posts}
      /\ \A q \in Posts' : post_interactions_'[q] = ListBefore(q)
  BY <1>1, <1>2 DEF Posts, Put, ListBefore
<1> QED
  BY <1>3 DEF InteractionsQuiet, PostsGrow

LEMMA PlaceholderKeepsLists ==
  ASSUME MapsInv, NEW p \in Ids, UNCHANGED interact_map_,
         IF HasPost(p) THEN UNCHANGED postVars ELSE RegisterPost(p, NewPost(p, NoUid))
  PROVE  InteractionsQuiet
<1>1. CASE HasPost(p)
  BY <1>1, ListsUntouched DEF postVars
<1>2. CASE ~HasPost(p)
  BY <1>2, RegisterShape
<1> QED
  BY <1>1, <1>2

LEMMA AddPostKeepsLists ==
  ASSUME MapsInv, NEW p \in Ids, NEW u, NEW d, NEW replace, AddPost(p, u, d, replace)
  PROVE  InteractionsQuiet
<1>1. CASE UNCHANGED post_interactions_
  BY <1>1, ListsUntouched DEF AddPost
<1>2. CASE RegisterPost(p, [NewPost(p, u) EXCEPT !.data = d])
  BY <1>2, RegisterShape DEF AddPost
<1> QED
  BY <1>1, <1>2 DEF AddPost, postVars

(* A new interaction is appended to the list of the call's post and to no  *)
(* other, also when it registers the post of a forward or quote.           *)
LEMMA NewInteractionAppends ==
  ASSUME MapsInv, NEW t \in ITypes, NEW id \in Ids, NEW u \in Users,
         call \in Calls, NewInteraction(t, id, u)
  PROVE  InteractionsAppend(post2idx_map_[call.post], id)
<1>0. HasPost(call.post)
  BY DEF MapsInv, CallOnKnownPost
<1>1. PICK pidx \in Posts : pidx = post2idx_map_[call.post]
  BY <1>0 DEF MapsInv, MapsAgree, PostMaps, Posts, HasPost
<1>2. num_posts \notin Posts
  BY FS_CardinalityType
  DEF MapsInv, MapsAgree, PostMaps, FiniteMaps, Posts, num_posts
<1>3. /\ id \notin DOMAIN interact_map_
      /\ DOMAIN interact_map_' = DOMAIN interact_map_ \cup {id}
  BY DEF NewInteraction, HasInteract, Put
<1>4. \/ post_interactions_' = [post_interactions_ EXCEPT ![pidx] = Append(@, id)]
      \/ post_interactions_' =
           Put([post_interactions_ EXCEPT ![pidx] = Append(@, id)], num_posts, <<>>)
  BY <1>1 DEF NewInteraction
<1> DEFINE pushed == [post_interactions_ EXCEPT ![pidx] = Append(@, id)]
<1>5. /\ DOMAIN pushed = Posts
      /\ \A q \in Posts : pushed[q] = IF q = pidx THEN Append(ListBefore(q), id) ELSE ListBefore(q)
  BY <1>1 DEF Posts, ListBefore
<1> HIDE DEF pushed
<1>6. /\ PostsGrow
      /\ \A q \in Posts' :
           post_interactions_'[q] = IF q = pidx THEN Append(ListBefore(q), id) ELSE ListBefore(q)
  <2>1. CASE post_interactions_' = pushed
    BY <1>5, <2>1 DEF Posts, PostsGrow
  <2>2. CASE post_interactions_' = Put(pushed, num_posts, <<>>)
    <3>1. /\ Posts' = Posts \cup {num_posts}
          /\ post_interactions_'[num_posts] = <<>>
          /\ \A q \in Posts : post_interactions_'[q] = pushed[q]
      BY <1>2, <1>5, <2>2 DEF Posts, Put
    <3>2. ListBefore(num_posts) = <<>> /\ num_posts # pidx
      BY <1>1, <1>2 DEF ListBefore
    <3> QED
      BY <1>5, <3>1, <3>2 DEF PostsGrow
  <2> QED
    BY <1>4, <2>1, <2>2 DEF pushed
<1> QED
  BY <1>1, <1>3, <1>6 DEF InteractionsAppend

LEMMA InteractionsStepShape ==
  ASSUME MapsInv, [Next]_vars
  PROVE  InteractionsShape
<1> USE FeedAssumption DEF FeedAssumption
<1>1. CASE \E e \in AccountFeed, replace \in BOOLEAN : AddAccount(e.user, e.data, replace)
  BY <1>1, ListsUntouched DEF AddAccount, postVars, InteractionsShape
<1>2. CASE \E e \in PostFeed, replace \in BOOLEAN :
             e.user \in Users /\ AddPost(e.post, e.user, e.data, replace)
  BY <1>2, AddPostKeepsLists DEF InteractionsShape
<1>3. CASE \E e \in PostFeed, replace \in BOOLEAN :
             e.user = BadUser /\ AddPostThrows(e.post, replace)
  BY <1>3, PlaceholderKeepsLists DEF AddPostThrows, InteractionsShape
<1>4. CASE \E p \in Ids, replace \in BOOLEAN : BeginInteractions(p, replace)
  BY <1>4, PlaceholderKeepsLists DEF BeginInteractions, InteractionsShape
<1>5. CASE \E t \in ITypes, id \in Ids, u \in Users : AddInteraction(t, id, u)
  <2>1. PICK t \in ITypes, id \in Ids, u \in Users : AddInteraction(t, id, u)
    BY <1>5
  <2>2. CASE NewInteraction(t, id, u)
    <3>1. InteractionsAppend(post2idx_map_[call.post], id)
      BY <2>1, <2>2, NewInteractionAppends DEF AddInteraction
    <3>2. post2idx_map_[call.post] \in Posts
      BY <3>1 DEF InteractionsAppend
    <3> QED
      BY <3>1, <3>2 DEF InteractionsShape
  <2>3. CASE KnownInteraction(t, id, u)
    BY <2>3, KnownInteractionNames, ListsUntouched DEF postVars, InteractionsShape
  <2> QED
    BY <2>1, <2>2, <2>3 DEF AddInteraction
<1>6. CASE EndInteractions \/ UNCHANGED vars
  BY <1>6, ListsUntouched DEF EndInteractions, vars, postVars, InteractionsShape
<1> QED
  BY <1>1, <1>2, <1>3, <1>4, <1>5, <1>6 DEF Next

-----------------------------------------------------------------------------
(* The lists after a step that appends nothing.                            *)
LEMMA QuietKeepsOnce ==
  ASSUME InteractionsListedOnce, InteractionsQuiet
  PROVE  InteractionsListedOnce'
<1>1. \A q \in Posts' : \A j \in DOMAIN post_interactions_'[q] :
        q \in Posts /\ post_interactions_'[q] = post_interactions_[q]
  BY DEF InteractionsQuiet, ListBefore
<1>2. \A q \in Posts : q \in Posts' /\ post_interactions_'[q] = post_interactions_[q]
  BY DEF InteractionsQuiet, PostsGrow, ListBefore
<1>3. DOMAIN interact_map_' = DOMAIN interact_map_
  BY DEF InteractionsQuiet
<1>4. \A q, r \in Posts' :
        \A j \in DOMAIN post_interactions_'[q], k \in DOMAIN post_interactions_'[r] :
          post_interactions_'[q][j] = post_interactions_'[r][k] => q = r /\ j = k
  BY <1>1 DEF InteractionsListedOnce
<1>5. \A q \in Posts' : \A j \in DOMAIN post_interactions_'[q] :
        post_interactions_'[q][j] \in DOMAIN interact_map_'
  BY <1>1, <1>3 DEF InteractionsListedOnce
<1>6. \A id \in DOMAIN interact_map_' :
        \E q \in Posts' : \E j \in DOMAIN post_interactions_'[q] : post_interactions_'[q][j] = id
  BY <1>2, <1>3 DEF InteractionsListedOnce
<1> QED
  BY <1>4, <1>5, <1>6 DEF InteractionsListedOnce

(* What an appended id leaves at each place of each list.                  *)
LEMMA PlacesAfterAppend ==
  ASSUME MapsInv, NEW q0 \in Posts, NEW id \in Ids, InteractionsAppend(q0, id)
  PROVE  LET new == Len(post_interactions_[q0]) + 1
         IN  /\ q0 \in Posts' /\ new \in DOMAIN post_interactions_'[q0]
             /\ post_interactions_'[q0][new] = id
             /\ \A q \in Posts : \A j \in DOMAIN post_interactions_[q] :
                  /\ q \in Posts' /\ j \in DOMAIN post_interactions_'[q]
                  /\ post_interactions_'[q][j] = post_interactions_[q][j]
             /\ \A q \in Posts' : \A j \in DOMAIN post_interactions_'[q] :
                  \/ q = q0 /\ j = new
                  \/ /\ q \in Posts /\ j \in DOMAIN post_interactions_[q]
                     /\ post_interactions_'[q][j] = post_interactions_[q][j]
<1> DEFINE old == post_interactions_[q0]
           longer == Append(old, id)
           new == Len(old) + 1
<1>1. old \in Seq(Ids)
  BY DEF MapsInv, TypeOK, PostTypeOK, Posts
<1>2. /\ Len(old) \in Nat /\ DOMAIN old = 1..Len(old)
      /\ DOMAIN longer = 1..new /\ longer[new] = id
      /\ \A j \in 1..Len(old) : longer[j] = old[j]
  <2>1. longer \in Seq(Ids) /\ Len(longer) = new
    BY <1>1
  <2>2. DOMAIN longer = 1..new
    BY <2>1
  <2> QED
    BY <1>1, <2>2
<1>3. DOMAIN longer = DOMAIN old \cup {new} /\ new \in DOMAIN longer
  BY <1>2
<1>4. /\ \A q \in Posts : q \in Posts'
      /\ post_interactions_'[q0] = longer
      /\ \A q \in Posts : q # q0 => post_interactions_'[q] = post_interactions_[q]
      /\ \A q \in Posts' : q \notin Posts => post_interactions_'[q] = <<>>
  BY DEF InteractionsAppend, PostsGrow, ListBefore
<1> HIDE DEF longer
<1>5. \A q \in Posts : \A j \in DOMAIN post_interactions_[q] :
        /\ q \in Posts' /\ j \in DOMAIN post_interactions_'[q]
        /\ post_interactions_'[q][j] = post_interactions_[q][j]
  BY <1>2, <1>3, <1>4
<1>6. ASSUME NEW q \in Posts', NEW j \in DOMAIN post_interactions_'[q],
             ~(q = q0 /\ j = new)
      PROVE  /\ q \in Posts /\ j \in DOMAIN post_interactions_[q]
             /\ post_interactions_'[q][j] = post_interactions_[q][j]
  BY <1>2, <1>3, <1>4, <1>6
<1> QED
  BY <1>3, <1>2, <1>4, <1>5, <1>6

LEMMA AppendKeepsOnce ==
  ASSUME MapsInv, InteractionsListedOnce, NEW q0 \in Posts, NEW id \in Ids,
         InteractionsAppend(q0, id)
  PROVE  InteractionsListedOnce'
<1> DEFINE new == Len(post_interactions_[q0]) + 1
           IsNew(q, j) == q = q0 /\ j = new
<1>1. /\ q0 \in Posts' /\ new \in DOMAIN post_interactions_'[q0]
      /\ post_interactions_'[q0][new] = id
      /\ \A q \in Posts : \A j \in DOMAIN post_interactions_[q] :
           /\ q \in Posts' /\ j \in DOMAIN post_interactions_'[q]
           /\ post_interactions_'[q][j] = post_interactions_[q][j]
      /\ \A q \in Posts' : \A j \in DOMAIN post_interactions_'[q] :
           \/ IsNew(q, j)
           \/ /\ q \in Posts /\ j \in DOMAIN post_interactions_[q]
              /\ post_interactions_'[q][j] = post_interactions_[q][j]
  BY PlacesAfterAppend
<1> HIDE DEF new
<1>2. /\ id \notin DOMAIN interact_map_
      /\ DOMAIN interact_map_' = DOMAIN interact_map_ \cup {id}
  BY DEF InteractionsAppend
<1>3. \A q \in Posts' : \A j \in DOMAIN post_interactions_'[q] :
        ~IsNew(q, j) => post_interactions_'[q][j] \in DOMAIN interact_map_
  BY <1>1 DEF InteractionsListedOnce
<1>4. ASSUME NEW q \in Posts', NEW r \in Posts',
             NEW j \in DOMAIN post_interactions_'[q], NEW k \in DOMAIN post_interactions_'[r],
             post_interactions_'[q][j] = post_interactions_'[r][k]
      PROVE  q = r /\ j = k
  <2>1. CASE IsNew(q, j) \/ IsNew(r, k)
    BY <1>1, <1>2, <1>3, <1>4, <2>1
  <2>2. CASE ~IsNew(q, j) /\ ~IsNew(r, k)
    BY <1>1, <1>4, <2>2 DEF InteractionsListedOnce
  <2> QED
    BY <2>1, <2>2
<1>5. \A q \in Posts' : \A j \in DOMAIN post_interactions_'[q] :
        post_interactions_'[q][j] \in DOMAIN interact_map_'
  BY <1>1, <1>2, <1>3
<1>6. \A i \in DOMAIN interact_map_' :
        \E q \in Posts' : \E j \in DOMAIN post_interactions_'[q] : post_interactions_'[q][j] = i
  BY <1>1, <1>2 DEF InteractionsListedOnce
<1> QED
  BY <1>4, <1>5, <1>6 DEF InteractionsListedOnce

(***************************************************************************)
(* Every stored interaction stands in exactly one post's list exactly once *)
(* and the lists hold nothing else, for every set of ids and every feed:   *)
(* an id may arrive again under another post, type or user (:520).         *)
(***************************************************************************)
THEOREM InteractionsAreListedOnce == Spec => []InteractionsListedOnce
<1>1. Init => MapsInv /\ InteractionsListedOnce
  BY InitMaps DEF Init, EmptyMap, InteractionsListedOnce, Posts
<1>2. MapsInv /\ InteractionsListedOnce /\ [Next]_vars => (MapsInv /\ InteractionsListedOnce)'
  BY NextKeepsMaps, InteractionsStepShape, QuietKeepsOnce, AppendKeepsOnce
  DEF InteractionsShape
<1> QED
  BY <1>1, <1>2, PTL DEF Spec

-----------------------------------------------------------------------------
(***************************************************************************)
(* What the store promises over time: no step forgets, renumbers or        *)
(* reorders anything, the account graph holds exactly what each post       *)
(* received since its author is known, each call is one step of the        *)
(* ledger, and files that agree with each other never trip an assertion.   *)
(* The arguments combine the two shapes of a step: what it does to the     *)
(* accounts' lists and edges, and what it does to the posts' interactions. *)
(***************************************************************************)

(* Indexes handed out stay, and so does what is stored of an interaction,  *)
(* but for a user that is missing.                                         *)
KeysStay ==
  /\ \A p \in DOMAIN post2idx_map_ :
       p \in DOMAIN post2idx_map_' /\ post2idx_map_'[p] = post2idx_map_[p]
  /\ \A id \in DOMAIN interact_map_ :
       /\ id \in DOMAIN interact_map_' /\ interact_map_'[id].itype = interact_map_[id].itype
       /\ UserOfInteract(id) # NoUid => interact_map_'[id] = interact_map_[id]

LEMMA PostKeysStay ==
  ASSUME \/ UNCHANGED post2idx_map_
         \/ \E p \in Ids : ~HasPost(p) /\ post2idx_map_' = Put(post2idx_map_, p, num_posts)
  PROVE  \A p \in DOMAIN post2idx_map_ :
           p \in DOMAIN post2idx_map_' /\ post2idx_map_'[p] = post2idx_map_[p]
  BY DEF HasPost, Put

LEMMA InteractKeysStay ==
  ASSUME \/ UNCHANGED interact_map_
         \/ \E id, info : ~HasInteract(id) /\ interact_map_' = Put(interact_map_, id, info)
  PROVE  \A id \in DOMAIN interact_map_ :
           id \in DOMAIN interact_map_' /\ interact_map_'[id] = interact_map_[id]
  BY DEF HasInteract, Put

LEMMA StepKeepsKeys == MapsInv /\ [Next]_vars => KeysStay
<1> SUFFICES ASSUME MapsInv, [Next]_vars PROVE KeysStay
  OBVIOUS
<1> USE FeedAssumption DEF FeedAssumption
<1>1. CASE \E e \in AccountFeed, replace \in BOOLEAN : AddAccount(e.user, e.data, replace)
  BY <1>1, PostKeysStay, InteractKeysStay DEF AddAccount, postVars, KeysStay
<1>2. CASE \E e \in PostFeed, replace \in BOOLEAN :
             e.user \in Users /\ AddPost(e.post, e.user, e.data, replace)
  <2>1. PICK e \in PostFeed, replace \in BOOLEAN : AddPost(e.post, e.user, e.data, replace)
    BY <1>2
  <2>2. \/ UNCHANGED post2idx_map_
        \/ ~HasPost(e.post) /\ post2idx_map_' = Put(post2idx_map_, e.post, num_posts)
    BY <2>1 DEF AddPost, postVars, RegisterPost
  <2>3. UNCHANGED interact_map_
    BY <2>1 DEF AddPost
  <2> QED
    BY <2>2, <2>3, PostKeysStay, InteractKeysStay DEF KeysStay
<1>3. CASE \E e \in PostFeed, replace \in BOOLEAN :
             e.user = BadUser /\ AddPostThrows(e.post, replace)
  <2>1. PICK e \in PostFeed, replace \in BOOLEAN : AddPostThrows(e.post, replace)
    BY <1>3
  <2> QED
    BY <2>1, PostKeysStay, InteractKeysStay DEF AddPostThrows, postVars, RegisterPost, KeysStay
<1>4. CASE \E p \in Ids, replace \in BOOLEAN : BeginInteractions(p, replace)
  BY <1>4, PostKeysStay, InteractKeysStay DEF BeginInteractions, postVars, RegisterPost, KeysStay
<1>5. CASE \E t \in ITypes, id \in Ids, u \in Users : AddInteraction(t, id, u)
  <2>1. PICK t \in ITypes, id \in Ids, u \in Users : AddInteraction(t, id, u)
    BY <1>5
  <2>2. CASE NewInteraction(t, id, u)
    <3>1. \/ UNCHANGED post2idx_map_
          \/ ~HasPost(id) /\ post2idx_map_' = Put(post2idx_map_, id, num_posts)
      BY <2>2 DEF NewInteraction
    <3>2. ~HasInteract(id) /\ interact_map_' = Put(interact_map_, id, [itype |-> t, userId |-> u])
      BY <2>2 DEF NewInteraction
    <3> QED
      BY <3>1, <3>2, PostKeysStay, InteractKeysStay DEF KeysStay
  <2>3. CASE KnownInteraction(t, id, u)
    BY <2>3, PostKeysStay, KnownInteractionNames DEF postVars, KeysStay, UserOfInteract
  <2> QED
    BY <2>1, <2>2, <2>3 DEF AddInteraction
<1>6. CASE EndInteractions \/ UNCHANGED vars
  BY <1>6, PostKeysStay, InteractKeysStay DEF EndInteractions, vars, postVars, KeysStay
<1> QED
  BY <1>1, <1>2, <1>3, <1>4, <1>5, <1>6 DEF Next

-----------------------------------------------------------------------------
(* A list that is left alone or gets one more entry keeps what it held.    *)
LEMMA AppendKeepsPrefix ==
  ASSUME NEW T, NEW s \in Seq(T), NEW x
  PROVE  IsPrefixOf(s, s) /\ IsPrefixOf(s, Append(s, x))
<1>1. Len(s) \in Nat
  OBVIOUS
<1>2. /\ Len(Append(s, x)) = Len(s) + 1
      /\ \A k \in 1..Len(s) : Append(s, x)[k] = s[k]
  OBVIOUS
<1> QED
  BY <1>1, <1>2 DEF IsPrefixOf

LEMMA StepKeepsHistory ==
  ASSUME MapsInv, [Next]_vars
  PROVE  KeepsHistory
<1>1. ListsShape /\ EdgesShape /\ InteractionsShape /\ KeysStay
  BY StepShape, InteractionsStepShape, StepKeepsKeys
<1>2. /\ AccountsGrow
      /\ \A q \in Posts : q \in Posts' /\ (AuthorOf(q) # NoUid => AuthorOf(q)' = AuthorOf(q))
  BY <1>1, AuthorsStay
<1>3. ASSUME NEW q \in Posts
      PROVE  IsPrefixOf(post_interactions_[q], post_interactions_'[q])
  <2>1. post_interactions_[q] \in Seq(Ids)
    BY DEF MapsInv, TypeOK, PostTypeOK, Posts
  <2>2. \/ post_interactions_'[q] = post_interactions_[q]
        \/ \E id \in Ids : post_interactions_'[q] = Append(post_interactions_[q], id)
    BY <1>1, <1>2 DEF InteractionsShape, InteractionsQuiet, InteractionsAppend, ListBefore
  <2> QED
    BY <2>1, <2>2, AppendKeepsPrefix
<1>4. ASSUME NEW a \in Accounts
      PROVE  IsPrefixOf(account_posts_[a], account_posts_'[a])
  <2>1. account_posts_[a] \in Seq(Nat)
    BY DEF MapsInv, TypeOK, AccountTypeOK, Accounts
  <2>2. \/ account_posts_'[a] = account_posts_[a]
        \/ \E q \in Posts' : account_posts_'[a] = Append(account_posts_[a], q)
    BY <1>1, <1>2 DEF ListsShape, ListsQuiet, ListsAppend, PostsBefore, AccountsGrow
  <2> QED
    BY <2>1, <2>2, AppendKeepsPrefix
<1>5. ASSUME NEW a \in Accounts, NEW b \in DOMAIN account_graph_[a]
      PROVE  IsPrefixOf(account_graph_[a][b], account_graph_'[a][b])
  <2>1. account_graph_[a][b] \in Seq(Nat)
    BY DEF MapsInv, TypeOK, AccountTypeOK, MapsAgree, AccountMaps, Accounts
  <2>2. \/ account_graph_'[a][b] = account_graph_[a][b]
        \/ \E q \in Posts : account_graph_'[a][b] = Append(account_graph_[a][b], q)
    <3>1. a \in Accounts' /\ EdgesBefore(a) = account_graph_[a]
      BY <1>2 DEF AccountsGrow, EdgesBefore
    <3>2. CASE EdgesQuiet
      BY <3>1, <3>2 DEF EdgesQuiet
    <3>3. CASE \E src \in Accounts, dst \in Accounts', q \in Posts : EdgesAppend(src, dst, q)
      BY <3>1, <3>3 DEF EdgesAppend
    <3> QED
      BY <1>1, <3>2, <3>3 DEF EdgesShape
  <2> QED
    BY <2>1, <2>2, AppendKeepsPrefix
<1>6. \A i \in DOMAIN interact_map_ :
        /\ i \in DOMAIN interact_map_' /\ interact_map_'[i].itype = interact_map_[i].itype
        /\ UserOfInteract(i) # NoUid => UserOfInteract(i)' = UserOfInteract(i)
  BY <1>1 DEF KeysStay, UserOfInteract
<1> QED
  BY <1>1, <1>2, <1>3, <1>4, <1>5, <1>6 DEF KeepsHistory, KeysStay, AccountsGrow, HasAccount

(***************************************************************************)
(* Indexes, authors, interactions and list entries, once there, stay as    *)
(* they are: what a caller read before a later load is still right.  Only a *)
(* user id that was empty may be filled in (:476-486, :561-562).           *)
(***************************************************************************)
THEOREM HistoryIsKept == Spec => HistoryKept
<1>1. MapsInv /\ [Next]_vars => [KeepsHistory]_vars
  BY StepKeepsHistory
<1> QED
  BY <1>1, InitMaps, NextKeepsMaps, PTL DEF Spec, HistoryKept

-----------------------------------------------------------------------------
(* User u's interaction id is appended to post q, and enters the account   *)
(* graph on the edge from q's author to u if q has one.                    *)
Enters(q, id, u) ==
  /\ InteractionsAppend(q, id)
  /\ interact_map_'[id].userId = u
  /\ HasAccount(u)' /\ account2idx_map_'[u] \in Accounts'
  /\ EdgesEntered(q, u)

GraphShape ==
  \/ InteractionsQuiet /\ EdgesQuiet
  \/ \E q \in Posts, id \in Ids, u \in Users : Enters(q, id, u)

LEMMA StepGraphShape == MapsInv /\ [Next]_vars => GraphShape
<1> SUFFICES ASSUME MapsInv, [Next]_vars PROVE GraphShape
  OBVIOUS
<1> USE FeedAssumption DEF FeedAssumption
<1>1. CASE \E e \in AccountFeed, replace \in BOOLEAN : AddAccount(e.user, e.data, replace)
  BY <1>1, AddAccountShape, ListsUntouched DEF AddAccount, postVars, GraphShape
<1>2. CASE \E e \in PostFeed, replace \in BOOLEAN :
             e.user \in Users /\ AddPost(e.post, e.user, e.data, replace)
  BY <1>2, AddPostShape, AddPostKeepsLists DEF GraphShape
<1>3. CASE \E e \in PostFeed, replace \in BOOLEAN :
             e.user = BadUser /\ AddPostThrows(e.post, replace)
  BY <1>3, PlaceholderShape, PlaceholderKeepsLists DEF AddPostThrows, GraphShape
<1>4. CASE \E p \in Ids, replace \in BOOLEAN : BeginInteractions(p, replace)
  BY <1>4, PlaceholderShape, PlaceholderKeepsLists DEF BeginInteractions, GraphShape
<1>5. CASE \E t \in ITypes, id \in Ids, u \in Users :
             call \in Calls /\ NewInteraction(t, id, u)
  <2>1. PICK t \in ITypes, id \in Ids, u \in Users : call \in Calls /\ NewInteraction(t, id, u)
    BY <1>5
  <2>2. interact_map_'[id].userId = u
    BY <2>1 DEF NewInteraction, Put
  <2>3. Enters(post2idx_map_[call.post], id, u)
    BY <2>1, <2>2, NewInteractionShape, NewInteractionAppends DEF Enters
  <2>4. post2idx_map_[call.post] \in Posts
    BY <2>3 DEF Enters, InteractionsAppend
  <2> QED
    BY <2>3, <2>4 DEF GraphShape
<1>6. CASE /\ UNCHANGED <<accountVars, postVars>>
           /\ DOMAIN interact_map_' = DOMAIN interact_map_
  <2>1. DOMAIN account_graph_ = Accounts
    BY DEF MapsInv, MapsAgree, AccountMaps, Accounts
  <2> QED
    BY <1>6, <2>1, UnchangedSlots, ListsUntouched DEF GraphShape, postVars
<1>7. CASE \E t \in ITypes, id \in Ids, u \in Users : KnownInteraction(t, id, u)
  BY <1>6, <1>7, KnownInteractionNames
<1> QED
  BY <1>1, <1>2, <1>3, <1>4, <1>5, <1>6, <1>7 DEF Next, AddInteraction, EndInteractions, vars

-----------------------------------------------------------------------------
(* The list of an edge before the step, empty if either end is new.        *)
EdgeBefore(a, b) == IF b \in DOMAIN EdgesBefore(a) THEN EdgesBefore(a)[b] ELSE <<>>

EdgesSame == \A a, b \in Accounts' : Edge(a, b)' = EdgeBefore(a, b)

EdgeLonger(src, dst, q) ==
  /\ src \in Accounts /\ dst \in Accounts'
  /\ \A a, b \in Accounts' : Edge(a, b)' =
       IF a = src /\ b = dst THEN Append(EdgeBefore(a, b), q) ELSE EdgeBefore(a, b)

LEMMA EdgesBeforeAreEdges ==
  ASSUME MapsInv, EdgesLeaveAuthor, NEW a, NEW b
  PROVE  /\ EdgeBefore(a, b) \in Seq(Nat)
         /\ a \in Accounts => EdgeBefore(a, b) = Edge(a, b)
         /\ a \notin Accounts \/ b \notin Accounts => EdgeBefore(a, b) = <<>>
         /\ \A k \in DOMAIN EdgeBefore(a, b) :
              /\ a \in Accounts
              /\ EdgeBefore(a, b)[k] \in Posts
              /\ AuthorOf(EdgeBefore(a, b)[k]) = UserOfIdx(a) /\ UserOfIdx(a) # NoUid
<1>1. CASE a \in Accounts
  <2>1. account_graph_[a] \in [DOMAIN account_graph_[a] -> Seq(Nat)]
    BY <1>1 DEF MapsInv, TypeOK, AccountTypeOK, MapsAgree, AccountMaps, Accounts
  <2> QED
    BY <1>1, <2>1 DEF EdgeBefore, EdgesBefore, Edge, EdgesLeaveAuthor
<1>2. CASE a \notin Accounts
  BY <1>2 DEF EdgeBefore, EdgesBefore, EmptyMap
<1> QED
  BY <1>1, <1>2

LEMMA EdgesAfterStep ==
  ASSUME MapsInv, MapsInv', EdgesQuiet
  PROVE  EdgesSame
  BY DEF EdgesQuiet, EdgesSame, Edge, EdgeBefore

LEMMA EdgesAfterEntry ==
  ASSUME MapsInv, NEW src, NEW dst, NEW q, EdgesAppend(src, dst, q)
  PROVE  EdgeLonger(src, dst, q)
<1> SUFFICES ASSUME NEW a \in Accounts', NEW b \in Accounts'
             PROVE  Edge(a, b)' = IF a = src /\ b = dst THEN Append(EdgeBefore(a, b), q)
                                                       ELSE EdgeBefore(a, b)
  BY DEF EdgeLonger, EdgesAppend
<1>1. CASE a # src
  BY <1>1 DEF EdgesAppend, Edge, EdgeBefore
<1>2. CASE a = src
  <2>1. EdgesBefore(a) = account_graph_[src]
    BY <1>2 DEF EdgesBefore, EdgesAppend
  <2> QED
    BY <1>2, <2>1 DEF EdgesAppend, Edge, EdgeBefore
<1> QED
  BY <1>1, <1>2

-----------------------------------------------------------------------------
(* Where a list holds a value, and how the count grows with the list.      *)
Places(s, x) == {k \in DOMAIN s : s[k] = x}

LEMMA PlacesFinite ==
  ASSUME NEW T, NEW s \in Seq(T), NEW x
  PROVE  IsFiniteSet(Places(s, x)) /\ Cardinality(Places(s, x)) \in Nat
<1>1. Places(s, x) \subseteq 1..Len(s) /\ Len(s) \in Nat
  BY DEF Places
<1>2. IsFiniteSet(1..Len(s))
  BY <1>1, FS_Interval
<1>3. IsFiniteSet(Places(s, x))
  BY <1>1, <1>2, FS_Subset
<1> QED
  BY <1>3, FS_CardinalityType

LEMMA PlacesAfterPush ==
  ASSUME NEW T, NEW s \in Seq(T), NEW x \in T, NEW y
  PROVE  Cardinality(Places(Append(s, x), y)) =
           IF x = y THEN Cardinality(Places(s, y)) + 1 ELSE Cardinality(Places(s, y))
<1>1. /\ Len(s) \in Nat /\ DOMAIN s = 1..Len(s)
      /\ DOMAIN Append(s, x) = 1..(Len(s) + 1)
      /\ Append(s, x)[Len(s) + 1] = x
      /\ \A k \in 1..Len(s) : Append(s, x)[k] = s[k]
  <2>1. Append(s, x) \in Seq(T) /\ Len(Append(s, x)) = Len(s) + 1
    OBVIOUS
  <2> QED
    BY <2>1
<1>2. CASE x = y
  <2>1. Places(Append(s, x), y) = Places(s, y) \cup {Len(s) + 1}
    BY <1>1, <1>2 DEF Places
  <2>2. Len(s) + 1 \notin Places(s, y)
    BY <1>1 DEF Places
  <2> QED
    BY <1>2, <2>1, <2>2, PlacesFinite, FS_AddElement
<1>3. CASE x # y
  <2>1. Places(Append(s, x), y) = Places(s, y)
    BY <1>1, <1>3 DEF Places
  <2> QED
    BY <1>3, <2>1
<1> QED
  BY <1>2, <1>3

(* The places among the last n of a list of users where user u stands.     *)
Recent(w, n, u) == {k \in (Len(w) - n + 1)..Len(w) : w[k] = u}

LEMMA RecentFinite ==
  ASSUME NEW T, NEW w \in Seq(T), NEW n \in 0..Len(w), NEW u
  PROVE  /\ IsFiniteSet(Recent(w, n, u))
         /\ Cardinality(Recent(w, n, u)) \in Nat
<1>1. Len(w) \in Nat /\ n \in Nat
  OBVIOUS
<1>2. Recent(w, n, u) \subseteq 1..Len(w)
  BY <1>1 DEF Recent
<1>3. IsFiniteSet(1..Len(w))
  BY <1>1, FS_Interval
<1>4. IsFiniteSet(Recent(w, n, u))
  BY <1>2, <1>3, FS_Subset
<1> QED
  BY <1>4, FS_CardinalityType

LEMMA NoneRecent ==
  ASSUME NEW T, NEW w \in Seq(T), NEW u
  PROVE  Cardinality(Recent(w, 0, u)) = 0
<1>1. Recent(w, 0, u) = {}
  BY DEF Recent
<1> QED
  BY <1>1, FS_EmptySet

LEMMA RecentAfterPush ==
  ASSUME NEW T, NEW w \in Seq(T), NEW n \in 0..Len(w), NEW x \in T, NEW u
  PROVE  Cardinality(Recent(Append(w, x), n + 1, u)) =
           IF x = u THEN Cardinality(Recent(w, n, u)) + 1 ELSE Cardinality(Recent(w, n, u))
<1>1. /\ Len(w) \in Nat /\ n \in Nat /\ n <= Len(w)
      /\ Len(Append(w, x)) = Len(w) + 1
      /\ Append(w, x)[Len(w) + 1] = x
      /\ \A k \in 1..Len(w) : Append(w, x)[k] = w[k]
  OBVIOUS
<1>2. /\ (Len(Append(w, x)) - (n + 1) + 1)..Len(Append(w, x)) =
           ((Len(w) - n + 1)..Len(w)) \cup {Len(w) + 1}
      /\ (Len(w) - n + 1)..Len(w) \subseteq 1..Len(w)
  BY <1>1
<1>3. CASE x = u
  <2>1. Recent(Append(w, x), n + 1, u) = Recent(w, n, u) \cup {Len(w) + 1}
    BY <1>1, <1>2, <1>3 DEF Recent
  <2>2. Len(w) + 1 \notin Recent(w, n, u)
    BY <1>1 DEF Recent
  <2> QED
    BY <1>3, <2>1, <2>2, RecentFinite, FS_AddElement
<1>4. CASE x # u
  <2>1. Recent(Append(w, x), n + 1, u) = Recent(w, n, u)
    BY <1>1, <1>2, <1>4 DEF Recent
  <2> QED
    BY <1>4, <2>1
<1> QED
  BY <1>3, <1>4

LEMMA CountsRead ==
  /\ \A a, b, q : Times(a, b, q) = Cardinality(Places(Edge(a, b), q))
  /\ \A a, b, q : Times(a, b, q)' = Cardinality(Places(Edge(a, b)', q))
  /\ \A w, n, u : RecentBy(w, n, u) = Cardinality(Recent(w, n, u))
  BY DEF Times, Entries, Places, RecentBy, Recent

-----------------------------------------------------------------------------
(* The users that a post's interactions were stored with are as many as    *)
(* the interactions, stay possible, and grow with the list.                *)
LEMMA StoredUsersList ==
  ASSUME MapsInv, NEW q \in Posts, NEW w \in StoredUsers(q)
  PROVE  /\ w \in Seq(Users \cup {NoUid}) /\ Len(w) = Len(post_interactions_[q])
         /\ DOMAIN w = 1..Len(w)
<1>1. post_interactions_[q] \in Seq(Ids)
  BY DEF MapsInv, TypeOK, PostTypeOK, Posts
<1>2. w \in [1..Len(post_interactions_[q]) -> Users \cup {NoUid}]
  BY <1>1 DEF StoredUsers
<1> QED
  BY <1>1, <1>2

LEMMA StoredUsersStay ==
  ASSUME InteractionsListedOnce, KeysStay, NEW q \in Posts, NEW w \in StoredUsers(q),
         NEW k \in DOMAIN w
  PROVE  w[k] \in {interact_map_'[post_interactions_[q][k]].userId, NoUid}
<1>1. k \in DOMAIN post_interactions_[q]
  BY DEF StoredUsers
<1>2. post_interactions_[q][k] \in DOMAIN interact_map_
  BY <1>1 DEF InteractionsListedOnce
<1>3. w[k] \in {interact_map_[post_interactions_[q][k]].userId, NoUid}
  BY DEF StoredUsers, UserOfInteract
<1> QED
  BY <1>2, <1>3 DEF KeysStay, UserOfInteract

LEMMA StoredUsersSame ==
  ASSUME InteractionsListedOnce, KeysStay, NEW q \in Posts, NEW w \in StoredUsers(q),
         post_interactions_'[q] = post_interactions_[q]
  PROVE  w \in StoredUsers(q)'
<1>1. w \in [DOMAIN post_interactions_[q] -> Users \cup {NoUid}]
  BY DEF StoredUsers
<1>2. \A k \in DOMAIN w : w[k] \in {interact_map_'[post_interactions_[q][k]].userId, NoUid}
  BY StoredUsersStay
<1> QED
  BY <1>1, <1>2 DEF StoredUsers, UserOfInteract

LEMMA StoredUsersAfterPush ==
  ASSUME MapsInv, InteractionsListedOnce, KeysStay, NEW q \in Posts, NEW w \in StoredUsers(q),
         NEW id \in Ids, NEW u \in Users, interact_map_'[id].userId = u,
         post_interactions_'[q] = Append(post_interactions_[q], id)
  PROVE  Append(w, u) \in StoredUsers(q)'
<1> DEFINE s == post_interactions_[q]
           v == Append(w, u)
<1>1. s \in Seq(Ids)
  BY DEF MapsInv, TypeOK, PostTypeOK, Posts
<1>2. w \in Seq(Users \cup {NoUid}) /\ Len(w) = Len(s) /\ DOMAIN w = 1..Len(s)
  BY StoredUsersList
<1>3. /\ Append(s, id) \in Seq(Ids) /\ Len(Append(s, id)) = Len(s) + 1
      /\ DOMAIN Append(s, id) = 1..(Len(s) + 1)
      /\ Append(s, id)[Len(s) + 1] = id
      /\ \A k \in 1..Len(s) : Append(s, id)[k] = s[k]
  BY <1>1
<1>4. /\ v \in [1..(Len(s) + 1) -> Users \cup {NoUid}]
      /\ v[Len(s) + 1] = u
      /\ \A k \in 1..Len(s) : v[k] = w[k]
  <2>1. Len(s) \in Nat
    BY <1>1
  <2>2. /\ v \in Seq(Users \cup {NoUid}) /\ Len(v) = Len(w) + 1
        /\ v[Len(w) + 1] = u /\ \A k \in 1..Len(w) : v[k] = w[k]
    BY <1>2
  <2> HIDE DEF s, v
  <2> QED
    BY <1>2, <2>1, <2>2
<1>5. \A k \in DOMAIN w : w[k] \in {interact_map_'[s[k]].userId, NoUid}
  BY StoredUsersStay
<1> HIDE DEF s, v
<1>6. \A k \in 1..(Len(s) + 1) : k \in 1..Len(s) \/ k = Len(s) + 1
  BY <1>1
<1>7. \A k \in DOMAIN v : v[k] \in {interact_map_'[Append(s, id)[k]].userId, NoUid}
  BY <1>2, <1>3, <1>4, <1>5, <1>6
<1>8. post_interactions_'[q] = Append(s, id)
  BY DEF s
<1>9. v \in StoredUsers(q)'
  BY <1>3, <1>4, <1>7, <1>8 DEF StoredUsers, UserOfInteract
<1> QED
  BY <1>9 DEF v

-----------------------------------------------------------------------------
(* Everybody who made one of the recent interactions has an account: an    *)
(* account that is new in a step has made none of them.                    *)
RecentByKnown(w, n) == \A k \in DOMAIN w : k > Len(w) - n => HasAccount(w[k])

EdgesAreRecentByKnown ==
  \A a \in Accounts, q \in Posts :
    AuthorOf(q) = UserOfIdx(a) =>
      \E n \in 0..Len(post_interactions_[q]), w \in StoredUsers(q) :
        /\ RecentByKnown(w, n)
        /\ \A b \in Accounts : Times(a, b, q) = RecentBy(w, n, UserOfIdx(b))

RecentInv == MapsInv /\ InteractionsListedOnce /\ EdgesLeaveAuthor /\ EdgesAreRecentByKnown

(* The counts before the step, for the accounts of after it: an account    *)
(* that the step adds is at the end of no edge and made no interaction.    *)
LEMMA CountsBefore ==
  ASSUME RecentInv, MapsInv', ListsShape,
         NEW a \in Accounts, NEW q \in Posts, AuthorOf(q) = UserOfIdx(a)
  PROVE  \E n \in 0..Len(post_interactions_[q]), w \in StoredUsers(q) :
           /\ RecentByKnown(w, n)
           /\ \A b \in Accounts' :
                Cardinality(Places(EdgeBefore(a, b), q)) = Cardinality(Recent(w, n, UserOfIdx(b)'))
<1>1. PICK n \in 0..Len(post_interactions_[q]), w \in StoredUsers(q) :
        /\ RecentByKnown(w, n)
        /\ \A b \in Accounts : Times(a, b, q) = RecentBy(w, n, UserOfIdx(b))
  BY DEF RecentInv, EdgesAreRecentByKnown
<1>2. w \in Seq(Users \cup {NoUid}) /\ n \in 0..Len(w) /\ DOMAIN w = 1..Len(w)
  BY StoredUsersList DEF RecentInv
<1>3. AccountsGrow
  BY AuthorsStay DEF RecentInv
<1>4. ASSUME NEW b \in Accounts'
      PROVE  Cardinality(Places(EdgeBefore(a, b), q)) = Cardinality(Recent(w, n, UserOfIdx(b)'))
  <2> DEFINE v == UserOfIdx(b)'
  <2>1. CASE b \in Accounts
    <3>1. v = UserOfIdx(b) /\ EdgeBefore(a, b) = Edge(a, b)
      BY <1>3, <2>1, EdgesBeforeAreEdges DEF AccountsGrow, RecentInv
    <3> QED
      BY <1>1, <2>1, <3>1, CountsRead
  <2>2. CASE b \notin Accounts
    <3>1. Places(EdgeBefore(a, b), q) = {}
      <4>1. EdgeBefore(a, b) = <<>>
        BY <2>2, EdgesBeforeAreEdges DEF RecentInv
      <4> QED
        BY <4>1 DEF Places
    <3>2. v \notin DOMAIN account2idx_map_
      <4>1. v \in DOMAIN account2idx_map_' /\ account2idx_map_'[v] = b
        BY DEF MapsInv, MapsAgree, AccountMaps, Accounts, UserOfIdx
      <4>2. v \in DOMAIN account2idx_map_ =>
              account2idx_map_'[v] = account2idx_map_[v] /\ account2idx_map_[v] \in Accounts
        BY <1>3 DEF AccountsGrow, RecentInv, MapsInv, MapsAgree, AccountMaps, Accounts
      <4> QED
        BY <2>2, <4>1, <4>2
    <3> HIDE DEF v
    <3>3. \A k \in (Len(w) - n + 1)..Len(w) : k \in DOMAIN w /\ k > Len(w) - n
      BY <1>2
    <3>4. Recent(w, n, v) = {}
      BY <1>1, <3>2, <3>3 DEF Recent, RecentByKnown, HasAccount
    <3> QED
      BY <3>1, <3>4 DEF v
  <2> QED
    BY <2>1, <2>2
<1> QED
  BY <1>1, <1>4

(* What the edges hold after any step: what they held, and possibly the    *)
(* post of the new interaction, which has an author.                       *)
LEMMA EdgesAfter ==
  ASSUME MapsInv, MapsInv', GraphShape
  PROVE  \/ InteractionsQuiet /\ EdgesSame
         \/ \E q \in Posts, id \in Ids, u \in Users :
              /\ Enters(q, id, u)
              /\ \/ AuthorOf(q) = NoUid /\ EdgesSame
                 \/ /\ AuthorOf(q) # NoUid
                    /\ EdgeLonger(account2idx_map_[AuthorOf(q)], account2idx_map_'[u], q)
<1>1. CASE InteractionsQuiet /\ EdgesQuiet
  BY <1>1, EdgesAfterStep
<1>2. CASE \E q \in Posts, id \in Ids, u \in Users : Enters(q, id, u)
  <2>1. PICK q \in Posts, id \in Ids, u \in Users : Enters(q, id, u)
    BY <1>2
  <2>2. CASE AuthorOf(q) = NoUid
    <3>1. EdgesSame
      BY <2>1, <2>2, EdgesAfterStep DEF Enters, EdgesEntered
    <3> QED
      BY <2>1, <2>2, <3>1
  <2>3. CASE AuthorOf(q) # NoUid
    <3>1. EdgesAppend(account2idx_map_[AuthorOf(q)], account2idx_map_'[u], q)
      BY <2>1, <2>3 DEF Enters, EdgesEntered
    <3>2. EdgeLonger(account2idx_map_[AuthorOf(q)], account2idx_map_'[u], q)
      BY <3>1, EdgesAfterEntry
    <3> QED
      BY <2>1, <2>3, <3>2
  <2> QED
    BY <2>2, <2>3
<1> QED
  BY <1>1, <1>2 DEF GraphShape

(* A post without an author before the step is on no edge after it.        *)
LEMMA NoEdgeWithoutAuthor ==
  ASSUME MapsInv, MapsInv', EdgesLeaveAuthor, GraphShape,
         NEW a \in Accounts', NEW b \in Accounts', NEW q, q \notin Posts \/ AuthorOf(q) = NoUid
  PROVE  \A k \in DOMAIN Edge(a, b)' : Edge(a, b)'[k] # q
<1> DEFINE s == EdgeBefore(a, b)
<1>1. s \in Seq(Nat) /\ \A k \in DOMAIN s : s[k] # q
  BY EdgesBeforeAreEdges
<1>2. Edge(a, b)' = s \/ \E r \in Posts : r # q /\ Edge(a, b)' = Append(s, r)
  BY EdgesAfter DEF EdgesSame, EdgeLonger
<1> HIDE DEF s
<1>3. ASSUME NEW r \in Posts, r # q
      PROVE  \A k \in DOMAIN Append(s, r) : Append(s, r)[k] # q
  BY <1>1, <1>3
<1> QED
  BY <1>1, <1>2, <1>3

LEMMA KnownAuthorStays ==
  ASSUME MapsInv, MapsInv', ListsShape, NEW a \in Accounts', NEW q \in Posts,
         AuthorOf(q) # NoUid, AuthorOf(q)' = UserOfIdx(a)'
  PROVE  /\ a \in Accounts /\ AuthorOf(q) = UserOfIdx(a)
         /\ a = account2idx_map_[AuthorOf(q)]
<1>1. AuthorOf(q)' = AuthorOf(q) /\ AccountsGrow
  BY AuthorsStay
<1>2. /\ HasAccount(AuthorOf(q)) /\ account2idx_map_[AuthorOf(q)] \in Accounts
      /\ UserOfIdx(account2idx_map_[AuthorOf(q)]) = AuthorOf(q)
  BY DEF MapsInv, AuthorsKnown, MapsAgree, PostMaps, AccountMaps, Posts, Accounts, HasAccount
<1>3. account2idx_map_'[UserOfIdx(a)'] = a
  BY DEF MapsInv, MapsAgree, AccountMaps, Accounts, UserOfIdx
<1> QED
  BY <1>1, <1>2, <1>3 DEF AccountsGrow, HasAccount

LEMMA RecentStep ==
  ASSUME RecentInv, MapsInv', InteractionsListedOnce', ListsShape, KeysStay, GraphShape
  PROVE  EdgesAreRecentByKnown'
<1> DEFINE Agrees(a, q, n, w) ==
      \A b \in Accounts' :
        Cardinality(Places(Edge(a, b)', q)) = Cardinality(Recent(w, n, UserOfIdx(b)'))
           KnownAfter(n, w) ==
      \A k \in DOMAIN w : k > Len(w) - n => w[k] \in DOMAIN account2idx_map_'
           Possible(q, n, w) ==
      n \in 0..Len(post_interactions_'[q]) /\ w \in StoredUsers(q)' /\ KnownAfter(n, w)
<1>0. MapsInv /\ EdgesLeaveAuthor /\ InteractionsListedOnce
  BY DEF RecentInv
<1>1. ASSUME NEW a \in Accounts', NEW q \in Posts', AuthorOf(q)' = UserOfIdx(a)',
             q \notin Posts \/ AuthorOf(q) = NoUid
      PROVE  \E n, w : Possible(q, n, w) /\ Agrees(a, q, n, w)
  <2> DEFINE s == post_interactions_'[q]
             w == [k \in DOMAIN s |-> interact_map_'[s[k]].userId]
  <2>1. s \in Seq(Ids) /\ \A k \in DOMAIN s : interact_map_'[s[k]].userId \in Users
    <3>1. s \in Seq(Ids)
      BY DEF MapsInv, TypeOK, PostTypeOK, Posts
    <3>2. \A k \in DOMAIN s : s[k] \in DOMAIN interact_map_'
      BY DEF InteractionsListedOnce
    <3>3. interact_map_' \in [DOMAIN interact_map_' -> [itype : ITypes, userId : Users]]
      BY DEF MapsInv, TypeOK
    <3> QED
      BY <3>1, <3>2, <3>3
  <2>2. ASSUME NEW b \in Accounts'
        PROVE  Places(Edge(a, b)', q) = {}
    BY <1>0, <1>1, NoEdgeWithoutAuthor DEF Places
  <2>3. w \in StoredUsers(q)'
    BY <2>1 DEF StoredUsers, UserOfInteract
  <2>4. w \in Seq(Users) /\ Len(w) \in Nat /\ Len(s) \in Nat /\ DOMAIN w = 1..Len(w)
    BY <2>1
  <2> HIDE DEF s, w
  <2>5. Agrees(a, q, 0, w)
    BY <2>2, <2>4, NoneRecent, FS_EmptySet
  <2>6. Possible(q, 0, w)
    BY <2>3, <2>4 DEF s
  <2> HIDE DEF Possible, Agrees
  <2> QED
    BY <2>5, <2>6
<1>2. ASSUME NEW a \in Accounts', NEW q \in Posts', AuthorOf(q)' = UserOfIdx(a)',
             q \in Posts, AuthorOf(q) # NoUid
      PROVE  \E n, w : Possible(q, n, w) /\ Agrees(a, q, n, w)
  <2> DEFINE s == post_interactions_[q]
  <2>1. a \in Accounts /\ AuthorOf(q) = UserOfIdx(a) /\ a = account2idx_map_[AuthorOf(q)]
    BY <1>0, <1>2, KnownAuthorStays
  <2>2. PICK n \in 0..Len(s), w \in StoredUsers(q) :
          /\ RecentByKnown(w, n)
          /\ \A b \in Accounts' :
               Cardinality(Places(EdgeBefore(a, b), q)) = Cardinality(Recent(w, n, UserOfIdx(b)'))
    BY <1>2, <2>1, CountsBefore
  <2>3. /\ s \in Seq(Ids) /\ \A b : EdgeBefore(a, b) \in Seq(Nat)
        /\ w \in Seq(Users \cup {NoUid}) /\ Len(w) = Len(s) /\ DOMAIN w = 1..Len(w)
    <3>1. s \in Seq(Ids)
      BY <1>0, <1>2 DEF MapsInv, TypeOK, PostTypeOK, Posts
    <3> QED
      BY <1>0, <1>2, <3>1, EdgesBeforeAreEdges, StoredUsersList
  <2>3a. KnownAfter(n, w)
    <3>1. AccountsGrow
      BY <1>0, AuthorsStay
    <3> QED
      BY <2>2, <3>1 DEF RecentByKnown, AccountsGrow, HasAccount
  <2>4. \A r \in Posts : r \in Nat
    BY FS_CardinalityType
    DEF MapsInv, MapsAgree, PostMaps, FiniteMaps, Posts, num_posts, RecentInv
  <2>5. ASSUME post_interactions_'[q] = s,
               \A b \in Accounts' :
                 \/ Edge(a, b)' = EdgeBefore(a, b)
                 \/ \E r \in Posts : r # q /\ Edge(a, b)' = Append(EdgeBefore(a, b), r)
        PROVE  Possible(q, n, w) /\ Agrees(a, q, n, w)
    <3>0. Possible(q, n, w)
      BY <1>0, <1>2, <2>3a, <2>5, StoredUsersSame
    <3> SUFFICES ASSUME NEW b \in Accounts'
                 PROVE  Cardinality(Places(Edge(a, b)', q)) =
                          Cardinality(Places(EdgeBefore(a, b), q))
      BY <2>2, <2>5, <3>0
    <3>1. \A r \in Posts : r # q =>
            Cardinality(Places(Append(EdgeBefore(a, b), r), q)) =
              Cardinality(Places(EdgeBefore(a, b), q))
      BY <2>3, <2>4, PlacesAfterPush
    <3> DEFINE edge == Edge(a, b)'
    <3>2. edge = EdgeBefore(a, b) \/ \E r \in Posts : r # q /\ edge = Append(EdgeBefore(a, b), r)
      BY <2>5
    <3> HIDE DEF edge
    <3>3. Cardinality(Places(edge, q)) = Cardinality(Places(EdgeBefore(a, b), q))
      <4>1. ASSUME NEW r \in Posts, r # q, edge = Append(EdgeBefore(a, b), r)
            PROVE  Cardinality(Places(edge, q)) = Cardinality(Places(EdgeBefore(a, b), q))
        <5>1. Cardinality(Places(Append(EdgeBefore(a, b), r), q)) =
                Cardinality(Places(EdgeBefore(a, b), q))
          BY <3>1, <4>1
        <5> QED
          BY <4>1, <5>1, Zenon
      <4> QED
        BY <3>2, <4>1, Zenon
    <3> QED
      BY <3>3 DEF edge
  <2>6. CASE InteractionsQuiet /\ EdgesSame
    <3>1. post_interactions_'[q] = s
      BY <1>2, <2>6 DEF InteractionsQuiet, ListBefore
    <3> QED
      BY <2>1, <2>5, <2>6, <3>1 DEF EdgesSame
  <2>7. ASSUME NEW q0 \in Posts, NEW id \in Ids, NEW u \in Users, Enters(q0, id, u),
               \/ AuthorOf(q0) = NoUid /\ EdgesSame
               \/ /\ AuthorOf(q0) # NoUid
                  /\ EdgeLonger(account2idx_map_[AuthorOf(q0)], account2idx_map_'[u], q0)
        PROVE  \E m, v : Possible(q, m, v) /\ Agrees(a, q, m, v)
    <3>1. CASE q # q0
      <4>1. post_interactions_'[q] = s
        BY <1>2, <2>7, <3>1 DEF Enters, InteractionsAppend, ListBefore
      <4>2. \A b \in Accounts' :
                 \/ Edge(a, b)' = EdgeBefore(a, b)
                 \/ \E r \in Posts : r # q /\ Edge(a, b)' = Append(EdgeBefore(a, b), r)
        BY <2>7, <3>1 DEF EdgesSame, EdgeLonger
      <4> QED
        BY <2>5, <4>1, <4>2
    <3>2. CASE q = q0
      <4> DEFINE dst == account2idx_map_'[u]
      <4>1. post_interactions_'[q] = Append(s, id) /\ interact_map_'[id].userId = u
        BY <1>2, <2>7, <3>2 DEF Enters, InteractionsAppend, ListBefore
      <4>2. \A b \in Accounts' : Edge(a, b)' =
              IF b = dst THEN Append(EdgeBefore(a, b), q) ELSE EdgeBefore(a, b)
        BY <1>2, <2>1, <2>7, <3>2 DEF EdgeLonger
      <4>3. \A b \in Accounts' : b = dst <=> UserOfIdx(b)' = u
        BY <2>7 DEF Enters, MapsInv, MapsAgree, AccountMaps, Accounts, UserOfIdx, HasAccount
      <4>4. Possible(q, n + 1, Append(w, u))
        <5>1. Append(w, u) \in StoredUsers(q)'
          BY <1>0, <1>2, <4>1, StoredUsersAfterPush
        <5> HIDE DEF s
        <5>2. n + 1 \in 0..Len(Append(s, id))
          BY <2>3
        <5>3. /\ DOMAIN Append(w, u) = 1..(Len(w) + 1) /\ Len(Append(w, u)) = Len(w) + 1
              /\ Append(w, u)[Len(w) + 1] = u
              /\ \A k \in 1..Len(w) : Append(w, u)[k] = w[k]
          BY <2>3
        <5>4. ASSUME NEW k \in DOMAIN Append(w, u), k > Len(Append(w, u)) - (n + 1)
              PROVE  Append(w, u)[k] \in DOMAIN account2idx_map_'
          <6>1. CASE k = Len(w) + 1
            BY <2>7, <5>3, <6>1 DEF Enters, HasAccount
          <6>2. CASE k # Len(w) + 1
            <7>1. k \in DOMAIN w /\ k > Len(w) - n
              BY <2>3, <5>3, <5>4, <6>2
            <7> QED
              BY <2>3a, <2>3, <5>3, <7>1
          <6> QED
            BY <6>1, <6>2
        <5> QED
          BY <4>1, <5>1, <5>2, <5>4 DEF s
      <4>5. ASSUME NEW b \in Accounts'
            PROVE  Cardinality(Places(Edge(a, b)', q)) =
              Cardinality(Recent(Append(w, u), n + 1, UserOfIdx(b)'))
        <5> DEFINE v == UserOfIdx(b)'
                   e == EdgeBefore(a, b)
                   edge == Edge(a, b)'
        <5>1. /\ e \in Seq(Nat) /\ q \in Nat
              /\ Cardinality(Places(e, q)) = Cardinality(Recent(w, n, v))
              /\ edge = IF v = u THEN Append(e, q) ELSE e
          BY <2>2, <2>3, <2>4, <1>2, <4>2, <4>3
        <5> HIDE DEF s, v, e, edge, dst, Agrees
        <5>2. Cardinality(Recent(Append(w, u), n + 1, v)) =
                IF u = v THEN Cardinality(Recent(w, n, v)) + 1 ELSE Cardinality(Recent(w, n, v))
          BY <2>3, RecentAfterPush
        <5>3. Cardinality(Places(Append(e, q), q)) = Cardinality(Places(e, q)) + 1
          BY <5>1, PlacesAfterPush
        <5>4. Cardinality(Places(edge, q)) = Cardinality(Recent(Append(w, u), n + 1, v))
          BY <5>1, <5>2, <5>3
        <5> QED
          BY <5>4 DEF edge, v
      <4> QED
        BY <4>4, <4>5
    <3> QED
      BY <3>1, <3>2
  <2> QED
    BY <1>0, <2>6, <2>7, EdgesAfter
<1>3. ASSUME NEW a \in Accounts', NEW q \in Posts', AuthorOf(q)' = UserOfIdx(a)'
      PROVE  \E n, w : Possible(q, n, w) /\ Agrees(a, q, n, w)
  BY <1>1, <1>2, <1>3
<1>4. ASSUME NEW a \in Accounts', NEW q \in Posts', AuthorOf(q)' = UserOfIdx(a)'
      PROVE  \E n \in 0..Len(post_interactions_'[q]), w \in StoredUsers(q)' :
               /\ RecentByKnown(w, n)'
               /\ \A b \in Accounts' : Times(a, b, q)' = RecentBy(w, n, UserOfIdx(b)')
  <2>1. PICK n, w : Possible(q, n, w) /\ Agrees(a, q, n, w)
    BY <1>3, <1>4
  <2>2. \A b \in Accounts' : Times(a, b, q)' = RecentBy(w, n, UserOfIdx(b)')
    BY <2>1, CountsRead
  <2> QED
    BY <2>1, <2>2 DEF RecentByKnown, HasAccount
<1> QED
  BY <1>4 DEF EdgesAreRecentByKnown

LEMMA NextKeepsRecent == RecentInv /\ [Next]_vars => RecentInv'
<1> SUFFICES ASSUME RecentInv, [Next]_vars PROVE RecentInv'
  OBVIOUS
<1>0. MapsInv
  BY DEF RecentInv
<1>1. MapsInv' /\ ListsShape /\ EdgesShape /\ InteractionsShape /\ KeysStay /\ GraphShape
  BY <1>0, NextKeepsMaps, StepShape, InteractionsStepShape, StepKeepsKeys, StepGraphShape
<1>2. InteractionsListedOnce'
  BY <1>0, <1>1, QuietKeepsOnce, AppendKeepsOnce DEF InteractionsShape, RecentInv
<1>3. EdgesLeaveAuthor'
  BY <1>0, <1>1, EdgesStep DEF RecentInv
<1>4. EdgesAreRecentByKnown'
  BY <1>1, <1>2, RecentStep
<1> QED
  BY <1>1, <1>2, <1>3, <1>4 DEF RecentInv

(***************************************************************************)
(* For each post the account graph has exactly the interactions received   *)
(* since its author is known, each on the edge to the user who made it, or *)
(* to the account "" if it was stored without a user, for every feed, in   *)
(* whatever order the files are loaded (:547-558).                         *)
(***************************************************************************)
THEOREM GraphIsRecentInteractions == Spec => []EdgesAreRecentInteractions
<1>1. Init => RecentInv
  <2> SUFFICES ASSUME Init PROVE RecentInv
    OBVIOUS
  <2>1. Accounts = {} /\ Posts = {} /\ DOMAIN interact_map_ = {}
    BY DEF Init, EmptyMap, Accounts, Posts
  <2> QED
    BY <2>1, InitMaps
    DEF RecentInv, InteractionsListedOnce, EdgesLeaveAuthor, EdgesAreRecentByKnown
<1>2. RecentInv => EdgesAreRecentInteractions
  BY DEF RecentInv, EdgesAreRecentByKnown, EdgesAreRecentInteractions
<1> QED
  BY <1>1, <1>2, NextKeepsRecent, PTL DEF Spec

-----------------------------------------------------------------------------
(* The store as a ledger.  Its slots: the places of the account graph.     *)
LEMMA SlotsRead ==
  \A q, e : e \in Slots(q) <=>
    \E a, b \in Accounts : \E k \in DOMAIN Edge(a, b) : e = <<a, b, k>> /\ Edge(a, b)[k] = q
<1> SUFFICES ASSUME NEW q, NEW e
             PROVE  e \in Slots(q) <=>
                      \E a, b \in Accounts : \E k \in DOMAIN Edge(a, b) :
                        e = <<a, b, k>> /\ Edge(a, b)[k] = q
  OBVIOUS
<1> DEFINE On(a, b) == {<<a, b, k>> : k \in Entries(a, b, q)}
<1>1. \A a, b : e \in On(a, b) <=>
        \E k \in DOMAIN Edge(a, b) : e = <<a, b, k>> /\ Edge(a, b)[k] = q
  BY DEF Entries
<1>2. Slots(q) = UNION {On(a, b) : a, b \in Accounts}
  BY DEF Slots
<1> HIDE DEF On
<1> QED
  BY <1>1, <1>2

LEMMA SlotsReadAfter ==
  \A q, e : e \in Slots(q)' <=>
    \E a, b \in Accounts' : \E k \in DOMAIN Edge(a, b)' : e = <<a, b, k>> /\ Edge(a, b)'[k] = q
<1> SUFFICES ASSUME NEW q, NEW e
             PROVE  e \in Slots(q)' <=>
                      \E a, b \in Accounts' : \E k \in DOMAIN Edge(a, b)' :
                        e = <<a, b, k>> /\ Edge(a, b)'[k] = q
  OBVIOUS
<1> DEFINE On(a, b) == {<<a, b, k>> : k \in Entries(a, b, q)'}
<1>1. \A a, b : e \in On(a, b) <=>
        \E k \in DOMAIN Edge(a, b)' : e = <<a, b, k>> /\ Edge(a, b)'[k] = q
  BY DEF Entries
<1>2. Slots(q)' = UNION {On(a, b) : a, b \in Accounts'}
  BY DEF Slots
<1> HIDE DEF On
<1> QED
  BY <1>1, <1>2

LEMMA SlotsSame ==
  ASSUME MapsInv, EdgesLeaveAuthor, AccountsGrow, EdgesSame, NEW q
  PROVE  Slots(q)' = Slots(q)
<1>1. ASSUME NEW e \in Slots(q) PROVE e \in Slots(q)'
  <2>1. PICK a, b, k :
          /\ a \in Accounts /\ b \in Accounts
          /\ k \in DOMAIN Edge(a, b) /\ e = <<a, b, k>> /\ Edge(a, b)[k] = q
    BY <1>1, SlotsRead
  <2>2. a \in Accounts' /\ b \in Accounts' /\ Edge(a, b)' = Edge(a, b)
    BY <2>1, EdgesBeforeAreEdges DEF EdgesSame, AccountsGrow
  <2> QED
    BY <2>1, <2>2, SlotsReadAfter
<1>2. ASSUME NEW e \in Slots(q)' PROVE e \in Slots(q)
  <2>1. PICK a, b, k :
          /\ a \in Accounts' /\ b \in Accounts'
          /\ k \in DOMAIN Edge(a, b)' /\ e = <<a, b, k>> /\ Edge(a, b)'[k] = q
    BY <1>2, SlotsReadAfter
  <2>2. Edge(a, b)' = EdgeBefore(a, b)
    BY <2>1 DEF EdgesSame
  <2>3. a \in Accounts /\ b \in Accounts /\ EdgeBefore(a, b) = Edge(a, b)
    <3>1. EdgeBefore(a, b) # <<>>
      BY <2>1, <2>2
    <3> QED
      BY <3>1, EdgesBeforeAreEdges
  <2> QED
    BY <2>1, <2>2, <2>3, SlotsRead
<1> QED
  BY <1>1, <1>2

(* A longer edge has one more slot, at its end.                            *)
LEMMA SlotsLonger ==
  ASSUME MapsInv, EdgesLeaveAuthor, AccountsGrow, NEW src, NEW dst, NEW r \in Posts,
         EdgeLonger(src, dst, r), NEW q
  PROVE  LET new == <<src, dst, Len(EdgeBefore(src, dst)) + 1>>
         IN  /\ new \notin Slots(q)
             /\ Slots(q)' = IF q = r THEN Slots(q) \cup {new} ELSE Slots(q)
<1> DEFINE old == EdgeBefore(src, dst)
           new == <<src, dst, Len(old) + 1>>
<1>0. /\ old \in Seq(Nat) /\ Len(old) \in Nat /\ DOMAIN old = 1..Len(old)
      /\ r \in Nat
      /\ src \in Accounts /\ src \in Accounts' /\ dst \in Accounts'
  <2>1. old \in Seq(Nat)
    BY EdgesBeforeAreEdges
  <2>2. r \in Nat
    BY FS_CardinalityType
    DEF MapsInv, MapsAgree, PostMaps, FiniteMaps, Posts, num_posts
  <2> QED
    BY <2>1, <2>2 DEF EdgeLonger, AccountsGrow
<1>1. /\ DOMAIN Append(old, r) = DOMAIN old \cup {Len(old) + 1}
      /\ Append(old, r)[Len(old) + 1] = r
      /\ \A k \in DOMAIN old : Append(old, r)[k] = old[k]
  <2>1. Append(old, r) \in Seq(Nat) /\ Len(Append(old, r)) = Len(old) + 1
    BY <1>0
  <2>2. DOMAIN Append(old, r) = 1..(Len(old) + 1)
    BY <2>1
  <2> QED
    BY <1>0, <2>2
<1>2. /\ Edge(src, dst)' = Append(old, r)
      /\ \A a, b \in Accounts' : a # src \/ b # dst => Edge(a, b)' = EdgeBefore(a, b)
  BY <1>0 DEF EdgeLonger
<1>3. \A a, b : \A k \in DOMAIN EdgeBefore(a, b) :
        a \in Accounts /\ b \in Accounts /\ EdgeBefore(a, b) = Edge(a, b)
  BY EdgesBeforeAreEdges
<1>4. \A a, b \in Accounts : Edge(a, b) = EdgeBefore(a, b) /\ a \in Accounts' /\ b \in Accounts'
  BY EdgesBeforeAreEdges DEF AccountsGrow
<1> HIDE DEF old
<1>5. new \notin Slots(q)
  <2> SUFFICES ASSUME NEW a \in Accounts, NEW b \in Accounts, NEW k \in DOMAIN Edge(a, b),
                      new = <<a, b, k>>
               PROVE  FALSE
    BY SlotsRead
  <2>1. a = src /\ b = dst /\ k = Len(old) + 1
    OBVIOUS
  <2> QED
    BY <1>0, <1>4, <2>1 DEF old
<1>6. ASSUME NEW e \in Slots(q) PROVE e \in Slots(q)'
  <2>1. PICK a, b, k :
          /\ a \in Accounts /\ b \in Accounts
          /\ k \in DOMAIN Edge(a, b) /\ e = <<a, b, k>> /\ Edge(a, b)[k] = q
    BY <1>6, SlotsRead
  <2>2. k \in DOMAIN Edge(a, b)' /\ Edge(a, b)'[k] = q
    BY <1>1, <1>2, <1>4, <2>1 DEF old
  <2> QED
    BY <1>4, <2>1, <2>2, SlotsReadAfter
<1>7. ASSUME NEW e \in Slots(q)' PROVE e \in Slots(q) \/ (q = r /\ e = new)
  <2>1. PICK a, b, k :
          /\ a \in Accounts' /\ b \in Accounts'
          /\ k \in DOMAIN Edge(a, b)' /\ e = <<a, b, k>> /\ Edge(a, b)'[k] = q
    BY <1>7, SlotsReadAfter
  <2>2. \/ k \in DOMAIN EdgeBefore(a, b) /\ EdgeBefore(a, b)[k] = q
        \/ a = src /\ b = dst /\ k = Len(old) + 1 /\ q = r
    BY <1>1, <1>2, <2>1 DEF old
  <2>3. CASE k \in DOMAIN EdgeBefore(a, b) /\ EdgeBefore(a, b)[k] = q
    BY <1>3, <2>1, <2>3, SlotsRead
  <2> QED
    BY <2>1, <2>2, <2>3
<1>8. q = r => new \in Slots(q)'
  BY <1>0, <1>1, <1>2, SlotsReadAfter
<1> QED
  BY <1>5, <1>6, <1>7, <1>8 DEF old

-----------------------------------------------------------------------------
(* What the ledger needs besides the maps: nothing listed is unknown or    *)
(* listed twice, edges carry posts with an author, and a post has finitely *)
(* many slots, so that one more slot is one more time.                     *)
SlotsFinite == \A q \in Posts : IsFiniteSet(Slots(q))
LedgerInv   == MapsInv /\ InteractionsListedOnce /\ EdgesLeaveAuthor /\ SlotsFinite

LEMMA TotalsAfterQuiet ==
  ASSUME LedgerInv, AccountsGrow, EdgesSame, NEW q
  PROVE  TotalTimes(q)' = TotalTimes(q)
  BY SlotsSame DEF TotalTimes, LedgerInv

LEMMA TotalsAfterEntry ==
  ASSUME LedgerInv, AccountsGrow, NEW src, NEW dst, NEW r \in Posts, EdgeLonger(src, dst, r),
         NEW q \in Posts
  PROVE  /\ TotalTimes(q) \in Nat
         /\ TotalTimes(q)' = IF q = r THEN TotalTimes(q) + 1 ELSE TotalTimes(q)
<1>1. PICK new : /\ new \notin Slots(q)
                 /\ Slots(q)' = IF q = r THEN Slots(q) \cup {new} ELSE Slots(q)
  BY SlotsLonger, ZenonT(60) DEF LedgerInv
<1>2. IsFiniteSet(Slots(q))
  BY DEF LedgerInv, SlotsFinite
<1>3. TotalTimes(q) \in Nat
  BY <1>2, FS_CardinalityType DEF TotalTimes
<1>4. Cardinality(Slots(q) \cup {new}) = Cardinality(Slots(q)) + 1
  BY <1>1, <1>2, FS_AddElement
<1> QED
  BY <1>1, <1>3, <1>4 DEF TotalTimes

LEMMA NoSlotWithoutAuthor ==
  ASSUME LedgerInv, MapsInv', GraphShape, NEW q, q \notin Posts \/ AuthorOf(q) = NoUid
  PROVE  Slots(q)' = {} /\ TotalTimes(q)' = 0
<1>1. ASSUME NEW e \in Slots(q)' PROVE FALSE
  <2>1. PICK a, b, k :
          /\ a \in Accounts' /\ b \in Accounts'
          /\ k \in DOMAIN Edge(a, b)' /\ e = <<a, b, k>> /\ Edge(a, b)'[k] = q
    BY <1>1, SlotsReadAfter
  <2> QED
    BY <2>1, NoEdgeWithoutAuthor DEF LedgerInv
<1> QED
  BY <1>1, FS_EmptySet DEF TotalTimes

LEMMA SlotsStayFinite ==
  ASSUME LedgerInv, MapsInv', AccountsGrow, GraphShape
  PROVE  SlotsFinite'
<1> SUFFICES ASSUME NEW q \in Posts' PROVE IsFiniteSet(Slots(q)')
  BY DEF SlotsFinite
<1>0. MapsInv /\ EdgesLeaveAuthor
  BY DEF LedgerInv
<1>1. CASE q \notin Posts
  BY <1>1, NoSlotWithoutAuthor, FS_EmptySet
<1>2. CASE q \in Posts
  <2>1. IsFiniteSet(Slots(q))
    BY <1>2 DEF LedgerInv, SlotsFinite
  <2>2. CASE EdgesSame
    BY <1>0, <2>1, <2>2, SlotsSame
  <2>3. ASSUME NEW src, NEW dst, NEW r \in Posts, EdgeLonger(src, dst, r)
        PROVE  IsFiniteSet(Slots(q)')
    <3>1. PICK new : Slots(q)' = IF q = r THEN Slots(q) \cup {new} ELSE Slots(q)
      BY <1>0, <2>3, SlotsLonger, ZenonT(60)
    <3>2. IsFiniteSet(Slots(q) \cup {new})
      BY <2>1, FS_AddElement
    <3> QED
      BY <2>1, <3>1, <3>2
  <2> QED
    BY <1>0, <2>2, <2>3, EdgesAfter
<1> QED
  BY <1>1, <1>2

LEMMA NextKeepsLedger == LedgerInv /\ [Next]_vars => LedgerInv'
<1> SUFFICES ASSUME LedgerInv, [Next]_vars PROVE LedgerInv'
  OBVIOUS
<1>0. MapsInv
  BY DEF LedgerInv
<1>1. MapsInv' /\ ListsShape /\ EdgesShape /\ InteractionsShape /\ GraphShape
  BY <1>0, NextKeepsMaps, StepShape, InteractionsStepShape, StepGraphShape
<1>2. InteractionsListedOnce'
  BY <1>0, <1>1, QuietKeepsOnce, AppendKeepsOnce DEF InteractionsShape, LedgerInv
<1>3. EdgesLeaveAuthor'
  BY <1>0, <1>1, EdgesStep DEF LedgerInv
<1>4. SlotsFinite'
  BY <1>0, <1>1, AuthorsStay, SlotsStayFinite
<1> QED
  BY <1>1, <1>2, <1>3, <1>4 DEF LedgerInv

-----------------------------------------------------------------------------
(* The index of a post after the step: the one it had, or a new one.       *)
LEMMA PostIndexAfter ==
  ASSUME MapsInv, MapsInv', KeysStay, NEW p \in DOMAIN post2idx_map_'
  PROVE  /\ post2idx_map_'[p] \in Posts'
         /\ p \in DOMAIN post2idx_map_ =>
              post2idx_map_'[p] = post2idx_map_[p] /\ post2idx_map_[p] \in Posts
         /\ p \notin DOMAIN post2idx_map_ => post2idx_map_'[p] \notin Posts
<1> DEFINE q == post2idx_map_'[p]
<1>1. q \in Posts' /\ idx2post_map_'[q].post_id = p
  BY DEF MapsInv, MapsAgree, PostMaps, Posts, PostInfo
<1>2. p \in DOMAIN post2idx_map_ => q = post2idx_map_[p] /\ post2idx_map_[p] \in Posts
  BY DEF KeysStay, MapsInv, MapsAgree, PostMaps, Posts
<1>3. ASSUME q \in Posts PROVE p \in DOMAIN post2idx_map_
  <2> DEFINE r == idx2post_map_[q].post_id
  <2>1. r \in DOMAIN post2idx_map_ /\ post2idx_map_[r] = q
    BY <1>3 DEF MapsInv, MapsAgree, PostMaps, Posts
  <2>2. r \in DOMAIN post2idx_map_' /\ post2idx_map_'[r] = q
    BY <2>1 DEF KeysStay
  <2>3. idx2post_map_'[q].post_id = r
    BY <2>2 DEF MapsInv, MapsAgree, PostMaps, PostInfo
  <2> QED
    BY <1>1, <2>1, <2>3
<1> QED
  BY <1>1, <1>2, <1>3

(* A post's list with the users who made the interactions.                 *)
Log(s, im) == [k \in 1..Len(s) |-> [id |-> s[k], user |-> im[s[k]].userId]]

LEMMA LogStays ==
  ASSUME NEW s \in Seq(Ids), NEW im, NEW jm, \A k \in DOMAIN s : jm[s[k]] = im[s[k]]
  PROVE  Log(s, jm) = Log(s, im)
<1>1. DOMAIN s = 1..Len(s)
  OBVIOUS
<1> QED
  BY <1>1 DEF Log

(* A sequence is a function on 1..n, and Append one on 1..(n + 1).          *)
LEMMA AppendFunction ==
  ASSUME NEW T, NEW n \in Nat, NEW f \in [1..n -> T], NEW x \in T
  PROVE  Append(f, x) = [k \in 1..(n + 1) |-> IF k = n + 1 THEN x ELSE f[k]]
<1>1. f \in Seq(T) /\ Len(f) = n
  OBVIOUS
<1> DEFINE g == Append(f, x)
<1>2. /\ g \in Seq(T) /\ Len(g) = n + 1
      /\ \A k \in 1..n : g[k] = f[k]
      /\ g[n + 1] = x
  BY <1>1
<1> HIDE DEF g
<1>3. g \in [1..(n + 1) -> T]
  BY <1>2
<1>4. \A k \in 1..(n + 1) : g[k] = IF k = n + 1 THEN x ELSE f[k]
  BY <1>2
<1> QED
  BY <1>3, <1>4 DEF g

LEMMA LogAfterPush ==
  ASSUME NEW s \in Seq(Ids), NEW id \in Ids, NEW im, NEW jm,
         \A k \in DOMAIN s : jm[s[k]] = im[s[k]]
  PROVE  Log(Append(s, id), jm) = Append(Log(s, im), [id |-> id, user |-> jm[id].userId])
<1> DEFINE T == {[id |-> s[k], user |-> im[s[k]].userId] : k \in 1..Len(s)}
                  \cup {[id |-> id, user |-> jm[id].userId]}
           x == [id |-> id, user |-> jm[id].userId]
           l == Log(s, im)
<1>1. PICK n \in Nat : n = Len(s)
  OBVIOUS
<1>2. /\ DOMAIN s = 1..n /\ Len(Append(s, id)) = n + 1
      /\ Append(s, id)[n + 1] = id /\ \A k \in 1..n : Append(s, id)[k] = s[k]
  BY <1>1
<1>3. l \in [1..n -> T] /\ x \in T
  BY <1>1 DEF Log
<1>4. \A k \in 1..n : l[k] = [id |-> s[k], user |-> im[s[k]].userId]
  BY <1>1 DEF Log
<1>5. Log(Append(s, id), jm) = [k \in 1..(n + 1) |->
        [id |-> Append(s, id)[k], user |-> jm[Append(s, id)[k]].userId]]
  BY <1>2 DEF Log
<1> HIDE DEF T, l
<1>6. Append(l, x) = [k \in 1..(n + 1) |-> IF k = n + 1 THEN x ELSE l[k]]
  BY <1>3, AppendFunction
<1>7. ASSUME NEW k \in 1..(n + 1)
      PROVE  (IF k = n + 1 THEN x ELSE l[k]) =
               [id |-> Append(s, id)[k], user |-> jm[Append(s, id)[k]].userId]
  BY <1>2, <1>4
<1> QED
  BY <1>5, <1>6, <1>7 DEF l

-----------------------------------------------------------------------------
(* The mapped variables after a step that records no interaction.          *)
LEMMA LedgerReads ==
  ASSUME NEW p \in DOMAIN post2idx_map_, NEW q, q = post2idx_map_[p]
  PROVE  /\ LedgerReceived[p] = Log(post_interactions_[q], interact_map_)
         /\ LedgerMissed[p] = Len(post_interactions_[q]) - TotalTimes(q)
  BY DEF LedgerReceived, LedgerMissed, Log, UserOfInteract

LEMMA LedgerReadsAfter ==
  ASSUME NEW p \in DOMAIN post2idx_map_', NEW q, q = post2idx_map_'[p]
  PROVE  /\ LedgerReceived'[p] = Log(post_interactions_'[q], interact_map_')
         /\ LedgerMissed'[p] = Len(post_interactions_'[q]) - TotalTimes(q)'
<1>1. LedgerReceived'[p] = Log(post_interactions_'[q], interact_map_')
  BY DEF LedgerReceived, Log, UserOfInteract
<1>2. TotalTimes(post2idx_map_[p])' = TotalTimes(q)'
  BY DEF TotalTimes, Slots, Entries
<1>3. LedgerMissed'[p] = Len(post_interactions_'[q]) - TotalTimes(post2idx_map_[p])'
  BY DEF LedgerMissed
<1> QED
  BY <1>1, <1>2, <1>3

InteractionsStay == \A id \in DOMAIN interact_map_ : interact_map_'[id] = interact_map_[id]

LEMMA QuietLedger ==
  ASSUME LedgerInv, MapsInv', KeysStay, AccountsGrow, InteractionsQuiet, EdgesQuiet,
         InteractionsStay, NEW p \in DOMAIN post2idx_map_'
  PROVE  /\ LedgerReceived'[p] = IF p \in DOMAIN post2idx_map_ THEN LedgerReceived[p] ELSE <<>>
         /\ LedgerMissed'[p] = IF p \in DOMAIN post2idx_map_ THEN LedgerMissed[p] ELSE 0
<1>0. PICK q : q = post2idx_map_'[p]
  OBVIOUS
<1>1. MapsInv /\ EdgesSame /\ GraphShape
  BY EdgesAfterStep DEF LedgerInv, GraphShape
<1>2. CASE p \in DOMAIN post2idx_map_
  <2>1. q = post2idx_map_[p] /\ q \in Posts /\ q \in Posts'
    BY <1>1, <1>2, <1>0, PostIndexAfter
  <2>2. post_interactions_'[q] = post_interactions_[q]
    BY <2>1 DEF InteractionsQuiet, ListBefore
  <2>3. TotalTimes(q)' = TotalTimes(q)
    BY <1>1, TotalsAfterQuiet
  <2>4. /\ post_interactions_[q] \in Seq(Ids)
        /\ \A k \in DOMAIN post_interactions_[q] :
             interact_map_'[post_interactions_[q][k]] = interact_map_[post_interactions_[q][k]]
    BY <2>1 DEF LedgerInv, MapsInv, TypeOK, PostTypeOK, Posts, InteractionsListedOnce,
        InteractionsStay
  <2>5. Log(post_interactions_[q], interact_map_') = Log(post_interactions_[q], interact_map_)
    BY <2>4, LogStays
  <2>6. /\ LedgerReceived[p] = Log(post_interactions_[q], interact_map_)
        /\ LedgerMissed[p] = Len(post_interactions_[q]) - TotalTimes(q)
    BY <1>2, <2>1, LedgerReads
  <2>7. /\ LedgerReceived'[p] = Log(post_interactions_'[q], interact_map_')
        /\ LedgerMissed'[p] = Len(post_interactions_'[q]) - TotalTimes(q)'
    BY <1>0, LedgerReadsAfter
  <2> QED
    BY <1>2, <2>2, <2>3, <2>5, <2>6, <2>7, Zenon
<1>3. CASE p \notin DOMAIN post2idx_map_
  <2>1. q \notin Posts /\ q \in Posts'
    BY <1>1, <1>3, <1>0, PostIndexAfter
  <2>2. post_interactions_'[q] = <<>>
    BY <2>1 DEF InteractionsQuiet, ListBefore
  <2>3. TotalTimes(q)' = 0
    BY <1>1, <2>1, NoSlotWithoutAuthor
  <2>4. Log(<<>>, interact_map_') = <<>>
    BY DEF Log
  <2>5. Len(post_interactions_'[q]) - TotalTimes(q)' = 0
    BY <2>2, <2>3
  <2> QED
    BY <1>3, <2>2, <2>4, <2>5, <1>0, LedgerReads, LedgerReadsAfter
<1> QED
  BY <1>2, <1>3

(* ... and after one that records u's interaction id with the post p0.     *)
LEMMA EntersLedger ==
  ASSUME LedgerInv, MapsInv', KeysStay, AccountsGrow, InteractionsStay,
         NEW p0 \in DOMAIN post2idx_map_, NEW id \in Ids, NEW u \in Users,
         Enters(post2idx_map_[p0], id, u),
         NEW p \in DOMAIN post2idx_map_'
  PROVE  /\ LedgerReceived'[p] =
              IF p = p0 THEN Append(LedgerReceived[p], [id |-> id, user |-> u])
              ELSE IF p \in DOMAIN post2idx_map_ THEN LedgerReceived[p] ELSE <<>>
         /\ LedgerMissed'[p] =
              IF p = p0 THEN IF LedgerAuthor[p] = NoUid THEN LedgerMissed[p] + 1 ELSE LedgerMissed[p]
              ELSE IF p \in DOMAIN post2idx_map_ THEN LedgerMissed[p] ELSE 0
<1> DEFINE q0 == post2idx_map_[p0]
<1>0. PICK q : q = post2idx_map_'[p]
  OBVIOUS
<1>1. /\ MapsInv /\ GraphShape
      /\ q0 \in Posts /\ InteractionsAppend(q0, id) /\ interact_map_'[id].userId = u
  BY DEF LedgerInv, GraphShape, Enters, InteractionsAppend
<1>2. /\ AuthorOf(q0) = NoUid => EdgesSame
      /\ AuthorOf(q0) # NoUid =>
           EdgeLonger(account2idx_map_[AuthorOf(q0)], account2idx_map_'[u], q0)
  <2>1. CASE AuthorOf(q0) = NoUid
    BY <1>1, <2>1, EdgesAfterStep DEF Enters, EdgesEntered
  <2>2. CASE AuthorOf(q0) # NoUid
    BY <1>1, <2>2, EdgesAfterEntry DEF Enters, EdgesEntered
  <2> QED
    BY <2>1, <2>2
<1>3. CASE p \in DOMAIN post2idx_map_
  <2>1. /\ q = post2idx_map_[p] /\ q \in Posts /\ q \in Posts'
        /\ q = q0 <=> p = p0
    <3>1. q = post2idx_map_[p] /\ q \in Posts /\ q \in Posts'
      BY <1>1, <1>3, <1>0, PostIndexAfter
    <3>2. idx2post_map_[post2idx_map_[p]].post_id = p /\ idx2post_map_[q0].post_id = p0
      BY <1>1, <1>3 DEF MapsInv, MapsAgree, PostMaps, PostInfo
    <3> QED
      BY <3>1, <3>2
  <2>2. LedgerAuthor[p] = AuthorOf(q)
    BY <1>3, <2>1 DEF LedgerAuthor, PostInfo, AuthorOf
  <2> DEFINE s == post_interactions_[q]
  <2>3. post_interactions_'[q] = IF p = p0 THEN Append(s, id) ELSE s
    BY <1>1, <2>1 DEF InteractionsAppend, ListBefore
  <2>4. /\ s \in Seq(Ids)
        /\ \A k \in DOMAIN s : interact_map_'[s[k]] = interact_map_[s[k]]
    BY <2>1 DEF LedgerInv, MapsInv, TypeOK, PostTypeOK, Posts, InteractionsListedOnce,
        InteractionsStay
  <2>5. TotalTimes(q) \in Nat
    BY <2>1, FS_CardinalityType DEF TotalTimes, LedgerInv, SlotsFinite
  <2>6. TotalTimes(q)' =
          IF p = p0 /\ AuthorOf(q) # NoUid THEN TotalTimes(q) + 1 ELSE TotalTimes(q)
    <3>1. CASE AuthorOf(q0) = NoUid
      BY <1>2, <2>1, <3>1, TotalsAfterQuiet
    <3>2. CASE AuthorOf(q0) # NoUid
      BY <1>1, <1>2, <2>1, <3>2, TotalsAfterEntry
    <3> QED
      BY <3>1, <3>2
  <2> DEFINE tot == TotalTimes(q)
             tot2 == TotalTimes(q)'
             t == post_interactions_'[q]
             l == Log(s, interact_map_)
  <2>7. /\ LedgerReceived[p] = l /\ LedgerReceived'[p] = Log(t, interact_map_')
        /\ LedgerMissed[p] = Len(s) - tot
        /\ LedgerMissed'[p] = Len(t) - tot2
    BY <1>3, <2>1, <1>0, LedgerReads, LedgerReadsAfter
  <2>8. CASE p = p0
    <3>1. Log(t, interact_map_') = Append(l, [id |-> id, user |-> u])
      <4> HIDE DEF s
      <4>1. Log(Append(s, id), interact_map_') =
              Append(l, [id |-> id, user |-> interact_map_'[id].userId])
        BY <2>4, LogAfterPush
      <4> QED
        BY <1>1, <2>3, <2>8, <4>1
    <3>2. Len(t) = Len(s) + 1 /\ Len(s) \in Nat
      BY <2>3, <2>4, <2>8
    <3>3. /\ AuthorOf(q) = NoUid => tot2 = tot
          /\ AuthorOf(q) # NoUid => tot2 = tot + 1
      BY <2>6, <2>8
    <3> HIDE DEF tot, tot2, l, t, s
    <3>4. Len(t) - tot2 = IF AuthorOf(q) = NoUid THEN (Len(s) - tot) + 1 ELSE Len(s) - tot
      <4>1. tot \in Nat
        BY <2>5 DEF tot
      <4> QED
        BY <3>2, <3>3, <4>1
    <3> QED
      BY <2>2, <2>7, <2>8, <3>1, <3>4
  <2>9. CASE p # p0
    <3>1. Log(t, interact_map_') = l
      <4> HIDE DEF s
      <4>1. Log(s, interact_map_') = l
        BY <2>4, LogStays
      <4> QED
        BY <2>3, <2>9, <4>1
    <3>2. t = s /\ tot2 = tot
      BY <2>3, <2>6, <2>9
    <3> QED
      BY <1>3, <2>7, <2>9, <3>1, <3>2
  <2> QED
    BY <2>8, <2>9
<1>4. CASE p \notin DOMAIN post2idx_map_
  <2>1. q \notin Posts /\ q \in Posts' /\ p # p0
    BY <1>1, <1>4, <1>0, PostIndexAfter
  <2>2. post_interactions_'[q] = <<>>
    BY <1>1, <2>1 DEF InteractionsAppend, ListBefore
  <2>3. TotalTimes(q)' = 0
    BY <1>1, <2>1, NoSlotWithoutAuthor
  <2>4. Log(<<>>, interact_map_') = <<>>
    BY DEF Log
  <2>5. Len(post_interactions_'[q]) - TotalTimes(q)' = 0
    BY <2>2, <2>3
  <2> QED
    BY <1>4, <2>1, <2>2, <2>4, <2>5, <1>0, LedgerReads, LedgerReadsAfter
<1> QED
  BY <1>3, <1>4

LEMMA LedgerShapes ==
  /\ LedgerAuthor = [p \in DOMAIN post2idx_map_ |-> LedgerAuthor[p]]
  /\ LedgerReceived = [p \in DOMAIN post2idx_map_ |-> LedgerReceived[p]]
  /\ LedgerMissed = [p \in DOMAIN post2idx_map_ |-> LedgerMissed[p]]
  /\ LedgerAuthor' = [p \in DOMAIN post2idx_map_' |-> LedgerAuthor'[p]]
  /\ LedgerReceived' = [p \in DOMAIN post2idx_map_' |-> LedgerReceived'[p]]
  /\ LedgerMissed' = [p \in DOMAIN post2idx_map_' |-> LedgerMissed'[p]]
<1>1. /\ LedgerAuthor = [p \in DOMAIN post2idx_map_ |-> LedgerAuthor[p]]
      /\ LedgerAuthor' = [p \in DOMAIN post2idx_map_' |-> LedgerAuthor'[p]]
  BY DEF LedgerAuthor
<1>2. /\ LedgerReceived = [p \in DOMAIN post2idx_map_ |-> LedgerReceived[p]]
      /\ LedgerReceived' = [p \in DOMAIN post2idx_map_' |-> LedgerReceived'[p]]
  BY DEF LedgerReceived
<1>3. /\ LedgerMissed = [p \in DOMAIN post2idx_map_ |-> LedgerMissed[p]]
      /\ LedgerMissed' = [p \in DOMAIN post2idx_map_' |-> LedgerMissed'[p]]
  BY DEF LedgerMissed
<1> QED
  BY <1>1, <1>2, <1>3

LEMMA QuietMaps ==
  ASSUME LedgerInv, MapsInv', KeysStay, AccountsGrow, InteractionsQuiet, EdgesQuiet,
         InteractionsStay
  PROVE  /\ DOMAIN post2idx_map_' = DOMAIN post2idx_map_ =>
              LedgerReceived' = LedgerReceived /\ LedgerMissed' = LedgerMissed
         /\ \A p : /\ p \notin DOMAIN post2idx_map_
                   /\ DOMAIN post2idx_map_' = DOMAIN post2idx_map_ \cup {p}
                   => /\ LedgerReceived' = Ledger!Extend(LedgerReceived, p, <<>>)
                      /\ LedgerMissed' = Ledger!Extend(LedgerMissed, p, 0)
<1>1. \A p \in DOMAIN post2idx_map_' :
        /\ LedgerReceived'[p] = IF p \in DOMAIN post2idx_map_ THEN LedgerReceived[p] ELSE <<>>
        /\ LedgerMissed'[p] = IF p \in DOMAIN post2idx_map_ THEN LedgerMissed[p] ELSE 0
  BY QuietLedger
<1>2. CASE DOMAIN post2idx_map_' = DOMAIN post2idx_map_
  <2>1. LedgerReceived' = LedgerReceived
    BY <1>1, <1>2, LedgerShapes
  <2>2. LedgerMissed' = LedgerMissed
    BY <1>1, <1>2, LedgerShapes
  <2> QED
    BY <1>2, <2>1, <2>2
<1>3. ASSUME NEW p, p \notin DOMAIN post2idx_map_,
             DOMAIN post2idx_map_' = DOMAIN post2idx_map_ \cup {p}
      PROVE  /\ LedgerReceived' = Ledger!Extend(LedgerReceived, p, <<>>)
             /\ LedgerMissed' = Ledger!Extend(LedgerMissed, p, 0)
  <2>1. /\ DOMAIN LedgerReceived = DOMAIN post2idx_map_
        /\ DOMAIN LedgerMissed = DOMAIN post2idx_map_
    BY LedgerShapes
  <2>2. \A r \in DOMAIN post2idx_map_' :
          /\ LedgerReceived'[r] = IF r = p THEN <<>> ELSE LedgerReceived[r]
          /\ LedgerMissed'[r] = IF r = p THEN 0 ELSE LedgerMissed[r]
    BY <1>1, <1>3
  <2>3. LedgerReceived' = [r \in DOMAIN post2idx_map_' |-> IF r = p THEN <<>> ELSE LedgerReceived[r]]
    BY <2>2, LedgerShapes
  <2>4. LedgerMissed' = [r \in DOMAIN post2idx_map_' |-> IF r = p THEN 0 ELSE LedgerMissed[r]]
    BY <2>2, LedgerShapes
  <2> QED
    BY <1>3, <2>1, <2>3, <2>4 DEF Ledger!Extend
<1> QED
  BY <1>2, <1>3

-----------------------------------------------------------------------------
(* The authors after a step.                                               *)
LEMMA AuthorsUnchanged ==
  ASSUME MapsInv, UNCHANGED post2idx_map_,
         \A q \in DOMAIN idx2post_map_ : idx2post_map_'[q].userId = idx2post_map_[q].userId
  PROVE  LedgerAuthor' = LedgerAuthor
<1>1. \A p \in DOMAIN post2idx_map_ : LedgerAuthor'[p] = LedgerAuthor[p]
  BY DEF LedgerAuthor, PostInfo, MapsInv, MapsAgree, PostMaps
<1> QED
  BY <1>1, LedgerShapes

LEMMA AuthorRegistered ==
  ASSUME MapsInv, NEW p, NEW info, ~HasPost(p),
         post2idx_map_' = Put(post2idx_map_, p, num_posts),
         idx2post_map_'[num_posts] = info,
         \A q \in DOMAIN idx2post_map_ : idx2post_map_'[q] = idx2post_map_[q]
  PROVE  /\ LedgerAuthor' = Ledger!Extend(LedgerAuthor, p, info.userId)
         /\ DOMAIN post2idx_map_' = DOMAIN post2idx_map_ \cup {p}
<1>1. /\ DOMAIN post2idx_map_' = DOMAIN post2idx_map_ \cup {p}
      /\ post2idx_map_'[p] = num_posts
      /\ \A r \in DOMAIN post2idx_map_ : r # p /\ post2idx_map_'[r] = post2idx_map_[r]
  BY DEF Put, HasPost
<1>2. \A r \in DOMAIN post2idx_map_' :
        LedgerAuthor'[r] = IF r = p THEN info.userId ELSE LedgerAuthor[r]
  BY <1>1 DEF LedgerAuthor, PostInfo, MapsInv, MapsAgree, PostMaps
<1>3. LedgerAuthor' = [r \in DOMAIN post2idx_map_' |->
                         IF r = p THEN info.userId ELSE LedgerAuthor[r]]
  BY <1>2, LedgerShapes
<1>4. DOMAIN LedgerAuthor = DOMAIN post2idx_map_
  BY LedgerShapes
<1> QED
  BY <1>1, <1>3, <1>4 DEF Ledger!Extend

(* A step that registers post p with author u (or none) hears of it; with  *)
(* an author its account joins, and the account "" may join as well.       *)
LEMMA HearsOfPost ==
  ASSUME LedgerInv, MapsInv', KeysStay, AccountsGrow, InteractionsQuiet, EdgesQuiet,
         InteractionsStay, NEW p \in Ids, ~HasPost(p),
         NEW info \in [userId : Users \cup {NoUid}, post_id : Ids, data : Data \cup {NoData}],
         info.post_id = p, RegisterPost(p, info),
         NEW joins \in BOOLEAN, joins \/ info.userId = NoUid,
         DOMAIN account2idx_map_' = IF joins THEN DOMAIN account2idx_map_ \cup {info.userId}
                                    ELSE DOMAIN account2idx_map_
  PROVE  Ledger!Hear(p, info.userId, joins)
<1>1. /\ post2idx_map_' = Put(post2idx_map_, p, num_posts)
      /\ idx2post_map_'[num_posts] = info
      /\ \A q \in DOMAIN idx2post_map_ : idx2post_map_'[q] = idx2post_map_[q]
  BY RegisterPostFacts DEF RegisterPost, LedgerInv
<1>2. /\ LedgerAuthor' = Ledger!Extend(LedgerAuthor, p, info.userId)
      /\ DOMAIN post2idx_map_' = DOMAIN post2idx_map_ \cup {p}
  BY <1>1, AuthorRegistered DEF LedgerInv
<1>3. /\ LedgerReceived' = Ledger!Extend(LedgerReceived, p, <<>>)
      /\ LedgerMissed' = Ledger!Extend(LedgerMissed, p, 0)
  BY <1>2, QuietMaps DEF HasPost
<1>4. ~Ledger!Known(p)
  BY LedgerShapes DEF Ledger!Known, HasPost
<1> QED
  BY <1>2, <1>3, <1>4 DEF Ledger!Hear

LEMMA AccountDomain ==
  ASSUME NEW u
  PROVE  DOMAIN Account2IdxWith(u) = DOMAIN account2idx_map_ \cup {u}
  BY DEF Account2IdxWith, Put, HasAccount

LEMMA PlaceholderIsHeard ==
  ASSUME LedgerInv, MapsInv', KeysStay, NEW p \in Ids,
         UNCHANGED <<accountVars, interact_map_>>,
         IF HasPost(p) THEN UNCHANGED postVars ELSE RegisterPost(p, NewPost(p, NoUid))
  PROVE  [Ledger!LNext]_(Ledger!lvars)
<1>0. MapsInv
  BY DEF LedgerInv
<1>1. /\ InteractionsQuiet /\ EdgesQuiet /\ AccountsGrow
      /\ DOMAIN account2idx_map_' = DOMAIN account2idx_map_
  BY <1>0, PlaceholderShape, PlaceholderKeepsLists, UnchangedSlots DEF accountVars
<1>s. InteractionsStay
  BY DEF InteractionsStay
<1>2. CASE HasPost(p)
  <2>1. LedgerAuthor' = LedgerAuthor
    BY <1>0, <1>2, AuthorsUnchanged DEF postVars
  <2>2. LedgerReceived' = LedgerReceived /\ LedgerMissed' = LedgerMissed
    BY <1>1, <1>s, <1>2, QuietMaps DEF postVars
  <2> QED
    BY <1>1, <2>1, <2>2 DEF Ledger!lvars
<1>3. CASE ~HasPost(p)
  <2> DEFINE info == NewPost(p, NoUid)
  <2>1. /\ info \in [userId : Users \cup {NoUid}, post_id : Ids, data : Data \cup {NoData}]
        /\ info.post_id = p /\ info.userId = NoUid
    BY DEF NewPost
  <2>2. RegisterPost(p, info)
    BY <1>3
  <2> HIDE DEF info
  <2>3. Ledger!Hear(p, NoUid, FALSE)
    BY <1>1, <1>s, <1>3, <2>1, <2>2, HearsOfPost
  <2> QED
    BY <2>3 DEF Ledger!LNext
<1> QED
  BY <1>2, <1>3

(* Author, interactions and misses stay: at most an account joins.         *)
LEMMA AccountJoins ==
  ASSUME LedgerInv, MapsInv', KeysStay, AccountsGrow, InteractionsQuiet, EdgesQuiet,
         InteractionsStay, UNCHANGED post2idx_map_, NEW u \in Users,
         \A q \in DOMAIN idx2post_map_ : idx2post_map_'[q].userId = idx2post_map_[q].userId,
         DOMAIN account2idx_map_' = DOMAIN account2idx_map_ \cup {u}
  PROVE  Ledger!LNext
<1>1. LedgerAuthor' = LedgerAuthor
  BY AuthorsUnchanged DEF LedgerInv
<1>2. LedgerReceived' = LedgerReceived /\ LedgerMissed' = LedgerMissed
  BY QuietMaps
<1>3. Ledger!Join(u)
  BY <1>1, <1>2 DEF Ledger!Join
<1> QED
  BY <1>3 DEF Ledger!LNext

LEMMA AddAccountIsLedger ==
  ASSUME LedgerInv, MapsInv', KeysStay, NEW u \in Users, NEW d \in Data, NEW replace \in BOOLEAN,
         AddAccount(u, d, replace)
  PROVE  Ledger!LNext
<1>1. MapsInv
  BY DEF LedgerInv
<1>2. /\ UNCHANGED <<post2idx_map_, idx2post_map_, post_interactions_, interact_map_>>
      /\ DOMAIN account2idx_map_' = DOMAIN account2idx_map_ \cup {u}
  BY AccountDomain DEF AddAccount, postVars, accountVars, HasAccount
<1>3. EdgesQuiet /\ ListsShape /\ InteractionsQuiet
  BY <1>1, <1>2, AddAccountShape, ListsUntouched
<1>4. AccountsGrow
  BY <1>1, <1>3, AuthorsStay
<1>5. InteractionsStay
  BY <1>2 DEF InteractionsStay
<1> QED
  BY <1>2, <1>3, <1>4, <1>5, AccountJoins

(* A known post without an author gets one: it is attributed.              *)
LEMMA AttributesPost ==
  ASSUME LedgerInv, MapsInv', KeysStay, AccountsGrow, InteractionsQuiet, EdgesQuiet,
         InteractionsStay, NEW p \in Ids, NEW u \in Users, u # NoUid, HasPost(p),
         AuthorUnknown(p), UNCHANGED post2idx_map_,
         NEW info, info.userId = u,
         idx2post_map_' = [idx2post_map_ EXCEPT ![post2idx_map_[p]] = info],
         DOMAIN account2idx_map_' = DOMAIN account2idx_map_ \cup {u}
  PROVE  Ledger!Attribute(p, u)
<1> DEFINE q0 == post2idx_map_[p]
<1>1. /\ \A r \in DOMAIN post2idx_map_ : /\ post2idx_map_[r] \in DOMAIN idx2post_map_
                                         /\ post2idx_map_[r] = q0 <=> r = p
      /\ p \in DOMAIN post2idx_map_
  <2>1. PostMaps
    BY DEF LedgerInv, MapsInv, MapsAgree
  <2> QED
    BY <2>1 DEF PostMaps, PostInfo, HasPost
<1>2. \A r \in DOMAIN post2idx_map_ :
        idx2post_map_'[post2idx_map_[r]].userId =
          IF r = p THEN u ELSE idx2post_map_[post2idx_map_[r]].userId
  BY <1>1
<1>3. \A r \in DOMAIN post2idx_map_ : LedgerAuthor'[r] = IF r = p THEN u ELSE LedgerAuthor[r]
  BY <1>2 DEF LedgerAuthor, PostInfo
<1>4. LedgerAuthor' = [LedgerAuthor EXCEPT ![p] = u]
  BY <1>3, LedgerShapes
<1>5. LedgerAuthor[p] = NoUid /\ p \in DOMAIN LedgerAuthor
  BY <1>1 DEF LedgerAuthor, AuthorUnknown
<1>6. LedgerReceived' = LedgerReceived /\ LedgerMissed' = LedgerMissed
  BY QuietMaps
<1> QED
  BY <1>4, <1>5, <1>6 DEF Ledger!Attribute, Ledger!Known

LEMMA AddPostIsLedger ==
  ASSUME LedgerInv, MapsInv', KeysStay, NEW p \in Ids, NEW u \in Users, NEW d \in Data,
         NEW replace \in BOOLEAN, AddPost(p, u, d, replace)
  PROVE  [Ledger!LNext]_(Ledger!lvars)
<1>1. MapsInv
  BY SMTT(30) DEF LedgerInv
<1>2. /\ EdgesQuiet /\ ListsShape /\ InteractionsQuiet
      /\ UNCHANGED interact_map_
  BY <1>1, AddPostShape, AddPostKeepsLists DEF AddPost
<1>3. AccountsGrow
  BY <1>1, <1>2, AuthorsStay
<1>s. InteractionsStay
  BY <1>2 DEF InteractionsStay
<1>4. CASE UNCHANGED <<accountVars, postVars>>
  <2>1. UNCHANGED <<accountVars, interact_map_>> /\ UNCHANGED <<post2idx_map_, idx2post_map_>>
    BY <1>2, <1>4 DEF postVars
  <2>2. LedgerAuthor' = LedgerAuthor
    BY <1>1, <2>1, AuthorsUnchanged
  <2>3. LedgerReceived' = LedgerReceived /\ LedgerMissed' = LedgerMissed
    BY <1>2, <1>3, <1>s, <2>1, QuietMaps
  <2> QED
    BY <2>1, <2>2, <2>3 DEF Ledger!lvars, accountVars
<1>5. CASE /\ ~HasPost(p)
           /\ RegisterPost(p, [NewPost(p, u) EXCEPT !.data = d])
           /\ account2idx_map_' = Account2IdxWith(u)
  <2> DEFINE info == [NewPost(p, u) EXCEPT !.data = d]
  <2>1. /\ info \in [userId : Users \cup {NoUid}, post_id : Ids, data : Data \cup {NoData}]
        /\ info.post_id = p /\ info.userId = u
    BY DEF NewPost
  <2>2. RegisterPost(p, info)
    BY <1>5
  <2> HIDE DEF info
  <2>3. DOMAIN account2idx_map_' = DOMAIN account2idx_map_ \cup {info.userId}
    BY <1>5, <2>1, AccountDomain
  <2>4. Ledger!Hear(p, info.userId, TRUE)
    BY <1>2, <1>3, <1>s, <1>5, <2>1, <2>2, <2>3, HearsOfPost
  <2> QED
    BY <2>1, <2>4 DEF Ledger!LNext
<1>6. CASE /\ HasPost(p) /\ AuthorUnknown(p)
           /\ idx2post_map_' = [idx2post_map_ EXCEPT
                  ![post2idx_map_[p]] = [@ EXCEPT !.userId = u, !.data = d]]
           /\ account2idx_map_' = Account2IdxWith(u)
           /\ UNCHANGED post2idx_map_
  <2> DEFINE info == [idx2post_map_[post2idx_map_[p]] EXCEPT !.userId = u, !.data = d]
  <2>1. info.userId = u
    <3>1. idx2post_map_[post2idx_map_[p]] \in
            [userId : Users \cup {NoUid}, post_id : Ids, data : Data \cup {NoData}]
      BY <1>1, <1>6 DEF MapsInv, TypeOK, PostTypeOK, MapsAgree, PostMaps, HasPost
    <3> QED
      BY <3>1
  <2>2. idx2post_map_' = [idx2post_map_ EXCEPT ![post2idx_map_[p]] = info]
    BY <1>6
  <2> HIDE DEF info
  <2>3. DOMAIN account2idx_map_' = DOMAIN account2idx_map_ \cup {u}
    BY <1>6, AccountDomain
  <2>4. CASE u # NoUid
    <3>1. Ledger!Attribute(p, u)
      BY <1>2, <1>3, <1>s, <1>6, <2>1, <2>2, <2>3, <2>4, AttributesPost
    <3> QED
      BY <3>1 DEF Ledger!LNext
  <2>5. CASE u = NoUid
    <3>1. \A q \in DOMAIN idx2post_map_ : idx2post_map_'[q].userId = idx2post_map_[q].userId
      BY <1>6, <2>1, <2>2, <2>5 DEF AuthorUnknown, PostInfo
    <3> QED
      BY <1>2, <1>3, <1>s, <1>6, <2>3, <3>1, AccountJoins
  <2> QED
    BY <2>4, <2>5
<1>7. CASE /\ idx2post_map_' = [idx2post_map_ EXCEPT ![post2idx_map_[p]].data = d]
           /\ account2idx_map_' = Account2IdxWith(u)
           /\ UNCHANGED post2idx_map_
  <2>1. \A q \in DOMAIN idx2post_map_ : idx2post_map_'[q].userId = idx2post_map_[q].userId
    BY <1>1, <1>7 DEF MapsInv, TypeOK, PostTypeOK
  <2>2. Ledger!LNext
    BY <1>2, <1>3, <1>s, <1>7, <2>1, AccountDomain, AccountJoins
  <2> QED
    BY <2>2
<1> QED
  BY <1>4, <1>5, <1>6, <1>7 DEF AddPost

(* A new interaction is one Interact step, publishing when it makes a post. *)
LEMMA NewInteractionIsLedger ==
  ASSUME LedgerInv, MapsInv', KeysStay, NEW t \in ITypes, NEW id \in Ids, NEW u \in Users,
         call \in Calls, NewInteraction(t, id, u)
  PROVE  Ledger!LNext
<1> DEFINE p0 == call.post
           creates == t \in {FORWARD, QUOTE} /\ ~HasPost(id)
           x == [id |-> id, user |-> u]
           D == DOMAIN post2idx_map_
<1>1. MapsInv
  BY DEF LedgerInv
<1>2. /\ ListsShape /\ HasAccount(u)' /\ account2idx_map_'[u] \in Accounts'
      /\ EdgesEntered(post2idx_map_[p0], u)
      /\ InteractionsAppend(post2idx_map_[p0], id)
  BY <1>1, NewInteractionShape, NewInteractionAppends
<1>3. AccountsGrow
  BY <1>1, <1>2, AuthorsStay
<1>4. p0 \in D /\ p0 \in Ids
  BY <1>1 DEF MapsInv, CallOnKnownPost, HasPost, Calls
<1>5. Enters(post2idx_map_[p0], id, u)
  <2>1. interact_map_'[id].userId = u
    BY DEF NewInteraction, Put
  <2> QED
    BY <1>2, <2>1 DEF Enters
<1>6. \A p \in DOMAIN post2idx_map_' :
        /\ LedgerReceived'[p] =
              IF p = p0 THEN Append(LedgerReceived[p], x)
              ELSE IF p \in D THEN LedgerReceived[p] ELSE <<>>
        /\ LedgerMissed'[p] =
              IF p = p0 THEN IF LedgerAuthor[p] = NoUid THEN LedgerMissed[p] + 1 ELSE LedgerMissed[p]
              ELSE IF p \in D THEN LedgerMissed[p] ELSE 0
  <2>1. InteractionsStay
    BY DEF NewInteraction, Put, HasInteract, InteractionsStay
  <2> QED
    BY <1>3, <1>4, <1>5, <2>1, EntersLedger
<1>7. /\ DOMAIN LedgerReceived = D /\ DOMAIN LedgerMissed = D /\ DOMAIN LedgerAuthor = D
      /\ LedgerReceived' = [p \in DOMAIN post2idx_map_' |-> LedgerReceived'[p]]
      /\ LedgerMissed' = [p \in DOMAIN post2idx_map_' |-> LedgerMissed'[p]]
  BY LedgerShapes
<1>8. DOMAIN account2idx_map_' = DOMAIN account2idx_map_ \cup {u}
  BY AccountDomain DEF NewInteraction
<1>9. ~Ledger!Seen(id)
  <2> SUFFICES ASSUME NEW p \in D, NEW k \in DOMAIN LedgerReceived[p],
                      LedgerReceived[p][k].id = id
               PROVE  FALSE
    BY <1>7 DEF Ledger!Seen
  <2>1. PICK q \in Posts : q = post2idx_map_[p]
    BY <1>1 DEF MapsInv, MapsAgree, PostMaps, Posts
  <2>2. LedgerReceived[p] = Log(post_interactions_[q], interact_map_)
    BY <2>1, LedgerReads
  <2>3. /\ k \in DOMAIN post_interactions_[q]
        /\ post_interactions_[q][k] = id
    <3>1. post_interactions_[q] \in Seq(Ids)
      BY <1>1 DEF MapsInv, TypeOK, PostTypeOK, Posts
    <3> QED
      BY <2>2, <3>1 DEF Log
  <2>4. id \in DOMAIN interact_map_
    BY <2>3 DEF LedgerInv, InteractionsListedOnce
  <2> QED
    BY <2>4 DEF NewInteraction, HasInteract
<1>10. Ledger!Known(p0)
  BY <1>4, <1>7 DEF Ledger!Known
<1> DEFINE r == [LedgerReceived EXCEPT ![p0] = Append(@, x)]
           m == [LedgerMissed EXCEPT ![p0] = IF LedgerAuthor[p0] = NoUid THEN @ + 1 ELSE @]
<1>11. /\ DOMAIN r = D /\ DOMAIN m = D
       /\ \A p \in D : r[p] = IF p = p0 THEN Append(LedgerReceived[p], x) ELSE LedgerReceived[p]
       /\ \A p \in D : m[p] =
            IF p = p0 THEN IF LedgerAuthor[p] = NoUid THEN LedgerMissed[p] + 1 ELSE LedgerMissed[p]
            ELSE LedgerMissed[p]
       /\ r = [p \in D |-> r[p]] /\ m = [p \in D |-> m[p]]
  BY <1>7
<1>12. CASE ~creates
  <2>1. UNCHANGED <<post2idx_map_, idx2post_map_>>
    BY <1>12 DEF NewInteraction
  <2>2. LedgerAuthor' = LedgerAuthor
    BY <1>1, <2>1, AuthorsUnchanged
  <2>3. LedgerReceived' = r /\ LedgerMissed' = m
    <3> HIDE DEF r, m, x
    <3>1. DOMAIN post2idx_map_' = D
      BY <2>1
    <3> HIDE DEF D, p0
    <3>2. \A p \in D : LedgerReceived'[p] = r[p] /\ LedgerMissed'[p] = m[p]
      BY <1>6, <1>11, <3>1
    <3>3. LedgerReceived' = r
      BY <1>7, <1>11, <3>1, <3>2
    <3>4. LedgerMissed' = m
      BY <1>7, <1>11, <3>1, <3>2
    <3> QED
      BY <3>3, <3>4
  <2>4. Ledger!Interact(p0, id, u, FALSE)
    BY <1>8, <1>9, <1>10, <2>2, <2>3 DEF Ledger!Interact
  <2> QED
    BY <1>4, <2>4 DEF Ledger!LNext
<1>13. CASE creates
  <2>1. /\ post2idx_map_' = Put(post2idx_map_, id, num_posts)
        /\ idx2post_map_' = Put(idx2post_map_, num_posts, NewPost(id, u))
        /\ ~HasPost(id)
    BY <1>13 DEF NewInteraction
  <2>2. num_posts \notin DOMAIN idx2post_map_
    BY <1>1, FS_CardinalityType DEF num_posts, MapsInv, FiniteMaps, MapsAgree, PostMaps
  <2>3. /\ idx2post_map_'[num_posts] = NewPost(id, u)
        /\ \A q \in DOMAIN idx2post_map_ : idx2post_map_'[q] = idx2post_map_[q]
        /\ NewPost(id, u).userId = u
    BY <2>1, <2>2 DEF Put, NewPost
  <2>4. /\ LedgerAuthor' = Ledger!Extend(LedgerAuthor, id, u)
        /\ DOMAIN post2idx_map_' = D \cup {id}
    BY <1>1, <2>1, <2>3, AuthorRegistered
  <2>5. id \notin D /\ id # p0
    BY <1>4, <2>1 DEF HasPost
  <2>6. /\ LedgerReceived' = Ledger!Extend(r, id, <<>>)
        /\ LedgerMissed' = Ledger!Extend(m, id, 0)
    <3> HIDE DEF r, m, x, D, p0
    <3>1. \A p \in D \cup {id} : /\ LedgerReceived'[p] = IF p = id THEN <<>> ELSE r[p]
                                 /\ LedgerMissed'[p] = IF p = id THEN 0 ELSE m[p]
      BY <1>6, <1>11, <2>4, <2>5
    <3>2. LedgerReceived' = [p \in D \cup {id} |-> IF p = id THEN <<>> ELSE r[p]]
      BY <1>7, <2>4, <3>1
    <3>3. LedgerMissed' = [p \in D \cup {id} |-> IF p = id THEN 0 ELSE m[p]]
      BY <1>7, <2>4, <3>1
    <3> QED
      BY <1>11, <3>2, <3>3 DEF Ledger!Extend
  <2>7. ~Ledger!Known(id)
    BY <1>7, <2>5 DEF Ledger!Known
  <2>8. Ledger!Interact(p0, id, u, TRUE)
    BY <1>8, <1>9, <1>10, <2>4, <2>6, <2>7 DEF Ledger!Interact
  <2> QED
    BY <1>4, <2>8 DEF Ledger!LNext
<1> QED
  BY <1>12, <1>13

(* An interaction stored without a user gets one: it is identified, where  *)
(* its one place in the lists says.                                        *)
LEMMA IdentifiesUser ==
  ASSUME LedgerInv, UNCHANGED <<accountVars, postVars>>,
         NEW id \in DOMAIN interact_map_, NEW u \in Users, UserOfInteract(id) = NoUid,
         interact_map_' = [interact_map_ EXCEPT ![id].userId = u]
  PROVE  Ledger!LNext
<1> DEFINE D == DOMAIN post2idx_map_
<1>1. MapsInv
  BY DEF LedgerInv
<1>2. PICK q0 \in Posts : \E j \in DOMAIN post_interactions_[q0] : post_interactions_[q0][j] = id
  BY DEF LedgerInv, InteractionsListedOnce
<1>3. PICK k0 \in DOMAIN post_interactions_[q0] : post_interactions_[q0][k0] = id
  BY <1>2
<1>4. PICK p0 \in D : post2idx_map_[p0] = q0
  BY <1>1 DEF MapsInv, MapsAgree, PostMaps, Posts
<1>5. \A p \in D : /\ post2idx_map_[p] \in Posts
                   /\ p # p0 => post2idx_map_[p] # q0
                   /\ post_interactions_[post2idx_map_[p]] \in Seq(Ids)
  <2>1. \A p \in D : post2idx_map_[p] \in Posts /\ idx2post_map_[post2idx_map_[p]].post_id = p
    BY <1>1 DEF MapsInv, MapsAgree, PostMaps, Posts, PostInfo
  <2> QED
    BY <1>1, <1>4, <2>1 DEF MapsInv, TypeOK, PostTypeOK, Posts
<1>6. \A p \in D : \A k \in DOMAIN post_interactions_[post2idx_map_[p]] :
        /\ post_interactions_[post2idx_map_[p]][k] \in DOMAIN interact_map_
        /\ (post_interactions_[post2idx_map_[p]][k] = id) <=> (p = p0 /\ k = k0)
  BY <1>3, <1>4, <1>5 DEF LedgerInv, InteractionsListedOnce
<1>7. /\ interact_map_'[id].userId = u
      /\ \A i \in DOMAIN interact_map_ : i # id => interact_map_'[i] = interact_map_[i]
  BY <1>1 DEF MapsInv, TypeOK
<1>8. UNCHANGED <<account2idx_map_, account_graph_, account_posts_, post2idx_map_,
                  idx2post_map_, post_interactions_>>
  BY DEF accountVars, postVars
<1>9. \A p \in D : /\ LedgerReceived[p] = Log(post_interactions_[post2idx_map_[p]], interact_map_)
                   /\ LedgerReceived'[p] = Log(post_interactions_[post2idx_map_[p]], interact_map_')
  BY <1>8, LedgerReads, LedgerReadsAfter
<1>10. \A p \in D : p # p0 => LedgerReceived'[p] = LedgerReceived[p]
  <2> SUFFICES ASSUME NEW p \in D, p # p0 PROVE LedgerReceived'[p] = LedgerReceived[p]
    OBVIOUS
  <2> DEFINE s == post_interactions_[post2idx_map_[p]]
  <2>1. s \in Seq(Ids) /\ \A k \in DOMAIN s : interact_map_'[s[k]] = interact_map_[s[k]]
    BY <1>5, <1>6, <1>7
  <2> HIDE DEF s
  <2>2. Log(s, interact_map_') = Log(s, interact_map_)
    BY <2>1, LogStays
  <2> QED
    BY <1>9, <2>2 DEF s
<1>11. /\ k0 \in DOMAIN LedgerReceived[p0]
       /\ LedgerReceived[p0][k0].user = NoUid
       /\ LedgerReceived'[p0] = [LedgerReceived[p0] EXCEPT ![k0].user = u]
  <2> DEFINE s == post_interactions_[q0]
  <2>1. s \in Seq(Ids) /\ k0 \in 1..Len(s) /\ s[k0] = id /\ DOMAIN s = 1..Len(s)
    BY <1>3, <1>4, <1>5
  <2>2. \A k \in 1..Len(s) : k # k0 => interact_map_'[s[k]] = interact_map_[s[k]]
    BY <1>4, <1>6, <1>7, <2>1
  <2>3. /\ LedgerReceived[p0] = Log(s, interact_map_)
        /\ LedgerReceived'[p0] = Log(s, interact_map_')
    BY <1>4, <1>9
  <2> HIDE DEF s
  <2>4. Log(s, interact_map_') = [Log(s, interact_map_) EXCEPT ![k0].user = u]
    <3> DEFINE l == Log(s, interact_map_)
               l2 == Log(s, interact_map_')
    <3>1. \A k \in 1..Len(s) : l[k] = [id |-> s[k], user |-> interact_map_[s[k]].userId]
      BY DEF Log
    <3>2. \A k \in 1..Len(s) : l2[k] = [id |-> s[k], user |-> interact_map_'[s[k]].userId]
      BY DEF Log
    <3>3. l = [k \in 1..Len(s) |-> l[k]] /\ l2 = [k \in 1..Len(s) |-> l2[k]]
      BY DEF Log
    <3> HIDE DEF l, l2
    <3>4. l2[k0] = [l[k0] EXCEPT !.user = u]
      <4>1. /\ l[k0] = [id |-> s[k0], user |-> interact_map_[s[k0]].userId]
            /\ l2[k0] = [id |-> s[k0], user |-> u]
        BY <1>7, <2>1, <3>1, <3>2
      <4> QED
        BY <4>1
    <3>5. \A k \in 1..Len(s) : k # k0 => l2[k] = l[k]
      <4> SUFFICES ASSUME NEW k \in 1..Len(s), k # k0 PROVE l2[k] = l[k]
        OBVIOUS
      <4>1. interact_map_'[s[k]].userId = interact_map_[s[k]].userId
        BY <2>2
      <4>2. /\ l[k] = [id |-> s[k], user |-> interact_map_[s[k]].userId]
            /\ l2[k] = [id |-> s[k], user |-> interact_map_'[s[k]].userId]
        BY <3>1, <3>2, Zenon
      <4> QED
        BY <4>1, <4>2, Zenon
    <3>6. l2 = [l EXCEPT ![k0] = [l[k0] EXCEPT !.user = u]]
      BY <3>3, <3>4, <3>5
    <3> QED
      BY <3>6 DEF l, l2
  <2>5. k0 \in DOMAIN Log(s, interact_map_) /\ Log(s, interact_map_)[k0].user = NoUid
    BY <2>1 DEF Log, UserOfInteract
  <2> QED
    BY <2>3, <2>4, <2>5
<1>12. LedgerReceived' = [LedgerReceived EXCEPT ![p0][k0].user = u]
  <2>1. LedgerReceived = [p \in D |-> LedgerReceived[p]] /\ LedgerReceived' = [p \in D |-> LedgerReceived'[p]]
    BY <1>8, LedgerShapes
  <2>2. LedgerReceived' = [LedgerReceived EXCEPT ![p0] = [LedgerReceived[p0] EXCEPT ![k0].user = u]]
    BY <1>10, <1>11, <2>1
  <2> QED
    BY <2>2
<1>13. LedgerAuthor' = LedgerAuthor /\ LedgerMissed' = LedgerMissed
  BY <1>8 DEF LedgerAuthor, LedgerMissed, PostInfo, TotalTimes, Slots, Entries, Edge, Accounts
<1>14. Ledger!Identify(p0, k0, u)
  BY <1>8, <1>11, <1>12, <1>13 DEF Ledger!Identify
<1>15. p0 \in DOMAIN LedgerReceived
  BY LedgerShapes
<1> QED
  BY <1>11, <1>14, <1>15 DEF Ledger!LNext

LEMMA StepIsLedger ==
  ASSUME LedgerInv, LedgerInv', [Next]_vars
  PROVE  [Ledger!LNext]_(Ledger!lvars)
<1> USE FeedAssumption DEF FeedAssumption
<1>0. MapsInv /\ MapsInv' /\ KeysStay
  BY StepKeepsKeys DEF LedgerInv
<1>1. CASE \E e \in AccountFeed, replace \in BOOLEAN : AddAccount(e.user, e.data, replace)
  BY <1>0, <1>1, AddAccountIsLedger
<1>2. CASE \E e \in PostFeed, replace \in BOOLEAN :
             e.user \in Users /\ AddPost(e.post, e.user, e.data, replace)
  <2>1. PICK e \in PostFeed, replace \in BOOLEAN :
          e.user \in Users /\ AddPost(e.post, e.user, e.data, replace)
    BY <1>2
  <2>2. e.post \in Ids /\ e.data \in Data
    OBVIOUS
  <2> QED
    BY <1>0, <2>1, <2>2, AddPostIsLedger
<1>3. CASE \E e \in PostFeed, replace \in BOOLEAN :
             e.user = BadUser /\ AddPostThrows(e.post, replace)
  <2>1. PICK e \in PostFeed, replace \in BOOLEAN : AddPostThrows(e.post, replace)
    BY <1>3
  <2>2. e.post \in Ids
    OBVIOUS
  <2> QED
    BY <1>0, <2>1, <2>2, PlaceholderIsHeard DEF AddPostThrows
<1>4. CASE \E p \in Ids, replace \in BOOLEAN : BeginInteractions(p, replace)
  BY <1>0, <1>4, PlaceholderIsHeard DEF BeginInteractions
<1>5. CASE \E t \in ITypes, id \in Ids, u \in Users :
             call \in Calls /\ NewInteraction(t, id, u)
  BY <1>0, <1>5, NewInteractionIsLedger
<1>6. CASE UNCHANGED <<accountVars, postVars, interact_map_>>
  <2>1. InteractionsQuiet /\ EdgesQuiet /\ AccountsGrow
    <3>1. DOMAIN account_graph_ = Accounts
      BY <1>0 DEF MapsInv, MapsAgree, AccountMaps, Accounts
    <3> QED
      BY <1>6, <3>1, UnchangedSlots, ListsUntouched DEF postVars
  <2>2. UNCHANGED <<post2idx_map_, idx2post_map_, account2idx_map_>>
    BY <1>6 DEF postVars, accountVars
  <2>3. LedgerAuthor' = LedgerAuthor
    BY <1>0, <2>2, AuthorsUnchanged
  <2>4. LedgerReceived' = LedgerReceived /\ LedgerMissed' = LedgerMissed
    BY <1>0, <1>6, <2>1, <2>2, QuietMaps DEF InteractionsStay
  <2> QED
    BY <2>2, <2>3, <2>4 DEF Ledger!lvars
<1>7. ASSUME NEW t \in ITypes, NEW id \in Ids, NEW u \in Users, KnownInteraction(t, id, u)
      PROVE  [Ledger!LNext]_(Ledger!lvars)
  <2>1. CASE interact_map_' = interact_map_
    BY <1>6, <1>7, <2>1 DEF KnownInteraction
  <2>2. CASE interact_map_' # interact_map_
    <3>1. /\ id \in DOMAIN interact_map_ /\ UserOfInteract(id) = NoUid
          /\ interact_map_' = [interact_map_ EXCEPT ![id].userId = u]
          /\ UNCHANGED <<accountVars, postVars>>
      BY <1>7, <2>2 DEF KnownInteraction, HasInteract, UserOfInteract
    <3> QED
      BY <3>1, IdentifiesUser
  <2> QED
    BY <2>1, <2>2
<1> QED
  BY <1>1, <1>2, <1>3, <1>4, <1>5, <1>6, <1>7
  DEF Next, AddInteraction, EndInteractions, vars

LEMMA InitIsLedger == Init => LedgerInv /\ Ledger!LInit
<1> SUFFICES ASSUME Init PROVE LedgerInv /\ Ledger!LInit
  OBVIOUS
<1>1. /\ Accounts = {} /\ Posts = {} /\ DOMAIN interact_map_ = {}
      /\ DOMAIN account2idx_map_ = {} /\ DOMAIN post2idx_map_ = {}
  BY DEF Init, EmptyMap, Accounts, Posts
<1>2. LedgerInv
  BY <1>1, InitMaps DEF LedgerInv, InteractionsListedOnce, EdgesLeaveAuthor, SlotsFinite
<1>3. /\ LedgerAuthor = [p \in {} |-> NoUid]
      /\ LedgerReceived = [p \in {} |-> <<>>]
      /\ LedgerMissed = [p \in {} |-> 0]
  <2>1. LedgerAuthor = [p \in {} |-> NoUid]
    BY <1>1, LedgerShapes
  <2>2. LedgerReceived = [p \in {} |-> <<>>]
    BY <1>1, LedgerShapes
  <2>3. LedgerMissed = [p \in {} |-> 0]
    BY <1>1, LedgerShapes
  <2> QED
    BY <2>1, <2>2, <2>3
<1> QED
  BY <1>1, <1>2, <1>3 DEF Ledger!LInit

(***************************************************************************)
(* The store implements the ledger, for every set of users and ids and     *)
(* every feed: whatever is loaded in whatever order, each step is one      *)
(* ledger step or none, and the account graph holds exactly what was not   *)
(* missed.                                                                 *)
(***************************************************************************)
THEOREM StoreImplementsLedger == Spec => ImplementsLedger
<1>1. Init => LedgerInv /\ Ledger!LInit
  BY InitIsLedger
<1>2. LedgerInv /\ [Next]_vars => LedgerInv'
  BY NextKeepsLedger
<1>3. LedgerInv /\ LedgerInv' /\ [Next]_vars => [Ledger!LNext]_(Ledger!lvars)
  BY StepIsLedger
<1> QED
  BY <1>1, <1>2, <1>3, PTL DEF Spec, ImplementsLedger, Ledger!LSpec

-----------------------------------------------------------------------------
(***************************************************************************)
(* Why no assertion fails on files that agree: each author the store holds *)
(* was named by some file for that post, each interaction's user by some   *)
(* file for that interaction.                                              *)
(***************************************************************************)
AuthorsNamed ==
  \A q \in DOMAIN idx2post_map_ :
    AuthorOf(q) # NoUid => NamesAuthor(idx2post_map_[q].post_id, AuthorOf(q))
UsersNamed == \A id \in DOMAIN interact_map_ : NamesUser(id, UserOfInteract(id))

NamedInv == MapsInv /\ AuthorsNamed /\ UsersNamed /\ NeverAborts

(* A post is registered, with a named author or without one.               *)
LEMMA RegisteredNamed ==
  ASSUME MapsInv, AuthorsNamed, NEW p \in Ids, ~HasPost(p),
         NEW info \in [userId : Users \cup {NoUid}, post_id : Ids, data : Data \cup {NoData}],
         info.post_id = p, RegisterPost(p, info),
         info.userId # NoUid => NamesAuthor(p, info.userId)
  PROVE  AuthorsNamed'
<1>1. /\ DOMAIN idx2post_map_' = DOMAIN idx2post_map_ \cup {num_posts}
      /\ idx2post_map_'[num_posts] = info
      /\ \A q \in DOMAIN idx2post_map_ : idx2post_map_'[q] = idx2post_map_[q]
  BY RegisterPostFacts
<1>2. NamesAuthor(p, info.userId)' <=> NamesAuthor(p, info.userId)
  BY DEF NamesAuthor
<1>3. ASSUME NEW q \in DOMAIN idx2post_map_', idx2post_map_'[q].userId # NoUid
      PROVE  NamesAuthor(idx2post_map_'[q].post_id, idx2post_map_'[q].userId)
  BY <1>1, <1>3 DEF AuthorsNamed, AuthorOf
<1> QED
  BY <1>3 DEF AuthorsNamed, AuthorOf, NamesAuthor

(* The placeholder of an unknown post has no author.                       *)
LEMMA PlaceholderNamed ==
  ASSUME MapsInv, AuthorsNamed, NEW p \in Ids,
         IF HasPost(p) THEN UNCHANGED postVars ELSE RegisterPost(p, NewPost(p, NoUid))
  PROVE  AuthorsNamed'
<1>1. CASE HasPost(p)
  BY <1>1 DEF AuthorsNamed, AuthorOf, NamesAuthor, postVars
<1>2. CASE ~HasPost(p)
  <2> DEFINE info == NewPost(p, NoUid)
  <2>1. /\ info \in [userId : Users \cup {NoUid}, post_id : Ids, data : Data \cup {NoData}]
        /\ info.post_id = p /\ info.userId = NoUid
    BY DEF NewPost
  <2>2. RegisterPost(p, info)
    BY <1>2
  <2> HIDE DEF info
  <2> QED
    BY <1>2, <2>1, <2>2, RegisteredNamed
<1> QED
  BY <1>1, <1>2

(***************************************************************************)
(* AddPost_ of an element [p, u] of a post file: the author it may write   *)
(* is named by that element, and it can abort only when the store holds    *)
(* another author than u for p.                                            *)
(***************************************************************************)
LEMMA AddPostNamed ==
  ASSUME MapsInv, AuthorsNamed, NEW p \in Ids, NEW u \in Users, NEW d \in Data,
         NEW replace \in BOOLEAN, NamesAuthor(p, u), AddPost(p, u, d, replace)
  PROVE  /\ AuthorsNamed'
         /\ \/ UNCHANGED call
            \/ HasPost(p) /\ ~AuthorUnknown(p) /\ PostInfo(p).userId # u
<1> SUFFICES AuthorsNamed'
  BY DEF AddPost
<1>1. /\ HasPost(p) => /\ post2idx_map_[p] \in DOMAIN idx2post_map_
                       /\ PostInfo(p).post_id = p
      /\ \A q \in DOMAIN idx2post_map_ : idx2post_map_[q] \in
           [userId : Users \cup {NoUid}, post_id : Ids, data : Data \cup {NoData}]
  <2>1. PostMaps /\ PostTypeOK
    BY DEF MapsInv, MapsAgree, TypeOK
  <2> QED
    BY <2>1 DEF PostMaps, PostTypeOK, HasPost
<1>2. CASE UNCHANGED postVars
  BY <1>2 DEF AuthorsNamed, AuthorOf, NamesAuthor, postVars
<1>3. CASE ~HasPost(p) /\ RegisterPost(p, [NewPost(p, u) EXCEPT !.data = d])
  <2> DEFINE info == [NewPost(p, u) EXCEPT !.data = d]
  <2>1. /\ info \in [userId : Users \cup {NoUid}, post_id : Ids, data : Data \cup {NoData}]
        /\ info.post_id = p /\ info.userId = u
    BY DEF NewPost
  <2>2. RegisterPost(p, info)
    BY <1>3
  <2> HIDE DEF info
  <2> QED
    BY <1>3, <2>1, <2>2, RegisteredNamed
<1>4. CASE /\ HasPost(p)
           /\ idx2post_map_' = [idx2post_map_ EXCEPT
                  ![post2idx_map_[p]] = [@ EXCEPT !.userId = u, !.data = d]]
  <2>1. ASSUME NEW q \in DOMAIN idx2post_map_', idx2post_map_'[q].userId # NoUid
        PROVE  NamesAuthor(idx2post_map_'[q].post_id, idx2post_map_'[q].userId)
    <3>1. CASE q = post2idx_map_[p]
      <4>1. idx2post_map_'[q].post_id = p /\ idx2post_map_'[q].userId = u
        BY <1>1, <1>4, <3>1 DEF PostInfo
      <4> QED
        BY <4>1
    <3>2. CASE q # post2idx_map_[p]
      BY <1>4, <2>1, <3>2 DEF AuthorsNamed, AuthorOf
    <3> QED
      BY <3>1, <3>2
  <2> QED
    BY <2>1 DEF AuthorsNamed, AuthorOf, NamesAuthor
<1>5. CASE /\ HasPost(p)
           /\ idx2post_map_' = [idx2post_map_ EXCEPT ![post2idx_map_[p]].data = d]
  <2>1. /\ DOMAIN idx2post_map_' = DOMAIN idx2post_map_
        /\ \A q \in DOMAIN idx2post_map_ :
             /\ idx2post_map_'[q].userId = idx2post_map_[q].userId
             /\ idx2post_map_'[q].post_id = idx2post_map_[q].post_id
    BY <1>1, <1>5
  <2> QED
    BY <2>1 DEF AuthorsNamed, AuthorOf, NamesAuthor
<1> QED
  BY <1>2, <1>3, <1>4, <1>5 DEF AddPost, postVars

(***************************************************************************)
(* AddInteraction_ of a new id: its user, and the author of the post it    *)
(* may create, are named by the element itself.                            *)
(***************************************************************************)
LEMMA NewInteractionNamed ==
  ASSUME MapsInv, AuthorsNamed, UsersNamed, NEW t \in ITypes, NEW id \in Ids, NEW u \in Users,
         call \in Calls, NamesUser(id, u), t \in {FORWARD, QUOTE} => NamesAuthor(id, u),
         NewInteraction(t, id, u)
  PROVE  AuthorsNamed' /\ UsersNamed' /\ call' \in Calls
<1>1. UsersNamed'
  BY DEF NewInteraction, UsersNamed, UserOfInteract, NamesUser, Put
<1>2. call' \in Calls
  BY DEF NewInteraction, Calls
<1> SUFFICES AuthorsNamed'
  BY <1>1, <1>2
<1>3. num_posts \notin DOMAIN idx2post_map_
  BY FS_CardinalityType DEF num_posts, MapsInv, FiniteMaps, MapsAgree, PostMaps
<1>4. CASE /\ t \in {FORWARD, QUOTE} /\ idx2post_map_' = Put(idx2post_map_, num_posts, NewPost(id, u))
  <2>1. ASSUME NEW q \in DOMAIN idx2post_map_', idx2post_map_'[q].userId # NoUid
        PROVE  NamesAuthor(idx2post_map_'[q].post_id, idx2post_map_'[q].userId)
    <3>1. CASE q = num_posts
      <4>1. idx2post_map_'[q].post_id = id /\ idx2post_map_'[q].userId = u
        BY <1>4, <3>1 DEF Put, NewPost
      <4> QED
        BY <1>4, <4>1
    <3>2. CASE q # num_posts
      BY <1>4, <2>1, <3>2 DEF AuthorsNamed, AuthorOf, Put
    <3> QED
      BY <3>1, <3>2
  <2> QED
    BY <2>1 DEF AuthorsNamed, AuthorOf, NamesAuthor
<1>5. CASE UNCHANGED idx2post_map_
  BY <1>5 DEF AuthorsNamed, AuthorOf, NamesAuthor
<1> QED
  BY <1>4, <1>5 DEF NewInteraction

LEMMA NextKeepsNamed ==
  ASSUME FeedsAgree, NamedInv, [Next]_vars
  PROVE  NamedInv'
<1> USE FeedAssumption DEF FeedAssumption
<1>0. MapsInv /\ MapsInv' /\ AuthorsNamed /\ UsersNamed /\ call # Aborted
  BY NextKeepsMaps DEF NamedInv, NeverAborts
<1>1. CASE \E e \in AccountFeed, replace \in BOOLEAN : AddAccount(e.user, e.data, replace)
  BY <1>0, <1>1 DEF AddAccount, NamedInv, AuthorsNamed, AuthorOf, NamesAuthor, UsersNamed,
     UserOfInteract, NamesUser, NeverAborts, postVars
<1>2. CASE \E e \in PostFeed, replace \in BOOLEAN :
             e.user \in Users /\ AddPost(e.post, e.user, e.data, replace)
  <2>1. PICK e \in PostFeed, replace \in BOOLEAN :
          e.user \in Users /\ AddPost(e.post, e.user, e.data, replace)
    BY <1>2
  <2>2. e.post \in Ids /\ e.data \in Data
    OBVIOUS
  <2>3. NamesAuthor(e.post, e.user)
    BY DEF NamesAuthor
  <2>4. /\ AuthorsNamed'
        /\ \/ UNCHANGED call
           \/ /\ HasPost(e.post) /\ ~AuthorUnknown(e.post)
              /\ PostInfo(e.post).userId # e.user
    BY <1>0, <2>1, <2>2, <2>3, AddPostNamed
  <2>5. HasPost(e.post) /\ ~AuthorUnknown(e.post) => PostInfo(e.post).userId = e.user
    <3> SUFFICES ASSUME HasPost(e.post), ~AuthorUnknown(e.post)
                 PROVE  PostInfo(e.post).userId = e.user
      OBVIOUS
    <3> DEFINE q == post2idx_map_[e.post]
    <3>1. q \in DOMAIN idx2post_map_ /\ idx2post_map_[q].post_id = e.post
      <4>1. PostMaps
        BY <1>0 DEF MapsInv, MapsAgree
      <4> QED
        BY <4>1 DEF PostMaps, PostInfo, HasPost
    <3>2. AuthorOf(q) # NoUid /\ AuthorOf(q) = PostInfo(e.post).userId
      BY DEF AuthorUnknown, PostInfo, AuthorOf
    <3>3. AuthorOf(q) \in Users
      BY <1>0, <3>1, <3>2 DEF MapsInv, TypeOK, PostTypeOK, AuthorOf
    <3>4. NamesAuthor(e.post, AuthorOf(q))
      BY <1>0, <3>1, <3>2 DEF AuthorsNamed
    <3> QED
      BY <2>1, <2>2, <2>3, <3>2, <3>3, <3>4 DEF FeedsAgree
  <2>6. UNCHANGED call /\ UNCHANGED interact_map_
    BY <2>1, <2>4, <2>5 DEF AddPost
  <2> QED
    BY <1>0, <2>4, <2>6 DEF NamedInv, NeverAborts, UsersNamed, UserOfInteract, NamesUser
<1>3. CASE \E e \in PostFeed, replace \in BOOLEAN :
             e.user = BadUser /\ AddPostThrows(e.post, replace)
  <2>1. PICK e \in PostFeed, replace \in BOOLEAN : AddPostThrows(e.post, replace)
    BY <1>3
  <2>2. e.post \in Ids
    OBVIOUS
  <2>3. AuthorsNamed'
    BY <1>0, <2>1, <2>2, PlaceholderNamed DEF AddPostThrows
  <2> QED
    BY <1>0, <2>1, <2>3 DEF AddPostThrows, NamedInv, NeverAborts, UsersNamed, UserOfInteract,
       NamesUser
<1>4. CASE \E p \in Ids, replace \in BOOLEAN : BeginInteractions(p, replace)
  <2>1. PICK p \in Ids, replace \in BOOLEAN : BeginInteractions(p, replace)
    BY <1>4
  <2>2. AuthorsNamed'
    BY <1>0, <2>1, PlaceholderNamed DEF BeginInteractions
  <2>3. call' # Aborted
    BY <2>1, CallAssumption DEF BeginInteractions, CallAssumption, Calls, ITypes
  <2> QED
    BY <1>0, <2>1, <2>2, <2>3 DEF BeginInteractions, NamedInv, NeverAborts, UsersNamed,
       UserOfInteract, NamesUser
<1>5. CASE \E t \in ITypes, id \in Ids, u \in Users : AddInteraction(t, id, u)
  <2>1. PICK t \in ITypes, id \in Ids, u \in Users : AddInteraction(t, id, u)
    BY <1>5
  <2>2. call \in Calls /\ [post |-> call.post, itype |-> t, id |-> id, user |-> u] \in InteractFeed
    BY <2>1 DEF AddInteraction
  <2>3. NamesUser(id, u) /\ (t \in {FORWARD, QUOTE} => NamesAuthor(id, u))
    BY <2>2 DEF NamesUser, NamesAuthor
  <2>4. CASE NewInteraction(t, id, u)
    <3>1. AuthorsNamed' /\ UsersNamed' /\ call' \in Calls
      BY <1>0, <2>2, <2>3, <2>4, NewInteractionNamed
    <3> QED
      BY <1>0, <3>1, CallAssumption DEF NamedInv, NeverAborts, CallAssumption
  <2>5. CASE KnownInteraction(t, id, u)
    <3>1. interact_map_[id].userId = u
      <4>1. NamesUser(id, interact_map_[id].userId)
        BY <1>0, <2>5 DEF KnownInteraction, HasInteract, UsersNamed, UserOfInteract
      <4>2. interact_map_[id].userId \in Users
        BY <1>0, <2>5 DEF KnownInteraction, HasInteract, MapsInv, TypeOK
      <4> QED
        BY <2>3, <4>1, <4>2 DEF FeedsAgree
    <3>2. call' \in Calls
      BY <2>2, <2>5, <3>1 DEF KnownInteraction, Calls
    <3>3. /\ UNCHANGED postVars /\ DOMAIN interact_map_' = DOMAIN interact_map_
          /\ \A i \in DOMAIN interact_map_ : interact_map_'[i].userId = interact_map_[i].userId
      <4>1. interact_map_ \in [DOMAIN interact_map_ -> [itype : ITypes, userId : Users]]
        BY <1>0 DEF MapsInv, TypeOK
      <4> QED
        BY <2>5, <3>1, <4>1 DEF KnownInteraction
    <3>4. AuthorsNamed'
      BY <1>0, <3>3 DEF AuthorsNamed, AuthorOf, NamesAuthor, postVars
    <3>5. UsersNamed'
      BY <1>0, <3>3 DEF UsersNamed, UserOfInteract, NamesUser
    <3> QED
      BY <1>0, <3>2, <3>4, <3>5, CallAssumption DEF NamedInv, NeverAborts, CallAssumption
  <2> QED
    BY <2>1, <2>4, <2>5 DEF AddInteraction
<1>6. CASE EndInteractions \/ UNCHANGED vars
  <2>1. UNCHANGED <<idx2post_map_, interact_map_>> /\ call' # Aborted
    BY <1>0, <1>6, CallAssumption DEF EndInteractions, vars, postVars, CallAssumption
  <2> QED
    BY <1>0, <2>1 DEF NamedInv, NeverAborts, AuthorsNamed, AuthorOf,
       NamesAuthor, UsersNamed, UserOfInteract, NamesUser
<1> QED
  BY <1>1, <1>2, <1>3, <1>4, <1>5, <1>6 DEF Next

(***************************************************************************)
(* In a Debug build too, no assert(info->userId == uid) fails while the    *)
(* files agree on each post's author and each interaction's user, whatever *)
(* the order of the calls and their replace flags.                         *)
(***************************************************************************)
THEOREM AgreeingFilesNeverAbort ==
  ASSUME FeedsAgree
  PROVE  Spec => []NeverAborts
<1>1. Init => NamedInv
  BY InitMaps, CallAssumption
  DEF Init, NamedInv, AuthorsNamed, UsersNamed, NeverAborts, EmptyMap, CallAssumption
<1>2. NamedInv /\ [Next]_vars => NamedInv'
  BY NextKeepsNamed
<1>3. NamedInv => NeverAborts
  BY DEF NamedInv
<1> QED
  BY <1>1, <1>2, <1>3, PTL DEF Spec
=============================================================================
