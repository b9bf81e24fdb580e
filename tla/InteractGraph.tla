---------------------------- MODULE InteractGraph ----------------------------
(***************************************************************************)
(* The in-memory store class InteractGraph (include/interact_graph.hpp):   *)
(* accounts, posts and interactions loaded from JSON arrays, the two-way   *)
(* id/index maps, the per-account and per-post lists, and the account      *)
(* graph that the queries and LouvainCommunity read.                       *)
(*                                                                         *)
(* One action is one element of a JSON array handed to AddAccounts,        *)
(* AddPosts or AddInteractions.  An element of AddInteractions holds three *)
(* lists of arbitrary length; `call' remembers the element being processed *)
(* and each of its interactions is one step.  A call that throws or        *)
(* returns between two steps leaves exactly the state of that point.       *)
(*                                                                         *)
(* C++ vectors are functions on 0..size-1 and hash maps are functions on   *)
(* the set of their keys; their names are those of the source.  The JSON   *)
(* kept in AccountInfo::data and PostInfo::data is a member of Data;       *)
(* InteractInfo::data is never assigned by the code and has no variable.   *)
(***************************************************************************)
EXTENDS Integers, Sequences, FiniteSets

CONSTANTS
  Users,          \* the userIds; NoUid may be one of them
  NoUid,          \* the empty string, which the code reads as "author unknown"
  BadUser,        \* a "userId" that is not a string: its conversion throws
  Ids,            \* post ids and interaction ids (a forward's id is both)
  Data, NoData,   \* stored JSON objects, and json null
  AccountFeed,    \* the [user, data] elements account files may hold
  PostFeed,       \* the [post, user, data] elements post files may hold
  InteractFeed,   \* the [post, itype, id, user] interactions files may hold
  MaxListed,      \* bound on the repeated posts on the list of the account ""
  NDEBUG,         \* TRUE in the default Release build: assert() is compiled out
  Idle, Aborted   \* values of call: no call is running / abort() was called

\* enum class interact_t
FORWARD == 0
QUOTE   == 1
COMMENT == 2
ITypes  == {FORWARD, QUOTE, COMMENT}

ASSUME FeedAssumption ==
  /\ BadUser \notin Users
  /\ MaxListed \in Nat
  /\ NDEBUG \in BOOLEAN
  /\ AccountFeed \subseteq [user : Users, data : Data]
  /\ PostFeed \subseteq [post : Ids, user : Users \cup {BadUser}, data : Data]
  /\ InteractFeed \subseteq [post : Ids, itype : ITypes, id : Ids, user : Users]

Calls == [post : Ids, itype : ITypes, replace : BOOLEAN]

ASSUME CallAssumption ==
  /\ Idle \notin Calls
  /\ Aborted \notin Calls
  /\ Idle # Aborted

VARIABLES
  account2idx_map_, idx2account_map_, account_posts_, account_graph_,
  post2idx_map_, idx2post_map_, post_interactions_,
  interact_map_,
  call

accountVars == <<account2idx_map_, idx2account_map_, account_posts_, account_graph_>>
postVars    == <<post2idx_map_, idx2post_map_, post_interactions_>>
vars        == <<accountVars, postVars, interact_map_, call>>

-----------------------------------------------------------------------------
(* Insertion of a key in a map, or push_back when k is the vector's size.  *)
Put(f, k, v) == [x \in DOMAIN f \cup {k} |-> IF x = k THEN v ELSE f[x]]

EmptyMap == [x \in {} |-> x]

num_accounts == Cardinality(DOMAIN account2idx_map_)
num_posts_BUG == Cardinality(DOMAIN post2idx_map_) + 1
num_posts    == Cardinality(DOMAIN post2idx_map_)

HasAccount(u) == u \in DOMAIN account2idx_map_
HasPost(p)    == p \in DOMAIN post2idx_map_
HasInteract_BUG(i) == FALSE
HasInteract(i) == i \in DOMAIN interact_map_

PostInfo(p)   == idx2post_map_[post2idx_map_[p]]
UserOfIdx(a)  == idx2account_map_[a].userId

AuthorUnknown_BUG(p) == TRUE
AuthorUnknown_BUG2(p) == FALSE
AuthorUnknown(p) == PostInfo(p).userId = NoUid

(***************************************************************************)
(* AddAccount_(u, nullptr, false), called from inside the other handlers:  *)
(* the value each account map and vector has after it.                     *)
(***************************************************************************)
IdxWith(u) == IF HasAccount(u) THEN account2idx_map_[u] ELSE num_accounts

Account2IdxWith(u) ==
  IF HasAccount(u) THEN account2idx_map_ ELSE Put(account2idx_map_, u, num_accounts)

Idx2AccountWith(u) ==
  IF HasAccount(u) THEN idx2account_map_
  ELSE Put(idx2account_map_, num_accounts, [userId |-> u, data |-> NoData])

AccountPostsWith(u) ==
  IF HasAccount(u) THEN account_posts_ ELSE Put(account_posts_, num_accounts, <<>>)

AccountGraphWith_BUG(u) ==
  IF HasAccount(u) THEN [account_graph_ EXCEPT ![account2idx_map_[u]] = EmptyMap]
  ELSE Put(account_graph_, num_accounts, EmptyMap)

AccountGraphWith(u) ==
  IF HasAccount(u) THEN account_graph_ ELSE Put(account_graph_, num_accounts, EmptyMap)

(* The author-less, data-less post that AddPost_ registers for an unknown id. *)
NewPost(p, author) == [userId |-> author, post_id |-> p, data |-> NoData]

(***************************************************************************)
(* account_graph_[src][dst].push_back(post_idx), creating the entry for    *)
(* dst when src has none.                                                  *)
(***************************************************************************)
AddEdge_BUG(graph, src, dst, pidx) ==
  LET old == IF src \in DOMAIN graph[dst] THEN graph[dst][src] ELSE <<>>
  IN  [graph EXCEPT ![dst] = Put(@, src, Append(old, pidx))]

AddEdge_BUG2(graph, src, dst, pidx) ==
  LET old == IF dst \in DOMAIN graph[src] THEN graph[src][dst] ELSE <<pidx>>
  IN  [graph EXCEPT ![src] = Put(@, dst, Append(old, pidx))]

AddEdge(graph, src, dst, pidx) ==
  LET old == IF dst \in DOMAIN graph[src] THEN graph[src][dst] ELSE <<>>
  IN  [graph EXCEPT ![src] = Put(@, dst, Append(old, pidx))]

-----------------------------------------------------------------------------
Init ==
  /\ account2idx_map_ = EmptyMap
  /\ idx2account_map_ = EmptyMap
  /\ account_posts_ = EmptyMap
  /\ account_graph_ = EmptyMap
  /\ post2idx_map_ = EmptyMap
  /\ idx2post_map_ = EmptyMap
  /\ post_interactions_ = EmptyMap
  /\ interact_map_ = EmptyMap
  /\ call = Idle

(* One element of AddAccounts: AddAccount_(json, replace).                 *)
AddAccount(u, d, replace) ==
  /\ call = Idle
  /\ IF HasAccount(u) /\ ~replace
       THEN UNCHANGED accountVars
       ELSE /\ account2idx_map_' = Account2IdxWith(u)
            /\ idx2account_map_' = [Idx2AccountWith(u) EXCEPT ![IdxWith(u)].data = d]
            /\ account_posts_' = AccountPostsWith(u)
            /\ account_graph_' = AccountGraphWith(u)
  /\ UNCHANGED <<postVars, interact_map_, call>>

(***************************************************************************)
(* The head of AddPost_: an unknown post gets the next index, its info and *)
(* an empty interaction list.                                              *)
(***************************************************************************)
RegisterPost(p, info) ==
  /\ post2idx_map_' = Put(post2idx_map_, p, num_posts)
  /\ idx2post_map_' = Put(idx2post_map_, num_posts, info)
  /\ post_interactions_' = Put(post_interactions_, num_posts, <<>>)

(* One element of AddPosts whose userId is a string.  A known post is left *)
(* alone unless replace is set; a post without an author gets one now.  An *)
(* empty userId is none: the account "" lists the post, each time again.   *)
AddPost(p, u, d, replace) ==
  /\ call = Idle
  /\ \/ /\ HasPost(p) /\ ~replace
        /\ UNCHANGED <<accountVars, postVars, call>>
     \/ /\ ~HasPost(p)
        /\ RegisterPost(p, [NewPost(p, u) EXCEPT !.data = d])
        /\ account2idx_map_' = Account2IdxWith(u)
        /\ idx2account_map_' = Idx2AccountWith(u)
        /\ account_posts_' = [AccountPostsWith(u) EXCEPT ![IdxWith(u)] = Append(@, num_posts)]
        /\ account_graph_' = AccountGraphWith(u)
        /\ UNCHANGED call
     \/ /\ HasPost(p) /\ replace /\ AuthorUnknown(p)
        /\ u = NoUid => Len(AccountPostsWith(u)[IdxWith(u)]) < MaxListed
        /\ idx2post_map_' = [idx2post_map_ EXCEPT
               ![post2idx_map_[p]] = [@ EXCEPT !.userId = u, !.data = d]]
        /\ account2idx_map_' = Account2IdxWith(u)
        /\ idx2account_map_' = Idx2AccountWith(u)
        /\ account_posts_' = [AccountPostsWith(u) EXCEPT
               ![IdxWith(u)] = Append(@, post2idx_map_[p])]
        /\ account_graph_' = AccountGraphWith(u)
        /\ UNCHANGED <<post2idx_map_, post_interactions_, call>>
     \/ /\ HasPost(p) /\ replace /\ ~AuthorUnknown(p)
        /\ PostInfo(p).userId = u \/ NDEBUG
        /\ idx2post_map_' = [idx2post_map_ EXCEPT ![post2idx_map_[p]].data = d]
        /\ account2idx_map_' = Account2IdxWith(u)
        /\ idx2account_map_' = Idx2AccountWith(u)
        /\ account_posts_' = AccountPostsWith(u)
        /\ account_graph_' = AccountGraphWith(u)
        /\ UNCHANGED <<post2idx_map_, post_interactions_, call>>
     \/ /\ HasPost(p) /\ replace
        /\ ~AuthorUnknown(p) /\ PostInfo(p).userId # u /\ ~NDEBUG
        /\ call' = Aborted
        /\ UNCHANGED <<accountVars, postVars>>
  /\ UNCHANGED interact_map_

(* One element of AddPosts whose userId is not a string: the post is       *)
(* registered, then reading the userId throws out of AddPosts.             *)
AddPostThrows(p, replace) ==
  /\ call = Idle
  /\ IF HasPost(p) THEN UNCHANGED postVars ELSE RegisterPost(p, NewPost(p, NoUid))
  /\ UNCHANGED <<accountVars, interact_map_, call>>

(* The start of an element of AddInteractions: AddPost_(id, nullptr, false, ""). *)
BeginInteractions(p, replace) ==
  /\ call = Idle
  /\ IF HasPost(p) THEN UNCHANGED postVars ELSE RegisterPost(p, NewPost(p, NoUid))
  /\ call' = [post |-> p, itype |-> FORWARD, replace |-> replace]
  /\ UNCHANGED <<accountVars, interact_map_>>

(* AddInteraction_ for an id that is not stored yet.  A forward or a quote  *)
(* also creates the post of the same id, authored by the interacting user, *)
(* or only its placeholder when the user_id is empty; the account graph    *)
(* gets an entry only if the author of the post interacted with is known.  *)
NewInteraction(t, id, u) ==
  LET dst      == IdxWith(u)
      creates  == t \in {FORWARD, QUOTE} /\ ~HasPost(id)
      pidx     == post2idx_map_[call.post]
      src_uid  == idx2post_map_[pidx].userId
  IN
  /\ ~HasInteract(id)
  /\ account2idx_map_' = Account2IdxWith(u)
  /\ idx2account_map_' = Idx2AccountWith(u)
  /\ account_posts_' = IF creates /\ u # NoUid
                         THEN [AccountPostsWith(u) EXCEPT ![dst] = Append(@, num_posts)]
                         ELSE AccountPostsWith(u)
  /\ IF creates
       THEN /\ post2idx_map_' = Put(post2idx_map_, id, num_posts)
            /\ idx2post_map_' = Put(idx2post_map_, num_posts, NewPost(id, u))
            /\ post_interactions_' =
                 Put([post_interactions_ EXCEPT ![pidx] = Append(@, id)], num_posts, <<>>)
       ELSE /\ post_interactions_' = [post_interactions_ EXCEPT ![pidx] = Append(@, id)]
            /\ UNCHANGED <<post2idx_map_, idx2post_map_>>
  /\ interact_map_' = Put(interact_map_, id, [itype |-> t, userId |-> u])
  /\ account_graph_' = IF src_uid = NoUid
                         THEN AccountGraphWith(u)
                         ELSE AddEdge(AccountGraphWith(u), account2idx_map_[src_uid], dst, pidx)
  /\ call' = [call EXCEPT !.itype = t]

(* AddInteraction_ for a stored id.  When the call replaces, an interaction *)
(* that was stored with an empty user_id gets the new one, whose account   *)
(* need not exist; otherwise a Debug build checks that the user is still   *)
(* the same, and nothing is kept of the new element.                       *)
KnownInteraction_BUG(t, id, u) ==
  /\ HasInteract(id)
  /\ call' = [call EXCEPT !.itype = t]
  /\ interact_map_' = IF call.replace THEN [interact_map_ EXCEPT ![id].userId = u] ELSE interact_map_
  /\ UNCHANGED <<accountVars, postVars>>

KnownInteraction(t, id, u) ==
  /\ HasInteract(id)
  /\ LET user == interact_map_[id].userId
     IN  /\ call' = IF call.replace /\ user \notin {NoUid, u} /\ ~NDEBUG
                      THEN Aborted ELSE [call EXCEPT !.itype = t]
         /\ interact_map_' = IF call.replace /\ user = NoUid
                               THEN [interact_map_ EXCEPT ![id].userId = u] ELSE interact_map_
  /\ UNCHANGED <<accountVars, postVars>>

AddInteraction(t, id, u) ==
  /\ call \in Calls
  /\ t >= call.itype         \* the forward list, then quote, then comment
  /\ [post |-> call.post, itype |-> t, id |-> id, user |-> u] \in InteractFeed
  /\ NewInteraction(t, id, u) \/ KnownInteraction(t, id, u)

EndInteractions ==
  /\ call \in Calls
  /\ call' = Idle
  /\ UNCHANGED <<accountVars, postVars, interact_map_>>

Next ==
  \/ \E e \in AccountFeed, replace \in BOOLEAN : AddAccount(e.user, e.data, replace)
  \/ \E e \in PostFeed, replace \in BOOLEAN :
        /\ e.user \in Users
        /\ AddPost(e.post, e.user, e.data, replace)
  \/ \E e \in PostFeed, replace \in BOOLEAN :
        /\ e.user = BadUser
        /\ AddPostThrows(e.post, replace)
  \/ \E p \in Ids, replace \in BOOLEAN : BeginInteractions(p, replace)
  \/ \E t \in ITypes, id \in Ids, u \in Users : AddInteraction(t, id, u)
  \/ EndInteractions

Spec == Init /\ [][Next]_vars
-----------------------------------------------------------------------------
(* Derived notions the properties are stated with.                         *)
Accounts == DOMAIN account_posts_           \* the account indexes
Posts    == DOMAIN post_interactions_       \* the post indexes
AuthorOf(q) == idx2post_map_[q].userId
UserOfInteract(id) == interact_map_[id].userId

Edge(a, b) == IF b \in DOMAIN account_graph_[a] THEN account_graph_[a][b] ELSE <<>>

\* where, and how often, post q stands on the edge from account a to account b
Entries(a, b, q) == {k \in DOMAIN Edge(a, b) : Edge(a, b)[k] = q}
Times(a, b, q)   == Cardinality(Entries(a, b, q))

\* The users that the interactions of post q may have had when they were stored:
\* one that has a user now may have been stored without.
StoredUsers(q) ==
  { w \in [DOMAIN post_interactions_[q] -> Users \cup {NoUid}] :
      \A k \in DOMAIN w : w[k] \in {UserOfInteract(post_interactions_[q][k]), NoUid} }

\* how many of the last n interactions, stored as by the users w, are by user u
RecentBy(w, n, u) == Cardinality({k \in (Len(w) - n + 1)..Len(w) : w[k] = u})

(* The types of the variables.                                             *)
AccountTypeOK ==
  /\ account2idx_map_ \in [DOMAIN account2idx_map_ -> Nat]
  /\ DOMAIN account2idx_map_ \subseteq Users
  /\ idx2account_map_ \in [DOMAIN idx2account_map_ ->
                             [userId : Users, data : Data \cup {NoData}]]
  /\ account_posts_ \in [DOMAIN account_posts_ -> Seq(Nat)]
  /\ account_graph_ = [a \in DOMAIN account_graph_ |-> account_graph_[a]]
  /\ \A a \in DOMAIN account_graph_ :
       account_graph_[a] \in [DOMAIN account_graph_[a] -> Seq(Nat)]

PostTypeOK ==
  /\ post2idx_map_ \in [DOMAIN post2idx_map_ -> Nat]
  /\ DOMAIN post2idx_map_ \subseteq Ids
  /\ idx2post_map_ \in [DOMAIN idx2post_map_ ->
                          [userId : Users \cup {NoUid}, post_id : Ids, data : Data \cup {NoData}]]
  /\ post_interactions_ \in [DOMAIN post_interactions_ -> Seq(Ids)]

TypeOK ==
  /\ AccountTypeOK
  /\ PostTypeOK
  /\ interact_map_ \in [DOMAIN interact_map_ -> [itype : ITypes, userId : Users]]
  /\ DOMAIN interact_map_ \subseteq Ids
  /\ call \in Calls \cup {Idle, Aborted}

(***************************************************************************)
(* The id->index and index->info maps are inverse of each other, the       *)
(* indexes are 0..n-1, and every vector has one slot per index: what every *)
(* `vec[map[id]]' of AddPost_, AddInteraction_ and the queries relies on.  *)
(* A placeholder registered by a call that throws half-way counts too.     *)
(***************************************************************************)
AccountMaps ==
  /\ \A u \in DOMAIN account2idx_map_ :
       /\ account2idx_map_[u] \in DOMAIN idx2account_map_
       /\ UserOfIdx(account2idx_map_[u]) = u
  /\ \A a \in DOMAIN idx2account_map_ :
       /\ UserOfIdx(a) \in DOMAIN account2idx_map_
       /\ account2idx_map_[UserOfIdx(a)] = a
  /\ DOMAIN idx2account_map_ = 0..(num_accounts - 1)
  /\ DOMAIN account_posts_ = DOMAIN idx2account_map_
  /\ DOMAIN account_graph_ = DOMAIN idx2account_map_

PostMaps ==
  /\ \A p \in DOMAIN post2idx_map_ :
       /\ post2idx_map_[p] \in DOMAIN idx2post_map_
       /\ PostInfo(p).post_id = p
  /\ \A q \in DOMAIN idx2post_map_ :
       /\ idx2post_map_[q].post_id \in DOMAIN post2idx_map_
       /\ post2idx_map_[idx2post_map_[q].post_id] = q
  /\ DOMAIN idx2post_map_ = 0..(num_posts - 1)
  /\ DOMAIN post_interactions_ = DOMAIN idx2post_map_

MapsAgree == AccountMaps /\ PostMaps

(***************************************************************************)
(* account_posts_[a] lists, each exactly once, the posts whose author is   *)
(* account a (comment at :615): GetTopkAccounts(POSTS) counts this list.   *)
(* Posts arrive as placeholders, with data, as forwards, twice, and in any *)
(* order; the author is filled in by whichever call first knows it.  Only  *)
(* the account "" may list posts again, and posts that others have too.    *)
(***************************************************************************)
AuthorLists ==
  /\ \A a \in Accounts : \A k \in DOMAIN account_posts_[a] : account_posts_[a][k] \in Posts
  /\ \A a \in Accounts : UserOfIdx(a) # NoUid =>
       /\ \A j, k \in DOMAIN account_posts_[a] :
            account_posts_[a][j] = account_posts_[a][k] => j = k
       /\ \A k \in DOMAIN account_posts_[a] : AuthorOf(account_posts_[a][k]) = UserOfIdx(a)
  /\ \A q \in Posts : AuthorOf(q) # NoUid =>
       /\ HasAccount(AuthorOf(q))
       /\ \E k \in DOMAIN account_posts_[account2idx_map_[AuthorOf(q)]] :
            account_posts_[account2idx_map_[AuthorOf(q)]][k] = q

(***************************************************************************)
(* Every stored interaction stands in exactly one post's list, exactly     *)
(* once, and the lists hold nothing else, although an id may arrive again  *)
(* as another type, from another user or under another post (:520).        *)
(***************************************************************************)
InteractionsListedOnce ==
  /\ \A q, r \in Posts : \A j \in DOMAIN post_interactions_[q], k \in DOMAIN post_interactions_[r] :
       post_interactions_[q][j] = post_interactions_[r][k] => q = r /\ j = k
  /\ \A q \in Posts : \A j \in DOMAIN post_interactions_[q] :
       post_interactions_[q][j] \in DOMAIN interact_map_
  /\ \A id \in DOMAIN interact_map_ :
       \E q \in Posts : \E j \in DOMAIN post_interactions_[q] : post_interactions_[q][j] = id

(***************************************************************************)
(* An edge leaves only an existing account with a name for an existing     *)
(* account and carries only posts whose author is its source (:547),       *)
(* although authors become known late and a replacing call may name        *)
(* another one.                                                            *)
(***************************************************************************)
EdgesLeaveAuthor ==
  \A a \in Accounts : \A b \in DOMAIN account_graph_[a] :
    /\ b \in Accounts /\ UserOfIdx(a) # NoUid
    /\ \A k \in DOMAIN account_graph_[a][b] :
         /\ account_graph_[a][b][k] \in Posts
         /\ AuthorOf(account_graph_[a][b][k]) = UserOfIdx(a)

(***************************************************************************)
(* For each post the graph accounts for exactly its last n interactions,   *)
(* those that arrived after its author became known, each on the edge to   *)
(* the user who made it, or to the account "" if it had no user when it    *)
(* was stored (:547-558).                                                  *)
(***************************************************************************)
EdgesAreRecentInteractions ==
  \A a \in Accounts, q \in Posts :
    AuthorOf(q) = UserOfIdx(a) =>
      \E n \in 0..Len(post_interactions_[q]), w \in StoredUsers(q) :
        \A b \in Accounts : Times(a, b, q) = RecentBy(w, n, UserOfIdx(b))

(***************************************************************************)
(* No later call, whatever its replace flag, renumbers an account or post, *)
(* changes a known author, the type of a stored interaction or a user it   *)
(* has, or drops or reorders an entry of any list: indexes handed out      *)
(* earlier stay valid.  An empty userId may yet be filled in.              *)
(***************************************************************************)
IsPrefixOf(s, t) == Len(s) <= Len(t) /\ \A k \in 1..Len(s) : t[k] = s[k]

KeepsHistory ==
  /\ \A u \in DOMAIN account2idx_map_ :
       u \in DOMAIN account2idx_map_' /\ account2idx_map_'[u] = account2idx_map_[u]
  /\ \A p \in DOMAIN post2idx_map_ :
       p \in DOMAIN post2idx_map_' /\ post2idx_map_'[p] = post2idx_map_[p]
  /\ \A q \in Posts :
       /\ AuthorOf(q) # NoUid => AuthorOf(q)' = AuthorOf(q)
       /\ IsPrefixOf(post_interactions_[q], post_interactions_'[q])
  /\ \A id \in DOMAIN interact_map_ :
       /\ id \in DOMAIN interact_map_' /\ interact_map_'[id].itype = interact_map_[id].itype
       /\ UserOfInteract(id) # NoUid => UserOfInteract(id)' = UserOfInteract(id)
  /\ \A a \in Accounts :
       /\ IsPrefixOf(account_posts_[a], account_posts_'[a])
       /\ \A b \in DOMAIN account_graph_[a] :
            IsPrefixOf(account_graph_[a][b], account_graph_'[a][b])

HistoryKept == [][KeepsHistory]_vars
-----------------------------------------------------------------------------
(* The store read as a ledger: the refinement mapping.                     *)
\* the places of the account graph's lists that hold post q
Slots(q) == UNION {{<<a, b, k>> : k \in Entries(a, b, q)} : a, b \in Accounts}

TotalTimes(q) == Cardinality(Slots(q))

LedgerAuthor == [p \in DOMAIN post2idx_map_ |-> PostInfo(p).userId]

LedgerReceived ==
  [p \in DOMAIN post2idx_map_ |->
     LET s == post_interactions_[post2idx_map_[p]]
     IN  [k \in 1..Len(s) |-> [id |-> s[k], user |-> UserOfInteract(s[k])]]]

LedgerMissed ==
  [p \in DOMAIN post2idx_map_ |->
     Len(post_interactions_[post2idx_map_[p]]) - TotalTimes(post2idx_map_[p])]

Ledger == INSTANCE InteractLedger WITH
  users    <- DOMAIN account2idx_map_,
  author   <- LedgerAuthor,
  received <- LedgerReceived,
  missed   <- LedgerMissed

(***************************************************************************)
(* The store implements the ledger: whatever is loaded in whatever order,  *)
(* each call is one ledger step, and the account graph holds exactly the   *)
(* interactions that were not missed.                                      *)
(***************************************************************************)
ImplementsLedger == Ledger!LSpec

(***************************************************************************)
(* Files that agree with each other: one author per post, whether a post   *)
(* file or a forward or quote names it, and one user per interaction.      *)
(***************************************************************************)
NamesAuthor(p, u) ==
  \/ \E e \in PostFeed : e.post = p /\ e.user = u
  \/ \E e \in InteractFeed : e.itype \in {FORWARD, QUOTE} /\ e.id = p /\ e.user = u

NamesUser(id, u) == \E e \in InteractFeed : e.id = id /\ e.user = u

FeedsAgree ==
  \A i \in Ids : \A u, w \in Users :
    /\ NamesAuthor(i, u) /\ NamesAuthor(i, w) => u = w
    /\ NamesUser(i, u) /\ NamesUser(i, w) => u = w

(***************************************************************************)
(* assert(info->userId == uid) in AddPost_ and AddInteraction_ never fires *)
(* when the files agree on each post's author and each interaction's user. *)
(***************************************************************************)
NeverAborts == call # Aborted

(***************************************************************************)
(* "forward or quote the post will create a new post" (:535), a post of    *)
(* the forwarding account: the post of a stored forward or quote has an    *)
(* author.                                                                 *)
(***************************************************************************)
ForwardCreatesPost ==
  \A id \in DOMAIN interact_map_ :
    interact_map_[id].itype \in {FORWARD, QUOTE} =>
      /\ HasPost(id)
      /\ PostInfo(id).userId # NoUid

(***************************************************************************)
(* The account graph is the "account graph with interactions of posts"     *)
(* (:620): it has every interaction of every post whose author is known.   *)
(* Not an invariant: AddPost_ supplies an author without entering what the *)
(* post has received before; EdgesAreRecentInteractions says what holds.   *)
(***************************************************************************)
GraphHasEveryInteraction ==
  \A q \in Posts : AuthorOf(q) # NoUid => TotalTimes(q) = Len(post_interactions_[q])
=============================================================================
