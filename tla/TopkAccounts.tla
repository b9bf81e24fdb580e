---------------------------- MODULE TopkAccounts ----------------------------
(***************************************************************************)
(* InteractGraph::GetTopkAccounts (include/interact_graph.hpp) on a loaded *)
(* store: one counter per account, filled by parallel loops over the       *)
(* account's own vectors or, for the "interacting" labels, scattered from  *)
(* the account graph by atomic additions; then an unstable sort.           *)
(*                                                                         *)
(* The store is any that loading can leave (InteractGraph, the invariants  *)
(* AuthorLists, EdgesLeaveAuthor and EdgesAreRecentInteractions): a post   *)
(* has an author with a name or none, and a list of interactions, each of  *)
(* the account it was stored under; the first `missed` of them came before *)
(* the author was known and are not in the account graph.  An account with *)
(* a name lists each of its posts once; the account "", if there is one,   *)
(* may list any posts any number of times.                                 *)
(***************************************************************************)
EXTENDS Sums, Sequences

CONSTANTS num_accounts, Posts,
          NoAuthor,      \* the author of a post that is only known by its id
          MaxReceived,   \* bound on the interactions of a post
          MaxListed,     \* bound on the entries of a post on the list of ""
          MaxTopk        \* bound on the argument topk

Accounts == 0..(num_accounts - 1)

ASSUME TopkAssumption ==
  /\ num_accounts \in Nat /\ MaxReceived \in Nat /\ MaxListed \in Nat /\ MaxTopk \in Nat
  /\ IsFiniteSet(Posts) /\ NoAuthor \notin Accounts

\* topk_label_t
Labels == {"POSTS", "INTERACTED_TIMES", "INTERACTED_ACCOUNTS",
           "INTERACTING_TIMES", "INTERACTING_POSTS", "INTERACTING_ACCOUNTS"}
Scattered == {"INTERACTING_TIMES", "INTERACTING_POSTS", "INTERACTING_ACCOUNTS"}

VARIABLES author, received, missed,   \* the store, read only
          unnamed,                    \* the account "", a set of at most one
          listed,                     \* how often it lists a post
          label, topk,                \* the arguments
          counts,                     \* the counters
          todo,                       \* per account, the work its loop turn has left
          results,                    \* sequence of [user, count]
          pc

store == <<author, received, missed, unnamed, listed>>
vars == <<author, received, missed, unnamed, listed, label, topk, counts, todo, results, pc>>

\* How often post p is on the list account_posts_[u].
account_posts(u, p) ==
  IF u \in unnamed THEN listed[p] ELSE IF author[p] = u THEN 1 ELSE 0

\* How often post p is in the data of the edge from u to v.
Times(u, v, p) ==
  IF author[p] # u THEN 0
  ELSE Cardinality({ k \in DOMAIN received[p] : k > missed[p] /\ received[p][k] = v })

\* The accounts that account_graph_[u] has an edge to.
account_graph(u) == { v \in Accounts : \E p \in Posts : Times(u, v, p) > 0 }

\* The size of an edge's data, and the number of different posts in it.
edge_size(u, v) == SetSum([p \in Posts |-> Times(u, v, p)], Posts)
edge_posts_BUG(u, v) == edge_size(u, v)
edge_posts(u, v) == Cardinality({ p \in Posts : Times(u, v, p) > 0 })

Work(u) == IF label \in Scattered THEN account_graph(u) ELSE {u}

Init ==
  /\ unnamed \in { {u} : u \in Accounts } \cup {{}}
  /\ listed \in [Posts -> IF unnamed = {} THEN {0} ELSE 0..MaxListed]
  /\ author \in [Posts -> (Accounts \ unnamed) \cup {NoAuthor}]
  /\ received \in [Posts -> UNION { [1..n -> Accounts] : n \in 0..MaxReceived }]
  /\ missed \in [Posts -> 0..MaxReceived]
  /\ \A p \in Posts : /\ missed[p] <= Len(received[p])
                      /\ author[p] = NoAuthor => missed[p] = Len(received[p])
  /\ label \in Labels
  /\ topk \in 0..MaxTopk
  /\ counts = [u \in Accounts |-> 0]
  /\ todo = [u \in Accounts |-> Work(u)]
  /\ results = <<>>
  /\ pc = "count"

\* One element of a transform over the account's own vectors.
Own(u) ==
  CASE label = "POSTS"               -> SetSum([p \in Posts |-> account_posts(u, p)], Posts)
    [] label = "INTERACTED_TIMES"    ->
         SetSum([p \in Posts |-> account_posts(u, p) * Len(received[p])], Posts)
    [] label = "INTERACTED_ACCOUNTS" -> Cardinality(account_graph(u))

Transform(u) ==
  /\ pc = "count" /\ label \notin Scattered /\ todo[u] # {}
  /\ counts' = [counts EXCEPT ![u] = Own(u)]
  /\ todo' = [todo EXCEPT ![u] = {}]
  /\ UNCHANGED <<store, label, topk, results, pc>>

\* One edge of a for_each over the account graph: an atomic addition.
Contribution(u, v) ==
  CASE label = "INTERACTING_TIMES"    -> edge_size(u, v)
    [] label = "INTERACTING_POSTS"    -> edge_posts(u, v)
    [] label = "INTERACTING_ACCOUNTS" -> 1

Scatter(u) ==
  /\ pc = "count" /\ label \in Scattered
  /\ \E v \in todo[u] :
       /\ counts' = [counts EXCEPT ![v] = @ + Contribution(u, v)]
       /\ todo' = [todo EXCEPT ![u] = @ \ {v}]
  /\ UNCHANGED <<store, label, topk, results, pc>>

\* The orders sort_by_key may produce: descending, ties in any order.
Descending_BUG(s) == \A i, j \in DOMAIN s : i < j => counts[s[i]] <= counts[s[j]]
Descending(s) == \A i, j \in DOMAIN s : i < j => counts[s[i]] >= counts[s[j]]

Orders ==
  { s \in [1..num_accounts -> Accounts] :
      Descending(s) /\ \A i, j \in DOMAIN s : s[i] = s[j] => i = j }

Shown == IF topk < num_accounts THEN topk ELSE num_accounts

Sort ==
  /\ pc = "count" /\ \A u \in Accounts : todo[u] = {}
  /\ \E s \in Orders :
       results' = [i \in 1..Shown |-> [user |-> s[i], count |-> counts[s[i]]]]
  /\ pc' = "done"
  /\ UNCHANGED <<store, label, topk, counts, todo>>

Next ==
  \/ \E u \in Accounts : Transform(u)
  \/ \E u \in Accounts : Scatter(u)
  \/ Sort

Spec == Init /\ [][Next]_vars

-----------------------------------------------------------------------------
(* Properties *)

\* What each label means, read off the interactions of the posts and not off
\* the account graph: numbers of posts, interactions and accounts, where the
\* interactions of the graph's labels are those of E.
Stored == { e \in Posts \X (1..MaxReceived) : e[2] \in DOMAIN received[e[1]] }
Entered == { e \in Stored : e[2] > missed[e[1]] }
Meaning(u, E) ==
  CASE label = "POSTS"             -> Cardinality({ p \in Posts : author[p] = u })
    [] label = "INTERACTED_TIMES"  -> Cardinality({ e \in Stored : author[e[1]] = u })
    [] label = "INTERACTED_ACCOUNTS" ->
         Cardinality({ received[e[1]][e[2]] : e \in { d \in E : author[d[1]] = u } })
    [] label = "INTERACTING_TIMES" ->
         Cardinality({ e \in E : received[e[1]][e[2]] = u })
    [] label = "INTERACTING_POSTS" ->
         Cardinality({ e[1] : e \in { d \in E : received[d[1]][d[2]] = u } })
    [] label = "INTERACTING_ACCOUNTS" ->
         Cardinality({ author[e[1]] : e \in { d \in E : received[d[1]][d[2]] = u } } \ {NoAuthor})

\* "number of posts", "number of times interacted with", "number of interacting
\* accounts" and so on (topk_label_t), of every account that has a name: what
\* the labels say, with no interaction excepted.
CountsMeanLabel ==
  \A i \in DOMAIN results :
    results[i].user \notin unnamed => results[i].count = Meaning(results[i].user, Stored)

\* The list of the account "" is not a list of posts, each once.
Listless(u) == u \in unnamed /\ label \in {"POSTS", "INTERACTED_TIMES"}

\* Whatever the schedule of the atomic additions, the counts shown are the
\* numbers that the label names over the interactions that came after the
\* author of their post was known: over all of them when none came before.
CountsAreRecorded ==
  \A i \in DOMAIN results :
    ~Listless(results[i].user) => results[i].count = Meaning(results[i].user, Entered)

\* The k first of all accounts, each once, in descending order: nobody who is
\* left out counts more than anybody who is shown.
TopkIsMaximal ==
  pc = "done" =>
    /\ Len(results) = IF topk < num_accounts THEN topk ELSE num_accounts
    /\ \A i, j \in DOMAIN results :
         i < j => /\ results[i].count >= results[j].count
                  /\ results[i].user # results[j].user
    /\ \A u \in Accounts \ { results[i].user : i \in DOMAIN results } :
         ~Listless(u) => \A i \in DOMAIN results : Meaning(u, Entered) <= results[i].count
=============================================================================
