---------------------------- MODULE InteractLedger ----------------------------
(***************************************************************************)
(* What the store promises its callers, without indexes, vectors or hash   *)
(* maps: who is known, who wrote which post, which interactions each post  *)
(* received and in what order, and how many of them came too early to be   *)
(* counted for the post's author.  InteractGraph implements it.  Users may *)
(* have the nameless user NoUid among them, who writes nothing.            *)
(***************************************************************************)
EXTENDS Naturals, Sequences

CONSTANTS Users, NoUid, Ids

VARIABLES
  users,      \* the known users
  author,     \* known post -> its author, or NoUid
  received,   \* known post -> the [id, user] interactions it received, in order
  missed      \* known post -> how many of them came before its author was known

lvars == <<users, author, received, missed>>

Known(p) == p \in DOMAIN author
Seen(id) == \E p \in DOMAIN received : \E k \in DOMAIN received[p] : received[p][k].id = id

Extend(f, k, v) == [x \in DOMAIN f \cup {k} |-> IF x = k THEN v ELSE f[x]]

LInit ==
  /\ users = {}
  /\ author = [p \in {} |-> NoUid]
  /\ received = [p \in {} |-> <<>>]
  /\ missed = [p \in {} |-> 0]

Join(u) ==
  /\ users' = users \cup {u}
  /\ UNCHANGED <<author, received, missed>>

(* A post is heard of, with its author or without, as when the nameless    *)
(* user joins with it.                                                     *)
Hear(p, u, joins) ==
  /\ ~Known(p)
  /\ author' = Extend(author, p, u)
  /\ received' = Extend(received, p, <<>>)
  /\ missed' = Extend(missed, p, 0)
  /\ joins \/ u = NoUid
  /\ users' = IF joins THEN users \cup {u} ELSE users

(* The author of a known post becomes known; what it missed stays missed.  *)
Attribute(p, u) ==
  /\ Known(p) /\ author[p] = NoUid /\ u # NoUid
  /\ author' = [author EXCEPT ![p] = u]
  /\ users' = users \cup {u}
  /\ UNCHANGED <<received, missed>>

(* User u interacts with p; publishes is set when that makes a post id.     *)
Interact(p, id, u, publishes) ==
  /\ Known(p) /\ ~Seen(id)
  /\ publishes => ~Known(id)
  /\ users' = users \cup {u}
  /\ author' = IF publishes THEN Extend(author, id, u) ELSE author
  /\ LET r == [received EXCEPT ![p] = Append(@, [id |-> id, user |-> u])]
         m == [missed EXCEPT ![p] = IF author[p] = NoUid THEN @ + 1 ELSE @]
     IN /\ received' = IF publishes THEN Extend(r, id, <<>>) ELSE r
        /\ missed' = IF publishes THEN Extend(m, id, 0) ELSE m

(* The user of an interaction that had none becomes known, if not as a user. *)
Identify(p, k, u) ==
  /\ received[p][k].user = NoUid
  /\ received' = [received EXCEPT ![p][k].user = u]
  /\ UNCHANGED <<users, author, missed>>

LNext ==
  \/ \E u \in Users : Join(u)
  \/ \E p \in Ids : Hear(p, NoUid, FALSE) \/ \E u \in Users : Hear(p, u, TRUE)
  \/ \E p \in Ids, u \in Users : Attribute(p, u)
  \/ \E p \in Ids, id \in Ids, u \in Users, publishes \in BOOLEAN :
        Interact(p, id, u, publishes)
  \/ \E p \in DOMAIN received, u \in Users : \E k \in DOMAIN received[p] : Identify(p, k, u)

LSpec == LInit /\ [][LNext]_lvars
===============================================================================
