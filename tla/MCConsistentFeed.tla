--------------------------- MODULE MCConsistentFeed ---------------------------
(* Files that agree with each other: every post has one author and every    *)
(* interaction one post, type and user.  p1 is a post of u1; u2 forwarded   *)
(* it as f1; c1 and c2 are comments on p1 and f1, the first by its author.  *)
EXTENDS InteractGraph
CONSTANTS u1, u2, p1, f1, c1, c2, d1

ConsistentAccounts == [user : {u1, u2}, data : {d1}]
ConsistentPosts ==
  {[post |-> p1, user |-> u1, data |-> d1], [post |-> f1, user |-> u2, data |-> d1]}
ConsistentInteractions ==
  {[post |-> p1, itype |-> FORWARD, id |-> f1, user |-> u2],
   [post |-> p1, itype |-> COMMENT, id |-> c1, user |-> u1],
   [post |-> f1, itype |-> COMMENT, id |-> c2, user |-> u1]}

\* what the proof that no assertion fails asks of the files
ASSUME FeedAgreement == FeedsAgree
===============================================================================
