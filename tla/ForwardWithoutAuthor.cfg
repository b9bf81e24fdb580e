\* Comments on a forward loaded before the forward itself.
CONSTANTS
  u1 = u1
  u2 = u2
  p1 = p1
  f1 = f1
  c1 = c1
  c2 = c2
  d1 = d1
  Users = {u1, u2}
  Ids = {p1, f1, c1, c2}
  Data = {d1}
  NoUid = NoUid
  BadUser = BadUser
  NoData = NoData
  MaxListed = 2
  Idle = Idle
  Aborted = Aborted
  NDEBUG = TRUE
  AccountFeed <- ConsistentAccounts
  PostFeed <- ConsistentPosts
  InteractFeed <- ConsistentInteractions
SPECIFICATION Spec
INVARIANT ForwardCreatesPost
