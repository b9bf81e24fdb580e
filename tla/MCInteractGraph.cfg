\* Arbitrary elements in any order, Release build.  No property reads the data.
CONSTANTS
  Users = {u1, u2, NoUid}
  Ids = {p1, p2}
  Data = {NoData}
  NoUid = NoUid
  BadUser = BadUser
  NoData = NoData
  MaxListed = 2
  Idle = Idle
  Aborted = Aborted
  NDEBUG = TRUE
  AccountFeed <- NamelessAccount
  PostFeed <- AllPosts
  InteractFeed <- ForwardsAndComments
SPECIFICATION Spec
SYMMETRY Sym
INVARIANT MapsAgree
INVARIANT AuthorLists
INVARIANT InteractionsListedOnce
INVARIANT EdgesLeaveAuthor
INVARIANT EdgesAreRecentInteractions
PROPERTY HistoryKept
PROPERTY ImplementsLedger
