\* Two accounts, two posts with up to two interactions each,
\* three dated posts; ints of six bits.
SPECIFICATION QuerySpec
CONSTANTS
  num_accounts = 2
  Posts = {p, q}
  NoAuthor = NoAuthor
  MaxReceived = 2
  MaxListed = 2
  MaxTopk = 3
  HoursPerDay = 2
  MinutesPerHour = 2
  SecondsPerMinute = 2
  Null = Null
  NoTime = NoTime
  BadText = BadText
  Texts <- MCTexts
  Starts <- MCStarts
  Ends <- MCEnds
  Intervals = {1, 3, 8}
  Dated = {d, e, f}
  INT_MAX = 31
  Dates <- MCClientDates
  Ranges <- MCRanges
  Stranger = Stranger
  MaxAsked = 3
INVARIANTS
  CountsMeanLabel
CHECK_DEADLOCK FALSE
