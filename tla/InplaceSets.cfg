\* Four keys, up to four entries and four additions or removals, repeated keys
\* in both parts.
SPECIFICATION Spec
CONSTANTS
  Key = {1, 2, 3, 4}
  MaxX = 4
  MaxY = 4
INVARIANTS
  UnreadUntouched
  ResultIsRight
CHECK_DEADLOCK FALSE
