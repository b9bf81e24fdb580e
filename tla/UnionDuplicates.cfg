\* The smallest parts in which a match follows an insertion.
SPECIFICATION Spec
CONSTANTS
  Key = {1, 2, 3}
  MaxX = 2
  MaxY = 2
INVARIANTS
  UnionHasNoDuplicates
CHECK_DEADLOCK FALSE
