\* Three keys, two values, up to five entries, waiting ones included.
SPECIFICATION Spec
CONSTANTS
  Key = {1, 2, 3}
  Value = {1, 2}
  MaxPairs = 5
INVARIANTS
  OneEntryPerKey
PROPERTIES
  ImplementsKeyMap
