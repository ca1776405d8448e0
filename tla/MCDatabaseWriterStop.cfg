\* stop() racing a late caller: two operations are enough.
SPECIFICATION Spec
CONSTANTS
  MaxOps = 2
  MaxRows = 1
  MaxCrashes = 0
INVARIANT
  NothingDroppedOnStop
CHECK_DEADLOCK FALSE
