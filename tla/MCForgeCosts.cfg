\* One forge without a fault of the database.
SPECIFICATION Spec
CONSTANTS
  Requests = {r1}
  Names = {n1}
  NoName = NoName
  Slots = 1
  MaxFaults = 0
INVARIANT
  EveryCallRecorded
CHECK_DEADLOCK FALSE
