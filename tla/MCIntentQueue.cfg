SPECIFICATION Spec
CONSTANTS
  Drainers = {d1, d2}
  Callers = {c1}
  Limit = 2
  MaxAttempts = 2
  MaxIntents = 3
  MaxFaults = 1
INVARIANTS
  TypeOK
  CompletedWasProcessed
  RedeliveryBounded
CHECK_DEADLOCK FALSE
