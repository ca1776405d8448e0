\* One wrapped LLM call, no intent enqueued beside direct calls of enqueue().
SPECIFICATION Spec
CONSTANTS
  Drainers = {d1}
  Callers = {c1}
  Limit = 2
  MaxAttempts = 3
  MaxIntents = 2
  MaxFaults = 0
INVARIANT
  ExhaustedIsQueued
CHECK_DEADLOCK FALSE
