SPECIFICATION Spec
CONSTANTS
  a = a
  b = b
  c = c
  x = x
  Entity = {a, b, c, x}
  Project = {a, b, c}
  Deleted <- MCDeleted
  Links <- MCLinks
  Texts <- MCTexts
  Vectors <- MCVectors
  Worst = 3
  Limits = {1, 3}
  Budgets = {0}
  MaxTokens = 160
  Length <- MCLength
  Tokens <- MCTokens
  Dense = 4
  Slack = 3
  RRF_K = 60
  Unit = 7624512
  Expanded = 1
  Fanout = 2
  MaxWrites = 2
INVARIANTS
  TypeOK
  ResultsAreRelated
  FusionRespectsRanks
  OverrunIsBounded
CHECK_DEADLOCK FALSE
