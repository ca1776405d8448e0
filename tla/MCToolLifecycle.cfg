SPECIFICATION Spec
CONSTANTS
  Tools = {t1, t2}
  Names = {n1, n2}
  Codes = {k1}
  Clients = {c1, c2}
  NoTool = NoTool
  MaxRequests = 5
  MaxCrashes = 1
  MaxFaults = 1
INVARIANTS
  TypeOK
  OnlyApprovedRuns
  RegisteredHasScript
PROPERTIES
  HumanDecides
CHECK_DEADLOCK FALSE
