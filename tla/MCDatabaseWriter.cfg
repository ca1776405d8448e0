SPECIFICATION Spec
CONSTANTS
  MaxOps = 3
  MaxRows = 2
  MaxCrashes = 1
INVARIANTS
  TypeOK
  AckedIsDurable
  NothingUnreported
PROPERTIES
  CallersReturn
  ImplementsLog
CHECK_DEADLOCK FALSE
