SPECIFICATION Spec
CONSTANTS
  Starts = 3
  Statements <- MCStatements
  Optional = {2}
  MaxFaults = 2
INVARIANTS
  TypeOK
  RecordedIsComplete
  ServesMigrated
  ClientFindsDaemon
PROPERTY
  StartsUnlessFaulted
CHECK_DEADLOCK FALSE
