SPECIFICATION Spec
CONSTANTS
  Daemons = {d1, d2, d3}
  Users = {u1}
  NoDaemon = NoDaemon
  Garbage = Garbage
  Patient = TRUE
  Slow = TRUE
  MaxCrashes = 2
  MaxReused = 1
INVARIANTS
  TypeOK
  SingleInstance
  FilesLeadToDaemon
PROPERTIES
  RefusedOnlyForLive
  StopEnds
CHECK_DEADLOCK FALSE
