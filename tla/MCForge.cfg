SPECIFICATION Spec
CONSTANTS
  Requests = {r1, r2, r3}
  Names = {n1, n2}
  NoName = NoName
  Slots = 2
  MaxFaults = 1
INVARIANTS
  TypeOK
  SlotsConserved
  ReportedIsQuarantined
  ChargedForAnswers
PROPERTY
  ForgeAnswered
CHECK_DEADLOCK FALSE
