SPECIFICATION StreamSpec
CONSTANTS
  Requests = {r1}
  Names = {n1}
  NoName = NoName
  Slots = 1
  MaxFaults = 1
  live = live
  family = family
  Streams = {live, family}
  Topics <- MCTopics
  TopicOf <- MCTopicOf
  Family <- MCFamily
  All = "*"
  Pattern <- MCPattern
  Keep = 1
  MaxEvents = 2
INVARIANTS
  BusTypeOK
  StreamedInOrder
  DrainWaits
  ClientsToldTruly
PROPERTY
  EveryEventStreamed
CHECK_DEADLOCK FALSE
