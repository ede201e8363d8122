SPECIFICATION FairSpec
CONSTANTS
  main = main
  other = other
  poll = poll
  Apps = {main, poll, other}
  Pollers = {poll}
  Calls <- Manager
  ExclusiveConnect = TRUE
  Kinds = {}
  WriteCap = 1
  EventCap = 1
  MaxConns = 1
  MaxWrites = 2
  MaxPackets = 0
  MaxLogOns = 0
PROPERTIES
  CallsReturn
CHECK_DEADLOCK FALSE
