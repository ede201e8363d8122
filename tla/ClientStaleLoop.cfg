SPECIFICATION Spec
CONSTANTS
  main = main
  other = other
  poll = poll
  Apps = {main, poll}
  Pollers = {poll}
  Calls <- Reconnecting
  ExclusiveConnect = FALSE
  Kinds = {}
  WriteCap = 1
  EventCap = 1
  MaxConns = 2
  MaxWrites = 1
  MaxPackets = 0
  MaxLogOns = 0
INVARIANTS
  FatalClosesOwn
CHECK_DEADLOCK FALSE
