SPECIFICATION Spec
CONSTANTS
  main = main
  other = other
  poll = poll
  Apps = {main, poll}
  Pollers = {main, poll}
  Calls <- Dialing
  ExclusiveConnect = FALSE
  Kinds = {}
  WriteCap = 1
  EventCap = 1
  MaxConns = 2
  MaxWrites = 0
  MaxPackets = 0
  MaxLogOns = 0
SYMMETRY Interchangeable
PROPERTIES
  ImplementsConnLife
CHECK_DEADLOCK FALSE
