SPECIFICATION Spec
CONSTANTS
  main = main
  other = other
  poll = poll
  Apps = {main, poll}
  Pollers = {poll}
  Calls <- Sequential
  ExclusiveConnect = TRUE
  Kinds = {"event", "reply", "fatal", "logon", "result"}
  WriteCap = 1
  EventCap = 1
  MaxConns = 1
  MaxWrites = 3
  MaxPackets = 1
  MaxLogOns = 1
INVARIANTS
  TypeOK
  LockExclusion
  OneDisconnected
  PanicsAreKnown
  Conserved
PROPERTIES
  NoCloseUnderSender
CHECK_DEADLOCK FALSE
