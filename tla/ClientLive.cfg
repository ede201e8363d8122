SPECIFICATION FairSpec
CONSTANTS
  main = main
  other = other
  poll = poll
  Apps = {main, poll}
  Pollers = {poll}
  Calls <- SequentialWS
  ExclusiveConnect = TRUE
  Kinds = {"event", "reply", "fatal"}
  WriteCap = 2
  EventCap = 1
  MaxConns = 1
  MaxWrites = 2
  MaxPackets = 1
  MaxLogOns = 0
PROPERTIES
  FatalCloses
  CallsReturn
  LoopsEnd
