SPECIFICATION WebSpec
CONSTANTS
  Transports = {"ws"}
  WriteCap = 1
  EventCap = 2
  MaxConns = 1
  MaxNotices = 1
  MaxWebLogOns = 2
  MaxExpired = 2
INVARIANTS NoSpuriousWebEvent
 
CHECK_DEADLOCK FALSE
