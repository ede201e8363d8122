SPECIFICATION SessionSpec
CONSTANTS
  Transports = {"tcp", "ws"}
  WriteCap = 1
  EventCap = 2
  MaxConns = 2
  MaxNotices = 1
INVARIANTS TypeOK AllReadable OwnSession HeartbeatKept
PROPERTIES LogOnAnswered
CHECK_DEADLOCK FALSE
