SPECIFICATION Spec
CONSTANTS
  MaxEnds = 3
  MaxHashes = 3
  MaxLists = 3
PROPERTIES SentryReplayed BotConnects
CHECK_DEADLOCK FALSE
