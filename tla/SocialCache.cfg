SPECIFICATION Spec
CONSTANTS
  AccountSize = 4
  InstanceSize = 4
  Own <- MCOwn
  Users <- MCUsers
  Clan <- MCClan
  Notices = {1, 2}
  StateChanges = {"Entered", "Disconnected", "VoiceSpeaking"}
  EventCap = 1
  MaxChanges = 3
  MaxSessions = 2
INVARIANTS FriendsKnown NamesKnown RoomKnown BadgeAgrees
CHECK_DEADLOCK FALSE
