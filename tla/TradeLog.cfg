SPECIFICATION FairSpec
CONSTANTS
  Outcomes = {"Complete", "Empty", "Cancelled", "Timeout", "Failed"}
  MaxLog = 3
  MaxQueued = 2
INVARIANTS TypeOK NothingSkipped OnlyPartner ReadyAgrees
PROPERTIES AllHandedOut KnownEndIsHandedOut
