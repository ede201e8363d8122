SPECIFICATION Spec
CONSTANTS
  Callers = {"a", "b"}
  RetryCounts = {0, 2}
  MaxOffers = 3
  MaxTries = 3
INVARIANTS ResultIsOwn OnceUnlessLost
PROPERTIES StuckInRequestOnly
CHECK_DEADLOCK FALSE
