SPECIFICATION FairSpec
CONSTANTS
  c1 = c1
  c2 = c2
  Callers = {c1, c2}
  MaxPolls = 2
  WriteCap = 1
  MaxLogOns = 2
  MaxAnswers = 3
  MaxConns = 1
INVARIANTS TypeOK PendingIsCalls OwnAnswer TokenOfOwnSession GuardEndsLogin
PROPERTIES LogOnReturns ReaderReturns
CHECK_DEADLOCK FALSE
