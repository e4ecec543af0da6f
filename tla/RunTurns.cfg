SPECIFICATION MCSpec
CONSTANTS
  Operations = {o1, o2}
  Remote = {o2}
  CallIds = {i1, i2}
  RequestRetries = 1
  RunRetries = 1
  MaxRequests = 2
  RepeatedFailures = 1
  MaxIterations = 1
  MaxCalls = 2
  Callers = {k1, k2}
  MaxAsks = 1
INVARIANTS AcceptedOnce UnknownNotRepeated FirstAnswerCounts WithdrawnIsForgotten
PROPERTIES TurnEnds StopEndsWaiting
CHECK_DEADLOCK FALSE
