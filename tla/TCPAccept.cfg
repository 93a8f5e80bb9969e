SPECIFICATION FairSpec
CONSTANTS
  Conn = {c1, c2, c3}
  Class = {"dns", "refused", "served", "servedPw", "unserved", "subnet"}
  Max = 2
INVARIANTS
  CompletedOnce
  InFlightExactly
PROPERTY EveryAttemptDecided
CHECK_DEADLOCK FALSE
