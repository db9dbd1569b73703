CONSTANTS
  Source = {s1}
  RunId = {1, 2, 3, 4, 5, 6, 7}
  Slot = {w1}
  Caller = {c1}
  NULL = NULL
  Outcomes = {"FAILED"}
  Pausable = {s1}
  MaxRequests = 1
  HeartbeatReliable = TRUE
SPECIFICATION FairInOrder
INVARIANTS TypeOK OneActivePerSource ResumeChainBounded
PROPERTY ActiveRunEnds
CHECK_DEADLOCK FALSE
