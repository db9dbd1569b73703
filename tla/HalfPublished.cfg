CONSTANTS
  Source = {s1}
  RunId = {r1, r2, r3}
  Slot = {w1, w2}
  Caller = {}
  NULL = NULL
  Outcomes = {"SUCCEEDED", "NO_CHANGE", "DRY_RUN_OK", "HELD", "QUARANTINED", "FAILED", "CANCELLED"}
  Pausable = {}
  MaxRequests = 1
  HeartbeatReliable = FALSE
  Bytes = {a}
  Options <- PlainOnly
  MaxVersions = 1
SPECIFICATION PipelineSpec
INVARIANT WholeFilePublished
CHECK_DEADLOCK FALSE
