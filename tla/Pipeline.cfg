CONSTANTS
  Source = {s1}
  RunId = {r1, r2, r3}
  Slot = {w1, w2}
  Caller = {}
  NULL = NULL
  Outcomes = {"SUCCEEDED", "NO_CHANGE", "DRY_RUN_OK", "HELD", "QUARANTINED", "FAILED", "CANCELLED"}
  Pausable = {}
  MaxRequests = 2
  HeartbeatReliable = TRUE
  Bytes = {a, b}
  Options <- AnyRequest
  MaxVersions = 2
SPECIFICATION PipelineSpec
INVARIANTS PipelineTypeOK WholeFilePublished RunAndVersionAgree ExclusiveExecution PublishedWasAllowed
PROPERTY ImplementsQueue
SYMMETRY Symmetry
CHECK_DEADLOCK FALSE
