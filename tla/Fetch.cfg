CONSTANTS
  good = good
  bad = bad
  aux = aux
  Bytes = {b1, b2}
  Host = {good, bad}
  Allowed = {good}
  Writer = {aux}
  MaxAttempts = 3
  MaxRedirects = 1
  NULL = NULL
SPECIFICATION FairSpec
INVARIANTS FetchTypeOK PublishedIsProven CancelStopsRetries
PROPERTIES UnchangedMeansPublished PullEnds
CHECK_DEADLOCK FALSE
