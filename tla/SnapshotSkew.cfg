CONSTANTS
  Source = {s1, s2}
  Key = {k1}
  Content = {a}
  Session = {t1, t2}
  NULL = NULL
  OneRun = TRUE
  MaxVersions = 3
  MaxSnapshots = 3
SPECIFICATION PublishSpec
INVARIANT UnconfirmedRemovalIsHeld
CHECK_DEADLOCK FALSE
