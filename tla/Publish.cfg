CONSTANTS
  Source = {s1, s2}
  Key = {k1}
  Content = {a, b}
  Session = {t1, t2}
  NULL = NULL
  OneRun = FALSE
  MaxVersions = 3
  MaxSnapshots = 3
SPECIFICATION PublishSpec
INVARIANTS PublishTypeOK ReconstructsEveryVersion HeldIsOffTheList SerialSnapshotIsExact
PROPERTY BlocksUntilReviewed
SYMMETRY Symmetry
CHECK_DEADLOCK FALSE
