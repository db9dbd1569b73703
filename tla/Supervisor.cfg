CONSTANTS
  MaxEnqueues = 1
  MaxIncidentWrites = 1
SPECIFICATION FairSpec
INVARIANTS SupervisorTypeOK CoreOffIsReported
PROPERTIES AlertsGoOut StaleIsPulled
CHECK_DEADLOCK FALSE
