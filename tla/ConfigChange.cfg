CONSTANTS
  Admin = {a, b}
  Operator = {o}
  Agent = agent
  listed = listed
  unlisted = unlisted
  Url = {listed, unlisted}
  Listed = {listed}
  Bound = {0, 1}
  Seed <- Seeds
  NULL = NULL
  MaxVersions = 3
  MaxProposals = 2
  MaxSwitches = 2
SPECIFICATION Spec
INVARIANTS ConfigTypeOK OneVersionInForce FourEyes
PROPERTY NoLostUpdate
SYMMETRY Symmetry
CHECK_DEADLOCK FALSE
