CONSTANTS
  k1 = k1
  k2 = k2
  Subject = {1, 2, 3}
  Unwanted = {2, 3}
  Removable = {}
  Key = {k1, k2}
  KeysOf <- Matches
  Answer = {"AUTO_ACCEPTED"}
  Asker = {u1}
  BatchSize = 2
  MaxErrors = 1
  MaxProposals = 1
  MaxAges = 1
  MaxStops = 1
  NULL = NULL
SPECIFICATION FairSpec
PROPERTY WantedAreEnriched
