CONSTANTS
  x1 = x1
  v1 = v1
  v2 = v2
  Act = {x1}
  Vessel = {v1, v2}
  TextOf <- Texts
  Analyst = {p}
  Reviewer = {p, q}
  Agent = agent
  MaxProposals = 2
  Limits <- AnnexLimits
  MaxDisturbances = 2
  NULL = NULL
SPECIFICATION FairSpec
INVARIANTS CurationTypeOK ListedWasApproved
PROPERTY ApprovedIsPublished
