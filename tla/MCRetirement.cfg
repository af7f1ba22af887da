SPECIFICATION Spec
CONSTANTS
  Requests <- OneCoroot
  Specs <- RetiringSpecs
  Tracked <- MCTracked
  Kept <- KeptClaims
  NoCR = NoCR
  Absent = Absent
  NoOwner = NoOwner
  Limit <- MCLimit
  MaxIncarnations = 1
  MaxEdits = 1
  MaxFailures = 0
  MaxRestarts = 0
  MaxSecrets = 0
  MaxRemovals = 0
  MaxReleases = 1
INVARIANTS
  RetainKeepsClaims
