SPECIFICATION FairSpec
CONSTANTS
  Requests <- OneCoroot
  Specs <- ChangingSpecs
  Tracked <- MCTracked
  Kept <- KeptConvergence
  NoCR = NoCR
  Absent = Absent
  NoOwner = NoOwner
  Limit <- MCLimit
  MaxIncarnations = 1
  MaxEdits = 0
  MaxFailures = 1
  MaxRestarts = 1
  MaxSecrets = 0
  MaxRemovals = 1
  MaxReleases = 2
PROPERTIES
  Converges
