SPECIFICATION Spec
CONSTANTS
  Requests <- TwoCoroots
  Specs <- PlainOnly
  Tracked <- MCTracked
  Kept <- KeptClusterRole
  NoCR = NoCR
  Absent = Absent
  NoOwner = NoOwner
  Limit <- MCLimit
  MaxIncarnations = 2
  MaxEdits = 2
  MaxFailures = 0
  MaxRestarts = 0
  MaxSecrets = 0
  MaxRemovals = 0
  MaxReleases = 1
INVARIANTS
  TypeOK
  
