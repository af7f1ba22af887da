SPECIFICATION Spec
CONSTANTS
  Requests <- OneCoroot
  Specs <- EditedSpecs
  Tracked <- MCTracked
  Kept <- KeptEdited
  NoCR = NoCR
  Absent = Absent
  NoOwner = NoOwner
  Limit <- MCLimit
  MaxIncarnations = 1
  MaxEdits = 2
  MaxFailures = 0
  MaxRestarts = 1
  MaxSecrets = 0
  MaxRemovals = 1
  MaxReleases = 1
INVARIANTS
  SettledMeansApplied
  SettledMeansRetained
