SPECIFICATION Spec
CONSTANTS
  Requests <- OneCoroot
  Specs <- ValidationSpecs
  Tracked <- MCTracked
  Kept <- KeptServer
  NoCR = NoCR
  Absent = Absent
  NoOwner = NoOwner
  Limit <- MCLimit
  MaxIncarnations = 1
  MaxEdits = 1
  MaxFailures = 0
  MaxRestarts = 0
  MaxSecrets = 2
  MaxRemovals = 0
  MaxReleases = 2
INVARIANTS
  MisconfiguredIsRetried
  SettledStatus
  SettledMeansApplied
PROPERTIES
  StatusDescribesSpec
