SPECIFICATION Spec
CONSTANTS
  Threads = {worker, ticker}
  Keys = {prod, staging}
  Strings = {s1, s2}
  NoValue = NoValue
  Absent = Absent
  NoCall = NoCall
  Content <- SecretContent
  Calls <- SecretCalls
  MutateF <- FillKeys
  MaxRevision = 3
SYMMETRY Symmetries
INVARIANTS
  TypeOK
  SnapshotsAgree
PROPERTIES
  AtomicObject
  KeyStability
CHECK_DEADLOCK FALSE
