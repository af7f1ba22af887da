SPECIFICATION Spec

CONSTANTS
  s1 = s1
  s2 = s2
  s3 = s3
  Selectors <- MCSelectors
  Checksum <- MCChecksum
  Projects = 1
  Resources <- MCResources
  SecretStates <- MCSecretStates
  Empty = Empty
  Plain = Plain
  Bad = Bad
  Filled = Filled
  NoSelector = NoSelector
  NoCopy = NoCopy
  None = None
  Limit = 2

INVARIANTS
  TypeOK
  CacheIsUntouched
  PlaceholdersResolve
  PodsFindTheirSecrets
  CredentialsAreUsedOrReported
  WhatIsOnWorks
  RejectedOnlyIfForgotten

PROPERTIES
  QuietWhenSettled
  OwnedFields
