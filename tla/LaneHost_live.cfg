SPECIFICATION FairSpec
CONSTANTS
  Id <- MCIds2
  Commit <- MCHeads1
  File <- MCFile
  Changes <- MCChanges
  MaxMembers = 2
  EjectTtl = 1
  CaptureWindow = 1
  InfraBackoff = 1
  InfraMaxAttempts = 2
  Client = {c}
  MaxEagerSteps = 3
  MaxCalls = 2
  MaxTick = 2
  MaxRefusals = 1
  Watched <- MCNoIds
PROPERTIES
  EjectionsLapse
  QueueServed
