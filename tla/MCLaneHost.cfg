SPECIFICATION Spec
CONSTANTS
  Id <- MCIds2
  Commit <- MCHeads1
  File <- MCFile
  Changes <- MCChanges
  MaxMembers = 1
  EjectTtl = 2
  CaptureWindow = 0
  InfraBackoff = 1
  InfraMaxAttempts = 2
  Client = {c, d}
  MaxEagerSteps = 4
  MaxCalls = 3
  MaxTick = 2
  MaxRefusals = 1
  Watched <- MCIds1
SYMMETRY ClientSymmetry
INVARIANTS
  NoMemberLost
  BuildingIsBeingBuilt
  ShipsWhatCompiled
  LandsEachGreenOnce
  InfraRetryPaced
  WithdrawnIsHidden
PROPERTIES
  MachineSpec
