SPECIFICATION MCSpec
CONSTANTS
  Id <- MCId
  Commit <- MCCommit
  File <- MCFile
  Changes <- MCChanges
  MaxMembers = 2
  EjectTtl = 1
  CaptureWindow = 1
  InfraBackoff = 1
  InfraMaxAttempts = 2
  TickValue <- MCTickValue
  MaxGeneration = 2
  MaxFailures = 1
INVARIANTS
  OnePlacePerId
  WithdrawnStaysOut
  DeadlinesBounded
PROPERTIES
  NeverPreempted
