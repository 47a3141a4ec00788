SPECIFICATION Spec
CONSTANTS
  c1 = c1
  c2 = c2
  c3 = c3
  a1 = a1
  a2 = a2
  k1 = k1
  Calls = {c1, c2, c3}
  Attempts = {a1, a2}
  AttemptOf <- MCAttemptOf
  Identities <- MCIdentities
  Gates = {a1}
  Keys = {k1}
  KeyOf <- MCKeyOf
  QueueCap = 1
  MemoryCap = 1
  MaxTroubles = 3
  None = None
INVARIANT AtMostOnce AckedIsKnown
PROPERTY AbandonedIsDead TerminalIsFinal
CHECK_DEADLOCK FALSE
