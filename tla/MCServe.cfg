SPECIFICATION Spec
CONSTANTS
  w1 = w1
  w2 = w2
  p1 = p1
  p2 = p2
  p3 = p3
  g1 = g1
  Pushes = {p1, p2, g1}
  Worktrees = {w1}
  WtOf <- MCWtOf
  ShaOf <- OneCommit
  Gates = {g1}
  Escalated = {p1}
  Broken = {p2, g1}
  QueueCap = 1
  WitnessLimit = 1
  MaxSpawns = 2
  MaxNatives = 0
  MaxStalls = 1
  MaxIdles = 1
  Quiesces = TRUE
  PullsOutliveIdle = FALSE
  None = None
INVARIANT GreenIsEarned AnsweredOnce NothingVanishes DrainForgetsOnlySharedKeys SlotsAreCompiles
CHECK_DEADLOCK FALSE
