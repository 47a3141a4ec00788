SPECIFICATION FairSpec
CONSTANTS
  w1 = w1
  w2 = w2
  p1 = p1
  p2 = p2
  p3 = p3
  g1 = g1
  Pushes = {p1, p2, p3}
  Worktrees = {w1, w2}
  WtOf <- MCWtOf
  ShaOf <- TwoCommits
  Gates = {}
  Escalated = {}
  Broken = {p1}
  QueueCap = 2
  WitnessLimit = 1
  MaxSpawns = 1
  MaxNatives = 1
  MaxStalls = 0
  MaxIdles = 0
  Quiesces = FALSE
  PullsOutliveIdle = FALSE
  None = None
PROPERTY EveryPushAnswered
CHECK_DEADLOCK FALSE
