SPECIFICATION Spec
CONSTANTS
  w1 = w1
  w2 = w2
  p1 = p1
  p2 = p2
  p3 = p3
  g1 = g1
  Pushes = {p1, p2}
  Worktrees = {w1}
  WtOf <- MCWtOf
  ShaOf <- TwoCommits
  Gates = {}
  Escalated = {}
  Broken = {p1}
  QueueCap = 2
  WitnessLimit = 1
  MaxSpawns = 2
  MaxNatives = 2
  MaxStalls = 1
  MaxIdles = 0
  Quiesces = FALSE
  PullsOutliveIdle = FALSE
  None = None
INVARIANT NoGreenFromAStall
CHECK_DEADLOCK FALSE
