SPECIFICATION Spec
CONSTANTS
  t1 = t1
  t2 = t2
  t3 = t3
  main = main
  other = other
  w1 = w1
  w2 = w2
  good = good
  rival = rival
  bad = bad
  cut = cut
  Thread = {t1, t2, t3}
  Key = {main, other}
  Worktree = {w1, w2}
  Patch = {good, rival, bad, cut}
  Truncated = {cut}
  Clash <- Clashes
  RedUnions <- Reds
  Request <- Requests
  Limit = 1
  MaxMembers = 3
  Cooldown = 1
  MaxSubmits = 3
  None = None
CHECK_DEADLOCK FALSE
INVARIANTS SlotsAreRuns AnswersAreEarned
PROPERTIES CulpritSitsOut EveryoneIsAnswered
