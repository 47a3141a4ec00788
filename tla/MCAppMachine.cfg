SPECIFICATION MSpec
CONSTANTS
  Name = {n1, n2, n3}
  Sha = {a, b, c}
  None = None
  MaxConcurrent = 1
  MaxGen <- ManyAlone
SYMMETRY Symmetry
CHECK_DEADLOCK FALSE
INVARIANTS BuildsConverge NewestIsJudged
PROPERTIES PromotionIsEarned SlotsAreUsed
