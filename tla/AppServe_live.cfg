SPECIFICATION FairSpec
CONSTANTS
  Name = {main, prev}
  Static = {main}
  a = a
  b = b
  Sha = {a, b}
  Later <- Forward
  None = None
  MaxConcurrent = 1
  PortEnd = 2
  MaxEvents <- FewEvents
CHECK_DEADLOCK FALSE
PROPERTY ComesToRest
