SPECIFICATION Spec
CONSTANTS
  Name = {main, prev}
  Static = {main}
  a = a
  b = b
  Sha = {a, b}
  Later <- AnyLater
  None = None
  MaxConcurrent = 1
  PortEnd = 2
  MaxEvents <- MoreAlone
SYMMETRY Symmetry
CHECK_DEADLOCK FALSE
INVARIANTS ChildrenMatch PortsAccounted BundlesOutliveTheirUsers NothingIsLost
