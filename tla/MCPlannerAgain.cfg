CONSTANTS
  n1 = n1
  n2 = n2
  Nodes <- MCNodes
  A = A
  B = B
  Nowhere = Nowhere
  kSmoothLookahead = 3
  kSmoothPasses = 2
  kMaxReplans = 1
  MaxRoute = 2
  MaxLooks = 1
  MaxPlans = 1
SPECIFICATION Spec
INVARIANT EdgeGivenUp
CHECK_DEADLOCK FALSE
