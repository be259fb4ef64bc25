CONSTANTS
  k1 = k1
  k2 = k2
  Main = Main
  None = None
  Isolates = {Main, k1, k2}
  Cancelling = {Main, k1}
  MaxCalls = 1
  Sizes = {1, 2}
SPECIFICATION FairSpec
CHECK_DEADLOCK FALSE
INVARIANTS TypeOK ChildrenAreContained FirstFailureIsRaised
PROPERTIES TreeComesDown
