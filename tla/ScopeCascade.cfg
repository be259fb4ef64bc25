CONSTANTS
  k1 = k1
  k2 = k2
  Main = Main
  None = None
  Isolates = {Main, k1, k2}
  Cancelling = {Main, k1}
  MaxCalls = 1
  Sizes = {1, 2}
SPECIFICATION Spec
CHECK_DEADLOCK FALSE
INVARIANTS NoCascadeIsRaised
