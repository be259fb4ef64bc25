CONSTANTS
  c1 = c1
  c2 = c2
  c3 = c3
  k1 = k1
  k2 = k2
  v1 = v1
  v2 = v2
  None = None
  Hand = Hand
  Commands = {c1, c2, c3}
  Order <- TwoPackages
  Versions = {v1, v2}
  Locked <- OneInstalled
  Jobs <- RestoreAfter
  MaxKills = 0
  MaxFaults = 1
SPECIFICATION Spec
CHECK_DEADLOCK FALSE
INVARIANTS AnyFailureChangesNothing
