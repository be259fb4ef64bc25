CONSTANTS
  f1 = f1
  s1 = s1
  h1 = h1
  None = None
  Funcs = {f1}
  Sites = {s1}
  GlobalSites = {s1}
  Headers = {h1}
  MaxInvalidations = 1
  MaxReentrancy = 1
  MaxCallDepth = 3
  MaxDepth = 4
  MayStop = TRUE
SPECIFICATION Spec
CHECK_DEADLOCK FALSE
INVARIANTS TypeOK TiersAreInStep NestingIsBounded
PROPERTIES CompilingStops
