CONSTANTS
  e1 = e1  e2 = e2  r1 = r1  r2 = r2  r3 = r3  h1 = h1  h2 = h2
  Experiments <- TwoExperiments
  Rows <- TwoRows
  InitialRows <- TwoRows
  Handlers = {h1, h2}
  BatchSize = 1
  ScanOrders <- StableScan
  Removals = TRUE
  MaxApiResults = 0
  MaxFaults = 2
SPECIFICATION Spec
SYMMETRY HandlerSymmetry
INVARIANTS TypeOK AtMostOneRow PendingIsAccountedFor
CHECK_DEADLOCK FALSE
