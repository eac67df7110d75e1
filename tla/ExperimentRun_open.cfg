CONSTANTS
  e1 = e1  e2 = e2  r1 = r1  r2 = r2  r3 = r3  h1 = h1  h2 = h2
  Experiments <- OneExperiment
  Rows <- TwoRows
  InitialRows <- OneRow
  Handlers = {h1, h2}
  BatchSize = 1
  ScanOrders <- AnyScan
  Removals = TRUE
  MaxApiResults = 2
  MaxFaults = 2
SPECIFICATION Spec
SYMMETRY HandlerSymmetry
INVARIANT AnswersFindTheirRow
PROPERTIES DeletedAnswersNeverDrain ImplementsBoard
CHECK_DEADLOCK FALSE
