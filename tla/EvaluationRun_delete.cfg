CONSTANTS
  v1 = v1  v2 = v2  judge = judge  human = human  t1 = t1  t2 = t2  d = d  x1 = x1  x2 = x2
  Evaluations <- OneEvaluation
  Scores <- OneScore
  Mapped <- OneScore
  Queueable <- OneScore
  Permanent = {}
  Targets <- TwoTargets
  InitialTargets <- OneTarget
  Sources <- AllSources
  SourceOf <- OneExperiment
  Scopes = {"EXPERIMENT"}
  Handlers = {h1, h2}
  Importers = {i1}
  Removals = TRUE
  MaxEntries = 2
  MaxFaults = 1
SPECIFICATION Spec
SYMMETRY HandlerSymmetry
INVARIANT DeletionsSucceed
CHECK_DEADLOCK FALSE
