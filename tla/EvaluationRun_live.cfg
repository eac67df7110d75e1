CONSTANTS
  v1 = v1  v2 = v2  judge = judge  human = human  t1 = t1  t2 = t2  d = d  x1 = x1  x2 = x2
  Evaluations <- TwoEvaluations
  Scores <- TwoScores
  Mapped <- OneScore
  Queueable <- OneScore
  Permanent = {}
  Targets <- TwoTargets
  InitialTargets <- OneTarget
  Sources <- AllSources
  SourceOf <- TwoExperiments
  Scopes = {"EXPERIMENT"}
  Handlers = {h1}
  Importers = {i1}
  Removals = FALSE
  MaxEntries = 0
  MaxFaults = 1
SPECIFICATION FairSpec
PROPERTY EvaluationSettles
CHECK_DEADLOCK FALSE
