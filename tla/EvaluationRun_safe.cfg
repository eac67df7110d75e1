CONSTANTS
  v1 = v1  v2 = v2  judge = judge  human = human  t1 = t1  t2 = t2  d = d  x1 = x1  x2 = x2
  Evaluations <- OneEvaluation
  Scores <- TwoScores
  Mapped <- OneScore
  Queueable <- OneScore
  Permanent = {}
  Targets <- TwoTargets
  InitialTargets <- OneTarget
  Sources <- AllSources
  SourceOf <- EitherScope
  Scopes = {"DATASET", "EXPERIMENT"}
  Handlers = {h1, h2}
  Importers = {i1}
  Removals = TRUE
  MaxEntries = 1
  MaxFaults = 1
SPECIFICATION Spec
SYMMETRY HandlerSymmetry
INVARIANTS TypeOK AnswersFindTheirRow OneRowUnlessEntered PendingIsAccountedFor SnapshotIsScored
PROPERTIES ImplementsBoard
CHECK_DEADLOCK FALSE
