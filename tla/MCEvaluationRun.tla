--------------------------- MODULE MCEvaluationRun ---------------------------
(* Instances of EvaluationRun for TLC. *)
EXTENDS EvaluationRun, TLC

CONSTANTS v1, v2, judge, human, t1, t2, d, x1, x2

OneEvaluation  == {v1}
TwoEvaluations == {v1, v2}
OneScore       == {judge}
TwoScores      == {judge, human}  \* the second has no prompt
TwoTargets     == {t1, t2}
OneTarget      == {t1}

AllSources  == {d, x1, x2}
OneDataset     == ("DATASET" :> ((t1 :> d) @@ (t2 :> d)))
OneExperiment  == ("EXPERIMENT" :> ((t1 :> x1) @@ (t2 :> x1)))
TwoExperiments == ("EXPERIMENT" :> ((t1 :> x1) @@ (t2 :> x2)))
EitherScope    == OneDataset @@ OneExperiment

HandlerSymmetry == Permutations(Handlers)
=============================================================================
