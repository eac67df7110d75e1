--------------------------- MODULE MCExperimentRun ---------------------------
(* Instances of ExperimentRun for TLC. *)
EXTENDS ExperimentRun, TLC

CONSTANTS e1, e2, r1, r2, r3, h1, h2

TwoExperiments == {e1, e2}
OneExperiment  == {e1}
TwoRows   == {r1, r2}
ThreeRows == {r1, r2, r3}
OneRow    == {r1}

\* The database always scans in the same order.
StableScan == {(r1 :> 1) @@ (r2 :> 2)}
StableScan3 == {(r1 :> 1) @@ (r2 :> 2) @@ (r3 :> 3)}
\* No ORDER BY: any order, chosen anew for every page.
AnyScan == {(r1 :> 1) @@ (r2 :> 2), (r1 :> 2) @@ (r2 :> 1)}

HandlerSymmetry == Permutations(Handlers)
=============================================================================
