---------------------------- MODULE EvaluationRun ----------------------------
(***************************************************************************)
(* One evaluation from the request to the last score:                      *)
(*   - EvaluationWriterService.create / rerun / remove,                    *)
(*   - EvaluationQueueOrchestrator.postEvaluationToQueue with the score    *)
(*     mappings it fills, the PENDING rows it saves and the jobs it        *)
(*     publishes,                                                          *)
(*   - the broker and the worker (external, as in ExperimentRun),          *)
(*   - EvaluationResultsProcessor.processResult,                           *)
(*   - createResult and importScoreResults, the two ways to enter scores   *)
(*     by hand,                                                            *)
(*   - the deletions that reach score_results through foreign keys.        *)
(* A target is what a score is about: a dataset row (scope = "DATASET") or *)
(* an experiment result (scope = "EXPERIMENT"); its source is the dataset  *)
(* or the experiment it belongs to.  Values and reasons are abstracted     *)
(* away: a row of score_results is its status and whether its              *)
(* dataset_row_id is set.                                                  *)
(***************************************************************************)
EXTENDS Naturals, Sequences, FiniteSets

CONSTANTS
  Evaluations,    \* ids of evaluations that may be created
  Scores,         \* the scores of the project
  Mapped,         \* scores with a template in scoreMappings
  Queueable,      \* RAGAS scores, and scores whose prompt has a model
  Permanent,      \* RAGAS scores, which cannot be deleted
  Targets,        \* ids of dataset rows or experiment results
  InitialTargets, \* those there are when the system starts
  Sources,        \* the dataset, or the experiments
  SourceOf,       \* the source of each target, in each scope
  Scopes,         \* values of EvaluationScope on offer
  Handlers,       \* deliveries handled at a time
  Importers,      \* imports running at a time
  Removals,       \* may things be deleted?
  MaxEntries,     \* bound: scores entered by hand
  MaxFaults       \* bound: failed publications, deaths, redeliveries

ASSUME ScoresAssumption ==
  Mapped \subseteq Scores /\ Permanent \subseteq Queueable /\ Queueable \subseteq Scores
ASSUME TargetsAssumption ==
  InitialTargets \subseteq Targets /\ SourceOf \in [Scopes -> [Targets -> Sources]]
ASSUME ScopeAssumption == Scopes \subseteq {"DATASET", "EXPERIMENT"}
ASSUME BoundsAssumption ==
  Removals \in BOOLEAN /\ MaxEntries \in Nat /\ MaxFaults \in Nat

Cells == Evaluations \X Scores \X Targets

\* A row of score_results for a cell.
ScoreResult == [status : {"PENDING", "DONE"}, row : BOOLEAN]

VARIABLES
  scope,        \* the scope of the evaluations; it never changes
  scores,       \* scores in the table
  sources,      \* sources in the table
  targets,      \* targets in the table
  datasetLive,  \* does the dataset exist?
  created,      \* evaluations ever inserted
  stored,       \* evaluations in the table
  covers,       \* the sources of each evaluation
  uses,         \* the scores of each evaluation
  mapped,       \* does the evaluation have scoreMappings?
  results,      \* [Cells -> Seq(ScoreResult)]: rows about a target
  orphans,      \* the rows left when their experiment result was deleted
  refused,      \* history: did the database refuse to delete a source?
  dispatch,     \* where postEvaluationToQueue is, per evaluation
  left,         \* sources it has still to read
  filled,       \* filledScoreMappings, as cells
  manual,       \* manualPendingResultSpecs, as cells
  todo,         \* queueableMappings not published yet, as cells
  jobs,         \* [Cells -> Nat]: messages in the evaluation-jobs queue
  answers,      \* [Cells -> Nat]: messages in the evaluation-results queue
  hpc,          \* where each delivery is: idle, update, insert, ack
  hmsg,         \* the cell it is about, <<>> while idle
  hat,          \* which row findOne returned
  import,       \* what each import found, <<>> when it is not running
  entered,      \* history: cells that were given a row of their own by hand
  unqueued,     \* history: cells left to be entered by hand
  lost,         \* history: cells whose job never reached the queue
  entries,      \* counter bounded by MaxEntries
  faults        \* counter bounded by MaxFaults

worldVars    == <<scope, scores, sources, targets, datasetLive>>
evalVars     == <<created, stored, covers, uses, mapped>>
tableVars    == <<results, orphans>>
dispatchVars == <<dispatch, left, filled, manual, todo>>
queueVars    == <<jobs, answers>>
handlerVars  == <<hpc, hmsg, hat>>
historyVars  == <<refused, entered, unqueued, lost>>
vars == <<worldVars, evalVars, tableVars, dispatchVars, queueVars, handlerVars,
          import, historyVars, entries, faults>>

\* What a target belongs to.
Source(t) == SourceOf[scope][t]

Inc(f, c) == [f EXCEPT ![c] = @ + 1]
Dec(f, c) == [f EXCEPT ![c] = @ - 1]

Fault == faults < MaxFaults /\ faults' = faults + 1
Entry == entries < MaxEntries /\ entries' = entries + 1

\* The foreign keys of a row about the cell hold.
Alive(c) == c[1] \in stored /\ c[2] \in scores /\ c[3] \in targets

Init ==
  /\ scope \in Scopes
  /\ scores = Scores
  /\ sources = {Source(t) : t \in Targets}
  /\ targets = InitialTargets
  /\ datasetLive = TRUE
  /\ created = {}
  /\ stored = {}
  /\ covers = [e \in Evaluations |-> {}]
  /\ uses = [e \in Evaluations |-> {}]
  /\ mapped = [e \in Evaluations |-> FALSE]
  /\ results = [c \in Cells |-> <<>>]
  /\ orphans = [c \in Cells |-> <<>>]
  /\ refused = FALSE
  /\ dispatch = [e \in Evaluations |-> "none"]
  /\ left = [e \in Evaluations |-> {}]
  /\ filled = [e \in Evaluations |-> {}]
  /\ manual = [e \in Evaluations |-> {}]
  /\ todo = [e \in Evaluations |-> {}]
  /\ jobs = [c \in Cells |-> 0]
  /\ answers = [c \in Cells |-> 0]
  /\ hpc = [h \in Handlers |-> "idle"]
  /\ hmsg = [h \in Handlers |-> <<>>]
  /\ hat = [h \in Handlers |-> 0]
  /\ import = [i \in Importers |-> <<>>]
  /\ entered = {}
  /\ unqueued = {}
  /\ lost = {}
  /\ entries = 0
  /\ faults = 0

-----------------------------------------------------------------------------
(***************************************************************************)
(* Evaluations come and go.                                                *)
(***************************************************************************)

\* The evaluation is saved with its join rows; posting starts with the
\* dataset and the experiments that were loaded.
Save(e, S, D, m) ==
  /\ e \notin created
  /\ created' = created \union {e}
  /\ stored' = stored \union {e}
  /\ uses' = [uses EXCEPT ![e] = S]
  /\ covers' = [covers EXCEPT ![e] = D]
  /\ mapped' = [mapped EXCEPT ![e] = m]
  /\ dispatch' = [dispatch EXCEPT ![e] = "load"]
  /\ UNCHANGED <<worldVars, tableVars, left, filled, manual, todo, queueVars,
                 handlerVars, import, historyVars, entries, faults>>

\* What loadScores, loadExperiments, loadDataset and ensureScopeConfiguration
\* let through: scores and sources that exist, at least one source.
Loadable == {D \in SUBSET sources : D # {}}

Create(e) == \E D \in Loadable, m \in BOOLEAN : Save(e, scores, D, m)

\* rerun: a new evaluation with the inputs the old one still has.
Rerun(src, e) ==
  /\ src \in stored
  /\ Save(e, uses[src] \intersect scores, covers[src] \intersect sources, mapped[src])

\* Score results go with their evaluation or their score.
Without(f, E, S) ==
  [c \in Cells |-> IF c[1] \in E \/ c[2] \in S THEN <<>> ELSE f[c]]

\* remove, and retention.
Remove(e) ==
  /\ Removals
  /\ e \in stored
  /\ stored' = stored \ {e}
  /\ results' = Without(results, {e}, {})
  /\ orphans' = Without(orphans, {e}, {})
  /\ UNCHANGED <<worldVars, created, covers, uses, mapped, dispatchVars,
                 queueVars, handlerVars, import, historyVars, entries, faults>>

\* ScoresService.remove: results and join rows cascade.
RemoveScore(s) ==
  /\ Removals
  /\ s \in scores \ Permanent
  /\ scores' = scores \ {s}
  /\ results' = Without(results, {}, {s})
  /\ orphans' = Without(orphans, {}, {s})
  /\ UNCHANGED <<scope, sources, targets, datasetLive, evalVars, dispatchVars, queueVars,
                 handlerVars, import, historyVars, entries, faults>>

-----------------------------------------------------------------------------
(***************************************************************************)
(* What is scored comes and goes.                                          *)
(***************************************************************************)

\* A row is added to the dataset, or a run reaches the next row.
AddTarget(t) ==
  /\ t \notin targets
  /\ Source(t) \in sources
  /\ targets' = targets \union {t}
  /\ UNCHANGED <<scope, scores, sources, datasetLive, evalVars, tableVars, dispatchVars,
                 queueVars, handlerVars, import, historyVars, entries, faults>>

CellsOf(D) == {c \in Cells : Source(c[3]) \in D}

Vanish(D) ==
  /\ sources' = sources \ D
  /\ targets' = {t \in targets : Source(t) \notin D}

\* ON DELETE SET NULL would leave these rows with neither reference, which
\* the check constraint score_result_reference forbids.
Unreferenced(D) ==
  {c \in CellsOf(D) : \E i \in DOMAIN results[c] : ~results[c][i].row}

\* Mutant: onDelete is CASCADE.
RemoveExperimentCascade(x) ==
  /\ Removals
  /\ scope = "EXPERIMENT"
  /\ x \in sources
  /\ Vanish({x})
  /\ results' = [c \in Cells |-> IF c \in CellsOf({x}) THEN <<>> ELSE results[c]]
  /\ UNCHANGED <<scope, scores, datasetLive, evalVars, orphans, dispatchVars, queueVars,
                 handlerVars, import, historyVars, entries, faults>>

\* An experiment is deleted with its results; their score results keep their
\* dataset row, or else the statement fails.
RemoveExperiment(x) ==
  /\ Removals
  /\ scope = "EXPERIMENT"
  /\ x \in sources
  /\ IF Unreferenced({x}) = {}
       THEN /\ Vanish({x})
            /\ orphans' = [c \in Cells |-> IF c \in CellsOf({x})
                                             THEN orphans[c] \o results[c] ELSE orphans[c]]
            /\ results' = [c \in Cells |-> IF c \in CellsOf({x}) THEN <<>> ELSE results[c]]
            /\ UNCHANGED refused
       ELSE /\ refused' = TRUE
            /\ UNCHANGED <<sources, targets, tableVars>>
  /\ UNCHANGED <<scope, scores, datasetLive, evalVars, dispatchVars, queueVars, handlerVars,
                 import, entered, unqueued, lost, entries, faults>>

\* DatasetsService.remove: rows and experiments cascade, unless a score
\* result refers to one of them.
RemoveDataset ==
  /\ Removals
  /\ datasetLive
  /\ IF \A c \in Cells : results[c] = <<>> /\ orphans[c] = <<>>
       THEN datasetLive' = FALSE /\ Vanish(sources) /\ UNCHANGED refused
       ELSE refused' = TRUE /\ UNCHANGED <<datasetLive, sources, targets>>
  /\ UNCHANGED <<scope, scores, evalVars, tableVars, dispatchVars, queueVars, handlerVars,
                 import, entered, unqueued, lost, entries, faults>>

-----------------------------------------------------------------------------
(***************************************************************************)
(* postEvaluationToQueue, one action per await.                            *)
(***************************************************************************)

TargetsIn(src) == {t \in targets : Source(t) = src}

\* loadEvaluationOrFail: the scores that are still there are kept.  Without
\* scoreMappings there is nothing to post.
Load(e) ==
  /\ dispatch[e] = "load"
  /\ uses' = [uses EXCEPT ![e] = @ \intersect scores]
  /\ left' = [left EXCEPT ![e] = covers[e]]
  /\ dispatch' = [dispatch EXCEPT ![e] =
                    CASE e \notin stored  -> "failed"
                      [] e \in stored /\ ~mapped[e] -> "unmapped"
                      [] e \in stored /\ mapped[e] ->
                           IF covers[e] = {} THEN "done" ELSE "fill"]
  /\ UNCHANGED <<worldVars, created, stored, covers, mapped, tableVars, filled, manual,
                 todo, queueVars, handlerVars, import, historyVars, entries, faults>>

\* Mutant: scores without a mapping get no rows.
NoManualScores(e, F) == {}

\* The scores no mapping was filled for.
ManualScores(e, F) == uses[e] \ {c[2] : c \in F}

\* A mapping for each score with a template and each target of the source.
MappingsOf(e, src) == {e} \X (uses[e] \intersect Mapped) \X TargetsIn(src)

\* fillScoreMappings, for the next source.
Fill(e) ==
  /\ dispatch[e] = "fill"
  /\ \E src \in left[e] :
       LET F    == filled[e] \union MappingsOf(e, src)
           rest == left[e] \ {src}
           hand == ManualScores(e, F) # {}
       IN /\ filled' = [filled EXCEPT ![e] = F]
          /\ left' = [left EXCEPT ![e] = IF rest = {} /\ hand THEN covers[e] ELSE rest]
          /\ dispatch' = [dispatch EXCEPT ![e] =
                            CASE rest # {}                     -> "fill"
                              [] rest = {} /\ hand             -> "pair"
                              [] rest = {} /\ ~hand /\ F # {}  -> "save"
                              [] rest = {} /\ ~hand /\ F = {}  -> "done"]
  /\ UNCHANGED <<worldVars, evalVars, tableVars, manual, todo, queueVars,
                 handlerVars, import, historyVars, entries, faults>>

\* getRowResultPairsForScope reads the sources again, for the other scores.
Pair(e) ==
  /\ dispatch[e] = "pair"
  /\ \E src \in left[e] :
       LET M    == manual[e] \union ({e} \X ManualScores(e, filled[e]) \X TargetsIn(src))
           rest == left[e] \ {src}
       IN /\ manual' = [manual EXCEPT ![e] = M]
          /\ left' = [left EXCEPT ![e] = rest]
          /\ dispatch' = [dispatch EXCEPT ![e] =
                            CASE rest # {}                               -> "pair"
                              [] rest = {} /\ filled[e] \union M # {}    -> "save"
                              [] rest = {} /\ filled[e] \union M = {}    -> "done"]
  /\ UNCHANGED <<worldVars, evalVars, tableVars, filled, todo, queueVars,
                 handlerVars, import, historyVars, entries, faults>>

Specs(e) == filled[e] \union manual[e]

\* Mutant: the PENDING entities are created and never saved.
CreatePendingUnsaved(e) ==
  /\ dispatch[e] = "save"
  /\ dispatch' = [dispatch EXCEPT ![e] = "resolve"]
  /\ UNCHANGED <<worldVars, evalVars, tableVars, left, filled, manual, todo, queueVars,
                 handlerVars, import, historyVars, entries, faults>>

\* Mutant: the PENDING rows do not name their dataset row.
CreatePendingRowless(e) ==
  /\ dispatch[e] = "save"
  /\ \A c \in Specs(e) : Alive(c)
  /\ results' = [c \in Cells |->
                  IF c \in Specs(e)
                    THEN Append(results[c], [status |-> "PENDING", row |-> FALSE])
                    ELSE results[c]]
  /\ dispatch' = [dispatch EXCEPT ![e] = "resolve"]
  /\ UNCHANGED <<worldVars, evalVars, orphans, left, filled, manual, todo, queueVars,
                 handlerVars, import, historyVars, entries, faults>>

\* createPendingScoreResults saves every row in one transaction; a foreign
\* key that fails is logged and posting ends.
CreatePending(e) ==
  /\ dispatch[e] = "save"
  /\ IF \A c \in Specs(e) : Alive(c)
       THEN /\ results' = [c \in Cells |->
                            IF c \in Specs(e)
                              THEN Append(results[c], [status |-> "PENDING", row |-> TRUE])
                              ELSE results[c]]
            /\ dispatch' = [dispatch EXCEPT ![e] = "resolve"]
       ELSE /\ dispatch' = [dispatch EXCEPT ![e] = "failed"]
            /\ UNCHANGED results
  /\ UNCHANGED <<worldVars, evalVars, orphans, left, filled, manual, todo, queueVars,
                 handlerVars, import, historyVars, entries, faults>>

\* resolvePromptVersionsAndConfigs reads the scores again; mappings of RAGAS
\* scores, and of those whose prompt has a model, are queued.
Resolve(e) ==
  /\ dispatch[e] = "resolve"
  /\ LET Q == {c \in filled[e] : c[2] \in Permanent \union (Queueable \intersect scores)} IN
       /\ todo' = [todo EXCEPT ![e] = Q]
       /\ unqueued' = unqueued \union (Specs(e) \ Q)
       /\ dispatch' = [dispatch EXCEPT ![e] = IF Q = {} THEN "done" ELSE "publish"]
  /\ UNCHANGED <<worldVars, evalVars, tableVars, left, filled, manual, queueVars,
                 handlerVars, import, refused, entered, lost, entries, faults>>

\* The publications of buildAndPostQueueMessages end in any order.
Sent(e, c) ==
  /\ dispatch[e] = "publish"
  /\ c \in todo[e]
  /\ todo' = [todo EXCEPT ![e] = @ \ {c}]
  /\ dispatch' = [dispatch EXCEPT ![e] = IF todo[e] = {c} THEN "done" ELSE "publish"]
  /\ UNCHANGED <<left, filled, manual>>

Publish(e, c) ==
  /\ Sent(e, c)
  /\ jobs' = Inc(jobs, c)
  /\ UNCHANGED <<worldVars, evalVars, tableVars, answers, handlerVars, import,
                 historyVars, entries, faults>>

\* A failed publication is logged; its message may be queued all the same.
PublishFails(e, c) ==
  /\ Fault
  /\ Sent(e, c)
  /\ \/ jobs' = Inc(jobs, c) /\ UNCHANGED lost
     \/ lost' = lost \union {c} /\ UNCHANGED jobs
  /\ UNCHANGED <<worldVars, evalVars, tableVars, answers, handlerVars, import,
                 refused, entered, unqueued, entries>>

\* The process dies while posting; nothing resumes it.
DispatchDies(e) ==
  /\ Fault
  /\ dispatch[e] \in {"load", "fill", "pair", "save", "resolve", "publish"}
  /\ dispatch' = [dispatch EXCEPT ![e] = "failed"]
  /\ todo' = [todo EXCEPT ![e] = {}]
  /\ lost' = CASE dispatch[e] = "resolve" -> lost \union Specs(e)
               [] dispatch[e] = "publish" -> lost \union todo[e]
               [] OTHER -> lost
  /\ UNCHANGED <<worldVars, evalVars, tableVars, left, filled, manual, queueVars,
                 handlerVars, import, refused, entered, unqueued, entries>>

-----------------------------------------------------------------------------
(***************************************************************************)
(* The worker (external).                                                  *)
(***************************************************************************)
WorkerAnswers(c) ==
  /\ jobs[c] > 0
  /\ jobs' = Dec(jobs, c)
  /\ answers' = Inc(answers, c)
  /\ UNCHANGED <<worldVars, evalVars, tableVars, dispatchVars, handlerVars, import,
                 historyVars, entries, faults>>

WorkerRepeats(c) ==
  /\ Fault
  /\ jobs[c] > 0
  /\ answers' = Inc(answers, c)
  /\ UNCHANGED <<worldVars, evalVars, tableVars, dispatchVars, jobs, handlerVars,
                 import, historyVars, entries>>

-----------------------------------------------------------------------------
(***************************************************************************)
(* EvaluationResultsProcessor.processResult.                               *)
(***************************************************************************)

\* Mutant: findOne looks for PENDING rows only.
MatchingPending(c) ==
  {i \in DOMAIN results[c] : results[c][i].row /\ results[c][i].status = "PENDING"}

\* The rows findOne may return: the answer names the dataset row, and the
\* experiment result when there is one.
Matching(c) == {i \in DOMAIN results[c] : results[c][i].row}

Find(h, c) ==
  /\ hpc[h] = "idle"
  /\ answers[c] > 0
  /\ answers' = Dec(answers, c)
  /\ hmsg' = [hmsg EXCEPT ![h] = c]
  /\ \/ /\ Matching(c) = {}
        /\ hpc' = [hpc EXCEPT ![h] = "insert"]
        /\ UNCHANGED hat
     \/ \E i \in Matching(c) :
          /\ hpc' = [hpc EXCEPT ![h] = "update"]
          /\ hat' = [hat EXCEPT ![h] = i]
  /\ UNCHANGED <<worldVars, evalVars, tableVars, dispatchVars, jobs, import,
                 historyVars, entries, faults>>

Release(h) ==
  /\ hpc' = [hpc EXCEPT ![h] = "idle"]
  /\ hmsg' = [hmsg EXCEPT ![h] = <<>>]
  /\ hat' = [hat EXCEPT ![h] = 0]

\* Mutant: errorBehavior is ACK.
RequeueAcks(h) ==
  /\ Release(h)
  /\ UNCHANGED answers

\* The handler threw: MessageHandlerErrorBehavior.REQUEUE.
Requeue(h) ==
  /\ Release(h)
  /\ answers' = Inc(answers, hmsg[h])

Saved(h) ==
  /\ hpc' = [hpc EXCEPT ![h] = "ack"]
  /\ UNCHANGED <<hmsg, hat, answers>>

\* Mutants: the status is not one of the enum's, or is not set.
SettleWrong(c, i) == [results EXCEPT ![c] = [@ EXCEPT ![i].status = "COMPLETED"]]
SettleValueOnly(c, i) == results

\* The row found gets its value and its status.
Settle(c, i) == [results EXCEPT ![c] = [@ EXCEPT ![i].status = "DONE"]]

\* Mutant: the error of save is not thrown again.
SaveExistingSwallows(h) ==
  /\ hpc[h] = "update"
  /\ results' = IF Alive(hmsg[h]) THEN Settle(hmsg[h], hat[h]) ELSE results
  /\ Saved(h)
  /\ UNCHANGED <<worldVars, evalVars, orphans, dispatchVars, jobs, import,
                 historyVars, entries, faults>>

\* save(existingResult): an id that was set to null or deleted meanwhile is
\* written again, and its foreign key refuses it.
SaveExisting(h) ==
  /\ hpc[h] = "update"
  /\ IF Alive(hmsg[h])
       THEN results' = Settle(hmsg[h], hat[h]) /\ Saved(h)
       ELSE UNCHANGED results /\ Requeue(h)
  /\ UNCHANGED <<worldVars, evalVars, orphans, dispatchVars, jobs, import,
                 historyVars, entries, faults>>

\* save(create(...)), under the same foreign keys.
SaveNew(h) ==
  /\ hpc[h] = "insert"
  /\ IF Alive(hmsg[h])
       THEN /\ results' = [results EXCEPT ![hmsg[h]] =
                             Append(@, [status |-> "DONE", row |-> TRUE])]
            /\ Saved(h)
       ELSE UNCHANGED results /\ Requeue(h)
  /\ UNCHANGED <<worldVars, evalVars, orphans, dispatchVars, jobs, import,
                 historyVars, entries, faults>>

Ack(h) ==
  /\ hpc[h] = "ack"
  /\ Release(h)
  /\ UNCHANGED <<worldVars, evalVars, tableVars, dispatchVars, queueVars, import,
                 historyVars, entries, faults>>

\* The process or its channel dies before the acknowledgement.
DeliveryDies(h) ==
  /\ Fault
  /\ hpc[h] # "idle"
  /\ Requeue(h)
  /\ UNCHANGED <<worldVars, evalVars, tableVars, dispatchVars, jobs, import,
                 historyVars, entries>>

-----------------------------------------------------------------------------
(***************************************************************************)
(* Scores entered by hand.                                                 *)
(***************************************************************************)

\* The scores and targets a request may name: ensureScoreOwnership and the
\* checks of the references.
Askable(e) == {e} \X (uses[e] \intersect scores)
                  \X {t \in targets : Source(t) \in covers[e]}

\* A row entered by hand names the dataset row, or the experiment result.
HandRow == [status |-> "DONE", row |-> scope = "DATASET"]

\* createResult inserts a row per score, whatever the cells already have.
CreateResult(e, C) ==
  /\ Entry
  /\ e \in stored
  /\ C # {}
  /\ C \subseteq Askable(e)
  /\ \A c, d \in C : c[3] = d[3]
  /\ results' = [c \in Cells |-> IF c \in C THEN Append(results[c], HandRow) ELSE results[c]]
  /\ entered' = entered \union C
  /\ UNCHANGED <<worldVars, evalVars, orphans, dispatchVars, queueVars, handlerVars,
                 import, refused, unqueued, lost, faults>>

\* An import is about one score, with references that exist and differ.
Importable(e) ==
  {C \in SUBSET Askable(e) : C # {} /\ \A c, d \in C : c[2] = d[2]}

\* importScoreResults finds the rows of one score: any of a cell's rows, or
\* none (0).
ImportFind(i, e, C) ==
  /\ Entry
  /\ e \in stored
  /\ import[i] = <<>>
  /\ \E at \in [C -> 0..Cardinality(UNION {DOMAIN results[c] : c \in C})] :
       /\ \A c \in C : IF results[c] = <<>> THEN at[c] = 0 ELSE at[c] \in DOMAIN results[c]
       /\ import' = [import EXCEPT ![i] = <<at>>]
  /\ UNCHANGED <<worldVars, evalVars, tableVars, dispatchVars, queueVars, handlerVars,
                 historyVars, faults>>

\* It then saves them in one transaction, updating what it found.
ImportSave(i) ==
  /\ import[i] # <<>>
  /\ LET at == import[i][1]
         C  == DOMAIN at
     IN IF \A c \in C : Alive(c)
          THEN /\ results' = [c \in Cells |->
                    IF c \notin C THEN results[c]
                    ELSE IF at[c] = 0 THEN Append(results[c], HandRow)
                    ELSE [results[c] EXCEPT ![at[c]].status = "DONE"]]
               /\ entered' = entered \union {c \in C : at[c] = 0}
          ELSE UNCHANGED <<results, entered>>
  /\ import' = [import EXCEPT ![i] = <<>>]
  /\ UNCHANGED <<worldVars, evalVars, orphans, dispatchVars, queueVars, handlerVars,
                 refused, unqueued, lost, entries, faults>>

-----------------------------------------------------------------------------
Request ==
  \/ \E src, e \in Evaluations : Rerun(src, e)
  \/ \E e \in Evaluations : Create(e) \/ Remove(e)
  \/ \E s \in Scores : RemoveScore(s)
  \/ \E t \in Targets : AddTarget(t)
  \/ \E x \in Sources : RemoveExperiment(x)
  \/ RemoveDataset
  \/ \E e \in Evaluations : \E C \in SUBSET Askable(e) : CreateResult(e, C)
  \/ \E i \in Importers, e \in Evaluations : \E C \in Importable(e) : ImportFind(i, e, C)

DispatchStep(e) ==
  \/ Load(e) \/ Fill(e) \/ Pair(e) \/ CreatePending(e) \/ Resolve(e)
  \/ \E c \in Cells : Publish(e, c)

HandlerStep(h) ==
  \/ \E c \in Cells : Find(h, c)
  \/ SaveExisting(h)
  \/ SaveNew(h)
  \/ Ack(h)

Failure ==
  \/ \E e \in Evaluations, c \in Cells : PublishFails(e, c)
  \/ \E e \in Evaluations : DispatchDies(e)
  \/ \E c \in Cells : WorkerRepeats(c)
  \/ \E h \in Handlers : DeliveryDies(h)

Next ==
  \/ Request
  \/ \E e \in Evaluations : DispatchStep(e)
  \/ \E c \in Cells : WorkerAnswers(c)
  \/ \E h \in Handlers : HandlerStep(h)
  \/ \E i \in Importers : ImportSave(i)
  \/ Failure

Spec == Init /\ [][Next]_vars

\* As in ExperimentRun: awaits resume, the worker answers, the broker
\* delivers; nothing is assumed of requests and failures.
Fairness ==
  /\ \A e \in Evaluations : WF_vars(DispatchStep(e))
  /\ \A c \in Cells : WF_vars(WorkerAnswers(c))
  /\ \A h \in Handlers : WF_vars(HandlerStep(h))

FairSpec == Spec /\ Fairness

-----------------------------------------------------------------------------
(***************************************************************************)
(* Properties.                                                             *)
(***************************************************************************)

\* The values of the variables; a delivery in progress is about a cell.
TypeOK ==
  /\ scope \in Scopes
  /\ scores \subseteq Scores
  /\ sources \subseteq Sources
  /\ targets \subseteq Targets
  /\ datasetLive \in BOOLEAN
  /\ stored \subseteq created
  /\ created \subseteq Evaluations
  /\ covers \in [Evaluations -> SUBSET Sources]
  /\ uses \in [Evaluations -> SUBSET Scores]
  /\ mapped \in [Evaluations -> BOOLEAN]
  /\ results \in [Cells -> Seq(ScoreResult)]
  /\ orphans \in [Cells -> Seq(ScoreResult)]
  /\ refused \in BOOLEAN
  /\ dispatch \in [Evaluations -> {"none", "load", "unmapped", "fill", "pair", "save",
                                   "resolve", "publish", "done", "failed"}]
  /\ left \in [Evaluations -> SUBSET Sources]
  /\ filled \in [Evaluations -> SUBSET Cells]
  /\ manual \in [Evaluations -> SUBSET Cells]
  /\ todo \in [Evaluations -> SUBSET Cells]
  /\ jobs \in [Cells -> Nat]
  /\ answers \in [Cells -> Nat]
  /\ hpc \in [Handlers -> {"idle", "update", "insert", "ack"}]
  /\ hmsg \in [Handlers -> Cells \union {<<>>}]
  /\ \A h \in Handlers : hpc[h] # "idle" => hmsg[h] \in Cells
  /\ hat \in [Handlers -> Nat]
  /\ entered \subseteq Cells
  /\ unqueued \subseteq Cells
  /\ lost \subseteq Cells
  /\ entries \in Nat
  /\ faults \in Nat

Processing(c) == \E h \in Handlers : hpc[h] # "idle" /\ hmsg[h] = c

InFlight(c) == jobs[c] > 0 \/ answers[c] > 0 \/ Processing(c)

\* While its evaluation, score and target exist, nothing about a cell is
\* queued, answered or processed unless it has a row that names its dataset
\* row: the PENDING rows are saved before a job is published, and nothing
\* else deletes them or clears their references.
NothingInFlightWithoutRow ==
  \A c \in Cells : Alive(c) /\ InFlight(c) => Matching(c) # {}

\* So processResult creates a row only when a foreign key will refuse it.
CreateBranchOnlyWhenGone ==
  \A h \in Handlers : hpc[h] = "insert" => ~Alive(hmsg[h])

\* Put together: an answer finds the row it is about, or nothing to be about.
AnswersFindTheirRow == NothingInFlightWithoutRow /\ CreateBranchOnlyWhenGone

\* A cell gets a second row only from createResult, or from an import that
\* looked before the PENDING row was there; no interleaving of deliveries,
\* posting and imports makes one otherwise.
OneRowUnlessEntered == \A c \in Cells : Len(results[c]) > 1 => c \in entered

\* A PENDING row waits for its job to be published or answered, or is one to
\* be entered by hand, or lost its job; when scores are entered for dataset
\* rows, findOne may return the entered row and leave the PENDING one behind.
PendingIsAccountedFor ==
  \A c \in Cells :
    (\E i \in DOMAIN results[c] : results[c][i].status = "PENDING") =>
      \/ dispatch[c[1]] = "resolve"
      \/ c \in todo[c[1]]
      \/ InFlight(c)
      \/ c \in unqueued \union lost
      \/ scope = "DATASET" /\ c \in entered

\* When posting ends, what was there to be scored from the start and still is
\* has a row for every score, the ones without a mapping included.
SnapshotIsScored ==
  \A e \in stored :
    dispatch[e] = "done" =>
      \A s \in uses[e] \intersect scores, t \in InitialTargets \intersect targets :
        Source(t) \in covers[e] => results[<<e, s, t>>] # <<>>

\* Answers about things that were deleted, not acknowledged yet.
Undrained ==
  {c \in Cells : /\ ~Alive(c)
                 /\ c[1] \in created
                 /\ \/ answers[c] > 0
                    \/ \E h \in Handlers : hpc[h] \in {"update", "insert"} /\ hmsg[h] = c}

\* An answer that comes after its evaluation, score or target was deleted is
\* refused and requeued for ever.
DeletedAnswersNeverDrain == [][Undrained \subseteq Undrained']_vars

\* What is scored can be deleted: the entity's onDelete is SET NULL.
DeletionsSucceed == ~refused

Settled(c) ==
  /\ results[c] # <<>>
  /\ \A i \in DOMAIN results[c] : results[c][i].status = "DONE"

\* An evaluation with mappings comes to an end: posting failed, or every cell
\* of the initial targets has its score, is to be entered by hand, or lost
\* its job.
EvaluationSettles ==
  \A e \in Evaluations :
    (e \in created) ~>
      \/ dispatch[e] \in {"failed", "unmapped"}
      \/ /\ dispatch[e] = "done"
         /\ \A s \in uses[e], t \in InitialTargets :
              Source(t) \in covers[e] =>
                LET c == <<e, s, t>> IN Settled(c) \/ c \in unqueued \union lost

\* The abstract board, on which the rows of deleted targets still count.
PhaseOf(e) == IF e \notin created THEN "new" ELSE IF e \in stored THEN "open" ELSE "gone"

CellOf(s) ==
  IF s = <<>> THEN "absent"
  ELSE IF \E i \in DOMAIN s : s[i].status = "DONE" THEN "done" ELSE "pending"

Board == INSTANCE ScoreBoard WITH
  phase <- [e \in Evaluations |-> PhaseOf(e)],
  offered <- scores,
  board <- [c \in Cells |-> CellOf(results[c] \o orphans[c])]

\* Every interleaving of requests, posting, answers, entries and deletions
\* looks like the board: no score is undone, none outlives its evaluation,
\* none is erased by deleting what it is about.
ImplementsBoard == Board!Spec
=============================================================================
