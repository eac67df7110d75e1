------------------------------- MODULE Workbench -------------------------------
(***************************************************************************)
(* The services people work with in a project: prompts, queues of traces   *)
(* to annotate, datasets, the statistics of evaluations, the comparison of *)
(* experiments, and the retention of evaluations and experiments.  They    *)
(* share no state.                                                         *)
(***************************************************************************)
EXTENDS Integers, FiniteSets, Sequences, OnePart

CONSTANTS
  \* PromptVersions and AnnotationQueue
  Requests, PromptIds, PromptNames, MaxVersions, MaxPromptCalls,
  Items, TraceSources, MaxQueued, MaxNotes, MaxQueueCalls,
  \* Datasets
  DatasetIds, RowIds, Values, Headers, MaxRecords, ImportBatch, PageLimit,
  \* StatisticsCache
  Readers, MaxScores, StreamBatch,
  \* ScoreComparison
  TextOf, Codes, Scales, Denominator, MaxPairs,
  \* Retention
  Jobs, LastProject, RetentionBatch, MaxSettings,
  Experiments, Evaluations, NewOnes, ProjectOf, AgeOf, About

ASSUME VersionsAssumption == MaxVersions \in Nat
ASSUME QueueAssumption == MaxQueued \in Nat /\ MaxNotes \in Nat /\ MaxQueueCalls \in Nat
ASSUME DatasetsAssumption ==
  /\ RowIds \subseteq Nat /\ Values \subseteq Nat /\ Headers \subseteq Seq(STRING)
  /\ ImportBatch \in Nat \ {0} /\ PageLimit \in Nat \ {0} /\ MaxRecords \in Nat
ASSUME RetentionAssumption ==
  /\ LastProject \in Nat \ {0}
  /\ IsFiniteSet(Experiments) /\ IsFiniteSet(Evaluations)
  /\ Experiments \cap Evaluations = {}
ASSUME StreamAssumption == MaxScores \in Nat /\ StreamBatch \in Nat \ {0}

\* Texts tell numbers apart, a score has a text of a number, a scale has options,
\* and the quotients of a comparison have a common denominator.
ASSUME ComparisonAssumption ==
  /\ DOMAIN TextOf \subseteq Int
  /\ \A v, w \in DOMAIN TextOf : TextOf[v] = TextOf[w] => v = w
  /\ Codes \subseteq {TextOf[v] : v \in DOMAIN TextOf}
  /\ Scales \subseteq Seq([label : STRING, value : DOMAIN TextOf]) \ {<<>>}
  /\ MaxPairs \in Nat /\ Denominator \in Nat \ {0}
  /\ \A n \in 1 .. MaxPairs : Denominator % n = 0

VARIABLES
  prompts, versions, used, promptRequest, promised, stale, promptOverlap,
  queued, notes, noteAnswers, template, sources, given, asking, accepted, disturbed,
  datasets, datasetRows, idsUsed, saving, import, logged, files, lostImports, removedDatasets, turner,
  scoring, order, done, deleted, entry, entering, reader, settled, overtaken,
  scale, pairs,
  evaluationDays, experimentDays, evaluations, experiments, settings, entered, job, report,
  purged, collateral

Prompts == INSTANCE PromptVersions WITH
  MaxCalls <- MaxPromptCalls, request <- promptRequest, overlapped <- promptOverlap

Annotations == INSTANCE AnnotationQueue WITH
  Sources <- TraceSources, MaxRows <- MaxQueued, MaxCalls <- MaxQueueCalls,
  answers <- noteAnswers

Data == INSTANCE Datasets WITH
  Ids <- DatasetIds, BatchSize <- ImportBatch, Limit <- PageLimit,
  rows <- datasetRows, used <- idsUsed, lost <- lostImports, removed <- removedDatasets,
  reader <- turner

Statistics == INSTANCE StatisticsCache WITH MaxRows <- MaxScores, BatchSize <- StreamBatch

Paired == INSTANCE ScoreComparison

Policies == INSTANCE Retention

promptVars == <<prompts, versions, used, promptRequest, promised, stale, promptOverlap>>
annotationVars ==
  <<queued, notes, noteAnswers, template, sources, given, asking, accepted, disturbed>>
dataVars   ==
  <<datasets, datasetRows, idsUsed, saving, import, logged, files, lostImports, removedDatasets, turner>>
statVars   == <<scoring, order, done, deleted, entry, entering, reader, settled, overtaken>>
comparisonVars == <<scale, pairs>>
retentionVars == <<evaluationDays, experimentDays, evaluations, experiments, settings, entered,
                   job, report, purged, collateral>>

-----------------------------------------------------------------------------
\* The promoted version of a prompt is its own and stays promoted, and its
\* versions are numbered without gaps, through requests that overlap
\* (PromptsService).
PromptSafety == part = "prompts" => Prompts!PromptSafety

\* The answers of an annotation are those accepted last, and a trace is queued
\* once, unless requests overlap (AnnotationQueuesService and its handlers).
AnnotationSafety == part = "annotations" => Annotations!AnnotationSafety

\* A dataset's rows fit its header, exports fit the dataset they name, an import
\* is there as a whole or not at all, and its pages show every row
\* (DatasetsService).
DatasetSafety == part = "datasets" => Data!DatasetSafety

\* The statistics of an evaluation count what was scored, and a cached count that
\* is out of date is so for a known reason (EvaluationStatisticsService).
StatisticsSafety == part = "statistics" => Statistics!StatisticsSafety

\* A comparison's measures are defined, change sign when the two experiments
\* change places, and on a clear scale say what the pairs say
\* (calculateNominalComparisonStatistics, calculateOrdinalComparisonStatistics).
ComparisonSafety == part = "comparison" => Paired!ComparisonSafety

\* The daily job deletes nothing younger than the setting it read, except the
\* evaluations of experiments whose time has come, and reports what it deleted
\* (RetentionService).
RetentionSafety == part = "retention" => Policies!RetentionSafety
=============================================================================
