------------------------------- MODULE Retention -------------------------------
(***************************************************************************)
(* The retention job: policies run one after another, each over projects,  *)
(* each project in batches of find and delete, with no transaction, while  *)
(* requests go on and another replica runs the same job.  Ages do not      *)
(* change: an age is the shortest retention that reaches the row, 1 being  *)
(* younger than any, 2 older than a short retention, 3 older than the      *)
(* default.                                                                *)
(***************************************************************************)
EXTENDS Naturals, FiniteSets, Sequences, Functions

CONSTANTS
  Jobs,          \* runs of the job under way at a time
  LastProject,   \* the projects are 1 .. LastProject, in the order found
  Experiments,
  Evaluations,
  ProjectOf,     \* the project of an experiment or evaluation
  AgeOf,         \* its age
  About,         \* the experiments an evaluation is about; none in the scope of a dataset
  NewOnes,       \* evaluations that are created later
  RetentionBatch, \* BATCH_SIZE
  MaxSettings    \* bound: changes of the settings

Projects == 1 .. LastProject

VARIABLES
  evaluationDays, \* evaluationRetentionDays of each project
  experimentDays, \* experimentRetentionDays of each project
  evaluations,    \* the table
  experiments,    \* the table
  settings,       \* counter bounded by MaxSettings
  entered,        \* evaluations of experiments with a result entered by hand
  job,            \* what each run of the job holds
  report,         \* history: evaluations and experiments recorded by the audit, by project
  purged,         \* history: what each project lost to the job
  collateral      \* history: rows that went before their time, by which run and policy

tablesOfRetention == <<evaluationDays, experimentDays, evaluations, experiments, settings, entered>>
retentionVars == <<tablesOfRetention, job, report, purged, collateral>>

Asleep == [pc |-> "asleep", at |-> 0, days |-> <<>>, listed |-> {}, batch |-> {},
           batchDeleted |-> 0, evaluationsDeleted |-> 0, failed |-> FALSE]

Init ==
  /\ evaluationDays = [p \in Projects |-> "unset"]
  /\ experimentDays = [p \in Projects |-> "unset"]
  /\ evaluations = Evaluations \ NewOnes
  /\ experiments = Experiments
  /\ settings = 0
  /\ entered = {}
  /\ job = [j \in Jobs |-> Asleep]
  /\ report = [p \in Projects |-> 0]
  /\ purged = [p \in Projects |-> {}]
  /\ collateral = {}

\* Is a row of that age older than the retention?  Unset is the default.
Reached(days, age) == age >= (IF days = "short" THEN 2 ELSE 3)

-----------------------------------------------------------------------------
(***************************************************************************)
(* Requests.                                                               *)
(***************************************************************************)
UpdateProjectRetention(p, days) ==
  /\ settings < MaxSettings
  /\ settings' = settings + 1
  /\ \/ /\ evaluationDays' = [evaluationDays EXCEPT ![p] = days]
        /\ UNCHANGED experimentDays
     \/ /\ experimentDays' = [experimentDays EXCEPT ![p] = days]
        /\ UNCHANGED evaluationDays
  /\ UNCHANGED <<evaluations, experiments, entered, job, report, purged, collateral>>

CreateEvaluation(v) ==
  /\ v \in NewOnes \ (evaluations \union UNION Range(purged))
  /\ About[v] \subseteq experiments
  /\ evaluations' = evaluations \union {v}
  /\ UNCHANGED <<evaluationDays, experimentDays, settings, experiments, entered, job, report, purged, collateral>>

\* A score of an experiment's result is entered by hand: its row refers to
\* that result alone, and from then on the experiment cannot be deleted.
EnterResult(v) ==
  /\ v \in evaluations \ entered
  /\ About[v] \intersect experiments # {}
  /\ entered' = entered \union {v}
  /\ UNCHANGED <<evaluationDays, experimentDays, settings, evaluations, experiments, job, report, purged, collateral>>

-----------------------------------------------------------------------------
(***************************************************************************)
(* The job.                                                                *)
(***************************************************************************)
Running(j, pc) == job[j].pc = pc
Goto(j, to) == job' = [job EXCEPT ![j] = to]

\* A policy whose loop comes to project p.
Turn(j, pc, p) == [job[j] EXCEPT !.pc = pc, !.at = p, !.batchDeleted = 0]

\* The policies for audit logs and invitations read and write other tables.
\* The projects of a policy are read once, with their settings.
StartEvaluations(j) ==
  /\ Running(j, "asleep")
  /\ Goto(j, [Asleep EXCEPT !.pc = "findEvaluations", !.at = 1, !.days = evaluationDays])
  /\ UNCHANGED <<tablesOfRetention, report, purged, collateral>>

\* Mutant: any evaluation of the project is taken.
FindEvaluationsAnyAge(j) ==
  LET all == {v \in evaluations : ProjectOf[v] = job[j].at} IN
  /\ Running(j, "findEvaluations")
  /\ Goto(j, IF all = {} THEN [job[j] EXCEPT !.pc = "recordEvaluations"]
             ELSE [job[j] EXCEPT !.pc = "deleteEvaluations", !.batch = all])
  /\ UNCHANGED <<tablesOfRetention, report, purged, collateral>>

\* Find a batch; an empty one ends the loop of the project.
FindEvaluations(j) ==
  LET p == job[j].at
      old == {v \in evaluations : ProjectOf[v] = p /\ Reached(job[j].days[p], AgeOf[v])}
  IN /\ Running(j, "findEvaluations")
     /\ \/ old = {} /\ Goto(j, [job[j] EXCEPT !.pc = "recordEvaluations"])
        \/ \E batch \in SUBSET old :
             /\ Cardinality(batch) = IF Cardinality(old) < RetentionBatch THEN Cardinality(old) ELSE RetentionBatch
             /\ batch # {}
             /\ Goto(j, [job[j] EXCEPT !.pc = "deleteEvaluations", !.batch = batch])
     /\ UNCHANGED <<tablesOfRetention, report, purged, collateral>>

Purge(p, gone) == purged' = [purged EXCEPT ![p] = @ \union gone]

\* What goes although the retention of its kind does not reach it.
Early(j, policy, days, gone) ==
  collateral' = collateral \union
    {[row |-> r, job |-> j, policy |-> policy] :
       r \in {x \in gone : ~Reached(days[job[j].at], AgeOf[x])}}

\* The rows that are still there are deleted, and the whole batch is counted.
DeleteEvaluations(j) ==
  LET p == job[j].at IN
  /\ Running(j, "deleteEvaluations")
  /\ evaluations' = evaluations \ job[j].batch
  /\ entered' = entered \ job[j].batch
  /\ Purge(p, job[j].batch \intersect evaluations)
  /\ Early(j, "evaluations", job[j].days, job[j].batch \intersect evaluations)
  /\ Goto(j, [job[j] EXCEPT !.pc = "findEvaluations", !.batchDeleted = @ + Cardinality(job[j].batch)])
  /\ UNCHANGED <<evaluationDays, experimentDays, settings, experiments, report>>

\* Projects whose experimentRetentionDays IS NULL are not found: NULL < 999999
\* is not true.  (So the default read below for a NULL never applies, where the
\* comments of the controller and its tests promise 90 days.)
WithSetting == {p \in Projects : experimentDays[p] # "unset"}

NextProject(ps, p) == {q \in ps : q > p /\ \A o \in ps : o > p => o >= q}

\* The loop over the experiments of the first project with a setting.
StartExperiments(j) ==
  IF WithSetting = {} THEN [job[j] EXCEPT !.pc = "done"]
  ELSE [job[j] EXCEPT !.pc = "findExperiments", !.batchDeleted = 0, !.days = experimentDays,
                      !.at = CHOOSE p \in WithSetting : \A q \in WithSetting : p <= q]

\* Mutant: the record of the last project is left out.
RecordEvaluationsButLast(j) ==
  LET p == job[j].at IN
  /\ Running(j, "recordEvaluations")
  /\ report' = IF p = LastProject THEN report ELSE [report EXCEPT ![p] = @ + job[j].batchDeleted]
  /\ Goto(j, IF p < LastProject THEN Turn(j, "findEvaluations", p + 1) ELSE StartExperiments(j))
  /\ UNCHANGED <<tablesOfRetention, purged, collateral>>

RecordEvaluations(j) ==
  LET p == job[j].at IN
  /\ Running(j, "recordEvaluations")
  /\ report' = [report EXCEPT ![p] = @ + job[j].batchDeleted]
  /\ Goto(j, IF p < LastProject THEN Turn(j, "findEvaluations", p + 1) ELSE StartExperiments(j))
  /\ UNCHANGED <<tablesOfRetention, purged, collateral>>

\* Mutant: any experiment of the project is taken.
OldExperimentsAnyAge(j) == {x \in experiments : ProjectOf[x] = job[j].at}

OldExperiments(j) ==
  {x \in experiments : ProjectOf[x] = job[j].at /\ Reached(job[j].days[job[j].at], AgeOf[x])}

\* The experiments to delete are listed, for the sake of their evaluations.
FindExperiments(j) ==
  /\ Running(j, "findExperiments")
  /\ Goto(j, [job[j] EXCEPT !.listed = OldExperiments(j),
                            !.pc = IF OldExperiments(j) = {} THEN "batchExperiments" ELSE "findReferring"])
  /\ UNCHANGED <<tablesOfRetention, report, purged, collateral>>

\* Mutant: every evaluation of the project's experiments is taken.
FindReferringAll(j) ==
  LET refer == {v \in evaluations : ProjectOf[v] = job[j].at /\ About[v] # {}} IN
  /\ Running(j, "findReferring")
  /\ Goto(j, [job[j] EXCEPT !.batch = refer,
                            !.pc = IF refer = {} THEN "batchExperiments" ELSE "deleteReferring"])
  /\ UNCHANGED <<tablesOfRetention, report, purged, collateral>>

FindReferring(j) ==
  LET refer == {v \in evaluations : ProjectOf[v] = job[j].at /\ About[v] \intersect job[j].listed # {}} IN
  /\ Running(j, "findReferring")
  /\ Goto(j, [job[j] EXCEPT !.batch = refer,
                            !.pc = IF refer = {} THEN "batchExperiments" ELSE "deleteReferring"])
  /\ UNCHANGED <<tablesOfRetention, report, purged, collateral>>

\* Mutant: the results entered by hand outlive their evaluation.
DeleteReferringKeepsEntered(j) ==
  LET gone == job[j].batch \intersect evaluations IN
  /\ Running(j, "deleteReferring")
  /\ evaluations' = evaluations \ gone
  /\ Purge(job[j].at, gone)
  /\ Goto(j, [job[j] EXCEPT !.pc = "batchExperiments"])
  /\ UNCHANGED <<evaluationDays, experimentDays, settings, experiments, entered, report, collateral>>

\* evaluationsDeleted is not reset from project to project.
DeleteReferring(j) ==
  LET gone == job[j].batch \intersect evaluations IN
  /\ Running(j, "deleteReferring")
  /\ evaluations' = evaluations \ gone
  /\ entered' = entered \ gone
  /\ Purge(job[j].at, gone)
  /\ Early(j, "experiments", evaluationDays, gone)
  /\ Goto(j, [job[j] EXCEPT !.pc = "batchExperiments",
                            !.evaluationsDeleted = @ + Cardinality(job[j].batch)])
  /\ UNCHANGED <<evaluationDays, experimentDays, settings, experiments, report>>

BatchExperiments(j) ==
  /\ Running(j, "batchExperiments")
  /\ \/ OldExperiments(j) = {} /\ Goto(j, [job[j] EXCEPT !.pc = "recordExperiments"])
     \/ \E batch \in SUBSET OldExperiments(j) :
          /\ batch # {}
          /\ Cardinality(batch) <= RetentionBatch
          /\ Cardinality(batch) < RetentionBatch => batch = OldExperiments(j)
          /\ Goto(j, [job[j] EXCEPT !.pc = "deleteExperiments", !.batch = batch])
  /\ UNCHANGED <<tablesOfRetention, report, purged, collateral>>

\* A result entered by hand refuses the whole batch: the policy fails, for
\* this project and those after it, and the next policy goes on.
DeleteExperiments(j) ==
  LET batch == job[j].batch
      refused == \E v \in entered : About[v] \intersect batch \intersect experiments # {}
  IN /\ Running(j, "deleteExperiments")
     /\ IF refused
        THEN /\ Goto(j, [job[j] EXCEPT !.pc = "done", !.failed = TRUE])
             /\ UNCHANGED <<experiments, purged, collateral>>
        ELSE /\ experiments' = experiments \ batch
             /\ Purge(job[j].at, batch \intersect experiments)
             /\ Early(j, "experiments", job[j].days, batch \intersect experiments)
             /\ Goto(j, [job[j] EXCEPT !.pc = "batchExperiments", !.batchDeleted = @ + Cardinality(batch)])
     /\ UNCHANGED <<evaluationDays, experimentDays, settings, evaluations, entered, report>>

RecordExperiments(j) ==
  LET p == job[j].at
      found == {q \in Projects : job[j].days[q] # "unset"}
  IN /\ Running(j, "recordExperiments")
     /\ report' = [report EXCEPT ![p] = @ + job[j].batchDeleted + job[j].evaluationsDeleted]
     /\ \/ NextProject(found, p) = {} /\ Goto(j, [job[j] EXCEPT !.pc = "done"])
        \/ \E q \in NextProject(found, p) : Goto(j, Turn(j, "findExperiments", q))
     /\ UNCHANGED <<tablesOfRetention, purged, collateral>>

Next ==
  \/ \E p \in Projects, days \in {"unset", "short", "default"} : UpdateProjectRetention(p, days)
  \/ \E v \in Evaluations : CreateEvaluation(v) \/ EnterResult(v)
  \/ \E j \in Jobs :
       \/ StartEvaluations(j) \/ FindEvaluations(j) \/ DeleteEvaluations(j) \/ RecordEvaluations(j)
       \/ FindExperiments(j) \/ FindReferring(j) \/ DeleteReferring(j)
       \/ BatchExperiments(j) \/ DeleteExperiments(j) \/ RecordExperiments(j)

Spec == Init /\ [][Next]_retentionVars

-----------------------------------------------------------------------------
(***************************************************************************)
(* Properties.                                                             *)
(***************************************************************************)
TypeOK ==
  /\ evaluationDays \in [Projects -> {"unset", "short", "default"}]
  /\ experimentDays \in [Projects -> {"unset", "short", "default"}]
  /\ evaluations \subseteq Evaluations
  /\ experiments \subseteq Experiments
  /\ entered \subseteq evaluations
  /\ \A j \in Jobs : job[j].batch \subseteq Evaluations \union Experiments
  /\ report \in [Projects -> Nat]
  /\ purged \in [Projects -> SUBSET (Evaluations \union Experiments)]

\* Each policy deletes what the retention it read for the project reaches, and
\* nothing younger, with one exception: the policy for experiments takes the
\* evaluations about the experiments it is going to delete, however young.  Of
\* such an evaluation an experiment is then gone as well, unless the run that
\* deleted the evaluation is still at it or its policy failed.
YoungGoWithTheirExperiments ==
  \A c \in collateral :
    /\ c.policy = "experiments" /\ c.row \in Evaluations
    /\ \/ About[c.row] \ experiments # {}
       \/ job[c.job].pc # "done"
       \/ job[c.job].failed

\* What the job has deleted in a project is in the audit records of that
\* project, or about to be, unless the policy failed.  (More may be recorded:
\* two runs count the same batch, and the evaluations deleted for a project
\* are counted again for the next.)
NothingUnrecorded ==
  \A p \in Projects :
    (\A j \in Jobs : job[j].pc \in {"asleep", "done"} /\ ~job[j].failed)
      => report[p] >= Cardinality(purged[p])

\* What the job deletes, and that it says so.
RetentionSafety ==
  TypeOK /\ YoungGoWithTheirExperiments /\ NothingUnrecorded
=============================================================================
