---------------------------- MODULE ExperimentRun ----------------------------
(***************************************************************************)
(* One experiment run from the request to the last answer:                 *)
(*   - ExperimentsService.create / rerun / remove / createResult,          *)
(*   - ExperimentJobsService.queueForExperiment, which pages through the   *)
(*     dataset, saves PENDING results and publishes one job per row,       *)
(*   - the broker (at least once, requeue when a handler throws), and the  *)
(*     worker that answers jobs, both outside the repository,              *)
(*   - ExperimentResultsProcessor.processResult, which finds the row and   *)
(*     saves it in two database calls, several deliveries at a time.       *)
(* There is one dataset.  The text of a result is abstracted away: a row   *)
(* of experiment_results is its status.                                    *)
(***************************************************************************)
EXTENDS Naturals, Sequences, FiniteSets

CONSTANTS
  Experiments,    \* ids of experiments that may be created
  Rows,           \* ids of dataset rows
  InitialRows,    \* the rows in the dataset when the system starts
  Handlers,       \* deliveries handled at a time (prefetchCount x replicas)
  BatchSize,      \* BATCH_SIZE of queueForExperiment
  ScanOrders,     \* the orders an unordered SELECT may return rows in
  Removals,       \* may experiments and the dataset be deleted?
  MaxApiResults,  \* bound: results inserted through the public API
  MaxFaults       \* bound: failed publications, deaths, redeliveries

ASSUME InitialRowsAssumption == InitialRows \subseteq Rows
ASSUME BatchSizeAssumption == BatchSize \in Nat \ {0}
ASSUME ScanOrdersAssumption == ScanOrders \subseteq [Rows -> Nat]
ASSUME RemovalsAssumption == Removals \in BOOLEAN
ASSUME BoundsAssumption == MaxApiResults \in Nat /\ MaxFaults \in Nat

Pairs == Experiments \X Rows
Status == {"PENDING", "DONE"}

VARIABLES
  datasetLive,  \* does the dataset exist?
  rows,         \* rows of the dataset
  created,      \* experiments ever inserted
  stored,       \* experiments in the table now
  results,      \* [Pairs -> Seq(Status)]: experiment_results, by insertion
  dispatch,     \* where queueForExperiment is, per experiment
  skip,         \* its offset
  todo,         \* the page it is working on
  jobs,         \* [Pairs -> Nat]: messages in the experiment-jobs queue
  answers,      \* [Pairs -> Nat]: messages in the experiment-results queue
  hpc,          \* where each delivery is: idle, update, insert, ack
  hmsg,         \* the pair it is about, <<>> while idle
  hat,          \* which result row findOne returned
  lost,         \* history: pairs whose job never reached the queue
  apiResults,   \* counter bounded by MaxApiResults
  faults        \* counter bounded by MaxFaults

dbVars       == <<datasetLive, rows, created, stored>>
dispatchVars == <<dispatch, skip, todo>>
handlerVars  == <<hpc, hmsg, hat>>
vars == <<dbVars, results, dispatchVars, jobs, answers, handlerVars,
          lost, apiResults, faults>>

Inc(f, p) == [f EXCEPT ![p] = @ + 1]
Dec(f, p) == [f EXCEPT ![p] = @ - 1]

Fault == faults < MaxFaults /\ faults' = faults + 1

Init ==
  /\ datasetLive = TRUE
  /\ rows = InitialRows
  /\ created = {}
  /\ stored = {}
  /\ results = [p \in Pairs |-> <<>>]
  /\ dispatch = [e \in Experiments |-> "none"]
  /\ skip = [e \in Experiments |-> 0]
  /\ todo = [e \in Experiments |-> {}]
  /\ jobs = [p \in Pairs |-> 0]
  /\ answers = [p \in Pairs |-> 0]
  /\ hpc = [h \in Handlers |-> "idle"]
  /\ hmsg = [h \in Handlers |-> <<>>]
  /\ hat = [h \in Handlers |-> 0]
  /\ lost = {}
  /\ apiResults = 0
  /\ faults = 0

-----------------------------------------------------------------------------
(***************************************************************************)
(* Requests.                                                               *)
(***************************************************************************)

\* create: the prompt version and the dataset are resolved, the experiment
\* is saved and queueForExperiment begins.  (An error it throws later is
\* logged, the experiment stays.)
Create(e) ==
  /\ datasetLive
  /\ e \notin created
  /\ created' = created \union {e}
  /\ stored' = stored \union {e}
  /\ dispatch' = [dispatch EXCEPT ![e] = "check"]
  /\ UNCHANGED <<datasetLive, rows, results, skip, todo, jobs, answers,
                 handlerVars, lost, apiResults, faults>>

\* rerun: a new experiment with the inputs of one that is stored.  (An error
\* of queueForExperiment reaches the caller, the experiment stays as well.)
Rerun(src, e) ==
  /\ src \in stored
  /\ Create(e)

\* Experiments are deleted by remove, by retention, or with their prompt; the
\* foreign key deletes their results in the same statement.
Delete(D) ==
  /\ stored' = stored \ D
  /\ results' = [p \in Pairs |-> IF p[1] \in D THEN <<>> ELSE results[p]]

Remove(e) ==
  /\ Removals
  /\ e \in stored
  /\ Delete({e})
  /\ UNCHANGED <<datasetLive, rows, created, dispatchVars, jobs, answers,
                 handlerVars, lost, apiResults, faults>>

\* DatasetsService.remove: rows, experiments and their results cascade.
RemoveDataset ==
  /\ Removals
  /\ datasetLive
  /\ datasetLive' = FALSE
  /\ rows' = {}
  /\ Delete(stored)
  /\ UNCHANGED <<created, dispatchVars, jobs, answers, handlerVars, lost,
                 apiResults, faults>>

\* DatasetsService.upsertRow, which always inserts.
UpsertRow(r) ==
  /\ datasetLive
  /\ r \notin rows
  /\ rows' = rows \union {r}
  /\ UNCHANGED <<datasetLive, created, stored, results, dispatchVars, jobs,
                 answers, handlerVars, lost, apiResults, faults>>

\* createResult inserts a DONE row whatever the pair already has.
CreateResult(p) ==
  /\ apiResults < MaxApiResults
  /\ p[1] \in stored
  /\ p[2] \in rows
  /\ results' = [results EXCEPT ![p] = Append(@, "DONE")]
  /\ apiResults' = apiResults + 1
  /\ UNCHANGED <<dbVars, dispatchVars, jobs, answers, handlerVars, lost, faults>>

-----------------------------------------------------------------------------
(***************************************************************************)
(* queueForExperiment, one action per await.                               *)
(***************************************************************************)

\* The prompt version and the dataset are looked up again.  An experiment
\* deleted meanwhile may have gone with its prompt, or alone.  (The error for a
\* version without a model configuration is never reached: the column is NOT
\* NULL, and its foreign key refuses the deletion of a configuration in use.)
CheckInputs(e) ==
  /\ dispatch[e] = "check"
  /\ \E found \in BOOLEAN :
       /\ found => datasetLive
       /\ e \in stored => found
       /\ dispatch' = [dispatch EXCEPT ![e] = IF found THEN "scan" ELSE "failed"]
  /\ UNCHANGED <<dbVars, results, skip, todo, jobs, answers, handlerVars,
                 lost, apiResults, faults>>

\* SELECT ... OFFSET from LIMIT BatchSize, rows coming in the given order.
Page(order, from) ==
  {r \in rows : LET rank == Cardinality({q \in rows : order[q] < order[r]})
                IN from <= rank /\ rank < from + BatchSize}

\* Mutant: jobs are published before their PENDING rows are saved.
ReadPagePublishFirst(e) ==
  /\ dispatch[e] = "scan"
  /\ \E order \in ScanOrders :
       LET page == Page(order, skip[e]) IN
       /\ todo' = [todo EXCEPT ![e] = page]
       /\ dispatch' = [dispatch EXCEPT ![e] = IF page = {} THEN "done" ELSE "publish"]
  /\ UNCHANGED <<dbVars, results, skip, jobs, answers, handlerVars,
                 lost, apiResults, faults>>

ReadPage(e) ==
  /\ dispatch[e] = "scan"
  /\ \E order \in ScanOrders :
       LET page == Page(order, skip[e]) IN
       /\ todo' = [todo EXCEPT ![e] = page]
       /\ dispatch' = [dispatch EXCEPT ![e] = IF page = {} THEN "done" ELSE "insert"]
  /\ UNCHANGED <<dbVars, results, skip, jobs, answers, handlerVars,
                 lost, apiResults, faults>>

\* Mutant: the PENDING entities are created and never saved.
CreatePendingResultsUnsaved(e) ==
  /\ dispatch[e] = "insert"
  /\ dispatch' = [dispatch EXCEPT ![e] = "publish"]
  /\ UNCHANGED <<dbVars, results, skip, todo, jobs, answers, handlerVars,
                 lost, apiResults, faults>>

\* Mutant: the PENDING rows replace what the pairs already have.
CreatePendingResultsUpsert(e) ==
  /\ dispatch[e] = "insert"
  /\ e \in stored
  /\ results' = [p \in Pairs |-> IF p[1] = e /\ p[2] \in todo[e]
                                 THEN <<"PENDING">> ELSE results[p]]
  /\ dispatch' = [dispatch EXCEPT ![e] = "publish"]
  /\ UNCHANGED <<dbVars, skip, todo, jobs, answers, handlerVars, lost,
                 apiResults, faults>>

\* createPendingResults; the foreign key refuses rows of a deleted
\* experiment and queueForExperiment throws.
CreatePendingResults(e) ==
  /\ dispatch[e] = "insert"
  /\ IF e \in stored
       THEN /\ results' = [p \in Pairs |->
                            IF p[1] = e /\ p[2] \in todo[e]
                              THEN Append(results[p], "PENDING") ELSE results[p]]
            /\ dispatch' = [dispatch EXCEPT ![e] = "publish"]
            /\ UNCHANGED todo
       ELSE /\ dispatch' = [dispatch EXCEPT ![e] = "failed"]
            /\ todo' = [todo EXCEPT ![e] = {}]
            /\ UNCHANGED results
  /\ UNCHANGED <<dbVars, skip, jobs, answers, handlerVars, lost, apiResults, faults>>

\* Mutant: the offset is not advanced.
NextJobSamePage(e, r) ==
  /\ dispatch[e] = "publish"
  /\ r \in todo[e]
  /\ todo' = [todo EXCEPT ![e] = @ \ {r}]
  /\ dispatch' = [dispatch EXCEPT ![e] = IF todo[e] = {r} THEN "scan" ELSE "publish"]
  /\ UNCHANGED skip

\* Mutant: the loop ends after its first page.
NextJobOnePage(e, r) ==
  /\ dispatch[e] = "publish"
  /\ r \in todo[e]
  /\ todo' = [todo EXCEPT ![e] = @ \ {r}]
  /\ dispatch' = [dispatch EXCEPT ![e] = IF todo[e] = {r} THEN "done" ELSE "publish"]
  /\ UNCHANGED skip

\* addJobs goes on to the next job of the page, or the loop to the next page.
NextJob(e, r) ==
  /\ dispatch[e] = "publish"
  /\ r \in todo[e]
  /\ todo' = [todo EXCEPT ![e] = @ \ {r}]
  /\ IF todo[e] = {r}
       THEN /\ dispatch' = [dispatch EXCEPT ![e] = "scan"]
            /\ skip' = [skip EXCEPT ![e] = @ + BatchSize]
       ELSE UNCHANGED <<dispatch, skip>>

Publish(e, r) ==
  /\ NextJob(e, r)
  /\ jobs' = Inc(jobs, <<e, r>>)
  /\ UNCHANGED <<dbVars, results, answers, handlerVars, lost, apiResults, faults>>

\* A failed publication is logged and the job skipped; without a confirm
\* the message may have reached the queue all the same.
PublishFails(e, r) ==
  /\ Fault
  /\ NextJob(e, r)
  /\ \/ jobs' = Inc(jobs, <<e, r>>) /\ UNCHANGED lost
     \/ lost' = lost \union {<<e, r>>} /\ UNCHANGED jobs
  /\ UNCHANGED <<dbVars, results, answers, handlerVars, apiResults>>

\* The process dies in the loop; nothing resumes it.
DispatchDies(e) ==
  /\ Fault
  /\ dispatch[e] \in {"check", "scan", "insert", "publish"}
  /\ dispatch' = [dispatch EXCEPT ![e] = "failed"]
  /\ todo' = [todo EXCEPT ![e] = {}]
  /\ lost' = IF dispatch[e] = "publish"
               THEN lost \union ({e} \X todo[e]) ELSE lost
  /\ UNCHANGED <<dbVars, results, skip, jobs, answers, handlerVars, apiResults>>

-----------------------------------------------------------------------------
(***************************************************************************)
(* The worker (external): it answers a job, and answers it again when it   *)
(* dies before its acknowledgement.                                        *)
(***************************************************************************)
WorkerAnswers(p) ==
  /\ jobs[p] > 0
  /\ jobs' = Dec(jobs, p)
  /\ answers' = Inc(answers, p)
  /\ UNCHANGED <<dbVars, results, dispatchVars, handlerVars, lost, apiResults, faults>>

WorkerRepeats(p) ==
  /\ Fault
  /\ jobs[p] > 0
  /\ answers' = Inc(answers, p)
  /\ UNCHANGED <<dbVars, results, dispatchVars, jobs, handlerVars, lost, apiResults>>

-----------------------------------------------------------------------------
(***************************************************************************)
(* ExperimentResultsProcessor.processResult, in up to |Handlers| deliveries *)
(* at a time.                                                              *)
(***************************************************************************)

\* A delivery starts and findOne looks the pair up: no row, or any of them.
Find(h, p) ==
  /\ hpc[h] = "idle"
  /\ answers[p] > 0
  /\ answers' = Dec(answers, p)
  /\ hmsg' = [hmsg EXCEPT ![h] = p]
  /\ \/ /\ results[p] = <<>>
        /\ hpc' = [hpc EXCEPT ![h] = "insert"]
        /\ UNCHANGED hat
     \/ \E i \in DOMAIN results[p] :
          /\ hpc' = [hpc EXCEPT ![h] = "update"]
          /\ hat' = [hat EXCEPT ![h] = i]
  /\ UNCHANGED <<dbVars, results, dispatchVars, jobs, lost, apiResults, faults>>

Release(h) ==
  /\ hpc' = [hpc EXCEPT ![h] = "idle"]
  /\ hmsg' = [hmsg EXCEPT ![h] = <<>>]
  /\ hat' = [hat EXCEPT ![h] = 0]

\* Mutant: errorBehavior is ACK.
RequeueAcks(h) ==
  /\ Release(h)
  /\ UNCHANGED answers

\* The handler threw: MessageHandlerErrorBehavior.REQUEUE.
Requeue(h) ==
  /\ Release(h)
  /\ answers' = Inc(answers, hmsg[h])

Saved(h) ==
  /\ hpc' = [hpc EXCEPT ![h] = "ack"]
  /\ UNCHANGED <<hmsg, hat, answers>>

\* Mutant: the status saved is not one of the enum's.
SaveExistingWrongStatus(h) ==
  /\ hpc[h] = "update"
  /\ hmsg[h][1] \in stored
  /\ results' = [results EXCEPT ![hmsg[h]] = [@ EXCEPT ![hat[h]] = "COMPLETED"]]
  /\ Saved(h)
  /\ UNCHANGED <<dbVars, dispatchVars, jobs, lost, apiResults, faults>>

\* Mutant: the error of save is caught and not thrown again.
SaveExistingSwallows(h) ==
  /\ hpc[h] = "update"
  /\ results' = IF hmsg[h][1] \in stored
                  THEN [results EXCEPT ![hmsg[h]] = [@ EXCEPT ![hat[h]] = "DONE"]]
                  ELSE results
  /\ Saved(h)
  /\ UNCHANGED <<dbVars, dispatchVars, jobs, lost, apiResults, faults>>

\* save(existingResult).  When the row was deleted meanwhile, save inserts it
\* again and the foreign key to the experiment refuses it.
SaveExisting(h) ==
  /\ hpc[h] = "update"
  /\ \/ /\ hmsg[h][1] \in stored
        /\ results' = [results EXCEPT ![hmsg[h]] = [@ EXCEPT ![hat[h]] = "DONE"]]
        /\ Saved(h)
     \/ /\ hmsg[h][1] \notin stored
        /\ UNCHANGED results
        /\ Requeue(h)
  /\ UNCHANGED <<dbVars, dispatchVars, jobs, lost, apiResults, faults>>

\* save(create(...)), under the same foreign keys.
SaveNew(h) ==
  /\ hpc[h] = "insert"
  /\ \/ /\ hmsg[h][1] \in stored
        /\ results' = [results EXCEPT ![hmsg[h]] = Append(@, "DONE")]
        /\ Saved(h)
     \/ /\ hmsg[h][1] \notin stored
        /\ UNCHANGED results
        /\ Requeue(h)
  /\ UNCHANGED <<dbVars, dispatchVars, jobs, lost, apiResults, faults>>

Ack(h) ==
  /\ hpc[h] = "ack"
  /\ Release(h)
  /\ UNCHANGED <<dbVars, results, dispatchVars, jobs, answers, lost, apiResults, faults>>

\* The process or its channel dies before the acknowledgement.
DeliveryDies(h) ==
  /\ Fault
  /\ hpc[h] # "idle"
  /\ Requeue(h)
  /\ UNCHANGED <<dbVars, results, dispatchVars, jobs, lost, apiResults>>

-----------------------------------------------------------------------------
Request ==
  \/ \E e \in Experiments : Create(e) \/ Remove(e)
  \/ \E src, e \in Experiments : Rerun(src, e)
  \/ RemoveDataset
  \/ \E r \in Rows : UpsertRow(r)
  \/ \E p \in Pairs : CreateResult(p)

DispatchStep(e) ==
  \/ CheckInputs(e)
  \/ ReadPage(e)
  \/ CreatePendingResults(e)
  \/ \E r \in Rows : Publish(e, r)

HandlerStep(h) ==
  \/ \E p \in Pairs : Find(h, p)
  \/ SaveExisting(h)
  \/ SaveNew(h)
  \/ Ack(h)

Failure ==
  \/ \E e \in Experiments, r \in Rows : PublishFails(e, r)
  \/ \E e \in Experiments : DispatchDies(e)
  \/ \E p \in Pairs : WorkerRepeats(p)
  \/ \E h \in Handlers : DeliveryDies(h)

Next ==
  \/ Request
  \/ \E e \in Experiments : DispatchStep(e)
  \/ \E p \in Pairs : WorkerAnswers(p)
  \/ \E h \in Handlers : HandlerStep(h)
  \/ Failure

Spec == Init /\ [][Next]_vars

\* The event loop resumes every await, the worker answers, the broker
\* delivers.  Nothing is assumed of requests and failures.
Fairness ==
  /\ \A e \in Experiments : WF_vars(DispatchStep(e))
  /\ \A p \in Pairs : WF_vars(WorkerAnswers(p))
  /\ \A h \in Handlers : WF_vars(HandlerStep(h))

FairSpec == Spec /\ Fairness

-----------------------------------------------------------------------------
(***************************************************************************)
(* Properties.                                                             *)
(***************************************************************************)

\* The values of the variables; a delivery in progress is about a pair.
DbTypeOK ==
  /\ datasetLive \in BOOLEAN
  /\ rows \subseteq Rows
  /\ stored \subseteq created
  /\ created \subseteq Experiments
  /\ results \in [Pairs -> Seq(Status)]

DispatchTypeOK ==
  /\ dispatch \in [Experiments ->
                     {"none", "check", "scan", "insert", "publish", "done", "failed"}]
  /\ skip \in [Experiments -> Nat]
  /\ todo \in [Experiments -> SUBSET Rows]

QueueTypeOK ==
  /\ jobs \in [Pairs -> Nat]
  /\ answers \in [Pairs -> Nat]

HandlerTypeOK ==
  /\ hpc \in [Handlers -> {"idle", "update", "insert", "ack"}]
  /\ hmsg \in [Handlers -> Pairs \union {<<>>}]
  /\ \A h \in Handlers : hpc[h] # "idle" => hmsg[h] \in Pairs
  /\ hat \in [Handlers -> Nat]

HistoryTypeOK ==
  /\ lost \subseteq Pairs
  /\ apiResults \in Nat
  /\ faults \in Nat

TypeOK ==
  DbTypeOK /\ DispatchTypeOK /\ QueueTypeOK /\ HandlerTypeOK /\ HistoryTypeOK

Processing(p) == \E h \in Handlers : hpc[h] # "idle" /\ hmsg[h] = p

\* While its experiment exists, nothing about a pair is queued, answered or
\* being processed unless the pair has a result row: createPendingResults
\* comes before addJobs, and rows go only with their experiment.
NothingInFlightWithoutRow ==
  \A p \in Pairs :
    /\ p[1] \in stored
    /\ jobs[p] > 0 \/ answers[p] > 0 \/ Processing(p)
    => results[p] # <<>>

\* The branch of processResult that creates a row runs only for experiments
\* that no longer exist (where the foreign key refuses it): no answer to a
\* job of this service ever adds a row.
CreateBranchOnlyWhenDeleted ==
  \A h \in Handlers : hpc[h] = "insert" => hmsg[h][1] \notin stored

\* Put together: an answer finds the row it is about, or nothing to be about.
AnswersFindTheirRow == NothingInFlightWithoutRow /\ CreateBranchOnlyWhenDeleted

\* When the database returns rows in one order and results come from the
\* queue alone, a pair never gets a second row, although experiment_results
\* has no unique constraint and processResult finds and saves in two calls.
AtMostOneRow == \A p \in Pairs : Len(results[p]) <= 1

\* Under the same conditions a row is PENDING only while its job waits to be
\* published, is queued, answered or processed, or when the job was lost to
\* a failed publication or a death; no interleaving of deliveries strands it.
PendingIsAccountedFor ==
  \A p \in Pairs :
    (\E i \in DOMAIN results[p] : results[p][i] = "PENDING") =>
      \/ dispatch[p[1]] = "publish" /\ p[2] \in todo[p[1]]
      \/ jobs[p] > 0
      \/ answers[p] > 0
      \/ Processing(p)
      \/ p \in lost

\* Answers of a deleted experiment that are not acknowledged.
Undrained(e) ==
  {p \in {e} \X Rows : answers[p] > 0} \union
  {hmsg[h] : h \in {g \in Handlers : hpc[g] \in {"update", "insert"}
                                      /\ hmsg[g][1] = e}}

\* An answer that arrives after its experiment was deleted is refused by the
\* foreign key and requeued, for ever: it never leaves the queue.
DeletedAnswersNeverDrain ==
  [][\A e \in created \ stored : Undrained(e) \subseteq Undrained(e)']_vars

Answered(p) ==
  /\ results[p] # <<>>
  /\ \A i \in DOMAIN results[p] : results[p][i] = "DONE"

\* A run comes to an end: its dispatch failed, or every row of the dataset
\* has its answer, the rows whose job was lost excepted.
RunSettles ==
  \A e \in Experiments :
    (e \in created) ~>
      \/ dispatch[e] = "failed"
      \/ \A r \in InitialRows : Answered(<<e, r>>) \/ <<e, r>> \in lost

\* The abstract board: an experiment is new, open, or gone; a cell is done
\* when one of its rows is.
PhaseOf(e) == IF e \notin created THEN "new" ELSE IF e \in stored THEN "open" ELSE "gone"

CellOf(s) ==
  IF s = <<>> THEN "absent"
  ELSE IF \E i \in DOMAIN s : s[i] = "DONE" THEN "done" ELSE "pending"

Board == INSTANCE ExperimentBoard WITH
  phase <- [e \in Experiments |-> PhaseOf(e)],
  board <- [p \in Pairs |-> CellOf(results[p])]

\* Every interleaving of requests, dispatch and answers looks like the board:
\* no result turns back to pending and no deleted experiment shows a result.
ImplementsBoard == Board!Spec
=============================================================================
