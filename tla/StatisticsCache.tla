---------------------------- MODULE StatisticsCache ----------------------------
(***************************************************************************)
(* The statistics of a score of an evaluation: several queries made one    *)
(* after another while results go on arriving, pages read by offset, and a *)
(* cache that those who enter results by hand invalidate and the worker    *)
(* does not.  One action per await.  A result is its identifier and        *)
(* whether it is DONE with a value.                                        *)
(***************************************************************************)
EXTENDS Naturals, FiniteSets, Sequences, SequencesExt, FiniteSetsExt

CONSTANTS
  Readers,   \* requests for the statistics under way at a time
  MaxRows,   \* bound: the results are 1 .. MaxRows
  BatchSize  \* rows of a page

VARIABLES
  scoring,   \* the scoring type of the score, "none" before the evaluation is created
  order,     \* the rows that can be read, by created_at and id
  done,      \* those that are DONE and have a value
  deleted,   \* is the evaluation deleted?
  entry,     \* the cached statistics: a set of them that is empty or a singleton
  entering,  \* rows saved by a request that has not invalidated the cache yet
  reader,    \* what each request holds
  settled,   \* history: rows settled by the worker
  overtaken  \* history: rows whose invalidation came during a request

statVars == <<scoring, order, done, deleted, entry, entering, reader, settled, overtaken>>

Ids == 1 .. MaxRows
Idle == [pc |-> "idle", scored |-> {}, skip |-> 0,
         queried |-> FALSE, counted |-> {}, from |-> {}]

Init ==
  /\ scoring = "none"
  /\ order = <<>>
  /\ done = {}
  /\ deleted = FALSE
  /\ entry = {}
  /\ entering = {}
  /\ reader = [r \in Readers |-> Idle]
  /\ settled = {}
  /\ overtaken = {}

tables == <<scoring, order, done, deleted, entering, settled, overtaken>>

-----------------------------------------------------------------------------
(***************************************************************************)
(* The results.                                                            *)
(***************************************************************************)
Create(type) ==
  /\ scoring = "none"
  /\ scoring' = type
  /\ UNCHANGED <<order, done, deleted, entry, entering, reader, settled, overtaken>>

\* Row i becomes visible at some place: created_at is the time its
\* transaction began, and transactions end in any order.
Inserted(i) ==
  /\ scoring # "none"
  /\ ~deleted
  /\ i = Len(order) + 1
  /\ \E at \in 1 .. i : order' = InsertAt(order, at, i)

\* The PENDING rows of a run.
InsertPending(i) ==
  /\ Inserted(i)
  /\ UNCHANGED <<scoring, done, deleted, entry, entering, reader, settled, overtaken>>

\* processResult of the worker's answers: nothing is invalidated.
SettleByWorker(i) ==
  /\ i \in ToSet(order) \ done
  /\ done' = done \union {i}
  /\ settled' = settled \union {i}
  /\ UNCHANGED <<scoring, order, deleted, entry, entering, reader, overtaken>>

\* createResult and importScoreResults save rows that are DONE ...
Enter(i) ==
  /\ \/ i \in ToSet(order) \ done /\ UNCHANGED order
     \/ Inserted(i)
  /\ done' = done \union {i}
  /\ entering' = entering \union {i}
  /\ UNCHANGED <<scoring, deleted, entry, reader, settled, overtaken>>

Reading == \E r \in Readers : reader[r].pc \notin {"idle", "get"}

\* Mutant: the nominal and ordinal keys alone are deleted.
InvalidateOthers(i) ==
  /\ i \in entering
  /\ entering' = entering \ {i}
  /\ overtaken' = IF Reading THEN overtaken \union {i} ELSE overtaken
  /\ UNCHANGED <<scoring, order, done, deleted, entry, reader, settled>>

\* ... and then delete the entries.
Invalidate(i) ==
  /\ i \in entering
  /\ entering' = entering \ {i}
  /\ entry' = {}
  /\ overtaken' = IF Reading THEN overtaken \union {i} ELSE overtaken
  /\ UNCHANGED <<scoring, order, done, deleted, reader, settled>>

\* The evaluation is deleted with its rows, and the entry stays.
Delete ==
  /\ scoring # "none"
  /\ ~deleted
  /\ deleted' = TRUE
  /\ order' = <<>>
  /\ done' = {}
  /\ UNCHANGED <<scoring, entry, entering, reader, settled, overtaken>>

Expire ==
  /\ entry # {}
  /\ entry' = {}
  /\ UNCHANGED <<tables, reader>>

-----------------------------------------------------------------------------
(***************************************************************************)
(* A request.                                                              *)
(***************************************************************************)
Step(r, from, to) == reader[r].pc = from /\ reader' = [reader EXCEPT ![r] = to]

Request(r) ==
  /\ scoring # "none"
  /\ Step(r, "idle", [Idle EXCEPT !.pc = "get"])
  /\ UNCHANGED <<tables, entry>>

\* A hit is returned before anything else is looked at.
Get(r) ==
  /\ Step(r, "get", [reader[r] EXCEPT !.pc = IF entry # {} THEN "idle" ELSE "load"])
  /\ UNCHANGED <<tables, entry>>

\* The evaluation is loaded, its scope checked, and the experiments that have
\* results found.
Load(r) ==
  LET next == IF scoring = "ordinal" THEN "count" ELSE "stream" IN
  /\ Step(r, "load", IF deleted THEN Idle ELSE [reader[r] EXCEPT !.pc = next])
  /\ UNCHANGED <<tables, entry>>

\* getNumericCountAndPercentiles is awaited beside the stream.
CountBeside(r) ==
  /\ scoring = "numeric"
  /\ ~reader[r].queried
  /\ Step(r, "stream", [reader[r] EXCEPT !.scored = done, !.queried = TRUE])
  /\ UNCHANGED <<tables, entry>>

\* runCountQuery: without a scored row the other aggregates are not queried.
Count(r) ==
  /\ Step(r, "count",
          [reader[r] EXCEPT !.scored = done, !.queried = TRUE,
                            !.pc = IF scoring # "ordinal" THEN "set"
                                   ELSE IF done = {} THEN "stream" ELSE "aggregate"])
  /\ UNCHANGED <<tables, entry>>

\* buildCdf, runPercentileQuery and fetchPassRateIfConfigured: results may
\* arrive meanwhile, and nothing below tells what they return apart.
Aggregate(r) ==
  /\ Step(r, "aggregate", [reader[r] EXCEPT !.pc = "stream"])
  /\ UNCHANGED <<tables, entry>>

Page(skip) == SubSeq(order, skip + 1, Min({skip + BatchSize, Len(order)}))

Scored(page) == ToSet(page) \intersect done

\* Mutant: the count of an ordinal score is taken when its rows have been streamed.
AfterStreamCounts(r, rows) ==
  IF scoring = "numeric" /\ ~rows.queried THEN [rows EXCEPT !.pc = "count"]
  ELSE [rows EXCEPT !.pc = "set",
                    !.scored = CASE scoring = "nominal" -> rows.counted
                                 [] scoring = "ordinal" -> done
                                 [] OTHER -> @]

\* After the last page a nominal score takes its count from the stream too; a
\* numeric one from the query that may still be under way.
AfterStream(r, rows) ==
  IF scoring = "numeric" /\ ~rows.queried THEN [rows EXCEPT !.pc = "count"]
  ELSE [rows EXCEPT !.pc = "set",
                    !.scored = IF scoring = "nominal" THEN rows.counted ELSE @]

\* Mutant: the offset grows by the size of a page and one.
StreamSkips(r) ==
  LET page == Page(reader[r].skip)
      rows == [reader[r] EXCEPT !.counted = @ \union Scored(page), !.skip = @ + BatchSize + 1,
                                !.from = IF reader[r].skip = 0 THEN done ELSE @]
  IN /\ Step(r, "stream",
             IF Len(page) < BatchSize THEN AfterStream(r, rows) ELSE rows)
     /\ UNCHANGED <<tables, entry>>

\* executeStream: one page; a short or an empty one is the last.
Stream(r) ==
  LET page == Page(reader[r].skip)
      rows == [reader[r] EXCEPT !.counted = @ \union Scored(page), !.skip = @ + BatchSize,
                                !.from = IF reader[r].skip = 0 THEN done ELSE @]
  IN /\ Step(r, "stream",
             IF Len(page) < BatchSize THEN AfterStream(r, rows) ELSE rows)
     /\ UNCHANGED <<tables, entry>>

\* What is cached: the counts and the rows they are about.
Statistics(rows) == [scored |-> rows.scored, counted |-> rows.counted]

Set(r) ==
  /\ entry' = {Statistics(reader[r])}
  /\ Step(r, "set", Idle)
  /\ UNCHANGED tables

Next ==
  \/ \E type \in {"nominal", "ordinal", "numeric"} : Create(type)
  \/ \E i \in Ids : InsertPending(i) \/ SettleByWorker(i) \/ Enter(i) \/ Invalidate(i)
  \/ Delete \/ Expire
  \/ \E r \in Readers :
       Request(r) \/ Get(r) \/ Load(r) \/ CountBeside(r) \/ Count(r) \/ Aggregate(r) \/ Stream(r) \/ Set(r)

Spec == Init /\ [][Next]_statVars

-----------------------------------------------------------------------------
(***************************************************************************)
(* Properties.                                                             *)
(***************************************************************************)
TypeOK ==
  /\ scoring \in {"none", "nominal", "ordinal", "numeric"}
  /\ ToSet(order) \subseteq Ids /\ IsInjective(order)
  /\ done \subseteq ToSet(order)
  /\ Cardinality(entry) <= 1
  /\ \A r \in Readers :
       /\ reader[r].pc \in {"idle", "get", "load", "count", "aggregate", "stream", "set"}
       /\ reader[r].skip <= MaxRows + BatchSize
  /\ entering \union settled \union overtaken \subseteq Ids

\* The proportions of a nominal or ordinal score add up to one or more, never
\* to less: the rows are streamed after they were counted.  (More, when a
\* result arrives in between; the deletion of the evaluation excepted.)
CountsCoverScored ==
  \A s \in entry \union {reader[r] : r \in {q \in Readers : reader[q].pc = "set"}} :
    scoring # "numeric" /\ ~deleted => s.scored \subseteq s.counted

\* However many rows are inserted between two pages, and wherever, a row that
\* had its value when the first page was read is counted.  (One that the
\* insertion pushes on to the next page is counted again.)
NothingSkipped ==
  \A r \in Readers : reader[r].pc = "set" /\ ~deleted => reader[r].from \subseteq reader[r].counted

\* A result that the cached statistics do not know was settled by the worker,
\* is about to be reported by the request that entered it, or was reported
\* while these statistics were being computed.
StaleIsExplained ==
  \A s \in entry :
    ~deleted => done \ s.counted \subseteq settled \union entering \union overtaken

\* What the statistics count, and what of it may be out of date in the cache.
StatisticsSafety == TypeOK /\ CountsCoverScored /\ NothingSkipped /\ StaleIsExplained
=============================================================================
