------------------------ MODULE ExperimentRun_proofs ------------------------
(***************************************************************************)
(* Theorems about ExperimentRun, for every value of its constants.         *)
(***************************************************************************)
EXTENDS ExperimentRun, SequenceTheorems, FiniteSetTheorems, TLAPS

(***************************************************************************)
(* Lemmas about the operators the actions share.                           *)
(***************************************************************************)

\* Adding a message to a bag, or taking one that is there, leaves a bag.
LEMMA BagStep ==
  ASSUME NEW f \in [Pairs -> Nat], NEW p \in Pairs
  PROVE  /\ Inc(f, p) \in [Pairs -> Nat]
         /\ f[p] > 0 => Dec(f, p) \in [Pairs -> Nat]
         /\ \A q \in Pairs : Inc(f, p)[q] = IF q = p THEN f[q] + 1 ELSE f[q]
         /\ \A q \in Pairs : Dec(f, p)[q] = IF q = p THEN f[q] - 1 ELSE f[q]
  BY DEF Inc, Dec

\* Appending a row leaves a sequence that has the old rows and is not empty.
LEMMA AppendNonEmpty ==
  ASSUME NEW s \in Seq(Status), NEW st \in Status
  PROVE  /\ Append(s, st) \in Seq(Status)
         /\ DOMAIN s \subseteq DOMAIN Append(s, st)
         /\ Append(s, st) # <<>>
  OBVIOUS

\* A row's status may be set in place: the rows of a pair stay a sequence
\* of the same length.
LEMMA SetStatus ==
  ASSUME NEW s \in Seq(Status), NEW i, NEW st \in Status
  PROVE  /\ [s EXCEPT ![i] = st] \in Seq(Status)
         /\ Len([s EXCEPT ![i] = st]) = Len(s)
         /\ DOMAIN [s EXCEPT ![i] = st] = DOMAIN s
         /\ s # <<>> => [s EXCEPT ![i] = st] # <<>>
  <1> DEFINE t == [s EXCEPT ![i] = st]
  <1>1. t = [j \in DOMAIN s |-> IF j = i THEN st ELSE s[j]]
    OBVIOUS
  <1>2. DOMAIN s = 1..Len(s) /\ Len(s) \in Nat
    OBVIOUS
  <1>3. \A j \in 1..Len(s) : s[j] \in Status
    OBVIOUS
  <1>4. t \in [1..Len(s) -> Status]
    <2> HIDE DEF t
    <2>1. \A j \in 1..Len(s) : (IF j = i THEN st ELSE s[j]) \in Status
      BY <1>3
    <2> QED BY <1>1, <1>2, <2>1
  <1>5. t \in Seq(Status)
    <2> HIDE DEF t
    <2> QED BY <1>2, <1>4
  <1>6. Len(t) = Len(s)
    <2> HIDE DEF t
    <2> QED BY <1>2, <1>4, <1>5
  <1>7. s # <<>> => t # <<>>
    <2> HIDE DEF t
    <2> QED BY <1>2, <1>5, <1>6
  <1> QED
    BY <1>1, <1>5, <1>6, <1>7

(***************************************************************************)
(* Type correctness.                                                       *)
(***************************************************************************)

\* The initial state has the types of TypeOK.
LEMMA TypeInit == Init => TypeOK
  <1> USE InitialRowsAssumption DEF Init
  <1>1. Init => DbTypeOK /\ DispatchTypeOK
    BY DEF DbTypeOK, DispatchTypeOK
  <1>2. Init => QueueTypeOK /\ HandlerTypeOK /\ HistoryTypeOK
    BY DEF QueueTypeOK, HandlerTypeOK, HistoryTypeOK
  <1> QED
    BY <1>1, <1>2 DEF TypeOK

\* Deleting experiments keeps the types of the tables.
LEMMA TypeDelete ==
  ASSUME DbTypeOK, NEW D \in SUBSET Experiments, Delete(D)
  PROVE  results' \in [Pairs -> Seq(Status)] /\ stored' \subseteq stored
  BY DEF Delete, DbTypeOK

\* The requests keep the types.
LEMMA TypeRequest == TypeOK /\ Request => TypeOK'
  <1> SUFFICES ASSUME TypeOK, Request PROVE TypeOK'
    OBVIOUS
  <1>1. ASSUME NEW e \in Experiments, Create(e)
        PROVE  TypeOK'
    <2>11. DbTypeOK'
      BY <1>1 DEF Create, TypeOK, DbTypeOK, dbVars
    <2>12. DispatchTypeOK'
      BY <1>1 DEF Create, TypeOK, DispatchTypeOK, dispatchVars
    <2>13. QueueTypeOK'
      BY <1>1 DEF Create, TypeOK, QueueTypeOK
    <2>14. HandlerTypeOK'
      BY <1>1 DEF Create, TypeOK, HandlerTypeOK, handlerVars
    <2>15. HistoryTypeOK'
      BY <1>1 DEF Create, TypeOK, HistoryTypeOK
    <2> QED
      BY <2>11, <2>12, <2>13, <2>14, <2>15 DEF TypeOK
  <1>2. ASSUME NEW e \in Experiments, Remove(e)
        PROVE  TypeOK'
    <2>11. DbTypeOK'
      BY <1>2, TypeDelete DEF Remove, TypeOK, DbTypeOK
    <2>12. DispatchTypeOK'
      BY <1>2 DEF Remove, TypeOK, DispatchTypeOK, dispatchVars
    <2>13. QueueTypeOK'
      BY <1>2 DEF Remove, TypeOK, QueueTypeOK
    <2>14. HandlerTypeOK'
      BY <1>2 DEF Remove, TypeOK, HandlerTypeOK, handlerVars
    <2>15. HistoryTypeOK'
      BY <1>2 DEF Remove, TypeOK, HistoryTypeOK
    <2> QED
      BY <2>11, <2>12, <2>13, <2>14, <2>15 DEF TypeOK
  <1>3. ASSUME NEW src \in Experiments, NEW e \in Experiments, Rerun(src, e)
        PROVE  TypeOK'
    BY <1>1, <1>3 DEF Rerun
  <1>4. CASE RemoveDataset
    <2>11. DbTypeOK'
      <3>1. stored \in SUBSET Experiments
        BY DEF TypeOK, DbTypeOK
      <3> QED
        BY <1>4, <3>1, TypeDelete DEF RemoveDataset, TypeOK, DbTypeOK
    <2>12. DispatchTypeOK'
      BY <1>4 DEF RemoveDataset, TypeOK, DispatchTypeOK, dispatchVars
    <2>13. QueueTypeOK'
      BY <1>4 DEF RemoveDataset, TypeOK, QueueTypeOK
    <2>14. HandlerTypeOK'
      BY <1>4 DEF RemoveDataset, TypeOK, HandlerTypeOK, handlerVars
    <2>15. HistoryTypeOK'
      BY <1>4 DEF RemoveDataset, TypeOK, HistoryTypeOK
    <2> QED
      BY <2>11, <2>12, <2>13, <2>14, <2>15 DEF TypeOK
  <1>5. ASSUME NEW r \in Rows, UpsertRow(r)
        PROVE  TypeOK'
    <2>11. DbTypeOK'
      BY <1>5 DEF UpsertRow, TypeOK, DbTypeOK, dbVars
    <2>12. DispatchTypeOK'
      BY <1>5 DEF UpsertRow, TypeOK, DispatchTypeOK, dispatchVars
    <2>13. QueueTypeOK'
      BY <1>5 DEF UpsertRow, TypeOK, QueueTypeOK
    <2>14. HandlerTypeOK'
      BY <1>5 DEF UpsertRow, TypeOK, HandlerTypeOK, handlerVars
    <2>15. HistoryTypeOK'
      BY <1>5 DEF UpsertRow, TypeOK, HistoryTypeOK
    <2> QED
      BY <2>11, <2>12, <2>13, <2>14, <2>15 DEF TypeOK
  <1>6. ASSUME NEW p \in Pairs, CreateResult(p)
        PROVE  TypeOK'
    <2>11. DbTypeOK'
      <3>1. Append(results[p], "DONE") \in Seq(Status)
        BY DEF TypeOK, DbTypeOK, Status
      <3> QED
        BY <1>6, <3>1 DEF CreateResult, TypeOK, DbTypeOK, dbVars
    <2>12. DispatchTypeOK'
      BY <1>6 DEF CreateResult, TypeOK, DispatchTypeOK, dispatchVars
    <2>13. QueueTypeOK'
      BY <1>6 DEF CreateResult, TypeOK, QueueTypeOK
    <2>14. HandlerTypeOK'
      BY <1>6 DEF CreateResult, TypeOK, HandlerTypeOK, handlerVars
    <2>15. HistoryTypeOK'
      BY <1>6 DEF CreateResult, TypeOK, HistoryTypeOK
    <2> QED
      BY <2>11, <2>12, <2>13, <2>14, <2>15 DEF TypeOK
  <1> QED
    BY <1>1, <1>2, <1>3, <1>4, <1>5, <1>6 DEF Request

\* addJobs and the loop around it keep the types.
LEMMA TypeNextJob ==
  ASSUME DispatchTypeOK, NEW e \in Experiments, NEW r \in Rows, NextJob(e, r)
  PROVE  DispatchTypeOK'
  BY BatchSizeAssumption DEF NextJob, DispatchTypeOK

\* The dispatch loop keeps the types.
LEMMA TypeDispatch ==
  ASSUME TypeOK, NEW e \in Experiments, DispatchStep(e)
  PROVE  TypeOK'
  <1>1. CASE CheckInputs(e)
    <2>11. DbTypeOK'
      BY <1>1 DEF CheckInputs, TypeOK, DbTypeOK, dbVars
    <2>12. DispatchTypeOK'
      BY <1>1 DEF CheckInputs, TypeOK, DispatchTypeOK, dispatchVars
    <2>13. QueueTypeOK'
      BY <1>1 DEF CheckInputs, TypeOK, QueueTypeOK
    <2>14. HandlerTypeOK'
      BY <1>1 DEF CheckInputs, TypeOK, HandlerTypeOK, handlerVars
    <2>15. HistoryTypeOK'
      BY <1>1 DEF CheckInputs, TypeOK, HistoryTypeOK
    <2> QED
      BY <2>11, <2>12, <2>13, <2>14, <2>15 DEF TypeOK
  <1>2. CASE ReadPage(e)
    <2>11. DbTypeOK'
      BY <1>2 DEF ReadPage, TypeOK, DbTypeOK, dbVars
    <2>12. DispatchTypeOK'
      <3>1. PICK order \in ScanOrders :
              /\ todo' = [todo EXCEPT ![e] = Page(order, skip[e])]
              /\ dispatch' = [dispatch EXCEPT ![e] =
                   IF Page(order, skip[e]) = {} THEN "done" ELSE "insert"]
        BY <1>2 DEF ReadPage
      <3>2. Page(order, skip[e]) \subseteq Rows
        BY DEF Page, TypeOK, DbTypeOK
      <3>3. skip' = skip
        BY <1>2 DEF ReadPage
      <3> QED
        BY <3>1, <3>2, <3>3 DEF TypeOK, DispatchTypeOK
    <2>13. QueueTypeOK'
      BY <1>2 DEF ReadPage, TypeOK, QueueTypeOK
    <2>14. HandlerTypeOK'
      BY <1>2 DEF ReadPage, TypeOK, HandlerTypeOK, handlerVars
    <2>15. HistoryTypeOK'
      BY <1>2 DEF ReadPage, TypeOK, HistoryTypeOK
    <2> QED
      BY <2>11, <2>12, <2>13, <2>14, <2>15 DEF TypeOK
  <1>3. CASE CreatePendingResults(e)
    <2>11. DbTypeOK'
      <3>1. \A p \in Pairs : Append(results[p], "PENDING") \in Seq(Status)
        BY DEF TypeOK, DbTypeOK, Status
      <3>2. results' \in [Pairs -> Seq(Status)]
        BY <1>3, <3>1 DEF CreatePendingResults, TypeOK, DbTypeOK
      <3> QED
        BY <1>3, <3>2 DEF CreatePendingResults, TypeOK, DbTypeOK, dbVars
    <2>12. DispatchTypeOK'
      BY <1>3 DEF CreatePendingResults, TypeOK, DispatchTypeOK, dispatchVars
    <2>13. QueueTypeOK'
      BY <1>3 DEF CreatePendingResults, TypeOK, QueueTypeOK
    <2>14. HandlerTypeOK'
      BY <1>3 DEF CreatePendingResults, TypeOK, HandlerTypeOK, handlerVars
    <2>15. HistoryTypeOK'
      BY <1>3 DEF CreatePendingResults, TypeOK, HistoryTypeOK
    <2> QED
      BY <2>11, <2>12, <2>13, <2>14, <2>15 DEF TypeOK
  <1>4. ASSUME NEW r \in Rows, Publish(e, r)
        PROVE  TypeOK'
    <2>11. DbTypeOK'
      BY <1>4 DEF Publish, TypeOK, DbTypeOK, dbVars
    <2>12. DispatchTypeOK'
      BY <1>4, TypeNextJob DEF Publish, TypeOK
    <2>13. QueueTypeOK'
      <3>1. <<e, r>> \in Pairs
        BY DEF Pairs
      <3> QED
        BY <1>4, <3>1, BagStep DEF Publish, TypeOK, QueueTypeOK
    <2>14. HandlerTypeOK'
      BY <1>4 DEF Publish, TypeOK, HandlerTypeOK, handlerVars
    <2>15. HistoryTypeOK'
      BY <1>4 DEF Publish, TypeOK, HistoryTypeOK
    <2> QED
      BY <2>11, <2>12, <2>13, <2>14, <2>15 DEF TypeOK
  <1> QED
    BY <1>1, <1>2, <1>3, <1>4 DEF DispatchStep

\* A handler that lets its delivery go keeps the types, and touches no other.
LEMMA TypeRelease ==
  ASSUME HandlerTypeOK, NEW h \in Handlers, Release(h)
  PROVE  HandlerTypeOK'
  BY DEF Release, HandlerTypeOK

\* A handler that throws returns its message to the bag of answers.
LEMMA TypeRequeue ==
  ASSUME HandlerTypeOK, QueueTypeOK, NEW h \in Handlers, hpc[h] # "idle", Requeue(h)
  PROVE  HandlerTypeOK' /\ answers' \in [Pairs -> Nat]
  <1>1. hmsg[h] \in Pairs
    BY DEF HandlerTypeOK
  <1>2. answers' \in [Pairs -> Nat]
    BY <1>1, BagStep DEF Requeue, QueueTypeOK
  <1> QED
    BY <1>2, TypeRelease DEF Requeue

\* A handler whose save succeeded keeps its message.
LEMMA TypeSaved ==
  ASSUME HandlerTypeOK, NEW h \in Handlers, hpc[h] # "idle", Saved(h)
  PROVE  HandlerTypeOK' /\ UNCHANGED answers
  BY DEF Saved, HandlerTypeOK

\* The deliveries keep the types.
LEMMA TypeHandler ==
  ASSUME TypeOK, NEW h \in Handlers, HandlerStep(h)
  PROVE  TypeOK'
  <1>1. ASSUME NEW p \in Pairs, Find(h, p)
        PROVE  TypeOK'
    <2>11. DbTypeOK'
      BY <1>1 DEF Find, TypeOK, DbTypeOK, dbVars
    <2>12. DispatchTypeOK'
      BY <1>1 DEF Find, TypeOK, DispatchTypeOK, dispatchVars
    <2>13. QueueTypeOK'
      BY <1>1, BagStep DEF Find, TypeOK, QueueTypeOK
    <2>14. HandlerTypeOK'
      <3>1. \A i \in DOMAIN results[p] : i \in Nat
        BY DEF TypeOK, DbTypeOK
      <3>2. hmsg' \in [Handlers -> Pairs \union {<<>>}]
        BY <1>1 DEF Find, TypeOK, HandlerTypeOK
      <3>3. /\ hpc' \in [Handlers -> {"idle", "update", "insert", "ack"}]
            /\ hat' \in [Handlers -> Nat]
        BY <1>1, <3>1 DEF Find, TypeOK, HandlerTypeOK
      <3>4. \A g \in Handlers : hpc'[g] # "idle" => hmsg'[g] \in Pairs
        BY <1>1 DEF Find, TypeOK, HandlerTypeOK
      <3> QED
        BY <3>2, <3>3, <3>4 DEF HandlerTypeOK
    <2>15. HistoryTypeOK'
      BY <1>1 DEF Find, TypeOK, HistoryTypeOK
    <2> QED
      BY <2>11, <2>12, <2>13, <2>14, <2>15 DEF TypeOK
  <1>2. CASE SaveExisting(h)
    <2>1. hmsg[h] \in Pairs /\ hpc[h] # "idle"
      BY <1>2 DEF SaveExisting, TypeOK, HandlerTypeOK
    <2>2. [results[hmsg[h]] EXCEPT ![hat[h]] = "DONE"] \in Seq(Status)
      BY <2>1, SetStatus DEF TypeOK, DbTypeOK, Status
    <2>11. DbTypeOK'
      BY <1>2, <2>1, <2>2 DEF SaveExisting, TypeOK, DbTypeOK, dbVars
    <2>12. DispatchTypeOK'
      BY <1>2 DEF SaveExisting, TypeOK, DispatchTypeOK, dispatchVars
    <2>13. QueueTypeOK'
      BY <1>2, <2>1, TypeRequeue, TypeSaved DEF SaveExisting, TypeOK, QueueTypeOK
    <2>14. HandlerTypeOK'
      BY <1>2, <2>1, TypeRequeue, TypeSaved DEF SaveExisting, TypeOK
    <2>15. HistoryTypeOK'
      BY <1>2 DEF SaveExisting, TypeOK, HistoryTypeOK
    <2> QED
      BY <2>11, <2>12, <2>13, <2>14, <2>15 DEF TypeOK
  <1>3. CASE SaveNew(h)
    <2>1. hmsg[h] \in Pairs /\ hpc[h] # "idle"
      BY <1>3 DEF SaveNew, TypeOK, HandlerTypeOK
    <2>2. Append(results[hmsg[h]], "DONE") \in Seq(Status)
      BY <2>1 DEF TypeOK, DbTypeOK, Status
    <2>11. DbTypeOK'
      BY <1>3, <2>1, <2>2 DEF SaveNew, TypeOK, DbTypeOK, dbVars
    <2>12. DispatchTypeOK'
      BY <1>3 DEF SaveNew, TypeOK, DispatchTypeOK, dispatchVars
    <2>13. QueueTypeOK'
      BY <1>3, <2>1, TypeRequeue, TypeSaved DEF SaveNew, TypeOK, QueueTypeOK
    <2>14. HandlerTypeOK'
      BY <1>3, <2>1, TypeRequeue, TypeSaved DEF SaveNew, TypeOK
    <2>15. HistoryTypeOK'
      BY <1>3 DEF SaveNew, TypeOK, HistoryTypeOK
    <2> QED
      BY <2>11, <2>12, <2>13, <2>14, <2>15 DEF TypeOK
  <1>4. CASE Ack(h)
    <2>11. DbTypeOK'
      BY <1>4 DEF Ack, TypeOK, DbTypeOK, dbVars
    <2>12. DispatchTypeOK'
      BY <1>4 DEF Ack, TypeOK, DispatchTypeOK, dispatchVars
    <2>13. QueueTypeOK'
      BY <1>4 DEF Ack, TypeOK, QueueTypeOK
    <2>14. HandlerTypeOK'
      BY <1>4, TypeRelease DEF Ack, TypeOK
    <2>15. HistoryTypeOK'
      BY <1>4 DEF Ack, TypeOK, HistoryTypeOK
    <2> QED
      BY <2>11, <2>12, <2>13, <2>14, <2>15 DEF TypeOK
  <1> QED
    BY <1>1, <1>2, <1>3, <1>4 DEF HandlerStep

\* The failures keep the types.
LEMMA TypeFailure == TypeOK /\ Failure => TypeOK'
  <1> SUFFICES ASSUME TypeOK, Failure PROVE TypeOK'
    OBVIOUS
  <1> USE DEF Fault
  <1>1. ASSUME NEW e \in Experiments, NEW r \in Rows, PublishFails(e, r)
        PROVE  TypeOK'
    <2>1. <<e, r>> \in Pairs
      BY DEF Pairs
    <2>11. DbTypeOK'
      BY <1>1 DEF PublishFails, TypeOK, DbTypeOK, dbVars
    <2>12. DispatchTypeOK'
      BY <1>1, TypeNextJob DEF PublishFails, TypeOK
    <2>13. QueueTypeOK'
      BY <1>1, <2>1, BagStep DEF PublishFails, TypeOK, QueueTypeOK
    <2>14. HandlerTypeOK'
      BY <1>1 DEF PublishFails, TypeOK, HandlerTypeOK, handlerVars
    <2>15. HistoryTypeOK'
      BY <1>1, <2>1 DEF PublishFails, TypeOK, HistoryTypeOK
    <2> QED
      BY <2>11, <2>12, <2>13, <2>14, <2>15 DEF TypeOK
  <1>2. ASSUME NEW e \in Experiments, DispatchDies(e)
        PROVE  TypeOK'
    <2>11. DbTypeOK'
      BY <1>2 DEF DispatchDies, TypeOK, DbTypeOK, dbVars
    <2>12. DispatchTypeOK'
      BY <1>2 DEF DispatchDies, TypeOK, DispatchTypeOK, dispatchVars
    <2>13. QueueTypeOK'
      BY <1>2 DEF DispatchDies, TypeOK, QueueTypeOK
    <2>14. HandlerTypeOK'
      BY <1>2 DEF DispatchDies, TypeOK, HandlerTypeOK, handlerVars
    <2>15. HistoryTypeOK'
      <3>1. {e} \X todo[e] \subseteq Pairs
        BY DEF TypeOK, DispatchTypeOK, Pairs
      <3> QED
        BY <1>2, <3>1 DEF DispatchDies, TypeOK, HistoryTypeOK
    <2> QED
      BY <2>11, <2>12, <2>13, <2>14, <2>15 DEF TypeOK
  <1>3. ASSUME NEW p \in Pairs, WorkerRepeats(p)
        PROVE  TypeOK'
    <2>11. DbTypeOK'
      BY <1>3 DEF WorkerRepeats, TypeOK, DbTypeOK, dbVars
    <2>12. DispatchTypeOK'
      BY <1>3 DEF WorkerRepeats, TypeOK, DispatchTypeOK, dispatchVars
    <2>13. QueueTypeOK'
      BY <1>3, BagStep DEF WorkerRepeats, TypeOK, QueueTypeOK
    <2>14. HandlerTypeOK'
      BY <1>3 DEF WorkerRepeats, TypeOK, HandlerTypeOK, handlerVars
    <2>15. HistoryTypeOK'
      BY <1>3 DEF WorkerRepeats, TypeOK, HistoryTypeOK
    <2> QED
      BY <2>11, <2>12, <2>13, <2>14, <2>15 DEF TypeOK
  <1>4. ASSUME NEW h \in Handlers, DeliveryDies(h)
        PROVE  TypeOK'
    <2>11. DbTypeOK'
      BY <1>4 DEF DeliveryDies, TypeOK, DbTypeOK, dbVars
    <2>12. DispatchTypeOK'
      BY <1>4 DEF DeliveryDies, TypeOK, DispatchTypeOK, dispatchVars
    <2>13. QueueTypeOK'
      BY <1>4, TypeRequeue DEF DeliveryDies, TypeOK, QueueTypeOK
    <2>14. HandlerTypeOK'
      BY <1>4, TypeRequeue DEF DeliveryDies, TypeOK
    <2>15. HistoryTypeOK'
      BY <1>4 DEF DeliveryDies, TypeOK, HistoryTypeOK
    <2> QED
      BY <2>11, <2>12, <2>13, <2>14, <2>15 DEF TypeOK
  <1> QED
    BY <1>1, <1>2, <1>3, <1>4 DEF Failure

\* Every step keeps the types.
LEMMA TypeNext == TypeOK /\ [Next]_vars => TypeOK'
  <1> SUFFICES ASSUME TypeOK, [Next]_vars PROVE TypeOK'
    OBVIOUS
  <1>1. ASSUME NEW p \in Pairs, WorkerAnswers(p)
        PROVE  TypeOK'
    <2>11. DbTypeOK'
      BY <1>1 DEF WorkerAnswers, TypeOK, DbTypeOK, dbVars
    <2>12. DispatchTypeOK'
      BY <1>1 DEF WorkerAnswers, TypeOK, DispatchTypeOK, dispatchVars
    <2>13. QueueTypeOK'
      BY <1>1, BagStep DEF WorkerAnswers, TypeOK, QueueTypeOK
    <2>14. HandlerTypeOK'
      BY <1>1 DEF WorkerAnswers, TypeOK, HandlerTypeOK, handlerVars
    <2>15. HistoryTypeOK'
      BY <1>1 DEF WorkerAnswers, TypeOK, HistoryTypeOK
    <2> QED
      BY <2>11, <2>12, <2>13, <2>14, <2>15 DEF TypeOK
  <1>2. CASE UNCHANGED vars
    <2>11. DbTypeOK'
      BY <1>2 DEF vars, TypeOK, DbTypeOK, dbVars
    <2>12. DispatchTypeOK'
      BY <1>2 DEF vars, TypeOK, DispatchTypeOK, dispatchVars
    <2>13. QueueTypeOK'
      BY <1>2 DEF vars, TypeOK, QueueTypeOK
    <2>14. HandlerTypeOK'
      BY <1>2 DEF vars, TypeOK, HandlerTypeOK, handlerVars
    <2>15. HistoryTypeOK'
      BY <1>2 DEF vars, TypeOK, HistoryTypeOK
    <2> QED
      BY <2>11, <2>12, <2>13, <2>14, <2>15 DEF TypeOK
  <1> QED
    BY <1>1, <1>2, TypeRequest, TypeDispatch, TypeHandler, TypeFailure DEF Next

\* The variables of ExperimentRun keep their types in every reachable state.
THEOREM TypeCorrect == Spec => []TypeOK
  BY TypeInit, TypeNext, PTL DEF Spec

-----------------------------------------------------------------------------
(***************************************************************************)
(* What is in flight has a row.  The invariant is strengthened with what   *)
(* the dispatch loop has already saved, with the row a delivery is about   *)
(* to update, and with the fact that nothing is in flight for an           *)
(* experiment that was never created: the id of a new experiment is fresh. *)
(***************************************************************************)
InFlight(p) == jobs[p] > 0 \/ answers[p] > 0 \/ Processing(p)

FlightInv ==
  \A p \in Pairs : InFlight(p) =>
    p[1] \in created /\ (p[1] \in stored => results[p] # <<>>)

DispatchInv ==
  \A e \in Experiments :
    /\ dispatch[e] # "none" => e \in created
    /\ dispatch[e] = "publish" /\ e \in stored =>
         \A r \in todo[e] : results[<<e, r>>] # <<>>

DeliveryInv ==
  \A h \in Handlers :
    /\ hpc[h] = "insert" => hmsg[h][1] \notin stored
    /\ hpc[h] = "update" /\ hmsg[h][1] \in stored =>
         hat[h] \in DOMAIN results[hmsg[h]]

IInv == TypeOK /\ FlightInv /\ DispatchInv /\ DeliveryInv

\* The invariant gives the two properties.
LEMMA InvImplies ==
  IInv => NothingInFlightWithoutRow /\ CreateBranchOnlyWhenDeleted
  BY DEF IInv, FlightInv, DeliveryInv, InFlight, NothingInFlightWithoutRow,
         CreateBranchOnlyWhenDeleted

\* One case per action: what holds after every action holds after every step.
LEMMA NextCases ==
  ASSUME Next
  PROVE  \/ \E e \in Experiments : Create(e) \/ Remove(e)
         \/ RemoveDataset
         \/ \E r \in Rows : UpsertRow(r)
         \/ \E p \in Pairs : CreateResult(p) \/ WorkerAnswers(p) \/ WorkerRepeats(p)
         \/ \E e \in Experiments : CheckInputs(e) \/ ReadPage(e)
                                 \/ CreatePendingResults(e) \/ DispatchDies(e)
         \/ \E e \in Experiments, r \in Rows : Publish(e, r) \/ PublishFails(e, r)
         \/ \E h \in Handlers, p \in Pairs : Find(h, p)
         \/ \E h \in Handlers : SaveExisting(h) \/ SaveNew(h) \/ Ack(h) \/ DeliveryDies(h)
  BY DEF Next, Request, DispatchStep, HandlerStep, Failure, Rerun

\* While an experiment is stored its rows are kept, and a deleted experiment
\* is not stored again.
RowsAreKept ==
  /\ created \subseteq created'
  /\ \A e \in created : e \in stored' => e \in stored
  /\ \A p \in Pairs : p[1] \in created /\ p[1] \in stored' =>
       /\ DOMAIN results[p] \subseteq DOMAIN results'[p]
       /\ results[p] # <<>> => results'[p] # <<>>

\* Every step keeps the rows of an experiment that stays in the table.
LEMMA RowsKept == TypeOK /\ [Next]_vars => RowsAreKept
  <1> SUFFICES ASSUME TypeOK, [Next]_vars PROVE RowsAreKept
    OBVIOUS
  <1> USE DEF RowsAreKept
  <1>1. CASE UNCHANGED <<created, stored, results>>
    BY <1>1
  <1>2. ASSUME NEW e \in Experiments, Create(e) PROVE RowsAreKept
    BY <1>2 DEF Create
  <1>3. ASSUME NEW D, Delete(D), UNCHANGED created PROVE RowsAreKept
    BY <1>3 DEF Delete
  <1>4. ASSUME NEW p \in Pairs, NEW st \in Status, UNCHANGED <<created, stored>>,
               results' = [results EXCEPT ![p] = Append(@, st)]
        PROVE  RowsAreKept
    <2>1. results \in [Pairs -> Seq(Status)]
      BY DEF TypeOK, DbTypeOK
    <2> QED
      BY <1>4, <2>1
  <1>5. ASSUME NEW e \in Experiments, CreatePendingResults(e) PROVE RowsAreKept
    <2>1. results \in [Pairs -> Seq(Status)]
      BY DEF TypeOK, DbTypeOK
    <2>2. UNCHANGED <<created, stored>>
      BY <1>5 DEF CreatePendingResults, dbVars
    <2>3. ASSUME NEW p \in Pairs
          PROVE  results'[p] \in {results[p], Append(results[p], "PENDING")}
      BY <1>5, <2>1 DEF CreatePendingResults
    <2>4. \A s \in Seq(Status) : /\ DOMAIN s \subseteq DOMAIN Append(s, "PENDING")
                                 /\ Append(s, "PENDING") # <<>>
      BY AppendNonEmpty DEF Status
    <2> QED
      BY <2>1, <2>2, <2>3, <2>4
  <1>6. ASSUME NEW h \in Handlers, SaveExisting(h) PROVE RowsAreKept
    <2>1. results \in [Pairs -> Seq(Status)] /\ hmsg[h] \in Pairs
      BY <1>6 DEF SaveExisting, TypeOK, DbTypeOK, HandlerTypeOK
    <2>2. UNCHANGED <<created, stored>>
      BY <1>6 DEF SaveExisting, dbVars
    <2>3. ASSUME NEW p \in Pairs
          PROVE  results'[p] \in {results[p], [results[p] EXCEPT ![hat[h]] = "DONE"]}
      BY <1>6, <2>1 DEF SaveExisting
    <2>4. \A s \in Seq(Status) :
            /\ DOMAIN s \subseteq DOMAIN [s EXCEPT ![hat[h]] = "DONE"]
            /\ s # <<>> => [s EXCEPT ![hat[h]] = "DONE"] # <<>>
      BY SetStatus DEF Status
    <2> QED
      BY <2>1, <2>2, <2>3, <2>4
  <1>7. ASSUME NEW h \in Handlers, SaveNew(h) PROVE RowsAreKept
    <2>1. hmsg[h] \in Pairs
      BY <1>7 DEF SaveNew, TypeOK, HandlerTypeOK
    <2> QED
      BY <1>1, <1>4, <1>7, <2>1 DEF SaveNew, dbVars, Status
  <1>8. ASSUME NEW e \in Experiments, Remove(e) PROVE RowsAreKept
    BY <1>3, <1>8 DEF Remove
  <1>9. CASE RemoveDataset
    BY <1>3, <1>9 DEF RemoveDataset
  <1>10. ASSUME NEW p \in Pairs, CreateResult(p) PROVE RowsAreKept
    BY <1>4, <1>10 DEF CreateResult, dbVars, Status
  <1>11. ASSUME NEW p \in Pairs, WorkerAnswers(p) \/ WorkerRepeats(p)
         PROVE  RowsAreKept
    BY <1>1, <1>11 DEF WorkerAnswers, WorkerRepeats, dbVars
  <1>12. ASSUME NEW r \in Rows, UpsertRow(r) PROVE RowsAreKept
    BY <1>1, <1>12 DEF UpsertRow
  <1>13. ASSUME NEW e \in Experiments, CheckInputs(e) \/ ReadPage(e) \/ DispatchDies(e)
         PROVE  RowsAreKept
    BY <1>1, <1>13 DEF CheckInputs, ReadPage, DispatchDies, dbVars
  <1>14. ASSUME NEW e \in Experiments, NEW r \in Rows, Publish(e, r) \/ PublishFails(e, r)
         PROVE  RowsAreKept
    BY <1>1, <1>14 DEF Publish, PublishFails, dbVars
  <1>15. ASSUME NEW h \in Handlers, NEW p \in Pairs, Find(h, p) PROVE RowsAreKept
    BY <1>1, <1>15 DEF Find, dbVars
  <1>16. ASSUME NEW h \in Handlers, Ack(h) \/ DeliveryDies(h) PROVE RowsAreKept
    BY <1>1, <1>16 DEF Ack, DeliveryDies, dbVars
  <1>17. CASE UNCHANGED vars
    BY <1>1, <1>17 DEF vars, dbVars
  <1> QED
    BY <1>2, <1>5, <1>6, <1>7, <1>8, <1>9, <1>10, <1>11, <1>12, <1>13, <1>14,
       <1>15, <1>16, <1>17, NextCases

\* Something is in flight after a step only if it was before, or if its job
\* was next to be published.
LEMMA FlightSource ==
  ASSUME TypeOK, [Next]_vars, NEW p \in Pairs, InFlight(p)'
  PROVE  \/ InFlight(p)
         \/ dispatch[p[1]] = "publish" /\ p[2] \in todo[p[1]]
  <1> DEFINE Goal == \/ InFlight(p)
                     \/ dispatch[p[1]] = "publish" /\ p[2] \in todo[p[1]]
  <1> SUFFICES Goal
    OBVIOUS
  <1> USE DEF InFlight, Processing
  <1>1. CASE UNCHANGED <<jobs, answers, hpc, hmsg>>
    BY <1>1
  <1>2. ASSUME NEW q \in Pairs, WorkerAnswers(q) \/ WorkerRepeats(q) PROVE Goal
    <2>1. jobs \in [Pairs -> Nat] /\ answers \in [Pairs -> Nat]
      BY DEF TypeOK, QueueTypeOK
    <2>2. CASE p = q
      BY <1>2, <2>2 DEF WorkerAnswers, WorkerRepeats
    <2>3. CASE p # q
      BY <1>2, <2>1, <2>3 DEF WorkerAnswers, WorkerRepeats, handlerVars, Inc, Dec
    <2> QED
      BY <2>2, <2>3
  <1>3. ASSUME NEW e \in Experiments, NEW r \in Rows, Publish(e, r) \/ PublishFails(e, r)
        PROVE  Goal
    <2>1. jobs \in [Pairs -> Nat] /\ <<e, r>> \in Pairs
      BY DEF TypeOK, QueueTypeOK, Pairs
    <2>2. CASE p = <<e, r>>
      BY <1>3, <2>2 DEF Publish, PublishFails, NextJob
    <2>3. CASE p # <<e, r>>
      BY <1>3, <2>1, <2>3 DEF Publish, PublishFails, handlerVars, Inc
    <2> QED
      BY <2>2, <2>3
  <1>4. ASSUME NEW h \in Handlers, NEW q \in Pairs, Find(h, q) PROVE Goal
    <2>1. /\ answers \in [Pairs -> Nat]
          /\ hpc \in [Handlers -> {"idle", "update", "insert", "ack"}]
          /\ hmsg \in [Handlers -> Pairs \union {<<>>}]
      BY DEF TypeOK, QueueTypeOK, HandlerTypeOK
    <2>2. CASE p = q
      BY <1>4, <2>2 DEF Find
    <2>3. CASE p # q
      BY <1>4, <2>1, <2>3 DEF Find, Dec
    <2> QED
      BY <2>2, <2>3
  <1>5. ASSUME NEW h \in Handlers, hpc[h] # "idle", UNCHANGED jobs,
               Requeue(h) \/ (Release(h) /\ UNCHANGED answers) \/ Saved(h)
        PROVE  Goal
    <2>1. /\ answers \in [Pairs -> Nat] /\ hmsg[h] \in Pairs
          /\ hpc \in [Handlers -> {"idle", "update", "insert", "ack"}]
          /\ hmsg \in [Handlers -> Pairs \union {<<>>}]
      BY <1>5 DEF TypeOK, QueueTypeOK, HandlerTypeOK
    <2>2. CASE p = hmsg[h]
      BY <1>5, <2>2
    <2>3. CASE p # hmsg[h]
      <3>1. answers'[p] = answers[p]
        BY <1>5, <2>1, <2>3 DEF Requeue, Inc, Saved
      <3>2. \A g \in Handlers : hpc'[g] # "idle" /\ hmsg'[g] = p => hpc[g] # "idle" /\ hmsg[g] = p
        BY <1>5, <2>1, <2>3 DEF Requeue, Release, Saved
      <3> QED
        BY <1>5, <3>1, <3>2
    <2> QED
      BY <2>2, <2>3
  <1>6. ASSUME NEW h \in Handlers, SaveExisting(h) \/ SaveNew(h) \/ Ack(h) \/ DeliveryDies(h)
        PROVE  Goal
    BY <1>5, <1>6 DEF SaveExisting, SaveNew, Ack, DeliveryDies
  <1>7. ASSUME NEW e \in Experiments,
               \/ Create(e) \/ Remove(e) \/ CheckInputs(e) \/ ReadPage(e)
               \/ CreatePendingResults(e) \/ DispatchDies(e)
        PROVE  Goal
    BY <1>1, <1>7 DEF Create, Remove, CheckInputs, ReadPage, CreatePendingResults,
                      DispatchDies, handlerVars
  <1>8. CASE RemoveDataset
    BY <1>1, <1>8 DEF RemoveDataset, handlerVars
  <1>9. ASSUME NEW r \in Rows, UpsertRow(r) PROVE Goal
    BY <1>1, <1>9 DEF UpsertRow, handlerVars
  <1>10. ASSUME NEW q \in Pairs, CreateResult(q) PROVE Goal
    BY <1>1, <1>10 DEF CreateResult, handlerVars
  <1>11. CASE UNCHANGED vars
    BY <1>1, <1>11 DEF vars, handlerVars
  <1> QED
    BY <1>2, <1>3, <1>4, <1>6, <1>7, <1>8, <1>9, <1>10, <1>11, NextCases

\* A page that waits to be published was waiting before the step, or its rows
\* have just been saved.
DispatchMoves(e) ==
  /\ dispatch'[e] # "none" => dispatch[e] # "none" \/ e \in created'
  /\ dispatch'[e] = "publish" /\ e \in stored' =>
       \A r \in todo'[e] : \/ dispatch[e] = "publish" /\ r \in todo[e]
                           \/ results'[<<e, r>>] # <<>>

\* The dispatch loop publishes only what it has inserted.
LEMMA DispatchSource ==
  ASSUME TypeOK, [Next]_vars, NEW e \in Experiments
  PROVE  DispatchMoves(e)
  <1> USE DEF DispatchMoves
  <1>1. CASE UNCHANGED <<dispatch, todo>>
    BY <1>1
  <1>2. ASSUME NEW f \in Experiments, Create(f) \/ CheckInputs(f) \/ ReadPage(f) \/ DispatchDies(f)
        PROVE  DispatchMoves(e)
    <2>1. CASE e = f
      BY <1>2, <2>1 DEF Create, CheckInputs, ReadPage, DispatchDies, dbVars, TypeOK, DispatchTypeOK
    <2>2. CASE e # f
      BY <1>2, <2>2 DEF Create, CheckInputs, ReadPage, DispatchDies, TypeOK, DispatchTypeOK
    <2> QED
      BY <2>1, <2>2
  <1>3. ASSUME NEW f \in Experiments, CreatePendingResults(f) PROVE DispatchMoves(e)
    <2>1. CASE e = f /\ f \in stored
      <3>1. todo' = todo /\ todo[e] \subseteq Rows
        BY <1>3, <2>1 DEF CreatePendingResults, TypeOK, DispatchTypeOK
      <3>2. ASSUME NEW r \in todo[e] PROVE results'[<<e, r>>] # <<>>
        <4>1. <<e, r>> \in Pairs
          BY <3>1 DEF Pairs
        <4>2. results'[<<e, r>>] = Append(results[<<e, r>>], "PENDING")
          BY <1>3, <2>1, <4>1 DEF CreatePendingResults
        <4>3. results[<<e, r>>] \in Seq(Status) /\ "PENDING" \in Status
          BY <4>1 DEF TypeOK, DbTypeOK, Status
        <4>4. Append(results[<<e, r>>], "PENDING") # <<>>
          BY <4>3, AppendNonEmpty
        <4> QED
          BY <4>2, <4>4
      <3>3. dispatch[e] # "none"
        BY <1>3, <2>1 DEF CreatePendingResults
      <3> QED
        BY <3>1, <3>2, <3>3
    <2>2. CASE e = f /\ f \notin stored
      BY <1>3, <2>2 DEF CreatePendingResults, TypeOK, DispatchTypeOK
    <2>3. CASE e # f
      BY <1>3, <2>3 DEF CreatePendingResults, TypeOK, DispatchTypeOK
    <2> QED
      BY <2>1, <2>2, <2>3
  <1>4. ASSUME NEW f \in Experiments, NEW r \in Rows, Publish(f, r) \/ PublishFails(f, r)
        PROVE  DispatchMoves(e)
    <2>1. NextJob(f, r)
      BY <1>4 DEF Publish, PublishFails
    <2>2. CASE e = f
      BY <2>1, <2>2 DEF NextJob, TypeOK, DispatchTypeOK
    <2>3. CASE e # f
      BY <2>1, <2>3 DEF NextJob, TypeOK, DispatchTypeOK
    <2> QED
      BY <2>2, <2>3
  <1>5. ASSUME NEW f \in Experiments, Remove(f) PROVE DispatchMoves(e)
    BY <1>1, <1>5 DEF Remove, dispatchVars
  <1>6. CASE RemoveDataset
    BY <1>1, <1>6 DEF RemoveDataset, dispatchVars
  <1>7. ASSUME NEW r \in Rows, UpsertRow(r) PROVE DispatchMoves(e)
    BY <1>1, <1>7 DEF UpsertRow, dispatchVars
  <1>8. ASSUME NEW p \in Pairs, CreateResult(p) \/ WorkerAnswers(p) \/ WorkerRepeats(p)
        PROVE  DispatchMoves(e)
    BY <1>1, <1>8 DEF CreateResult, WorkerAnswers, WorkerRepeats, dispatchVars
  <1>9. ASSUME NEW h \in Handlers, NEW p \in Pairs, Find(h, p) PROVE DispatchMoves(e)
    BY <1>1, <1>9 DEF Find, dispatchVars
  <1>10. ASSUME NEW h \in Handlers, SaveExisting(h) \/ SaveNew(h) \/ Ack(h) \/ DeliveryDies(h)
         PROVE  DispatchMoves(e)
    BY <1>1, <1>10 DEF SaveExisting, SaveNew, Ack, DeliveryDies, dispatchVars
  <1>11. CASE UNCHANGED vars
    BY <1>1, <1>11 DEF vars, dispatchVars
  <1> QED
    BY <1>2, <1>3, <1>4, <1>5, <1>6, <1>7, <1>8, <1>9, <1>10, <1>11, NextCases

\* A delivery about to save was about to before the step, or it has just
\* found what it is about.
JustFound(h) ==
  /\ UNCHANGED <<stored, results>>
  /\ hmsg'[h] \in Pairs
  /\ answers[hmsg'[h]] > 0
  /\ hpc'[h] = "insert" => results[hmsg'[h]] = <<>>
  /\ hpc'[h] = "update" => hat'[h] \in DOMAIN results[hmsg'[h]]

\* A delivery changes state only by the handler's own steps, and its findOne
\* is right at the step that makes it.
LEMMA DeliverySource ==
  ASSUME TypeOK, [Next]_vars, NEW h \in Handlers, hpc'[h] \in {"update", "insert"}
  PROVE  \/ hpc'[h] = hpc[h] /\ hmsg'[h] = hmsg[h] /\ hat'[h] = hat[h]
         \/ JustFound(h)
  <1> DEFINE Goal == \/ hpc'[h] = hpc[h] /\ hmsg'[h] = hmsg[h] /\ hat'[h] = hat[h]
                     \/ JustFound(h)
  <1> SUFFICES Goal
    OBVIOUS
  <1>1. CASE UNCHANGED handlerVars
    BY <1>1 DEF handlerVars
  <1>2. ASSUME NEW g \in Handlers, NEW p \in Pairs, Find(g, p) PROVE Goal
    <2>1. CASE g = h
      BY <1>2, <2>1 DEF Find, JustFound, dbVars, TypeOK, HandlerTypeOK
    <2>2. CASE g # h
      BY <1>2, <2>2 DEF Find, TypeOK, HandlerTypeOK
    <2> QED
      BY <2>1, <2>2
  <1>3. ASSUME NEW g \in Handlers, Release(g) \/ Saved(g) PROVE Goal
    <2>1. CASE g = h
      BY <1>3, <2>1 DEF Release, Saved, TypeOK, HandlerTypeOK
    <2>2. CASE g # h
      BY <1>3, <2>2 DEF Release, Saved, TypeOK, HandlerTypeOK
    <2> QED
      BY <2>1, <2>2
  <1>4. ASSUME NEW g \in Handlers, SaveExisting(g) \/ SaveNew(g) \/ Ack(g) \/ DeliveryDies(g)
        PROVE  Goal
    BY <1>3, <1>4 DEF SaveExisting, SaveNew, Ack, DeliveryDies, Requeue
  <1>5. ASSUME NEW e \in Experiments,
               \/ Create(e) \/ Remove(e) \/ CheckInputs(e) \/ ReadPage(e)
               \/ CreatePendingResults(e) \/ DispatchDies(e)
        PROVE  Goal
    BY <1>1, <1>5 DEF Create, Remove, CheckInputs, ReadPage, CreatePendingResults,
                      DispatchDies
  <1>6. ASSUME NEW e \in Experiments, NEW r \in Rows, Publish(e, r) \/ PublishFails(e, r)
        PROVE  Goal
    BY <1>1, <1>6 DEF Publish, PublishFails
  <1>7. CASE RemoveDataset
    BY <1>1, <1>7 DEF RemoveDataset
  <1>8. ASSUME NEW r \in Rows, UpsertRow(r) PROVE Goal
    BY <1>1, <1>8 DEF UpsertRow
  <1>9. ASSUME NEW p \in Pairs, CreateResult(p) \/ WorkerAnswers(p) \/ WorkerRepeats(p)
        PROVE  Goal
    BY <1>1, <1>9 DEF CreateResult, WorkerAnswers, WorkerRepeats
  <1>10. CASE UNCHANGED vars
    BY <1>1, <1>10 DEF vars
  <1> QED
    BY <1>2, <1>4, <1>5, <1>6, <1>7, <1>8, <1>9, <1>10, NextCases

\* The initial state satisfies the invariant: nothing is in flight.
LEMMA InvInit == Init => IInv
  <1> SUFFICES ASSUME Init PROVE IInv
    OBVIOUS
  <1>1. FlightInv
    BY DEF Init, FlightInv, InFlight, Processing
  <1>2. DispatchInv /\ DeliveryInv
    BY DEF Init, DispatchInv, DeliveryInv
  <1> QED
    BY <1>1, <1>2, TypeInit DEF IInv

\* IInv is inductive.
LEMMA InvNext == IInv /\ [Next]_vars => IInv'
  <1> SUFFICES ASSUME IInv, [Next]_vars PROVE IInv'
    OBVIOUS
  <1>1. TypeOK /\ TypeOK' /\ RowsAreKept
    BY TypeNext, RowsKept DEF IInv
  <1>2. FlightInv'
    <2> SUFFICES ASSUME NEW p \in Pairs, InFlight(p)'
                 PROVE  p[1] \in created' /\ (p[1] \in stored' => results'[p] # <<>>)
      BY DEF FlightInv
    <2>1. CASE InFlight(p)
      BY <1>1, <2>1 DEF IInv, FlightInv, RowsAreKept
    <2>2. CASE dispatch[p[1]] = "publish" /\ p[2] \in todo[p[1]]
      <3>1. p[1] \in Experiments /\ p = <<p[1], p[2]>>
        BY DEF Pairs
      <3>2. p[1] \in created /\ (p[1] \in stored => results[p] # <<>>)
        BY <2>2, <3>1 DEF IInv, DispatchInv
      <3> QED
        BY <1>1, <3>2 DEF RowsAreKept
    <2> QED
      BY <1>1, <2>1, <2>2, FlightSource
  <1>3. DispatchInv'
    <2> SUFFICES ASSUME NEW e \in Experiments
                 PROVE  /\ dispatch'[e] # "none" => e \in created'
                        /\ dispatch'[e] = "publish" /\ e \in stored' =>
                             \A r \in todo'[e] : results'[<<e, r>>] # <<>>
      BY DEF DispatchInv
    <2>1. DispatchMoves(e)
      BY <1>1, DispatchSource
    <2>2. dispatch'[e] # "none" => e \in created'
      BY <1>1, <2>1 DEF DispatchMoves, IInv, DispatchInv, RowsAreKept
    <2>3. ASSUME dispatch'[e] = "publish", e \in stored', NEW r \in todo'[e]
          PROVE  results'[<<e, r>>] # <<>>
      <3>1. CASE dispatch[e] = "publish" /\ r \in todo[e]
        <4>1. e \in created /\ (e \in stored => results[<<e, r>>] # <<>>)
          BY <3>1 DEF IInv, DispatchInv
        <4>2. <<e, r>> \in Pairs /\ <<e, r>>[1] = e
          BY <1>1, <3>1 DEF Pairs, TypeOK, DispatchTypeOK
        <4> QED
          BY <1>1, <2>3, <4>1, <4>2 DEF RowsAreKept
      <3> QED
        BY <2>1, <2>3, <3>1 DEF DispatchMoves
    <2> QED
      BY <2>2, <2>3
  <1>4. DeliveryInv'
    <2> SUFFICES ASSUME NEW h \in Handlers, hpc'[h] \in {"update", "insert"}
                 PROVE  /\ hpc'[h] = "insert" => hmsg'[h][1] \notin stored'
                        /\ hpc'[h] = "update" /\ hmsg'[h][1] \in stored' =>
                             hat'[h] \in DOMAIN results'[hmsg'[h]]
      BY DEF DeliveryInv
    <2>1. CASE hpc'[h] = hpc[h] /\ hmsg'[h] = hmsg[h] /\ hat'[h] = hat[h]
      <3>1. hmsg[h] \in Pairs /\ InFlight(hmsg[h])
        BY <1>1, <2>1 DEF TypeOK, HandlerTypeOK, InFlight, Processing
      <3>2. hmsg[h][1] \in created
        BY <3>1 DEF IInv, FlightInv
      <3> QED
        BY <1>1, <2>1, <3>1, <3>2 DEF IInv, DeliveryInv, RowsAreKept
    <2>2. CASE JustFound(h)
      <3>1. InFlight(hmsg'[h])
        BY <2>2 DEF JustFound, InFlight
      <3> QED
        BY <2>2, <3>1 DEF JustFound, IInv, FlightInv
    <2> QED
      BY <1>1, <2>1, <2>2, DeliverySource
  <1> QED
    BY <1>1, <1>2, <1>3, <1>4 DEF IInv

\* While an experiment exists, whatever is queued, answered or processed for
\* a pair has a result row.
THEOREM FlightHasRow == Spec => []NothingInFlightWithoutRow
  <1>1. Spec => []IInv
    BY InvInit, InvNext, PTL DEF Spec
  <1> QED
    BY <1>1, InvImplies, PTL

\* processResult creates a row only for an experiment that is gone.
THEOREM CreateBranch == Spec => []CreateBranchOnlyWhenDeleted
  <1>1. Spec => []IInv
    BY InvInit, InvNext, PTL DEF Spec
  <1> QED
    BY <1>1, InvImplies, PTL

\* The two together: an answer finds the row it is about.
THEOREM AnswersFind == Spec => []AnswersFindTheirRow
  BY FlightHasRow, CreateBranch, PTL DEF AnswersFindTheirRow

-----------------------------------------------------------------------------
(***************************************************************************)
(* Refinement: every step is a step of the board, or leaves it alone.      *)
(***************************************************************************)

\* What the three ways of writing a row do to its cell.
LEMMA CellSteps ==
  ASSUME NEW s \in Seq(Status)
  PROVE  /\ CellOf(Append(s, "DONE")) = "done"
         /\ CellOf(Append(s, "PENDING")) =
              IF CellOf(s) = "absent" THEN "pending" ELSE CellOf(s)
         /\ \A i \in DOMAIN s : CellOf([s EXCEPT ![i] = "DONE"]) = "done"
  <1> USE DEF CellOf
  <1>1. /\ Append(s, "DONE") # <<>> /\ Append(s, "PENDING") # <<>>
    BY AppendNonEmpty DEF Status
  <1>2. Len(s) + 1 \in DOMAIN Append(s, "DONE") /\ Append(s, "DONE")[Len(s) + 1] = "DONE"
    BY DEF Status
  <1>3. CellOf(Append(s, "DONE")) = "done"
    BY <1>1, <1>2
  <1>4. ASSUME NEW i \in DOMAIN Append(s, "PENDING")
        PROVE  IF i = Len(s) + 1 THEN Append(s, "PENDING")[i] = "PENDING"
               ELSE i \in DOMAIN s /\ Append(s, "PENDING")[i] = s[i]
    BY DEF Status
  <1>5. ASSUME NEW i \in DOMAIN s
        PROVE  i \in DOMAIN Append(s, "PENDING") /\ Append(s, "PENDING")[i] = s[i]
    BY DEF Status
  <1>6. (\E i \in DOMAIN Append(s, "PENDING") : Append(s, "PENDING")[i] = "DONE")
          <=> (\E i \in DOMAIN s : s[i] = "DONE")
    BY <1>4, <1>5
  <1>7. s = <<>> => ~ \E i \in DOMAIN s : s[i] = "DONE"
    OBVIOUS
  <1>8. CellOf(Append(s, "PENDING")) = IF CellOf(s) = "absent" THEN "pending" ELSE CellOf(s)
    BY <1>1, <1>6, <1>7
  <1>9. ASSUME NEW i \in DOMAIN s PROVE CellOf([s EXCEPT ![i] = "DONE"]) = "done"
    <2>1. s # <<>>
      OBVIOUS
    <2>2. [s EXCEPT ![i] = "DONE"] # <<>> /\ i \in DOMAIN [s EXCEPT ![i] = "DONE"]
      BY <2>1, SetStatus DEF Status
    <2>3. [s EXCEPT ![i] = "DONE"][i] = "DONE"
      OBVIOUS
    <2> QED
      BY <2>2, <2>3
  <1> QED
    BY <1>3, <1>8, <1>9

\* The initial states are initial states of the board.
LEMMA BoardInit == Init => Board!Init
  BY DEF Init, Board!Init, Board!Cells, Pairs, PhaseOf, CellOf

\* Deleting stored experiments discards them on the board.
LEMMA BoardDiscard ==
  ASSUME IInv, NEW D \in SUBSET stored, Delete(D), UNCHANGED created
  PROVE  Board!Next
  <1>1. D \subseteq Experiments /\ D \subseteq created
    BY DEF IInv, TypeOK, DbTypeOK
  <1>2. Board!Discard(D)
    BY <1>1 DEF Board!Discard, Board!Cells, Pairs, Delete, PhaseOf, CellOf
  <1> QED
    BY <1>1, <1>2 DEF Board!Next

\* Writing a DONE row of a stored experiment settles its cell.
LEMMA BoardSettle ==
  ASSUME IInv, NEW p \in Pairs, p[1] \in stored, UNCHANGED <<created, stored>>,
         NEW row, CellOf(row) = "done", results' = [results EXCEPT ![p] = row]
  PROVE  Board!Next
  <1>1. p[1] \in Experiments /\ p[1] \in created
    BY DEF IInv, TypeOK, DbTypeOK, Pairs
  <1>2. results \in [Pairs -> Seq(Status)]
    BY DEF IInv, TypeOK, DbTypeOK
  <1>3. Board!Settle(p)
    <2>1. [e \in Experiments |-> PhaseOf(e)][p[1]] = "open"
      BY <1>1 DEF PhaseOf
    <2>2. [q \in Pairs |-> CellOf(results'[q])] =
            [[q \in Pairs |-> CellOf(results[q])] EXCEPT ![p] = "done"]
      BY <1>2
    <2>3. [e \in Experiments |-> PhaseOf(e)]' = [e \in Experiments |-> PhaseOf(e)]
      BY DEF PhaseOf
    <2> QED
      BY <2>1, <2>2, <2>3 DEF Board!Settle
  <1> QED
    BY <1>3 DEF Board!Next, Board!Cells, Pairs

\* Every step is a step of the board or leaves it as it was.
LEMMA BoardNext == IInv /\ [Next]_vars => [Board!Next]_(Board!bvars)
  <1> SUFFICES ASSUME IInv, [Next]_vars PROVE [Board!Next]_(Board!bvars)
    OBVIOUS
  <1>1. CASE UNCHANGED <<created, stored, results>>
    BY <1>1 DEF Board!bvars, PhaseOf, CellOf
  <1>2. ASSUME NEW e \in Experiments, Create(e) PROVE Board!Next
    <2>1. Board!Open(e)
      BY <1>2 DEF Create, Board!Open, PhaseOf, CellOf
    <2> QED
      BY <2>1 DEF Board!Next
  <1>3. ASSUME NEW e \in Experiments, Remove(e) PROVE Board!Next
    BY <1>3, BoardDiscard DEF Remove
  <1>4. CASE RemoveDataset
    BY <1>4, BoardDiscard DEF RemoveDataset
  <1>5. ASSUME NEW p \in Pairs, CreateResult(p) PROVE Board!Next
    <2>1. CellOf(Append(results[p], "DONE")) = "done"
      BY CellSteps DEF IInv, TypeOK, DbTypeOK
    <2> QED
      BY <1>5, <2>1, BoardSettle DEF CreateResult, dbVars
  <1>6. ASSUME NEW e \in Experiments, CreatePendingResults(e)
        PROVE  [Board!Next]_(Board!bvars)
    <2>1. CASE e \notin stored
      BY <1>1, <1>6, <2>1 DEF CreatePendingResults, dbVars
    <2>2. CASE e \in stored
      <3>1. e \in created /\ todo[e] \in SUBSET Rows /\ results \in [Pairs -> Seq(Status)]
        BY <2>2 DEF IInv, TypeOK, DbTypeOK, DispatchTypeOK
      <3>2. ASSUME NEW p \in Pairs
            PROVE  CellOf(results'[p]) =
                     IF p[1] = e /\ p[2] \in todo[e] /\ CellOf(results[p]) = "absent"
                       THEN "pending" ELSE CellOf(results[p])
        <4>1. CASE p[1] = e /\ p[2] \in todo[e]
          <5>1. results'[p] = Append(results[p], "PENDING")
            BY <1>6, <2>2, <4>1 DEF CreatePendingResults
          <5>2. results[p] \in Seq(Status)
            BY <3>1
          <5> QED
            BY <4>1, <5>1, <5>2, CellSteps
        <4>2. CASE ~(p[1] = e /\ p[2] \in todo[e])
          <5>1. results'[p] = results[p]
            BY <1>6, <2>2, <4>2 DEF CreatePendingResults
          <5> QED
            BY <4>2, <5>1
        <4> QED
          BY <4>1, <4>2
      <3>3. UNCHANGED <<created, stored>>
        BY <1>6 DEF CreatePendingResults, dbVars
      <3>4. Board!Post(e, todo[e])
        <4>1. [f \in Experiments |-> PhaseOf(f)][e] = "open"
          BY <2>2, <3>1 DEF PhaseOf
        <4>2. [f \in Experiments |-> PhaseOf(f)]' = [f \in Experiments |-> PhaseOf(f)]
          BY <3>3 DEF PhaseOf
        <4>3. [p \in Pairs |-> CellOf(results'[p])] =
                [p \in Board!Cells |->
                  IF p[1] = e /\ p[2] \in todo[e]
                     /\ [q \in Pairs |-> CellOf(results[q])][p] = "absent"
                    THEN "pending" ELSE [q \in Pairs |-> CellOf(results[q])][p]]
          BY <3>2 DEF Board!Cells, Pairs
        <4> QED
          BY <4>1, <4>2, <4>3 DEF Board!Post
      <3> QED
        BY <3>1, <3>4 DEF Board!Next
    <2> QED
      BY <2>1, <2>2
  <1>7. ASSUME NEW h \in Handlers, SaveExisting(h) PROVE [Board!Next]_(Board!bvars)
    <2>1. CASE hmsg[h][1] \notin stored
      BY <1>1, <1>7, <2>1 DEF SaveExisting, dbVars
    <2>2. CASE hmsg[h][1] \in stored
      <3>1. hmsg[h] \in Pairs /\ results[hmsg[h]] \in Seq(Status)
        BY <1>7 DEF SaveExisting, IInv, TypeOK, DbTypeOK, HandlerTypeOK
      <3>2. hat[h] \in DOMAIN results[hmsg[h]]
        BY <1>7, <2>2 DEF SaveExisting, IInv, DeliveryInv
      <3>3. CellOf([results[hmsg[h]] EXCEPT ![hat[h]] = "DONE"]) = "done"
        BY <3>1, <3>2, CellSteps
      <3>4. /\ results' = [results EXCEPT ![hmsg[h]] =
                             [results[hmsg[h]] EXCEPT ![hat[h]] = "DONE"]]
            /\ UNCHANGED <<created, stored>>
        BY <1>7, <2>2 DEF SaveExisting, dbVars
      <3> QED
        BY <2>2, <3>1, <3>3, <3>4, BoardSettle
    <2> QED
      BY <2>1, <2>2
  <1>8. ASSUME NEW h \in Handlers, SaveNew(h) PROVE [Board!Next]_(Board!bvars)
    <2>1. hmsg[h][1] \notin stored
      BY <1>8 DEF SaveNew, IInv, DeliveryInv
    <2> QED
      BY <1>1, <1>8, <2>1 DEF SaveNew, dbVars
  <1>9. ASSUME NEW p \in Pairs, WorkerAnswers(p) \/ WorkerRepeats(p)
        PROVE  [Board!Next]_(Board!bvars)
    BY <1>1, <1>9 DEF WorkerAnswers, WorkerRepeats, dbVars
  <1>10. ASSUME NEW r \in Rows, UpsertRow(r) PROVE [Board!Next]_(Board!bvars)
    BY <1>1, <1>10 DEF UpsertRow
  <1>11. ASSUME NEW e \in Experiments, CheckInputs(e) \/ ReadPage(e) \/ DispatchDies(e)
         PROVE  [Board!Next]_(Board!bvars)
    BY <1>1, <1>11 DEF CheckInputs, ReadPage, DispatchDies, dbVars
  <1>12. ASSUME NEW e \in Experiments, NEW r \in Rows, Publish(e, r) \/ PublishFails(e, r)
         PROVE  [Board!Next]_(Board!bvars)
    BY <1>1, <1>12 DEF Publish, PublishFails, dbVars
  <1>13. ASSUME NEW h \in Handlers, NEW p \in Pairs, Find(h, p)
         PROVE  [Board!Next]_(Board!bvars)
    BY <1>1, <1>13 DEF Find, dbVars
  <1>14. ASSUME NEW h \in Handlers, Ack(h) \/ DeliveryDies(h)
         PROVE  [Board!Next]_(Board!bvars)
    BY <1>1, <1>14 DEF Ack, DeliveryDies, dbVars
  <1>15. CASE UNCHANGED vars
    BY <1>1, <1>15 DEF vars, dbVars
  <1> QED
    BY <1>2, <1>3, <1>4, <1>5, <1>6, <1>7, <1>8, <1>9, <1>10, <1>11, <1>12,
       <1>13, <1>14, <1>15, NextCases

\* ExperimentRun implements ExperimentBoard: no cell goes back, and a deleted
\* experiment shows nothing ever again.
THEOREM Refinement == Spec => ImplementsBoard
  <1>1. Spec => []IInv
    BY InvInit, InvNext, PTL DEF Spec
  <1> QED
    BY <1>1, BoardInit, BoardNext, PTL DEF Spec, ImplementsBoard, Board!Spec

-----------------------------------------------------------------------------
(***************************************************************************)
(* The answers of a deleted experiment.                                    *)
(***************************************************************************)

\* A message about the pair is queued, or held by a delivery that has not
\* saved anything yet.
Waiting(p) ==
  \/ answers[p] > 0
  \/ \E h \in Handlers : hpc[h] \in {"update", "insert"} /\ hmsg[h] = p

\* Undrained, without the two ways of writing a set of pairs.
LEMMA UndrainedIsWaiting ==
  ASSUME TypeOK, NEW e \in Experiments
  PROVE  Undrained(e) = {p \in Pairs : p[1] = e /\ Waiting(p)}
  <1>1. {e} \X Rows = {p \in Pairs : p[1] = e}
    BY DEF Pairs
  <1>2. \A h \in Handlers : hpc[h] \in {"update", "insert"} => hmsg[h] \in Pairs
    BY DEF TypeOK, HandlerTypeOK
  <1> QED
    BY <1>1, <1>2 DEF Undrained, Waiting

\* A handler of another delivery leaves this one's message where it is.
LEMMA OthersWait ==
  ASSUME TypeOK, NEW p \in Pairs, NEW g \in Handlers, Waiting(p),
         hmsg[g] # p \/ hpc[g] \notin {"update", "insert"},
         Release(g) \/ Saved(g), answers[p] > 0 => answers'[p] > 0
  PROVE  Waiting(p)'
  <1>1. /\ hpc \in [Handlers -> {"idle", "update", "insert", "ack"}]
        /\ hmsg \in [Handlers -> Pairs \union {<<>>}]
    BY DEF TypeOK, HandlerTypeOK
  <1>2. CASE answers[p] > 0
    BY <1>2 DEF Waiting
  <1>3. ASSUME NEW h \in Handlers, hpc[h] \in {"update", "insert"}, hmsg[h] = p
        PROVE  hpc'[h] \in {"update", "insert"} /\ hmsg'[h] = p
    BY <1>1, <1>3 DEF Release, Saved
  <1> QED
    BY <1>2, <1>3 DEF Waiting

\* A message about a pair of a deleted experiment stays: the delivery that
\* takes it can save nothing, and puts it back.
LEMMA WaitingStays ==
  ASSUME TypeOK, [Next]_vars, NEW p \in Pairs, p[1] \notin stored, Waiting(p)
  PROVE  Waiting(p)'
  <1>1. /\ hpc \in [Handlers -> {"idle", "update", "insert", "ack"}]
        /\ hmsg \in [Handlers -> Pairs \union {<<>>}]
        /\ answers \in [Pairs -> Nat]
    BY DEF TypeOK, HandlerTypeOK, QueueTypeOK
  <1>2. CASE UNCHANGED <<answers, hpc, hmsg>>
    BY <1>2 DEF Waiting
  <1>3. ASSUME NEW q \in Pairs, WorkerAnswers(q) \/ WorkerRepeats(q) PROVE Waiting(p)'
    <2>1. answers'[p] = IF p = q THEN answers[p] + 1 ELSE answers[p]
      BY <1>1, <1>3, BagStep DEF WorkerAnswers, WorkerRepeats
    <2>2. answers[p] \in Nat /\ UNCHANGED <<hpc, hmsg>>
      BY <1>1, <1>3 DEF WorkerAnswers, WorkerRepeats, handlerVars
    <2>3. answers[p] > 0 => answers'[p] > 0
      BY <2>1, <2>2
    <2> QED
      BY <2>2, <2>3 DEF Waiting
  <1>4. ASSUME NEW g \in Handlers, NEW q \in Pairs, Find(g, q) PROVE Waiting(p)'
    <2>1. hpc[g] = "idle" /\ hmsg'[g] = q /\ hpc'[g] \in {"update", "insert"}
      BY <1>1, <1>4 DEF Find
    <2>2. CASE p = q
      BY <2>1, <2>2 DEF Waiting
    <2>3. CASE p # q
      <3>1. answers'[p] = answers[p]
        BY <1>1, <1>4, <2>3, BagStep DEF Find
      <3>2. ASSUME NEW h \in Handlers, hpc[h] \in {"update", "insert"}
            PROVE  hpc'[h] = hpc[h] /\ hmsg'[h] = hmsg[h]
        BY <1>1, <1>4, <2>1, <3>2 DEF Find
      <3> QED
        BY <3>1, <3>2 DEF Waiting
    <2> QED
      BY <2>2, <2>3
  <1>5. ASSUME NEW g \in Handlers, hpc[g] # "idle", Requeue(g) PROVE Waiting(p)'
    <2>1. hmsg[g] \in Pairs /\ answers[p] \in Nat
      BY <1>1, <1>5 DEF TypeOK, HandlerTypeOK
    <2>2. answers'[p] = IF p = hmsg[g] THEN answers[p] + 1 ELSE answers[p]
      BY <1>1, <1>5, <2>1, BagStep DEF Requeue
    <2>3. (answers[p] > 0 => answers'[p] > 0) /\ (p = hmsg[g] => answers'[p] > 0)
      BY <2>1, <2>2
    <2>4. CASE p = hmsg[g]
      BY <2>3, <2>4 DEF Waiting
    <2>5. CASE p # hmsg[g]
      BY <1>5, <2>3, <2>5, OthersWait DEF Requeue
    <2> QED
      BY <2>4, <2>5
  <1>6. ASSUME NEW g \in Handlers, SaveExisting(g) \/ SaveNew(g) PROVE Waiting(p)'
    <2>1. CASE hmsg[g][1] \notin stored
      BY <1>5, <1>6, <2>1 DEF SaveExisting, SaveNew
    <2>2. CASE hmsg[g][1] \in stored
      <3>1. hmsg[g] # p
        BY <2>2
      <3>2. Saved(g) /\ answers' = answers
        BY <1>6, <2>2 DEF SaveExisting, SaveNew, Saved
      <3> QED
        BY <3>1, <3>2, OthersWait
    <2> QED
      BY <2>1, <2>2
  <1>7. ASSUME NEW g \in Handlers, Ack(g) PROVE Waiting(p)'
    <2>1. Release(g) /\ hpc[g] = "ack" /\ answers' = answers
      BY <1>7 DEF Ack
    <2> QED
      BY <2>1, OthersWait
  <1>8. ASSUME NEW g \in Handlers, DeliveryDies(g) PROVE Waiting(p)'
    BY <1>5, <1>8 DEF DeliveryDies
  <1>9. ASSUME NEW e \in Experiments,
               \/ Create(e) \/ Remove(e) \/ CheckInputs(e) \/ ReadPage(e)
               \/ CreatePendingResults(e) \/ DispatchDies(e)
        PROVE  Waiting(p)'
    BY <1>2, <1>9 DEF Create, Remove, CheckInputs, ReadPage, CreatePendingResults,
                      DispatchDies, handlerVars
  <1>10. ASSUME NEW e \in Experiments, NEW r \in Rows, Publish(e, r) \/ PublishFails(e, r)
         PROVE  Waiting(p)'
    BY <1>2, <1>10 DEF Publish, PublishFails, handlerVars
  <1>11. CASE RemoveDataset
    BY <1>2, <1>11 DEF RemoveDataset, handlerVars
  <1>12. ASSUME NEW r \in Rows, UpsertRow(r) PROVE Waiting(p)'
    BY <1>2, <1>12 DEF UpsertRow, handlerVars
  <1>13. ASSUME NEW q \in Pairs, CreateResult(q) PROVE Waiting(p)'
    BY <1>2, <1>13 DEF CreateResult, handlerVars
  <1>14. CASE UNCHANGED vars
    BY <1>2, <1>14 DEF vars, handlerVars
  <1> QED
    BY <1>3, <1>4, <1>6, <1>7, <1>8, <1>9, <1>10, <1>11, <1>12, <1>13, <1>14, NextCases

\* Answers of a deleted experiment never leave the queue: the foreign key
\* refuses them, and processResult requeues what it cannot save.
THEOREM NeverDrain == Spec => DeletedAnswersNeverDrain
  <1>0. (TypeOK => \A e \in Experiments :
                     Undrained(e) = {p \in Pairs : p[1] = e /\ Waiting(p)})'
    <2>1. TypeOK => \A e \in Experiments :
                      Undrained(e) = {p \in Pairs : p[1] = e /\ Waiting(p)}
      BY UndrainedIsWaiting
    <2> QED
      BY <2>1, PTL
  <1>1. ASSUME TypeOK, TypeOK', [Next]_vars, NEW e \in created \ stored
        PROVE  Undrained(e) \subseteq Undrained(e)'
    <2>1. e \in Experiments
      BY <1>1 DEF TypeOK, DbTypeOK
    <2>2. Undrained(e) = {p \in Pairs : p[1] = e /\ Waiting(p)}
      BY <1>1, <2>1, UndrainedIsWaiting
    <2>3. Undrained(e)' = {p \in Pairs : p[1] = e /\ Waiting(p)'}
      BY <1>0, <1>1, <2>1
    <2>4. ASSUME NEW p \in Pairs, p[1] = e, Waiting(p) PROVE Waiting(p)'
      BY <1>1, <2>4, WaitingStays
    <2> QED
      BY <2>2, <2>3, <2>4
  <1>2. TypeOK /\ TypeOK' /\ [Next]_vars =>
          \A e \in created \ stored : Undrained(e) \subseteq Undrained(e)'
    BY <1>1
  <1> QED
    BY <1>2, TypeCorrect, PTL DEF Spec, DeletedAnswersNeverDrain

-----------------------------------------------------------------------------
(***************************************************************************)
(* One row per pair, when the database scans in one order.  A page is then *)
(* a range of ranks, and the pages of a run never overlap.                 *)
(***************************************************************************)

\* The hypotheses: one order of scanning, no rows added to the dataset while
\* experiments run, and no results but those of the queue.
ScanIsStable ==
  /\ IsFiniteSet(Rows)
  /\ InitialRows = Rows
  /\ \E order \in ScanOrders : ScanOrders = {order}
  /\ MaxApiResults = 0

ScanOrder == CHOOSE order \in ScanOrders : TRUE

\* The number of rows the database returns before this one.
Rank(r) == Cardinality({q \in Rows : ScanOrder[q] < ScanOrder[r]})

\* The rows that have results are those of the pages already inserted.
PageInv ==
  \A e \in Experiments : \A r \in Rows :
    /\ dispatch[e] \in {"none", "check"} => skip[e] = 0 /\ results[<<e, r>>] = <<>>
    /\ dispatch[e] \in {"scan", "insert"} /\ results[<<e, r>>] # <<>> => Rank(r) < skip[e]
    /\ dispatch[e] = "insert" /\ r \in todo[e] =>
         skip[e] <= Rank(r) /\ Rank(r) < skip[e] + BatchSize
    /\ dispatch[e] = "publish" /\ results[<<e, r>>] # <<>> => Rank(r) < skip[e] + BatchSize

\* The dataset is whole or gone.
DatasetInv == IF datasetLive THEN rows = Rows ELSE rows = {}

ScanInv == IInv /\ DatasetInv /\ PageInv /\ AtMostOneRow

HasPending(p) == \E i \in DOMAIN results[p] : results[p][i] = "PENDING"

\* A delivery acknowledges only what is answered.
AckInv == \A h \in Handlers : hpc[h] = "ack" => ~HasPending(hmsg[h])

\* Ranks are natural numbers.
LEMMA RankType == ASSUME ScanIsStable, NEW r \in Rows PROVE Rank(r) \in Nat
  <1>1. IsFiniteSet({q \in Rows : ScanOrder[q] < ScanOrder[r]})
    BY FS_Subset DEF ScanIsStable
  <1> QED
    BY <1>1, FS_CardinalityType DEF Rank

\* A page holds the rows of a range of ranks.
LEMMA PageRanks ==
  ASSUME ScanIsStable, DatasetInv, NEW order \in ScanOrders, NEW from \in Nat,
         NEW r \in Page(order, from)
  PROVE  from <= Rank(r) /\ Rank(r) < from + BatchSize
  <1>1. order = ScanOrder
    BY DEF ScanIsStable, ScanOrder
  <1>2. r \in rows /\ rows = Rows
    BY DEF Page, DatasetInv
  <1> QED
    BY <1>1, <1>2 DEF Page, Rank

\* What a step does to the rows of a pair: they go, or change in place, or
\* one is added by createPendingResults.
Inserted(p) ==
  /\ dispatch[p[1]] = "insert" /\ dispatch'[p[1]] = "publish"
  /\ p[2] \in todo[p[1]] /\ UNCHANGED <<todo, stored>>
  /\ p[1] \in stored
  /\ skip'[p[1]] = skip[p[1]]
  /\ results'[p] = Append(results[p], "PENDING")

Kept(p) ==
  \/ results'[p] = <<>>
  \/ /\ results[p] # <<>>
     /\ Len(results'[p]) = Len(results[p])
     /\ HasPending(p)' => HasPending(p)

\* Only createPendingResults adds a row: createResult is not called and
\* processResult creates none.
LEMMA RowsSource ==
  ASSUME ScanIsStable, IInv, [Next]_vars, NEW p \in Pairs
  PROVE  Kept(p) \/ Inserted(p)
  <1>1. results \in [Pairs -> Seq(Status)] /\ apiResults \in Nat
    BY DEF IInv, TypeOK, DbTypeOK, HistoryTypeOK
  <1>2. ASSUME results'[p] = results[p] PROVE Kept(p)
    BY <1>2 DEF Kept, HasPending
  <1>3. ASSUME NEW e \in Experiments, CreatePendingResults(e) PROVE Kept(p) \/ Inserted(p)
    <2>1. CASE e \in stored /\ p[1] = e /\ p[2] \in todo[e]
      <3>1. results'[p] = Append(results[p], "PENDING")
        BY <1>3, <2>1 DEF CreatePendingResults
      <3> QED
        BY <1>3, <2>1, <3>1
           DEF Inserted, CreatePendingResults, dbVars, IInv, TypeOK, DispatchTypeOK
    <2>2. CASE ~(e \in stored /\ p[1] = e /\ p[2] \in todo[e])
      <3>1. results'[p] = results[p]
        BY <1>1, <1>3, <2>2 DEF CreatePendingResults
      <3> QED
        BY <1>2, <3>1
    <2> QED
      BY <2>1, <2>2
  <1>4. ASSUME NEW h \in Handlers, SaveExisting(h) PROVE Kept(p)
    <2>1. hmsg[h] \in Pairs
      BY <1>4 DEF SaveExisting, IInv, TypeOK, HandlerTypeOK
    <2>2. CASE hmsg[h] = p /\ hmsg[h][1] \in stored
      <3>1. hat[h] \in DOMAIN results[p]
        BY <1>4, <2>2 DEF SaveExisting, IInv, DeliveryInv
      <3>2. results'[p] = [results[p] EXCEPT ![hat[h]] = "DONE"]
        BY <1>1, <1>4, <2>2 DEF SaveExisting
      <3>3. results[p] \in Seq(Status) /\ results[p] # <<>>
        BY <1>1, <3>1
      <3>4. /\ Len(results'[p]) = Len(results[p])
            /\ DOMAIN results'[p] = DOMAIN results[p]
        BY <3>2, <3>3, SetStatus DEF Status
      <3>5. \A i \in DOMAIN results[p] : results'[p][i] = "PENDING" => results[p][i] = "PENDING"
        BY <3>2
      <3>6. HasPending(p)' => HasPending(p)
        BY <3>4, <3>5 DEF HasPending
      <3> QED
        BY <3>3, <3>4, <3>6 DEF Kept
    <2>3. CASE ~(hmsg[h] = p /\ hmsg[h][1] \in stored)
      <3>1. results'[p] = results[p]
        BY <1>1, <1>4, <2>1, <2>3 DEF SaveExisting
      <3> QED
        BY <1>2, <3>1
    <2> QED
      BY <2>2, <2>3
  <1>5. ASSUME NEW h \in Handlers, SaveNew(h) PROVE results'[p] = results[p]
    BY <1>5 DEF SaveNew, IInv, DeliveryInv
  <1>6. ASSUME NEW D, Delete(D) PROVE Kept(p)
    <2>1. results'[p] = <<>> \/ results'[p] = results[p]
      BY <1>6 DEF Delete
    <2>2. CASE results'[p] = <<>>
      BY <2>2 DEF Kept
    <2> QED
      BY <1>2, <2>1, <2>2
  <1>7. ASSUME NEW q \in Pairs PROVE ~CreateResult(q)
    BY <1>1 DEF CreateResult, ScanIsStable
  <1>8. ASSUME NEW e \in Experiments, Remove(e) PROVE Kept(p)
    BY <1>6, <1>8 DEF Remove
  <1>9. CASE RemoveDataset
    BY <1>6, <1>9 DEF RemoveDataset
  <1>10. ASSUME NEW e \in Experiments, Create(e) \/ CheckInputs(e) \/ ReadPage(e) \/ DispatchDies(e)
         PROVE  results'[p] = results[p]
    BY <1>10 DEF Create, CheckInputs, ReadPage, DispatchDies
  <1>11. ASSUME NEW e \in Experiments, NEW r \in Rows, Publish(e, r) \/ PublishFails(e, r)
         PROVE  results'[p] = results[p]
    BY <1>11 DEF Publish, PublishFails
  <1>12. ASSUME NEW q \in Pairs, WorkerAnswers(q) \/ WorkerRepeats(q)
         PROVE  results'[p] = results[p]
    BY <1>12 DEF WorkerAnswers, WorkerRepeats
  <1>13. ASSUME NEW r \in Rows, UpsertRow(r) PROVE results'[p] = results[p]
    BY <1>13 DEF UpsertRow
  <1>14. ASSUME NEW h \in Handlers, NEW q \in Pairs, Find(h, q) PROVE results'[p] = results[p]
    BY <1>14 DEF Find
  <1>15. ASSUME NEW h \in Handlers, Ack(h) \/ DeliveryDies(h) PROVE results'[p] = results[p]
    BY <1>15 DEF Ack, DeliveryDies
  <1>16. CASE UNCHANGED vars
    BY <1>2, <1>16 DEF vars
  <1> QED
    BY <1>2, <1>3, <1>4, <1>5, <1>7, <1>8, <1>9, <1>10, <1>11, <1>12, <1>13,
       <1>14, <1>15, <1>16, NextCases

\* How far the loop of an experiment may go in one step.
Looped(e) ==
  \/ dispatch'[e] = dispatch[e] /\ skip'[e] = skip[e] /\ todo'[e] = todo[e]
  \/ dispatch[e] = "none" /\ dispatch'[e] = "check" /\ skip'[e] = skip[e]
  \/ dispatch[e] = "check" /\ dispatch'[e] = "scan" /\ skip'[e] = skip[e]
  \/ /\ dispatch[e] = "scan" /\ dispatch'[e] = "insert" /\ skip'[e] = skip[e]
     /\ \E order \in ScanOrders : todo'[e] = Page(order, skip[e])
  \/ dispatch[e] = "insert" /\ dispatch'[e] = "publish" /\ skip'[e] = skip[e]
  \/ dispatch[e] = "publish" /\ dispatch'[e] = "publish" /\ skip'[e] = skip[e]
  \/ dispatch[e] = "publish" /\ dispatch'[e] = "scan" /\ skip'[e] = skip[e] + BatchSize
  \/ dispatch'[e] \in {"done", "failed"}

\* The loop goes through its stages in order and moves its offset by a page.
LEMMA LoopSteps ==
  ASSUME IInv, [Next]_vars, NEW e \in Experiments
  PROVE  Looped(e)
  <1>1. /\ dispatch \in [Experiments ->
                     {"none", "check", "scan", "insert", "publish", "done", "failed"}]
        /\ skip \in [Experiments -> Nat]
        /\ todo \in [Experiments -> SUBSET Rows]
    BY DEF IInv, TypeOK, DispatchTypeOK
  <1>2. CASE dispatch'[e] = dispatch[e] /\ skip'[e] = skip[e] /\ todo'[e] = todo[e]
    BY <1>2 DEF Looped
  <1>3. ASSUME NEW f \in Experiments, f # e,
               \/ Create(f) \/ CheckInputs(f) \/ ReadPage(f) \/ CreatePendingResults(f)
               \/ DispatchDies(f) \/ \E r \in Rows : NextJob(f, r)
        PROVE  dispatch'[e] = dispatch[e] /\ skip'[e] = skip[e] /\ todo'[e] = todo[e]
    BY <1>1, <1>3 DEF Create, CheckInputs, ReadPage, CreatePendingResults, DispatchDies, NextJob
  <1>4. CASE Create(e)
    <2>1. dispatch[e] = "none"
      BY <1>4 DEF Create, IInv, DispatchInv
    <2> QED
      BY <1>1, <1>4, <2>1 DEF Create, Looped
  <1>5. CASE CheckInputs(e)
    BY <1>1, <1>5 DEF CheckInputs, Looped
  <1>6. CASE ReadPage(e)
    BY <1>1, <1>6 DEF ReadPage, Looped
  <1>7. CASE CreatePendingResults(e)
    BY <1>1, <1>7 DEF CreatePendingResults, Looped
  <1>8. CASE DispatchDies(e)
    BY <1>1, <1>8 DEF DispatchDies, Looped
  <1>9. ASSUME NEW r \in Rows, NextJob(e, r) PROVE Looped(e)
    BY <1>1, <1>9 DEF NextJob, Looped
  <1>10. ASSUME NEW f \in Experiments, NEW r \in Rows, Publish(f, r) \/ PublishFails(f, r)
         PROVE  NextJob(f, r)
    BY <1>10 DEF Publish, PublishFails
  <1>11. ASSUME NEW f \in Experiments, Remove(f)
         PROVE  dispatch'[e] = dispatch[e] /\ skip'[e] = skip[e] /\ todo'[e] = todo[e]
    BY <1>11 DEF Remove, dispatchVars
  <1>12. CASE RemoveDataset
    BY <1>2, <1>12 DEF RemoveDataset, dispatchVars
  <1>13. ASSUME NEW r \in Rows, UpsertRow(r)
         PROVE  dispatch'[e] = dispatch[e] /\ skip'[e] = skip[e] /\ todo'[e] = todo[e]
    BY <1>13 DEF UpsertRow, dispatchVars
  <1>14. ASSUME NEW p \in Pairs, CreateResult(p) \/ WorkerAnswers(p) \/ WorkerRepeats(p)
         PROVE  dispatch'[e] = dispatch[e] /\ skip'[e] = skip[e] /\ todo'[e] = todo[e]
    BY <1>14 DEF CreateResult, WorkerAnswers, WorkerRepeats, dispatchVars
  <1>15. ASSUME NEW h \in Handlers, NEW p \in Pairs, Find(h, p)
         PROVE  dispatch'[e] = dispatch[e] /\ skip'[e] = skip[e] /\ todo'[e] = todo[e]
    BY <1>15 DEF Find, dispatchVars
  <1>16. ASSUME NEW h \in Handlers, SaveExisting(h) \/ SaveNew(h) \/ Ack(h) \/ DeliveryDies(h)
         PROVE  dispatch'[e] = dispatch[e] /\ skip'[e] = skip[e] /\ todo'[e] = todo[e]
    BY <1>16 DEF SaveExisting, SaveNew, Ack, DeliveryDies, dispatchVars
  <1>17. CASE UNCHANGED vars
    BY <1>2, <1>17 DEF vars, dispatchVars
  <1> QED
    BY <1>2, <1>3, <1>4, <1>5, <1>6, <1>7, <1>8, <1>9, <1>10, <1>11, <1>12,
       <1>13, <1>14, <1>15, <1>16, <1>17, NextCases

\* The initial state satisfies the invariant: no row has a result.
LEMMA ScanInit == ASSUME ScanIsStable, Init PROVE ScanInv /\ AckInv
  <1>1. IInv
    BY InvInit
  <1>2. DatasetInv
    BY DEF Init, DatasetInv, ScanIsStable
  <1>3. PageInv
    <2>1. \A e \in Experiments, r \in Rows : <<e, r>> \in Pairs
      BY DEF Pairs
    <2> QED
      BY <2>1 DEF Init, PageInv
  <1>4. AtMostOneRow
    BY DEF Init, AtMostOneRow
  <1>5. AckInv
    BY DEF Init, AckInv
  <1> QED
    BY <1>1, <1>2, <1>3, <1>4, <1>5 DEF ScanInv

\* The dataset keeps its rows until it goes.
LEMMA DatasetKept ==
  ASSUME DatasetInv, [Next]_vars
  PROVE  DatasetInv'
  <1>1. CASE UNCHANGED <<rows, datasetLive>>
    BY <1>1 DEF DatasetInv
  <1>2. CASE RemoveDataset
    BY <1>2 DEF RemoveDataset, DatasetInv
  <1>3. ASSUME NEW r \in Rows, UpsertRow(r) PROVE DatasetInv'
    BY <1>3 DEF UpsertRow, DatasetInv
  <1>4. ASSUME NEW e \in Experiments,
               \/ Create(e) \/ Remove(e) \/ CheckInputs(e) \/ ReadPage(e)
               \/ CreatePendingResults(e) \/ DispatchDies(e)
        PROVE  UNCHANGED <<rows, datasetLive>>
    BY <1>4 DEF Create, Remove, CheckInputs, ReadPage, CreatePendingResults, DispatchDies, dbVars
  <1>5. ASSUME NEW e \in Experiments, NEW r \in Rows, Publish(e, r) \/ PublishFails(e, r)
        PROVE  UNCHANGED <<rows, datasetLive>>
    BY <1>5 DEF Publish, PublishFails, dbVars
  <1>6. ASSUME NEW p \in Pairs, CreateResult(p) \/ WorkerAnswers(p) \/ WorkerRepeats(p)
        PROVE  UNCHANGED <<rows, datasetLive>>
    BY <1>6 DEF CreateResult, WorkerAnswers, WorkerRepeats, dbVars
  <1>7. ASSUME NEW h \in Handlers, NEW p \in Pairs, Find(h, p) PROVE UNCHANGED <<rows, datasetLive>>
    BY <1>7 DEF Find, dbVars
  <1>8. ASSUME NEW h \in Handlers, SaveExisting(h) \/ SaveNew(h) \/ Ack(h) \/ DeliveryDies(h)
        PROVE  UNCHANGED <<rows, datasetLive>>
    BY <1>8 DEF SaveExisting, SaveNew, Ack, DeliveryDies, dbVars
  <1>9. CASE UNCHANGED vars
    BY <1>1, <1>9 DEF vars, dbVars
  <1> QED
    BY <1>1, <1>2, <1>3, <1>4, <1>5, <1>6, <1>7, <1>8, <1>9, NextCases

\* A row that gets a result had none.
LEMMA InsertedOnce ==
  ASSUME ScanIsStable, ScanInv, NEW e \in Experiments, NEW r \in Rows, Inserted(<<e, r>>)
  PROVE  /\ results[<<e, r>>] = <<>>
         /\ results'[<<e, r>>] = <<"PENDING">>
         /\ skip[e] <= Rank(r) /\ Rank(r) < skip[e] + BatchSize
  <1>1. /\ dispatch[e] = "insert" /\ r \in todo[e]
        /\ results'[<<e, r>>] = Append(results[<<e, r>>], "PENDING")
    BY DEF Inserted
  <1>2. Rank(r) \in Nat /\ skip[e] \in Nat
    BY RankType DEF ScanInv, IInv, TypeOK, DispatchTypeOK
  <1>3. skip[e] <= Rank(r) /\ Rank(r) < skip[e] + BatchSize
    BY <1>1 DEF ScanInv, PageInv
  <1>4. results[<<e, r>>] = <<>>
    <2>1. results[<<e, r>>] # <<>> => Rank(r) < skip[e]
      BY <1>1 DEF ScanInv, PageInv
    <2> QED
      BY <1>2, <1>3, <2>1
  <1> QED
    BY <1>1, <1>3, <1>4

\* The pages of a run do not overlap, whatever happens around it.
LEMMA PagesKept ==
  ASSUME ScanIsStable, ScanInv, [Next]_vars
  PROVE  PageInv'
  <1> SUFFICES ASSUME NEW e \in Experiments, NEW r \in Rows
      PROVE  /\ dispatch'[e] \in {"none", "check"} => skip'[e] = 0 /\ results'[<<e, r>>] = <<>>
             /\ dispatch'[e] \in {"scan", "insert"} /\ results'[<<e, r>>] # <<>> =>
                  Rank(r) < skip'[e]
             /\ dispatch'[e] = "insert" /\ r \in todo'[e] =>
                  skip'[e] <= Rank(r) /\ Rank(r) < skip'[e] + BatchSize
             /\ dispatch'[e] = "publish" /\ results'[<<e, r>>] # <<>> =>
                  Rank(r) < skip'[e] + BatchSize
    BY DEF PageInv, Rank, ScanOrder
  <1>1. /\ <<e, r>> \in Pairs /\ <<e, r>>[1] = e /\ <<e, r>>[2] = r
        /\ Rank(r) \in Nat /\ skip[e] \in Nat /\ BatchSize \in Nat \ {0}
    BY RankType, BatchSizeAssumption DEF ScanInv, IInv, TypeOK, DispatchTypeOK, Pairs
  <1> DEFINE s == results[<<e, r>>]
             t == results'[<<e, r>>]
             n == Rank(r)
  <1>2. (t # <<>> => s # <<>>) \/ Inserted(<<e, r>>)
    BY <1>1, RowsSource DEF Kept, ScanInv
  <1>3. Inserted(<<e, r>>) =>
          /\ dispatch'[e] = "publish" /\ dispatch[e] = "insert" /\ skip'[e] = skip[e]
          /\ n < skip[e] + BatchSize
    BY <1>1, InsertedOnce DEF Inserted
  <1>4. /\ dispatch[e] \in {"none", "check"} => skip[e] = 0 /\ s = <<>>
        /\ dispatch[e] \in {"scan", "insert"} /\ s # <<>> => n < skip[e]
        /\ dispatch[e] = "insert" /\ r \in todo[e] =>
             skip[e] <= n /\ n < skip[e] + BatchSize
        /\ dispatch[e] = "publish" /\ s # <<>> => n < skip[e] + BatchSize
    BY DEF ScanInv, PageInv
  <1>5. ASSUME NEW order \in ScanOrders, r \in Page(order, skip[e])
        PROVE  skip[e] <= n /\ n < skip[e] + BatchSize
    BY <1>1, <1>5, PageRanks DEF ScanInv
  <1>6. Looped(e)
    BY LoopSteps DEF ScanInv
  <1> HIDE DEF s, t, n
  <1>7. CASE dispatch'[e] = dispatch[e] /\ skip'[e] = skip[e] /\ todo'[e] = todo[e]
    BY <1>2, <1>3, <1>4, <1>7 DEF s, t, n
  <1>8. CASE \/ dispatch[e] = "none" /\ dispatch'[e] = "check" /\ skip'[e] = skip[e]
             \/ dispatch[e] = "check" /\ dispatch'[e] = "scan" /\ skip'[e] = skip[e]
    BY <1>2, <1>3, <1>4, <1>8 DEF s, t, n
  <1>9. CASE /\ dispatch[e] = "scan" /\ dispatch'[e] = "insert" /\ skip'[e] = skip[e]
             /\ \E order \in ScanOrders : todo'[e] = Page(order, skip[e])
    BY <1>2, <1>3, <1>4, <1>5, <1>9 DEF s, t, n
  <1>10. CASE dispatch[e] = "insert" /\ dispatch'[e] = "publish" /\ skip'[e] = skip[e]
    <2>1. s # <<>> => n < skip[e] + BatchSize
      BY <1>1, <1>4, <1>10 DEF n
    <2> QED
      BY <1>2, <1>3, <1>10, <2>1 DEF s, t, n
  <1>11. CASE dispatch[e] = "publish" /\ dispatch'[e] = "publish" /\ skip'[e] = skip[e]
    BY <1>2, <1>3, <1>4, <1>11 DEF s, t, n
  <1>12. CASE dispatch[e] = "publish" /\ dispatch'[e] = "scan" /\ skip'[e] = skip[e] + BatchSize
    BY <1>2, <1>3, <1>4, <1>12 DEF s, t, n
  <1>13. CASE dispatch'[e] \in {"done", "failed"}
    BY <1>13
  <1> QED
    BY <1>6, <1>7, <1>8, <1>9, <1>10, <1>11, <1>12, <1>13 DEF Looped

\* ScanInv is inductive.
LEMMA ScanNext == ASSUME ScanIsStable, ScanInv, [Next]_vars PROVE ScanInv'
  <1>1. IInv'
    BY InvNext DEF ScanInv
  <1>2. DatasetInv'
    BY DatasetKept DEF ScanInv
  <1>3. PageInv'
    BY PagesKept
  <1>4. AtMostOneRow'
    <2> SUFFICES ASSUME NEW p \in Pairs PROVE Len(results'[p]) <= 1
      BY DEF AtMostOneRow
    <2>1. Len(results[p]) <= 1
      BY DEF ScanInv, AtMostOneRow
    <2>2. CASE Kept(p)
      BY <2>1, <2>2 DEF Kept
    <2>3. CASE Inserted(p)
      <3>1. PICK e \in Experiments, r \in Rows : p = <<e, r>>
        BY DEF Pairs
      <3> QED
        BY <2>3, <3>1, InsertedOnce
    <2> QED
      BY <2>2, <2>3, RowsSource DEF ScanInv
  <1> QED
    BY <1>1, <1>2, <1>3, <1>4 DEF ScanInv

\* When the database scans in one order, no pair ever has two rows, although
\* experiment_results has no unique constraint and a dead dispatch, repeated
\* answers and concurrent deliveries are all allowed.
THEOREM OneRowEach == ASSUME ScanIsStable PROVE Spec => []AtMostOneRow
  <1>1. Init => ScanInv
    BY ScanInit
  <1>2. ScanInv /\ [Next]_vars => ScanInv'
    BY ScanNext
  <1>3. ScanInv => AtMostOneRow
    BY DEF ScanInv
  <1> QED
    BY <1>1, <1>2, <1>3, PTL DEF Spec

-----------------------------------------------------------------------------
(***************************************************************************)
(* A PENDING row is accounted for, under the same hypotheses.              *)
(***************************************************************************)
Accounted(p) ==
  \/ dispatch[p[1]] = "publish" /\ p[2] \in todo[p[1]]
  \/ jobs[p] > 0
  \/ answers[p] > 0
  \/ Processing(p)
  \/ p \in lost

\* A row becomes PENDING when its page is about to be published.
LEMMA PendingSource ==
  ASSUME ScanIsStable, ScanInv, [Next]_vars, NEW p \in Pairs, HasPending(p)'
  PROVE  HasPending(p) \/ (Inserted(p) /\ Accounted(p)')
  <1>1. CASE Kept(p)
    BY <1>1 DEF Kept, HasPending
  <1>2. CASE Inserted(p)
    BY <1>2 DEF Inserted, Accounted
  <1> QED
    BY <1>1, <1>2, RowsSource DEF ScanInv

\* A message put back is still there.
LEMMA RequeueAccounts ==
  ASSUME TypeOK, NEW h \in Handlers, hpc[h] # "idle", Requeue(h), NEW p \in Pairs,
         UNCHANGED <<dispatch, todo, jobs, lost>>, Accounted(p)
  PROVE  Accounted(p)'
  <1>1. /\ hpc \in [Handlers -> {"idle", "update", "insert", "ack"}]
        /\ hmsg \in [Handlers -> Pairs \union {<<>>}]
        /\ answers \in [Pairs -> Nat]
        /\ hmsg[h] \in Pairs
    BY DEF TypeOK, HandlerTypeOK, QueueTypeOK
  <1>2. answers'[p] = IF p = hmsg[h] THEN answers[p] + 1 ELSE answers[p]
    BY <1>1, BagStep DEF Requeue
  <1>3. (answers[p] > 0 => answers'[p] > 0) /\ (p = hmsg[h] => answers'[p] > 0)
    BY <1>1, <1>2
  <1>4. Processing(p) /\ p # hmsg[h] => Processing(p)'
    BY <1>1 DEF Processing, Requeue, Release
  <1> QED
    BY <1>3, <1>4 DEF Accounted

\* Only an acknowledgement takes a pair off the books, and it leaves nothing
\* PENDING behind.
LEMMA AccountedStays ==
  ASSUME IInv, AckInv, [Next]_vars, NEW p \in Pairs, HasPending(p), Accounted(p)
  PROVE  Accounted(p)'
  <1>0. TypeOK
    BY DEF IInv
  <1>1. /\ hpc \in [Handlers -> {"idle", "update", "insert", "ack"}]
        /\ hmsg \in [Handlers -> Pairs \union {<<>>}]
        /\ jobs \in [Pairs -> Nat] /\ answers \in [Pairs -> Nat]
        /\ dispatch \in [Experiments ->
                     {"none", "check", "scan", "insert", "publish", "done", "failed"}]
        /\ todo \in [Experiments -> SUBSET Rows]
        /\ p[1] \in Experiments /\ p[2] \in Rows /\ p = <<p[1], p[2]>>
    BY <1>0 DEF TypeOK, HandlerTypeOK, QueueTypeOK, DispatchTypeOK, Pairs
  <1>2. CASE /\ \/ UNCHANGED <<dispatch, todo>>
                \/ ~(dispatch[p[1]] = "publish" /\ p[2] \in todo[p[1]])
             /\ UNCHANGED <<jobs, answers, hpc, hmsg, lost>>
    BY <1>2 DEF Accounted, Processing
  <1>3. ASSUME NEW e \in Experiments,
               \/ Create(e) \/ CheckInputs(e) \/ ReadPage(e) \/ CreatePendingResults(e)
        PROVE  Accounted(p)'
    <2>1. UNCHANGED <<jobs, answers, hpc, hmsg, lost>>
      BY <1>3 DEF Create, CheckInputs, ReadPage, CreatePendingResults, handlerVars
    <2>2. CASE p[1] = e
      <3>1. Create(e) => dispatch[e] = "none"
        BY DEF Create, IInv, DispatchInv
      <3>2. dispatch[e] # "publish"
        BY <1>3, <3>1 DEF CheckInputs, ReadPage, CreatePendingResults
      <3> QED
        BY <1>2, <2>1, <2>2, <3>2
    <2>3. CASE p[1] # e
      <3>1. dispatch'[p[1]] = dispatch[p[1]] /\ todo'[p[1]] = todo[p[1]]
        BY <1>1, <1>3, <2>3 DEF Create, CheckInputs, ReadPage, CreatePendingResults
      <3> QED
        BY <2>1, <3>1 DEF Accounted, Processing
    <2> QED
      BY <2>2, <2>3
  <1>4. ASSUME NEW e \in Experiments, DispatchDies(e) PROVE Accounted(p)'
    <2>1. UNCHANGED <<jobs, answers, hpc, hmsg>> /\ lost \subseteq lost'
      BY <1>4 DEF DispatchDies, handlerVars
    <2>2. CASE p[1] = e /\ dispatch[e] = "publish" /\ p[2] \in todo[e]
      <3>1. p \in lost'
        BY <1>1, <1>4, <2>2 DEF DispatchDies
      <3> QED
        BY <3>1 DEF Accounted
    <2>3. CASE ~(p[1] = e /\ dispatch[e] = "publish" /\ p[2] \in todo[e])
      <3>1. p[1] # e => dispatch'[p[1]] = dispatch[p[1]] /\ todo'[p[1]] = todo[p[1]]
        BY <1>1, <1>4 DEF DispatchDies
      <3> QED
        BY <2>1, <2>3, <3>1 DEF Accounted, Processing
    <2> QED
      BY <2>2, <2>3
  <1>5. ASSUME NEW e \in Experiments, NEW r \in Rows, Publish(e, r) \/ PublishFails(e, r)
        PROVE  Accounted(p)'
    <2>1. <<e, r>> \in Pairs /\ NextJob(e, r) /\ UNCHANGED <<answers, hpc, hmsg>>
      BY <1>5 DEF Publish, PublishFails, handlerVars, Pairs
    <2>2. \/ jobs' = Inc(jobs, <<e, r>>) /\ lost' = lost
          \/ jobs' = jobs /\ lost' = lost \union {<<e, r>>}
      BY <1>5 DEF Publish, PublishFails
    <2>3. (jobs[p] > 0 => jobs'[p] > 0) /\ lost \subseteq lost'
      <3>1. Inc(jobs, <<e, r>>)[p] = IF p = <<e, r>> THEN jobs[p] + 1 ELSE jobs[p]
        BY <1>1, <2>1 DEF Inc
      <3>2. jobs[p] \in Nat
        BY <1>1
      <3>3. jobs[p] > 0 => Inc(jobs, <<e, r>>)[p] > 0
        BY <3>1, <3>2
      <3> QED
        BY <2>2, <3>3
    <2>4. CASE p = <<e, r>>
      <3>1. Inc(jobs, <<e, r>>)[p] > 0
        BY <1>1, <2>1, <2>4, BagStep
      <3> QED
        BY <2>2, <2>4, <3>1 DEF Accounted
    <2>5. CASE p # <<e, r>>
      <3>1. dispatch[p[1]] = "publish" /\ p[2] \in todo[p[1]] =>
              dispatch'[p[1]] = "publish" /\ p[2] \in todo'[p[1]]
        <4>1. CASE p[1] = e
          <5>1. p[2] # r
            BY <1>1, <2>5, <4>1
          <5> QED
            BY <1>1, <2>1, <4>1, <5>1 DEF NextJob
        <4>2. CASE p[1] # e
          BY <1>1, <2>1, <4>2 DEF NextJob
        <4> QED
          BY <4>1, <4>2
      <3> QED
        BY <2>1, <2>3, <3>1 DEF Accounted, Processing
    <2> QED
      BY <2>4, <2>5
  <1>6. ASSUME NEW q \in Pairs, WorkerAnswers(q) \/ WorkerRepeats(q) PROVE Accounted(p)'
    <2>1. UNCHANGED <<dispatch, todo, hpc, hmsg, lost>> /\ answers' = Inc(answers, q)
      BY <1>6 DEF WorkerAnswers, WorkerRepeats, handlerVars, dispatchVars
    <2>2. jobs' = jobs \/ jobs' = Dec(jobs, q)
      BY <1>6 DEF WorkerAnswers, WorkerRepeats
    <2>3. CASE p = q
      <3>1. answers'[p] > 0
        BY <1>1, <2>1, <2>3, BagStep
      <3> QED
        BY <3>1 DEF Accounted
    <2>4. CASE p # q
      <3>1. answers'[p] = answers[p] /\ jobs'[p] = jobs[p]
        BY <1>1, <2>1, <2>2, <2>4 DEF Inc, Dec
      <3> QED
        BY <2>1, <3>1 DEF Accounted, Processing
    <2> QED
      BY <2>3, <2>4
  <1>7. ASSUME NEW g \in Handlers, NEW q \in Pairs, Find(g, q) PROVE Accounted(p)'
    <2>1. hpc[g] = "idle" /\ hmsg'[g] = q /\ hpc'[g] # "idle"
      BY <1>1, <1>7 DEF Find
    <2>2. UNCHANGED <<dispatch, todo, jobs, lost>>
      BY <1>7 DEF Find, dispatchVars
    <2>3. CASE p = q
      BY <2>1, <2>3 DEF Accounted, Processing
    <2>4. CASE p # q
      <3>1. answers'[p] = answers[p]
        BY <1>1, <1>7, <2>4 DEF Find, Dec
      <3>2. Processing(p) => Processing(p)'
        BY <1>1, <1>7, <2>1 DEF Find, Processing
      <3> QED
        BY <2>2, <3>1, <3>2 DEF Accounted
    <2> QED
      BY <2>3, <2>4
  <1>8. ASSUME NEW g \in Handlers, SaveExisting(g) \/ SaveNew(g) PROVE Accounted(p)'
    <2>1. UNCHANGED <<dispatch, todo, jobs, lost>> /\ hpc[g] # "idle"
      BY <1>8 DEF SaveExisting, SaveNew, dispatchVars
    <2>2. CASE Requeue(g)
      BY <1>0, <2>1, <2>2, RequeueAccounts
    <2>3. CASE Saved(g)
      <3>1. Processing(p) => Processing(p)'
        BY <1>1, <2>3 DEF Saved, Processing
      <3> QED
        BY <2>1, <2>3, <3>1 DEF Saved, Accounted
    <2> QED
      BY <1>8, <2>2, <2>3 DEF SaveExisting, SaveNew
  <1>9. ASSUME NEW g \in Handlers, Ack(g) PROVE Accounted(p)'
    <2>1. UNCHANGED <<dispatch, todo, jobs, answers, lost>> /\ Release(g) /\ hpc[g] = "ack"
      BY <1>9 DEF Ack, dispatchVars
    <2>2. hmsg[g] # p
      BY <2>1 DEF AckInv
    <2>3. Processing(p) => Processing(p)'
      BY <1>1, <2>1, <2>2 DEF Release, Processing
    <2> QED
      BY <2>1, <2>3 DEF Accounted
  <1>10. ASSUME NEW g \in Handlers, DeliveryDies(g) PROVE Accounted(p)'
    <2>1. UNCHANGED <<dispatch, todo, jobs, lost>> /\ hpc[g] # "idle" /\ Requeue(g)
      BY <1>10 DEF DeliveryDies, dispatchVars
    <2> QED
      BY <1>0, <2>1, RequeueAccounts
  <1>11. ASSUME NEW e \in Experiments, Remove(e) PROVE Accounted(p)'
    BY <1>2, <1>11 DEF Remove, dispatchVars, handlerVars
  <1>12. CASE RemoveDataset
    BY <1>2, <1>12 DEF RemoveDataset, dispatchVars, handlerVars
  <1>13. ASSUME NEW r \in Rows, UpsertRow(r) PROVE Accounted(p)'
    BY <1>2, <1>13 DEF UpsertRow, dispatchVars, handlerVars
  <1>14. ASSUME NEW q \in Pairs, CreateResult(q) PROVE Accounted(p)'
    BY <1>2, <1>14 DEF CreateResult, dispatchVars, handlerVars
  <1>15. CASE UNCHANGED vars
    BY <1>2, <1>15 DEF vars, dispatchVars, handlerVars
  <1> QED
    BY <1>3, <1>4, <1>5, <1>6, <1>7, <1>8, <1>9, <1>10, <1>11, <1>12, <1>13,
       <1>14, <1>15, NextCases

\* A delivery that has saved its answer has left nothing PENDING, and no page
\* brings a pair back to PENDING while anything about it is in flight.
LEMMA AckKept ==
  ASSUME ScanIsStable, ScanInv, AckInv, [Next]_vars
  PROVE  AckInv'
  <1> SUFFICES ASSUME NEW h \in Handlers, hpc'[h] = "ack",
                      NEW i \in DOMAIN results'[hmsg'[h]],
                      results'[hmsg'[h]][i] = "PENDING"
               PROVE  FALSE
    BY DEF AckInv, HasPending
  <1>1. /\ hpc \in [Handlers -> {"idle", "update", "insert", "ack"}]
        /\ hmsg \in [Handlers -> Pairs \union {<<>>}]
        /\ results \in [Pairs -> Seq(Status)]
    BY DEF ScanInv, IInv, TypeOK, HandlerTypeOK, DbTypeOK
  <1>2. ASSUME hpc[h] = "ack", hmsg'[h] = hmsg[h] PROVE FALSE
    <2>1. PICK p \in Pairs : p = hmsg[h]
      BY <1>2 DEF ScanInv, IInv, TypeOK, HandlerTypeOK
    <2>2. InFlight(p) /\ ~HasPending(p)
      BY <1>2, <2>1 DEF InFlight, Processing, AckInv
    <2>3. HasPending(p)'
      BY <1>2, <2>1 DEF HasPending
    <2>4. Inserted(p)
      BY <2>2, <2>3, PendingSource
    <2>5. PICK e \in Experiments, r \in Rows : p = <<e, r>>
      BY DEF Pairs
    <2>6. results[p] # <<>>
      BY <2>2, <2>4 DEF Inserted, ScanInv, IInv, FlightInv
    <2>7. results[p] = <<>>
      BY <2>4, <2>5, InsertedOnce
    <2> QED
      BY <2>6, <2>7
  <1>3. ASSUME UNCHANGED <<hpc, hmsg>> PROVE FALSE
    BY <1>2, <1>3
  <1>4. ASSUME NEW g \in Handlers, SaveExisting(g) PROVE FALSE
    <2>1. CASE g # h \/ Requeue(g)
      <3>1. hpc[h] = "ack" /\ hmsg'[h] = hmsg[h]
        BY <1>1, <1>4, <2>1 DEF SaveExisting, Saved, Requeue, Release
      <3> QED
        BY <1>2, <3>1
    <2>2. CASE g = h /\ ~Requeue(g)
      <3>0. PICK p \in Pairs : p = hmsg[h]
        BY <1>4, <2>2 DEF SaveExisting, ScanInv, IInv, TypeOK, HandlerTypeOK
      <3>1. /\ hpc[h] = "update" /\ p[1] \in stored /\ hmsg' = hmsg
            /\ results' = [results EXCEPT ![p] = [@ EXCEPT ![hat[h]] = "DONE"]]
        BY <1>4, <2>2, <3>0 DEF SaveExisting, Saved
      <3>2. hat[h] \in DOMAIN results[p]
        BY <3>0, <3>1 DEF ScanInv, IInv, DeliveryInv
      <3>3. results'[p] = [results[p] EXCEPT ![hat[h]] = "DONE"] /\ results[p] \in Seq(Status)
        BY <1>1, <3>1, <3>2
      <3>4. Len(results[p]) <= 1
        BY <3>2 DEF ScanInv, AtMostOneRow
      <3>5. \A j \in DOMAIN results[p] : j = hat[h]
        BY <3>2, <3>3, <3>4
      <3>6. \A j \in DOMAIN results'[p] : results'[p][j] = "DONE"
        BY <3>3, <3>5
      <3> QED
        BY <3>0, <3>1, <3>6
    <2> QED
      BY <2>1, <2>2
  <1>5. ASSUME NEW g \in Handlers, SaveNew(g) \/ Ack(g) \/ DeliveryDies(g) PROVE FALSE
    <2>1. Release(g)
      BY <1>5 DEF SaveNew, Ack, DeliveryDies, Requeue, ScanInv, IInv, DeliveryInv
    <2>2. hpc[h] = "ack" /\ hmsg'[h] = hmsg[h]
      BY <1>1, <2>1 DEF Release
    <2> QED
      BY <1>2, <2>2
  <1>6. ASSUME NEW g \in Handlers, NEW q \in Pairs, Find(g, q) PROVE FALSE
    <2>1. hpc[h] = "ack" /\ hmsg'[h] = hmsg[h]
      BY <1>1, <1>6 DEF Find
    <2> QED
      BY <1>2, <2>1
  <1>7. ASSUME NEW e \in Experiments,
               \/ Create(e) \/ Remove(e) \/ CheckInputs(e) \/ ReadPage(e)
               \/ CreatePendingResults(e) \/ DispatchDies(e)
        PROVE  FALSE
    BY <1>3, <1>7 DEF Create, Remove, CheckInputs, ReadPage, CreatePendingResults,
                      DispatchDies, handlerVars
  <1>8. ASSUME NEW e \in Experiments, NEW r \in Rows, Publish(e, r) \/ PublishFails(e, r)
        PROVE  FALSE
    BY <1>3, <1>8 DEF Publish, PublishFails, handlerVars
  <1>9. ASSUME RemoveDataset PROVE FALSE
    BY <1>3, <1>9 DEF RemoveDataset, handlerVars
  <1>10. ASSUME NEW r \in Rows, UpsertRow(r) PROVE FALSE
    BY <1>3, <1>10 DEF UpsertRow, handlerVars
  <1>11. ASSUME NEW q \in Pairs, CreateResult(q) \/ WorkerAnswers(q) \/ WorkerRepeats(q)
         PROVE  FALSE
    BY <1>3, <1>11 DEF CreateResult, WorkerAnswers, WorkerRepeats, handlerVars
  <1>12. ASSUME UNCHANGED vars PROVE FALSE
    BY <1>3, <1>12 DEF vars, handlerVars
  <1> QED
    BY <1>4, <1>5, <1>6, <1>7, <1>8, <1>9, <1>10, <1>11, <1>12, NextCases

\* PENDING rows are accounted for while AckInv holds.
PendingInv == ScanInv /\ AckInv /\ \A p \in Pairs : HasPending(p) => Accounted(p)

\* PendingInv is inductive.
LEMMA PendingNext == ASSUME ScanIsStable, PendingInv, [Next]_vars PROVE PendingInv'
  <1>1. ScanInv'
    BY ScanNext DEF PendingInv
  <1>2. AckInv'
    BY AckKept DEF PendingInv
  <1>3. ASSUME NEW p \in Pairs, HasPending(p)' PROVE Accounted(p)'
    <2>1. CASE HasPending(p)
      <3>1. Accounted(p)
        BY <2>1 DEF PendingInv
      <3> QED
        BY <2>1, <3>1, AccountedStays DEF PendingInv, ScanInv
    <2>2. CASE Accounted(p)'
      BY <2>2
    <2> QED
      BY <1>3, <2>1, <2>2, PendingSource DEF PendingInv
  <1> QED
    BY <1>1, <1>2, <1>3 DEF PendingInv

\* No interleaving of deliveries, repeated answers, deaths and deletions
\* strands a PENDING row: its job is still to come, queued, answered, being
\* processed, or was lost with a publication.
THEOREM PendingAccounted == ASSUME ScanIsStable PROVE Spec => []PendingIsAccountedFor
  <1>1. Init => PendingInv
    <2>1. Init => \A p \in Pairs : ~HasPending(p)
      BY DEF Init, HasPending
    <2> QED
      BY <2>1, ScanInit DEF PendingInv
  <1>2. PendingInv /\ [Next]_vars => PendingInv'
    BY PendingNext
  <1>3. PendingInv => PendingIsAccountedFor
    BY DEF PendingInv, PendingIsAccountedFor, HasPending, Accounted
  <1> QED
    BY <1>1, <1>2, <1>3, PTL DEF Spec

=============================================================================
