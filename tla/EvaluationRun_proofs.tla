------------------------- MODULE EvaluationRun_proofs -------------------------
(***************************************************************************)
(* Theorems about EvaluationRun, for every value of its constants: the     *)
(* types, that an answer finds the row it is about, the refinement of      *)
(* ScoreBoard, and that rows are single, accounted for and complete.       *)
(***************************************************************************)
EXTENDS EvaluationRun, SequenceTheorems, TLAPS

(***************************************************************************)
(* The type invariant by groups of variables, with the type of an import,  *)
(* which TypeOK leaves out because TLC cannot enumerate it.                *)
(***************************************************************************)
WorldType ==
  /\ scope \in Scopes
  /\ scores \subseteq Scores
  /\ sources \subseteq Sources
  /\ targets \subseteq Targets
  /\ datasetLive \in BOOLEAN

EvalType ==
  /\ stored \subseteq created
  /\ created \subseteq Evaluations
  /\ covers \in [Evaluations -> SUBSET Sources]
  /\ uses \in [Evaluations -> SUBSET Scores]
  /\ mapped \in [Evaluations -> BOOLEAN]

TableType ==
  /\ results \in [Cells -> Seq(ScoreResult)]
  /\ orphans \in [Cells -> Seq(ScoreResult)]

Stages == {"none", "load", "unmapped", "fill", "pair", "save", "resolve", "publish", "done", "failed"}

DispatchType ==
  /\ dispatch \in [Evaluations -> Stages]
  /\ left \in [Evaluations -> SUBSET Sources]
  /\ filled \in [Evaluations -> SUBSET Cells]
  /\ manual \in [Evaluations -> SUBSET Cells]
  /\ todo \in [Evaluations -> SUBSET Cells]

QueueType == jobs \in [Cells -> Nat] /\ answers \in [Cells -> Nat]

HandlerType ==
  /\ hpc \in [Handlers -> {"idle", "update", "insert", "ack"}]
  /\ hmsg \in [Handlers -> Cells \union {<<>>}]
  /\ \A h \in Handlers : hpc[h] # "idle" => hmsg[h] \in Cells
  /\ hat \in [Handlers -> Nat]

\* The rows an import may have found.
Finds == UNION {[C -> Nat] : C \in SUBSET Cells}

ImportType == import \in [Importers -> {<<>>} \union {<<at>> : at \in Finds}]

HistoryType ==
  /\ refused \in BOOLEAN
  /\ entered \subseteq Cells
  /\ unqueued \subseteq Cells
  /\ lost \subseteq Cells

CounterType == entries \in Nat /\ faults \in Nat

Typed ==
  /\ WorldType /\ EvalType /\ TableType /\ DispatchType /\ QueueType
  /\ HandlerType /\ ImportType /\ HistoryType /\ CounterType

LEMMA TypedImplies ==
  ASSUME Typed
  PROVE  TypeOK
  BY DEF Typed, TypeOK, WorldType, EvalType, TableType, DispatchType, Stages, QueueType,
         HandlerType, HistoryType, CounterType

\* What a group's variables do not change keeps its type.
LEMMA Unchanged ==
  ASSUME Typed
  PROVE  /\ UNCHANGED worldVars => WorldType'
         /\ UNCHANGED evalVars => EvalType'
         /\ UNCHANGED tableVars => TableType'
         /\ UNCHANGED dispatchVars => DispatchType'
         /\ UNCHANGED queueVars => QueueType'
         /\ UNCHANGED handlerVars => HandlerType'
         /\ UNCHANGED import => ImportType'
         /\ UNCHANGED historyVars => HistoryType'
         /\ UNCHANGED <<entries, faults>> => CounterType'
  <1> USE DEF Typed
  <1>1. UNCHANGED worldVars => WorldType'
    BY DEF worldVars, WorldType
  <1>2. UNCHANGED evalVars => EvalType'
    BY DEF evalVars, EvalType
  <1>3. UNCHANGED tableVars => TableType'
    BY DEF tableVars, TableType
  <1>4. UNCHANGED dispatchVars => DispatchType'
    BY DEF dispatchVars, DispatchType
  <1>5. UNCHANGED queueVars => QueueType'
    BY DEF queueVars, QueueType
  <1>6. UNCHANGED handlerVars => HandlerType'
    BY DEF handlerVars, HandlerType
  <1>7. UNCHANGED import => ImportType'
    BY DEF ImportType
  <1>8. UNCHANGED historyVars => HistoryType'
    BY DEF historyVars, HistoryType
  <1>9. UNCHANGED <<entries, faults>> => CounterType'
    BY DEF CounterType
  <1> QED BY <1>1, <1>2, <1>3, <1>4, <1>5, <1>6, <1>7, <1>8, <1>9

-----------------------------------------------------------------------------
(***************************************************************************)
(* Rows.                                                                   *)
(***************************************************************************)

\* The rows of s are in t, and name their dataset row there if they did.
Keeps(s, t) == \A i \in DOMAIN s : i \in DOMAIN t /\ t[i].row = s[i].row

LEMMA AppendKeeps ==
  ASSUME NEW s \in Seq(ScoreResult), NEW new \in ScoreResult
  PROVE  /\ Append(s, new) \in Seq(ScoreResult)
         /\ Keeps(s, Append(s, new))
         /\ new.row => \E i \in DOMAIN Append(s, new) : Append(s, new)[i].row
  <1> DEFINE t == Append(s, new)
  <1>1. /\ t \in Seq(ScoreResult)
        /\ DOMAIN t = 1 .. Len(s) + 1 /\ DOMAIN s = 1 .. Len(s) /\ Len(s) \in Nat
        /\ t[Len(s) + 1] = new
        /\ \A i \in 1 .. Len(s) : t[i] = s[i]
    OBVIOUS
  <1> QED BY <1>1 DEF Keeps

LEMMA SettleKeeps ==
  ASSUME NEW s \in Seq(ScoreResult), NEW i
  PROVE  /\ [s EXCEPT ![i].status = "DONE"] \in Seq(ScoreResult)
         /\ Keeps(s, [s EXCEPT ![i].status = "DONE"])
  <1> DEFINE t == [s EXCEPT ![i].status = "DONE"]
  <1>1. t = [j \in DOMAIN s |-> IF j = i THEN [s[j] EXCEPT !.status = "DONE"] ELSE s[j]]
    OBVIOUS
  <1>2. DOMAIN s = 1 .. Len(s) /\ Len(s) \in Nat /\ \A j \in 1 .. Len(s) : s[j] \in ScoreResult
    OBVIOUS
  <1>3. \A r \in ScoreResult : /\ [r EXCEPT !.status = "DONE"] \in ScoreResult
                               /\ [r EXCEPT !.status = "DONE"].row = r.row
    BY DEF ScoreResult
  <1> HIDE DEF t
  <1>4. t \in [1 .. Len(s) -> ScoreResult]
    BY <1>1, <1>2, <1>3
  <1>5. t \in Seq(ScoreResult)
    BY <1>2, <1>4
  <1>6. Keeps(s, t)
    BY <1>1, <1>2, <1>3 DEF Keeps
  <1> QED BY <1>5, <1>6 DEF t

LEMMA KeepsItself ==
  ASSUME NEW s
  PROVE  Keeps(s, s)
  BY DEF Keeps

LEMMA BagStep ==
  ASSUME NEW f \in [Cells -> Nat], NEW c \in Cells
  PROVE  /\ Inc(f, c) \in [Cells -> Nat]
         /\ f[c] > 0 => Dec(f, c) \in [Cells -> Nat]
         /\ \A d \in Cells : Inc(f, c)[d] = IF d = c THEN f[d] + 1 ELSE f[d]
         /\ \A d \in Cells : Dec(f, c)[d] = IF d = c THEN f[d] - 1 ELSE f[d]
  BY DEF Inc, Dec

-----------------------------------------------------------------------------
(***************************************************************************)
(* Type correctness.                                                       *)
(***************************************************************************)
LEMMA TypeInit ==
  ASSUME Init
  PROVE  Typed
  <1>1. WorldType
    BY TargetsAssumption DEF Init, WorldType, Source
  <1>2. EvalType /\ DispatchType
    BY DEF Init, EvalType, DispatchType, Stages
  <1>3. TableType
    BY DEF Init, TableType
  <1>4. QueueType /\ HandlerType /\ ImportType
    BY DEF Init, QueueType, HandlerType, ImportType
  <1>5. HistoryType /\ CounterType
    BY DEF Init, HistoryType, CounterType
  <1> QED BY <1>1, <1>2, <1>3, <1>4, <1>5 DEF Typed

\* An evaluation is saved: by create or by rerun.
LEMMA TypeSave ==
  ASSUME Typed, NEW e \in Evaluations, NEW S \in SUBSET Scores, NEW D \in SUBSET Sources,
         NEW m \in BOOLEAN, Save(e, S, D, m)
  PROVE  Typed'
  <1>1. EvalType'
    BY DEF Save, Typed, EvalType
  <1>2. DispatchType'
    BY DEF Save, Typed, DispatchType, Stages
  <1> QED BY <1>1, <1>2, Unchanged DEF Save, Typed

LEMMA TypeWithout ==
  ASSUME NEW f \in [Cells -> Seq(ScoreResult)], NEW E, NEW S
  PROVE  Without(f, E, S) \in [Cells -> Seq(ScoreResult)]
  BY DEF Without

LEMMA TypeRequest ==
  ASSUME Typed, Request
  PROVE  Typed'
  <1>1. ASSUME NEW src \in Evaluations, NEW e \in Evaluations, Rerun(src, e)
        PROVE  Typed'
    <2>1. /\ uses[src] \intersect scores \in SUBSET Scores
          /\ covers[src] \intersect sources \in SUBSET Sources
          /\ mapped[src] \in BOOLEAN
      BY DEF Typed, EvalType
    <2> QED BY <1>1, <2>1, TypeSave DEF Rerun
  <1>2. ASSUME NEW e \in Evaluations, Create(e)
        PROVE  Typed'
    <2>1. PICK D \in Loadable, m \in BOOLEAN : Save(e, scores, D, m)
      BY <1>2 DEF Create
    <2>2. scores \in SUBSET Scores /\ D \in SUBSET Sources
      BY DEF Typed, WorldType, Loadable
    <2> QED BY <2>1, <2>2, TypeSave
  <1>3. ASSUME NEW e \in Evaluations, Remove(e)
        PROVE  Typed'
    <2>1. EvalType'
      BY <1>3 DEF Remove, Typed, EvalType
    <2>2. TableType'
      BY <1>3, TypeWithout DEF Remove, Typed, TableType
    <2> QED BY <1>3, <2>1, <2>2, Unchanged DEF Remove, Typed
  <1>4. ASSUME NEW s \in Scores, RemoveScore(s)
        PROVE  Typed'
    <2>1. WorldType'
      BY <1>4 DEF RemoveScore, Typed, WorldType
    <2>2. TableType'
      BY <1>4, TypeWithout DEF RemoveScore, Typed, TableType
    <2> QED BY <1>4, <2>1, <2>2, Unchanged DEF RemoveScore, Typed
  <1>5. ASSUME NEW t \in Targets, AddTarget(t)
        PROVE  Typed'
    <2>1. WorldType'
      BY <1>5 DEF AddTarget, Typed, WorldType
    <2> QED BY <1>5, <2>1, Unchanged DEF AddTarget, Typed
  <1>6. ASSUME NEW x \in Sources, RemoveExperiment(x)
        PROVE  Typed'
    <2>1. WorldType'
      BY <1>6 DEF RemoveExperiment, Vanish, Typed, WorldType
    <2>2. TableType'
      <3>1. \A c \in Cells : orphans[c] \o results[c] \in Seq(ScoreResult)
        BY DEF Typed, TableType
      <3>2. CASE Unreferenced({x}) = {}
        <4>1. /\ orphans' = [c \in Cells |-> IF c \in CellsOf({x})
                                              THEN orphans[c] \o results[c] ELSE orphans[c]]
              /\ results' = [c \in Cells |-> IF c \in CellsOf({x}) THEN <<>> ELSE results[c]]
          BY <1>6, <3>2 DEF RemoveExperiment
        <4>2. <<>> \in Seq(ScoreResult)
          OBVIOUS
        <4> QED BY <3>1, <4>1, <4>2 DEF Typed, TableType
      <3>3. CASE Unreferenced({x}) # {}
        BY <1>6, <3>3 DEF RemoveExperiment, tableVars, Typed, TableType
      <3> QED BY <3>2, <3>3
    <2>3. HistoryType'
      BY <1>6 DEF RemoveExperiment, Typed, HistoryType
    <2> QED BY <1>6, <2>1, <2>2, <2>3, Unchanged DEF RemoveExperiment, Typed
  <1>7. CASE RemoveDataset
    <2>1. WorldType'
      BY <1>7 DEF RemoveDataset, Vanish, Typed, WorldType
    <2>2. HistoryType'
      BY <1>7 DEF RemoveDataset, Typed, HistoryType
    <2> QED BY <1>7, <2>1, <2>2, Unchanged DEF RemoveDataset, Typed
  <1>8. ASSUME NEW e \in Evaluations, NEW C \in SUBSET Askable(e), CreateResult(e, C)
        PROVE  Typed'
    <2>1. HandRow \in ScoreResult
      BY DEF HandRow, ScoreResult
    <2>2. \A c \in Cells : Append(results[c], HandRow) \in Seq(ScoreResult)
      BY <2>1 DEF Typed, TableType
    <2>3. TableType'
      BY <1>8, <2>2 DEF CreateResult, Typed, TableType
    <2>4. C \subseteq Cells
      BY DEF Askable, Cells, Typed, EvalType, WorldType
    <2>5. HistoryType' /\ CounterType'
      BY <1>8, <2>4 DEF CreateResult, Entry, Typed, HistoryType, CounterType
    <2> QED BY <1>8, <2>3, <2>5, Unchanged DEF CreateResult, Typed
  <1>9. ASSUME NEW i \in Importers, NEW e \in Evaluations, NEW C \in Importable(e),
               ImportFind(i, e, C)
        PROVE  Typed'
    <2>1. C \subseteq Cells
      BY DEF Importable, Askable, Cells, Typed, EvalType, WorldType
    <2>2. PICK at \in [C -> 0..Cardinality(UNION {DOMAIN results[c] : c \in C})] :
            import' = [import EXCEPT ![i] = <<at>>]
      BY <1>9 DEF ImportFind
    <2>3. at \in Finds
      <3>1. \A n : 0..n \subseteq Nat
        OBVIOUS
      <3>2. at \in [C -> Nat]
        BY <3>1
      <3> QED BY <2>1, <3>2 DEF Finds
    <2>4. ImportType'
      BY <2>2, <2>3 DEF ImportType, Typed
    <2>5. CounterType'
      BY <1>9 DEF ImportFind, Entry, Typed, CounterType
    <2> QED BY <1>9, <2>4, <2>5, Unchanged DEF ImportFind, Typed
  <1> QED BY <1>1, <1>2, <1>3, <1>4, <1>5, <1>6, <1>7, <1>8, <1>9 DEF Request

LEMMA SpecsType ==
  ASSUME Typed, NEW e \in Evaluations
  PROVE  Specs(e) \subseteq Cells /\ filled[e] \subseteq Cells /\ todo[e] \subseteq Cells
  BY DEF Typed, DispatchType, Specs

LEMMA TypeSent ==
  ASSUME Typed, NEW e \in Evaluations, NEW c \in Cells, Sent(e, c)
  PROVE  DispatchType'
  BY DEF Sent, Typed, DispatchType, Stages

LEMMA TypeDispatch ==
  ASSUME Typed, NEW e \in Evaluations, DispatchStep(e)
  PROVE  Typed'
  <1>1. CASE Load(e)
    <2>1. EvalType'
      BY <1>1 DEF Load, Typed, EvalType
    <2>2. DispatchType'
      <3>1. dispatch' \in [Evaluations -> Stages]
        <4> DEFINE next == CASE e \notin stored  -> "failed"
                             [] e \in stored /\ ~mapped[e] -> "unmapped"
                             [] e \in stored /\ mapped[e] ->
                                  IF covers[e] = {} THEN "done" ELSE "fill"
        <4>1. next \in Stages
          BY DEF Stages
        <4>2. dispatch' = [dispatch EXCEPT ![e] = next]
          BY <1>1 DEF Load
        <4> HIDE DEF next
        <4> QED BY <4>1, <4>2 DEF Typed, DispatchType
      <3>2. left' \in [Evaluations -> SUBSET Sources]
        BY <1>1 DEF Load, Typed, DispatchType, EvalType
      <3> QED BY <1>1, <3>1, <3>2 DEF Load, Typed, DispatchType
    <2> QED BY <1>1, <2>1, <2>2, Unchanged DEF Load, Typed
  <1>2. CASE Fill(e)
    <2>1. PICK src \in left[e] :
            /\ filled' = [filled EXCEPT ![e] = filled[e] \union MappingsOf(e, src)]
            /\ \E rest \in SUBSET Sources : left' = [left EXCEPT ![e] = rest]
            /\ \E stage \in Stages : dispatch' = [dispatch EXCEPT ![e] = stage]
      <3>1. PICK src \in left[e] :
              LET F    == filled[e] \union MappingsOf(e, src)
                  rest == left[e] \ {src}
                  hand == ManualScores(e, F) # {}
              IN /\ filled' = [filled EXCEPT ![e] = F]
                 /\ left' = [left EXCEPT ![e] = IF rest = {} /\ hand THEN covers[e] ELSE rest]
                 /\ dispatch' = [dispatch EXCEPT ![e] =
                                   CASE rest # {}                     -> "fill"
                                     [] rest = {} /\ hand             -> "pair"
                                     [] rest = {} /\ ~hand /\ F # {}  -> "save"
                                     [] rest = {} /\ ~hand /\ F = {}  -> "done"]
        BY <1>2 DEF Fill
      <3> DEFINE F    == filled[e] \union MappingsOf(e, src)
                 rest == left[e] \ {src}
                 hand == ManualScores(e, F) # {}
                 next == CASE rest # {}                     -> "fill"
                           [] rest = {} /\ hand             -> "pair"
                           [] rest = {} /\ ~hand /\ F # {}  -> "save"
                           [] rest = {} /\ ~hand /\ F = {}  -> "done"
                 then == IF rest = {} /\ hand THEN covers[e] ELSE rest
      <3>2. next \in Stages
        BY DEF Stages
      <3>3. then \in SUBSET Sources
        BY DEF Typed, DispatchType, EvalType
      <3>4. /\ filled' = [filled EXCEPT ![e] = F]
            /\ left' = [left EXCEPT ![e] = then]
            /\ dispatch' = [dispatch EXCEPT ![e] = next]
        BY <3>1
      <3> HIDE DEF next, then
      <3> QED BY <3>2, <3>3, <3>4
    <2>2. MappingsOf(e, src) \subseteq Cells
      BY ScoresAssumption DEF MappingsOf, TargetsIn, Cells, Typed, EvalType, WorldType
    <2>3. DispatchType'
      <3>1. filled[e] \union MappingsOf(e, src) \in SUBSET Cells
        BY <2>2, SpecsType
      <3>2. filled' \in [Evaluations -> SUBSET Cells]
        BY <2>1, <3>1 DEF Typed, DispatchType
      <3>3. left' \in [Evaluations -> SUBSET Sources] /\ dispatch' \in [Evaluations -> Stages]
        BY <2>1 DEF Typed, DispatchType
      <3>4. UNCHANGED <<manual, todo>>
        BY <1>2 DEF Fill
      <3> QED BY <3>2, <3>3, <3>4 DEF Typed, DispatchType
    <2> QED BY <1>2, <2>3, Unchanged DEF Fill, Typed
  <1>3. CASE Pair(e)
    <2>1. PICK src \in left[e] :
            /\ manual' = [manual EXCEPT ![e] =
                 manual[e] \union ({e} \X ManualScores(e, filled[e]) \X TargetsIn(src))]
            /\ left' = [left EXCEPT ![e] = left[e] \ {src}]
            /\ \E stage \in Stages : dispatch' = [dispatch EXCEPT ![e] = stage]
      <3>1. PICK src \in left[e] :
              LET M    == manual[e] \union ({e} \X ManualScores(e, filled[e]) \X TargetsIn(src))
                  rest == left[e] \ {src}
              IN /\ manual' = [manual EXCEPT ![e] = M]
                 /\ left' = [left EXCEPT ![e] = rest]
                 /\ dispatch' = [dispatch EXCEPT ![e] =
                                   CASE rest # {}                               -> "pair"
                                     [] rest = {} /\ filled[e] \union M # {}    -> "save"
                                     [] rest = {} /\ filled[e] \union M = {}    -> "done"]
        BY <1>3 DEF Pair
      <3> DEFINE M    == manual[e] \union ({e} \X ManualScores(e, filled[e]) \X TargetsIn(src))
                 rest == left[e] \ {src}
                 next == CASE rest # {}                               -> "pair"
                           [] rest = {} /\ filled[e] \union M # {}    -> "save"
                           [] rest = {} /\ filled[e] \union M = {}    -> "done"
      <3>2. next \in Stages
        BY DEF Stages
      <3>3. /\ manual' = [manual EXCEPT ![e] = M]
            /\ left' = [left EXCEPT ![e] = rest]
            /\ dispatch' = [dispatch EXCEPT ![e] = next]
        BY <3>1
      <3> HIDE DEF next
      <3> QED BY <3>2, <3>3
    <2>2. {e} \X ManualScores(e, filled[e]) \X TargetsIn(src) \subseteq Cells
      BY DEF ManualScores, TargetsIn, Cells, Typed, EvalType, WorldType
    <2>3. DispatchType'
      BY <1>3, <2>1, <2>2 DEF Pair, Typed, DispatchType
    <2> QED BY <1>3, <2>3, Unchanged DEF Pair, Typed
  <1>4. CASE CreatePending(e)
    <2>1. [status |-> "PENDING", row |-> TRUE] \in ScoreResult
      BY DEF ScoreResult
    <2>2. \A c \in Cells : Append(results[c], [status |-> "PENDING", row |-> TRUE]) \in Seq(ScoreResult)
      BY <2>1 DEF Typed, TableType
    <2>3. TableType'
      BY <1>4, <2>2 DEF CreatePending, Typed, TableType
    <2>4. DispatchType'
      BY <1>4 DEF CreatePending, Typed, DispatchType, Stages
    <2> QED BY <1>4, <2>3, <2>4, Unchanged DEF CreatePending, Typed
  <1>5. CASE Resolve(e)
    <2>1. DispatchType'
      BY <1>5 DEF Resolve, Typed, DispatchType, Stages
    <2>2. HistoryType'
      BY <1>5, SpecsType DEF Resolve, Typed, HistoryType
    <2> QED BY <1>5, <2>1, <2>2, Unchanged DEF Resolve, Typed
  <1>6. ASSUME NEW c \in Cells, Publish(e, c)
        PROVE  Typed'
    <2>1. QueueType'
      BY <1>6, BagStep DEF Publish, Typed, QueueType
    <2> QED BY <1>6, <2>1, TypeSent, Unchanged DEF Publish, Typed
  <1> QED BY <1>1, <1>2, <1>3, <1>4, <1>5, <1>6 DEF DispatchStep

\* A handler that lets its delivery go keeps the types.
LEMMA TypeRelease ==
  ASSUME HandlerType, NEW h \in Handlers, Release(h)
  PROVE  HandlerType'
  BY DEF Release, HandlerType

\* A handler that throws returns its message to the answers.
LEMMA TypeRequeue ==
  ASSUME HandlerType, QueueType, NEW h \in Handlers, hpc[h] # "idle", Requeue(h)
  PROVE  HandlerType' /\ answers' \in [Cells -> Nat]
  <1>1. hmsg[h] \in Cells
    BY DEF HandlerType
  <1>2. answers' \in [Cells -> Nat]
    BY <1>1, BagStep DEF Requeue, QueueType
  <1> QED BY <1>2, TypeRelease DEF Requeue

\* A handler whose save succeeded keeps its message.
LEMMA TypeSaved ==
  ASSUME HandlerType, NEW h \in Handlers, hpc[h] # "idle", Saved(h)
  PROVE  HandlerType' /\ UNCHANGED answers
  BY DEF Saved, HandlerType

LEMMA TypeHandler ==
  ASSUME Typed, NEW h \in Handlers, HandlerStep(h)
  PROVE  Typed'
  <1>1. ASSUME NEW c \in Cells, Find(h, c)
        PROVE  Typed'
    <2>1. QueueType'
      BY <1>1, BagStep DEF Find, Typed, QueueType
    <2>2. HandlerType'
      <3>1. \A i \in Matching(c) : i \in Nat
        BY DEF Matching, Typed, TableType
      <3>2. hmsg' \in [Handlers -> Cells \union {<<>>}]
        BY <1>1 DEF Find, Typed, HandlerType
      <3>3. /\ hpc' \in [Handlers -> {"idle", "update", "insert", "ack"}]
            /\ hat' \in [Handlers -> Nat]
        BY <1>1, <3>1 DEF Find, Typed, HandlerType
      <3>4. \A g \in Handlers : hpc'[g] # "idle" => hmsg'[g] \in Cells
        BY <1>1 DEF Find, Typed, HandlerType
      <3> QED BY <3>2, <3>3, <3>4 DEF HandlerType
    <2> QED BY <1>1, <2>1, <2>2, Unchanged DEF Find, Typed
  <1>2. CASE SaveExisting(h)
    <2>1. hmsg[h] \in Cells /\ hpc[h] # "idle"
      BY <1>2 DEF SaveExisting, Typed, HandlerType
    <2>2. [results[hmsg[h]] EXCEPT ![hat[h]].status = "DONE"] \in Seq(ScoreResult)
      BY <2>1, SettleKeeps DEF Typed, TableType
    <2>3. TableType'
      BY <1>2, <2>1, <2>2 DEF SaveExisting, Settle, Typed, TableType
    <2>4. QueueType' /\ HandlerType'
      BY <1>2, <2>1, TypeRequeue, TypeSaved DEF SaveExisting, Typed, QueueType
    <2> QED BY <1>2, <2>3, <2>4, Unchanged DEF SaveExisting, Typed
  <1>3. CASE SaveNew(h)
    <2>1. hmsg[h] \in Cells /\ hpc[h] # "idle"
      BY <1>3 DEF SaveNew, Typed, HandlerType
    <2>2. Append(results[hmsg[h]], [status |-> "DONE", row |-> TRUE]) \in Seq(ScoreResult)
      BY <2>1 DEF Typed, TableType, ScoreResult
    <2>3. TableType'
      BY <1>3, <2>1, <2>2 DEF SaveNew, Typed, TableType
    <2>4. QueueType' /\ HandlerType'
      BY <1>3, <2>1, TypeRequeue, TypeSaved DEF SaveNew, Typed, QueueType
    <2> QED BY <1>3, <2>3, <2>4, Unchanged DEF SaveNew, Typed
  <1>4. CASE Ack(h)
    <2>1. HandlerType'
      BY <1>4, TypeRelease DEF Ack, Typed
    <2> QED BY <1>4, <2>1, Unchanged DEF Ack, Typed
  <1> QED BY <1>1, <1>2, <1>3, <1>4 DEF HandlerStep

LEMMA ImportedType ==
  ASSUME Typed, NEW i \in Importers, import[i] # <<>>
  PROVE  DOMAIN import[i][1] \subseteq Cells
  BY DEF Typed, ImportType, Finds

\* What an import saves for a cell keeps what the cell has.
LEMMA ImportKeeps ==
  ASSUME NEW s \in Seq(ScoreResult), NEW n
  PROVE  LET t == IF n = 0 THEN Append(s, HandRow) ELSE [s EXCEPT ![n].status = "DONE"]
         IN t \in Seq(ScoreResult) /\ Keeps(s, t)
  <1>1. HandRow \in ScoreResult
    BY DEF HandRow, ScoreResult
  <1> QED BY <1>1, AppendKeeps, SettleKeeps

LEMMA TypeImport ==
  ASSUME Typed, NEW i \in Importers, ImportSave(i)
  PROVE  Typed'
  <1> DEFINE at == import[i][1]
             C  == DOMAIN at
  <1>1. C \subseteq Cells
    BY ImportedType DEF ImportSave
  <1>2. ImportType'
    BY DEF ImportSave, Typed, ImportType
  <1>3. CASE \A c \in C : Alive(c)
    <2>1. /\ results' = [c \in Cells |->
                IF c \notin C THEN results[c]
                ELSE IF at[c] = 0 THEN Append(results[c], HandRow)
                ELSE [results[c] EXCEPT ![at[c]].status = "DONE"]]
          /\ entered' = entered \union {c \in C : at[c] = 0}
          /\ UNCHANGED <<orphans, refused, unqueued, lost>>
      BY <1>3 DEF ImportSave
    <2> HIDE DEF C, at
    <2>2. \A c \in Cells : results[c] \in Seq(ScoreResult)
      BY DEF Typed, TableType
    <2>3. results' \in [Cells -> Seq(ScoreResult)]
      BY <2>1, <2>2, ImportKeeps
    <2>4. TableType' /\ HistoryType'
      BY <1>1, <2>1, <2>3 DEF Typed, TableType, HistoryType
    <2> QED BY <1>2, <2>4, Unchanged DEF ImportSave, Typed
  <1>4. CASE ~ \A c \in C : Alive(c)
    <2>1. UNCHANGED <<tableVars, historyVars>>
      BY <1>4 DEF ImportSave, tableVars, historyVars
    <2> QED BY <1>2, <2>1, Unchanged DEF ImportSave, Typed
  <1> QED BY <1>3, <1>4

LEMMA TypeFailure ==
  ASSUME Typed, Failure
  PROVE  Typed'
  <1>1. ASSUME Fault PROVE faults' \in Nat
    BY <1>1 DEF Fault, Typed, CounterType
  <1>2. ASSUME NEW e \in Evaluations, NEW c \in Cells, PublishFails(e, c)
        PROVE  Typed'
    <2>1. QueueType' /\ HistoryType'
      BY <1>2, BagStep DEF PublishFails, Typed, QueueType, HistoryType
    <2>2. DispatchType'
      BY <1>2, TypeSent DEF PublishFails
    <2>3. CounterType'
      BY <1>1, <1>2 DEF PublishFails, Typed, CounterType
    <2> QED BY <1>2, <2>1, <2>2, <2>3, Unchanged DEF PublishFails, Typed
  <1>3. ASSUME NEW e \in Evaluations, DispatchDies(e)
        PROVE  Typed'
    <2>1. DispatchType'
      BY <1>3 DEF DispatchDies, Typed, DispatchType, Stages
    <2>2. HistoryType'
      <3>1. lost' \subseteq Cells
        <4>1. lost \subseteq Cells
          BY DEF Typed, HistoryType
        <4> QED BY <1>3, <4>1, SpecsType DEF DispatchDies
      <3> QED BY <1>3, <3>1 DEF DispatchDies, Typed, HistoryType
    <2>3. CounterType'
      BY <1>1, <1>3 DEF DispatchDies, Typed, CounterType
    <2> QED BY <1>3, <2>1, <2>2, <2>3, Unchanged DEF DispatchDies, Typed
  <1>4. ASSUME NEW c \in Cells, WorkerRepeats(c)
        PROVE  Typed'
    <2>1. QueueType'
      BY <1>4, BagStep DEF WorkerRepeats, Typed, QueueType
    <2>2. CounterType'
      BY <1>1, <1>4 DEF WorkerRepeats, Typed, CounterType
    <2> QED BY <1>4, <2>1, <2>2, Unchanged DEF WorkerRepeats, Typed
  <1>5. ASSUME NEW h \in Handlers, DeliveryDies(h)
        PROVE  Typed'
    <2>1. QueueType' /\ HandlerType'
      BY <1>5, TypeRequeue DEF DeliveryDies, Typed, QueueType
    <2>2. CounterType'
      BY <1>1, <1>5 DEF DeliveryDies, Typed, CounterType
    <2> QED BY <1>5, <2>1, <2>2, Unchanged DEF DeliveryDies, Typed
  <1> QED BY <1>2, <1>3, <1>4, <1>5 DEF Failure

LEMMA TypeNext ==
  ASSUME Typed, [Next]_vars
  PROVE  Typed'
  <1>1. ASSUME NEW c \in Cells, WorkerAnswers(c)
        PROVE  Typed'
    <2>1. QueueType'
      BY <1>1, BagStep DEF WorkerAnswers, Typed, QueueType
    <2> QED BY <1>1, <2>1, Unchanged DEF WorkerAnswers, Typed
  <1>2. CASE UNCHANGED vars
    BY <1>2, Unchanged DEF vars, Typed
  <1> QED
    BY <1>1, <1>2, TypeRequest, TypeDispatch, TypeHandler, TypeImport, TypeFailure DEF Next

\* Every variable has the type TypeOK gives it, and a delivery in progress
\* is about a cell.
THEOREM TypeCorrect == Spec => []TypeOK
  <1>1. Spec => []Typed
    BY TypeInit, TypeNext, PTL DEF Spec
  <1> QED BY <1>1, TypedImplies, PTL

-----------------------------------------------------------------------------
(***************************************************************************)
(* The inductive invariant: whatever may come to be in flight is about a   *)
(* cell that cannot come alive again, and has a row while it is alive.     *)
(***************************************************************************)

\* The evaluation has been created, and the target there is: neither an id
\* nor a target that was deleted comes back.
Known(c) == c[1] \in created /\ (c[3] \in targets \/ Source(c[3]) \notin sources)

\* A row of the cell that findOne matches.
HasRow(c) == \E i \in DOMAIN results[c] : results[c][i].row

Good(c) == Known(c) /\ (Alive(c) => HasRow(c))

FlightInv == \A c \in Cells : InFlight(c) => Good(c)

\* What posting will publish has its row.
DispatchInv ==
  \A e \in Evaluations :
    /\ dispatch[e] = "resolve" => \A c \in Specs(e) : Good(c)
    /\ dispatch[e] = "publish" => \A c \in todo[e] : Good(c)

IInv == Typed /\ FlightInv /\ DispatchInv /\ CreateBranchOnlyWhenGone

LEMMA InvImplies == IInv => AnswersFindTheirRow
  <1> SUFFICES ASSUME IInv PROVE AnswersFindTheirRow
    OBVIOUS
  <1>1. ASSUME NEW c \in Cells, Alive(c), InFlight(c)
        PROVE  Matching(c) # {}
    BY <1>1 DEF IInv, FlightInv, Good, HasRow, Matching
  <1> QED BY <1>1 DEF IInv, AnswersFindTheirRow, NothingInFlightWithoutRow

\* What every step does to cells and their rows.
CellsKept ==
  /\ scope' = scope
  /\ created \subseteq created'
  /\ \A c \in Cells : Known(c) => Known(c)' /\ (Alive(c)' => Alive(c))
  /\ \A c \in Cells : Alive(c)' => Keeps(results[c], results'[c])

LEMMA GoodKept ==
  ASSUME CellsKept, NEW c \in Cells, Good(c)
  PROVE  Good(c)'
  <1>1. Known(c)'
    BY DEF CellsKept, Good
  <1>2. ASSUME Alive(c)' PROVE HasRow(c)'
    <2>1. HasRow(c)
      BY <1>2 DEF CellsKept, Good
    <2> QED BY <1>2, <2>1 DEF CellsKept, Keeps, HasRow
  <1> QED BY <1>1, <1>2 DEF Good

LEMMA QuietKeeps ==
  ASSUME UNCHANGED <<worldVars, created, stored, results>>
  PROVE  CellsKept
  BY KeepsItself DEF CellsKept, Known, Alive, Source, worldVars

\* A step that only writes rows keeps the cells if it keeps their rows.
LEMMA WriteKeeps ==
  ASSUME UNCHANGED <<worldVars, created, stored>>,
         \A c \in Cells : Alive(c) => Keeps(results[c], results'[c])
  PROVE  CellsKept
  BY DEF CellsKept, Known, Alive, Source, worldVars

\* A step that deletes evaluations or scores, with their rows.
LEMMA WithoutKeeps ==
  ASSUME NEW E, NEW S, UNCHANGED <<scope, sources, targets, created>>,
         stored' = stored \ E, scores' = scores \ S, results' = Without(results, E, S)
  PROVE  CellsKept
  <1>1. ASSUME NEW c \in Cells, Alive(c)'
        PROVE  Keeps(results[c], results'[c])
    BY <1>1, KeepsItself DEF Alive, Without
  <1>2. \A c \in Cells : Known(c) => Known(c)' /\ (Alive(c)' => Alive(c))
    BY DEF Known, Alive, Source
  <1> QED BY <1>1, <1>2 DEF CellsKept

\* A step that deletes sources, with their targets; rows of other cells stay.
LEMMA VanishKeeps ==
  ASSUME NEW D, Vanish(D), UNCHANGED <<scope, scores, created, stored>>,
         \A c \in Cells : c \notin CellsOf(D) => results'[c] = results[c]
  PROVE  CellsKept
  <1>1. \A c \in Cells : Known(c) => Known(c)' /\ (Alive(c)' => Alive(c))
    BY DEF Vanish, Known, Alive, Source
  <1>2. ASSUME NEW c \in Cells, Alive(c)'
        PROVE  Keeps(results[c], results'[c])
    <2>1. c \notin CellsOf(D)
      BY <1>2 DEF Vanish, Alive, CellsOf, Source
    <2> QED BY <2>1, KeepsItself
  <1> QED BY <1>1, <1>2 DEF CellsKept

\* The actions, as the lemmas below take them.
LEMMA NextCases ==
  ASSUME [Next]_vars
  PROVE  \/ \E e \in Evaluations : \E S, D, m : Save(e, S, D, m)
         \/ \E e \in Evaluations : Remove(e)
         \/ \E s \in Scores : RemoveScore(s)
         \/ \E t \in Targets : AddTarget(t)
         \/ \E x \in Sources : RemoveExperiment(x)
         \/ RemoveDataset
         \/ \E e \in Evaluations : \E C : CreateResult(e, C)
         \/ \E i \in Importers, e \in Evaluations : \E C : ImportFind(i, e, C)
         \/ \E e \in Evaluations : DispatchStep(e)
         \/ \E c \in Cells : WorkerAnswers(c)
         \/ \E h \in Handlers : HandlerStep(h)
         \/ \E i \in Importers : ImportSave(i)
         \/ Failure
         \/ UNCHANGED vars
  <1>1. CASE Request
    BY <1>1 DEF Request, Create, Rerun
  <1> QED BY <1>1 DEF Next

\* Ids are used once, deleted sources and scores stay away, and rows leave
\* the table only with what they are about.
LEMMA StepKeeps ==
  ASSUME Typed, [Next]_vars
  PROVE  CellsKept
  <1>1. ASSUME NEW e \in Evaluations, NEW S, NEW D, NEW m, Save(e, S, D, m)
        PROVE  CellsKept
    <2>1. \A c \in Cells : Known(c) => Known(c)' /\ (Alive(c)' => Alive(c))
      BY <1>1 DEF Save, Known, Alive, Source, worldVars
    <2>2. results' = results /\ scope' = scope /\ created \subseteq created'
      BY <1>1 DEF Save, tableVars, worldVars
    <2> QED BY <2>1, <2>2, KeepsItself DEF CellsKept
  <1>2. ASSUME NEW e \in Evaluations, Remove(e)
        PROVE  CellsKept
    <2>1. scores' = scores \ {} /\ UNCHANGED <<scope, sources, targets, created>>
      BY <1>2 DEF Remove, worldVars
    <2> QED BY <1>2, <2>1, WithoutKeeps DEF Remove
  <1>3. ASSUME NEW s \in Scores, RemoveScore(s)
        PROVE  CellsKept
    <2>1. stored' = stored \ {} /\ UNCHANGED <<scope, sources, targets, created>>
      BY <1>3 DEF RemoveScore, evalVars
    <2> QED BY <1>3, <2>1, WithoutKeeps DEF RemoveScore
  <1>4. ASSUME NEW t \in Targets, AddTarget(t)
        PROVE  CellsKept
    <2>1. \A c \in Cells : Known(c) => Known(c)' /\ (Alive(c)' => Alive(c))
      BY <1>4 DEF AddTarget, Known, Alive, Source, evalVars
    <2>2. results' = results /\ scope' = scope /\ created' = created
      BY <1>4 DEF AddTarget, tableVars, evalVars
    <2> QED BY <2>1, <2>2, KeepsItself DEF CellsKept
  <1>5. ASSUME NEW x \in Sources, RemoveExperiment(x)
        PROVE  CellsKept
    <2>1. CASE Unreferenced({x}) = {}
      <3>1. /\ Vanish({x})
            /\ results' = [c \in Cells |-> IF c \in CellsOf({x}) THEN <<>> ELSE results[c]]
            /\ UNCHANGED <<scope, scores, created, stored>>
        BY <1>5, <2>1 DEF RemoveExperiment, evalVars
      <3> QED BY <3>1, VanishKeeps
    <2>2. CASE Unreferenced({x}) # {}
      BY <1>5, <2>2, QuietKeeps DEF RemoveExperiment, worldVars, evalVars, tableVars
    <2> QED BY <2>1, <2>2
  <1>6. CASE RemoveDataset
    <2>1. CASE \A c \in Cells : results[c] = <<>> /\ orphans[c] = <<>>
      BY <1>6, <2>1, VanishKeeps DEF RemoveDataset, evalVars, tableVars
    <2>2. CASE ~ \A c \in Cells : results[c] = <<>> /\ orphans[c] = <<>>
      BY <1>6, <2>2, QuietKeeps DEF RemoveDataset, worldVars, evalVars, tableVars
    <2> QED BY <2>1, <2>2
  <1>7. ASSUME NEW e \in Evaluations, NEW C, CreateResult(e, C)
        PROVE  CellsKept
    <2>1. HandRow \in ScoreResult
      BY DEF HandRow, ScoreResult
    <2>2. \A c \in Cells : results[c] \in Seq(ScoreResult)
      BY DEF Typed, TableType
    <2>3. \A c \in Cells : Keeps(results[c], results'[c])
      BY <1>7, <2>1, <2>2, AppendKeeps, KeepsItself DEF CreateResult
    <2> QED BY <1>7, <2>3, WriteKeeps DEF CreateResult, evalVars
  <1>8. ASSUME NEW e \in Evaluations, CreatePending(e)
        PROVE  CellsKept
    <2> DEFINE new == [status |-> "PENDING", row |-> TRUE]
    <2>1. new \in ScoreResult
      BY DEF ScoreResult
    <2>2. \A c \in Cells : results[c] \in Seq(ScoreResult)
      BY DEF Typed, TableType
    <2>3. \A c \in Cells : Keeps(results[c], results'[c])
      <3>1. \/ results' = results
            \/ results' = [c \in Cells |-> IF c \in Specs(e) THEN Append(results[c], new)
                                                             ELSE results[c]]
        BY <1>8 DEF CreatePending
      <3> HIDE DEF new
      <3> QED BY <2>1, <2>2, <3>1, AppendKeeps, KeepsItself
    <2> QED BY <1>8, <2>3, WriteKeeps DEF CreatePending, evalVars
  <1>9. ASSUME NEW h \in Handlers, SaveExisting(h)
        PROVE  CellsKept
    <2>1. hmsg[h] \in Cells
      BY <1>9 DEF SaveExisting, Typed, HandlerType
    <2>2. Keeps(results[hmsg[h]], [results[hmsg[h]] EXCEPT ![hat[h]].status = "DONE"])
      BY <2>1, SettleKeeps DEF Typed, TableType
    <2>3. \A c \in Cells : Keeps(results[c], results'[c])
      BY <1>9, <2>1, <2>2, KeepsItself DEF SaveExisting, Settle, Typed, TableType
    <2> QED BY <1>9, <2>3, WriteKeeps DEF SaveExisting, evalVars
  <1>10. ASSUME NEW h \in Handlers, SaveNew(h)
         PROVE  CellsKept
    <2>1. hmsg[h] \in Cells /\ [status |-> "DONE", row |-> TRUE] \in ScoreResult
      BY <1>10 DEF SaveNew, Typed, HandlerType, ScoreResult
    <2>2. Keeps(results[hmsg[h]], Append(results[hmsg[h]], [status |-> "DONE", row |-> TRUE]))
      BY <2>1, AppendKeeps DEF Typed, TableType
    <2>3. \A c \in Cells : Keeps(results[c], results'[c])
      BY <1>10, <2>1, <2>2, KeepsItself DEF SaveNew, Typed, TableType
    <2> QED BY <1>10, <2>3, WriteKeeps DEF SaveNew, evalVars
  <1>11. ASSUME NEW i \in Importers, ImportSave(i)
         PROVE  CellsKept
    <2> DEFINE at == import[i][1]
               C  == DOMAIN at
    <2>1. CASE \A c \in C : Alive(c)
      <3>1. results' = [c \in Cells |->
                  IF c \notin C THEN results[c]
                  ELSE IF at[c] = 0 THEN Append(results[c], HandRow)
                  ELSE [results[c] EXCEPT ![at[c]].status = "DONE"]]
        BY <1>11, <2>1 DEF ImportSave
      <3> HIDE DEF C, at
      <3>2. \A c \in Cells : results[c] \in Seq(ScoreResult)
        BY DEF Typed, TableType
      <3>3. \A c \in Cells : Keeps(results[c], results'[c])
        BY <3>1, <3>2, ImportKeeps, KeepsItself
      <3> QED BY <1>11, <3>3, WriteKeeps DEF ImportSave, evalVars
    <2>2. CASE ~ \A c \in C : Alive(c)
      BY <1>11, <2>2, QuietKeeps DEF ImportSave, evalVars
    <2> QED BY <2>1, <2>2
  <1>12. ASSUME NEW e \in Evaluations, Load(e) \/ Fill(e) \/ Pair(e) \/ Resolve(e) \/ DispatchDies(e)
         PROVE  CellsKept
    BY <1>12, QuietKeeps DEF Load, Fill, Pair, Resolve, DispatchDies, evalVars, tableVars
  <1>13. ASSUME NEW e \in Evaluations, NEW c \in Cells, Publish(e, c) \/ PublishFails(e, c)
         PROVE  CellsKept
    BY <1>13, QuietKeeps DEF Publish, PublishFails, evalVars, tableVars
  <1>14. ASSUME NEW c \in Cells, WorkerAnswers(c) \/ WorkerRepeats(c)
         PROVE  CellsKept
    BY <1>14, QuietKeeps DEF WorkerAnswers, WorkerRepeats, evalVars, tableVars
  <1>15. ASSUME NEW h \in Handlers, NEW c \in Cells, Find(h, c)
         PROVE  CellsKept
    BY <1>15, QuietKeeps DEF Find, evalVars, tableVars
  <1>16. ASSUME NEW h \in Handlers, Ack(h) \/ DeliveryDies(h)
         PROVE  CellsKept
    BY <1>16, QuietKeeps DEF Ack, DeliveryDies, evalVars, tableVars
  <1>17. ASSUME NEW i \in Importers, NEW e \in Evaluations, NEW C, ImportFind(i, e, C)
         PROVE  CellsKept
    BY <1>17, QuietKeeps DEF ImportFind, evalVars, tableVars
  <1>18. CASE UNCHANGED vars
    BY <1>18, QuietKeeps DEF vars, evalVars, tableVars
  <1> QED
    BY <1>1, <1>2, <1>3, <1>4, <1>5, <1>6, <1>7, <1>8, <1>9, <1>10, <1>11, <1>12, <1>13, <1>14,
       <1>15, <1>16, <1>17, <1>18, NextCases DEF DispatchStep, HandlerStep, Failure

\* Something is in flight after a step only if it was before, or if its job
\* was to be published.
LEMMA FlightSource ==
  ASSUME Typed, [Next]_vars, NEW c \in Cells, InFlight(c)'
  PROVE  \/ InFlight(c)
         \/ \E e \in Evaluations : dispatch[e] = "publish" /\ c \in todo[e]
  <1> DEFINE Goal == \/ InFlight(c)
                     \/ \E e \in Evaluations : dispatch[e] = "publish" /\ c \in todo[e]
  <1> SUFFICES Goal
    OBVIOUS
  <1> USE DEF InFlight, Processing
  <1>1. CASE UNCHANGED <<jobs, answers, hpc, hmsg>>
    BY <1>1
  <1>2. ASSUME NEW d \in Cells, WorkerAnswers(d) \/ WorkerRepeats(d)
        PROVE  Goal
    <2>1. jobs \in [Cells -> Nat] /\ answers \in [Cells -> Nat]
      BY DEF Typed, QueueType
    <2>2. CASE c = d
      BY <1>2, <2>2 DEF WorkerAnswers, WorkerRepeats
    <2>3. CASE c # d
      BY <1>2, <2>1, <2>3 DEF WorkerAnswers, WorkerRepeats, handlerVars, Inc, Dec
    <2> QED BY <2>2, <2>3
  <1>3. ASSUME NEW e \in Evaluations, NEW d \in Cells, Publish(e, d) \/ PublishFails(e, d)
        PROVE  Goal
    <2>1. jobs \in [Cells -> Nat]
      BY DEF Typed, QueueType
    <2>2. CASE c = d
      BY <1>3, <2>2 DEF Publish, PublishFails, Sent
    <2>3. CASE c # d
      BY <1>3, <2>1, <2>3 DEF Publish, PublishFails, handlerVars, Inc
    <2> QED BY <2>2, <2>3
  <1>4. ASSUME NEW h \in Handlers, NEW d \in Cells, Find(h, d)
        PROVE  Goal
    <2>1. /\ answers \in [Cells -> Nat]
          /\ hpc \in [Handlers -> {"idle", "update", "insert", "ack"}]
          /\ hmsg \in [Handlers -> Cells \union {<<>>}]
      BY DEF Typed, QueueType, HandlerType
    <2>2. CASE c = d
      BY <1>4, <2>2 DEF Find
    <2>3. CASE c # d
      BY <1>4, <2>1, <2>3 DEF Find, Dec
    <2> QED BY <2>2, <2>3
  <1>5. ASSUME NEW h \in Handlers, hpc[h] # "idle", UNCHANGED jobs,
               Requeue(h) \/ (Release(h) /\ UNCHANGED answers) \/ Saved(h)
        PROVE  Goal
    <2>1. /\ answers \in [Cells -> Nat] /\ hmsg[h] \in Cells
          /\ hpc \in [Handlers -> {"idle", "update", "insert", "ack"}]
          /\ hmsg \in [Handlers -> Cells \union {<<>>}]
      BY <1>5 DEF Typed, QueueType, HandlerType
    <2>2. CASE c = hmsg[h]
      BY <1>5, <2>2
    <2>3. CASE c # hmsg[h]
      <3>1. answers'[c] = answers[c]
        BY <1>5, <2>1, <2>3 DEF Requeue, Inc, Saved
      <3>2. \A g \in Handlers : hpc'[g] # "idle" /\ hmsg'[g] = c => hpc[g] # "idle" /\ hmsg[g] = c
        BY <1>5, <2>1, <2>3 DEF Requeue, Release, Saved
      <3> QED BY <1>5, <3>1, <3>2
    <2> QED BY <2>2, <2>3
  <1>6. ASSUME NEW h \in Handlers, SaveExisting(h) \/ SaveNew(h) \/ Ack(h) \/ DeliveryDies(h)
        PROVE  Goal
    BY <1>5, <1>6 DEF SaveExisting, SaveNew, Ack, DeliveryDies, queueVars
  <1>7. ASSUME NEW e \in Evaluations,
               \/ Remove(e) \/ Load(e) \/ Fill(e) \/ Pair(e) \/ CreatePending(e) \/ Resolve(e)
               \/ DispatchDies(e)
               \/ \E S, D, m : Save(e, S, D, m)
               \/ \E C : CreateResult(e, C)
               \/ \E i \in Importers : \E C : ImportFind(i, e, C)
        PROVE  Goal
    BY <1>1, <1>7 DEF Remove, Load, Fill, Pair, CreatePending, Resolve, DispatchDies, Save,
                      CreateResult, ImportFind, queueVars, handlerVars
  <1>8. ASSUME NEW s \in Scores, RemoveScore(s)
        PROVE  Goal
    BY <1>1, <1>8 DEF RemoveScore, queueVars, handlerVars
  <1>9. ASSUME NEW t \in Targets, AddTarget(t)
        PROVE  Goal
    BY <1>1, <1>9 DEF AddTarget, queueVars, handlerVars
  <1>10. ASSUME NEW x \in Sources, RemoveExperiment(x)
         PROVE  Goal
    BY <1>1, <1>10 DEF RemoveExperiment, queueVars, handlerVars
  <1>11. ASSUME RemoveDataset \/ \E i \in Importers : ImportSave(i)
         PROVE  Goal
    BY <1>1, <1>11 DEF RemoveDataset, ImportSave, queueVars, handlerVars
  <1>12. CASE UNCHANGED vars
    BY <1>1, <1>12 DEF vars, queueVars, handlerVars
  <1> QED
    BY <1>2, <1>3, <1>4, <1>6, <1>7, <1>8, <1>9, <1>10, <1>11, <1>12, NextCases
       DEF DispatchStep, HandlerStep, Failure

\* What posting is about to publish, or has just saved, was so before the
\* step, or has just been saved.
Posted(e) ==
  /\ dispatch'[e] = "publish" => \A c \in todo'[e] :
       \/ dispatch[e] = "publish" /\ c \in todo[e]
       \/ dispatch[e] = "resolve" /\ c \in Specs(e)
  /\ dispatch'[e] = "resolve" => \A c \in Specs(e)' :
       \/ dispatch[e] = "resolve" /\ c \in Specs(e)
       \/ c \in Cells /\ Good(c)'

LEMMA PendingIsGood ==
  ASSUME Typed, NEW e \in Evaluations, CreatePending(e), dispatch'[e] = "resolve",
         NEW c \in Specs(e)
  PROVE  c \in Cells /\ Good(c)'
  <1> DEFINE new == [status |-> "PENDING", row |-> TRUE]
  <1>1. c \in Cells /\ results[c] \in Seq(ScoreResult)
    BY SpecsType DEF Typed, TableType
  <1>2. \A d \in Specs(e) : Alive(d)
    BY DEF CreatePending, Typed, DispatchType
  <1>3. results'[c] = Append(results[c], new)
    BY <1>1, <1>2 DEF CreatePending
  <1>4. new \in ScoreResult /\ new.row
    BY DEF ScoreResult
  <1>5. HasRow(c)'
    <2> HIDE DEF new
    <2> QED BY <1>1, <1>3, <1>4, AppendKeeps DEF HasRow
  <1>6. Known(c)'
    BY <1>2 DEF CreatePending, Alive, Known, Source, Typed, EvalType, evalVars, worldVars
  <1> QED BY <1>1, <1>5, <1>6 DEF Good

LEMMA DispatchSource ==
  ASSUME Typed, [Next]_vars, NEW e \in Evaluations
  PROVE  Posted(e)
  <1>1. CASE UNCHANGED <<dispatch, todo, filled, manual>>
    BY <1>1 DEF Posted, Specs
  <1>2. ASSUME NEW f \in Evaluations,
               Load(f) \/ Fill(f) \/ Pair(f) \/ DispatchDies(f) \/ \E S, D, m : Save(f, S, D, m)
        PROVE  Posted(e)
    <2>1. CASE e = f
      <3>1. dispatch'[e] \notin {"publish", "resolve"}
        BY <1>2, <2>1 DEF Load, Fill, Pair, DispatchDies, Save, Typed, DispatchType
      <3> QED BY <3>1 DEF Posted
    <2>2. CASE e # f
      <3>1. dispatch'[e] = dispatch[e] /\ todo'[e] = todo[e]
        BY <1>2, <2>2 DEF Load, Fill, Pair, DispatchDies, Save, Typed, DispatchType
      <3>2. filled'[e] = filled[e] /\ manual'[e] = manual[e]
        BY <1>2, <2>2 DEF Load, Fill, Pair, DispatchDies, Save, Typed, DispatchType
      <3> QED BY <3>1, <3>2 DEF Posted, Specs
    <2> QED BY <2>1, <2>2
  <1>3. ASSUME NEW f \in Evaluations, CreatePending(f)
        PROVE  Posted(e)
    <2>1. UNCHANGED <<todo, filled, manual>>
      BY <1>3 DEF CreatePending
    <2>2. CASE e = f
      <3>1. dispatch'[e] # "publish"
        BY <1>3, <2>2 DEF CreatePending, Typed, DispatchType
      <3>2. Specs(e)' = Specs(e)
        BY <2>1 DEF Specs
      <3> QED BY <1>3, <2>2, <3>1, <3>2, PendingIsGood DEF Posted
    <2>3. CASE e # f
      <3>1. dispatch'[e] = dispatch[e]
        BY <1>3, <2>3 DEF CreatePending, Typed, DispatchType
      <3> QED BY <2>1, <3>1 DEF Posted, Specs
    <2> QED BY <2>2, <2>3
  <1>4. ASSUME NEW f \in Evaluations, Resolve(f)
        PROVE  Posted(e)
    <2>1. UNCHANGED <<filled, manual>>
      BY <1>4 DEF Resolve
    <2>2. CASE e = f
      <3>1. dispatch'[e] # "resolve" /\ todo'[e] \subseteq Specs(e) /\ dispatch[e] = "resolve"
        BY <1>4, <2>2 DEF Resolve, Specs, Typed, DispatchType
      <3> QED BY <3>1 DEF Posted
    <2>3. CASE e # f
      <3>1. dispatch'[e] = dispatch[e] /\ todo'[e] = todo[e]
        BY <1>4, <2>3 DEF Resolve, Typed, DispatchType
      <3> QED BY <2>1, <3>1 DEF Posted, Specs
    <2> QED BY <2>2, <2>3
  <1>5. ASSUME NEW f \in Evaluations, NEW c \in Cells, Publish(f, c) \/ PublishFails(f, c)
        PROVE  Posted(e)
    <2>1. Sent(f, c)
      BY <1>5 DEF Publish, PublishFails
    <2>2. CASE e = f
      <3>1. dispatch'[e] # "resolve" /\ todo'[e] \subseteq todo[e] /\ dispatch[e] = "publish"
        BY <2>1, <2>2 DEF Sent, Typed, DispatchType
      <3> QED BY <3>1 DEF Posted
    <2>3. CASE e # f
      BY <2>1, <2>3 DEF Sent, Posted, Specs, Typed, DispatchType
    <2> QED BY <2>2, <2>3
  <1>6. ASSUME NEW f \in Evaluations,
               \/ Remove(f)
               \/ \E C : CreateResult(f, C)
               \/ \E i \in Importers : \E C : ImportFind(i, f, C)
        PROVE  Posted(e)
    BY <1>1, <1>6 DEF Remove, CreateResult, ImportFind, dispatchVars
  <1>7. ASSUME NEW s \in Scores, RemoveScore(s)
        PROVE  Posted(e)
    BY <1>1, <1>7 DEF RemoveScore, dispatchVars
  <1>8. ASSUME NEW t \in Targets, AddTarget(t)
        PROVE  Posted(e)
    BY <1>1, <1>8 DEF AddTarget, dispatchVars
  <1>9. ASSUME NEW x \in Sources, RemoveExperiment(x)
        PROVE  Posted(e)
    BY <1>1, <1>9 DEF RemoveExperiment, dispatchVars
  <1>10. ASSUME RemoveDataset \/ \E i \in Importers : ImportSave(i)
         PROVE  Posted(e)
    BY <1>1, <1>10 DEF RemoveDataset, ImportSave, dispatchVars
  <1>11. ASSUME NEW c \in Cells, WorkerAnswers(c) \/ WorkerRepeats(c)
         PROVE  Posted(e)
    BY <1>1, <1>11 DEF WorkerAnswers, WorkerRepeats, dispatchVars
  <1>12. ASSUME NEW h \in Handlers,
                \/ SaveExisting(h) \/ SaveNew(h) \/ Ack(h) \/ DeliveryDies(h)
                \/ \E c \in Cells : Find(h, c)
         PROVE  Posted(e)
    BY <1>1, <1>12 DEF SaveExisting, SaveNew, Ack, DeliveryDies, Find, dispatchVars
  <1>13. CASE UNCHANGED vars
    BY <1>1, <1>13 DEF vars, dispatchVars
  <1> QED
    BY <1>2, <1>3, <1>4, <1>5, <1>6, <1>7, <1>8, <1>9, <1>10, <1>11, <1>12, <1>13, NextCases
       DEF DispatchStep, HandlerStep, Failure

\* A delivery that has just found nothing to update.
FoundNothing(h) ==
  /\ UNCHANGED <<worldVars, stored, results>>
  /\ hmsg'[h] \in Cells
  /\ answers[hmsg'[h]] > 0
  /\ Matching(hmsg'[h]) = {}

\* A delivery about to insert was about to before, or has just looked.
LEMMA InsertSource ==
  ASSUME Typed, [Next]_vars, NEW h \in Handlers, hpc'[h] = "insert"
  PROVE  (hpc[h] = "insert" /\ hmsg'[h] = hmsg[h]) \/ FoundNothing(h)
  <1> DEFINE Goal == (hpc[h] = "insert" /\ hmsg'[h] = hmsg[h]) \/ FoundNothing(h)
  <1> SUFFICES Goal
    OBVIOUS
  <1>1. CASE UNCHANGED handlerVars
    BY <1>1 DEF handlerVars
  <1>2. ASSUME NEW g \in Handlers, NEW c \in Cells, Find(g, c)
        PROVE  Goal
    <2>1. CASE g = h
      <3>1. hmsg'[h] = c
        BY <1>2, <2>1 DEF Find, Typed, HandlerType
      <3>2. Matching(c) = {}
        BY <1>2, <2>1 DEF Find, Typed, HandlerType
      <3> QED BY <1>2, <3>1, <3>2 DEF Find, FoundNothing, evalVars, tableVars
    <2>2. CASE g # h
      BY <1>2, <2>2 DEF Find, Typed, HandlerType
    <2> QED BY <2>1, <2>2
  <1>3. ASSUME NEW g \in Handlers, Release(g) \/ Saved(g)
        PROVE  Goal
    BY <1>3 DEF Release, Saved, Typed, HandlerType
  <1>4. ASSUME NEW g \in Handlers, SaveExisting(g) \/ SaveNew(g) \/ Ack(g) \/ DeliveryDies(g)
        PROVE  Goal
    BY <1>3, <1>4 DEF SaveExisting, SaveNew, Ack, DeliveryDies, Requeue
  <1>5. ASSUME NEW e \in Evaluations,
               \/ Remove(e) \/ Load(e) \/ Fill(e) \/ Pair(e) \/ CreatePending(e) \/ Resolve(e)
               \/ DispatchDies(e)
               \/ \E S, D, m : Save(e, S, D, m)
               \/ \E c \in Cells : Publish(e, c) \/ PublishFails(e, c)
               \/ \E C : CreateResult(e, C)
               \/ \E i \in Importers : \E C : ImportFind(i, e, C)
        PROVE  Goal
    BY <1>1, <1>5 DEF Remove, Load, Fill, Pair, CreatePending, Resolve, DispatchDies, Save,
                      Publish, PublishFails, CreateResult, ImportFind
  <1>6. ASSUME NEW s \in Scores, RemoveScore(s)
        PROVE  Goal
    BY <1>1, <1>6 DEF RemoveScore
  <1>7. ASSUME NEW t \in Targets, AddTarget(t)
        PROVE  Goal
    BY <1>1, <1>7 DEF AddTarget
  <1>8. ASSUME NEW x \in Sources, RemoveExperiment(x)
        PROVE  Goal
    BY <1>1, <1>8 DEF RemoveExperiment
  <1>9. ASSUME RemoveDataset \/ \E i \in Importers : ImportSave(i)
        PROVE  Goal
    BY <1>1, <1>9 DEF RemoveDataset, ImportSave
  <1>10. ASSUME NEW c \in Cells, WorkerAnswers(c) \/ WorkerRepeats(c)
         PROVE  Goal
    BY <1>1, <1>10 DEF WorkerAnswers, WorkerRepeats
  <1>11. CASE UNCHANGED vars
    BY <1>1, <1>11 DEF vars
  <1> QED
    BY <1>2, <1>4, <1>5, <1>6, <1>7, <1>8, <1>9, <1>10, <1>11, NextCases
       DEF DispatchStep, HandlerStep, Failure

\* Nothing is in flight at first.
LEMMA InvInit == Init => IInv
  <1> SUFFICES ASSUME Init PROVE IInv
    OBVIOUS
  <1>1. FlightInv
    BY DEF Init, FlightInv, InFlight, Processing
  <1>2. DispatchInv /\ CreateBranchOnlyWhenGone
    BY DEF Init, DispatchInv, CreateBranchOnlyWhenGone
  <1> QED BY <1>1, <1>2, TypeInit DEF IInv

\* IInv is inductive.
LEMMA InvNext == IInv /\ [Next]_vars => IInv'
  <1> SUFFICES ASSUME IInv, [Next]_vars PROVE IInv'
    OBVIOUS
  <1>1. Typed /\ Typed' /\ CellsKept
    BY TypeNext, StepKeeps DEF IInv
  <1>2. FlightInv'
    <2> SUFFICES ASSUME NEW c \in Cells, InFlight(c)'
                 PROVE  Good(c)'
      BY DEF FlightInv
    <2>1. Good(c)
      BY <1>1, FlightSource DEF IInv, FlightInv, DispatchInv
    <2> QED BY <1>1, <2>1, GoodKept
  <1>3. DispatchInv'
    <2> SUFFICES ASSUME NEW e \in Evaluations
                 PROVE  /\ dispatch'[e] = "resolve" => \A c \in Specs(e)' : Good(c)'
                        /\ dispatch'[e] = "publish" => \A c \in todo'[e] : Good(c)'
      BY DEF DispatchInv
    <2>1. Posted(e)
      BY <1>1, DispatchSource
    <2>2. ASSUME dispatch'[e] = "resolve", NEW c \in Specs(e)'
          PROVE  Good(c)'
      <3>1. CASE dispatch[e] = "resolve" /\ c \in Specs(e)
        <4>1. c \in Cells /\ Good(c)
          BY <1>1, <3>1, SpecsType DEF IInv, DispatchInv
        <4> QED BY <1>1, <4>1, GoodKept
      <3> QED BY <2>1, <2>2, <3>1 DEF Posted
    <2>3. ASSUME dispatch'[e] = "publish", NEW c \in todo'[e]
          PROVE  Good(c)'
      <3>1. c \in Cells /\ Good(c)
        BY <1>1, <2>1, <2>3, SpecsType DEF Posted, IInv, DispatchInv
      <3> QED BY <1>1, <3>1, GoodKept
    <2> QED BY <2>2, <2>3
  <1>4. CreateBranchOnlyWhenGone'
    <2> SUFFICES ASSUME NEW h \in Handlers, hpc'[h] = "insert"
                 PROVE  ~ (Alive(hmsg[h]))'
      BY DEF CreateBranchOnlyWhenGone
    <2>1. CASE hpc[h] = "insert" /\ hmsg'[h] = hmsg[h]
      <3>1. hmsg[h] \in Cells /\ InFlight(hmsg[h]) /\ ~Alive(hmsg[h])
        BY <1>1, <2>1 DEF Typed, HandlerType, InFlight, Processing, IInv, CreateBranchOnlyWhenGone
      <3>2. Known(hmsg[h])
        BY <3>1 DEF IInv, FlightInv, Good
      <3>3. \A c \in Cells : Known(c) /\ ~Alive(c) => ~Alive(c)'
        BY <1>1 DEF CellsKept
      <3> QED BY <2>1, <3>1, <3>2, <3>3 DEF Alive
    <2>2. CASE FoundNothing(h)
      <3>1. \A c \in Cells : answers[c] > 0 /\ Matching(c) = {} => ~Alive(c)
        BY DEF IInv, FlightInv, InFlight, Good, HasRow, Matching
      <3> QED BY <2>2, <3>1 DEF FoundNothing, Alive, worldVars
    <2> QED BY <1>1, <2>1, <2>2, InsertSource
  <1> QED BY <1>1, <1>2, <1>3, <1>4 DEF IInv

\* While its evaluation, its score and its target exist, whatever is queued,
\* answered or processed has a row that names its dataset row, and so
\* processResult creates a row only when a foreign key will refuse it.
THEOREM AnswersFind == Spec => []AnswersFindTheirRow
  <1>1. Spec => []IInv
    BY InvInit, InvNext, PTL DEF Spec
  <1> QED BY <1>1, InvImplies, PTL

-----------------------------------------------------------------------------
(***************************************************************************)
(* Refinement: every step is a step of the board, or leaves it alone.      *)
(***************************************************************************)
HasDone(s) == \E i \in DOMAIN s : s[i].status = "DONE"

\* What the board shows of a cell depends only on whether the cell has rows,
\* about its target or orphaned, and whether one of them is DONE.
LEMMA ConcatCell ==
  ASSUME NEW s \in Seq(ScoreResult), NEW t \in Seq(ScoreResult)
  PROVE  CellOf(s \o t) = IF s = <<>> /\ t = <<>> THEN "absent"
                          ELSE IF HasDone(s) \/ HasDone(t) THEN "done" ELSE "pending"
  <1> DEFINE u == s \o t
  <1>1. /\ DOMAIN s = 1 .. Len(s) /\ Len(s) \in Nat
        /\ DOMAIN t = 1 .. Len(t) /\ Len(t) \in Nat
        /\ u \in Seq(ScoreResult) /\ DOMAIN u = 1 .. Len(s) + Len(t)
        /\ \A i \in 1 .. Len(s) : u[i] = s[i]
        /\ \A i \in 1 .. Len(t) : u[Len(s) + i] = t[i]
    OBVIOUS
  <1>2. u = <<>> <=> s = <<>> /\ t = <<>>
    OBVIOUS
  <1> HIDE DEF u
  <1>3. ASSUME NEW i \in DOMAIN u, u[i].status = "DONE"
        PROVE  HasDone(s) \/ HasDone(t)
    <2>1. CASE i \in 1 .. Len(s)
      BY <1>1, <1>3, <2>1 DEF HasDone
    <2>2. CASE i \notin 1 .. Len(s)
      <3>1. i - Len(s) \in 1 .. Len(t) /\ Len(s) + (i - Len(s)) = i
        BY <1>1, <2>2
      <3> QED BY <1>1, <1>3, <3>1 DEF HasDone
    <2> QED BY <2>1, <2>2
  <1>4. ASSUME HasDone(s) \/ HasDone(t)
        PROVE  HasDone(u)
    <2>1. CASE HasDone(s)
      <3>1. PICK i \in DOMAIN s : s[i].status = "DONE"
        BY <2>1 DEF HasDone
      <3> QED BY <1>1, <3>1 DEF HasDone
    <2>2. CASE HasDone(t)
      <3>1. PICK i \in DOMAIN t : t[i].status = "DONE"
        BY <2>2 DEF HasDone
      <3>2. Len(s) + i \in DOMAIN u /\ u[Len(s) + i] = t[i]
        BY <1>1, <3>1
      <3> QED BY <3>1, <3>2 DEF HasDone
    <2> QED BY <1>4, <2>1, <2>2
  <1> QED BY <1>2, <1>3, <1>4 DEF CellOf, HasDone, u

\* What writing a row does to the rows of a cell.
LEMMA RowSteps ==
  ASSUME NEW s \in Seq(ScoreResult), NEW new \in ScoreResult, NEW i
  PROVE  /\ Append(s, new) \in Seq(ScoreResult)
         /\ Append(s, new) # <<>>
         /\ HasDone(Append(s, new)) <=> HasDone(s) \/ new.status = "DONE"
         /\ i \in DOMAIN s => HasDone([s EXCEPT ![i].status = "DONE"])
         /\ i \notin DOMAIN s => [s EXCEPT ![i].status = "DONE"] = s
  <1> DEFINE t == Append(s, new)
             w == [s EXCEPT ![i].status = "DONE"]
  <1>1. /\ t \in Seq(ScoreResult) /\ t # <<>>
        /\ DOMAIN t = 1 .. Len(s) + 1 /\ DOMAIN s = 1 .. Len(s) /\ Len(s) \in Nat
        /\ t[Len(s) + 1] = new
        /\ \A j \in 1 .. Len(s) : t[j] = s[j]
    OBVIOUS
  <1>2. w = [j \in DOMAIN s |-> IF j = i THEN [s[j] EXCEPT !.status = "DONE"] ELSE s[j]]
    OBVIOUS
  <1>3. \A r \in ScoreResult : [r EXCEPT !.status = "DONE"].status = "DONE"
    BY DEF ScoreResult
  <1>4. s = [j \in DOMAIN s |-> s[j]] /\ \A j \in DOMAIN s : s[j] \in ScoreResult
    OBVIOUS
  <1> HIDE DEF t, w
  <1>5. ASSUME HasDone(t) PROVE HasDone(s) \/ new.status = "DONE"
    <2>1. PICK j \in DOMAIN t : t[j].status = "DONE"
      BY <1>5 DEF HasDone
    <2>2. CASE j = Len(s) + 1
      BY <1>1, <2>1, <2>2
    <2>3. CASE j # Len(s) + 1
      <3>1. j \in 1 .. Len(s)
        BY <1>1, <2>3
      <3> QED BY <1>1, <2>1, <3>1 DEF HasDone
    <2> QED BY <2>2, <2>3
  <1>6. ASSUME HasDone(s) \/ new.status = "DONE" PROVE HasDone(t)
    <2>1. CASE HasDone(s)
      <3>1. PICK j \in DOMAIN s : s[j].status = "DONE"
        BY <2>1 DEF HasDone
      <3>2. j \in DOMAIN t /\ t[j] = s[j]
        BY <1>1
      <3> QED BY <3>1, <3>2 DEF HasDone
    <2>2. CASE new.status = "DONE"
      <3>1. Len(s) + 1 \in DOMAIN t
        BY <1>1
      <3> QED BY <1>1, <2>2, <3>1 DEF HasDone
    <2> QED BY <1>6, <2>1, <2>2
  <1>7. i \in DOMAIN s => HasDone(w)
    BY <1>2, <1>3, <1>4 DEF HasDone
  <1>8. i \notin DOMAIN s => w = s
    BY <1>2, <1>4
  <1> QED BY <1>1, <1>5, <1>6, <1>7, <1>8 DEF t, w

LEMMA EmptyRows ==
  /\ <<>> \in Seq(ScoreResult)
  /\ ~HasDone(<<>>)
  BY DEF HasDone

\* The board as EvaluationRun shows it.
Phases == [e \in Evaluations |-> PhaseOf(e)]
Shown == [c \in Cells |-> CellOf(results[c] \o orphans[c])]

LEMMA ShownCell ==
  ASSUME Typed, NEW c \in Cells
  PROVE  Shown[c] = IF results[c] = <<>> /\ orphans[c] = <<>> THEN "absent"
                    ELSE IF HasDone(results[c]) \/ HasDone(orphans[c]) THEN "done" ELSE "pending"
  BY ConcatCell DEF Shown, Typed, TableType

LEMMA BoardInit == Init => Board!Init
  <1> SUFFICES ASSUME Init PROVE Board!Init
    OBVIOUS
  <1>1. Typed
    BY TypeInit
  <1>2. \A c \in Cells : Shown[c] = "absent"
    BY <1>1, ShownCell DEF Init
  <1>3. Phases = [e \in Evaluations |-> "new"]
    BY DEF Init, Phases, PhaseOf
  <1> QED BY <1>2, <1>3 DEF Init, Board!Init, Board!Cells, Cells, Shown, Phases

LEMMA StandsAlive ==
  ASSUME Typed, NEW C \in SUBSET Cells, \A c \in C : Alive(c)
  PROVE  C \in SUBSET Board!Cells /\ C \subseteq Board!Standing
  <1>1. \A c \in C : c[1] \in Evaluations /\ PhaseOf(c[1]) = "open" /\ c[2] \in scores
    BY DEF Alive, PhaseOf, Typed, EvalType
  <1>2. \A c \in C : Phases[c[1]] = "open"
    BY <1>1 DEF Phases
  <1> QED BY <1>1, <1>2 DEF Board!Standing, Board!Cells, Cells, Phases

\* Writing a DONE row of living cells settles them.
LEMMA BoardSettle ==
  ASSUME Typed, Typed', NEW C \in SUBSET Cells, \A c \in C : Alive(c),
         UNCHANGED <<scores, created, stored, orphans>>,
         \A c \in C : HasDone(results'[c]),
         \A c \in Cells \ C : results'[c] = results[c]
  PROVE  Board!Next
  <1>1. ASSUME NEW c \in C PROVE Shown'[c] = "done"
    <2>1. results'[c] # <<>>
      BY EmptyRows
    <2>2. (CellOf(results[c] \o orphans[c]))' = "done"
      BY <2>1, ConcatCell DEF Typed, TableType
    <2> QED BY <2>2 DEF Shown
  <1>2. ASSUME NEW c \in Cells \ C PROVE Shown'[c] = Shown[c]
    BY <1>2 DEF Shown
  <1>3. Phases' = Phases
    BY DEF Phases, PhaseOf
  <1>4. Shown' = [c \in Cells |-> IF c \in C THEN "done" ELSE Shown[c]]
    BY <1>1, <1>2 DEF Shown
  <1>5. Board!Settle(C)
    BY <1>3, <1>4, StandsAlive DEF Board!Settle, Board!Cells, Cells, Shown, Phases
  <1> QED BY <1>5, StandsAlive DEF Board!Next

LEMMA BoardStays ==
  ASSUME UNCHANGED <<scores, created, stored, results, orphans>>
  PROVE  UNCHANGED Board!bvars
  BY DEF Board!bvars, PhaseOf

\* A new evaluation opens on the board.
LEMMA BoardOpen ==
  ASSUME Typed, NEW e \in Evaluations, NEW S, NEW D, NEW m, Save(e, S, D, m)
  PROVE  Board!Next
  <1>1. Phases' = [Phases EXCEPT ![e] = "open"] /\ Phases[e] = "new"
    BY DEF Save, Phases, PhaseOf, Typed, EvalType
  <1>2. Shown' = Shown /\ scores' = scores
    BY DEF Save, Shown, tableVars, worldVars
  <1>3. Board!Open(e)
    BY <1>1, <1>2 DEF Board!Open, Phases, Shown
  <1> QED BY <1>3 DEF Board!Next

\* An evaluation that is deleted is discarded with its cells.
LEMMA BoardDiscard ==
  ASSUME Typed, Typed', NEW e \in Evaluations, Remove(e)
  PROVE  Board!Next
  <1>1. Phases[e] = "open" /\ Phases' = [f \in Evaluations |-> IF f \in {e} THEN "gone" ELSE Phases[f]]
    BY DEF Remove, Phases, PhaseOf, Typed, EvalType
  <1>2. ASSUME NEW c \in Cells
        PROVE  Shown'[c] = IF c[1] \in {e} THEN "absent" ELSE Shown[c]
    <2>1. CASE c[1] = e
      <3>1. results'[c] = <<>> /\ orphans'[c] = <<>>
        BY <2>1 DEF Remove, Without
      <3>2. (CellOf(results[c] \o orphans[c]))' = "absent"
        BY <3>1, ConcatCell DEF Typed, TableType
      <3> QED BY <2>1, <3>2 DEF Shown
    <2>2. CASE c[1] # e
      <3>1. results'[c] = results[c] /\ orphans'[c] = orphans[c]
        BY <2>2 DEF Remove, Without
      <3> QED BY <2>2, <3>1 DEF Shown
    <2> QED BY <2>1, <2>2
  <1>3. Shown' = [c \in Cells |-> IF c[1] \in {e} THEN "absent" ELSE Shown[c]]
    BY <1>2 DEF Shown
  <1>4. scores' = scores
    BY DEF Remove, worldVars
  <1>5. Board!Discard({e})
    BY <1>1, <1>3, <1>4 DEF Board!Discard, Board!Cells, Cells, Phases, Shown
  <1> QED BY <1>5 DEF Board!Next

\* A score that is deleted is withdrawn with its cells.
LEMMA BoardWithdraw ==
  ASSUME Typed, Typed', NEW s \in Scores, RemoveScore(s)
  PROVE  Board!Next
  <1>1. Phases' = Phases
    BY DEF RemoveScore, Phases, PhaseOf, evalVars
  <1>2. ASSUME NEW c \in Cells
        PROVE  Shown'[c] = IF c[2] = s THEN "absent" ELSE Shown[c]
    <2>1. CASE c[2] = s
      <3>1. results'[c] = <<>> /\ orphans'[c] = <<>>
        BY <2>1 DEF RemoveScore, Without
      <3>2. (CellOf(results[c] \o orphans[c]))' = "absent"
        BY <3>1, ConcatCell DEF Typed, TableType
      <3> QED BY <2>1, <3>2 DEF Shown
    <2>2. CASE c[2] # s
      <3>1. results'[c] = results[c] /\ orphans'[c] = orphans[c]
        BY <2>2 DEF RemoveScore, Without
      <3> QED BY <2>2, <3>1 DEF Shown
    <2> QED BY <2>1, <2>2
  <1>3. Shown' = [c \in Cells |-> IF c[2] = s THEN "absent" ELSE Shown[c]]
    BY <1>2 DEF Shown
  <1>4. Board!Withdraw(s)
    BY <1>1, <1>3 DEF RemoveScore, Board!Withdraw, Board!Cells, Cells, Phases, Shown
  <1> QED BY <1>4 DEF Board!Next

\* Rows whose target is deleted are shown as before.
LEMMA BoardOrphans ==
  ASSUME Typed, Typed', NEW x \in Sources, RemoveExperiment(x)
  PROVE  [Board!Next]_(Board!bvars)
  <1>1. CASE Unreferenced({x}) = {}
    <2>1. /\ orphans' = [c \in Cells |-> IF c \in CellsOf({x})
                                          THEN orphans[c] \o results[c] ELSE orphans[c]]
          /\ results' = [c \in Cells |-> IF c \in CellsOf({x}) THEN <<>> ELSE results[c]]
          /\ UNCHANGED <<scores, created, stored>>
      BY <1>1 DEF RemoveExperiment, evalVars
    <2>2. ASSUME NEW c \in Cells PROVE Shown'[c] = Shown[c]
      <3>1. results[c] \in Seq(ScoreResult) /\ orphans[c] \in Seq(ScoreResult)
        BY DEF Typed, TableType
      <3>2. CASE c \in CellsOf({x})
        <4>1. results'[c] \o orphans'[c] = orphans[c] \o results[c]
          <5>1. results'[c] = <<>> /\ orphans'[c] = orphans[c] \o results[c]
            BY <2>1, <3>2
          <5>2. \A v \in Seq(ScoreResult) : <<>> \o v = v
            BY ConcatEmptySeq
          <5> QED BY <3>1, <5>1, <5>2
        <4>2. CellOf(orphans[c] \o results[c]) = CellOf(results[c] \o orphans[c])
          BY <3>1, ConcatCell
        <4> QED BY <4>1, <4>2 DEF Shown
      <3>3. CASE c \notin CellsOf({x})
        BY <2>1, <3>3 DEF Shown
      <3> QED BY <3>2, <3>3
    <2>3. Shown' = Shown
      BY <2>2 DEF Shown
    <2>4. Phases' = Phases
      BY <2>1 DEF Phases, PhaseOf
    <2> QED BY <2>1, <2>3, <2>4 DEF Board!bvars, Shown, Phases
  <1>2. CASE Unreferenced({x}) # {}
    BY <1>2, BoardStays DEF RemoveExperiment, evalVars, tableVars
  <1> QED BY <1>1, <1>2

\* The PENDING rows are posted.
LEMMA BoardPost ==
  ASSUME Typed, Typed', NEW e \in Evaluations, CreatePending(e)
  PROVE  [Board!Next]_(Board!bvars)
  <1> DEFINE new == [status |-> "PENDING", row |-> TRUE]
             C   == Specs(e)
  <1>1. CASE \A c \in C : Alive(c)
    <2>1. C \in SUBSET Cells
      BY SpecsType
    <2>2. results' = [c \in Cells |-> IF c \in C THEN Append(results[c], new) ELSE results[c]]
      BY <1>1 DEF CreatePending
    <2>3. UNCHANGED <<scores, created, stored, orphans>>
      BY DEF CreatePending, worldVars, evalVars
    <2>4. new \in ScoreResult /\ new.status # "DONE"
      BY DEF ScoreResult
    <2> HIDE DEF C, new
    <2>5. ASSUME NEW c \in Cells
          PROVE  Shown'[c] = IF c \in C /\ Shown[c] = "absent" THEN "pending" ELSE Shown[c]
      <3>1. results[c] \in Seq(ScoreResult) /\ orphans[c] \in Seq(ScoreResult)
        BY DEF Typed, TableType
      <3>2. CASE c \in C
        <4>1. results'[c] = Append(results[c], new) /\ orphans'[c] = orphans[c]
          BY <2>2, <2>3, <3>2
        <4>2. /\ Append(results[c], new) \in Seq(ScoreResult)
              /\ Append(results[c], new) # <<>>
              /\ HasDone(Append(results[c], new)) <=> HasDone(results[c])
          BY <2>4, <3>1, RowSteps
        <4>3. Shown'[c] = IF HasDone(results[c]) \/ HasDone(orphans[c]) THEN "done" ELSE "pending"
          <5>1. CellOf(Append(results[c], new) \o orphans[c]) =
                  IF HasDone(results[c]) \/ HasDone(orphans[c]) THEN "done" ELSE "pending"
            BY <3>1, <4>2, ConcatCell
          <5> QED BY <4>1, <5>1 DEF Shown
        <4>4. Shown[c] = "absent" => ~HasDone(results[c]) /\ ~HasDone(orphans[c])
          BY ShownCell, EmptyRows
        <4>5. Shown[c] # "absent" => Shown[c] = IF HasDone(results[c]) \/ HasDone(orphans[c])
                                                  THEN "done" ELSE "pending"
          BY ShownCell
        <4> QED BY <3>2, <4>3, <4>4, <4>5
      <3>3. CASE c \notin C
        <4>1. results'[c] = results[c] /\ orphans'[c] = orphans[c]
          BY <2>2, <2>3, <3>3
        <4> QED BY <3>3, <4>1 DEF Shown
      <3> QED BY <3>2, <3>3
    <2>6. Shown' = [c \in Cells |-> IF c \in C /\ Shown[c] = "absent" THEN "pending" ELSE Shown[c]]
      BY <2>5 DEF Shown
    <2>7. Phases' = Phases
      BY <2>3 DEF Phases, PhaseOf
    <2>8. C \in SUBSET Board!Cells /\ C \subseteq Board!Standing
      BY <1>1, <2>1, StandsAlive
    <2>9. Board!Post(C)
      BY <2>3, <2>6, <2>7, <2>8 DEF Board!Post, Board!Cells, Cells, Phases, Shown
    <2> QED BY <2>8, <2>9 DEF Board!Next
  <1>2. CASE ~ \A c \in C : Alive(c)
    BY <1>2, BoardStays DEF CreatePending, worldVars, evalVars
  <1> QED BY <1>1, <1>2

\* The four ways to enter a DONE row, or to make one DONE, settle cells.
LEMMA BoardSaves ==
  ASSUME Typed, Typed',
         \/ \E h \in Handlers : SaveExisting(h) \/ SaveNew(h)
         \/ \E e \in Evaluations : \E C : CreateResult(e, C)
         \/ \E i \in Importers : ImportSave(i)
  PROVE  [Board!Next]_(Board!bvars)
  <1>1. HandRow \in ScoreResult /\ HandRow.status = "DONE"
    BY DEF HandRow, ScoreResult
  <1>2. \A c \in Cells : results[c] \in Seq(ScoreResult)
    BY DEF Typed, TableType
  <1>3. ASSUME NEW h \in Handlers, SaveExisting(h)
        PROVE  [Board!Next]_(Board!bvars)
    <2> DEFINE c == hmsg[h]
    <2>1. c \in Cells /\ UNCHANGED <<scores, created, stored, orphans>>
      BY <1>3 DEF SaveExisting, Typed, HandlerType, worldVars, evalVars
    <2>2. CASE Alive(c) /\ hat[h] \in DOMAIN results[c]
      <3>1. results' = [results EXCEPT ![c] = [results[c] EXCEPT ![hat[h]].status = "DONE"]]
        BY <1>3, <2>2 DEF SaveExisting, Settle
      <3>2. HasDone([results[c] EXCEPT ![hat[h]].status = "DONE"])
        BY <1>1, <1>2, <2>1, <2>2, RowSteps
      <3> HIDE DEF c
      <3>3. HasDone(results'[c]) /\ \A d \in Cells \ {c} : results'[d] = results[d]
        BY <2>1, <3>1, <3>2 DEF Typed, TableType
      <3>4. {c} \in SUBSET Cells /\ \A d \in {c} : Alive(d) /\ HasDone(results'[d])
        BY <2>1, <2>2, <3>3
      <3> QED BY <2>1, <3>3, <3>4, BoardSettle
    <2>3. CASE ~Alive(c) \/ hat[h] \notin DOMAIN results[c]
      <3>1. \/ results' = results
            \/ /\ results' = [results EXCEPT ![c] = [results[c] EXCEPT ![hat[h]].status = "DONE"]]
               /\ hat[h] \notin DOMAIN results[c]
        BY <1>3, <2>3 DEF SaveExisting, Settle
      <3>2. hat[h] \notin DOMAIN results[c] => [results[c] EXCEPT ![hat[h]].status = "DONE"] = results[c]
        BY <1>1, <1>2, <2>1, RowSteps
      <3> HIDE DEF c
      <3>3. results' = results
        BY <2>1, <3>1, <3>2 DEF Typed, TableType
      <3> QED BY <2>1, <3>3, BoardStays
    <2> QED BY <2>2, <2>3
  <1>4. ASSUME NEW h \in Handlers, SaveNew(h)
        PROVE  [Board!Next]_(Board!bvars)
    <2> DEFINE c   == hmsg[h]
               new == [status |-> "DONE", row |-> TRUE]
    <2>1. c \in Cells /\ UNCHANGED <<scores, created, stored, orphans>>
      BY <1>4 DEF SaveNew, Typed, HandlerType, worldVars, evalVars
    <2>2. CASE Alive(c)
      <3>1. results' = [results EXCEPT ![c] = Append(results[c], new)]
        BY <1>4, <2>2 DEF SaveNew
      <3>2. new \in ScoreResult /\ new.status = "DONE"
        BY DEF ScoreResult
      <3> HIDE DEF c, new
      <3>3. HasDone(Append(results[c], new))
        BY <1>2, <2>1, <3>2, RowSteps
      <3>4. HasDone(results'[c]) /\ \A d \in Cells \ {c} : results'[d] = results[d]
        BY <2>1, <3>1, <3>3 DEF Typed, TableType
      <3>5. {c} \in SUBSET Cells /\ \A d \in {c} : Alive(d) /\ HasDone(results'[d])
        BY <2>1, <2>2, <3>4
      <3> QED BY <2>1, <3>4, <3>5, BoardSettle
    <2>3. CASE ~Alive(c)
      BY <1>4, <2>1, <2>3, BoardStays DEF SaveNew
    <2> QED BY <2>2, <2>3
  <1>5. ASSUME NEW e \in Evaluations, NEW C, CreateResult(e, C)
        PROVE  [Board!Next]_(Board!bvars)
    <2>1. C \in SUBSET Cells /\ \A c \in C : Alive(c)
      BY <1>5 DEF CreateResult, Askable, Alive, Cells, Typed, EvalType, WorldType
    <2>2. UNCHANGED <<scores, created, stored, orphans>>
      BY <1>5 DEF CreateResult, worldVars, evalVars
    <2>3. \A c \in Cells : results'[c] = IF c \in C THEN Append(results[c], HandRow) ELSE results[c]
      BY <1>5 DEF CreateResult
    <2>4. \A c \in C : HasDone(results'[c])
      BY <1>1, <1>2, <2>1, <2>3, RowSteps
    <2>5. \A c \in Cells \ C : results'[c] = results[c]
      BY <2>3
    <2> QED BY <2>1, <2>2, <2>4, <2>5, BoardSettle
  <1>6. ASSUME NEW i \in Importers, ImportSave(i)
        PROVE  [Board!Next]_(Board!bvars)
    <2> DEFINE at == import[i][1]
               C  == DOMAIN at
               W  == {c \in C : at[c] = 0 \/ at[c] \in DOMAIN results[c]}
    <2>1. UNCHANGED <<scores, created, stored, orphans>>
      BY <1>6 DEF ImportSave, worldVars, evalVars
    <2>2. CASE \A c \in C : Alive(c)
      <3>1. W \in SUBSET Cells /\ \A c \in W : Alive(c)
        BY <1>6, <2>2, ImportedType DEF ImportSave
      <3>2. \A c \in Cells : results'[c] =
              IF c \notin C THEN results[c]
              ELSE IF at[c] = 0 THEN Append(results[c], HandRow)
              ELSE [results[c] EXCEPT ![at[c]].status = "DONE"]
        BY <1>6, <2>2 DEF ImportSave
      <3> HIDE DEF C, at
      <3>3. ASSUME NEW c \in W PROVE HasDone(results'[c])
        <4>1. HasDone(Append(results[c], HandRow))
          BY <1>1, <1>2, <3>1, RowSteps
        <4>2. at[c] \in DOMAIN results[c] => HasDone([results[c] EXCEPT ![at[c]].status = "DONE"])
          BY <1>1, <1>2, <3>1, RowSteps
        <4> QED BY <3>1, <3>2, <4>1, <4>2
      <3>4. ASSUME NEW c \in Cells \ W PROVE results'[c] = results[c]
        <4>1. at[c] \notin DOMAIN results[c] => [results[c] EXCEPT ![at[c]].status = "DONE"] = results[c]
          BY <1>1, <1>2, RowSteps
        <4> QED BY <3>2, <4>1
      <3> HIDE DEF W
      <3> QED BY <2>1, <3>1, <3>3, <3>4, BoardSettle
    <2>3. CASE ~ \A c \in C : Alive(c)
      BY <1>6, <2>1, <2>3, BoardStays DEF ImportSave
    <2> QED BY <2>2, <2>3
  <1> QED BY <1>3, <1>4, <1>5, <1>6

\* Every step is a step of the board or leaves it as it was.
LEMMA BoardNext == Typed /\ Typed' /\ [Next]_vars => [Board!Next]_(Board!bvars)
  <1> SUFFICES ASSUME Typed, Typed', [Next]_vars PROVE [Board!Next]_(Board!bvars)
    OBVIOUS
  <1>1. ASSUME NEW e \in Evaluations, Load(e) \/ Fill(e) \/ Pair(e) \/ Resolve(e) \/ DispatchDies(e)
        PROVE  [Board!Next]_(Board!bvars)
    BY <1>1, BoardStays DEF Load, Fill, Pair, Resolve, DispatchDies, worldVars, evalVars, tableVars
  <1>2. ASSUME NEW e \in Evaluations, NEW c \in Cells, Publish(e, c) \/ PublishFails(e, c)
        PROVE  [Board!Next]_(Board!bvars)
    BY <1>2, BoardStays DEF Publish, PublishFails, worldVars, evalVars, tableVars
  <1>3. ASSUME NEW c \in Cells, WorkerAnswers(c) \/ WorkerRepeats(c)
        PROVE  [Board!Next]_(Board!bvars)
    BY <1>3, BoardStays DEF WorkerAnswers, WorkerRepeats, worldVars, evalVars, tableVars
  <1>4. ASSUME NEW h \in Handlers, Ack(h) \/ DeliveryDies(h) \/ \E c \in Cells : Find(h, c)
        PROVE  [Board!Next]_(Board!bvars)
    BY <1>4, BoardStays DEF Ack, DeliveryDies, Find, worldVars, evalVars, tableVars
  <1>5. ASSUME NEW i \in Importers, NEW e \in Evaluations, NEW C, ImportFind(i, e, C)
        PROVE  [Board!Next]_(Board!bvars)
    BY <1>5, BoardStays DEF ImportFind, worldVars, evalVars, tableVars
  <1>6. ASSUME NEW t \in Targets, AddTarget(t)
        PROVE  [Board!Next]_(Board!bvars)
    BY <1>6, BoardStays DEF AddTarget, evalVars, tableVars
  <1>7. CASE RemoveDataset
    BY <1>7, BoardStays DEF RemoveDataset, evalVars, tableVars
  <1>8. CASE UNCHANGED vars
    BY <1>8, BoardStays DEF vars, worldVars, evalVars, tableVars
  <1> QED
    BY <1>1, <1>2, <1>3, <1>4, <1>5, <1>6, <1>7, <1>8, BoardOpen, BoardDiscard, BoardWithdraw,
       BoardOrphans, BoardPost, BoardSaves, NextCases
       DEF DispatchStep, HandlerStep, Failure

\* EvaluationRun implements ScoreBoard: no score goes back, none outlives
\* its evaluation or its score, none is erased by deleting what it is about.
THEOREM Refinement == Spec => ImplementsBoard
  <1>1. Spec => []Typed
    BY TypeInit, TypeNext, PTL DEF Spec
  <1> QED BY <1>1, BoardInit, BoardNext, PTL DEF Spec, ImplementsBoard, Board!Spec

-----------------------------------------------------------------------------
(***************************************************************************)
(* A cell gets one row.  Posting is the only step that adds one without    *)
(* entering the cell, it does so once per evaluation, and before it the    *)
(* cells of the evaluation have no rows but entered ones.                  *)
(***************************************************************************)
Early == {"none", "load", "fill", "pair", "save"}

PostInv ==
  \A e \in Evaluations :
    /\ dispatch[e] # "none" => e \in created
    /\ \A c \in Specs(e) : c[1] = e

RowInv ==
  \A c \in Cells :
    Len(results[c]) > 0 /\ dispatch[c[1]] \in Early => c \in entered

OneInv == PostInv /\ RowInv /\ OneRowUnlessEntered

\* What a step may do to the rows of a cell.
RowMoves(c) ==
  \/ Len(results'[c]) <= Len(results[c])
  \/ c \in entered'
  \/ /\ dispatch[c[1]] = "save" /\ dispatch'[c[1]] = "resolve"
     /\ Len(results'[c]) = Len(results[c]) + 1

LEMMA Lengths ==
  ASSUME NEW s \in Seq(ScoreResult), NEW new \in ScoreResult, NEW i
  PROVE  /\ Len(s) \in Nat
         /\ Len(Append(s, new)) = Len(s) + 1
         /\ Len([s EXCEPT ![i].status = "DONE"]) = Len(s)
  <1> DEFINE w == [s EXCEPT ![i].status = "DONE"]
  <1>1. Len(s) \in Nat /\ DOMAIN s = 1 .. Len(s) /\ Len(Append(s, new)) = Len(s) + 1
    OBVIOUS
  <1>2. w = [j \in DOMAIN s |-> IF j = i THEN [s[j] EXCEPT !.status = "DONE"] ELSE s[j]]
    OBVIOUS
  <1>3. w \in Seq(ScoreResult)
    BY SettleKeeps
  <1> HIDE DEF w
  <1>4. DOMAIN w = 1 .. Len(s)
    BY <1>1, <1>2
  <1>5. Len(w) = Len(s)
    BY <1>1, <1>3, <1>4
  <1> QED BY <1>1, <1>5 DEF w

LEMMA RowsStay ==
  ASSUME Typed, UNCHANGED results
  PROVE  \A c \in Cells : RowMoves(c)
  <1>1. \A c \in Cells : Len(results[c]) \in Nat
    BY DEF Typed, TableType
  <1> QED BY <1>1 DEF RowMoves

LEMMA RowsDropped ==
  ASSUME Typed, \A c \in Cells : results'[c] = <<>> \/ results'[c] = results[c]
  PROVE  \A c \in Cells : RowMoves(c)
  <1>1. \A c \in Cells : Len(results[c]) \in Nat
    BY DEF Typed, TableType
  <1>2. Len(<<>>) = 0
    OBVIOUS
  <1>3. \A c \in Cells : Len(results'[c]) <= Len(results[c])
    BY <1>1, <1>2
  <1> QED BY <1>3 DEF RowMoves

\* A row is added by posting, or by an entry.
LEMMA RowSource ==
  ASSUME IInv, PostInv, [Next]_vars
  PROVE  entered \subseteq entered' /\ \A c \in Cells : RowMoves(c)
  <1> DEFINE Goal == entered \subseteq entered' /\ \A c \in Cells : RowMoves(c)
  <1> SUFFICES Goal
    OBVIOUS
  <1>1. Typed /\ \A c \in Cells : results[c] \in Seq(ScoreResult)
    BY DEF IInv, Typed, TableType
  <1>2. ASSUME UNCHANGED <<results, entered>> PROVE Goal
    BY <1>1, <1>2, RowsStay
  <1>3. ASSUME NEW e \in Evaluations, CreatePending(e) PROVE Goal
    <2> DEFINE new == [status |-> "PENDING", row |-> TRUE]
    <2>1. entered' = entered
      BY <1>3 DEF CreatePending, historyVars
    <2>2. CASE \A c \in Specs(e) : Alive(c)
      <3>1. /\ results' = [c \in Cells |-> IF c \in Specs(e) THEN Append(results[c], new)
                                                             ELSE results[c]]
            /\ dispatch[e] = "save" /\ dispatch' = [dispatch EXCEPT ![e] = "resolve"]
        BY <1>3, <2>2 DEF CreatePending
      <3>2. new \in ScoreResult
        BY DEF ScoreResult
      <3> HIDE DEF new
      <3>3. ASSUME NEW c \in Cells, c \in Specs(e) PROVE RowMoves(c)
        <4>1. c[1] = e /\ Len(results'[c]) = Len(results[c]) + 1
          BY <1>1, <3>1, <3>2, <3>3, Lengths DEF PostInv
        <4>2. dispatch'[e] = "resolve"
          BY <1>1, <3>1 DEF Typed, DispatchType
        <4> QED BY <3>1, <4>1, <4>2 DEF RowMoves
      <3>4. ASSUME NEW c \in Cells, c \notin Specs(e) PROVE RowMoves(c)
        <4>1. results'[c] = results[c] /\ Len(results[c]) \in Nat
          BY <1>1, <3>1, <3>4
        <4> QED BY <4>1 DEF RowMoves
      <3> QED BY <2>1, <3>3, <3>4
    <2>3. CASE ~ \A c \in Specs(e) : Alive(c)
      BY <1>2, <1>3, <2>1, <2>3 DEF CreatePending
    <2> QED BY <2>2, <2>3
  <1>4. ASSUME NEW h \in Handlers, SaveExisting(h) PROVE Goal
    <2>1. entered' = entered
      BY <1>4 DEF SaveExisting, historyVars
    <2>2. CASE Alive(hmsg[h])
      <3>1. hmsg[h] \in Cells
        BY <1>1, <1>4 DEF SaveExisting, Typed, HandlerType
      <3>2. results' = [results EXCEPT ![hmsg[h]] = [results[hmsg[h]] EXCEPT ![hat[h]].status = "DONE"]]
        BY <1>4, <2>2 DEF SaveExisting, Settle
      <3>3. /\ Len([results[hmsg[h]] EXCEPT ![hat[h]].status = "DONE"]) = Len(results[hmsg[h]])
            /\ Len(results[hmsg[h]]) \in Nat
        <4>1. HandRow \in ScoreResult
          BY DEF HandRow, ScoreResult
        <4> QED BY <1>1, <3>1, <4>1, Lengths
      <3>4. ASSUME NEW c \in Cells PROVE Len(results'[c]) = Len(results[c]) /\ Len(results[c]) \in Nat
        BY <1>1, <3>1, <3>2, <3>3 DEF Typed, TableType
      <3> QED BY <2>1, <3>4 DEF RowMoves
    <2>3. CASE ~Alive(hmsg[h])
      BY <1>2, <1>4, <2>1, <2>3 DEF SaveExisting
    <2> QED BY <2>2, <2>3
  <1>5. ASSUME NEW h \in Handlers, SaveNew(h) PROVE Goal
    <2>1. ~Alive(hmsg[h])
      BY <1>5 DEF SaveNew, IInv, CreateBranchOnlyWhenGone
    <2> QED BY <1>2, <1>5, <2>1 DEF SaveNew, historyVars
  <1>6. ASSUME NEW e \in Evaluations, NEW C, CreateResult(e, C) PROVE Goal
    <2>1. entered' = entered \union C
      BY <1>6 DEF CreateResult
    <2>2. ASSUME NEW c \in Cells, c \notin C PROVE RowMoves(c)
      <3>1. results'[c] = results[c] /\ Len(results[c]) \in Nat
        BY <1>1, <1>6, <2>2 DEF CreateResult
      <3> QED BY <3>1 DEF RowMoves
    <2> QED BY <2>1, <2>2 DEF RowMoves
  <1>7. ASSUME NEW i \in Importers, ImportSave(i) PROVE Goal
    <2> DEFINE at == import[i][1]
               C  == DOMAIN at
    <2>1. CASE \A c \in C : Alive(c)
      <3>1. /\ results' = [c \in Cells |->
                  IF c \notin C THEN results[c]
                  ELSE IF at[c] = 0 THEN Append(results[c], HandRow)
                  ELSE [results[c] EXCEPT ![at[c]].status = "DONE"]]
            /\ entered' = entered \union {c \in C : at[c] = 0}
        BY <1>7, <2>1 DEF ImportSave
      <3> HIDE DEF C, at
      <3>2. HandRow \in ScoreResult
        BY DEF HandRow, ScoreResult
      <3>3. ASSUME NEW c \in Cells, c \in C => at[c] # 0 PROVE RowMoves(c)
        <4>1. Len(results'[c]) = Len(results[c]) /\ Len(results[c]) \in Nat
          BY <1>1, <3>1, <3>2, <3>3, Lengths
        <4> QED BY <4>1 DEF RowMoves
      <3> QED BY <3>1, <3>3 DEF RowMoves
    <2>2. CASE ~ \A c \in C : Alive(c)
      BY <1>2, <1>7, <2>2 DEF ImportSave
    <2> QED BY <2>1, <2>2
  <1>8. ASSUME NEW e \in Evaluations, Remove(e) PROVE Goal
    <2>1. \A c \in Cells : results'[c] = <<>> \/ results'[c] = results[c]
      BY <1>8 DEF Remove, Without
    <2> QED BY <1>1, <1>8, <2>1, RowsDropped DEF Remove, historyVars
  <1>9. ASSUME NEW s \in Scores, RemoveScore(s) PROVE Goal
    <2>1. \A c \in Cells : results'[c] = <<>> \/ results'[c] = results[c]
      BY <1>9 DEF RemoveScore, Without
    <2> QED BY <1>1, <1>9, <2>1, RowsDropped DEF RemoveScore, historyVars
  <1>10. ASSUME NEW x \in Sources, RemoveExperiment(x) PROVE Goal
    <2>1. \A c \in Cells : results'[c] = <<>> \/ results'[c] = results[c]
      BY <1>10 DEF RemoveExperiment, tableVars
    <2> QED BY <1>1, <1>10, <2>1, RowsDropped DEF RemoveExperiment
  <1>11. ASSUME NEW e \in Evaluations,
                \/ Load(e) \/ Fill(e) \/ Pair(e) \/ Resolve(e) \/ DispatchDies(e)
                \/ \E S, D, m : Save(e, S, D, m)
                \/ \E c \in Cells : Publish(e, c) \/ PublishFails(e, c)
                \/ \E i \in Importers : \E C : ImportFind(i, e, C)
         PROVE  Goal
    BY <1>2, <1>11 DEF Load, Fill, Pair, Resolve, DispatchDies, Save, Publish, PublishFails,
                       ImportFind, tableVars, historyVars
  <1>12. ASSUME NEW t \in Targets, AddTarget(t) PROVE Goal
    BY <1>2, <1>12 DEF AddTarget, tableVars, historyVars
  <1>13. CASE RemoveDataset
    BY <1>2, <1>13 DEF RemoveDataset, tableVars
  <1>14. ASSUME NEW c \in Cells, WorkerAnswers(c) \/ WorkerRepeats(c) PROVE Goal
    BY <1>2, <1>14 DEF WorkerAnswers, WorkerRepeats, tableVars, historyVars
  <1>15. ASSUME NEW h \in Handlers, Ack(h) \/ DeliveryDies(h) \/ \E c \in Cells : Find(h, c)
         PROVE  Goal
    BY <1>2, <1>15 DEF Ack, DeliveryDies, Find, tableVars, historyVars
  <1>16. CASE UNCHANGED vars
    BY <1>2, <1>16 DEF vars, tableVars, historyVars
  <1> QED
    BY <1>3, <1>4, <1>5, <1>6, <1>7, <1>8, <1>9, <1>10, <1>11, <1>12, <1>13, <1>14, <1>15, <1>16,
       NextCases
       DEF DispatchStep, HandlerStep, Failure

\* An evaluation is posted once, and about its own cells.
PostMoves(e) ==
  /\ dispatch'[e] # "none" => e \in created'
  /\ \A c \in Specs(e)' : c[1] = e
  /\ dispatch'[e] \in Early => dispatch[e] \in Early

LEMMA PostSource ==
  ASSUME Typed, PostInv, [Next]_vars, NEW e \in Evaluations
  PROVE  PostMoves(e)
  <1>1. ASSUME created \subseteq created', UNCHANGED <<dispatch, filled, manual>>
        PROVE  PostMoves(e)
    BY <1>1 DEF PostMoves, PostInv, Specs
  <1>2. ASSUME NEW f \in Evaluations, NEW S, NEW D, NEW m, Save(f, S, D, m)
        PROVE  PostMoves(e)
    <2>1. UNCHANGED <<filled, manual>> /\ created' = created \union {f}
      BY <1>2 DEF Save
    <2>2. CASE e = f
      <3>1. dispatch[e] = "none"
        BY <1>2, <2>2 DEF Save, PostInv
      <3> QED BY <2>1, <2>2, <3>1 DEF PostMoves, PostInv, Specs, Early
    <2>3. CASE e # f
      <3>1. dispatch'[e] = dispatch[e]
        BY <1>2, <2>3 DEF Save, Typed, DispatchType
      <3> QED BY <2>1, <3>1 DEF PostMoves, PostInv, Specs
    <2> QED BY <2>2, <2>3
  <1>3. ASSUME NEW f \in Evaluations,
               \/ Load(f) \/ CreatePending(f) \/ Resolve(f) \/ DispatchDies(f)
               \/ \E c \in Cells : Publish(f, c) \/ PublishFails(f, c)
        PROVE  PostMoves(e)
    <2>1. UNCHANGED <<filled, manual, created>>
      BY <1>3 DEF Load, CreatePending, Resolve, DispatchDies, Publish, PublishFails, Sent, evalVars
    <2>2. CASE e = f
      <3>1. /\ dispatch[e] # "none"
            /\ dispatch'[e] \in Early => dispatch[e] \in Early
        BY <1>3, <2>2 DEF Load, CreatePending, Resolve, DispatchDies, Publish, PublishFails, Sent,
                          Early, Typed, DispatchType
      <3> QED BY <2>1, <3>1 DEF PostMoves, PostInv, Specs
    <2>3. CASE e # f
      <3>1. dispatch'[e] = dispatch[e]
        BY <1>3, <2>3 DEF Load, CreatePending, Resolve, DispatchDies, Publish, PublishFails, Sent,
                          Typed, DispatchType
      <3> QED BY <2>1, <3>1 DEF PostMoves, PostInv, Specs
    <2> QED BY <2>2, <2>3
  <1>4. ASSUME NEW f \in Evaluations, Fill(f) \/ Pair(f)
        PROVE  PostMoves(e)
    <2>1. created' = created
      BY <1>4 DEF Fill, Pair, evalVars
    <2>2. CASE e = f
      <3>1. dispatch[e] \in Early /\ dispatch[e] # "none"
        BY <1>4, <2>2 DEF Fill, Pair, Early
      <3>2. \E src : /\ filled'[e] \subseteq filled[e] \union MappingsOf(e, src)
                     /\ manual'[e] \subseteq
                          manual[e] \union ({e} \X ManualScores(e, filled[e]) \X TargetsIn(src))
        <4>1. CASE Fill(f)
          BY <2>2, <4>1 DEF Fill, Typed, DispatchType
        <4>2. CASE Pair(f)
          BY <2>2, <4>2 DEF Pair, Typed, DispatchType
        <4> QED BY <1>4, <4>1, <4>2
      <3>3. \A c \in Specs(e)' : c \in Specs(e) \/ c[1] = e
        BY <3>2 DEF Specs, MappingsOf
      <3> QED BY <2>1, <3>1, <3>3 DEF PostMoves, PostInv
    <2>3. CASE e # f
      <3>1. dispatch'[e] = dispatch[e] /\ filled'[e] = filled[e] /\ manual'[e] = manual[e]
        BY <1>4, <2>3 DEF Fill, Pair, Typed, DispatchType
      <3> QED BY <2>1, <3>1 DEF PostMoves, PostInv, Specs
    <2> QED BY <2>2, <2>3
  <1>5. ASSUME NEW f \in Evaluations,
               \/ Remove(f)
               \/ \E C : CreateResult(f, C)
               \/ \E i \in Importers : \E C : ImportFind(i, f, C)
        PROVE  PostMoves(e)
    BY <1>1, <1>5 DEF Remove, CreateResult, ImportFind, dispatchVars, evalVars
  <1>6. ASSUME NEW s \in Scores, RemoveScore(s)
        PROVE  PostMoves(e)
    BY <1>1, <1>6 DEF RemoveScore, dispatchVars, evalVars
  <1>7. ASSUME NEW t \in Targets, AddTarget(t)
        PROVE  PostMoves(e)
    BY <1>1, <1>7 DEF AddTarget, dispatchVars, evalVars
  <1>8. ASSUME NEW x \in Sources, RemoveExperiment(x)
        PROVE  PostMoves(e)
    BY <1>1, <1>8 DEF RemoveExperiment, dispatchVars, evalVars
  <1>9. ASSUME RemoveDataset \/ \E i \in Importers : ImportSave(i)
        PROVE  PostMoves(e)
    BY <1>1, <1>9 DEF RemoveDataset, ImportSave, dispatchVars, evalVars
  <1>10. ASSUME NEW c \in Cells, WorkerAnswers(c) \/ WorkerRepeats(c)
         PROVE  PostMoves(e)
    BY <1>1, <1>10 DEF WorkerAnswers, WorkerRepeats, dispatchVars, evalVars
  <1>11. ASSUME NEW h \in Handlers,
                \/ SaveExisting(h) \/ SaveNew(h) \/ Ack(h) \/ DeliveryDies(h)
                \/ \E c \in Cells : Find(h, c)
         PROVE  PostMoves(e)
    BY <1>1, <1>11 DEF SaveExisting, SaveNew, Ack, DeliveryDies, Find, dispatchVars, evalVars
  <1>12. CASE UNCHANGED vars
    BY <1>1, <1>12 DEF vars, dispatchVars, evalVars
  <1> QED
    BY <1>2, <1>3, <1>4, <1>5, <1>6, <1>7, <1>8, <1>9, <1>10, <1>11, <1>12, NextCases
       DEF DispatchStep, HandlerStep, Failure

LEMMA OneInit == Init => OneInv
  <1> SUFFICES ASSUME Init PROVE OneInv
    OBVIOUS
  <1>1. \A c \in Cells : Len(results[c]) = 0
    BY DEF Init
  <1>2. PostInv
    BY DEF Init, PostInv, Specs
  <1>3. RowInv /\ OneRowUnlessEntered
    BY <1>1 DEF RowInv, OneRowUnlessEntered
  <1> QED BY <1>2, <1>3 DEF OneInv

LEMMA OneNext == IInv /\ OneInv /\ [Next]_vars => OneInv'
  <1> SUFFICES ASSUME IInv, OneInv, [Next]_vars PROVE OneInv'
    OBVIOUS
  <1>1. Typed /\ Typed' /\ \A e \in Evaluations : PostMoves(e)
    BY TypeNext, PostSource DEF IInv, OneInv
  <1>2. PostInv'
    BY <1>1 DEF PostMoves, PostInv
  <1>3. entered \subseteq entered' /\ \A c \in Cells : RowMoves(c)
    BY RowSource DEF OneInv
  <1>4. ASSUME NEW c \in Cells
        PROVE  /\ Len(results'[c]) > 0 /\ dispatch'[c[1]] \in Early => c \in entered'
               /\ Len(results'[c]) > 1 => c \in entered'
    <2>1. /\ Len(results[c]) > 0 /\ dispatch[c[1]] \in Early => c \in entered
          /\ Len(results[c]) > 1 => c \in entered
          /\ dispatch'[c[1]] \in Early => dispatch[c[1]] \in Early
      BY <1>1 DEF OneInv, RowInv, OneRowUnlessEntered, PostMoves, Cells
    <2>2. Len(results[c]) \in Nat /\ Len(results'[c]) \in Nat
      BY <1>1 DEF Typed, TableType
    <2>3. CASE Len(results'[c]) <= Len(results[c])
      BY <1>3, <2>1, <2>2, <2>3
    <2>4. CASE /\ dispatch[c[1]] = "save" /\ dispatch'[c[1]] = "resolve"
               /\ Len(results'[c]) = Len(results[c]) + 1
      BY <1>3, <2>1, <2>2, <2>4 DEF Early
    <2> QED BY <1>3, <2>3, <2>4 DEF RowMoves
  <1> QED BY <1>2, <1>4 DEF OneInv, RowInv, OneRowUnlessEntered

\* No interleaving of posting, deliveries, redeliveries, imports and
\* deletions gives a cell a second row that nobody entered.
THEOREM OneRow == Spec => []OneRowUnlessEntered
  <1>1. Spec => [](IInv /\ OneInv)
    BY InvInit, InvNext, OneInit, OneNext, PTL DEF Spec
  <1>2. OneInv => OneRowUnlessEntered
    BY DEF OneInv
  <1> QED BY <1>1, <1>2, PTL

-----------------------------------------------------------------------------
(***************************************************************************)
(* A PENDING row is accounted for.  What a delivery updates must be the    *)
(* PENDING row itself, unless an entered row can be taken for it.          *)
(***************************************************************************)
HasPending(c) == \E i \in DOMAIN results[c] : results[c][i].status = "PENDING"

\* An entered row names the dataset row, so that findOne may return it.
Mistakable(c) == scope = "DATASET" /\ c \in entered

RowedOnce(c) ==
  \A i, j \in DOMAIN results[c] : results[c][i].row /\ results[c][j].row => i = j

\* Rows without their dataset row were entered, with their value.
SoleInv ==
  \A c \in Cells :
    /\ \A i \in DOMAIN results[c] : results[c][i].status = "PENDING" => results[c][i].row
    /\ Mistakable(c) \/ RowedOnce(c)
    /\ dispatch[c[1]] \in Early => Mistakable(c) \/ ~HasRow(c)

\* PENDING rows are those posting has saved.
SpecInv ==
  \A c \in Cells : HasPending(c) => dispatch[c[1]] \notin Early /\ c \in Specs(c[1])

\* A delivery about to update has found a row that names its dataset row.
UpdateInv ==
  \A h \in Handlers :
    hpc[h] = "update" /\ Alive(hmsg[h]) =>
      hat[h] \in DOMAIN results[hmsg[h]] /\ results[hmsg[h]][hat[h]].row

AckInv == \A h \in Handlers : hpc[h] = "ack" /\ HasPending(hmsg[h]) => Mistakable(hmsg[h])

Accounted(c) ==
  \/ dispatch[c[1]] = "resolve"
  \/ c \in todo[c[1]]
  \/ InFlight(c)
  \/ c \in unqueued \union lost
  \/ Mistakable(c)

PendingInv ==
  /\ SoleInv /\ SpecInv /\ UpdateInv /\ AckInv
  /\ \A c \in Cells : HasPending(c) => Accounted(c)

\* Rows that keep their references and only lose a PENDING.
Softer(s, t) ==
  /\ DOMAIN t = DOMAIN s
  /\ \A i \in DOMAIN s : t[i].row = s[i].row /\ (t[i].status = "PENDING" => s[i].status = "PENDING")

\* What a step may do to the rows of a cell: they go or are settled, a row is
\* entered, or posting saves a PENDING row.
Entered(c) == c \in entered' /\ results'[c] = Append(results[c], HandRow)

Saves(c) ==
  /\ dispatch[c[1]] = "save" /\ dispatch'[c[1]] = "resolve"
  /\ c \in Specs(c[1]) /\ c \in Specs(c[1])' /\ Alive(c)
  /\ UNCHANGED <<scope, entered>>
  /\ results'[c] = Append(results[c], [status |-> "PENDING", row |-> TRUE])

RowChanges(c) ==
  \/ results'[c] = <<>>
  \/ Softer(results[c], results'[c])
  \/ Entered(c)
  \/ Saves(c)

LEMMA SofterItself ==
  ASSUME NEW s
  PROVE  Softer(s, s)
  BY DEF Softer

LEMMA SettleSofter ==
  ASSUME NEW s \in Seq(ScoreResult), NEW i
  PROVE  Softer(s, [s EXCEPT ![i].status = "DONE"])
  <1> DEFINE t == [s EXCEPT ![i].status = "DONE"]
  <1>1. t = [j \in DOMAIN s |-> IF j = i THEN [s[j] EXCEPT !.status = "DONE"] ELSE s[j]]
    OBVIOUS
  <1>2. \A j \in DOMAIN s : s[j] \in ScoreResult
    OBVIOUS
  <1>3. \A r \in ScoreResult : /\ [r EXCEPT !.status = "DONE"].status = "DONE"
                               /\ [r EXCEPT !.status = "DONE"].row = r.row
    BY DEF ScoreResult
  <1> HIDE DEF t
  <1>4. Softer(s, t)
    BY <1>1, <1>2, <1>3 DEF Softer
  <1> QED BY <1>4 DEF t

\* Every step changes the rows of a cell in one of these ways.
LEMMA ChangeSource ==
  ASSUME IInv, PostInv, [Next]_vars
  PROVE  /\ scope' = scope /\ entered \subseteq entered'
         /\ \A c \in Cells : RowChanges(c)
  <1> DEFINE Goal == entered \subseteq entered' /\ \A c \in Cells : RowChanges(c)
  <1>0. scope' = scope
    BY StepKeeps DEF IInv, CellsKept
  <1> SUFFICES Goal
    BY <1>0
  <1>1. Typed /\ \A c \in Cells : results[c] \in Seq(ScoreResult)
    BY DEF IInv, Typed, TableType
  <1>2. ASSUME UNCHANGED <<results, entered>> PROVE Goal
    BY <1>2, SofterItself DEF RowChanges
  <1>3. ASSUME entered' = entered,
               \A c \in Cells : results'[c] = <<>> \/ results'[c] = results[c]
        PROVE  Goal
    BY <1>3, SofterItself DEF RowChanges
  <1>4. ASSUME NEW e \in Evaluations, CreatePending(e) PROVE Goal
    <2> DEFINE new == [status |-> "PENDING", row |-> TRUE]
    <2>1. UNCHANGED <<entered, filled, manual>>
      BY <1>4 DEF CreatePending, historyVars
    <2>2. CASE \A c \in Specs(e) : Alive(c)
      <3>1. /\ results' = [c \in Cells |-> IF c \in Specs(e) THEN Append(results[c], new)
                                                             ELSE results[c]]
            /\ dispatch[e] = "save" /\ dispatch' = [dispatch EXCEPT ![e] = "resolve"]
        BY <1>4, <2>2 DEF CreatePending
      <3>2. dispatch'[e] = "resolve" /\ Specs(e)' = Specs(e)
        BY <1>1, <2>1, <3>1 DEF Typed, DispatchType, Specs
      <3>3. ASSUME NEW c \in Cells, c \in Specs(e) PROVE RowChanges(c)
        <4>1. c[1] = e
          BY <3>3 DEF PostInv
        <4>2. results'[c] = Append(results[c], new)
          BY <3>1, <3>3
        <4>3. c \in Specs(c[1])'
          BY <2>1, <3>3, <4>1 DEF Specs
        <4> QED BY <1>0, <2>1, <2>2, <3>1, <3>2, <3>3, <4>1, <4>2, <4>3 DEF RowChanges, Saves
      <3>4. ASSUME NEW c \in Cells, c \notin Specs(e) PROVE RowChanges(c)
        <4>1. results'[c] = results[c]
          BY <3>1, <3>4
        <4> QED BY <4>1, SofterItself DEF RowChanges
      <3> QED BY <2>1, <3>3, <3>4
    <2>3. CASE ~ \A c \in Specs(e) : Alive(c)
      BY <1>2, <1>4, <2>1, <2>3 DEF CreatePending
    <2> QED BY <2>2, <2>3
  <1>5. ASSUME NEW h \in Handlers, SaveExisting(h) PROVE Goal
    <2>1. entered' = entered
      BY <1>5 DEF SaveExisting, historyVars
    <2>2. CASE Alive(hmsg[h])
      <3>1. hmsg[h] \in Cells
        BY <1>1, <1>5 DEF SaveExisting, Typed, HandlerType
      <3>2. results' = [results EXCEPT ![hmsg[h]] = [results[hmsg[h]] EXCEPT ![hat[h]].status = "DONE"]]
        BY <1>5, <2>2 DEF SaveExisting, Settle
      <3>3. Softer(results[hmsg[h]], [results[hmsg[h]] EXCEPT ![hat[h]].status = "DONE"])
        BY <1>1, <3>1, SettleSofter
      <3>4. ASSUME NEW c \in Cells PROVE Softer(results[c], results'[c])
        BY <1>1, <3>1, <3>2, <3>3, SofterItself DEF Typed, TableType
      <3> QED BY <2>1, <3>4 DEF RowChanges
    <2>3. CASE ~Alive(hmsg[h])
      BY <1>2, <1>5, <2>1, <2>3 DEF SaveExisting
    <2> QED BY <2>2, <2>3
  <1>6. ASSUME NEW h \in Handlers, SaveNew(h) PROVE Goal
    <2>1. ~Alive(hmsg[h])
      BY <1>6 DEF SaveNew, IInv, CreateBranchOnlyWhenGone
    <2> QED BY <1>2, <1>6, <2>1 DEF SaveNew, historyVars
  <1>7. ASSUME NEW e \in Evaluations, NEW C, CreateResult(e, C) PROVE Goal
    <2>1. /\ entered' = entered \union C
          /\ results' = [c \in Cells |-> IF c \in C THEN Append(results[c], HandRow) ELSE results[c]]
      BY <1>7 DEF CreateResult
    <2>2. ASSUME NEW c \in Cells, c \notin C PROVE RowChanges(c)
      BY <2>1, <2>2, SofterItself DEF RowChanges
    <2>3. ASSUME NEW c \in Cells, c \in C PROVE RowChanges(c)
      BY <2>1, <2>3 DEF RowChanges, Entered
    <2> QED BY <2>1, <2>2, <2>3
  <1>8. ASSUME NEW i \in Importers, ImportSave(i) PROVE Goal
    <2> DEFINE at == import[i][1]
               C  == DOMAIN at
    <2>1. CASE \A c \in C : Alive(c)
      <3>1. /\ results' = [c \in Cells |->
                  IF c \notin C THEN results[c]
                  ELSE IF at[c] = 0 THEN Append(results[c], HandRow)
                  ELSE [results[c] EXCEPT ![at[c]].status = "DONE"]]
            /\ entered' = entered \union {c \in C : at[c] = 0}
        BY <1>8, <2>1 DEF ImportSave
      <3> HIDE DEF C, at
      <3>2. ASSUME NEW c \in Cells, c \notin C PROVE RowChanges(c)
        BY <3>1, <3>2, SofterItself DEF RowChanges
      <3>3. ASSUME NEW c \in Cells, c \in C, at[c] = 0 PROVE RowChanges(c)
        BY <3>1, <3>3 DEF RowChanges, Entered
      <3>4. ASSUME NEW c \in Cells, c \in C, at[c] # 0 PROVE RowChanges(c)
        <4>1. results'[c] = [results[c] EXCEPT ![at[c]].status = "DONE"]
          BY <3>1, <3>4
        <4>2. Softer(results[c], [results[c] EXCEPT ![at[c]].status = "DONE"])
          BY <1>1, SettleSofter
        <4> QED BY <4>1, <4>2 DEF RowChanges
      <3> QED BY <3>1, <3>2, <3>3, <3>4
    <2>2. CASE ~ \A c \in C : Alive(c)
      BY <1>2, <1>8, <2>2 DEF ImportSave
    <2> QED BY <2>1, <2>2
  <1>9. ASSUME NEW e \in Evaluations, Remove(e) PROVE Goal
    <2>1. \A c \in Cells : results'[c] = <<>> \/ results'[c] = results[c]
      BY <1>9 DEF Remove, Without
    <2> QED BY <1>3, <1>9, <2>1 DEF Remove, historyVars
  <1>10. ASSUME NEW s \in Scores, RemoveScore(s) PROVE Goal
    <2>1. \A c \in Cells : results'[c] = <<>> \/ results'[c] = results[c]
      BY <1>10 DEF RemoveScore, Without
    <2> QED BY <1>3, <1>10, <2>1 DEF RemoveScore, historyVars
  <1>11. ASSUME NEW x \in Sources, RemoveExperiment(x) PROVE Goal
    <2>1. \A c \in Cells : results'[c] = <<>> \/ results'[c] = results[c]
      BY <1>11 DEF RemoveExperiment, tableVars
    <2> QED BY <1>3, <1>11, <2>1 DEF RemoveExperiment
  <1>12. ASSUME NEW e \in Evaluations,
                \/ Load(e) \/ Fill(e) \/ Pair(e) \/ Resolve(e) \/ DispatchDies(e)
                \/ \E S, D, m : Save(e, S, D, m)
                \/ \E c \in Cells : Publish(e, c) \/ PublishFails(e, c)
                \/ \E i \in Importers : \E C : ImportFind(i, e, C)
         PROVE  Goal
    BY <1>2, <1>12 DEF Load, Fill, Pair, Resolve, DispatchDies, Save, Publish, PublishFails,
                       ImportFind, tableVars, historyVars
  <1>13. ASSUME NEW t \in Targets, AddTarget(t) PROVE Goal
    BY <1>2, <1>13 DEF AddTarget, tableVars, historyVars
  <1>14. CASE RemoveDataset
    BY <1>2, <1>14 DEF RemoveDataset, tableVars
  <1>15. ASSUME NEW c \in Cells, WorkerAnswers(c) \/ WorkerRepeats(c) PROVE Goal
    BY <1>2, <1>15 DEF WorkerAnswers, WorkerRepeats, tableVars, historyVars
  <1>16. ASSUME NEW h \in Handlers, Ack(h) \/ DeliveryDies(h) \/ \E c \in Cells : Find(h, c)
         PROVE  Goal
    BY <1>2, <1>16 DEF Ack, DeliveryDies, Find, tableVars, historyVars
  <1>17. CASE UNCHANGED vars
    BY <1>2, <1>17 DEF vars, tableVars, historyVars
  <1> QED
    BY <1>4, <1>5, <1>6, <1>7, <1>8, <1>9, <1>10, <1>11, <1>12, <1>13, <1>14, <1>15, <1>16,
       <1>17, NextCases
       DEF DispatchStep, HandlerStep, Failure

\* What an appended row adds to a cell.
LEMMA AppendRows ==
  ASSUME NEW s \in Seq(ScoreResult), NEW new \in ScoreResult
  PROVE  /\ DOMAIN Append(s, new) = 1 .. Len(s) + 1 /\ DOMAIN s = 1 .. Len(s) /\ Len(s) \in Nat
         /\ Append(s, new)[Len(s) + 1] = new
         /\ \A i \in DOMAIN s : Append(s, new)[i] = s[i]
  OBVIOUS

\* PENDING rows appear by posting alone.
LEMMA PendingSource ==
  ASSUME Typed, NEW c \in Cells, RowChanges(c), HasPending(c)'
  PROVE  HasPending(c) \/ Saves(c)
  <1>1. CASE results'[c] = <<>>
    BY <1>1 DEF HasPending
  <1>2. CASE Softer(results[c], results'[c])
    BY <1>2 DEF Softer, HasPending
  <1>3. CASE Entered(c)
    <2>1. results[c] \in Seq(ScoreResult) /\ HandRow \in ScoreResult /\ HandRow.status = "DONE"
      BY DEF Typed, TableType, HandRow, ScoreResult
    <2>2. PICK i \in DOMAIN Append(results[c], HandRow) :
             Append(results[c], HandRow)[i].status = "PENDING"
      BY <1>3 DEF Entered, HasPending
    <2>3. i \in DOMAIN results[c]
      BY <2>1, <2>2, AppendRows
    <2> QED BY <2>1, <2>2, <2>3, AppendRows DEF HasPending
  <1> QED BY <1>1, <1>2, <1>3 DEF RowChanges

\* An appended row that names its dataset row is the first that does.
LEMMA SoleAppend ==
  ASSUME NEW s \in Seq(ScoreResult), NEW new \in ScoreResult,
         \A i, j \in DOMAIN s : s[i].row /\ s[j].row => i = j,
         ~new.row \/ \A i \in DOMAIN s : ~s[i].row
  PROVE  \A i, j \in DOMAIN Append(s, new) :
            Append(s, new)[i].row /\ Append(s, new)[j].row => i = j
  <1> DEFINE t == Append(s, new)
  <1>1. /\ DOMAIN t = 1 .. Len(s) + 1 /\ DOMAIN s = 1 .. Len(s) /\ Len(s) \in Nat
        /\ t[Len(s) + 1] = new
        /\ \A i \in DOMAIN s : t[i] = s[i]
    BY AppendRows
  <1> HIDE DEF t
  <1>2. ASSUME NEW i \in DOMAIN t, NEW j \in DOMAIN t, t[i].row, t[j].row
        PROVE  i = j
    <2>1. CASE i \in DOMAIN s /\ j \in DOMAIN s
      <3>1. s[i].row /\ s[j].row
        BY <1>1, <1>2, <2>1
      <3> QED BY <2>1, <3>1
    <2>2. CASE i \notin DOMAIN s /\ j \notin DOMAIN s
      BY <1>1, <2>2
    <2>3. CASE (i \in DOMAIN s) # (j \in DOMAIN s)
      <3>1. PICK k \in DOMAIN s : t[k].row
        BY <1>2, <2>3
      <3>2. s[k].row /\ new.row
        BY <1>1, <1>2, <2>3, <3>1
      <3> QED BY <3>1, <3>2
    <2> QED BY <2>1, <2>2, <2>3
  <1> QED BY <1>2 DEF t

\* A cell keeps to one row that names its dataset row.
LEMMA SoleKept ==
  ASSUME Typed, PostInv, SoleInv, [Next]_vars, IInv, Typed'
  PROVE  SoleInv'
  <1>1. /\ scope' = scope /\ entered \subseteq entered'
        /\ \A c \in Cells : RowChanges(c)
        /\ \A e \in Evaluations : PostMoves(e)
    BY ChangeSource, PostSource
  <1> SUFFICES ASSUME NEW c \in Cells
               PROVE  /\ \A i \in DOMAIN results'[c] :
                           results'[c][i].status = "PENDING" => results'[c][i].row
                      /\ Mistakable(c)' \/ RowedOnce(c)'
                      /\ dispatch'[c[1]] \in Early => Mistakable(c)' \/ ~HasRow(c)'
    BY DEF SoleInv
  <1>2. results[c] \in Seq(ScoreResult) /\ c[1] \in Evaluations
    BY DEF Typed, TableType, Cells
  <1>3. /\ \A i \in DOMAIN results[c] : results[c][i].status = "PENDING" => results[c][i].row
        /\ Mistakable(c) \/ RowedOnce(c)
        /\ dispatch[c[1]] \in Early => Mistakable(c) \/ ~HasRow(c)
    BY DEF SoleInv
  <1>4. Mistakable(c) => Mistakable(c)'
    BY <1>1 DEF Mistakable
  <1>5. dispatch'[c[1]] \in Early => dispatch[c[1]] \in Early
    BY <1>1, <1>2 DEF PostMoves
  <1>6. CASE results'[c] = <<>>
    BY <1>6 DEF RowedOnce, HasRow
  <1>7. CASE Softer(results[c], results'[c])
    <2>1. RowedOnce(c) => RowedOnce(c)'
      BY <1>7 DEF Softer, RowedOnce
    <2>2. HasRow(c)' => HasRow(c)
      BY <1>7 DEF Softer, HasRow
    <2>3. \A i \in DOMAIN results'[c] :
             results'[c][i].status = "PENDING" => results'[c][i].row
      BY <1>3, <1>7 DEF Softer
    <2> QED BY <1>3, <1>4, <1>5, <2>1, <2>2, <2>3
  <1>8. CASE Entered(c)
    <2>1. HandRow \in ScoreResult /\ HandRow.status = "DONE" /\ HandRow.row = (scope = "DATASET")
      BY DEF HandRow, ScoreResult
    <2>2. results'[c] = Append(results[c], HandRow) /\ c \in entered'
      BY <1>8 DEF Entered
    <2>3. /\ DOMAIN results'[c] = 1 .. Len(results[c]) + 1
          /\ DOMAIN results[c] = 1 .. Len(results[c]) /\ Len(results[c]) \in Nat
          /\ results'[c][Len(results[c]) + 1] = HandRow
          /\ \A i \in DOMAIN results[c] : results'[c][i] = results[c][i]
      BY <1>2, <2>1, <2>2, AppendRows
    <2>4. \A i \in DOMAIN results'[c] :
             results'[c][i].status = "PENDING" => results'[c][i].row
      <3>1. ASSUME NEW i \in DOMAIN results'[c], results'[c][i].status = "PENDING"
            PROVE  i \in DOMAIN results[c]
        BY <2>1, <2>3, <3>1
      <3> QED BY <1>3, <2>3, <3>1
    <2>5. CASE scope = "DATASET"
      BY <1>1, <2>2, <2>4, <2>5 DEF Mistakable
    <2>6. CASE scope # "DATASET"
      <3>1. ~HandRow.row /\ ~Mistakable(c)
        BY <2>1, <2>6 DEF Mistakable
      <3>2. RowedOnce(c)'
        BY <1>2, <1>3, <2>1, <2>2, <3>1, SoleAppend DEF RowedOnce
      <3>3. HasRow(c)' => HasRow(c)
        BY <2>3, <3>1 DEF HasRow
      <3> QED BY <1>3, <1>5, <2>4, <3>1, <3>2, <3>3
    <2> QED BY <2>5, <2>6
  <1>9. CASE Saves(c)
    <2> DEFINE new == [status |-> "PENDING", row |-> TRUE]
    <2>1. new \in ScoreResult /\ new.row
      BY DEF ScoreResult
    <2>2. /\ results'[c] = Append(results[c], new)
          /\ dispatch[c[1]] = "save" /\ dispatch'[c[1]] = "resolve"
      BY <1>9 DEF Saves
    <2> HIDE DEF new
    <2>3. /\ DOMAIN results'[c] = 1 .. Len(results[c]) + 1
          /\ DOMAIN results[c] = 1 .. Len(results[c]) /\ Len(results[c]) \in Nat
          /\ results'[c][Len(results[c]) + 1] = new
          /\ \A i \in DOMAIN results[c] : results'[c][i] = results[c][i]
      BY <1>2, <2>1, <2>2, AppendRows
    <2>4. \A i \in DOMAIN results'[c] :
             results'[c][i].status = "PENDING" => results'[c][i].row
      <3>1. ASSUME NEW i \in DOMAIN results'[c], results'[c][i].status = "PENDING"
            PROVE  results'[c][i].row
        <4>1. CASE i \in DOMAIN results[c]
          BY <1>3, <2>3, <3>1, <4>1
        <4>2. CASE i \notin DOMAIN results[c]
          BY <2>1, <2>3, <4>2
        <4> QED BY <4>1, <4>2
      <3> QED BY <3>1
    <2>5. dispatch'[c[1]] \notin Early
      BY <2>2 DEF Early
    <2>6. Mistakable(c) \/ ~HasRow(c)
      BY <1>3, <2>2 DEF Early
    <2>7. ~Mistakable(c) => RowedOnce(c)'
      BY <1>2, <1>3, <2>1, <2>2, <2>6, SoleAppend DEF RowedOnce, HasRow
    <2> QED BY <1>4, <2>4, <2>5, <2>7
  <1> QED BY <1>1, <1>6, <1>7, <1>8, <1>9 DEF RowChanges

\* Specs are complete when they are saved.
SpecsMove(e) == dispatch[e] \notin Early => Specs(e)' = Specs(e) /\ dispatch'[e] \notin Early

LEMMA SpecsSource ==
  ASSUME Typed, PostInv, [Next]_vars, NEW e \in Evaluations
  PROVE  SpecsMove(e)
  <1>0. dispatch'[e] \in Early => dispatch[e] \in Early
    BY PostSource DEF PostMoves
  <1>1. ASSUME UNCHANGED <<filled, manual>> PROVE SpecsMove(e)
    BY <1>0, <1>1 DEF SpecsMove, Specs
  <1>2. ASSUME NEW f \in Evaluations, Fill(f) \/ Pair(f) PROVE SpecsMove(e)
    <2>1. CASE e = f
      BY <1>2, <2>1 DEF Fill, Pair, Early, SpecsMove
    <2>2. CASE e # f
      <3>1. filled'[e] = filled[e] /\ manual'[e] = manual[e]
        BY <1>2, <2>2 DEF Fill, Pair, Typed, DispatchType
      <3> QED BY <1>0, <3>1 DEF SpecsMove, Specs
    <2> QED BY <2>1, <2>2
  <1>3. ASSUME NEW f \in Evaluations,
               \/ Load(f) \/ CreatePending(f) \/ Resolve(f) \/ DispatchDies(f) \/ Remove(f)
               \/ \E S, D, m : Save(f, S, D, m)
               \/ \E c \in Cells : Publish(f, c) \/ PublishFails(f, c)
               \/ \E C : CreateResult(f, C)
               \/ \E i \in Importers : \E C : ImportFind(i, f, C)
        PROVE  SpecsMove(e)
    BY <1>1, <1>3 DEF Load, CreatePending, Resolve, DispatchDies, Remove, Save, Publish,
                      PublishFails, Sent, CreateResult, ImportFind, dispatchVars
  <1>4. ASSUME NEW s \in Scores, RemoveScore(s) PROVE SpecsMove(e)
    BY <1>1, <1>4 DEF RemoveScore, dispatchVars
  <1>5. ASSUME NEW t \in Targets, AddTarget(t) PROVE SpecsMove(e)
    BY <1>1, <1>5 DEF AddTarget, dispatchVars
  <1>6. ASSUME NEW x \in Sources, RemoveExperiment(x) PROVE SpecsMove(e)
    BY <1>1, <1>6 DEF RemoveExperiment, dispatchVars
  <1>7. ASSUME RemoveDataset \/ \E i \in Importers : ImportSave(i) PROVE SpecsMove(e)
    BY <1>1, <1>7 DEF RemoveDataset, ImportSave, dispatchVars
  <1>8. ASSUME NEW c \in Cells, WorkerAnswers(c) \/ WorkerRepeats(c) PROVE SpecsMove(e)
    BY <1>1, <1>8 DEF WorkerAnswers, WorkerRepeats, dispatchVars
  <1>9. ASSUME NEW h \in Handlers,
               \/ SaveExisting(h) \/ SaveNew(h) \/ Ack(h) \/ DeliveryDies(h)
               \/ \E c \in Cells : Find(h, c)
        PROVE  SpecsMove(e)
    BY <1>1, <1>9 DEF SaveExisting, SaveNew, Ack, DeliveryDies, Find, dispatchVars
  <1>10. CASE UNCHANGED vars
    BY <1>1, <1>10 DEF vars, dispatchVars
  <1> QED
    BY <1>2, <1>3, <1>4, <1>5, <1>6, <1>7, <1>8, <1>9, <1>10, NextCases
       DEF DispatchStep, HandlerStep, Failure

\* PENDING rows stay within the specs of their evaluation.
LEMMA SpecKept ==
  ASSUME IInv, PostInv, SpecInv, [Next]_vars
  PROVE  SpecInv'
  <1> SUFFICES ASSUME NEW c \in Cells, HasPending(c)'
               PROVE  dispatch'[c[1]] \notin Early /\ c \in Specs(c[1])'
    BY DEF SpecInv
  <1>1. Typed /\ c[1] \in Evaluations /\ RowChanges(c)
    BY ChangeSource DEF IInv, Cells
  <1>2. CASE HasPending(c)
    <2>1. PICK e \in Evaluations : e = c[1]
      BY <1>1
    <2>2. dispatch[e] \notin Early /\ c \in Specs(e) /\ SpecsMove(e)
      BY <1>1, <1>2, <2>1, SpecsSource DEF SpecInv
    <2> QED BY <2>1, <2>2 DEF SpecsMove
  <1>3. CASE Saves(c)
    BY <1>3 DEF Saves, Early
  <1> QED BY <1>1, <1>2, <1>3, PendingSource

\* A delivery that has just found a row to update.
FoundRow(h) ==
  /\ UNCHANGED <<worldVars, stored, results>>
  /\ hmsg'[h] \in Cells
  /\ hat'[h] \in Matching(hmsg'[h])

\* A delivery that has just settled what it found.
HasSettled(h) ==
  /\ hpc[h] = "update"
  /\ hmsg'[h] = hmsg[h]
  /\ Alive(hmsg[h])
  /\ results' = Settle(hmsg[h], hat[h])

\* What a step may do to a delivery.
HandlerMoves(h) ==
  \/ hpc'[h] = hpc[h] /\ hmsg'[h] = hmsg[h] /\ hat'[h] = hat[h]
  \/ hpc'[h] = "idle"
  \/ hpc'[h] = "insert"
  \/ hpc'[h] = "update" /\ FoundRow(h)
  \/ hpc'[h] = "ack" /\ HasSettled(h)

LEMMA HandlerSource ==
  ASSUME IInv, [Next]_vars, NEW h \in Handlers
  PROVE  HandlerMoves(h)
  <1>0. Typed
    BY DEF IInv
  <1>1. CASE UNCHANGED handlerVars
    BY <1>1 DEF HandlerMoves, handlerVars
  <1>2. ASSUME NEW g \in Handlers, NEW c \in Cells, Find(g, c)
        PROVE  HandlerMoves(h)
    <2>1. CASE g = h
      <3>1. hmsg'[h] = c
        BY <1>0, <1>2, <2>1 DEF Find, Typed, HandlerType
      <3>2. UNCHANGED <<worldVars, stored, results>>
        BY <1>2 DEF Find, evalVars, tableVars
      <3>3. CASE hpc' = [hpc EXCEPT ![g] = "insert"]
        BY <1>0, <2>1, <3>3 DEF HandlerMoves, Typed, HandlerType
      <3>4. CASE \E i \in Matching(c) : /\ hpc' = [hpc EXCEPT ![g] = "update"]
                                        /\ hat' = [hat EXCEPT ![g] = i]
        <4>1. PICK i \in Matching(c) : /\ hpc' = [hpc EXCEPT ![g] = "update"]
                                       /\ hat' = [hat EXCEPT ![g] = i]
          BY <3>4
        <4>2. hpc'[h] = "update" /\ hat'[h] = i
          BY <1>0, <2>1, <4>1 DEF Typed, HandlerType
        <4>3. FoundRow(h)
          BY <3>1, <3>2, <4>1, <4>2 DEF FoundRow
        <4> QED BY <4>2, <4>3 DEF HandlerMoves
      <3> QED BY <1>2, <3>3, <3>4 DEF Find
    <2>2. CASE g # h
      <3>1. hpc'[h] = hpc[h] /\ hmsg'[h] = hmsg[h] /\ hat'[h] = hat[h]
        BY <1>0, <1>2, <2>2 DEF Find, Typed, HandlerType
      <3> QED BY <3>1 DEF HandlerMoves
    <2> QED BY <2>1, <2>2
  <1>3. ASSUME NEW g \in Handlers, Release(g)
        PROVE  HandlerMoves(h)
    BY <1>0, <1>3 DEF Release, HandlerMoves, Typed, HandlerType
  <1>4. ASSUME NEW g \in Handlers, SaveExisting(g), ~Requeue(g)
        PROVE  HandlerMoves(h)
    <2>1. Saved(g) /\ hpc[g] = "update" /\ Alive(hmsg[g]) /\ results' = Settle(hmsg[g], hat[g])
      BY <1>4 DEF SaveExisting
    <2> QED BY <1>0, <2>1 DEF Saved, HandlerMoves, HasSettled, Typed, HandlerType
  <1>5. ASSUME NEW g \in Handlers, SaveNew(g) \/ Ack(g) \/ DeliveryDies(g)
        PROVE  HandlerMoves(h)
    <2>1. Release(g)
      BY <1>5 DEF SaveNew, Ack, DeliveryDies, Requeue, IInv, CreateBranchOnlyWhenGone
    <2> QED BY <1>3, <2>1
  <1>6. ASSUME NEW e \in Evaluations,
               \/ Remove(e) \/ Load(e) \/ Fill(e) \/ Pair(e) \/ CreatePending(e) \/ Resolve(e)
               \/ DispatchDies(e)
               \/ \E S, D, m : Save(e, S, D, m)
               \/ \E c \in Cells : Publish(e, c) \/ PublishFails(e, c)
               \/ \E C : CreateResult(e, C)
               \/ \E i \in Importers : \E C : ImportFind(i, e, C)
        PROVE  HandlerMoves(h)
    BY <1>1, <1>6 DEF Remove, Load, Fill, Pair, CreatePending, Resolve, DispatchDies, Save,
                      Publish, PublishFails, CreateResult, ImportFind
  <1>7. ASSUME NEW s \in Scores, RemoveScore(s)
        PROVE  HandlerMoves(h)
    BY <1>1, <1>7 DEF RemoveScore
  <1>8. ASSUME NEW t \in Targets, AddTarget(t)
        PROVE  HandlerMoves(h)
    BY <1>1, <1>8 DEF AddTarget
  <1>9. ASSUME NEW x \in Sources, RemoveExperiment(x)
        PROVE  HandlerMoves(h)
    BY <1>1, <1>9 DEF RemoveExperiment
  <1>10. ASSUME RemoveDataset \/ \E i \in Importers : ImportSave(i)
         PROVE  HandlerMoves(h)
    BY <1>1, <1>10 DEF RemoveDataset, ImportSave
  <1>11. ASSUME NEW c \in Cells, WorkerAnswers(c) \/ WorkerRepeats(c)
         PROVE  HandlerMoves(h)
    BY <1>1, <1>11 DEF WorkerAnswers, WorkerRepeats
  <1>12. CASE UNCHANGED vars
    BY <1>1, <1>12 DEF vars
  <1>13. ASSUME NEW g \in Handlers, SaveExisting(g)
         PROVE  HandlerMoves(h)
    BY <1>3, <1>4, <1>13 DEF Requeue
  <1> QED
    BY <1>2, <1>5, <1>6, <1>7, <1>8, <1>9, <1>10, <1>11, <1>12, <1>13, NextCases
       DEF DispatchStep, HandlerStep, Failure

\* What a delivery found stays while its cell does.
LEMMA UpdateKept ==
  ASSUME IInv, UpdateInv, [Next]_vars
  PROVE  UpdateInv'
  <1> SUFFICES ASSUME NEW h \in Handlers, hpc'[h] = "update", Alive(hmsg[h])'
               PROVE  hat'[h] \in DOMAIN results'[hmsg'[h]] /\ results'[hmsg'[h]][hat'[h]].row
    BY DEF UpdateInv
  <1>1. Typed /\ Typed' /\ CellsKept
    BY TypeNext, StepKeeps DEF IInv
  <1>2. CASE hpc[h] = "update" /\ hmsg'[h] = hmsg[h] /\ hat'[h] = hat[h]
    <2>1. PICK c \in Cells : c = hmsg[h]
      BY <1>1, <1>2 DEF Typed, HandlerType
    <2>2. Known(c)
      BY <1>2, <2>1 DEF IInv, FlightInv, InFlight, Processing, Good
    <2>3. Alive(c)'
      BY <1>2, <2>1 DEF Alive
    <2>4. Alive(c) /\ Keeps(results[c], results'[c])
      BY <1>1, <2>2, <2>3 DEF CellsKept
    <2>5. hat[h] \in DOMAIN results[c] /\ results[c][hat[h]].row
      BY <1>2, <2>1, <2>4 DEF UpdateInv
    <2> QED BY <1>2, <2>1, <2>4, <2>5 DEF Keeps
  <1>3. CASE FoundRow(h)
    BY <1>3 DEF FoundRow, Matching
  <1>4. \/ hpc'[h] = hpc[h] /\ hmsg'[h] = hmsg[h] /\ hat'[h] = hat[h]
        \/ FoundRow(h)
    BY HandlerSource DEF HandlerMoves
  <1> QED BY <1>2, <1>3, <1>4

\* A delivery that has saved its answer leaves nothing PENDING, but for a
\* cell whose entered row was taken for the PENDING one.
LEMMA AckKept ==
  ASSUME IInv, PostInv, SoleInv, UpdateInv, AckInv, [Next]_vars
  PROVE  AckInv'
  <1>1. /\ Typed /\ Typed' /\ scope' = scope /\ entered \subseteq entered'
        /\ \A c \in Cells : RowChanges(c)
    BY TypeNext, ChangeSource DEF IInv
  <1> SUFFICES ASSUME NEW h \in Handlers, hpc'[h] = "ack",
                      NEW c \in Cells, c = hmsg'[h], HasPending(c)'
               PROVE  Mistakable(c)'
    <2>1. \A h \in Handlers : hpc'[h] = "ack" => hmsg'[h] \in Cells
      BY <1>1 DEF Typed, HandlerType
    <2>2. \A h \in Handlers : \A c \in Cells :
             hpc'[h] = "ack" /\ c = hmsg'[h] /\ HasPending(c)' => Mistakable(c)'
      OBVIOUS
    <2> QED BY <2>1, <2>2 DEF AckInv, HasPending, Mistakable
  <1>2. Mistakable(c) => Mistakable(c)'
    BY <1>1 DEF Mistakable
  <1>3. CASE hpc[h] = "ack" /\ hmsg'[h] = hmsg[h]
    <2>1. CASE HasPending(c)
      BY <1>2, <1>3, <2>1 DEF AckInv
    <2>2. CASE Saves(c)
      <3>1. Good(c)
        BY <1>3 DEF IInv, FlightInv, InFlight, Processing
      <3>2. HasRow(c) /\ dispatch[c[1]] \in Early
        BY <2>2, <3>1 DEF Saves, Good, Early
      <3> QED BY <1>2, <3>2 DEF SoleInv
    <2> QED BY <1>1, <2>1, <2>2, PendingSource
  <1>4. CASE HasSettled(h)
    <2>1. /\ c = hmsg[h] /\ hpc[h] = "update" /\ Alive(c)
          /\ results' = [results EXCEPT ![c] = [results[c] EXCEPT ![hat[h]].status = "DONE"]]
      BY <1>4 DEF HasSettled, Settle
    <2>2. hat[h] \in DOMAIN results[c] /\ results[c][hat[h]].row
      BY <2>1 DEF UpdateInv
    <2>3. results[c] \in Seq(ScoreResult) /\ results \in [Cells -> Seq(ScoreResult)]
      BY <1>1 DEF Typed, TableType
    <2>4. results'[c] = [results[c] EXCEPT ![hat[h]].status = "DONE"]
      BY <2>1, <2>3
    <2>5. PICK i \in DOMAIN results'[c] : results'[c][i].status = "PENDING"
      BY DEF HasPending
    <2>6. i \in DOMAIN results[c] /\ results[c][hat[h]] \in ScoreResult
      BY <2>2, <2>3, <2>4, <2>5
    <2>7. i # hat[h]
      BY <2>2, <2>4, <2>5, <2>6 DEF ScoreResult
    <2>8. results[c][i].status = "PENDING"
      BY <2>4, <2>5, <2>6, <2>7
    <2>9. results[c][i].row /\ ~RowedOnce(c)
      BY <2>2, <2>6, <2>7, <2>8 DEF SoleInv, RowedOnce
    <2> QED BY <1>2, <2>9 DEF SoleInv
  <1> QED BY <1>3, <1>4, HandlerSource DEF HandlerMoves

\* A message put back is still there.
LEMMA RequeueAccounts ==
  ASSUME Typed, NEW h \in Handlers, hpc[h] # "idle", Requeue(h), NEW c \in Cells,
         UNCHANGED <<dispatch, todo, jobs, scope, unqueued, lost>>, entered \subseteq entered',
         Accounted(c)
  PROVE  Accounted(c)'
  <1>1. /\ hpc \in [Handlers -> {"idle", "update", "insert", "ack"}]
        /\ hmsg \in [Handlers -> Cells \union {<<>>}]
        /\ answers \in [Cells -> Nat]
        /\ hmsg[h] \in Cells
    BY DEF Typed, HandlerType, QueueType
  <1>2. answers'[c] = IF c = hmsg[h] THEN answers[c] + 1 ELSE answers[c]
    BY <1>1, BagStep DEF Requeue
  <1>3. (answers[c] > 0 => answers'[c] > 0) /\ (c = hmsg[h] => answers'[c] > 0)
    BY <1>1, <1>2
  <1>4. Processing(c) /\ c # hmsg[h] => Processing(c)'
    BY <1>1 DEF Processing, Requeue, Release
  <1> QED
    BY <1>3, <1>4 DEF Accounted, InFlight, Mistakable

\* Only an acknowledgement takes a cell off the books.
LEMMA AccountedStays ==
  ASSUME IInv, PostInv, SpecInv, AckInv, [Next]_vars,
         NEW c \in Cells, HasPending(c), Accounted(c)
  PROVE  Accounted(c)'
  <1>0. Typed /\ scope' = scope /\ entered \subseteq entered'
    BY ChangeSource DEF IInv
  <1>1. /\ hpc \in [Handlers -> {"idle", "update", "insert", "ack"}]
        /\ hmsg \in [Handlers -> Cells \union {<<>>}]
        /\ jobs \in [Cells -> Nat] /\ answers \in [Cells -> Nat]
        /\ dispatch \in [Evaluations -> Stages]
        /\ todo \in [Evaluations -> SUBSET Cells]
        /\ c[1] \in Evaluations
    BY <1>0 DEF Typed, HandlerType, QueueType, DispatchType, Cells
  <1>2. dispatch[c[1]] \notin Early /\ c \in Specs(c[1])
    BY DEF SpecInv
  <1>3. ASSUME UNCHANGED <<jobs, answers, hpc, hmsg>>,
               dispatch'[c[1]] = dispatch[c[1]], todo'[c[1]] = todo[c[1]],
               unqueued \subseteq unqueued', lost \subseteq lost'
        PROVE  Accounted(c)'
    BY <1>0, <1>3 DEF Accounted, InFlight, Processing, Mistakable
  <1>4. ASSUME NEW e \in Evaluations,
               \/ Load(e) \/ Fill(e) \/ Pair(e) \/ CreatePending(e)
               \/ \E S, D, m : Save(e, S, D, m)
        PROVE  Accounted(c)'
    <2>1. UNCHANGED <<jobs, answers, hpc, hmsg, todo, unqueued, lost>>
      BY <1>4 DEF Load, Fill, Pair, CreatePending, Save, queueVars, handlerVars, historyVars
    <2>2. c[1] # e
      BY <1>1, <1>2, <1>4 DEF Load, Fill, Pair, CreatePending, Save, PostInv, Early
    <2>3. dispatch'[c[1]] = dispatch[c[1]]
      BY <1>1, <1>4, <2>2 DEF Load, Fill, Pair, CreatePending, Save
    <2> QED BY <1>3, <2>1, <2>3
  <1>5. ASSUME NEW e \in Evaluations, Resolve(e)
        PROVE  Accounted(c)'
    <2> DEFINE Q == {d \in filled[e] : d[2] \in Permanent \union (Queueable \intersect scores)}
    <2>1. /\ todo' = [todo EXCEPT ![e] = Q]
          /\ unqueued' = unqueued \union (Specs(e) \ Q)
          /\ \E stage : dispatch' = [dispatch EXCEPT ![e] = stage]
          /\ UNCHANGED <<jobs, answers, hpc, hmsg, lost>>
      BY <1>5 DEF Resolve, queueVars, handlerVars
    <2> HIDE DEF Q
    <2>2. CASE c[1] = e
      <3>1. c \in Q \/ c \in unqueued'
        BY <1>2, <2>1, <2>2
      <3>2. c \in Q => c \in todo'[e]
        BY <1>1, <2>1, <2>2
      <3> QED BY <2>2, <3>1, <3>2 DEF Accounted
    <2>3. CASE c[1] # e
      <3>1. dispatch'[c[1]] = dispatch[c[1]] /\ todo'[c[1]] = todo[c[1]]
        BY <1>1, <2>1, <2>3
      <3> QED BY <1>3, <2>1, <3>1
    <2> QED BY <2>2, <2>3
  <1>6. ASSUME NEW e \in Evaluations, NEW d \in Cells, Publish(e, d) \/ PublishFails(e, d)
        PROVE  Accounted(c)'
    <2>1. Sent(e, d) /\ UNCHANGED <<answers, hpc, hmsg, unqueued>>
      BY <1>6 DEF Publish, PublishFails, handlerVars, historyVars
    <2>2. \/ jobs' = Inc(jobs, d) /\ lost' = lost
          \/ jobs' = jobs /\ lost' = lost \union {d}
      BY <1>6 DEF Publish, PublishFails, historyVars
    <2>3. (jobs[c] > 0 => jobs'[c] > 0) /\ lost \subseteq lost'
      <3>1. Inc(jobs, d)[c] = IF c = d THEN jobs[c] + 1 ELSE jobs[c]
        BY <1>1 DEF Inc
      <3>2. jobs[c] \in Nat
        BY <1>1
      <3>3. jobs[c] > 0 => Inc(jobs, d)[c] > 0
        BY <3>1, <3>2
      <3> QED BY <2>2, <3>3
    <2>4. CASE c = d
      <3>1. Inc(jobs, d)[c] > 0
        BY <1>1, <2>4, BagStep
      <3> QED BY <2>2, <2>4, <3>1 DEF Accounted, InFlight
    <2>5. CASE c # d
      <3>1. dispatch[c[1]] = "resolve" => dispatch'[c[1]] = "resolve"
        BY <1>1, <2>1 DEF Sent
      <3>2. c \in todo[c[1]] => c \in todo'[c[1]]
        BY <1>1, <2>1, <2>5 DEF Sent
      <3> QED BY <1>0, <2>1, <2>3, <3>1, <3>2 DEF Accounted, InFlight, Processing, Mistakable
    <2> QED BY <2>4, <2>5
  <1>7. ASSUME NEW e \in Evaluations, DispatchDies(e)
        PROVE  Accounted(c)'
    <2>1. UNCHANGED <<jobs, answers, hpc, hmsg, unqueued>> /\ lost \subseteq lost'
      BY <1>7 DEF DispatchDies, queueVars, handlerVars
    <2>2. CASE c[1] = e
      <3>1. CASE dispatch[e] = "resolve"
        <4>1. c \in lost'
          BY <1>2, <1>7, <2>2, <3>1 DEF DispatchDies
        <4> QED BY <4>1 DEF Accounted
      <3>2. CASE dispatch[e] = "publish" /\ c \in todo[e]
        <4>1. c \in lost'
          BY <1>7, <3>2 DEF DispatchDies
        <4> QED BY <4>1 DEF Accounted
      <3>3. CASE dispatch[e] = "publish" /\ c \notin todo[e]
        BY <1>0, <2>1, <2>2, <3>3 DEF Accounted, InFlight, Processing, Mistakable
      <3> QED BY <1>2, <1>7, <2>2, <3>1, <3>2, <3>3 DEF DispatchDies, Early
    <2>3. CASE c[1] # e
      <3>1. dispatch'[c[1]] = dispatch[c[1]] /\ todo'[c[1]] = todo[c[1]]
        BY <1>1, <1>7, <2>3 DEF DispatchDies
      <3> QED BY <1>3, <2>1, <3>1
    <2> QED BY <2>2, <2>3
  <1>8. ASSUME NEW d \in Cells, WorkerAnswers(d) \/ WorkerRepeats(d)
        PROVE  Accounted(c)'
    <2>1. UNCHANGED <<dispatch, todo, hpc, hmsg, unqueued, lost>> /\ answers' = Inc(answers, d)
      BY <1>8 DEF WorkerAnswers, WorkerRepeats, handlerVars, dispatchVars, historyVars
    <2>2. jobs' = jobs \/ jobs' = Dec(jobs, d)
      BY <1>8 DEF WorkerAnswers, WorkerRepeats
    <2>3. CASE c = d
      <3>1. Inc(answers, d)[c] > 0
        BY <1>1, <2>3, BagStep
      <3> QED BY <2>1, <3>1 DEF Accounted, InFlight
    <2>4. CASE c # d
      <3>1. answers'[c] = answers[c] /\ jobs'[c] = jobs[c]
        BY <1>1, <2>1, <2>2, <2>4 DEF Inc, Dec
      <3> QED BY <1>0, <2>1, <3>1 DEF Accounted, InFlight, Processing, Mistakable
    <2> QED BY <2>3, <2>4
  <1>9. ASSUME NEW g \in Handlers, NEW d \in Cells, Find(g, d)
        PROVE  Accounted(c)'
    <2>1. hpc[g] = "idle" /\ hmsg'[g] = d /\ hpc'[g] # "idle"
      BY <1>1, <1>9 DEF Find
    <2>2. UNCHANGED <<dispatch, todo, jobs, unqueued, lost>>
      BY <1>9 DEF Find, dispatchVars, historyVars
    <2>3. CASE c = d
      BY <2>1, <2>3 DEF Accounted, InFlight, Processing
    <2>4. CASE c # d
      <3>1. answers'[c] = answers[c]
        BY <1>1, <1>9, <2>4 DEF Find, Dec
      <3>2. Processing(c) => Processing(c)'
        BY <1>1, <1>9, <2>1 DEF Find, Processing
      <3> QED BY <1>0, <2>2, <3>1, <3>2 DEF Accounted, InFlight, Mistakable
    <2> QED BY <2>3, <2>4
  <1>10. ASSUME NEW g \in Handlers, SaveExisting(g) \/ SaveNew(g) \/ DeliveryDies(g)
         PROVE  Accounted(c)'
    <2>1. UNCHANGED <<dispatch, todo, jobs, unqueued, lost>> /\ hpc[g] # "idle"
      BY <1>10 DEF SaveExisting, SaveNew, DeliveryDies, dispatchVars, historyVars
    <2>2. CASE Requeue(g)
      BY <1>0, <2>1, <2>2, RequeueAccounts
    <2>3. CASE Saved(g)
      <3>1. Processing(c) => Processing(c)'
        BY <1>1, <2>3 DEF Saved, Processing
      <3> QED BY <1>0, <2>1, <2>3, <3>1 DEF Saved, Accounted, InFlight, Mistakable
    <2> QED BY <1>10, <2>2, <2>3 DEF SaveExisting, SaveNew, DeliveryDies
  <1>11. ASSUME NEW g \in Handlers, Ack(g)
         PROVE  Accounted(c)'
    <2>1. /\ UNCHANGED <<dispatch, todo, jobs, answers, unqueued, lost>>
          /\ Release(g) /\ hpc[g] = "ack"
      BY <1>11 DEF Ack, dispatchVars, queueVars, historyVars
    <2>2. CASE hmsg[g] = c
      <3>1. Mistakable(c)
        BY <2>1, <2>2 DEF AckInv
      <3> QED BY <1>0, <3>1 DEF Accounted, Mistakable
    <2>3. CASE hmsg[g] # c
      <3>1. Processing(c) => Processing(c)'
        BY <1>1, <2>1, <2>3 DEF Release, Processing
      <3> QED BY <1>0, <2>1, <3>1 DEF Accounted, InFlight, Mistakable
    <2> QED BY <2>2, <2>3
  <1>12. ASSUME NEW e \in Evaluations,
                \/ Remove(e)
                \/ \E C : CreateResult(e, C)
                \/ \E i \in Importers : \E C : ImportFind(i, e, C)
         PROVE  Accounted(c)'
    BY <1>3, <1>12 DEF Remove, CreateResult, ImportFind, queueVars, handlerVars, dispatchVars,
                       historyVars
  <1>13. ASSUME NEW s \in Scores, RemoveScore(s)
         PROVE  Accounted(c)'
    BY <1>3, <1>13 DEF RemoveScore, queueVars, handlerVars, dispatchVars, historyVars
  <1>14. ASSUME NEW t \in Targets, AddTarget(t)
         PROVE  Accounted(c)'
    BY <1>3, <1>14 DEF AddTarget, queueVars, handlerVars, dispatchVars, historyVars
  <1>15. ASSUME NEW x \in Sources, RemoveExperiment(x)
         PROVE  Accounted(c)'
    BY <1>3, <1>15 DEF RemoveExperiment, queueVars, handlerVars, dispatchVars
  <1>16. ASSUME RemoveDataset \/ \E i \in Importers : ImportSave(i)
         PROVE  Accounted(c)'
    BY <1>3, <1>16 DEF RemoveDataset, ImportSave, queueVars, handlerVars, dispatchVars
  <1>17. CASE UNCHANGED vars
    BY <1>3, <1>17 DEF vars, queueVars, handlerVars, dispatchVars, historyVars
  <1> QED
    BY <1>4, <1>5, <1>6, <1>7, <1>8, <1>9, <1>10, <1>11, <1>12, <1>13, <1>14, <1>15, <1>16, <1>17,
       NextCases
       DEF DispatchStep, HandlerStep, Failure

\* Nothing is PENDING at first.
LEMMA PendingInit ==
  ASSUME Init
  PROVE  PendingInv
  <1>1. \A c \in Cells : results[c] = <<>>
    BY DEF Init
  <1>2. SoleInv /\ \A c \in Cells : ~HasPending(c)
    BY <1>1 DEF SoleInv, RowedOnce, HasRow, HasPending
  <1>3. UpdateInv /\ AckInv
    BY DEF Init, UpdateInv, AckInv
  <1> QED BY <1>2, <1>3 DEF PendingInv, SpecInv

\* PendingInv is inductive, with the invariants above.
LEMMA PendingNext ==
  ASSUME IInv, OneInv, PendingInv, [Next]_vars
  PROVE  PendingInv'
  <1>1. PostInv /\ SoleInv /\ SpecInv /\ UpdateInv /\ AckInv /\ Typed /\ Typed'
    BY TypeNext DEF OneInv, PendingInv, IInv
  <1>2. SoleInv' /\ SpecInv' /\ UpdateInv' /\ AckInv'
    BY <1>1, SoleKept, SpecKept, UpdateKept, AckKept
  <1>3. ASSUME NEW c \in Cells, HasPending(c)'
        PROVE  Accounted(c)'
    <2>1. CASE HasPending(c)
      BY <1>1, <2>1, AccountedStays DEF PendingInv
    <2>2. CASE Saves(c)
      BY <2>2 DEF Saves, Accounted
    <2> QED BY <1>1, <1>3, <2>1, <2>2, PendingSource, ChangeSource
  <1> QED BY <1>2, <1>3 DEF PendingInv

\* No interleaving of posting, deaths, deliveries, entries, imports and
\* deletions strands a PENDING row: its job is still to be published, queued,
\* answered or processed, was lost with a publication or with posting, or it
\* is left to be entered by hand; or its answer was saved in an entered row
\* that names the same dataset row.
THEOREM PendingAccounted == Spec => []PendingIsAccountedFor
  <1>1. IInv /\ OneInv /\ PendingInv /\ [Next]_vars => PendingInv'
    BY PendingNext
  <1>2. Init => PendingInv
    BY PendingInit
  <1>3. Spec => []PendingInv
    BY <1>1, <1>2, InvInit, InvNext, OneInit, OneNext, PTL DEF Spec
  <1>4. PendingInv => PendingIsAccountedFor
    BY DEF PendingInv, PendingIsAccountedFor, HasPending, Accounted, Mistakable
  <1> QED BY <1>3, <1>4, PTL

-----------------------------------------------------------------------------
(***************************************************************************)
(* What was there to be scored from the start is scored.  The invariant    *)
(* follows posting from source to source.                                  *)
(***************************************************************************)

\* A cell posting must not miss: its target was there from the start, and it
\* is of a score and a source of the evaluation.
Due(c) ==
  /\ Alive(c)
  /\ c[2] \in uses[c[1]]
  /\ c[3] \in InitialTargets
  /\ Source(c[3]) \in covers[c[1]]

\* An initial target that is gone is gone with its source.
InitialInv == \A t \in InitialTargets : t \in targets \/ Source(t) \notin sources

\* Only scores with a template are filled.
FilledInv == \A e \in Evaluations : \A c \in filled[e] : c[2] \in Mapped

\* How far posting has come with a cell.
Reached(c) ==
  LET e == c[1]
      read == Source(c[3]) \notin left[e]
      hand == c[2] \in ManualScores(e, filled[e])
  IN /\ dispatch[e] = "fill" /\ read /\ c[2] \in Mapped => c \in filled[e]
     /\ dispatch[e] = "pair" /\ ~hand => c \in filled[e]
     /\ dispatch[e] = "pair" /\ read /\ hand => c \in manual[e]
     /\ dispatch[e] = "save" => c \in Specs(e)
     /\ dispatch[e] \in {"resolve", "publish", "done"} => HasRow(c)

SnapshotInv ==
  InitialInv /\ FilledInv /\ \A c \in Cells : Due(c) => Reached(c)

LEMMA InitialKept ==
  ASSUME Typed, InitialInv, [Next]_vars
  PROVE  InitialInv'
  <1>0. scope' = scope
    BY StepKeeps DEF CellsKept
  <1>1. ASSUME sources' \subseteq sources, targets \subseteq targets' PROVE InitialInv'
    BY <1>0, <1>1 DEF InitialInv, Source
  <1>2. ASSUME NEW D, Vanish(D) PROVE InitialInv'
    BY <1>0, <1>2 DEF InitialInv, Vanish, Source
  <1>3. ASSUME NEW t \in Targets, AddTarget(t) PROVE InitialInv'
    BY <1>1, <1>3 DEF AddTarget
  <1>4. ASSUME NEW x \in Sources, RemoveExperiment(x) PROVE InitialInv'
    BY <1>1, <1>2, <1>4 DEF RemoveExperiment
  <1>5. ASSUME RemoveDataset PROVE InitialInv'
    BY <1>1, <1>2, <1>5 DEF RemoveDataset
  <1>6. ASSUME NEW e \in Evaluations,
               \/ Remove(e) \/ Load(e) \/ Fill(e) \/ Pair(e) \/ CreatePending(e) \/ Resolve(e)
               \/ DispatchDies(e)
               \/ \E S, D, m : Save(e, S, D, m)
               \/ \E c \in Cells : Publish(e, c) \/ PublishFails(e, c)
               \/ \E C : CreateResult(e, C)
               \/ \E i \in Importers : \E C : ImportFind(i, e, C)
        PROVE  InitialInv'
    BY <1>1, <1>6 DEF Remove, Load, Fill, Pair, CreatePending, Resolve, DispatchDies, Save,
                      Publish, PublishFails, CreateResult, ImportFind, worldVars
  <1>7. ASSUME NEW s \in Scores, RemoveScore(s) PROVE InitialInv'
    BY <1>1, <1>7 DEF RemoveScore
  <1>8. ASSUME NEW i \in Importers, ImportSave(i) PROVE InitialInv'
    BY <1>1, <1>8 DEF ImportSave, worldVars
  <1>9. ASSUME NEW c \in Cells, WorkerAnswers(c) \/ WorkerRepeats(c) PROVE InitialInv'
    BY <1>1, <1>9 DEF WorkerAnswers, WorkerRepeats, worldVars
  <1>10. ASSUME NEW h \in Handlers,
                \/ SaveExisting(h) \/ SaveNew(h) \/ Ack(h) \/ DeliveryDies(h)
                \/ \E c \in Cells : Find(h, c)
         PROVE  InitialInv'
    BY <1>1, <1>10 DEF SaveExisting, SaveNew, Ack, DeliveryDies, Find, worldVars
  <1>11. CASE UNCHANGED vars
    BY <1>1, <1>11 DEF vars, worldVars
  <1> QED
    BY <1>3, <1>4, <1>5, <1>6, <1>7, <1>8, <1>9, <1>10, <1>11, NextCases
       DEF DispatchStep, HandlerStep, Failure

\* What a step may do to the posting of an evaluation.
Standing(e) ==
  /\ dispatch'[e] = dispatch[e] /\ left'[e] = left[e]
  /\ filled'[e] = filled[e] /\ manual'[e] = manual[e] /\ uses'[e] = uses[e]

StageMoves(e) ==
  /\ dispatch[e] # "none" => covers'[e] = covers[e] /\ uses'[e] \subseteq uses[e]
  /\ \/ Standing(e)
     \/ dispatch'[e] \in {"load", "failed"} /\ filled'[e] = filled[e]
     \/ Load(e) \/ Fill(e) \/ Pair(e) \/ CreatePending(e)
     \/ /\ dispatch[e] \in {"resolve", "publish"}
        /\ dispatch'[e] \in {"publish", "done"}
        /\ filled'[e] = filled[e]

LEMMA StageSource ==
  ASSUME Typed, PostInv, [Next]_vars, NEW e \in Evaluations
  PROVE  StageMoves(e)
  <1>0. /\ covers \in [Evaluations -> SUBSET Sources] /\ uses \in [Evaluations -> SUBSET Scores]
        /\ dispatch \in [Evaluations -> Stages]
        /\ left \in [Evaluations -> SUBSET Sources]
        /\ filled \in [Evaluations -> SUBSET Cells]
        /\ manual \in [Evaluations -> SUBSET Cells]
    BY DEF Typed, EvalType, DispatchType
  <1>1. ASSUME UNCHANGED <<dispatch, left, filled, manual, covers, uses>> PROVE StageMoves(e)
    BY <1>1 DEF StageMoves, Standing
  <1>2. ASSUME NEW f \in Evaluations, NEW S, NEW D, NEW m, Save(f, S, D, m) PROVE StageMoves(e)
    <2>1. UNCHANGED <<left, filled, manual>>
      BY <1>2 DEF Save
    <2>2. CASE e = f
      <3>1. dispatch[e] = "none" /\ dispatch'[e] = "load"
        BY <1>0, <1>2, <2>2 DEF Save, PostInv
      <3> QED BY <2>1, <3>1 DEF StageMoves
    <2>3. CASE e # f
      <3>1. dispatch'[e] = dispatch[e] /\ covers'[e] = covers[e] /\ uses'[e] = uses[e]
        BY <1>0, <1>2, <2>3 DEF Save
      <3> QED BY <2>1, <3>1 DEF StageMoves, Standing
    <2> QED BY <2>2, <2>3
  <1>3. ASSUME NEW f \in Evaluations,
               \/ Load(f) \/ Fill(f) \/ Pair(f) \/ CreatePending(f) \/ Resolve(f) \/ DispatchDies(f)
               \/ \E c \in Cells : Publish(f, c) \/ PublishFails(f, c)
        PROVE  StageMoves(e)
    <2>1. covers' = covers
      BY <1>3 DEF Load, Fill, Pair, CreatePending, Resolve, DispatchDies, Publish, PublishFails,
                  evalVars
    <2>2. CASE e # f
      <3>1. /\ dispatch'[e] = dispatch[e] /\ left'[e] = left[e] /\ uses'[e] = uses[e]
            /\ filled'[e] = filled[e] /\ manual'[e] = manual[e]
        BY <1>0, <1>3, <2>2 DEF Load, Fill, Pair, CreatePending, Resolve, DispatchDies, Publish,
                                PublishFails, Sent, evalVars
      <3> QED BY <2>1, <3>1 DEF StageMoves, Standing
    <2>3. CASE e = f
      <3>1. uses'[e] \subseteq uses[e]
        BY <1>0, <1>3, <2>3 DEF Load, Fill, Pair, CreatePending, Resolve, DispatchDies, Publish,
                                PublishFails, evalVars
      <3>2. CASE Load(e) \/ Fill(e) \/ Pair(e) \/ CreatePending(e)
        BY <2>1, <3>1, <3>2 DEF StageMoves
      <3>3. CASE Resolve(e) \/ DispatchDies(e) \/ \E c \in Cells : Publish(e, c) \/ PublishFails(e, c)
        <4>1. filled'[e] = filled[e]
          BY <3>3 DEF Resolve, DispatchDies, Publish, PublishFails, Sent
        <4>2. CASE Resolve(e)
          <5>1. dispatch[e] = "resolve" /\ dispatch'[e] \in {"publish", "done"}
            BY <1>0, <4>2 DEF Resolve
          <5> QED BY <2>1, <3>1, <4>1, <5>1 DEF StageMoves
        <4>3. CASE DispatchDies(e)
          <5>1. dispatch'[e] = "failed"
            BY <1>0, <4>3 DEF DispatchDies
          <5> QED BY <2>1, <3>1, <4>1, <5>1 DEF StageMoves
        <4>4. CASE \E c \in Cells : Publish(e, c) \/ PublishFails(e, c)
          <5>1. dispatch[e] = "publish" /\ dispatch'[e] \in {"publish", "done"}
            BY <1>0, <4>4 DEF Publish, PublishFails, Sent
          <5> QED BY <2>1, <3>1, <4>1, <5>1 DEF StageMoves
        <4> QED BY <3>3, <4>2, <4>3, <4>4
      <3> QED BY <1>3, <2>3, <3>2, <3>3
    <2> QED BY <2>2, <2>3
  <1>4. ASSUME NEW f \in Evaluations,
               \/ Remove(f)
               \/ \E C : CreateResult(f, C)
               \/ \E i \in Importers : \E C : ImportFind(i, f, C)
        PROVE  StageMoves(e)
    BY <1>1, <1>4 DEF Remove, CreateResult, ImportFind, dispatchVars, evalVars
  <1>5. ASSUME NEW s \in Scores, RemoveScore(s) PROVE StageMoves(e)
    BY <1>1, <1>5 DEF RemoveScore, dispatchVars, evalVars
  <1>6. ASSUME NEW t \in Targets, AddTarget(t) PROVE StageMoves(e)
    BY <1>1, <1>6 DEF AddTarget, dispatchVars, evalVars
  <1>7. ASSUME NEW x \in Sources, RemoveExperiment(x) PROVE StageMoves(e)
    BY <1>1, <1>7 DEF RemoveExperiment, dispatchVars, evalVars
  <1>8. ASSUME RemoveDataset \/ \E i \in Importers : ImportSave(i) PROVE StageMoves(e)
    BY <1>1, <1>8 DEF RemoveDataset, ImportSave, dispatchVars, evalVars
  <1>9. ASSUME NEW c \in Cells, WorkerAnswers(c) \/ WorkerRepeats(c) PROVE StageMoves(e)
    BY <1>1, <1>9 DEF WorkerAnswers, WorkerRepeats, dispatchVars, evalVars
  <1>10. ASSUME NEW h \in Handlers,
                \/ SaveExisting(h) \/ SaveNew(h) \/ Ack(h) \/ DeliveryDies(h)
                \/ \E c \in Cells : Find(h, c)
         PROVE  StageMoves(e)
    BY <1>1, <1>10 DEF SaveExisting, SaveNew, Ack, DeliveryDies, Find, dispatchVars, evalVars
  <1>11. CASE UNCHANGED vars
    BY <1>1, <1>11 DEF vars, dispatchVars, evalVars
  <1> QED
    BY <1>2, <1>3, <1>4, <1>5, <1>6, <1>7, <1>8, <1>9, <1>10, <1>11, NextCases
       DEF DispatchStep, HandlerStep, Failure

LEMMA FilledKept ==
  ASSUME Typed, PostInv, FilledInv, [Next]_vars
  PROVE  FilledInv'
  <1> SUFFICES ASSUME NEW e \in Evaluations, NEW c \in filled'[e] PROVE c[2] \in Mapped
    BY DEF FilledInv
  <1>1. CASE filled'[e] = filled[e]
    BY <1>1 DEF FilledInv
  <1>2. CASE Fill(e)
    <2>1. PICK src \in left[e] : filled' = [filled EXCEPT ![e] = filled[e] \union MappingsOf(e, src)]
      BY <1>2 DEF Fill
    <2>2. c \in filled[e] \/ c \in MappingsOf(e, src)
      BY <2>1 DEF Typed, DispatchType
    <2> QED BY <2>2 DEF FilledInv, MappingsOf
  <1>3. CASE Load(e) \/ Pair(e) \/ CreatePending(e)
    BY <1>1, <1>3 DEF Load, Pair, CreatePending
  <1> QED BY <1>1, <1>2, <1>3, StageSource DEF StageMoves, Standing

\* A cell is due from when its evaluation is posted, and keeps its rows.
LEMMA DueBefore ==
  ASSUME Typed, PostInv, InitialInv, [Next]_vars,
         NEW c \in Cells, Due(c)', dispatch[c[1]] # "none"
  PROVE  Due(c) /\ Keeps(results[c], results'[c]) /\ scope' = scope
  <1>1. CellsKept /\ c[1] \in Evaluations
    BY StepKeeps DEF Cells
  <1>2. scope' = scope /\ Source(c[3])' = Source(c[3])
    BY <1>1 DEF CellsKept, Source
  <1>3. covers'[c[1]] = covers[c[1]] /\ uses'[c[1]] \subseteq uses[c[1]]
    BY <1>1, StageSource DEF StageMoves
  <1>4. Known(c)
    BY <1>1 DEF Due, InitialInv, Known, PostInv
  <1>5. Alive(c) /\ Keeps(results[c], results'[c])
    BY <1>1, <1>4 DEF CellsKept, Due
  <1> QED BY <1>2, <1>3, <1>5 DEF Due

\* Posting reaches every cell it must not miss.
LEMMA ReachedKept ==
  ASSUME Typed, PostInv, SnapshotInv, [Next]_vars, NEW c \in Cells, Due(c)'
  PROVE  Reached(c)'
  <1>1. PICK e \in Evaluations : e = c[1]
    BY DEF Cells
  <1>2. /\ dispatch \in [Evaluations -> Stages]
        /\ left \in [Evaluations -> SUBSET Sources]
        /\ filled \in [Evaluations -> SUBSET Cells]
        /\ manual \in [Evaluations -> SUBSET Cells]
        /\ results \in [Cells -> Seq(ScoreResult)]
    BY DEF Typed, DispatchType, TableType
  <1>3. StageMoves(e) /\ scope' = scope /\ Source(c[3])' = Source(c[3])
    BY StageSource, StepKeeps DEF CellsKept, Source
  <1>4. CASE dispatch'[e] \in {"none", "load", "unmapped", "failed"}
    BY <1>1, <1>4 DEF Reached
  <1>5. CASE Load(e)
    <2>1. Source(c[3]) \in covers'[e] /\ covers' = covers
      BY <1>1, <1>3, <1>5 DEF Due, Load
    <2>2. left'[e] = covers[e]
      BY <1>2, <1>5 DEF Load
    <2>3. dispatch'[e] \in {"failed", "unmapped", "fill"}
      BY <1>2, <1>5, <2>1 DEF Load
    <2> QED BY <1>1, <1>3, <2>1, <2>2, <2>3 DEF Reached
  <1> DEFINE Before == /\ Due(c) /\ Reached(c)
                       /\ HasRow(c) => HasRow(c)'
                       /\ c[3] \in TargetsIn(Source(c[3]))
  <1>6. ASSUME dispatch[e] # "none" PROVE Before
    <2>1. Due(c) /\ Keeps(results[c], results'[c])
      BY <1>1, <1>6, DueBefore DEF SnapshotInv
    <2>2. c[3] \in TargetsIn(Source(c[3]))
      BY <2>1 DEF Due, Alive, TargetsIn
    <2> QED BY <2>1, <2>2 DEF SnapshotInv, Keeps, HasRow
  <1>7. CASE Standing(e)
    <2>1. CASE dispatch[e] = "none"
      BY <1>1, <1>7, <2>1 DEF Standing, Reached
    <2>2. CASE dispatch[e] # "none"
      <3>1. Before
        BY <1>6, <2>2
      <3>2. /\ Specs(e)' = Specs(e)
            /\ ManualScores(e, filled[e])' = ManualScores(e, filled[e])
        BY <1>7 DEF Standing, Specs, ManualScores
      <3> QED BY <1>1, <1>3, <1>7, <3>1, <3>2 DEF Standing, Reached
    <2> QED BY <2>1, <2>2
  <1>8. CASE Fill(e)
    <2>1. Before /\ dispatch[e] = "fill" /\ uses' = uses
      BY <1>6, <1>8 DEF Fill, evalVars
    <2>2. PICK src \in left[e] :
             LET F    == filled[e] \union MappingsOf(e, src)
                 rest == left[e] \ {src}
                 hand == ManualScores(e, F) # {}
             IN /\ filled' = [filled EXCEPT ![e] = F]
                /\ left' = [left EXCEPT ![e] = IF rest = {} /\ hand THEN covers[e] ELSE rest]
                /\ dispatch' = [dispatch EXCEPT ![e] =
                                  CASE rest # {}                     -> "fill"
                                    [] rest = {} /\ hand             -> "pair"
                                    [] rest = {} /\ ~hand /\ F # {}  -> "save"
                                    [] rest = {} /\ ~hand /\ F = {}  -> "done"]
      BY <1>8 DEF Fill
    <2> DEFINE F    == filled[e] \union MappingsOf(e, src)
               rest == left[e] \ {src}
               hand == ManualScores(e, F) # {}
    <2>3. /\ filled' = [filled EXCEPT ![e] = F]
          /\ left' = [left EXCEPT ![e] = IF rest = {} /\ hand THEN covers[e] ELSE rest]
          /\ dispatch' = [dispatch EXCEPT ![e] =
                            CASE rest # {}                     -> "fill"
                              [] rest = {} /\ hand             -> "pair"
                              [] rest = {} /\ ~hand /\ F # {}  -> "save"
                              [] rest = {} /\ ~hand /\ F = {}  -> "done"]
      BY <2>2
    <2>4. Source(c[3]) \notin rest /\ c[2] \in Mapped => c \in F
      <3>1. CASE Source(c[3]) \notin left[e]
        BY <1>1, <2>1, <3>1 DEF Reached
      <3>2. CASE Source(c[3]) = src
        <4>1. c[2] \in uses[e] /\ c[3] \in TargetsIn(src) /\ c = <<c[1], c[2], c[3]>>
          BY <1>1, <2>1, <3>2 DEF Due, Cells
        <4> QED BY <1>1, <4>1 DEF MappingsOf
      <3> QED BY <3>1, <3>2
    <2>5. \A d \in F : d[2] \in Mapped
      BY DEF SnapshotInv, FilledInv, MappingsOf
    <2>6. c[2] \notin ManualScores(e, F) => c[2] \in Mapped
      BY <1>1, <2>1, <2>5 DEF ManualScores, Due
    <2>7. filled'[e] = F /\ ManualScores(e, filled[e])' = ManualScores(e, F)
      <3>1. filled'[e] = F
        BY <1>2, <2>3
      <3> QED BY <2>1, <3>1 DEF ManualScores
    <2>8. hand <=> ManualScores(e, F) # {}
      OBVIOUS
    <2> HIDE DEF F, rest, hand
    <2>9. CASE rest # {}
      <3>1. dispatch'[e] = "fill" /\ left'[e] = rest
        BY <1>2, <2>3, <2>9
      <3> QED BY <1>1, <1>3, <2>4, <2>7, <3>1 DEF Reached
    <2>10. CASE rest = {} /\ hand
      <3>1. dispatch'[e] = "pair" /\ left'[e] = covers[e]
        BY <1>2, <2>3, <2>10
      <3>2. Source(c[3]) \in left'[e]
        BY <1>1, <2>1, <3>1 DEF Due
      <3>3. c[2] \notin ManualScores(e, filled[e])' => c \in filled'[e]
        BY <2>4, <2>6, <2>7, <2>10
      <3> QED BY <1>1, <1>3, <3>1, <3>2, <3>3 DEF Reached
    <2>11. CASE rest = {} /\ ~hand
      <3>1. c \in F
        BY <2>4, <2>6, <2>8, <2>11
      <3>2. dispatch'[e] = "save"
        BY <1>2, <2>3, <2>11, <3>1
      <3>3. c \in Specs(e)'
        BY <2>7, <3>1 DEF Specs
      <3> QED BY <1>1, <3>2, <3>3 DEF Reached
    <2> QED BY <2>9, <2>10, <2>11
  <1>9. CASE Pair(e)
    <2>1. Before /\ dispatch[e] = "pair" /\ uses' = uses /\ filled' = filled
      BY <1>6, <1>9 DEF Pair, evalVars
    <2>2. PICK src \in left[e] :
             LET M    == manual[e] \union ({e} \X ManualScores(e, filled[e]) \X TargetsIn(src))
                 rest == left[e] \ {src}
             IN /\ manual' = [manual EXCEPT ![e] = M]
                /\ left' = [left EXCEPT ![e] = rest]
                /\ dispatch' = [dispatch EXCEPT ![e] =
                                  CASE rest # {}                               -> "pair"
                                    [] rest = {} /\ filled[e] \union M # {}    -> "save"
                                    [] rest = {} /\ filled[e] \union M = {}    -> "done"]
      BY <1>9 DEF Pair
    <2> DEFINE M    == manual[e] \union ({e} \X ManualScores(e, filled[e]) \X TargetsIn(src))
               rest == left[e] \ {src}
               hand == c[2] \in ManualScores(e, filled[e])
    <2>3. /\ manual' = [manual EXCEPT ![e] = M]
          /\ left' = [left EXCEPT ![e] = rest]
          /\ dispatch' = [dispatch EXCEPT ![e] =
                            CASE rest # {}                               -> "pair"
                              [] rest = {} /\ filled[e] \union M # {}    -> "save"
                              [] rest = {} /\ filled[e] \union M = {}    -> "done"]
      BY <2>2
    <2>4. Source(c[3]) \notin rest /\ hand => c \in M
      <3>1. CASE Source(c[3]) \notin left[e]
        BY <1>1, <2>1, <3>1 DEF Reached
      <3>2. CASE Source(c[3]) = src
        <4>1. c[3] \in TargetsIn(src) /\ c = <<c[1], c[2], c[3]>>
          BY <2>1, <3>2 DEF Cells
        <4> QED BY <1>1, <4>1
      <3> QED BY <3>1, <3>2
    <2>5. ~hand => c \in filled[e]
      BY <1>1, <2>1 DEF Reached
    <2>6. ManualScores(e, filled[e])' = ManualScores(e, filled[e])
      BY <2>1 DEF ManualScores
    <2>7. /\ manual'[e] = M /\ left'[e] = rest /\ filled'[e] = filled[e]
          /\ (c[2] \in ManualScores(e, filled[e])') <=> hand
      BY <1>2, <2>1, <2>3, <2>6
    <2> HIDE DEF M, rest, hand
    <2>8. CASE rest # {}
      <3>1. dispatch'[e] = "pair"
        BY <1>2, <2>3, <2>8
      <3> QED BY <1>1, <1>3, <2>4, <2>5, <2>7, <3>1 DEF Reached
    <2>9. CASE rest = {}
      <3>1. c \in filled[e] \union M
        BY <2>4, <2>5, <2>9
      <3>2. dispatch'[e] = "save"
        BY <1>2, <2>3, <2>9, <3>1
      <3>3. c \in Specs(e)'
        BY <2>7, <3>1 DEF Specs
      <3> QED BY <1>1, <3>2, <3>3 DEF Reached
    <2> QED BY <2>8, <2>9
  <1>10. CASE CreatePending(e)
    <2>1. Before /\ dispatch[e] = "save"
      BY <1>6, <1>10 DEF CreatePending
    <2>2. CASE \A d \in Specs(e) : Alive(d)
      <3> DEFINE new == [status |-> "PENDING", row |-> TRUE]
      <3>1. c \in Specs(e) /\ new \in ScoreResult /\ new.row
        BY <1>1, <2>1 DEF Reached, ScoreResult
      <3>2. results'[c] = Append(results[c], new) /\ dispatch'[e] = "resolve"
        BY <1>2, <1>10, <2>2, <3>1 DEF CreatePending
      <3> HIDE DEF new
      <3>3. HasRow(c)'
        BY <1>2, <3>1, <3>2, AppendKeeps DEF HasRow
      <3> QED BY <1>1, <3>2, <3>3 DEF Reached
    <2>3. CASE ~ \A d \in Specs(e) : Alive(d)
      BY <1>2, <1>4, <1>10, <2>3 DEF CreatePending
    <2> QED BY <2>2, <2>3
  <1>11. CASE /\ dispatch[e] \in {"resolve", "publish"}
              /\ dispatch'[e] \in {"publish", "done"}
    <2>1. Before
      BY <1>6, <1>11
    <2>2. HasRow(c)'
      BY <1>1, <1>11, <2>1 DEF Reached
    <2> QED BY <1>1, <1>11, <2>2 DEF Reached
  <1> QED BY <1>3, <1>4, <1>5, <1>7, <1>8, <1>9, <1>10, <1>11 DEF StageMoves

\* When posting ends, every cell that was there to be scored from the start
\* and still is has a row: neither sources read twice, nor scores and targets
\* that come and go meanwhile make posting miss one.
THEOREM SnapshotScored == Spec => []SnapshotIsScored
  <1>1. Init => SnapshotInv
    <2> SUFFICES ASSUME Init PROVE SnapshotInv
      OBVIOUS
    <2>1. InitialInv /\ FilledInv
      BY DEF Init, InitialInv, FilledInv
    <2>2. \A c \in Cells : ~Due(c)
      BY DEF Init, Due, Alive
    <2> QED BY <2>1, <2>2 DEF SnapshotInv
  <1>2. IInv /\ OneInv /\ SnapshotInv /\ [Next]_vars => SnapshotInv'
    <2> SUFFICES ASSUME IInv, OneInv, SnapshotInv, [Next]_vars PROVE SnapshotInv'
      OBVIOUS
    <2>1. Typed /\ PostInv
      BY DEF IInv, OneInv
    <2>2. InitialInv' /\ FilledInv'
      BY <2>1, InitialKept, FilledKept DEF SnapshotInv
    <2>3. ASSUME NEW c \in Cells, Due(c)' PROVE Reached(c)'
      BY <2>1, <2>3, ReachedKept
    <2> QED BY <2>2, <2>3 DEF SnapshotInv
  <1>3. Spec => [](IInv /\ SnapshotInv)
    BY <1>1, <1>2, InvInit, InvNext, OneInit, OneNext, PTL DEF Spec
  <1>4. IInv /\ SnapshotInv => SnapshotIsScored
    <2> SUFFICES ASSUME IInv, SnapshotInv,
                        NEW e \in stored, dispatch[e] = "done",
                        NEW s \in uses[e] \intersect scores,
                        NEW t \in InitialTargets \intersect targets,
                        Source(t) \in covers[e]
                 PROVE  results[<<e, s, t>>] # <<>>
      BY DEF SnapshotIsScored
    <2>1. <<e, s, t>> \in Cells
      BY DEF IInv, Typed, EvalType, WorldType, Cells
    <2>2. PICK c \in Cells : c = <<e, s, t>>
      BY <2>1
    <2>3. c[1] = e /\ c[2] = s /\ c[3] = t
      BY <2>2
    <2>4. Due(c)
      BY <2>3 DEF Due, Alive
    <2>5. HasRow(c)
      BY <2>3, <2>4 DEF SnapshotInv, Reached
    <2> QED BY <2>2, <2>5 DEF HasRow
  <1> QED BY <1>3, <1>4, PTL

=============================================================================
