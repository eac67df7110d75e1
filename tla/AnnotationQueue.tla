---------------------------- MODULE AnnotationQueue ----------------------------
(***************************************************************************)
(* A queue of traces to annotate (one of conversations has the same        *)
(* operations, its key has the conversation's configuration too).  The     *)
(* answers of an annotation are replaced by a DELETE and a save of the     *)
(* annotation read before, which reads the answers that are there and then *)
(* inserts, in calls of their own; an answer that was there and is not the *)
(* request's would lose its annotation, and the save is refused.           *)
(***************************************************************************)
EXTENDS Naturals, FiniteSets, Functions, SequencesExt

CONSTANTS
  Requests,      \* requests under way at a time
  Items,         \* traces
  Sources,       \* data sources; "null" when the source was deleted
  MaxRows,       \* bound: queued traces are 1 .. MaxRows
  MaxNotes,      \* bound: annotations are 1 .. MaxNotes
  MaxCalls       \* bound: requests in all

VARIABLES
  queued,      \* the queued traces: row -> item and source
  notes,       \* the annotations: annotation -> its row
  answers,     \* the answers: pairs of an annotation and the call that gave it
  template,    \* the template of the queue; 0 when the queue is deleted
  sources,     \* data sources that exist
  given,       \* rows, annotations, templates and calls so far
  asking,      \* what each request holds
  accepted,    \* history: the call whose answers each annotation took last
  disturbed    \* history: annotations whose update failed midway, or met another

annotationVars ==
  <<queued, notes, answers, template, sources, given, asking, accepted, disturbed>>

Idle == [pc |-> "idle", call |-> 0, row |-> 0, note |-> 0, item |-> "none", source |-> "none",
         bulk |-> <<>>, template |-> 0, found |-> {}]

Init ==
  /\ queued = <<>>
  /\ notes = <<>>
  /\ answers = {}
  /\ template = 1
  /\ sources = Sources
  /\ given = [rows |-> 0, notes |-> 0, templates |-> 1, calls |-> 0]
  /\ asking = [r \in Requests |-> Idle]
  /\ accepted = [n \in 1 .. MaxNotes |-> 0]
  /\ disturbed = {}

others == <<template, sources, accepted, disturbed>>

At(r, pc) == asking[r].pc = pc
Goto(r, to) == asking' = [asking EXCEPT ![r] = to]

\* A call comes in and QueueBelongsToProjectGuard finds the queue.
Call(r, request) ==
  /\ At(r, "idle")
  /\ template # 0
  /\ given.calls < MaxCalls
  /\ Goto(r, [request EXCEPT !.call = given.calls + 1])
  /\ given' = [given EXCEPT !.calls = @ + 1]
  /\ UNCHANGED <<queued, notes, answers, others>>

\* UNIQUE (queue, trace, datasource): a null equals nothing.
IsDuplicateNever(item, source) == FALSE
IsDuplicate(item, source) ==
  \E q \in DOMAIN queued : queued[q] = [item |-> item, source |-> source] /\ source # "null"

\* Rows for the items, each numbered by its place in the request, unless the
\* queue or the source is gone.
SaveRows(r, items, source) ==
  LET added == {given.rows + i : i \in DOMAIN items}
  IN /\ added \subseteq 1 .. MaxRows
     /\ IF \/ template = 0 \/ source \notin sources
           \/ ~IsInjective(items) \/ \E i \in DOMAIN items : IsDuplicate(items[i], source)
        THEN UNCHANGED <<queued, given>>
        ELSE /\ queued' = [q \in DOMAIN queued \union added |->
                            IF q \in DOMAIN queued THEN queued[q]
                            ELSE [item |-> items[q - given.rows], source |-> source]]
             /\ given' = [given EXCEPT !.rows = Max({@} \union added)]
     /\ Goto(r, Idle)
     /\ UNCHANGED <<notes, answers, others>>

\* What goes when rows go: their annotations and the answers of these.
DropRows(gone) ==
  LET lost == {n \in DOMAIN notes : notes[n] \in gone} IN
  /\ queued' = Restrict(queued, DOMAIN queued \ gone)
  /\ notes' = Restrict(notes, DOMAIN notes \ lost)
  /\ answers' = {a \in answers : a.note \notin lost}

-----------------------------------------------------------------------------
(***************************************************************************)
(* The rows of the queue.                                                  *)
(***************************************************************************)
AddTrace(r, item, source) ==
  Call(r, [Idle EXCEPT !.pc = "exists", !.item = item, !.source = source])

Exists(r) ==
  LET asked == [item |-> asking[r].item, source |-> asking[r].source] IN
  /\ At(r, "exists")
  /\ Goto(r, IF asked \in Range(queued) THEN Idle ELSE [asking[r] EXCEPT !.pc = "saveRow"])
  /\ UNCHANGED <<queued, notes, answers, given, others>>

SaveRow(r) ==
  /\ At(r, "saveRow")
  /\ SaveRows(r, <<asking[r].item>>, asking[r].source)

AddTraces(r, items, source) ==
  Call(r, [Idle EXCEPT !.pc = "findExisting", !.bulk = items, !.source = source])

\* Those that are there already are skipped ...
FindExisting(r) ==
  LET here == {queued[q].item : q \in {p \in DOMAIN queued : queued[p].source = asking[r].source}} IN
  /\ At(r, "findExisting")
  /\ Goto(r, [asking[r] EXCEPT !.pc = "saveRows",
                               !.bulk = Restrict(@, {i \in DOMAIN @ : @[i] \notin here})])
  /\ UNCHANGED <<queued, notes, answers, given, others>>

\* ... and the rest is saved, all or none.
SaveBulk(r) ==
  /\ At(r, "saveRows")
  /\ SaveRows(r, asking[r].bulk, asking[r].source)

\* By the identifier of the row, or by that of the trace: then any row of it.
RemoveTrace(r) ==
  \/ \E q \in DOMAIN queued : Call(r, [Idle EXCEPT !.pc = "findRow", !.row = q])
  \/ \E item \in Items : Call(r, [Idle EXCEPT !.pc = "findRow", !.item = item])

FindRow(r) ==
  LET rows == {q \in DOMAIN queued : q = asking[r].row \/ queued[q].item = asking[r].item} IN
  /\ At(r, "findRow")
  /\ \/ rows = {} /\ Goto(r, Idle)
     \/ \E q \in rows : Goto(r, [asking[r] EXCEPT !.pc = "removeRow", !.row = q])
  /\ UNCHANGED <<queued, notes, answers, given, others>>

RemoveRow(r) ==
  /\ At(r, "removeRow")
  /\ DropRows({asking[r].row})
  /\ Goto(r, Idle)
  /\ UNCHANGED <<given, others>>

\* ON DELETE SET NULL: the rows of the source stay.
DeleteSource(source) ==
  /\ source \in sources
  /\ sources' = sources \ {source}
  /\ queued' = [q \in DOMAIN queued |->
                  IF queued[q].source = source THEN [queued[q] EXCEPT !.source = "null"] ELSE queued[q]]
  /\ UNCHANGED <<notes, answers, template, given, asking, accepted, disturbed>>

-----------------------------------------------------------------------------
(***************************************************************************)
(* The queue and its template.                                             *)
(***************************************************************************)
\* Questions are never changed: an update makes a template of new ones, and
\* the old one stays for the sake of the answers.
Update(r) == Call(r, [Idle EXCEPT !.pc = "findQueue"])

CreateTemplate(r) ==
  /\ At(r, "findQueue")
  /\ IF template = 0 THEN Goto(r, Idle) /\ UNCHANGED given
     ELSE /\ Goto(r, [asking[r] EXCEPT !.pc = "saveQueue", !.template = given.templates + 1])
          /\ given' = [given EXCEPT !.templates = @ + 1]
  /\ UNCHANGED <<queued, notes, answers, others>>

\* The queue that was removed meanwhile is inserted again, empty.
SaveQueue(r) ==
  /\ At(r, "saveQueue")
  /\ template' = asking[r].template
  /\ Goto(r, Idle)
  /\ UNCHANGED <<queued, notes, answers, sources, given, accepted, disturbed>>

RemoveQueue ==
  /\ template # 0
  /\ template' = 0
  /\ DropRows(DOMAIN queued)
  /\ UNCHANGED <<sources, given, asking, accepted, disturbed>>

-----------------------------------------------------------------------------
(***************************************************************************)
(* The annotations.                                                        *)
(***************************************************************************)
\* AnnotationValidator, and the row is read.
CreateAnnotation(r) ==
  \E q \in DOMAIN queued : Call(r, [Idle EXCEPT !.pc = "saveNote", !.row = q])

\* UNIQUE (trace): one annotation of a row.  A question that does not exist,
\* or the row being gone, is an error of the save.
SaveAnnotation(r) ==
  LET n == given.notes + 1 IN
  /\ At(r, "saveNote")
  /\ n <= MaxNotes
  /\ \/ /\ asking[r].row \in DOMAIN queued
        /\ asking[r].row \notin Range(notes)
        /\ notes' = [m \in DOMAIN notes \union {n} |-> IF m = n THEN asking[r].row ELSE notes[m]]
        /\ answers' = answers \union {[note |-> n, call |-> asking[r].call]}
        /\ accepted' = [accepted EXCEPT ![n] = asking[r].call]
        /\ given' = [given EXCEPT !.notes = n]
     \/ UNCHANGED <<notes, answers, accepted, given>>
  /\ Goto(r, Idle)
  /\ UNCHANGED <<queued, template, sources, disturbed>>

\* AnnotationBelongsToQueueGuard, and the annotation is read with its answers.
UpdateAnnotation(r) ==
  \E n \in DOMAIN notes : Call(r, [Idle EXCEPT !.pc = "delete", !.note = n, !.row = notes[n]])

Midway(n) == {r \in Requests : asking[r].note = n /\ asking[r].pc \in {"load", "write"}}

\* Mutant: the annotation is missing from the condition.
DeleteAllAnswers(r) ==
  /\ At(r, "delete")
  /\ answers' = {}
  /\ Goto(r, [asking[r] EXCEPT !.pc = "load"])
  /\ UNCHANGED <<queued, notes, given, others>>

DeleteAnswers(r) ==
  LET n == asking[r].note IN
  /\ At(r, "delete")
  /\ answers' = {a \in answers : a.note # n}
  /\ disturbed' = IF Midway(n) = {} THEN disturbed ELSE disturbed \union {n}
  /\ Goto(r, [asking[r] EXCEPT !.pc = "load"])
  /\ UNCHANGED <<queued, notes, template, sources, given, accepted>>

LoadAnswers(r) ==
  LET n == asking[r].note IN
  /\ At(r, "load")
  /\ Goto(r, [asking[r] EXCEPT !.pc = "write", !.found = {a \in answers : a.note = n}])
  /\ UNCHANGED <<queued, notes, answers, given, others>>

\* An annotation removed meanwhile is inserted again, if its row is there and
\* has no other.  The deletion is not undone when the save is refused: so when
\* a question does not exist, or the process ends.
WriteAnswers(r) ==
  LET n == asking[r].note IN
  /\ At(r, "write")
  /\ \/ /\ asking[r].found = {}
        /\ asking[r].row \in DOMAIN queued
        /\ \A m \in DOMAIN notes \ {n} : notes[m] # asking[r].row
        /\ notes' = [m \in DOMAIN notes \union {n} |-> IF m = n THEN asking[r].row ELSE notes[m]]
        /\ answers' = answers \union {[note |-> n, call |-> asking[r].call]}
        /\ accepted' = [accepted EXCEPT ![n] = asking[r].call]
        /\ UNCHANGED disturbed
     \/ /\ disturbed' = disturbed \union {n}
        /\ UNCHANGED <<notes, answers, accepted>>
  /\ Goto(r, Idle)
  /\ UNCHANGED <<queued, template, sources, given>>

RemoveAnnotation(r) ==
  \E n \in DOMAIN notes : Call(r, [Idle EXCEPT !.pc = "removeNote", !.note = n])

RemoveNote(r) ==
  /\ At(r, "removeNote")
  /\ notes' = Restrict(notes, DOMAIN notes \ {asking[r].note})
  /\ answers' = {a \in answers : a.note # asking[r].note}
  /\ Goto(r, Idle)
  /\ UNCHANGED <<queued, given, others>>

Next ==
  \/ RemoveQueue
  \/ \E s \in Sources : DeleteSource(s)
  \/ \E r \in Requests :
       \/ \E item \in Items, s \in sources : AddTrace(r, item, s)
       \/ \E i, j \in Items, s \in sources : AddTraces(r, <<i, j>>, s)
       \/ Exists(r) \/ SaveRow(r) \/ FindExisting(r) \/ SaveBulk(r)
       \/ RemoveTrace(r) \/ FindRow(r) \/ RemoveRow(r)
       \/ Update(r) \/ CreateTemplate(r) \/ SaveQueue(r)
       \/ CreateAnnotation(r) \/ SaveAnnotation(r)
       \/ UpdateAnnotation(r) \/ DeleteAnswers(r) \/ LoadAnswers(r) \/ WriteAnswers(r)
       \/ RemoveAnnotation(r) \/ RemoveNote(r)

Spec == Init /\ [][Next]_annotationVars

-----------------------------------------------------------------------------
(***************************************************************************)
(* Properties.                                                             *)
(***************************************************************************)
TypeOK ==
  /\ DOMAIN queued \subseteq 1 .. MaxRows
  /\ \A q \in DOMAIN queued : queued[q].item \in Items /\ queued[q].source \in sources \union {"null"}
  /\ DOMAIN notes \subseteq 1 .. MaxNotes
  /\ \A n \in DOMAIN notes : notes[n] \in DOMAIN queued
  /\ IsInjective(notes)
  /\ \A a \in answers : a.note \in DOMAIN notes /\ a.call \in 1 .. MaxCalls
  /\ template \in 0 .. given.templates
  /\ sources \subseteq Sources

\* An annotation has the answers of the call that was accepted last, and no
\* others, unless an update of it is under way, failed after it had deleted
\* the answers, or met another update.
AnswersAreKept ==
  \A n \in DOMAIN notes \ disturbed :
    Midway(n) = {} => {a.call : a \in {b \in answers : b.note = n}} = {accepted[n]}

\* A trace is queued once as long as its source exists, whoever adds it
\* together with whom.
QueuedOnce ==
  \A p, q \in DOMAIN queued : queued[p] = queued[q] /\ p # q => queued[p].source = "null"

\* The answers accepted last are those of the annotation, and traces are
\* queued once.
AnnotationSafety == TypeOK /\ AnswersAreKept /\ QueuedOnce
=============================================================================
