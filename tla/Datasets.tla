-------------------------------- MODULE Datasets --------------------------------
(***************************************************************************)
(* The datasets of a project: made with a header or imported from a CSV    *)
(* file in one transaction, renamed, removed with their rows, added to row *)
(* by row, and read page by page while all this goes on.                   *)
(***************************************************************************)
EXTENDS Naturals, FiniteSets, Sequences, SequencesExt

CONSTANTS
  Ids,        \* datasets ever made
  RowIds,     \* rows ever made: random, so in no order of their making
  Values,     \* what rows hold in the column a reader may sort by
  Headers,    \* headers people write: sequences of names, "" an empty one
  MaxRecords, \* bound: records of a file after its header
  BatchSize,  \* rows saved together by an import
  Limit       \* rows of a page

VARIABLES
  datasets,   \* rows of datasets
  rows,       \* rows of dataset_rows
  used,       \* identifiers given away
  saving,     \* the rename or the new row that has read its dataset
  import,     \* the transaction of an import
  logged,     \* history: datasets the audit log says were imported
  files,      \* history: of each dataset imported, the widths of its records
  lost,       \* history: imports that failed after they were logged
  removed,    \* history: datasets removed
  reader      \* who turns the pages of a dataset

datasetVars ==
  <<datasets, rows, used, saving, import, logged, files, lost, removed, reader>>

Dataset    == [id : Ids, header : Headers]
DatasetRow == [id : RowIds, of : Ids, width : Nat, value : Values]

Width(d) == Len(d.header)
RowsOf(id) == {r \in rows : r.of = id}
Fresh(ids) == ids \ used
Unread ==
  [id |-> 0, page |-> 0, sort |-> "id", total |-> 0, at |-> "done", began |-> {},
   seen |-> {}, again |-> FALSE, grew |-> FALSE, slipped |-> FALSE, gone |-> TRUE]
NoImport == [at |-> "none", id |-> 0, header |-> <<>>, records |-> <<>>, staged |-> {},
             batch |-> {}, widths |-> <<>>]

Init ==
  /\ datasets = {} /\ rows = {} /\ used = {}
  /\ saving = {} /\ import = NoImport
  /\ logged = {} /\ files = <<>> /\ lost = {} /\ removed = {}
  /\ reader = Unread

\* A reader is told of rows that come while it turns pages, or between the
\* count and the rows of a page.
Grown(id) ==
  IF id # reader.id \/ reader.at = "done" THEN reader
  ELSE [reader EXCEPT !.grew = TRUE, !.slipped = @ \/ reader.at = "counted"]

(***************************************************************************)
(* create, update, remove, upsertRow.  An update and a new row have read   *)
(* the dataset before, and do their work on that copy.                     *)
(***************************************************************************)
Create(id, header) ==
  /\ id \in Fresh(Ids) /\ header # <<>>
  /\ datasets' = datasets \cup {[id |-> id, header |-> header]}
  /\ used' = used \cup {id}
  /\ UNCHANGED <<rows, saving, import, logged, files, lost, removed, reader>>

Read(op) ==
  /\ saving = {}
  /\ \E d \in datasets : saving' = {[op |-> op, copy |-> d]}
  /\ UNCHANGED <<datasets, rows, used, import, logged, files, lost, removed, reader>>

\* A save of the copy inserts it again when the dataset is gone: without rows.
Update ==
  \E s \in saving :
    /\ s.op = "update"
    /\ datasets' = datasets \cup {s.copy}
    /\ saving' = {}
    /\ UNCHANGED <<rows, used, import, logged, files, lost, removed, reader>>

\* The removal reads the dataset too, and deletes by its identifier: nothing
\* that happens between the two changes what it does.
RemoveDataset(id) ==
  /\ \E d \in datasets : d.id = id
  /\ datasets' = {d \in datasets : d.id # id}
  /\ rows' = rows \ RowsOf(id)
  /\ removed' = removed \cup {id}
  /\ reader' = IF id = reader.id THEN [reader EXCEPT !.gone = TRUE] ELSE reader
  /\ UNCHANGED <<used, saving, import, logged, files, lost>>

\* Mutant: the width of the new row is not compared with the header.
FitsAnyway(width, d) == width # 0

\* The body has as many values as the header has names.
Fits(width, d) == width = Width(d)

\* The foreign key refuses a row of a dataset that is gone.
UpsertRow(width, value) ==
  \E s \in saving :
    /\ s.op = "row"
    /\ saving' = {}
    /\ IF Fits(width, s.copy) /\ s.copy \in datasets
         THEN \E r \in Fresh(RowIds) :
                /\ rows' = rows \cup {[id |-> r, of |-> s.copy.id, width |-> width,
                                       value |-> value]}
                /\ used' = used \cup {r}
                /\ reader' = Grown(s.copy.id)
         ELSE UNCHANGED <<rows, used, reader>>
    /\ UNCHANGED <<datasets, import, logged, files, lost, removed>>

(***************************************************************************)
(* createFromCsv: records are read one by one, the first is the header,    *)
(* rows are saved a batch at a time, and the last batch, the audit event   *)
(* and the commit follow.  The event is written outside the transaction.   *)
(***************************************************************************)
\* Mutant: repeated names go unnoticed.
ValidHeaderRepeated(header) ==
  /\ header # <<>>
  /\ \A i \in DOMAIN header : header[i] # ""

ValidHeader(header) ==
  /\ header # <<>>
  /\ \A i \in DOMAIN header : header[i] # ""
  /\ \A i, j \in DOMAIN header : header[i] = header[j] => i = j

\* The transaction is opened and the first record, if there is one, read.
BeginImport(id, header, records) ==
  /\ import = NoImport /\ id \in Fresh(Ids)
  /\ IF ValidHeader(header)
       THEN /\ import' = [at |-> "reading", id |-> id, header |-> header,
                          records |-> records, staged |-> {}, batch |-> {},
                          widths |-> records]
            /\ used' = used \cup {id}
       ELSE UNCHANGED <<import, used>>
  /\ UNCHANGED <<datasets, rows, saving, logged, files, lost, removed, reader>>

\* Mutant: a batch is saved by a connection of its own, not by the transaction's.
SaveBatchOutside ==
  /\ import.at = "reading" /\ Cardinality(import.batch) = BatchSize
  /\ rows' = rows \cup import.batch
  /\ import' = [import EXCEPT !.batch = {}]
  /\ UNCHANGED <<datasets, used, saving, logged, files, lost, removed, reader>>

SaveBatch ==
  /\ import.at = "reading" /\ Cardinality(import.batch) = BatchSize
  /\ import' = [import EXCEPT !.staged = @ \cup import.batch, !.batch = {}]
  /\ UNCHANGED <<datasets, rows, used, saving, logged, files, lost, removed, reader>>

\* The parser and the loop both refuse a record of another width than the header.
ReadRecord(value) ==
  /\ import.at = "reading" /\ import.records # <<>>
  /\ Cardinality(import.batch) < BatchSize
  /\ Head(import.records) = Len(import.header)
  /\ \E r \in Fresh(RowIds) :
       /\ import' = [import EXCEPT !.records = Tail(@),
            !.batch = @ \cup {[id |-> r, of |-> import.id,
                               width |-> Head(import.records), value |-> value]}]
       /\ used' = used \cup {r}
  /\ UNCHANGED <<datasets, rows, saving, logged, files, lost, removed, reader>>

Rollback ==
  /\ import' = NoImport
  /\ UNCHANGED <<datasets, rows, used, saving, logged, files, removed, reader>>

RefuseRecord ==
  /\ import.at = "reading" /\ import.records # <<>>
  /\ Cardinality(import.batch) < BatchSize
  /\ Head(import.records) # Len(import.header)
  /\ Rollback /\ UNCHANGED lost

\* The last batch is saved; the audit sink may fail, and nobody is told.
RecordImport ==
  /\ import.at = "reading" /\ import.records = <<>>
  /\ Cardinality(import.batch) < BatchSize
  /\ import' = [import EXCEPT !.at = "recorded", !.staged = @ \cup import.batch, !.batch = {}]
  /\ logged' \in {logged, logged \cup {import.id}}
  /\ UNCHANGED <<datasets, rows, used, saving, files, lost, removed, reader>>

Commit ==
  /\ import.at = "recorded"
  /\ datasets' = datasets \cup {[id |-> import.id, header |-> import.header]}
  /\ rows' = rows \cup import.staged
  /\ files' = [i \in DOMAIN files \cup {import.id} |->
                IF i = import.id THEN import.widths ELSE files[i]]
  /\ import' = NoImport
  /\ UNCHANGED <<used, saving, logged, lost, removed, reader>>

\* The database fails or the process ends: the transaction is rolled back.
FailImport ==
  /\ import # NoImport
  /\ lost' = IF import.at = "recorded" THEN lost \cup {import.id} ELSE lost
  /\ Rollback

(***************************************************************************)
(* exportToCsvStream: one read, and every row cut or padded to the header. *)
(***************************************************************************)
Exported(d) == [header |-> d.header, widths |-> {r.width : r \in RowsOf(d.id)}]

(***************************************************************************)
(* findOnePaginated: the dataset, the count, then the rows of the page.    *)
(***************************************************************************)
\* Mutant: the rows are asked for in no order.
InOrderNone(s, sort) == s = s

InOrder(s, sort) ==
  \A i, j \in DOMAIN s :
    i < j => IF sort = "id" THEN s[i].id < s[j].id ELSE s[i].value <= s[j].value

Lists(set) == {s \in [1 .. Cardinality(set) -> set] : \A i, j \in DOMAIN s : s[i] = s[j] => i = j}

BeginReading(sort) ==
  /\ reader = Unread
  /\ \E d \in datasets :
       reader' = [Unread EXCEPT !.id = d.id, !.at = "turning", !.sort = sort,
                                !.began = RowsOf(d.id), !.gone = FALSE]
  /\ UNCHANGED <<datasets, rows, used, saving, import, logged, files, lost, removed>>

CountRows ==
  /\ reader.at = "turning"
  /\ reader' = IF \E d \in datasets : d.id = reader.id
                 THEN [reader EXCEPT !.at = "counted", !.page = @ + 1,
                                     !.total = Cardinality(RowsOf(reader.id))]
                 ELSE [reader EXCEPT !.at = "done", !.gone = TRUE]
  /\ UNCHANGED <<datasets, rows, used, saving, import, logged, files, lost, removed>>

\* Mutant: the last page is thought to be the last but one.
HasNextEarly(page, total) == (page + 1) * Limit < total

HasNext(page, total) == page * Limit < total

ShowPage ==
  /\ reader.at = "counted"
  /\ \E s \in {l \in Lists(RowsOf(reader.id)) : InOrder(l, reader.sort)} :
       LET skip  == (reader.page - 1) * Limit
           shown == {s[i] : i \in {k \in DOMAIN s : skip < k /\ k <= skip + Limit}}
       IN reader' = [reader EXCEPT
            !.seen = @ \cup shown, !.again = @ \/ shown \cap reader.seen # {},
            !.at = IF HasNext(reader.page, reader.total) THEN "turning" ELSE "done"]
  /\ UNCHANGED <<datasets, rows, used, saving, import, logged, files, lost, removed>>

Next ==
  \/ \E id \in Ids, h \in Headers : Create(id, h)
  \/ \E op \in {"update", "row"} : Read(op)
  \/ Update \/ \E id \in Ids : RemoveDataset(id)
  \/ \E w \in {Len(h) : h \in Headers}, v \in Values : UpsertRow(w, v)
  \/ \E id \in Ids, h \in Headers, n \in 0 .. MaxRecords :
       \E records \in [1 .. n -> {Len(g) : g \in Headers}] : BeginImport(id, h, records)
  \/ \E v \in Values : ReadRecord(v)
  \/ SaveBatch \/ RefuseRecord \/ RecordImport \/ Commit \/ FailImport
  \/ \E sort \in {"id", "column"} : BeginReading(sort)
  \/ CountRows \/ ShowPage

Spec == Init /\ [][Next]_datasetVars

-----------------------------------------------------------------------------
TypeOK ==
  /\ datasets \subseteq Dataset /\ rows \subseteq DatasetRow
  /\ used \subseteq Ids \cup RowIds
  /\ Cardinality(saving) <= 1
  /\ removed \subseteq Ids /\ logged \subseteq Ids /\ lost \subseteq Ids

\* Every row belongs to a dataset that is there and fits its header, although
\* datasets are removed and come back while rows are on their way.
RowsFitTheHeader ==
  \A r \in rows : \E d \in datasets : d.id = r.of /\ r.width = Width(d)

\* So an export cuts and pads nothing, and can be imported when the header can.
ExportsFit ==
  \A d \in datasets : Exported(d).widths \subseteq {Width(d)}

(***************************************************************************)
(* An import is seen whole or not at all: until its commit nobody finds    *)
(* its dataset or a row of it, and afterwards every record of the file has *)
(* a row, until the dataset is removed.                                    *)
(***************************************************************************)
ImportIsWhole ==
  /\ \A id \in DOMAIN files \ removed :
       /\ \E d \in datasets : d.id = id
       /\ Cardinality(RowsOf(id)) >= Len(files[id])
  /\ import # NoImport =>
       RowsOf(import.id) = {} /\ \A d \in datasets : d.id # import.id

\* The names of an imported header are distinct and not empty.
ImportedNamesDiffer ==
  \A d \in datasets : d.id \in DOMAIN files =>
    Cardinality(ToSet(d.header)) = Len(d.header) /\ "" \notin ToSet(d.header)

\* An import in the audit log was made, or is about to commit, or failed then.
LoggedImportsExist ==
  \A id \in logged :
    id \in DOMAIN files \/ id \in lost \/ (import.at = "recorded" /\ import.id = id)

(***************************************************************************)
(* Who turns the pages to the last sees every row that was there at the    *)
(* start, although rows are added all the time: unless the dataset is      *)
(* removed, a row comes between the count and the rows of a page, or the   *)
(* pages are sorted by a column in which rows are equal.  Nor is a row     *)
(* shown twice when none was added.                                        *)
(***************************************************************************)
Distinct == \A r, q \in rows : r.of = q.of /\ r.value = q.value => r = q
Reliable == ~reader.gone /\ (reader.sort = "id" \/ Distinct)

PagesShowEveryRow ==
  reader.at = "done" /\ Reliable =>
    /\ reader.slipped \/ reader.began \subseteq reader.seen
    /\ reader.grew \/ ~reader.again

DatasetSafety ==
  /\ TypeOK /\ RowsFitTheHeader /\ ExportsFit /\ ImportIsWhole /\ ImportedNamesDiffer
  /\ LoggedImportsExist /\ PagesShowEveryRow
=============================================================================
