------------------------------- MODULE TraceSearch -------------------------------
(***************************************************************************)
(* Traces and conversations of a project, read from Tempo, ClickHouse,     *)
(* Jaeger or a custom API: what a search finds, what opens by identifier,  *)
(* which conversations are listed and what they hold, each under the       *)
(* project's filter.  Every operation treats each trace by itself, so one  *)
(* trace stands for all; other traces only crowd it out of short answers.  *)
(* The trace grows, and the project's filter is changed, meanwhile.        *)
(***************************************************************************)
EXTENDS Naturals, FiniteSets, Sequences, SequencesExt

CONSTANTS
  Sources,    \* data sources a project may have: kinds and capabilities
  Rows,       \* spans a trace may have, with the attributes of their resources
  MaxRows     \* bound: spans of the trace

VARIABLES
  source,     \* the data source
  stitching,  \* the attributes a conversation is stitched by, in order
  trace,      \* the spans stored of the trace, by time
  filter,     \* does the project filter traces?
  request,    \* the request under way
  answer,     \* the answer just given
  known       \* history: one of the operations that showed the trace under this filter

traceVars == <<source, stitching, trace, filter, request, answer, known>>

(***************************************************************************)
(* An attribute is a mark: "project" is the one the project filters by,    *)
(* with its value; "chat" and "user" are attributes conversations are      *)
(* stitched by, both with the value of one conversation.  A span of the    *)
(* service called jaeger is Jaeger's own.                                  *)
(***************************************************************************)
Marks   == {"project", "chat", "user"}
Span    == [resource : SUBSET Marks, span : SUBSET Marks, own : BOOLEAN]
At(row) == row.resource \cup row.span
Stored  == ToSet(trace)
All(rows)     == UNION {At(row) : row \in rows}
InSpans(rows) == UNION {row.span : row \in rows}
Stitched == ToSet(stitching)

Kinds == {"tempo", "clickhouse", "jaeger", "custom"}
Source == [kind : Kinds, byQuery : BOOLEAN, byAttributes : BOOLEAN, byExistence : BOOLEAN]

\* What is asked of a backend: the alternatives of q in the order they are
\* written, a condition on the same span that the last of them is joined by,
\* attributes all of which must be there, those one of which must exist, and
\* whether the answer is cut at twenty traces.
Query == [any : Seq(Marks), also : SUBSET Marks, all : SUBSET Marks,
          exists : SUBSET Marks, short : BOOLEAN]
Everything == [any |-> <<>>, also |-> {}, all |-> {}, exists |-> {}, short |-> TRUE]

-----------------------------------------------------------------------------
(***************************************************************************)
(* TraceFilterUtil.                                                        *)
(***************************************************************************)
\* Mutant: resources are not looked at.
KeepsFullSpans(rows, filtered) == filtered => "project" \in InSpans(rows)

KeepsFull(rows, filtered) == filtered => "project" \in All(rows)

KeepsSummary(attributes, filtered) == filtered => "project" \in attributes

-----------------------------------------------------------------------------
(***************************************************************************)
(* Tempo: the filter is written after q with an &&, and then attributes    *)
(* are dropped, or it joins the attributes, which Tempo takes for tags of  *)
(* one span (external).  && binds tighter than ||: of the alternatives of  *)
(* q, the filter joins the last alone.                                     *)
(***************************************************************************)
\* Mutant: a search by q is not filtered.
TempoMergedAttributes(query, filtered) ==
  IF filtered /\ query.any = <<>> THEN [query EXCEPT !.all = @ \cup {"project"}] ELSE query

TempoMerged(query, filtered) ==
  IF ~filtered THEN query
  ELSE IF query.any # <<>> THEN [query EXCEPT !.also = {"project"}, !.all = {}]
  ELSE [query EXCEPT !.all = @ \cup {"project"}]

TempoFinds(query, filtered) ==
  LET merged == TempoMerged(query, filtered)
      last   == Len(merged.any)
  IN \E row \in Stored :
       /\ merged.all \subseteq At(row)
       /\ last > 0 => \E i \in 1..last :
            merged.any[i] \in row.span /\ (i = last => merged.also \subseteq At(row))

TempoOpens(filtered) == trace # <<>> /\ KeepsFull(Stored, filtered)

-----------------------------------------------------------------------------
(***************************************************************************)
(* ClickHouse: conditions on a row of the table; a trace is put together   *)
(* with the resource of its first row alone.                               *)
(***************************************************************************)
\* Mutant: the filter replaces the attributes asked for only when there are none.
ClickHouseMergedAsked(query, filtered) ==
  IF filtered /\ query.all = {} /\ query.any = <<>> THEN [query EXCEPT !.all = {"project"}] ELSE query

ClickHouseMerged(query, filtered) ==
  IF filtered THEN [query EXCEPT !.all = @ \cup {"project"}] ELSE query

ClickHouseFinds(query, filtered) ==
  LET merged == ClickHouseMerged(query, filtered)
  IN \E row \in Stored :
       /\ merged.any # <<>> => ToSet(merged.any) \cap At(row) # {}
       /\ merged.all \subseteq At(row)

ClickHouseTrace ==
  {IF i = 1 THEN trace[i] ELSE [trace[i] EXCEPT !.resource = {}] : i \in 1..Len(trace)}

ClickHouseOpens(filtered) == trace # <<>> /\ KeepsFull(ClickHouseTrace, filtered)

-----------------------------------------------------------------------------
(***************************************************************************)
(* Jaeger: q is not sent and attributes are refused; summaries hold the    *)
(* attributes of resources and spans, and are filtered here.               *)
(***************************************************************************)
JaegerTrace == {row \in Stored : ~row.own}

JaegerRefuses(query) == query.all # {}

JaegerFinds(filtered) ==
  JaegerTrace # {} /\ KeepsSummary(All(JaegerTrace), filtered)

JaegerOpens(filtered) == trace # <<>> /\ KeepsFull(JaegerTrace, filtered)

-----------------------------------------------------------------------------
(***************************************************************************)
(* A custom API says what it can do: the filter is sent as an attribute to *)
(* one that searches by attributes, and applied to the summaries of one    *)
(* that does not.  That every attribute sent must be found in the trace,   *)
(* and that summaries hold the attributes of spans, is external.           *)
(***************************************************************************)
CustomMerged(query, filtered) ==
  IF filtered /\ source.byAttributes THEN [query EXCEPT !.all = @ \cup {"project"}] ELSE query

CustomRefuses(query) ==
  \/ query.any # <<>> /\ ~source.byQuery
  \/ query.all # {} /\ ~source.byAttributes
  \/ query.exists # {} /\ ~source.byExistence

CustomFinds(query, filtered) ==
  LET merged == CustomMerged(query, filtered)
  IN /\ trace # <<>>
     /\ merged.any # <<>> => ToSet(merged.any) \cap All(Stored) # {}
     /\ merged.exists # {} => merged.exists \cap All(Stored) # {}
     /\ merged.all \subseteq All(Stored)
     /\ source.byAttributes \/ KeepsSummary(InSpans(Stored), filtered)

CustomOpens(filtered) == trace # <<>> /\ KeepsFull(Stored, filtered)

-----------------------------------------------------------------------------
(***************************************************************************)
(* The repository of the data source's kind.                               *)
(***************************************************************************)
Refuses(query) ==
  \/ source.kind = "jaeger" /\ JaegerRefuses(query)
  \/ source.kind = "custom" /\ CustomRefuses(query)

Finds(query, filtered) ==
  CASE source.kind = "tempo"      -> TempoFinds(query, filtered)
    [] source.kind = "clickhouse" -> ClickHouseFinds(query, filtered)
    [] source.kind = "jaeger"     -> JaegerFinds(filtered)
    [] source.kind = "custom"     -> CustomFinds(query, filtered)

Opens(filtered) ==
  CASE source.kind = "tempo"      -> TempoOpens(filtered)
    [] source.kind = "clickhouse" -> ClickHouseOpens(filtered)
    [] source.kind = "jaeger"     -> JaegerOpens(filtered)
    [] source.kind = "custom"     -> CustomOpens(filtered)

(***************************************************************************)
(* Conversations.  A list is made of what the summaries show of the        *)
(* stitching attributes; Jaeger's summaries have no tags, which is where   *)
(* its lists look for them.  ClickHouse lists by a query of its own.       *)
(***************************************************************************)
ListQuery ==
  CASE source.kind = "tempo" -> [Everything EXCEPT !.any = stitching, !.short = FALSE]
    [] source.kind = "custom" /\ source.byExistence ->
         [Everything EXCEPT !.exists = Stitched, !.short = FALSE]
    [] OTHER -> [Everything EXCEPT !.short = FALSE]

TempoLists(filtered) == TempoFinds(ListQuery, filtered)

ClickHouseLists(filtered) ==
  \E row \in Stored :
    Stitched \cap At(row) # {} /\ (filtered => "project" \in At(row))

JaegerLists(filtered) == FALSE

CustomLists(filtered) ==
  CustomFinds(ListQuery, filtered) /\ Stitched \cap InSpans(Stored) # {}

Lists(filtered) ==
  CASE source.kind = "tempo"      -> TempoLists(filtered)
    [] source.kind = "clickhouse" -> ClickHouseLists(filtered)
    [] source.kind = "jaeger"     -> JaegerLists(filtered)
    [] source.kind = "custom"     -> CustomLists(filtered)

\* Mutant: every attribute must have the value.
ConversationQueryAll ==
  [Everything EXCEPT !.all = Stitched, !.short = source.kind \in {"tempo", "clickhouse"}]

\* A conversation is searched for by its value: in any of the attributes, but
\* in all of them at a custom API that searches by attributes; one that does
\* not has its list read instead.
ConversationQuery ==
  CASE source.kind \in {"tempo", "clickhouse"} -> [Everything EXCEPT !.any = stitching]
    [] source.kind = "custom" /\ source.byAttributes ->
         [Everything EXCEPT !.all = Stitched, !.short = FALSE]
    [] OTHER -> [Everything EXCEPT !.short = FALSE]

InConversation(filtered) ==
  CASE source.kind = "jaeger" -> FALSE
    [] source.kind = "custom" /\ ~source.byAttributes -> CustomLists(filtered)
    [] OTHER -> Finds(ConversationQuery, filtered)

\* Mutant: the traces of a conversation are fetched without a filter.
FetchFiltersNone(op, filtered) == FALSE

\* Does the repository filter a trace it fetches for a conversation?  For
\* ClickHouse, the search has done so.
FetchFilters(op, filtered) == filtered /\ ~(source.kind = "clickhouse" /\ op # "open")

\* ClickHouse filters traces asked for by identifier after they came, by fields
\* its answers do not have.
FilterAfter(op, filtered) == filtered /\ source.kind = "clickhouse" /\ op = "byIds"

-----------------------------------------------------------------------------
Operations == {"search", "open", "byIds", "list", "conversation"}
NoRequest  == [op |-> "none", at |-> "idle", query |-> Everything, filter |-> FALSE, known |-> {}]
NoAnswer   == [op |-> "none", any |-> <<>>, shown |-> FALSE, filter |-> FALSE, known |-> {},
               cut |-> FALSE, failed |-> FALSE]

\* A person's own searches: everything, by q, by attributes.
Searches ==
  {Everything, [Everything EXCEPT !.any = <<"chat", "user">>], [Everything EXCEPT !.all = {"user"}]}

Init ==
  /\ source \in Sources
  /\ stitching \in {<<"chat">>, <<"chat", "user">>}
  /\ filter = FALSE
  /\ trace = <<>>
  /\ request = NoRequest /\ answer = NoAnswer /\ known = {}

\* The data source, the configuration and the project are read: the filter
\* of that moment is the one that is applied.
Ask(op, query) ==
  /\ request = NoRequest
  /\ request' = [op |-> op, query |-> query, filter |-> filter, known |-> known,
                 at |-> IF op \in {"open", "byIds"} THEN "fetch" ELSE "search"]
  /\ answer' = NoAnswer
  /\ UNCHANGED <<source, stitching, trace, filter, known>>

AskSearch == \E query \in Searches : Ask("search", query)
AskTrace  == Ask("open", Everything) \/ Ask("byIds", Everything)
AskConversations ==
  Ask("list", ListQuery) \/ Ask("conversation", ConversationQuery)

Give(shown, cut, failed) ==
  /\ answer' = [op |-> request.op, any |-> request.query.any, shown |-> shown,
                filter |-> request.filter, known |-> request.known, cut |-> cut, failed |-> failed]
  /\ \/ known' = known
     \/ /\ shown /\ request.op \notin {"open", "byIds"} /\ request.filter = filter
        /\ known' = {[op |-> request.op, any |-> request.query.any]}
  /\ request' = NoRequest
  /\ UNCHANGED <<source, stitching, trace, filter>>

Found ==
  CASE request.op = "search"       -> Finds(request.query, request.filter)
    [] request.op = "list"         -> Lists(request.filter)
    [] request.op = "conversation" -> InConversation(request.filter)

RefuseSearch ==
  /\ request.op = "search" /\ Refuses(request.query)
  /\ Give(FALSE, FALSE, TRUE)

Search ==
  /\ request.at = "search" /\ ~(request.op = "search" /\ Refuses(request.query))
  /\ Found
  /\ IF request.op = "conversation"
     THEN /\ request' = [request EXCEPT !.at = "fetch"]
          /\ UNCHANGED <<source, stitching, trace, filter, answer, known>>
     ELSE Give(TRUE, FALSE, FALSE)

\* The trace is not found, or others fill an answer of twenty, if there are as
\* many that match.
SearchInVain ==
  /\ request.at = "search" /\ ~(request.op = "search" /\ Refuses(request.query))
  /\ \/ ~Found /\ Give(FALSE, FALSE, FALSE)
     \/ Found /\ request.query.short /\ Give(FALSE, TRUE, FALSE)

Fetch ==
  /\ request.at = "fetch"
  /\ Give(/\ Opens(FetchFilters(request.op, request.filter))
          /\ ~FilterAfter(request.op, request.filter), FALSE, FALSE)

\* A remote call fails; a conversation is then given without the trace.
Fail == request.at \in {"search", "fetch"} /\ Give(FALSE, FALSE, TRUE)

\* Elsewhere: a span arrives, later or earlier than those that are there; the
\* project is updated.
Arrive ==
  /\ Len(trace) < MaxRows
  /\ \E row \in Rows, i \in 1..Len(trace) + 1 : trace' = InsertAt(trace, i, row)
  /\ answer' = NoAnswer
  /\ UNCHANGED <<source, stitching, filter, request, known>>

UpdateProject ==
  /\ filter' = ~filter
  /\ known' = {} /\ answer' = NoAnswer
  /\ UNCHANGED <<source, stitching, trace, request>>

Next ==
  \/ AskSearch \/ AskTrace \/ AskConversations
  \/ RefuseSearch \/ Search \/ SearchInVain \/ Fetch \/ Fail
  \/ Arrive \/ UpdateProject

Spec == Init /\ [][Next]_traceVars

-----------------------------------------------------------------------------
Showing == [op : Operations, any : Seq(Marks)]

TypeOK ==
  /\ Sources \subseteq Source /\ source \in Sources /\ Stitched \subseteq Marks /\ Rows \subseteq Span
  /\ trace \in Seq(Rows) /\ Len(trace) <= MaxRows
  /\ request.op \in Operations \cup {"none"} /\ request.query \in Query
  /\ known \subseteq Showing

\* A trace of Tempo that a search or a list finds by an alternative of its q
\* other than the last is not asked to pass the filter.
Escapes(op, any) ==
  /\ source.kind = "tempo" /\ op \in {"search", "list"}
  /\ \E i \in 1..Len(any) - 1 : any[i] \in InSpans(Stored)

Showed(op) == \E s \in answer.known : s.op = op

\* What is shown under a filter passes it, whichever of four repositories and
\* five operations showed it, and whatever arrived or changed meanwhile.  The
\* exception is Tempo's filter, which joins only the last alternative of a q.
ShownTracesPass ==
  answer.shown /\ answer.filter => "project" \in All(Stored) \/ Escapes(answer.op, answer.any)

\* A trace that a search, a list or a conversation has shown opens by its
\* identifier.  The exceptions are ClickHouse's: a trace that matches only by
\* the resource of a later row, and traces asked for by identifier together,
\* of which no filter leaves any; and Tempo's: a trace that only operations
\* have shown whose filter it escaped.
FoundTracesOpen ==
  /\ answer.op \in {"open", "byIds"} /\ ~answer.shown /\ ~answer.failed
  /\ answer.known # {}
  => /\ answer.filter
     /\ \/ /\ source.kind = "clickhouse"
           /\ answer.op = "byIds" \/ "project" \notin trace[1].resource \cup InSpans(Stored)
        \/ \A s \in answer.known : Escapes(s.op, s.any)

\* A conversation holds the traces its list counts, and its list those it
\* holds.  The exceptions: an answer cut at twenty; a custom API, which is
\* asked for every stitching attribute where the list is content with one, and
\* finds by resources what the list does not show; and Tempo, whose list counts
\* traces that escape the filter the conversation fetches them with.
ListsAgree ==
  /\ answer.op = "conversation" /\ ~answer.shown /\ ~answer.failed /\ Showed("list")
     => \/ answer.cut
        \/ source.kind = "custom" /\ source.byAttributes /\ ~(Stitched \subseteq All(Stored))
        \/ answer.filter /\ "project" \notin All(Stored) /\ Escapes("list", stitching)
  /\ answer.op = "list" /\ ~answer.shown /\ ~answer.failed /\ Showed("conversation")
     => source.kind = "custom" /\ source.byAttributes

TraceSafety == TypeOK /\ ShownTracesPass /\ FoundTracesOpen /\ ListsAgree
=============================================================================
