-------------------------------- MODULE AuditLog --------------------------------
(***************************************************************************)
(* The audit log read page by page, newest first, while events are         *)
(* recorded and old ones deleted.  The cursor of a page is the time of its *)
(* last event, cut to milliseconds, and the next page has the events       *)
(* strictly before it.                                                     *)
(***************************************************************************)
EXTENDS Naturals, FiniteSets, Sequences, SequencesExt, FiniteSetsExt

CONSTANTS
  MaxEvents, \* bound: the events are 1 .. MaxEvents
  MaxTime,   \* bound: times are 0 .. MaxTime
  Tick,      \* times in a millisecond
  Limit      \* events of a page

VARIABLES
  log,       \* the events that are in the table
  createdAt, \* the time of each event recorded so far
  now,       \* the time
  page,      \* the reader: the cursor it was given, and what it has seen
  lastTimes, \* history: the milliseconds of the last events of its pages
  expired    \* history: events deleted by the retention

auditVars == <<log, createdAt, now, page, lastTimes, expired>>

NoCursor == MaxTime + 1
Unread == [reading |-> FALSE, cursor |-> NoCursor, seen |-> <<>>, began |-> {}, more |-> FALSE]

Init ==
  /\ log = {}
  /\ createdAt = <<>>
  /\ now = 0
  /\ page = Unread
  /\ lastTimes = {}
  /\ expired = {}

Pass == now < MaxTime /\ now' = now + 1 /\ UNCHANGED <<log, createdAt, page, lastTimes, expired>>

\* record: a failure of the sink is logged and swallowed, and the event is lost.
Record ==
  LET e == Len(createdAt) + 1 IN
  /\ e <= MaxEvents
  /\ createdAt' = Append(createdAt, now)
  /\ log' \in {log, log \union {e}}
  /\ UNCHANGED <<now, page, lastTimes, expired>>

\* deleteOldAuditLogs: a batch of the events before some time.
DeleteOld(before) ==
  \E batch \in SUBSET {e \in log : createdAt[e] < before} :
    /\ batch # {}
    /\ log' = log \ batch
    /\ expired' = expired \union batch
    /\ UNCHANGED <<createdAt, now, page, lastTimes>>

Millisecond(t) == t - (t % Tick)

\* The newest Limit + 1 of the events before the cursor; the order of those
\* with equal times is open.
Selected(events) ==
  {s \in UNION {[1 .. n -> events] : n \in 0 .. Limit + 1} :
     /\ IsInjective(s)
     /\ \A i, j \in DOMAIN s : i < j => createdAt[s[i]] >= createdAt[s[j]]
     /\ Len(s) <= Limit => ToSet(s) = events
     /\ \A e \in events \ ToSet(s), i \in DOMAIN s : createdAt[e] <= createdAt[s[i]]}

Start ==
  /\ ~page.reading
  /\ page' = [Unread EXCEPT !.reading = TRUE, !.began = log, !.more = TRUE]
  /\ lastTimes' = {}
  /\ UNCHANGED <<log, createdAt, now, expired>>

\* Mutant: the events at the time of the cursor are selected again.
BeforeOrAt(cursor) == {e \in log : cursor = NoCursor \/ createdAt[e] <= cursor}
Before(cursor) == {e \in log : cursor = NoCursor \/ createdAt[e] < cursor}

\* Mutant: the event that tells there are more is cut, and the cursor is its time.
CursorOfTheExtra(result) == Millisecond(createdAt[Last(result)])
NextCursor(result) ==
  Millisecond(createdAt[Last(SubSeq(result, 1, Min({Limit, Len(result)})))])

\* findLogsPaginated: one page.
FindLogsPaginated ==
  /\ page.reading /\ page.more
  /\ \E result \in Selected(Before(page.cursor)) :
       LET data == SubSeq(result, 1, Min({Limit, Len(result)})) IN
       /\ page' = [page EXCEPT !.seen = @ \o data,
                               !.more = Len(result) > Limit,
                               !.cursor = IF data = <<>> THEN @ ELSE NextCursor(result)]
       /\ lastTimes' = lastTimes \union (IF data = <<>> THEN {} ELSE {Millisecond(createdAt[Last(data)])})
  /\ UNCHANGED <<log, createdAt, now, expired>>

Close ==
  /\ page.reading
  /\ page' = Unread
  /\ lastTimes' = {}
  /\ UNCHANGED <<log, createdAt, now, expired>>

Next == Pass \/ Record \/ (\E t \in 1 .. MaxTime : DeleteOld(t)) \/ Start \/ FindLogsPaginated \/ Close

Spec == Init /\ [][Next]_auditVars

-----------------------------------------------------------------------------
(***************************************************************************)
(* Properties.                                                             *)
(***************************************************************************)
\* No event is shown on two pages, whatever is recorded or deleted between them.
ShownOnce == IsInjective(page.seen)

\* After the last page, an event that was there from the beginning and was
\* not shown has been deleted, or happened in the millisecond of the last
\* event of some page.
MissedShareATime ==
  page.reading /\ ~page.more =>
    \A e \in page.began \ (ToSet(page.seen) \union expired) : Millisecond(createdAt[e]) \in lastTimes

\* The pages of the log show an event once, and miss it for one reason only.
AuditSafety == ShownOnce /\ MissedShareATime
=============================================================================
