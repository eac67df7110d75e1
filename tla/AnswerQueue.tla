------------------------------ MODULE AnswerQueue ------------------------------
(***************************************************************************)
(* A queue of answers and its consumer: how many messages are delivered at *)
(* a time, which ones a results processor accepts, and what becomes of     *)
(* those it does not.  RabbitMQ delivers up to prefetchCount messages and  *)
(* takes a rejected one back to its place; a Kafka partition delivers one, *)
(* and the same one again.  The broker is external; the messages are       *)
(* numbered in the order they arrived.                                     *)
(***************************************************************************)
EXTENDS Naturals, FiniteSets, FiniteSetsExt, Sequences

CONSTANTS
  Kafka,       \* is the broker Kafka?
  Prefetch,    \* prefetchCount of a RabbitMQ channel
  MaxMessages, \* bound: messages that arrive
  MaxLosses    \* bound: connections lost

\* A complete answer, one whose row cannot be saved, one without the fields
\* required, an empty object, a message without a body, and one that is not JSON.
MessageKinds == {"answer", "unsavable", "incomplete", "empty", "nothing", "garbled"}

VARIABLES
  kinds,    \* what arrived, in order
  ready,    \* messages the broker may deliver
  unacked,  \* messages delivered and not answered
  gone,     \* messages acknowledged
  losses    \* counter bounded by MaxLosses

vars == <<kinds, ready, unacked, gone, losses>>

Init ==
  /\ kinds = <<>>
  /\ ready = {}
  /\ unacked = {}
  /\ gone = {}
  /\ losses = 0

Window == IF Kafka THEN 1 ELSE Prefetch

\* Does the wrapped handler throw?  Kafka's skips a message without a body.
Throws(kind) == kind # "answer" /\ ~(Kafka /\ kind = "nothing")

Poison == {m \in DOMAIN kinds : Throws(kinds[m])}

\* A message is published.
Arrive(kind) ==
  /\ Len(kinds) < MaxMessages
  /\ kinds' = Append(kinds, kind)
  /\ ready' = ready \union {Len(kinds) + 1}
  /\ UNCHANGED <<unacked, gone, losses>>

\* The n oldest of a set of messages.
Oldest(n, msgs) == {m \in msgs : Cardinality({k \in msgs : k < m}) < n}

\* Mutant: one message is delivered at a time.
DeliverOne ==
  /\ unacked = {}
  /\ ready # {}
  /\ ready' = ready \ {Min(ready)}
  /\ unacked' = {Min(ready)}
  /\ UNCHANGED <<kinds, gone, losses>>

\* The broker fills the window, oldest first.
Deliver ==
  LET batch == Oldest(Window - Cardinality(unacked), ready) IN
  /\ batch # {}
  /\ ready' = ready \ batch
  /\ unacked' = unacked \union batch
  /\ UNCHANGED <<kinds, gone, losses>>

\* Mutant: a message that cannot be handled is dropped.
HandleDrops(m) ==
  /\ m \in unacked
  /\ unacked' = unacked \ {m}
  /\ gone' = gone \union {m}
  /\ UNCHANGED <<kinds, ready, losses>>

\* A handler that throws gives its message back (REQUEUE).
Handle(m) ==
  /\ m \in unacked
  /\ unacked' = unacked \ {m}
  /\ IF m \in Poison THEN ready' = ready \union {m} /\ UNCHANGED gone
     ELSE gone' = gone \union {m} /\ UNCHANGED ready
  /\ UNCHANGED <<kinds, losses>>

\* The connection is lost: what was not acknowledged is delivered again.
LoseConnection ==
  /\ losses < MaxLosses
  /\ unacked # {}
  /\ losses' = losses + 1
  /\ ready' = ready \union unacked
  /\ unacked' = {}
  /\ UNCHANGED <<kinds, gone>>

Next ==
  \/ \E kind \in MessageKinds : Arrive(kind)
  \/ Deliver
  \/ \E m \in unacked : Handle(m)
  \/ LoseConnection

Spec == Init /\ [][Next]_vars

-----------------------------------------------------------------------------
\* While fewer messages than the window holds cannot be handled, the queue is
\* cleared of answers again and again, however often the others are given
\* back.  The hypothesis is needed: BehindAFullWindow.
AnswersDrain ==
  []<>((ready \union unacked) \ Poison = {} \/ Cardinality(Poison) >= Window)

\* As many messages as the window holds, none of which can be handled, keep
\* every answer behind them from being delivered, for ever.
BehindAFullWindow ==
  [][\A m \in ready :
       Cardinality({p \in Poison : p < m}) >= Window => m \notin unacked' \union gone']_vars

\* Whether answers drain is decided by the room in the window.
WindowDecides == AnswersDrain /\ BehindAFullWindow
=============================================================================
