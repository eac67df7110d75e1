------------------------------ MODULE KafkaBroker ------------------------------
(***************************************************************************)
(* The life of KafkaBrokerService in one process: the memoised connection  *)
(* of the producer, publications, the consumers started one after another  *)
(* at bootstrap and rolled back when one fails, and the shutdown.  The     *)
(* cluster is external: a connection may fail, and a consumer may crash.   *)
(* One action per await.                                                   *)
(***************************************************************************)
EXTENDS Naturals, FiniteSets

CONSTANTS
  Publishers,  \* publications under way at a time
  LastSub,     \* the subscriptions are 1 .. LastSub, in the order made
  MaxFaults    \* bound: failed connections and calls, crashes

Subs == 1 .. LastSub

VARIABLES
  memo,      \* producerConnectPromise: none, pending, resolved or rejected
  dialing,   \* connections of a producer under way
  producer,  \* is this.producer set?
  links,     \* connections of producers that are open
  pub,       \* where each publication is
  boot,      \* where onApplicationBootstrap is
  at,        \* the subscription its loop is at
  consumers, \* this.consumers
  open,      \* subscriptions whose consumer is connected
  running,   \* subscriptions whose consumer runs
  shut,      \* where onApplicationShutdown is
  toClose,   \* consumers a rollback or the shutdown has still to close
  stuck,     \* history: consumers that failed to close, and 0 for a producer
  crashed,   \* history: consumers that crashed
  kafkaFaults \* counter bounded by MaxFaults

producerVars == <<memo, dialing, producer, links, pub>>
consumerVars == <<boot, at, consumers, open, running, crashed>>
vars == <<producerVars, consumerVars, shut, toClose, stuck, kafkaFaults>>

Init ==
  /\ memo = "none"
  /\ dialing = 0
  /\ producer = FALSE
  /\ links = 0
  /\ pub = [p \in Publishers |-> "idle"]
  /\ boot = IF LastSub = 0 THEN "up" ELSE "connect"
  /\ at = 1
  /\ consumers = {}
  /\ open = {}
  /\ running = {}
  /\ shut = "no"
  /\ toClose = {}
  /\ stuck = {}
  /\ crashed = {}
  /\ kafkaFaults = 0

Fault == kafkaFaults < MaxFaults /\ kafkaFaults' = kafkaFaults + 1

-----------------------------------------------------------------------------
(***************************************************************************)
(* getProducer and publish.                                                *)
(***************************************************************************)

\* Where a publication goes on once the memoised promise has the state m.
Resume(m) ==
  [p \in Publishers |->
     IF pub[p] # "waiting" THEN pub[p] ELSE IF m = "resolved" THEN "sending" ELSE "failed"]

\* Mutant: a connection is made whenever this.producer is not set yet.
PublishDials(p) ==
  /\ boot = "up"
  /\ pub[p] = "idle"
  /\ pub' = [pub EXCEPT ![p] = IF producer THEN "sending" ELSE "waiting"]
  /\ IF producer THEN UNCHANGED <<memo, dialing>>
     ELSE memo' = "pending" /\ dialing' = dialing + 1
  /\ UNCHANGED <<producer, links, consumerVars, shut, toClose, stuck, kafkaFaults>>

\* The first publication starts the connection, the others await its promise,
\* the rejected one included.
Publish(p) ==
  /\ boot = "up"
  /\ pub[p] = "idle"
  /\ pub' = [pub EXCEPT ![p] = CASE memo = "resolved" -> "sending"
                                 [] memo = "rejected" -> "failed"
                                 [] OTHER             -> "waiting"]
  /\ IF memo = "none" THEN memo' = "pending" /\ dialing' = dialing + 1
     ELSE UNCHANGED <<memo, dialing>>
  /\ UNCHANGED <<producer, links, consumerVars, shut, toClose, stuck, kafkaFaults>>

ProducerConnects ==
  /\ dialing > 0
  /\ dialing' = dialing - 1
  /\ links' = links + 1
  /\ producer' = TRUE
  /\ memo' = "resolved"
  /\ pub' = Resume("resolved")
  /\ UNCHANGED <<consumerVars, shut, toClose, stuck, kafkaFaults>>

\* Mutant: a rejected connection is forgotten, and those who wait with it.
ProducerRefusedForgotten ==
  /\ dialing > 0
  /\ Fault
  /\ dialing' = dialing - 1
  /\ memo' = "none"
  /\ UNCHANGED <<producer, links, pub, consumerVars, shut, toClose, stuck>>

\* The rejected promise stays memoised.
ProducerRefused ==
  /\ dialing > 0
  /\ Fault
  /\ dialing' = dialing - 1
  /\ memo' = "rejected"
  /\ pub' = Resume("rejected")
  /\ UNCHANGED <<producer, links, consumerVars, shut, toClose, stuck>>

Send(p) ==
  /\ pub[p] = "sending"
  /\ \/ links > 0 /\ pub' = [pub EXCEPT ![p] = "sent"] /\ UNCHANGED kafkaFaults
     \/ (IF links = 0 \/ shut # "no" THEN UNCHANGED kafkaFaults ELSE Fault)
        /\ pub' = [pub EXCEPT ![p] = "failed"]
  /\ UNCHANGED <<memo, dialing, producer, links, consumerVars, shut, toClose, stuck>>

\* The caller has its answer and may publish again.
Return(p) ==
  /\ pub[p] \in {"sent", "failed"}
  /\ pub' = [pub EXCEPT ![p] = "idle"]
  /\ UNCHANGED <<memo, dialing, producer, links, consumerVars, shut, toClose, stuck, kafkaFaults>>

-----------------------------------------------------------------------------
(***************************************************************************)
(* onApplicationBootstrap.                                                 *)
(***************************************************************************)

Rollback == boot' = "rollback" /\ toClose' = consumers

\* A consumer is kept in this.consumers once it is connected.
ConnectConsumer ==
  /\ boot = "connect"
  /\ \/ /\ consumers' = consumers \union {at}
        /\ open' = open \union {at}
        /\ boot' = "subscribe"
        /\ UNCHANGED <<toClose, kafkaFaults>>
     \/ Fault /\ Rollback /\ UNCHANGED <<consumers, open>>
  /\ UNCHANGED <<producerVars, at, running, crashed, shut, stuck>>

\* Mutant: the loop ends one subscription early.
SubscribeConsumerShort ==
  /\ boot = "subscribe"
  /\ \/ /\ running' = running \union {at}
        /\ at' = at + 1
        /\ boot' = IF at + 1 >= LastSub THEN "up" ELSE "connect"
        /\ UNCHANGED <<toClose, kafkaFaults>>
     \/ Fault /\ Rollback /\ UNCHANGED <<at, running>>
  /\ UNCHANGED <<producerVars, consumers, open, crashed, shut, stuck>>

SubscribeConsumer ==
  /\ boot = "subscribe"
  /\ \/ /\ running' = running \union {at}
        /\ at' = at + 1
        /\ boot' = IF at = LastSub THEN "up" ELSE "connect"
        /\ UNCHANGED <<toClose, kafkaFaults>>
     \/ Fault /\ Rollback /\ UNCHANGED <<at, running>>
  /\ UNCHANGED <<producerVars, consumers, open, crashed, shut, stuck>>

\* Mutant: the rollback spares the consumer whose subscription failed.
CloseConsumerOfRollbackSparing(c) ==
  /\ boot = "rollback"
  /\ c \in toClose
  /\ toClose' = toClose \ {c, at}
  /\ \/ open' = open \ {c} /\ running' = running \ {c} /\ UNCHANGED <<stuck, kafkaFaults>>
     \/ Fault /\ stuck' = stuck \union {c} /\ UNCHANGED <<open, running>>
  /\ UNCHANGED <<producerVars, boot, at, consumers, crashed, shut>>

\* A consumer that cannot be disconnected is a warning.
CloseConsumerOfRollback(c) ==
  /\ boot = "rollback"
  /\ c \in toClose
  /\ toClose' = toClose \ {c}
  /\ \/ open' = open \ {c} /\ running' = running \ {c} /\ UNCHANGED <<stuck, kafkaFaults>>
     \/ Fault /\ stuck' = stuck \union {c} /\ UNCHANGED <<open, running>>
  /\ UNCHANGED <<producerVars, boot, at, consumers, crashed, shut>>

\* The error is thrown again, and the server does not start.
BootFails ==
  /\ boot = "rollback"
  /\ toClose = {}
  /\ boot' = "down"
  /\ consumers' = {}
  /\ UNCHANGED <<producerVars, at, open, running, crashed, shut, toClose, stuck, kafkaFaults>>

\* run() fails for good: it is logged and nothing starts it again.
Crash(c) ==
  /\ c \in running
  /\ Fault
  /\ running' = running \ {c}
  /\ crashed' = crashed \union {c}
  /\ UNCHANGED <<producerVars, boot, at, consumers, open, shut, toClose, stuck>>

-----------------------------------------------------------------------------
(***************************************************************************)
(* onApplicationShutdown.  Publications may go on meanwhile.               *)
(***************************************************************************)
Shutdown ==
  /\ boot = "up"
  /\ shut = "no"
  /\ shut' = IF producer THEN "producer" ELSE "consumers"
  /\ toClose' = consumers
  /\ UNCHANGED <<producerVars, consumerVars, stuck, kafkaFaults>>

\* The producer is forgotten whether it could be closed or not.
CloseProducer ==
  /\ shut = "producer"
  /\ shut' = "consumers"
  /\ producer' = FALSE
  /\ memo' = "none"
  /\ \/ links' = links - 1 /\ UNCHANGED <<stuck, kafkaFaults>>
     \/ Fault /\ stuck' = stuck \union {0} /\ UNCHANGED links
  /\ UNCHANGED <<dialing, pub, consumerVars, toClose>>

\* An error is collected, and the next one is closed.
CloseConsumer(c) ==
  /\ shut = "consumers"
  /\ c \in toClose
  /\ toClose' = toClose \ {c}
  /\ \/ open' = open \ {c} /\ running' = running \ {c} /\ UNCHANGED <<stuck, kafkaFaults>>
     \/ Fault /\ stuck' = stuck \union {c} /\ UNCHANGED <<open, running>>
  /\ UNCHANGED <<producerVars, boot, at, consumers, crashed, shut>>

ShutdownEnds ==
  /\ shut = "consumers"
  /\ toClose = {}
  /\ shut' = "done"
  /\ consumers' = {}
  /\ UNCHANGED <<producerVars, boot, at, open, running, crashed, toClose, stuck, kafkaFaults>>

-----------------------------------------------------------------------------
Next ==
  \/ \E p \in Publishers : Publish(p) \/ Send(p) \/ Return(p)
  \/ ProducerConnects \/ ProducerRefused
  \/ ConnectConsumer \/ SubscribeConsumer \/ BootFails
  \/ \E c \in Subs : CloseConsumerOfRollback(c) \/ Crash(c) \/ CloseConsumer(c)
  \/ Shutdown \/ CloseProducer \/ ShutdownEnds

Spec == Init /\ [][Next]_vars

-----------------------------------------------------------------------------
(***************************************************************************)
(* Properties.                                                             *)
(***************************************************************************)
TypeOK ==
  /\ memo \in {"none", "pending", "resolved", "rejected"}
  /\ dialing \in Nat
  /\ producer \in BOOLEAN
  /\ links \in Nat
  /\ pub \in [Publishers -> {"idle", "waiting", "sending", "sent", "failed"}]
  /\ boot \in {"connect", "subscribe", "up", "rollback", "down"}
  /\ at \in Nat
  /\ consumers \subseteq Subs
  /\ open \subseteq Subs
  /\ running \subseteq open
  /\ shut \in {"no", "producer", "consumers", "done"}
  /\ toClose \subseteq consumers
  /\ stuck \subseteq Subs \union {0}
  /\ crashed \subseteq Subs
  /\ kafkaFaults \in Nat

\* However many publications find no producer at once, and whenever the
\* shutdown comes, a connection that is open is the one the service knows or
\* one that it failed to close.
OneProducer ==
  links <= (IF producer THEN 1 ELSE 0) + (IF 0 \in stuck THEN 1 ELSE 0)

\* A start that fails leaves no consumer connected, and neither does a
\* shutdown, those excepted that failed to close.
NothingLeftOpen ==
  boot = "down" \/ shut = "done" => open \subseteq stuck

\* A server that has started consumes every topic it subscribed to, until
\* a consumer crashes or the shutdown begins.
StartedConsumesAll ==
  boot = "up" /\ shut = "no" => running \union crashed = Subs

\* A connection that was refused once is refused for good: nothing is
\* published until the process starts again, whatever the cluster does.
RejectionIsFinal ==
  [][memo = "rejected" =>
       /\ memo' = "rejected"
       /\ \A p \in Publishers : pub[p] = "idle" => pub'[p] \in {"idle", "failed"}]_vars

\* A publication ends, with the producer or without.
PublicationsEnd ==
  \A p \in Publishers : pub[p] \in {"waiting", "sending"} ~> pub[p] \in {"sent", "failed"}

\* Connections that are open are known, of the producer and of the consumers.
BrokerSafety == TypeOK /\ OneProducer /\ NothingLeftOpen /\ StartedConsumesAll

\* Publications end, and while the producer is refused they end in failure.
BrokerProgress == RejectionIsFinal /\ PublicationsEnd
=============================================================================
