--------------------------------- MODULE Runtime ---------------------------------
(***************************************************************************)
(* What must make progress: a run of experiments, the connections to       *)
(* Kafka, a queue of answers, one part at a time.                          *)
(***************************************************************************)
EXTENDS ExperimentRun, OnePart

CONSTANTS
  Publishers,     \* publications under way at a time
  LastSub,        \* subscriptions of the Kafka broker service
  MaxKafkaFaults, \* bound: failed connections and calls, crashes
  Kafka,          \* is the broker of the queue Kafka?
  Prefetch,       \* prefetchCount of a RabbitMQ channel
  MaxMessages,    \* bound: messages that arrive
  MaxLosses       \* bound: connections lost

\* The numbers of a configuration.
ASSUME RuntimeAssumption == LastSub \in Nat /\ Prefetch \in Nat

VARIABLES
  memo, dialing, producer, links, pub, boot, at, consumers, open, running, shut,
  toClose, stuck, crashed, kafkaFaults,
  kinds, ready, unacked, gone, losses

Broker == INSTANCE KafkaBroker WITH MaxFaults <- MaxKafkaFaults
Queue == INSTANCE AnswerQueue

brokerVars == <<memo, dialing, producer, links, pub, boot, at, consumers, open, running,
                shut, toClose, stuck, crashed, kafkaFaults>>
queueVars  == <<kinds, ready, unacked, gone, losses>>
allVars    == <<part, vars, brokerVars, queueVars>>

\* Of the components, p alone moves.
Only(p) ==
  /\ part = p
  /\ UNCHANGED part
  /\ IF p = "experiments" THEN TRUE ELSE UNCHANGED vars
  /\ IF p = "kafka" THEN TRUE ELSE UNCHANGED brokerVars
  /\ IF p = "queue" THEN TRUE ELSE UNCHANGED queueVars

RuntimeInit == part \in Parts /\ Init /\ Broker!Init /\ Queue!Init

RuntimeNext ==
  \/ Only("experiments") /\ Next
  \/ Only("kafka") /\ Broker!Next
  \/ Only("queue") /\ Queue!Next

RuntimeFairness ==
  /\ \A e \in Experiments : WF_allVars(Only("experiments") /\ DispatchStep(e))
  /\ \A p \in Pairs : WF_allVars(Only("experiments") /\ WorkerAnswers(p))
  /\ \A h \in Handlers : WF_allVars(Only("experiments") /\ HandlerStep(h))
  /\ WF_allVars(Only("kafka") /\ (Broker!ProducerConnects \/ Broker!ProducerRefused))
  /\ \A p \in Publishers : WF_allVars(Only("kafka") /\ Broker!Send(p))
  /\ WF_allVars(Only("queue") /\ Queue!Deliver)
  /\ \A m \in 1 .. MaxMessages : WF_allVars(Only("queue") /\ Queue!Handle(m))

RuntimeSpec == RuntimeInit /\ [][RuntimeNext]_allVars /\ RuntimeFairness

\* The connections of the Kafka broker service that are open are known to it,
\* of the producer and of the consumers, through faults and shutdown.
BrokerSafety == part = "kafka" => Broker!BrokerSafety

\* Publications end, and while the producer is refused they end in failure.
BrokerProgress == Broker!BrokerProgress

\* Whether answers drain is decided by the room in the prefetch window.
WindowDecides == Queue!WindowDecides
=============================================================================
