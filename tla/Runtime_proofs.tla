----------------------------- MODULE Runtime_proofs -----------------------------
(***************************************************************************)
(* The Kafka broker service and the queue of answers, for any number of    *)
(* publications, subscriptions and messages, and a window of any size.     *)
(***************************************************************************)
EXTENDS Runtime, FiniteSetTheorems, TLAPS

-----------------------------------------------------------------------------
(***************************************************************************)
(* The connections of the broker service.                                  *)
(***************************************************************************)

\* The one connection of the producer: being made, memoised, or closed.
ProducerKnown ==
  /\ dialing \in {0, 1}
  /\ memo = "pending" <=> dialing = 1
  /\ producer <=> memo = "resolved"
  /\ shut = "producer" => producer
  /\ links \in Nat
  /\ shut \in {"no", "producer"} => 0 \notin stuck
  /\ links > 0 => producer \/ 0 \in stuck
  /\ links > 1 => producer /\ 0 \in stuck
  /\ links < 3
  /\ producer \/ 0 \in stuck => links > 0
  /\ producer /\ 0 \in stuck => links > 1

\* While the service starts, the consumers connected are those before the loop.
Starting ==
  /\ boot \in {"connect", "subscribe"} =>
       /\ at \in 1 .. LastSub
       /\ shut = "no"
       /\ toClose = {}
       /\ running \union crashed = 1 .. at - 1
       /\ open = consumers
  /\ boot = "connect" => consumers = 1 .. at - 1
  /\ boot = "subscribe" => consumers = 1 .. at
  /\ boot = "rollback" => shut = "no" /\ open \subseteq toClose \union stuck
  /\ boot = "down" => shut = "no" /\ open \subseteq stuck
  /\ boot = "up" /\ shut = "no" =>
       open \subseteq consumers /\ toClose = {} /\ running \union crashed = 1 .. LastSub
  /\ shut \in {"producer", "consumers"} => open \subseteq toClose \union stuck
  /\ shut = "done" => open \subseteq stuck

BrokerInv == Broker!TypeOK /\ ProducerKnown /\ Starting

LEMMA BrokerInitInv ==
  ASSUME Broker!Init
  PROVE  BrokerInv
  <1> USE RuntimeAssumption
  <1>1. Broker!TypeOK
    BY DEF Broker!Init, Broker!TypeOK, Broker!Subs
  <1>2. ProducerKnown
    BY DEF Broker!Init, ProducerKnown
  <1>3. Starting
    BY DEF Broker!Init, Starting
  <1> QED BY <1>1, <1>2, <1>3 DEF BrokerInv

LEMMA BrokerNextInv ==
  ASSUME BrokerInv, [Broker!Next]_(Broker!vars)
  PROVE  BrokerInv'
  <1> USE RuntimeAssumption DEF Broker!Subs, Broker!Fault, Broker!Rollback, Broker!Resume, Broker!producerVars, Broker!consumerVars
  <1>0. Broker!TypeOK /\ ProducerKnown /\ Starting
    BY DEF BrokerInv
  <1>1. ASSUME NEW p \in Publishers, Broker!Publish(p)
        PROVE  BrokerInv'
    <2>1. Broker!TypeOK'
      BY <1>0, <1>1 DEF Broker!Publish, Broker!TypeOK
    <2>2. ProducerKnown'
      BY <1>0, <1>1 DEF Broker!Publish, Broker!TypeOK, ProducerKnown
    <2>3. Starting'
      BY <1>0, <1>1 DEF Broker!Publish, Broker!TypeOK, Starting
    <2> QED BY <2>1, <2>2, <2>3 DEF BrokerInv
  <1>2. ASSUME NEW p \in Publishers, Broker!Send(p)
        PROVE  BrokerInv'
    <2>1. Broker!TypeOK'
      BY <1>0, <1>2 DEF Broker!Send, Broker!TypeOK
    <2>2. ProducerKnown'
      BY <1>0, <1>2 DEF Broker!Send, Broker!TypeOK, ProducerKnown
    <2>3. Starting'
      BY <1>0, <1>2 DEF Broker!Send, Broker!TypeOK, Starting
    <2> QED BY <2>1, <2>2, <2>3 DEF BrokerInv
  <1>3. ASSUME NEW p \in Publishers, Broker!Return(p)
        PROVE  BrokerInv'
    <2>1. Broker!TypeOK'
      BY <1>0, <1>3 DEF Broker!Return, Broker!TypeOK
    <2>2. ProducerKnown'
      BY <1>0, <1>3 DEF Broker!Return, Broker!TypeOK, ProducerKnown
    <2>3. Starting'
      BY <1>0, <1>3 DEF Broker!Return, Broker!TypeOK, Starting
    <2> QED BY <2>1, <2>2, <2>3 DEF BrokerInv
  <1>4. ASSUME Broker!ProducerConnects
        PROVE  BrokerInv'
    <2>1. Broker!TypeOK'
      BY <1>0, <1>4 DEF Broker!ProducerConnects, Broker!TypeOK
    <2>2. ProducerKnown'
      BY <1>0, <1>4 DEF Broker!ProducerConnects, Broker!TypeOK, ProducerKnown
    <2>3. Starting'
      BY <1>0, <1>4 DEF Broker!ProducerConnects, Broker!TypeOK, Starting
    <2> QED BY <2>1, <2>2, <2>3 DEF BrokerInv
  <1>5. ASSUME Broker!ProducerRefused
        PROVE  BrokerInv'
    <2>1. Broker!TypeOK'
      BY <1>0, <1>5 DEF Broker!ProducerRefused, Broker!TypeOK
    <2>2. ProducerKnown'
      BY <1>0, <1>5 DEF Broker!ProducerRefused, Broker!TypeOK, ProducerKnown
    <2>3. Starting'
      BY <1>0, <1>5 DEF Broker!ProducerRefused, Broker!TypeOK, Starting
    <2> QED BY <2>1, <2>2, <2>3 DEF BrokerInv
  <1>6. ASSUME Broker!ConnectConsumer
        PROVE  BrokerInv'
    <2>1. /\ boot = "connect" /\ at \in 1 .. LastSub /\ shut = "no" /\ toClose = {}
          /\ running \union crashed = 1 .. at - 1 /\ open = consumers /\ consumers = 1 .. at - 1
          /\ UNCHANGED <<memo, dialing, producer, links, pub, at, running, crashed, shut, stuck>>
      BY <1>0, <1>6 DEF Broker!ConnectConsumer, Starting
    <2>2. CASE /\ consumers' = consumers \union {at} /\ open' = open \union {at}
               /\ boot' = "subscribe" /\ UNCHANGED <<toClose, kafkaFaults>>
      <3>1. Broker!TypeOK'
        BY <1>0, <2>1, <2>2 DEF Broker!TypeOK
      <3>2. consumers' = 1 .. at
        BY <2>1, <2>2
      <3>3. Starting'
        BY <2>1, <2>2, <3>2 DEF Starting
      <3>4. ProducerKnown'
        BY <1>0, <2>1 DEF ProducerKnown
      <3> QED BY <3>1, <3>3, <3>4 DEF BrokerInv
    <2>3. CASE Broker!Fault /\ Broker!Rollback /\ UNCHANGED <<consumers, open>>
      <3>1. Broker!TypeOK'
        BY <1>0, <2>1, <2>3 DEF Broker!TypeOK
      <3>2. Starting'
        BY <2>1, <2>3 DEF Starting
      <3>3. ProducerKnown'
        BY <1>0, <2>1 DEF ProducerKnown
      <3> QED BY <3>1, <3>2, <3>3 DEF BrokerInv
    <2> QED BY <1>6, <2>2, <2>3 DEF Broker!ConnectConsumer
  <1>7. ASSUME Broker!SubscribeConsumer
        PROVE  BrokerInv'
    <2>1. /\ boot = "subscribe" /\ at \in 1 .. LastSub /\ shut = "no" /\ toClose = {}
          /\ running \union crashed = 1 .. at - 1 /\ open = consumers /\ consumers = 1 .. at
          /\ UNCHANGED <<memo, dialing, producer, links, pub, consumers, open, crashed, shut, stuck>>
      BY <1>0, <1>7 DEF Broker!SubscribeConsumer, Starting
    <2>2. CASE /\ running' = running \union {at} /\ at' = at + 1
               /\ boot' = IF at = LastSub THEN "up" ELSE "connect"
               /\ UNCHANGED <<toClose, kafkaFaults>>
      <3>1. Broker!TypeOK'
        BY <1>0, <2>1, <2>2 DEF Broker!TypeOK
      <3>2. running' \union crashed' = 1 .. at
        BY <2>1, <2>2
      <3>3. at' - 1 = at /\ consumers' = 1 .. at' - 1
        BY <2>1, <2>2
      <3>4. Starting'
        BY <2>1, <2>2, <3>2, <3>3 DEF Starting
      <3>5. ProducerKnown'
        BY <1>0, <2>1 DEF ProducerKnown
      <3> QED BY <3>1, <3>4, <3>5 DEF BrokerInv
    <2>3. CASE Broker!Fault /\ Broker!Rollback /\ UNCHANGED <<at, running>>
      <3>1. Broker!TypeOK'
        BY <1>0, <2>1, <2>3 DEF Broker!TypeOK
      <3>2. Starting'
        BY <2>1, <2>3 DEF Starting
      <3>3. ProducerKnown'
        BY <1>0, <2>1 DEF ProducerKnown
      <3> QED BY <3>1, <3>2, <3>3 DEF BrokerInv
    <2> QED BY <1>7, <2>2, <2>3 DEF Broker!SubscribeConsumer
  <1>8. ASSUME Broker!BootFails
        PROVE  BrokerInv'
    <2>1. Broker!TypeOK'
      BY <1>0, <1>8 DEF Broker!BootFails, Broker!TypeOK
    <2>2. ProducerKnown'
      BY <1>0, <1>8 DEF Broker!BootFails, Broker!TypeOK, ProducerKnown
    <2>3. Starting'
      BY <1>0, <1>8 DEF Broker!BootFails, Broker!TypeOK, Starting
    <2> QED BY <2>1, <2>2, <2>3 DEF BrokerInv
  <1>9. ASSUME NEW c \in Broker!Subs, Broker!CloseConsumerOfRollback(c)
        PROVE  BrokerInv'
    <2>1. Broker!TypeOK'
      <3>1. CASE open' = open \ {c} /\ running' = running \ {c} /\ UNCHANGED <<stuck, kafkaFaults>>
        BY <1>0, <1>9, <3>1 DEF Broker!CloseConsumerOfRollback, Broker!TypeOK
      <3>2. CASE Broker!Fault /\ stuck' = stuck \union {c} /\ UNCHANGED <<open, running>>
        BY <1>0, <1>9, <3>2 DEF Broker!CloseConsumerOfRollback, Broker!TypeOK
      <3> QED BY <1>9, <3>1, <3>2 DEF Broker!CloseConsumerOfRollback
    <2>2. ProducerKnown'
      BY <1>0, <1>9 DEF Broker!CloseConsumerOfRollback, Broker!TypeOK, ProducerKnown
    <2>3. Starting'
      BY <1>0, <1>9 DEF Broker!CloseConsumerOfRollback, Broker!TypeOK, Starting
    <2> QED BY <2>1, <2>2, <2>3 DEF BrokerInv
  <1>10. ASSUME NEW c \in Broker!Subs, Broker!Crash(c)
        PROVE  BrokerInv'
    <2>1. Broker!TypeOK'
      BY <1>0, <1>10 DEF Broker!Crash, Broker!TypeOK
    <2>2. ProducerKnown'
      BY <1>0, <1>10 DEF Broker!Crash, Broker!TypeOK, ProducerKnown
    <2>3. Starting'
      BY <1>0, <1>10 DEF Broker!Crash, Broker!TypeOK, Starting
    <2> QED BY <2>1, <2>2, <2>3 DEF BrokerInv
  <1>11. ASSUME NEW c \in Broker!Subs, Broker!CloseConsumer(c)
        PROVE  BrokerInv'
    <2>1. Broker!TypeOK'
      <3>1. CASE open' = open \ {c} /\ running' = running \ {c} /\ UNCHANGED <<stuck, kafkaFaults>>
        BY <1>0, <1>11, <3>1 DEF Broker!CloseConsumer, Broker!TypeOK
      <3>2. CASE Broker!Fault /\ stuck' = stuck \union {c} /\ UNCHANGED <<open, running>>
        BY <1>0, <1>11, <3>2 DEF Broker!CloseConsumer, Broker!TypeOK
      <3> QED BY <1>11, <3>1, <3>2 DEF Broker!CloseConsumer
    <2>2. ProducerKnown'
      BY <1>0, <1>11 DEF Broker!CloseConsumer, Broker!TypeOK, ProducerKnown
    <2>3. Starting'
      BY <1>0, <1>11 DEF Broker!CloseConsumer, Broker!TypeOK, Starting
    <2> QED BY <2>1, <2>2, <2>3 DEF BrokerInv
  <1>12. ASSUME Broker!Shutdown
        PROVE  BrokerInv'
    <2>1. Broker!TypeOK'
      BY <1>0, <1>12 DEF Broker!Shutdown, Broker!TypeOK
    <2>2. ProducerKnown'
      BY <1>0, <1>12 DEF Broker!Shutdown, Broker!TypeOK, ProducerKnown
    <2>3. Starting'
      BY <1>0, <1>12 DEF Broker!Shutdown, Broker!TypeOK, Starting
    <2> QED BY <2>1, <2>2, <2>3 DEF BrokerInv
  <1>13. ASSUME Broker!CloseProducer
        PROVE  BrokerInv'
    <2>1. Broker!TypeOK'
      <3>1. links \in Nat /\ links > 0
        BY <1>0, <1>13 DEF Broker!CloseProducer, ProducerKnown
      <3>2. producer' \in BOOLEAN
        BY <1>13 DEF Broker!CloseProducer
      <3>3. /\ memo' = "none" /\ shut' = "consumers"
            /\ UNCHANGED <<dialing, pub, boot, at, consumers, open, running, crashed, toClose>>
        BY <1>13 DEF Broker!CloseProducer
      <3>4. links' \in Nat /\ stuck' \subseteq Broker!Subs \union {0} /\ kafkaFaults' \in Nat
        <4>1. CASE links' = links - 1 /\ UNCHANGED <<stuck, kafkaFaults>>
          BY <1>0, <3>1, <4>1 DEF Broker!TypeOK
        <4>2. CASE Broker!Fault /\ stuck' = stuck \union {0} /\ UNCHANGED links
          BY <1>0, <3>1, <4>2 DEF Broker!TypeOK
        <4> QED BY <1>13, <4>1, <4>2 DEF Broker!CloseProducer
      <3> QED BY <1>0, <3>2, <3>3, <3>4 DEF Broker!TypeOK
    <2>2. ProducerKnown'
      BY <1>0, <1>13 DEF Broker!CloseProducer, Broker!TypeOK, ProducerKnown
    <2>3. Starting'
      BY <1>0, <1>13 DEF Broker!CloseProducer, Broker!TypeOK, Starting
    <2> QED BY <2>1, <2>2, <2>3 DEF BrokerInv
  <1>14. ASSUME Broker!ShutdownEnds
        PROVE  BrokerInv'
    <2>1. Broker!TypeOK'
      BY <1>0, <1>14 DEF Broker!ShutdownEnds, Broker!TypeOK
    <2>2. ProducerKnown'
      BY <1>0, <1>14 DEF Broker!ShutdownEnds, Broker!TypeOK, ProducerKnown
    <2>3. Starting'
      BY <1>0, <1>14 DEF Broker!ShutdownEnds, Broker!TypeOK, Starting
    <2> QED BY <2>1, <2>2, <2>3 DEF BrokerInv
  <1>15. ASSUME UNCHANGED Broker!vars
        PROVE  BrokerInv'
    BY <1>0, <1>15 DEF Broker!vars, BrokerInv, Broker!TypeOK, ProducerKnown, Starting
  <1> QED BY <1>1, <1>2, <1>3, <1>4, <1>5, <1>6, <1>7, <1>8, <1>9, <1>10, <1>11, <1>12, <1>13, <1>14, <1>15 DEF Broker!Next

LEMMA BrokerInvSafe ==
  ASSUME BrokerInv
  PROVE  Broker!BrokerSafety
  <1>1. Broker!OneProducer
    <2>1. links \in Nat
      BY DEF BrokerInv, ProducerKnown
    <2>2. CASE producer /\ 0 \in stuck
      BY <2>1, <2>2 DEF BrokerInv, ProducerKnown, Broker!OneProducer
    <2>3. CASE producer /\ 0 \notin stuck
      BY <2>1, <2>3 DEF BrokerInv, ProducerKnown, Broker!OneProducer
    <2>4. CASE ~producer /\ 0 \in stuck
      BY <2>1, <2>4 DEF BrokerInv, ProducerKnown, Broker!OneProducer
    <2>5. CASE ~producer /\ 0 \notin stuck
      BY <2>1, <2>5 DEF BrokerInv, ProducerKnown, Broker!OneProducer
    <2> QED BY <2>2, <2>3, <2>4, <2>5
  <1>2. Broker!NothingLeftOpen
    BY DEF BrokerInv, Starting, Broker!NothingLeftOpen
  <1>3. Broker!StartedConsumesAll
    BY DEF BrokerInv, Starting, Broker!StartedConsumesAll, Broker!Subs
  <1> QED BY <1>1, <1>2, <1>3 DEF BrokerInv, Broker!BrokerSafety

\* Whatever another component does, the broker service stands still.
LEMMA BrokerMoves ==
  ASSUME [RuntimeNext]_allVars
  PROVE  [Broker!Next]_(Broker!vars)
  BY DEF RuntimeNext, allVars, Only, brokerVars, Broker!vars, Broker!producerVars, Broker!consumerVars

(***************************************************************************)
(* Whatever the number of publications that find no producer at once, of   *)
(* subscriptions and of faults: the service has one connection of a        *)
(* producer at most beside one that it failed to close, a start that fails *)
(* and a shutdown leave no consumer connected except those that failed to  *)
(* close, and a service that is up consumes every topic subscribed to      *)
(* until a consumer crashes (KafkaBrokerService).                          *)
(***************************************************************************)
THEOREM BrokerSafe == RuntimeSpec => []BrokerSafety
  <1>1. RuntimeInit => BrokerInv
    BY BrokerInitInv DEF RuntimeInit
  <1>2. BrokerInv /\ [RuntimeNext]_allVars => BrokerInv'
    BY BrokerNextInv, BrokerMoves
  <1>3. BrokerInv => BrokerSafety
    BY BrokerInvSafe DEF BrokerSafety
  <1> QED BY <1>1, <1>2, <1>3, PTL DEF RuntimeSpec

\* The step of a connection that was refused.
Refused ==
  memo = "rejected" =>
    /\ memo' = "rejected"
    /\ \A p \in Publishers : pub[p] = "idle" => pub'[p] \in {"idle", "failed"}

LEMMA RefusedStep ==
  ASSUME BrokerInv, Broker!Next
  PROVE  Refused
  <1> SUFFICES ASSUME memo = "rejected"
               PROVE  memo' = "rejected" /\ \A p \in Publishers : pub[p] = "idle" => pub'[p] \in {"idle", "failed"}
    BY DEF Refused
  <1>1. dialing = 0 /\ shut # "producer" /\ pub \in [Publishers -> {"idle", "waiting", "sending", "sent", "failed"}]
    BY DEF BrokerInv, ProducerKnown, Broker!TypeOK
  <1>2. ASSUME NEW p \in Publishers, Broker!Publish(p)
        PROVE  memo' = "rejected" /\ \A q \in Publishers : pub[q] = "idle" => pub'[q] \in {"idle", "failed"}
    BY <1>1, <1>2 DEF Broker!Publish
  <1>3. ASSUME NEW p \in Publishers, Broker!Send(p) \/ Broker!Return(p)
        PROVE  memo' = "rejected" /\ \A q \in Publishers : pub[q] = "idle" => pub'[q] \in {"idle", "failed"}
    BY <1>1, <1>3 DEF Broker!Send, Broker!Return
  <1>4. ~Broker!ProducerConnects /\ ~Broker!ProducerRefused /\ ~Broker!CloseProducer
    BY <1>1 DEF Broker!ProducerConnects, Broker!ProducerRefused, Broker!CloseProducer
  <1>5. CASE UNCHANGED <<memo, pub>>
    BY <1>1, <1>5
  <1> QED BY <1>2, <1>3, <1>4, <1>5
          DEF Broker!Next, Broker!ConnectConsumer, Broker!SubscribeConsumer, Broker!BootFails,
              Broker!CloseConsumerOfRollback, Broker!Crash, Broker!CloseConsumer, Broker!Shutdown,
              Broker!ShutdownEnds, Broker!producerVars

(***************************************************************************)
(* A producer that was refused once is refused for good: the rejected      *)
(* promise stays memoised, and no publication succeeds until the process   *)
(* starts again, whatever the cluster does (getProducer).                  *)
(***************************************************************************)
THEOREM RefusedForGood == RuntimeSpec => Broker!RejectionIsFinal
  <1>1. RuntimeInit => BrokerInv
    BY BrokerInitInv DEF RuntimeInit
  <1>2. BrokerInv /\ [RuntimeNext]_allVars => BrokerInv'
    BY BrokerNextInv, BrokerMoves
  <1>3. BrokerInv /\ [RuntimeNext]_allVars =>
          [memo = "rejected" =>
             /\ memo' = "rejected"
             /\ \A p \in Publishers : pub[p] = "idle" => pub'[p] \in {"idle", "failed"}]_(Broker!vars)
    BY BrokerMoves, RefusedStep DEF Refused
  <1> QED BY <1>1, <1>2, <1>3, PTL DEF RuntimeSpec, Broker!RejectionIsFinal

-----------------------------------------------------------------------------
(***************************************************************************)
(* The queue of answers.                                                   *)
(***************************************************************************)

\* Every message is ready, unacknowledged or gone, and none that cannot be
\* handled is gone.
Held ==
  /\ kinds \in Seq(Queue!MessageKinds)
  /\ ready \union unacked \union gone = DOMAIN kinds
  /\ ready \intersect unacked = {}
  /\ gone \intersect (ready \union unacked \union Queue!Poison) = {}

\* The instance counts as this module does.
LEMMA QueueCardinality ==
  ASSUME NEW S
  PROVE  Queue!Cardinality(S) = Cardinality(S)
  BY DEF Queue!Cardinality, Cardinality

LEMMA WindowType ==
  ASSUME Prefetch \in Nat
  PROVE  Queue!Window \in Nat
  BY DEF Queue!Window

\* There are finitely many messages, wherever they are.
LEMMA FiniteQueue ==
  ASSUME Held
  PROVE  /\ DOMAIN kinds = 1 .. Len(kinds) /\ Len(kinds) \in Nat
         /\ IsFiniteSet(ready) /\ IsFiniteSet(unacked)
  <1>1. DOMAIN kinds = 1 .. Len(kinds) /\ Len(kinds) \in Nat
    BY DEF Held
  <1>2. IsFiniteSet(DOMAIN kinds)
    BY <1>1, FS_Interval
  <1>3. ready \subseteq DOMAIN kinds /\ unacked \subseteq DOMAIN kinds
    BY DEF Held
  <1> QED BY <1>1, <1>2, <1>3, FS_Subset

\* A message behind as many that cannot be handled as the window holds is not
\* among those delivered next.
LEMMA NotDelivered ==
  ASSUME Held, Prefetch \in Nat, NEW m \in ready,
         Cardinality({p \in Queue!Poison : p < m}) >= Queue!Window
  PROVE  m \notin Queue!Oldest(Queue!Window - Cardinality(unacked), ready)
  <1> DEFINE behind == {p \in Queue!Poison : p < m}
             before == {k \in ready : k < m}
  <1>1. IsFiniteSet(before) /\ IsFiniteSet(unacked)
    <2>1. before \subseteq ready
      OBVIOUS
    <2> QED BY <2>1, FiniteQueue, FS_Subset
  <1>2. behind \subseteq before \union unacked
    BY DEF Held, Queue!Poison
  <1>3. IsFiniteSet(before \union unacked)
    BY <1>1, FS_Union
  <1>4. Cardinality(behind) <= Cardinality(before \union unacked)
    BY <1>2, <1>3, FS_Subset
  <1>5. /\ Cardinality(before) \in Nat
        /\ Cardinality(unacked) \in Nat
        /\ Cardinality(before \union unacked) \in Nat
    BY <1>1, <1>3, FS_CardinalityType
  <1>6. IsFiniteSet(behind) /\ Cardinality(behind) \in Nat
    BY <1>2, <1>3, FS_Subset, FS_CardinalityType
  <1>7. Cardinality(before \union unacked) <= Cardinality(before) + Cardinality(unacked)
    <2>1. before \intersect unacked = {}
      BY DEF Held
    <2>2. Cardinality(before \intersect unacked) = 0
      BY <2>1, FS_EmptySet
    <2> HIDE DEF before
    <2>3. Cardinality(before \union unacked)
            = Cardinality(before) + Cardinality(unacked) - Cardinality(before \intersect unacked)
      BY <1>1, FS_Union
    <2> QED BY <1>5, <2>2, <2>3
  <1>8. ~(Cardinality(before) < Queue!Window - Cardinality(unacked))
    <2> HIDE DEF behind, before
    <2>1. Queue!Window \in Nat
      BY WindowType
    <2>2. Cardinality(behind) >= Queue!Window
      BY DEF behind
    <2> QED BY <1>4, <1>5, <1>6, <1>7, <2>1, <2>2
  <1> QED BY <1>8, QueueCardinality DEF Queue!Oldest

LEMMA HeldNext ==
  ASSUME Held, [Queue!Next]_(Queue!vars)
  PROVE  Held'
  <1>1. ASSUME NEW kind \in Queue!MessageKinds, Queue!Arrive(kind)
        PROVE  Held'
    <2>1. /\ kinds' = Append(kinds, kind)
          /\ ready' = ready \union {Len(kinds) + 1}
          /\ UNCHANGED <<unacked, gone>>
      BY <1>1 DEF Queue!Arrive
    <2>2. DOMAIN kinds = 1 .. Len(kinds) /\ Len(kinds) \in Nat
      BY FiniteQueue
    <2>3. kinds' \in Seq(Queue!MessageKinds) /\ DOMAIN kinds' = DOMAIN kinds \union {Len(kinds) + 1}
      BY <2>1, <2>2 DEF Held
    <2>4. \A k \in DOMAIN kinds : kinds'[k] = kinds[k]
      BY <2>1, <2>2 DEF Held
    <2>5. Len(kinds) + 1 \notin DOMAIN kinds
      BY <2>2
    <2> QED BY <2>1, <2>3, <2>4, <2>5 DEF Held, Queue!Poison
  <1>2. CASE Queue!Deliver
    <2>1. Queue!Oldest(Queue!Window - Cardinality(unacked), ready) \subseteq ready
      BY DEF Queue!Oldest
    <2> QED BY <1>2, <2>1, QueueCardinality DEF Held, Queue!Poison, Queue!Deliver
  <1>3. ASSUME NEW m \in unacked, Queue!Handle(m)
        PROVE  Held'
    BY <1>3 DEF Held, Queue!Handle, Queue!Poison
  <1>4. CASE Queue!LoseConnection
    BY <1>4 DEF Held, Queue!LoseConnection, Queue!Poison
  <1>5. CASE UNCHANGED Queue!vars
    BY <1>5 DEF Held, Queue!vars, Queue!Poison
  <1> QED BY <1>1, <1>2, <1>3, <1>4, <1>5 DEF Queue!Next

LEMMA StarvedStep ==
  ASSUME Prefetch \in Nat, Held, [Queue!Next]_(Queue!vars), NEW m \in ready,
         Cardinality({p \in Queue!Poison : p < m}) >= Queue!Window
  PROVE  m \notin unacked' \union gone'
  <1>1. m \notin unacked \union gone
    BY DEF Held
  <1>2. CASE Queue!Deliver
    BY <1>1, <1>2, NotDelivered, QueueCardinality DEF Queue!Deliver
  <1>3. ASSUME NEW n \in unacked, Queue!Handle(n)
        PROVE  m \notin unacked' \union gone'
    BY <1>1, <1>3 DEF Queue!Handle
  <1> QED BY <1>1, <1>2, <1>3 DEF Queue!Next, Queue!Arrive, Queue!LoseConnection, Queue!vars

LEMMA QueueMoves ==
  ASSUME [RuntimeNext]_allVars
  PROVE  [Queue!Next]_(Queue!vars)
  BY DEF RuntimeNext, allVars, Only, queueVars, Queue!vars

LEMMA HeldInit ==
  ASSUME Queue!Init
  PROVE  Held
  BY DEF Queue!Init, Held, Queue!Poison

(***************************************************************************)
(* In a queue of any length, with a window of any size: as many messages   *)
(* as the window holds, none of which can be handled (each is given back   *)
(* by the REQUEUE of the wrapped handler), keep every answer behind them   *)
(* from ever being delivered.                                              *)
(***************************************************************************)
THEOREM Starved == RuntimeSpec => Queue!BehindAFullWindow
  <1>1. RuntimeInit => Held
    BY HeldInit DEF RuntimeInit
  <1>2. Held /\ [RuntimeNext]_allVars => Held'
    BY HeldNext, QueueMoves
  <1>3. Held /\ [RuntimeNext]_allVars =>
          [\A m \in ready :
             Queue!Cardinality({p \in Queue!Poison : p < m}) >= Queue!Window
               => m \notin unacked' \union gone']_(Queue!vars)
    BY StarvedStep, QueueMoves, QueueCardinality, RuntimeAssumption
  <1> QED BY <1>1, <1>2, <1>3, PTL DEF RuntimeSpec, Queue!BehindAFullWindow

=============================================================================
