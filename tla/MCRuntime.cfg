CONSTANTS
  e1 = e1  e2 = e2  r1 = r1  r2 = r2  r3 = r3  h1 = h1  h2 = h2
  Experiments <- TwoExperiments
  Rows <- TwoRows
  InitialRows <- TwoRows
  Handlers = {h1, h2}
  BatchSize = 1
  ScanOrders <- StableScan
  Removals = FALSE
  MaxApiResults = 0
  MaxFaults = 1
  Publishers = {"p1", "p2"}
  LastSub = 2
  MaxKafkaFaults = 2
  Kafka = FALSE
  Prefetch = 2
  MaxMessages = 3
  MaxLosses = 1
  Parts = {"experiments", "kafka", "queue"}
SPECIFICATION RuntimeSpec
INVARIANT BrokerSafety
PROPERTIES RunSettles BrokerProgress WindowDecides
CHECK_DEADLOCK FALSE
