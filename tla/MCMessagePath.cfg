SPECIFICATION Spec
CONSTANTS
  Envelopes <- MCEnvelopes
  Senders <- MCSenders
  Topics <- MCTopics
  Latencies = {0, 1}
  MaxNumber = 1000
  MaxTime = 3
INVARIANTS DeliveredIntact SelfCheckRepresentative ReceiverModeIrrelevant
PROPERTY HandledFresh
CHECK_DEADLOCK FALSE
