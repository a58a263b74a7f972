SPECIFICATION Spec
CONSTANTS
  Envelopes <- MCEnvelopes
  Senders <- MCSenders
  Topics <- MCTopics
  Latencies = {0, 1}
  MaxNumber = 1000
  MaxTime = 3
INVARIANT ValidAccepted
CHECK_DEADLOCK FALSE
