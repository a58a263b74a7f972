SPECIFICATION GSpec
CONSTANTS
  pub1 = pub1
  pub2 = pub2
  inbound = inbound
  m1 = m1
  m2 = m2
  m3 = m3
  Threads = {pub1, pub2, inbound}
  Calls <- OneDiscarder
  Msgs = {m1, m2, m3}
  NoMsg = NoMsg
  MsgPriority <- Urgency
  MaxRestarts = 1
  MaxMessages = 2
INVARIANTS OkLeavesNothing QueueOrdered FlagRestored NonBlockingNeverSleeps
PROPERTIES CallsReturn ImplementsTransport
CHECK_DEADLOCK FALSE
