SPECIFICATION GSpec
CONSTANTS
  pub1 = pub1
  pub2 = pub2
  inbound = inbound
  m1 = m1
  m2 = m2
  m3 = m3
  Threads = {pub1, pub2, inbound}
  Calls <- TwoDiscarders
  Msgs = {m1, m2, m3}
  NoMsg = NoMsg
  MsgPriority <- Urgency
  MaxRestarts = 0
  MaxMessages = 2
INVARIANT NonBlockingNeverSleeps
CHECK_DEADLOCK FALSE
