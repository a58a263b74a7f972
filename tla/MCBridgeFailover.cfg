SPECIFICATION Spec
CONSTANTS
  p1 = p1
  p2 = p2
  m1 = m1
  m2 = m2
  m3 = m3
  k1 = k1
  k2 = k2
  Publishers = {p1, p2}
  Calls <- AnyCalls
  Msgs = {m1, m2, m3}
  NoMsg = NoMsg
  NoKey = NoKey
  MsgLink <- MCMsgLink
  MsgKey <- MCMsgKey
  MsgLevel <- MCMsgLevel
  Threshold <- MCThreshold
  Invalid = {}
  Oversize = {}
  Verdicts <- MCVerdicts
  EnableCanary = FALSE
  IdempotencyWindow = 1
  FlowLimit = 1
  Modulus = 4
  MaxMessages = 1
  Overflow = "none"
  MaxRetries = 1
  FullCodes = {"wouldBlock"}
  FailoverEnabled = TRUE
  PoolWorkers = 2
  PoolCapacity = 2
  MaxSessions = 1
  MaxFaults = 0
INVARIANT RoutedToPeer
CHECK_DEADLOCK FALSE
