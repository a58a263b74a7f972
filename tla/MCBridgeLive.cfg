SPECIFICATION Spec
CONSTANTS
  p1 = p1
  p2 = p2
  m1 = m1
  m2 = m2
  m3 = m3
  k1 = k1
  k2 = k2
  Publishers = {p1, p2}
  Calls <- FixedCalls
  Msgs = {m1, m2, m3}
  NoMsg = NoMsg
  NoKey = NoKey
  MsgLink <- MCMsgLink
  MsgKey <- MCNoKeys
  MsgLevel <- MCMsgLevel
  Threshold <- MCThreshold
  Invalid = {}
  Oversize = {}
  Verdicts <- MCVerdicts
  EnableCanary = FALSE
  IdempotencyWindow = 1
  FlowLimit = 2
  Modulus = 8
  MaxMessages = 1
  Overflow = "dropOldest"
  MaxRetries = 1
  FullCodes = {"timeout", "wouldBlock"}
  FailoverEnabled = FALSE
  PoolWorkers = 1
  PoolCapacity = 1
  MaxSessions = 1
  MaxFaults = 1
INVARIANTS LoopsReadOpenLinks StoppedReleased
PROPERTIES PublishReturns OwnerReturns MessagesEnd
CHECK_DEADLOCK FALSE
