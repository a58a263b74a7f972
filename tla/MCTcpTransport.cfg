SPECIFICATION Spec
CONSTANTS
  Publishers = {p1, p2}
  Header = 2
  Lengths = {0, 1}
  Huge = 9
  Capacity = 2
  MaxSends = 2
  MaxConnections = 2
  MaxSignals = 1
INVARIANTS FramesIntact EndsAfterCut
PROPERTIES SentArrives CallsReturn
CHECK_DEADLOCK FALSE
