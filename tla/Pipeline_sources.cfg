CONSTANTS
  A1 = A1
  B1 = B1
  A2 = A2
  Genesis = Genesis
  Block <- Fork
  Parent <- ForkParent
  Number <- ForkNumber
  Invalid = {B1}
  Streamed = {}
  Sources = {"tap"}
  AfterExecution = FALSE
  ChannelCap = 1
  StartedCap = 2
  MaxCommits = 1
  Faults = {}
SPECIFICATION Spec
INVARIANTS TypeOK OneInFlight JobOnce CanonicalCovered
CHECK_DEADLOCK FALSE
