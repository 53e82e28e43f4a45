CONSTANTS
  A1 = A1
  B1 = B1
  A2 = A2
  Genesis = Genesis
  Block <- Fork
  Parent <- ForkParent
  Number <- ForkNumber
  Invalid = {}
  Streamed = {A1, B1}
  Sources = {}
  AfterExecution = FALSE
  ChannelCap = 1
  StartedCap = 2
  MaxCommits = 2
  Faults = {}
SPECIFICATION CancelSpec
INVARIANTS StaleProofDropped WorkerOwned
PROPERTIES WorkerFreed
CHECK_DEADLOCK FALSE
