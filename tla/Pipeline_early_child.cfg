CONSTANTS
  A1 = A1
  B1 = B1
  A2 = A2
  Genesis = Genesis
  Block <- Line
  Parent <- LineParent
  Number <- LineNumber
  Invalid = {}
  Streamed = {}
  Sources = {"tap"}
  AfterExecution = FALSE
  ChannelCap = 1
  StartedCap = 2
  MaxCommits = 1
  Faults = {}
SPECIFICATION Spec
PROPERTIES DiscardedLeftTheChain
CHECK_DEADLOCK FALSE
