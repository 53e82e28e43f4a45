CONSTANTS
  A1 = A1
  B1 = B1
  A2 = A2
  Genesis = Genesis
  Block <- Line
  Parent <- LineParent
  Number <- LineNumber
  Invalid = {}
  Streamed = {A1}
  Sources = {"lighthouse"}
  AfterExecution = TRUE
  ChannelCap = 1
  StartedCap = 2
  MaxCommits = 2
  Faults = {"timeout", "rpc", "build", "proof"}
SPECIFICATION FairSpec
PROPERTIES JobsEnd
CHECK_DEADLOCK FALSE
