CONSTANTS
  eoa = eoa
  app = app
  new = new
  pre = pre
  slot = slot
  slot2 = slot2
  key = key
  c1 = c1
  EmptyCode = EmptyCode
  Absent = Absent
  None = None
  Acct = {eoa, new}
  Slot = {}
  Owner <- MCOwner
  WarmKey = {}
  Value = {0, 1}
  Code = {c1}
  Cancun = TRUE
  Prague = TRUE
  Amsterdam = FALSE
  Precompile = {}
  Predeploy = {}
  NewAddr = {new}
  Recipient = {None}
  Amount = {0}
  Coinbase = eoa
  BlockStartStorage = {}
  AccessList <- NoAccessList
  Upfront = {0}
  Ops = {}
  InitDB <- MCInitDB
  InitSupply <- MCInitSupply
  MaxNonce = 9
  MaxTxCounter = 1
  MaxDepth = 3
  MaxJournal = 7
SPECIFICATION Spec
INVARIANTS TopLevelCreateStaysWarm
