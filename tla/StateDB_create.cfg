CONSTANTS
  eoa = eoa
  app = app
  new = new
  pre = pre
  slot = slot
  slot2 = slot2
  key = key
  c1 = c1
  EmptyCode = EmptyCode
  Absent = Absent
  None = None
  Acct = {eoa, app, new, pre}
  Slot = {slot2}
  Owner <- MCOwner
  WarmKey = {}
  Value = {0, 1}
  Code = {c1}
  Cancun = TRUE
  Prague = TRUE
  Amsterdam = TRUE
  Precompile = {pre}
  Predeploy = {}
  NewAddr = {new}
  Recipient = {app, None}
  Amount = {0, 1}
  Coinbase = eoa
  BlockStartStorage = {}
  AccessList <- NoAccessList
  Upfront = {1}
  Ops = {"access", "storage", "call", "create", "selfdestruct"}
  InitDB <- MCInitDB
  InitSupply <- MCInitSupply
  MaxNonce = 2
  MaxTxCounter = 1
  MaxDepth = 3
  MaxJournal = 14
VIEW View
SPECIFICATION Spec
INVARIANTS RollbackExact CheckpointsNest DestructOnlyCreated CreateAnchoredAfterBump EtherConserved EmptyHasNoStorage
