CONSTANTS
  eoa = eoa
  app = app
  new = new
  pre = pre
  slot = slot
  slot2 = slot2
  key = key
  c1 = c1
  EmptyCode = EmptyCode
  Absent = Absent
  None = None
  Acct = {eoa, app}
  Slot = {slot}
  Owner <- MCOwner
  WarmKey = {}
  Value = {0, 1}
  Code = {c1}
  Cancun = FALSE
  Prague = FALSE
  Amsterdam = FALSE
  Precompile = {}
  Predeploy = {}
  NewAddr = {app}
  Recipient = {app, None}
  Amount = {0, 1}
  Coinbase = eoa
  BlockStartStorage = {app}
  AccessList <- NoAccessList
  Upfront = {1}
  Ops = {"access", "storage", "call", "selfdestruct"}
  InitDB <- MCInitDB
  InitSupply <- MCInitSupply
  MaxNonce = 9
  MaxTxCounter = 2
  MaxDepth = 3
  MaxJournal = 10
VIEW View
SPECIFICATION Spec
INVARIANTS TypeOK RollbackExact EtherConserved EmptyHasNoStorage
