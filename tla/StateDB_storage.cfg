CONSTANTS
  eoa = eoa
  app = app
  new = new
  pre = pre
  slot = slot
  slot2 = slot2
  key = key
  c1 = c1
  EmptyCode = EmptyCode
  Absent = Absent
  None = None
  Acct = {eoa, app}
  Slot = {slot}
  Owner <- MCOwner
  WarmKey = {key}
  Value = {0, 1}
  Code = {c1}
  Cancun = TRUE
  Prague = TRUE
  Amsterdam = FALSE
  Precompile = {}
  Predeploy = {app}
  NewAddr = {}
  Recipient = {app}
  Amount = {0}
  Coinbase = eoa
  BlockStartStorage = {}
  AccessList <- SlotAccessList
  Upfront = {0}
  Ops = {"access", "storage", "call"}
  InitDB <- MCInitDB
  InitSupply <- MCInitSupply
  MaxNonce = 9
  MaxTxCounter = 2
  MaxDepth = 3
  MaxJournal = 7
VIEW View
SPECIFICATION Spec
INVARIANTS RollbackExact TxOriginalIsTxStart
PROPERTIES WarmthIsPerTx
