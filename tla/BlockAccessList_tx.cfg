CONSTANTS
  a1 = a1
  a2 = a2
  s1 = s1
  Account = {a1, a2}
  Slot = {s1}
  Owner <- OneOwner
  AccountField = {"balance"}
  Value = {0, 1}
  MaxTx = 1
  DepthLimit = 0
  NoAccount = NoAccount
SPECIFICATION Spec
INVARIANTS TypeOK ChangesInOrder ListedRowsAreWhole UnpaidNotListed
PROPERTY LazyIsEager
CHECK_DEADLOCK FALSE
