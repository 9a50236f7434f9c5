CONSTANTS
  Conns = {c1}
  NoConn = NoConn
  Capacity = 2
  BufAlloc = 1
  CntMod = 2
  RxBufs = 6
  MaxBytes = 4
  Loads <- CreditLoads
SPECIFICATION Spec
PROPERTIES
  CreditReturns
CHECK_DEADLOCK FALSE
