CONSTANTS
  Conns = {c1, c2}
  NoConn = NoConn
  Capacity = 2
  BufAlloc = 2
  CntMod = 3
  RxBufs = 1
  MaxBytes = 3
  Loads <- SafetyLoads
SPECIFICATION SafeSpec
INVARIANTS
  TypeOK
  EndToEndOrder
  PendingWithinCredit
  NoStrandedConnection
  NoStalledWork
SYMMETRY ConnSymmetry
CHECK_DEADLOCK FALSE
