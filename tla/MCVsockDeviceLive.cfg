CONSTANTS
  Conns = {c1}
  NoConn = NoConn
  Capacity = 1
  BufAlloc = 1
  CntMod = 2
  RxBufs = 1
  MaxBytes = 2
  Loads <- LiveLoads
SPECIFICATION Spec
PROPERTIES
  GuestBytesArrive
  HostBytesArrive
CHECK_DEADLOCK FALSE
