CONSTANTS
  Capacity = 2
  MaxBytes = 3
  RxBufs = 1
SPECIFICATION Spec
INVARIANTS
  TypeOK
  InOrder
  NoLostHostWakeup
  NoLostDeviceWakeup
PROPERTIES
  PipesAreStreams
  PendingIsFlushed
  WriterResumes
  ReaderIsServed
CHECK_DEADLOCK FALSE
