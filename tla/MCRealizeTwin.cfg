CONSTANTS
  Paths <- TwinPaths
  Drvs <- TwinDrvs
  Root = "root.drv"
  Deps <- TwinDeps
  Outputs <- TwinOutputs
  Sources = {}
  Direct <- TwinDirect
  Fetchurls = {}
  References <- TwinReferences
  Producer <- TwinProducer
  NoDrv = "none"
  Primary = "root"
  Cached <- TwinPaths
  Extra = {}
SPECIFICATION RSafeSpec
INVARIANTS
  NeverMissingImage
CHECK_DEADLOCK FALSE
