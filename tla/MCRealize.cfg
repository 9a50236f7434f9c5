CONSTANTS
  Paths <- MCPaths
  Drvs <- MCDrvs
  Root = "root.drv"
  Deps <- MCDeps
  Outputs <- MCOutputs
  Sources = {"src"}
  Direct <- MCDirect
  Fetchurls = {"url.drv"}
  References <- MCReferences
  Producer <- MCProducer
  NoDrv = "none"
  Primary = "root"
  Cached <- MCCached
  Extra = {"src"}
SPECIFICATION RSpec
INVARIANTS
  RTypeOK
  NoMissingInput
  OnlyWhatIsMissing
  NeverMissingImage
  DependenciesFirst
PROPERTIES
  RunTerminates
CHECK_DEADLOCK FALSE
