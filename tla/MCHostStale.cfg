CONSTANTS
  Parts = {"eval"}
  Nars = {n1, n2}
  Urls = {u}
  Outs = {out, dev}
  Permits = 2
  MaxRuns = 2
  Inputs = {"nixpkgs", "stable", "utils"}
  InputPath <- MCInputPath
  InputPermits = 2
  Unusual = {}
  Faults = TRUE
  Attrs = {"a", "b"}
  Trees = {"t1", "t2", "t3"}
  LockOf <- MCLockOf
  RootOf <- MCRootOf
  Drvs = {"a1", "a2", "b", "lib"}
  InputDrvs <- MCInputDrvs
  InputSrcs <- MCInputSrcs
  DrvOutputs <- MCDrvOutputs
  Sources = {"tree1", "tree2"}
  EditsDuringRuns = TRUE
  MaxEvals = 2
  Listed <- MCListed
  Inodes = {1, 2, 3, 4}
  Sizes = {1, 2}
  FILE_CACHE_SIZE = 2
  MaxReplaced = 1
  LockedTrees <- MCLockedTrees
  Archives <- MCArchives
  NarBlock = 2
SPECIFICATION SafeSpec
INVARIANTS
  EntriesMatchTheirKey
CHECK_DEADLOCK FALSE
