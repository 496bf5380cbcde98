SPECIFICATION Spec
CONSTANTS
  Levels = 2
  Fan = 2
  Uppers = 2
  TLBSize = 1
  Tables <- MMUTables
  Bare = Bare
  Roots = {10, 20}
  VAs = {0, 1, 2, 6}
  Workloads <- MMUWorkloads
INVARIANTS TLBTransparent NothingOlderThanFence DirtyBeforeStore
