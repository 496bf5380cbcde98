SPECIFICATION FairSpec
CONSTANTS
  QNum = 2
  IdxMod = 4
  Workloads <- AllWorkloads
INVARIANTS OneOwner ReceiveSignalled
PROPERTIES  FramesArrive
CHECK_DEADLOCK FALSE
