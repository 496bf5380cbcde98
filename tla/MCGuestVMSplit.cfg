SPECIFICATION Spec
CONSTANTS
  NPages = 8
  MinBrk = 2
  MmapBase = 2
  Text <- VMText
  Prots <- VMProts
  Ranges <- WideRanges
INVARIANTS RegionsCoverExec
