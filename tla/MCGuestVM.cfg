SPECIFICATION Spec
CONSTANTS
  NPages = 6
  MinBrk = 2
  MmapBase = 2
  Text <- VMText
  Prots <- VMProts
  Ranges <- VMRanges
INVARIANTS MappedContents RegionsOnlyExec
