SPECIFICATION OpenSpec
CONSTANTS
  NumGroups = 1
  InosPerGroup = 4
  BlksPerGroup = 3
  Reserved = {1}
  Meta = {}
  InosPerBlock = 4
  Unit = 2
  a = a
  b = b
  Name = {a, b}
  DirSlots = 4
  MaxExt = 2
  LenBit = 16
  MaxSize = 4
  MaxFaults = 1
  sft1 = sft1
  sft2 = sft2
  sft3 = sft3
  Sft = {sft1, sft2, sft3}
  NumSlots = 2
  Images <- Fresh
INVARIANTS HandleKeepsFile CopyIsCurrent HandleReadsFile
PROPERTY HandlesAreFileOps
SYMMETRY Exchange
VIEW LiveOpen
CONSTRAINT Valid
CHECK_DEADLOCK FALSE
