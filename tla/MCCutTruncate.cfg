SPECIFICATION Spec
CONSTANTS
  NumGroups = 2
  InosPerGroup = 2
  BlksPerGroup = 2
  Reserved = {1}
  Meta = {}
  InosPerBlock = 2
  Unit = 2
  a = a
  b = b
  Name = {a, b}
  DirSlots = 4
  MaxExt = 2
  LenBit = 16
  MaxSize = 4
  MaxFaults = 1
  Images <- Fresh
INVARIANT CutTruncateNeverAliases
SYMMETRY Renaming
CHECK_DEADLOCK FALSE
