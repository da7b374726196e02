SPECIFICATION Spec
CONSTANTS
  NumGroups = 4
  InosPerGroup = 2
  BlksPerGroup = 1
  Reserved = {1, 3, 7, 8}
  Meta = {}
  InosPerBlock = 2
  Unit = 1
  a = a
  b = b
  Name = {a, b}
  DirSlots = 4
  MaxExt = 2
  LenBit = 16
  MaxSize = 0
  MaxFaults = 0
  Images <- Fresh
INVARIANTS CountersAgree TreeSound NothingLeaks
PROPERTY NamesChangeWhole
SYMMETRY Renaming
VIEW Live
CONSTRAINT Calm
CHECK_DEADLOCK FALSE
