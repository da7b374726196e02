SPECIFICATION Spec
CONSTANTS
  NumGroups = 2
  InosPerGroup = 2
  BlksPerGroup = 4
  Reserved = {1}
  Meta = {1, 5, 6}
  InosPerBlock = 2
  Unit = 2
  a = a
  b = b
  Name = {a, b}
  DirSlots = 4
  MaxExt = 2
  LenBit = 16
  MaxSize = 5
  MaxFaults = 1
  Images <- FreshAndFull
INVARIANTS TypeOK BlocksOwnedOnce CountersAgree ReadsOwnData NothingLeaks
PROPERTY NamesChangeWhole
SYMMETRY Renaming
VIEW Live
CONSTRAINT Calm
CHECK_DEADLOCK FALSE
