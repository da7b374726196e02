CONSTANTS
  sb = sb
  a = a
  b = b
  FsBlock = {sb, a, b}
  SB = sb
  Body = {0, 1, 2, 9}
  ZeroBody = 0
  TornBody = 9
  First = 1
  MaxLen = 13
  SeqLimit = 8
  Csum = TRUE
  Txns = {}
  Disk <- AnyDisks
  Damaged <- Corrupt
  TransMax = 2
  ReplayMax = 2
  RevokeMax = 1
  MaxSeq = 0
SPECIFICATION FairForeignSpec
INVARIANTS
  ReadsSeeRecovered
  BareReadsExplained
PROPERTIES
  RefusesOnlyBeyondLimits
  MountReturns
