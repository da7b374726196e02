CONSTANTS
  sb = sb
  a = a
  b = b
  FsBlock = {sb, a, b}
  SB = sb
  Body = {0, 1, 9}
  ZeroBody = 0
  TornBody = 9
  First = 1
  MaxLen = 6
  SeqLimit = 64
  Csum = FALSE
  Txns <- LiveTxns
  Disk <- LiveDisk
  TransMax = 3
  ReplayMax = 3
  RevokeMax = 1
  MaxSeq = 2
SPECIFICATION QuietSpec
INVARIANT ReadOnlySeesCommitted
PROPERTIES
  AtomicAndDurable
  MountCleansLog
CHECK_DEADLOCK FALSE
