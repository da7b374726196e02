CONSTANTS
  sb = sb
  a = a
  b = b
  FsBlock = {sb, a, b}
  SB = sb
  Body = {0, 1, 9}
  ZeroBody = 0
  TornBody = 9
  First = 1
  MaxLen = 5
  SeqLimit = 64
  Csum = TRUE
  Txns <- MCTxns
  Disk <- MCDisk
  TransMax = 2
  ReplayMax = 2
  RevokeMax = 1
  MaxSeq = 3
SPECIFICATION Spec
INVARIANTS
  TypeOK
  ReadsSeeCommitted
  MemoryKnowsLog
  OkLeavesClean
  NoForgedHeader
PROPERTIES
  OwnLogMounts
  AtomicAndDurable
  LiveLogKept

