CONSTANTS
  sb = sb
  a = a
  b = b
  FsBlock = {sb, a, b}
  SB = sb
  Body = {0, 1, 2, 9}
  ZeroBody = 0
  TornBody = 9
  First = 1
  MaxLen = 10
  SeqLimit = 16
  Csum = TRUE
  Txns <- OneBlock
  Disk <- TwoSmall
  Damaged = {}
  TransMax = 2
  ReplayMax = 2
  RevokeMax = 1
  MaxSeq = 2
SPECIFICATION ForeignSpec
PROPERTY CommitAddsOnlyItself
