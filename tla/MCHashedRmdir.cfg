SPECIFICATION Spec
CONSTANTS
  a = a
  v = v
  w = w
  z = z
  star = star
  Name = {a, v, w, z}
  Spelled = {a, v}
  SizeOf <- MCSizeOf
  BlockSize = 15
  Tails = TRUE
  Ino = {2, 3, 4, 5, 6}
  Hash <- MCHash
  Alias <- MCAlias
  Images <- OneExtent
  Everything = star
  Matches <- MCMatches
  Patterns = {}
  MaxChanges = 0
PROPERTY OnlyEmptyRemoved
VIEW MCView
CHECK_DEADLOCK FALSE
