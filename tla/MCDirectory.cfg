SPECIFICATION Spec
CONSTANTS
  a = a
  v = v
  w = w
  z = z
  star = star
  Name = {a, v, w, z}
  Spelled = {a, v}
  SizeOf <- MCSizeOf
  BlockSize = 15
  Tails = TRUE
  Ino = {2, 3, 4, 5, 6}
  Hash <- MCHash
  Alias <- MCAlias
  Images <- MCImages
  Everything = star
  Matches <- MCMatches
  Patterns = {star}
  MaxChanges = 2
INVARIANTS
  RecordsTile
  IndexFinds
  SearchComplete
  SearchShowsOnce
PROPERTIES
  TreeChangesWhole
  TakesWhatWasNamed
  AliasesStayDistinct
VIEW MCView
CHECK_DEADLOCK FALSE
