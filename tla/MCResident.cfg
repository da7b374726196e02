SPECIFICATION Spec
CONSTANTS
  c1 = c1
  c2 = c2
  t1 = t1
  t2 = t2
  Copy = {c1, c2}
  Other = {t1, t2}
  Letter = {3, 4, 5}
  LastDrive = 5
INVARIANTS ChainsIntact DrivesServed
PROPERTY OthersDrivesKept
SYMMETRY Alike
