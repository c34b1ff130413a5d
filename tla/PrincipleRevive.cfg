CONSTANTS
  a = a
  b = b
  c = c
  t1 = t1
  t2 = t2
  t3 = t3
  Ids = {a, b}
  Titles = {t1, t2}
  None = None
  Stray = Stray
  MaxOps = 2
SPECIFICATION Spec
SYMMETRY Symmetry
PROPERTIES RevivalSparesManual
