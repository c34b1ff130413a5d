CONSTANTS
  c1 = c1
  c2 = c2
  m1 = m1
  h1 = h1
  h2 = h2
  h3 = h3
  i1 = i1
  i2 = i2
  i3 = i3
  NoRow = NoRow
  AnyCommand = AnyCommand
  Commands = {c1}
  Messages = {m1}
  Times = {1, 2}
  Observers = {h1}
  Ids = {i1, i2, i3}
  MaxEvents = 6
  MaxErrors = 0
SPECIFICATION AlertsSpec
SYMMETRY Symmetry
INVARIANT ActiveIsUnresolved
CHECK_DEADLOCK FALSE
