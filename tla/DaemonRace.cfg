CONSTANTS
  d1 = d1
  d2 = d2
  d3 = d3
  s1 = s1
  s2 = s2
  s3 = s3
  x1 = x1
  None = None
  Daemons = {d1, d2}
  Starters = {s1, s2}
  Doctors = {}
  Servers = {}
  Stoppers = {}
  Mortal = {}
  Service = FALSE
  Patient = TRUE
  Calm = TRUE
  MaxDeaths = 0
SPECIFICATION Spec
SYMMETRY Symmetry
INVARIANT OneServes
CHECK_DEADLOCK FALSE
