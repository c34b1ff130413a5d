CONSTANTS
  d1 = d1
  d2 = d2
  d3 = d3
  s1 = s1
  s2 = s2
  s3 = s3
  x1 = x1
  None = None
  Daemons = {d1, d2}
  Starters = {s1, s2, s3}
  Doctors = {s3}
  Servers = {s1}
  Stoppers = {x1}
  Mortal = {d1, d2}
  Service = TRUE
  Patient = TRUE
  Calm = TRUE
  MaxDeaths = 1
SPECIFICATION FairSpec
INVARIANTS OneDaemon ServingReachable
PROPERTIES StartRecovers
CHECK_DEADLOCK FALSE
