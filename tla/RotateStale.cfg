CONSTANTS
  p1 = p1
  p2 = p2
  r1 = r1
  Proc <- Processes
  Rotator <- OneRotator
  Principle <- OnePrinciple
  MaxKeys = 5
  MaxWrites = 2
  MaxMishaps = 0
SPECIFICATION KeysSpec
CHECK_DEADLOCK FALSE
PROPERTY RotationKeepsRows
