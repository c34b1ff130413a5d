CONSTANTS
  u1 = u1
  u2 = u2
  s1 = s1
  s2 = s2
  o1 = o1
  o2 = o2
  o3 = o3
  g = g
  Session = {s1, s2}
  Obs = {o1, o2, o3, g}
  Gap = {g}
  Drafts <- MCDrafts
  SkillOf <- MCSkillOf
  Failed = {o1, o2, g}
  Confidence <- MCConfidence
  User = {u1}
  Mode = {"normal"}
  Command = {"accept"}
  MaxRuns = 1
  MaxStarts = 2
  MaxMishaps = 0
SPECIFICATION Spec
PROPERTY AcceptedIsLearning
CHECK_DEADLOCK FALSE
