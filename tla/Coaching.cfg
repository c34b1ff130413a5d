CONSTANTS
  u1 = u1
  u2 = u2
  s1 = s1
  s2 = s2
  o1 = o1
  o2 = o2
  o3 = o3
  g = g
  Session = {s1, s2}
  Obs = {o1, o2, g}
  Gap = {g}
  Drafts <- MCDraftsSmall
  SkillOf <- MCSkillOf
  Failed = {o1, o2, g}
  Confidence <- MCConfidence
  User = {u1, u2}
  Mode = {"observe", "normal"}
  Command = {"accept", "defer", "never"}
  MaxRuns = 2
  MaxStarts = 3
  MaxMishaps = 1
SPECIFICATION Spec
INVARIANTS CountedOnce CountedIsEvidenced LessonIsRepeated
PROPERTY NeverShownAgain
SYMMETRY MCSymmetry
CHECK_DEADLOCK FALSE
