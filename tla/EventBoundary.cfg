CONSTANTS
  s1 = s1
  u = u
  Session = {s1}
  Unknown = u
  Mode = "minimal"
  MinEvents = 2
  MaxEvents = 3
  MaxLines = 1
  Kinds = {"UserPromptSubmit", "edit", "Stop"}
  MaxMishaps = 0
SPECIFICATION Spec
INVARIANTS SummarySeesBoundary
CHECK_DEADLOCK FALSE
