CONSTANTS
  s1 = s1
  u = u
  Session = {s1}
  Unknown = u
  Mode = "minimal"
  MinEvents = 2
  MaxEvents = 3
  MaxLines = 2
  Kinds = {"SessionStart", "UserPromptSubmit", "edit", "Stop"}
  MaxMishaps = 2
SPECIFICATION Spec
INVARIANTS NothingForgotten TurnsChained RecalledOnce
PROPERTIES ImportComplete
CHECK_DEADLOCK FALSE
