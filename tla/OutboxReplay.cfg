CONSTANTS
  s1 = s1
  u = u
  Session = {s1, u}
  Unknown = u
  Mode = "minimal"
  MinEvents = 2
  MaxEvents = 2
  MaxLines = 1
  Kinds = {"UserPromptSubmit", "Stop"}
  MaxMishaps = 1
SPECIFICATION FairSpec
PROPERTIES QueuedReplayed
CHECK_DEADLOCK FALSE
