CONSTANTS
  Libs = {l1}
  OpenLibs = {}
  Context7 = Context7
  NoLib = NoLib
  None = None
  Handlers = {h1}
  BatchLimit = 1
  MaxRequests = 2
  MaxFaults = 1
  MaxCrashes = 1
SPECIFICATION FairSpec
INVARIANTS TypeOK RunningAccounted WakeNotLost
PROPERTIES KeepsPromise QueuedIsTried
CHECK_DEADLOCK FALSE
