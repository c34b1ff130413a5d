CONSTANTS
  lib1 = lib1
  lib2 = lib2
  root1 = root1
  NoLibrary = NoLibrary
  NoText = NoText
  None = None
  Libraries <- MCLibraries
  Sessions <- MCSessions
  Commands <- MCCommands
  Prompts <- MCPrompts
  Scripts <- MCScripts
  Batches <- MCBatches
SPECIFICATION Spec
INVARIANT VerificationOrderFree
INVARIANT ConfiguredIsUsed
INVARIANT RecallInScope
INVARIANT FetchStoresOwnAnswer
INVARIANT BatchNotLost
