CONSTANTS
  Managers = {1}
  MaxTag = 3
  FirstPort = 20000
  EndPort = 20004
  Listening = {22, 20000}
  Mappings <- MCOneMappings
  Unreadable = {}
  InitFile <- MCInitFile
  GoOn = TRUE
  Faults = {"raise", "ss", "mv", "flush", "reload"}
SPECIFICATION Spec
INVARIANTS ReturnedDone ExhaustionHarmless
PROPERTIES IsRuleTable OthersUndisturbed
