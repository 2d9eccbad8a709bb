CONSTANTS
  Managers = {1, 2}
  MaxTag = 3
  FirstPort = 20000
  EndPort = 20003
  Listening = {22, 20000}
  Mappings <- MCMappings
  Unreadable = {1}
  InitFile <- MCInitFile
  GoOn = FALSE
  Faults = {"raise", "mv", "flush", "reload"}
SPECIFICATION Spec
CHECK_DEADLOCK FALSE
INVARIANTS UnmanagedKept ReloadedWhenIdle
