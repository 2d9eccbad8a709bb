CONSTANTS
  Clients = {1, 2}
  Ops <- MCOps
  Nodes = {"n1", "n2"}
  NoNode = "none"
  Pin <- MCPin
  Target <- MCTarget
  Template = 101
  LastId = 102
  MaxCalls <- MCCalls
  Faults = {"call", "missing", "task", "wait", "delete", "stop", "migrate"}
SPECIFICATION Spec
CHECK_DEADLOCK FALSE
INVARIANTS EnsureInv ReturnedRunning ClonesOnlyWhenMissing SettingsAccounted PurgedAll
