CONSTANTS
  NJobs = 3
  MaxWorkers = 2
  LastId = 103
  Wants <- MCWants
  Faults = {"nextid", "fallback", "drive", "clone", "build", "task", "wait", "delete", "interrupt"}
  ForeignIds = {103}
  DeleteRunning = FALSE
SPECIFICATION FairSpec
INVARIANTS OwnsItsVm ReturnedComplete LaunchInv RollbackRunsAlone
PROPERTIES ForeignUntouched ConfiguredWhileStopped IsBatch NoStragglers Termination
