CONSTANTS
  NJobs = 2
  MaxWorkers = 2
  LastId = 103
  Wants <- MCWantsStart
  Faults = {}
  ForeignIds = {}
  DeleteRunning = TRUE
SPECIFICATION Spec
INVARIANT RollsBackAll
