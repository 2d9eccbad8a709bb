CONSTANTS
  NVms = 3
  Faults = {"launch", "check", "proxmox", "cleanup", "other", "nat", "silent", "interrupt"}
SPECIFICATION Spec
INVARIANTS E2EInv SuccessMeansClean LeftOnlyIfReported
PROPERTIES RulesGoFirst
