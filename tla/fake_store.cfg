CONSTANTS
  Clients = {1, 2}
  Ops <- MCStore
  Names = {a, current}
  Current = current
  NoName = NoName
  NoVm = NoVm
  Seeded = {9000, 9001}
  LastId = 9001
  MaxTasks = 4
SPECIFICATION Spec
CHECK_DEADLOCK FALSE
INVARIANTS FakeInv SnapshotsAreOwn SnapshotIsOwn
PROPERTIES IsVmStore RestoredIsListed
