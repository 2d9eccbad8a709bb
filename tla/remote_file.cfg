CONSTANTS
  Writers = {w1}
  Readers = {r1}
  Values = {v1, v2}
  NChunks = 2
  Objects = {o1, o2, o3}
  None = None
  Faults = {"raise", "mv", "lost"}
SPECIFICATION Spec
INVARIANTS FileInv
PROPERTY IsRegister
