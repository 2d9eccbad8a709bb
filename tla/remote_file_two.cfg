CONSTANTS
  Writers = {w1, w2}
  Readers = {r1}
  Values = {v1, v2}
  NChunks = 2
  Objects = {o1, o2, o3}
  None = None
  Faults = {}
SPECIFICATION Spec
INVARIANT PathWhole
