CONSTANTS
  Clients = {1, 2}
  Ops <- MCEnsure
  Nodes = {"n1", "n2"}
  NoNode = "none"
  Pin <- MCPin
  Target <- MCTarget
  Template = 101
  LastId = 103
  MaxCalls <- MCOneCall
  Faults = {}
SPECIFICATION Spec
CHECK_DEADLOCK FALSE
PROPERTY ConfiguredWhileStopped
