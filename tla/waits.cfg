CONSTANTS
  Ops = {"task", "exec", "agent", "ip", "ready"}
  Timeout = 128
  Interval = 32
  Latencies = {0, 3, 20}
  Slowest = 20
  Horizon = 400
  Faults = {"call", "garbled", "reboot"}
SPECIFICATION Spec
INVARIANTS WaitInv Punctual Truthful NotMissed
PROPERTY Termination
