SPECIFICATION Spec
CONSTANTS
  DiskId = {1}
  AnyTime = {}
  Capacity = 2
  NParts = 1
  MaxPlugs = 1
  MaxMounts = 2
  Timeout = 2
  Faults = {}
CHECK_DEADLOCK FALSE
INVARIANTS RemovedUnlisted
