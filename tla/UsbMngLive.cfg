SPECIFICATION FairSpec
CONSTANTS
  DiskId = {1, 2}
  AnyTime = {}
  Capacity = 1
  NParts = 1
  MaxPlugs = 2
  MaxMounts = 2
  Timeout = 1
  Faults = {}
CHECK_DEADLOCK FALSE
PROPERTIES MountedListed
