SPECIFICATION Spec
CONSTANTS
  DiskId = {1, 2}
  AnyTime = {}
  Capacity = 2
  NParts = 1
  MaxPlugs = 2
  MaxMounts = 1
  Timeout = 1
  Faults = {"malloc", "pthread_create"}
CHECK_DEADLOCK FALSE
INVARIANTS TypeOK OneLiveThread RunStateAgrees
