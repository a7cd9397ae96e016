SPECIFICATION Spec
CONSTANTS
  Ids = {1, 2}
  UsbIds = {1}
  NParts = 2
  NNodes = 4
  Writers = {1, 2}
  MaxOps = 3
  MaxSerial = 4
  Faults = {"malloc", "reuse"}
CHECK_DEADLOCK FALSE
INVARIANTS TypeOK NoDuplicates NoLeak
PROPERTIES InsertExact DeleteExact ReadExact
