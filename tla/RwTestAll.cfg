SPECIFICATION MenuSpec
CONSTANTS
  Kinds = {"usb", "sdcard", "flash"}
  AllStart = TRUE
  MaxCmds = 5
  Faults = {"pthread_create"}
CHECK_DEADLOCK FALSE
INVARIANTS TypeOK WorkersStopped OneWorker RecordLive AskedRuns FlashIsolated
PROPERTIES QuitReturns AllStopped
