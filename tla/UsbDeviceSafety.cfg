SPECIFICATION Spec
CONSTANTS
  NDisks = 2
  NIds = 3
  QueueCap = 2
  ProbeTries = 1
  RemoveTries = 1
  EventsPerChange = 2
  MaxChanges = 3
  MaxStrayEvents = 1
  Faults = {"malloc", "pthread_create", "msgsnd", "reuse", "rcvbuf"}
CHECK_DEADLOCK FALSE
INVARIANTS TypeOK ListExclusive UniqueIds IdsOwned AddFresh AnnouncedListed
