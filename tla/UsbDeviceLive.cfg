SPECIFICATION FairSpec
CONSTANTS
  NDisks = 2
  NIds = 3
  QueueCap = 2
  ProbeTries = 1
  RemoveTries = 1
  EventsPerChange = 2
  MaxChanges = 4
  MaxStrayEvents = 0
  Faults = {}
CHECK_DEADLOCK FALSE
PROPERTIES PlugAnnounced UnplugUnlisted ImplementsDiskQueue
