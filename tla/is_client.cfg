CONSTANTS
  s1 = s1
  s2 = s2
  None = None
  Servers = {s1, s2}
  Lines = 2
  QueueDepth = 1
  NotesDepth = 1
  MaxBackoff = 3
  MaxUpdates = 2
  MaxSessions = 2
SPECIFICATION FairSpec
INVARIANTS StaleOnlyIfMissed
PROPERTIES QueueKept ShutdownCompletes
CHECK_DEADLOCK FALSE
