CONSTANTS
  tnc = tnc
  s1 = s1
  s2 = s2
  None = None
  Devices = {tnc}
  Slots = {s1, s2}
  Frames = 3
  QueueDepth = 2
  NotesDepth = 1
  MaxUpdates = 1
SPECIFICATION FairSpec
INVARIANTS InOrder StaleOnlyIfMissed
PROPERTIES QueueKept EndsCome
