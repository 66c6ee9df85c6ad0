CONSTANTS
  Rereaders = {rf}
  Appliers = {gps}
  rf = rf
  gps = gps
  QueueCap = 2
  BlockSize = 2
  LastId = 5
  MaxRevision = 4
  MaxRestarts = 1
SPECIFICATION FairSpec
INVARIANTS NoIdTwice AnnouncedIsDurable ApplierStaleOnlyIfMixedUp
 
