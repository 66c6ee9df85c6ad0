CONSTANTS
  Traffic <- Packets
  Configs <- SavedLists
  Us = me
  Local <- Heard
  me = me
  a = a
  b = b
  all = all
  pages = pages
  noText = noText
  RunBuffer = 1
  QueueDepth = 1
  PoolSize = 2
  MaxAttempts = 2
  MaxPackets = 2
  MaxSaves = 1
  MaxPanics = 1
SPECIFICATION FairWebhookSpec
INVARIANTS EventsAccounted
PROPERTIES EventsSettle
CHECK_DEADLOCK FALSE
