CONSTANTS
  Packets <- AirPackets
  Me = me
  None = none
  Bulletins <- BulletinNames
  me = me
  a = a
  relay = relay
  bln = bln
  none = none
  SubBuffer = 2
  DupeWindow = 1
  IdWindow = 1
  BodyWindow = 3
  Minute = 2
  Timeout = 3
  Threshold = 2
  MaxFrames = 4
  MaxRestarts = 1
  MaxFailures = 1
SPECIFICATION Spec
INVARIANTS NothingTwice AckedIsStored ViaIsHonest
PROPERTIES OnlyTheNoisyIsBlocked
