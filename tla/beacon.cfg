SPECIFICATION Spec
CONSTANTS
  a = a
  b = b
  position = position
  Off = Off
  Idle = Idle
  Receivers = {a, b}
  Names = {position}
  Settings <- MCSettings
  NotesDepth = 1
  LiveWindow = 1
  MaxFixAge = 2
  Cap = 5
  MinInterval = 2
  JitterPart = 4
  MaxQueries = 1
INVARIANTS LockIsEarned PositionIsFresh
PROPERTIES Spaced
