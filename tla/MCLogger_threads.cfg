CONSTANTS
  t1 = t1
  t2 = t2
  home = home
  logs = logs
  Thread = {t1, t2}
  NoThread = none
  Paths = {home, logs}
  DefaultPath = home
  MsgLevels = {2}
  SetLevels = {0, 3}
  MaxCalls = 5
SPECIFICATION Spec
CHECK_DEADLOCK FALSE
INVARIANT OneInstance
INVARIANT FailsOnlyByOverlap
PROPERTY PlacedInPath
PROPERTY CallsReturn
