CONSTANTS
  Bits = 8
  DefaultTimeout = 100
  LargestNumber = 300
  Directories <- MCDirectories
  ConnectStrings <- MCConnectStrings
  Logins <- MCLogins
  LaterStrings <- MCLaterStrings
  NoArgument <- MCNoArgument
  Attributes <- MCAttributes
  ValidNames <- MCValidNames
  Registries <- MCRegistries
  Edits <- MCEdits
  FailAt = {0, 3}
  Junk <- MCJunk
  MaxCalls = 4
SPECIFICATION Spec
CHECK_DEADLOCK FALSE
INVARIANT FirstWins
INVARIANT RefusalIsRecorded
INVARIANT UneditedSurvives
INVARIANT TestPredicts
