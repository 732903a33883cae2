\* Small configurations of up to four binds, and what a process may meet.
SPECIFICATION MCSpec
CONSTANTS
  Paths <- FileNames
  Conf = {"a", "b"}
  MainFile = "main"
  Disks <- UsedDisks
  MaxLoads = 7
  Addresses <- SocketAddresses
  Abstract = {"@s"}
  Bits <- Permissions
  Worlds <- AllWorlds
  Backends = {"", "stdout", "stderr", "syslog"}
  Levels = {"off", "debug", "info", "warn", "error"}
  DefaultSize = 9
INVARIANTS
  TypeOK
  RequiredPresent
  SettingsKept
  OwnLimit
  OwnSocket
  OneBindKeepsMask
PROPERTIES
  StartDecided
  FailureEndsProgram
  SaneConfigurationServes
  SignalCleansUp
CHECK_DEADLOCK FALSE
