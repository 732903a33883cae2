\* Two Unix binds with different modes, and nothing that goes wrong.
SPECIFICATION Spec
CONSTANTS
  Paths <- FileNames
  Conf = {"a", "b"}
  MainFile = "main"
  Disks <- OneDisk
  MaxLoads = 7
  Addresses <- SocketAddresses
  Abstract = {"@s"}
  Bits <- Permissions
  Worlds <- CalmWorld
  Backends = {"", "stdout", "stderr", "syslog"}
  Levels = {"off", "debug", "info", "warn", "error"}
  DefaultSize = 9
INVARIANT
  SocketModeAsConfigured
CHECK_DEADLOCK FALSE
