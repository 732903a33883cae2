\* One configuration with limits at three places.
SPECIFICATION Spec
CONSTANTS
  Paths <- FileNames
  Conf = {"a", "b"}
  MainFile = "main"
  Disks <- LimitDisk
  MaxLoads = 7
  Addresses <- SocketAddresses
  Abstract = {"@s"}
  Bits <- Permissions
  Worlds <- CalmWorld
  Backends = {"", "stdout", "stderr", "syslog"}
  Levels = {"off", "debug", "info", "warn", "error"}
  DefaultSize = 9
INVARIANT
  DocumentedLimits
CHECK_DEADLOCK FALSE
