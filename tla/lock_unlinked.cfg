\* Two processes, one of which fails while the other one starts.
SPECIFICATION Spec
CONSTANTS
  a = a
  b = b
  c = c
  Nobody = Nobody
  NoFile = NoFile
  Servers = {a, b}
  Inodes = {1, 2, 3}
  Modes <- FailingModes
INVARIANT
  ServerReachable
CHECK_DEADLOCK FALSE
