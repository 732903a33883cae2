\* Three processes, either overlapping and killed or one after the other.
SPECIFICATION FairSpec
CONSTANTS
  a = a
  b = b
  c = c
  Nobody = Nobody
  NoFile = NoFile
  Servers = {a, b, c}
  Inodes = {1, 2, 3, 4}
  Modes <- SafeModes
INVARIANTS
  TypeOK
  OneHolder
  ServerReachable
PROPERTIES
  LeftoversDoNotBlock
  StartSucceedsAlone
  OneServerAtATime
CHECK_DEADLOCK FALSE
