CONSTANTS
  Identities = {i1, i2}
  NoIdentity = NoIdentity
SPECIFICATION FairSpec
PROPERTIES
  ShutdownCompletes
CHECK_DEADLOCK FALSE
