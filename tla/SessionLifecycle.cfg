CONSTANTS
  Identities = {i1, i2, i3}
  NoIdentity = NoIdentity
SPECIFICATION Spec
INVARIANTS
  TypeOK
  NothingLeaked
  OneSession
  WorkspaceOutlivesUsers
  WorkloadBound
PROPERTIES
  AuthorityWithdrawnFirst
  ReasonStable
CHECK_DEADLOCK FALSE
