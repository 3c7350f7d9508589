CONSTANTS
  r1 = r1
  r2 = r2
  NoId = NoId
  SubjectIds = {s1, s2}
  HandleIds = {}
  Rights = {r1, r2}
  ExternalIds = {}
  Bodies <- DelegationBodies
  Times <- MCTimes
  MAX_SUBJECTS_PER_SESSION = 2
  MAX_CAPABILITIES_PER_SESSION = 3
  MAX_HANDLES_PER_SESSION = 1
  MAX_DELEGATION_DEPTH = 3
  MAX_SEQUENCE = 2
  MAX_EPOCH = 1
SYMMETRY SubjectSymmetry
SPECIFICATION Spec
INVARIANTS DelegationAttenuates ClosedSubjectDisablesSubtree WalksComputeChain
PROPERTIES InactiveStaysInactive EpochGuardsDecisions
CHECK_DEADLOCK FALSE
