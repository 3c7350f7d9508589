CONSTANTS
  r1 = r1
  r2 = r2
  NoId = NoId
  SubjectIds = {s1, s2}
  HandleIds = {h1, h2, h3}
  Rights = {r1, r2}
  ExternalIds = {x1}
  Bodies <- OneBody
  Times <- MCTimes
  MAX_SUBJECTS_PER_SESSION = 2
  MAX_CAPABILITIES_PER_SESSION = 3
  MAX_HANDLES_PER_SESSION = 2
  MAX_DELEGATION_DEPTH = 2
  MAX_SEQUENCE = 1
  MAX_EPOCH = 3
SYMMETRY IdentitySymmetry
SPECIFICATION Spec
INVARIANTS TypeOK ChainsEndAtRoot ClosedSubjectHasNoHandles SequencePrefixIssued
PROPERTIES IdentitiesNeverRebound
CHECK_DEADLOCK FALSE
