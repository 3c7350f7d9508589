CONSTANTS
  s1 = s1
  s2 = s2
  r1 = r1
  m1 = m1
  n1 = n1
  NoId = NoId
  NoMount = NoMount
  NoCall = NoCall
  SubjectIds = {s1, s2}
  HandleIds = {}
  Rights = {r1}
  ExternalIds = {}
  Bodies <- MCBodies
  Times <- MCTimes
  MAX_SUBJECTS_PER_SESSION = 2
  MAX_CAPABILITIES_PER_SESSION = 2
  MAX_HANDLES_PER_SESSION = 1
  MAX_DELEGATION_DEPTH = 2
  MAX_SEQUENCE = 1
  MAX_EPOCH = 2
  Threads = {t1, t2, t3}
  Mounts = {m1, m2}
  Nodes = {n1}
  MAX_ATTEMPTS = 1
  InputRequests <- InspectRequests
  InputTargets <- CacheTargets
SYMMETRY ThreadSymmetry
SPECIFICATION MCSpec
INVARIANTS WithdrawnNotCached
CHECK_DEADLOCK FALSE
