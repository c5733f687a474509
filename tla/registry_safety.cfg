SPECIFICATION Spec
CONSTANTS
  c1 = c1
  c2 = c2
  c3 = c3
  temp = temp
  play = play
  None = None
  Client <- Clients3
  Key <- Keys
  Cmd = {}
  MAX_CLINETS = 1
  PoolThreads = 2
  SpuriousWakeups = TRUE
INVARIANTS
  TypeOK
  NoDuplicates
  SessionsRegistered
  NoGhostFollower
  ClientsBounded
PROPERTIES
  DispatchServesFollowers
  ImplementsFollowTable
SYMMETRY Symmetry
CHECK_DEADLOCK FALSE
