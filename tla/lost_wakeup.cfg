SPECIFICATION FairSpec
CONSTANTS
  c1 = c1
  c2 = c2
  c3 = c3
  temp = temp
  play = play
  None = None
  Client <- Clients2
  Key <- Keys
  Cmd <- Cmds
  MAX_CLINETS = 2
  PoolThreads = 2
  SpuriousWakeups = FALSE
PROPERTIES
  FirstClientWakes
CHECK_DEADLOCK FALSE
