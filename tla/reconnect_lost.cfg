SPECIFICATION FairSpec
CONSTANTS
  temp = temp
  play = play
  a1 = a1
  a2 = a2
  b1 = b1
  b2 = b2
  s1 = s1
  s2 = s2
  s3 = s3
  s4 = s4
  s5 = s5
  s6 = s6
  s7 = s7
  s8 = s8
  Key <- Keys1
  Cmd = {}
  App <- App1
  Binder <- Binder1
  Session <- Sessions8
  NULL = NULL
  MaxRestarts = 2
  MayRefuse = FALSE
PROPERTIES
  Reconnects
CHECK_DEADLOCK FALSE
