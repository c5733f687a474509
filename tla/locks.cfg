SPECIFICATION FairSpec
CONSTANTS
  p = p
  t1 = t1
  t2 = t2
  Process <- Processes
  App <- Apps
  ProcessOf <- Home
  Iot = iot_thread
  None = None
INVARIANTS
  TypeOK
  CircularWaitNeedsCallback
  LeafCallbacksSafe
PROPERTIES
  CallsReturn
CHECK_DEADLOCK FALSE
