CONSTANTS
  l1 = l1
  l2 = l2
  Lanes <- TwoLanes
  MaxFaults = 2
SPECIFICATION Spec
CHECK_DEADLOCK FALSE
INVARIANTS
  TypeOK
  NothingLeftOpen
  JobsKeepTheirServices
  OneJobOvertime
PROPERTIES
  SignalEndsTheApp
