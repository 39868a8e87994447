SPECIFICATION Spec
CONSTANTS
  m1 = m1
  m2 = m2
  m3 = m3
  t1 = t1
  w1 = w1
  w2 = w2
  None = None
  Done = Done
  Runs <- ThreeMessages
  Threads <- OneThread
  ThreadOf <- SameThread
  Workers <- OneLane
  MaxAttempts = 1
  Batch = 1
  MaxApply = 2
  MaxHandlers = 1
  MaxFaults = 1
PROPERTIES
  InputsAreHeard
  RegistrySettles
CHECK_DEADLOCK FALSE
