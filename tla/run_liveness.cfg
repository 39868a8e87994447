CONSTANTS
  r1 = r1
  r2 = r2
  t1 = t1
  w1 = w1
  w2 = w2
  None = None
  Done = Done
  Runs <- OneRun
  Threads <- OneThread
  ThreadOf <- SameThread
  Workers <- TwoLanes
  MaxAttempts = 2
  Answers = {"empty", "text"}
  Stalls = FALSE
  MaxFaults = 1
SPECIFICATION FairSpec
CHECK_DEADLOCK FALSE
PROPERTY
  EveryRunSettles
