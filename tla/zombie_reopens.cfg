CONSTANTS
  r1 = r1
  r2 = r2
  t1 = t1
  w1 = w1
  w2 = w2
  None = None
  Done = Done
  Runs <- OneRun
  Threads <- OneThread
  ThreadOf <- SameThread
  Workers <- TwoLanes
  MaxAttempts = 2
  Answers = {"text"}
  Stalls = TRUE
  MaxFaults = 2
SPECIFICATION Spec
SYMMETRY LaneSymmetry
CHECK_DEADLOCK FALSE
INVARIANT
  UnleasedRunIsPending
