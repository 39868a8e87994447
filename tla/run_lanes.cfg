CONSTANTS
  r1 = r1
  r2 = r2
  t1 = t1
  w1 = w1
  w2 = w2
  None = None
  Done = Done
  Runs <- TwoRuns
  Threads <- OneThread
  ThreadOf <- SameThread
  Workers <- TwoLanes
  MaxAttempts = 1
  Answers = {"text"}
  Stalls = FALSE
  MaxFaults = 1
SPECIFICATION Spec
SYMMETRY LaneSymmetry
CHECK_DEADLOCK FALSE
INVARIANTS
  TypeOK
  OneTurnPerThread
  NonterminalIsActive
  AckedIsSettled
PROPERTY
  RefinesLifecycle
