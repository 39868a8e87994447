CONSTANTS
  a = a
  b = b
  x = x
  t1 = t1
  None = None
  Nobody = Nobody
  Repo = Repo
  Releases <- TwoReleases
  Runs <- OneRun
  Threads <- OneThread
  MaxConfig = 2
  MaxCommands = 2
  MaxFaults = 1
SPECIFICATION Spec
SYMMETRY ReleaseSymmetry
CHECK_DEADLOCK FALSE
INVARIANTS
  TypeOK
  OneDaemon
  CurrentIsRunnable
  ConfigIsKept
  HarmlessUntilFlipped
  FlippedDeployIsCompensated
  RollbackRestores
  GoodDeployRuns
  GoodDeployLostNothing
