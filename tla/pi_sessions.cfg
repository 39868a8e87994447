SPECIFICATION Spec
CONSTANTS
  m1 = m1
  m2 = m2
  reload = reload
  None = None
  Messages <- TwoMessages
  Commands <- OneCommand
  Reload = reload
  MaxRuntimes = 2
  MaxFaults = 1
INVARIANTS
  TypeOK
  OneTurn
  TurnIsReachable
  NoOrphanRuntime
  QuietThreadIsIdle
PROPERTIES
  LoneTurnIsSafe
  RecoveredAnswerIsItsOwn
  PromptsSettle
CHECK_DEADLOCK FALSE
