SPECIFICATION Spec
CONSTANTS
  m1 = m1
  m2 = m2
  reload = reload
  None = None
  Messages <- TwoMessages
  Commands <- NoCommand
  Reload = reload
  MaxRuntimes = 1
  MaxFaults = 0
PROPERTIES
  ActiveRunIsSteered
CHECK_DEADLOCK FALSE
