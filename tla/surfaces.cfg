SPECIFICATION Spec
CONSTANTS
  MaxHuds = 2
  MaxNews = 3
  MaxRefusals = 1
  Results <- TwoResults
  Chunks = 2
  MaxBridgeFaults = 2
  Quiet <- OneQuiet
  Posted <- OnePosted
  Attempts = 2
  MaxLinkFaults = 2
PROPERTIES
  ArchiveStands
  ResultsReachTheirThread
  LinksAreAnswered
  ProgressIsShown
CHECK_DEADLOCK FALSE
