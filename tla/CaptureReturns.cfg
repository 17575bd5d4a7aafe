CONSTANTS
  PipeSize = 3
  ReadSize = 2
  Outputs <- ShortOutputs
  Faults = {}
  StatusMayBeLost = FALSE
SPECIFICATION FairSpec
PROPERTIES
  CaptureReturns
