CONSTANTS
  p1 = p1
  p2 = p2
  p3 = p3
  Pids = {p1, p2, p3}
  Invalid = Invalid
  CallFaults = {"fork"}
  WaitFaults = {}
  SigchldIgnored = FALSE
  OtherPrograms = FALSE
  HostMayCrash = TRUE
SPECIFICATION FairSpec
INVARIANTS
  TypeOK
  ServingIsSupervised
PROPERTIES
  StopReturns
  KeptAlive
  ImplementsService
