CONSTANTS
  p1 = p1
  p2 = p2
  p3 = p3
  Pids = {p1, p2, p3}
  Invalid = Invalid
  CallFaults = {}
  WaitFaults = {}
  SigchldIgnored = FALSE
  OtherPrograms = FALSE
  HostMayCrash = FALSE
SPECIFICATION Spec
INVARIANT StoppedMeansGone
