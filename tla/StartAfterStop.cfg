CONSTANTS
  p1 = p1
  p2 = p2
  c1 = c1
  c2 = c2
  Pids = {p1, p2}
  Invalid = Invalid
  CallFaults = {}
  WaitFaults = {}
  SigchldIgnored = FALSE
  OtherPrograms = FALSE
  HostMayCrash = FALSE
  Callers = {c1, c2}
  NoCaller = NoCaller
SPECIFICATION SpecP
INVARIANT RestartableAfterStop
