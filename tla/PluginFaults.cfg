CONSTANTS
  p1 = p1
  p2 = p2
  c1 = c1
  c2 = c2
  Pids = {p1, p2}
  Invalid = Invalid
  CallFaults = {"fork", "execv", "kill", "thread"}
  WaitFaults = {"ImpossibleError", "WaitInterruptedBySignal", "UnknownStatus"}
  SigchldIgnored = TRUE
  OtherPrograms = TRUE
  HostMayCrash = TRUE
  Callers = {c1, c2}
  NoCaller = NoCaller
SPECIFICATION SpecP
INVARIANTS
  LaunchIsSafe
PROPERTIES
  AbortsOnlyAfterFailedKill
  SuccessIsTrue
  ImplementsController
SYMMETRY Symmetry
