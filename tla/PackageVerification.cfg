SPECIFICATION Spec
CONSTANTS
  k1 = k1
  k2 = k2
  p1 = p1
  p2 = p2
  p3 = p3
  Platforms = {"rpm", "deb"}
  Keys = {k1, k2}
  ShortKeys = {k2}
  Pubkeys = {p1, p2, p3}
  IsOf <- MCIsOf
  DirNames = {d1, d2}
  MaxAttempts = 2
  MaxEvents = 2
  MaxCalls = 2
  GpgFaults = {"command", "gpgme", "create", "remove"}
INVARIANTS VerifiedIsTrusted TrustedIsVerified HomeIsOwn
CHECK_DEADLOCK FALSE
