CONSTANTS
  Platforms = {"linux", "macOS"}
  c1 = c1
  c2 = c2
  Certs = {c1, c2}
  Objects = {1, 2, 3, 4, 5, 6}
  Trusts <- MCTrusts
  MaxHeld = 2
  Identities = {"short", "long"}
  Length <- MCLength
  ProxyLists <- MCProxyLists
  MaxRequests = 3
  Uses <- MCUses

SPECIFICATION FairSpec

INVARIANTS TypeOK CertificatesStayValid IdentityIsTrue CallbackMapIsSafe
PROPERTIES ImplementsRequests
