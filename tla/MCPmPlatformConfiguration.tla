----------------------- MODULE MCPmPlatformConfiguration -----------------------
EXTENDS PmPlatformConfiguration

CONSTANTS c1, c2

Trust(rhel, ubuntu, default, keychain, fault, unparsed) ==
  [rhel |-> rhel, ubuntu |-> ubuntu, default |-> default,
   keychain |-> keychain, fault |-> fault, unparsed |-> unparsed]

\* Each bundle the first that can be read, and none of them; keychains with all
\* certificates in order, some or none of them, and each fault.
MCTrusts ==
  {Trust({c1, c2}, {c1}, {}, {c1, c2}, "none", {}),
   Trust({}, {c2}, {c1}, {c1, c2}, "none", {c1}),
   Trust({}, {}, {c1, c2}, {c1}, "none", {c1}),
   Trust({}, {}, {}, {}, "none", {})}
  \cup {Trust({}, {}, {}, {c1}, fault, {}) : fault \in {"open", "status", "locked", "writable"}}

\* The three kinds of calls have no state in common.
MCUses ==
  {{"GetIdentityToken", "GetUcIdentity", "GetPmUrls", "RefreshIdentity"},
   {"ReloadSslCertificates", "GetSslCertificates", "ReleaseSslCertificates"},
   {"StartProxyDiscovery", "StartProxyDiscoveryAsync"}}

MCLength == [short |-> 1, long |-> 2]
MCProxyLists == {<< >>, <<"https">>, <<"socks5", "https">>}
===============================================================================
