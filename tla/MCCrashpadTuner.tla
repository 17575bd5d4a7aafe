---------------------------- MODULE MCCrashpadTuner ---------------------------
\* CrashpadTuner for TLC: lists of proxies for each way through
\* convertProxies() and isProxyValid().  The list without a supported proxy
\* stands for the empty one too.
EXTENDS CrashpadTuner

MCProxy(type, host, port) == [type |-> type, host |-> host, port |-> port]

MCHttp == MCProxy("HTTP", "a", 1)
MCHttps == MCProxy("HTTPS", "b", 1)

MCLists ==
  {<<MCHttp>>, <<MCHttps, MCHttp>>,
   <<MCProxy("FTP", "a", 1), MCProxy("None", "", 0)>>,
   <<MCProxy("FTP", "a", 1), MCProxy("SOCKS", "a", 65537)>>}
===============================================================================
