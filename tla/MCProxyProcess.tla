--------------------------- MODULE MCProxyProcess ---------------------------
(***************************************************************************)
(* Small instances of ProxyProcess and of ProxyDaemon alone.               *)
(***************************************************************************)
EXTENDS ProxyProcess, TLC
=============================================================================
