----------------------------- MODULE MCProxyConn -----------------------------
(***************************************************************************)
(* Small instances of ProxyConn.                                           *)
(***************************************************************************)
EXTENDS ProxyConn, TLC
=============================================================================
