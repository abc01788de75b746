---------------------------- MODULE ProxyProcess ----------------------------
(***************************************************************************)
(* The proxy process as a whole: the upgrade listener lives exactly as     *)
(* long as a process serves the port.  proxy run binds the port before it  *)
(* starts the listener (internal/proxy, Start), and whatever ends the      *)
(* process ends the listener and its goroutines.                           *)
(***************************************************************************)
EXTENDS ProxyDaemon, UpgradeListener

processVars == <<daemonVars, listenerVars>>

ProcessInit == DaemonInit /\ Init

\* The part of the listener in a step of the daemon.
Follow ==
    \/ Serving = {} /\ Serving' # {} /\ Boot
    \/ Serving # {} /\ Serving' = {} /\ Die
    \/ (Serving = {}) = (Serving' = {}) /\ UNCHANGED listenerVars

ProcessNext ==
    \/ DaemonNext /\ Follow
    \/ ListenerNext /\ UNCHANGED daemonVars

ProcessSpec == ProcessInit /\ [][ProcessNext]_processVars /\ ListenerFairness

-----------------------------------------------------------------------------
(* Properties.                                                             *)

(* Type correctness of both parts: pid file, processes and commands, and   *)
(* the listener with its queue and goroutines.                             *)
ProcessTypeOK == DaemonTypeOK /\ TypeOK

(* A table that an application writes again and again becomes an overlay   *)
(* in the end and stays one, although any finite number of connections,    *)
(* goroutines and processes fails, as long as in the end a process serves  *)
(* and the branch stays (proxy.go:83, the reconnecting loop).  A write     *)
(* that nobody hears of changes nothing but the first time, so that the    *)
(* persistence of the application is a fairness condition.                 *)
Stays(v) == Serving # {} /\ branch[v[1]] = "active"
WrittenTablesUpgrade ==
    \A v \in Views :
        <>[]Stays(v) /\ SF_listenerVars(Write(v)) => <>[](v \in overlay)

(* A notification that reached the listener ends with the view upgraded    *)
(* and is_dirty set, unless something fails or the branch goes away        *)
(* (proxy_test.go:122 looks at the flag after one write).                  *)
RequestsAreServed ==
    \A v \in Views :
        v \in Queued ~> \/ v \in overlay /\ v \in dirty
                        \/ branch[v[1]] # "active"
                        \/ faults < MaxFaults
                        \/ Serving = {}
=============================================================================
