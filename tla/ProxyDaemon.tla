----------------------------- MODULE ProxyDaemon -----------------------------
(***************************************************************************)
(* chuck proxy start, run and stop (cmd/chuck/main.go): the commands find  *)
(* the background process by its pid file, and the process owns the port.  *)
(* A command reads, acts and writes in separate steps; processes crash,    *)
(* and the operating system gives a pid that has become free to others.    *)
(*                                                                         *)
(* An operator named in a parenthesis before a definition is a wrong form  *)
(* of that definition, kept to show that some property notices the bug.    *)
(***************************************************************************)
EXTENDS Integers

CONSTANTS
    Clients,       \* command-line processes
    MaxPids,       \* bound on proxy processes started
    MaxCommands,   \* bound on start and stop commands
    MaxMishaps     \* bound on crashes, reused pids, failed writes

ASSUME DaemonAssumption ==
    MaxPids \in Nat /\ MaxCommands \in Nat /\ MaxMishaps \in Nat

Pids     == 1..MaxPids
NoPid    == 0
Fates    == {"unused", "booting", "serving", "gone", "other"}
Commands == [step : {"idle", "spawn", "record", "terminate", "kill", "unlink"},
             pid : Pids \cup {NoPid}]

VARIABLES
    pidFile,    \* the pid in chuck_proxy.pid, NoPid without such a file
    proc,       \* proc[p]: what runs under pid p; "other" is no proxy
    cmd,        \* the command of each client
    commands,   \* commands left
    reported,   \* processes whose start command failed or was interrupted
    mishaps     \* mishaps left

daemonVars == <<pidFile, proc, cmd, commands, reported, mishaps>>

DaemonTypeOK ==
    /\ pidFile \in Pids \cup {NoPid}
    /\ proc \in [Pids -> Fates]
    /\ cmd \in [Clients -> Commands]
    /\ commands \in 0..MaxCommands
    /\ reported \subseteq Pids
    /\ mishaps \in 0..MaxMishaps

NoCommand == [step |-> "idle", pid |-> NoPid]

DaemonInit ==
    /\ pidFile = NoPid
    /\ proc = [p \in Pids |-> "unused"]
    /\ cmd = [c \in Clients |-> NoCommand]
    /\ commands = MaxCommands
    /\ reported = {}
    /\ mishaps = MaxMishaps

-----------------------------------------------------------------------------
\* Signal 0 reaches any process of that pid, a proxy or not.
\* (AliveNever: no process is ever found.)
AliveNever(p) == FALSE
Alive(p) == p # NoPid /\ proc[p] \in {"booting", "serving", "other"}

\* SIGTERM, which the proxy does not handle, and SIGKILL.
Killed(p) == [proc EXCEPT ![p] = IF Alive(p) THEN "gone" ELSE @]

Serving == {p \in Pids : proc[p] = "serving"}

IssueCommand(c) ==
    /\ cmd[c] = NoCommand
    /\ commands > 0
    /\ commands' = commands - 1

Mishap == mishaps > 0 /\ mishaps' = mishaps - 1

Step(c, step, p) == cmd' = [cmd EXCEPT ![c] = [step |-> step, pid |-> p]]
Done(c)          == cmd' = [cmd EXCEPT ![c] = NoCommand]

-----------------------------------------------------------------------------
(* proxy start: "already running", or a new process and then its pid file. *)

StartCheck(c) ==
    /\ IssueCommand(c)
    /\ IF Alive(pidFile) THEN UNCHANGED cmd ELSE Step(c, "spawn", NoPid)
    /\ UNCHANGED <<pidFile, proc, reported, mishaps>>

Spawn(c) ==
    /\ cmd[c].step = "spawn"
    /\ \E p \in Pids :
         /\ proc[p] = "unused"
         /\ \A q \in 1..(p - 1) : proc[q] # "unused"
         /\ proc' = [proc EXCEPT ![p] = "booting"]
         /\ Step(c, "record", p)
    /\ UNCHANGED <<pidFile, commands, reported, mishaps>>

\* Without a log file, or if the process cannot be started.
SpawnFails(c) ==
    /\ cmd[c].step = "spawn"
    /\ Done(c)
    /\ UNCHANGED <<pidFile, proc, commands, reported, mishaps>>

RecordPid(c) ==
    /\ cmd[c].step = "record"
    /\ pidFile' = cmd[c].pid
    /\ Done(c)
    /\ UNCHANGED <<proc, commands, reported, mishaps>>

\* The file cannot be written, and is perhaps emptied: an error, and the
\* process goes on.
RecordFails(c) ==
    /\ cmd[c].step = "record"
    /\ Mishap
    /\ pidFile' \in {pidFile, NoPid}
    /\ reported' = reported \cup {cmd[c].pid}
    /\ Done(c)
    /\ UNCHANGED <<proc, commands>>

\* A command of any kind is interrupted between two of its steps; the
\* process that a start has spawned goes on, and no file tells its pid.
CommandDies(c) ==
    /\ cmd[c] # NoCommand
    /\ Mishap
    /\ reported' = reported \cup {p \in Pids : cmd[c] = [step |-> "record", pid |-> p]}
    /\ Done(c)
    /\ UNCHANGED <<pidFile, proc, commands>>

-----------------------------------------------------------------------------
(* proxy run: net.Listen on the port or exit.  select {} never returns.    *)

Bind(p) ==
    /\ proc[p] = "booting"
    /\ proc' = [proc EXCEPT ![p] = IF Serving = {} THEN "serving" ELSE "gone"]
    /\ UNCHANGED <<pidFile, cmd, commands, reported, mishaps>>

CrashProcess(p) ==
    /\ proc[p] \in {"booting", "serving"}
    /\ Mishap
    /\ proc' = [proc EXCEPT ![p] = "gone"]
    /\ UNCHANGED <<pidFile, cmd, commands, reported>>

Reuse(p) ==
    /\ proc[p] = "gone"
    /\ Mishap
    /\ proc' = [proc EXCEPT ![p] = "other"]
    /\ UNCHANGED <<pidFile, cmd, commands, reported>>

-----------------------------------------------------------------------------
(* proxy stop: the pid, SIGTERM, half a second later SIGKILL, the file.    *)

StopRead(c) ==
    /\ IssueCommand(c)
    /\ IF pidFile = NoPid THEN UNCHANGED cmd ELSE Step(c, "terminate", pidFile)
    /\ UNCHANGED <<pidFile, proc, reported, mishaps>>

Terminate(c) ==
    /\ cmd[c].step = "terminate"
    /\ proc' = Killed(cmd[c].pid)
    /\ Step(c, "kill", cmd[c].pid)
    /\ UNCHANGED <<pidFile, commands, reported, mishaps>>

KillProcess(c) ==
    /\ cmd[c].step = "kill"
    /\ proc' = Killed(cmd[c].pid)
    /\ Step(c, "unlink", cmd[c].pid)
    /\ UNCHANGED <<pidFile, commands, reported, mishaps>>

Unlink(c) ==
    /\ cmd[c].step = "unlink"
    /\ pidFile' = NoPid
    /\ Done(c)
    /\ UNCHANGED <<proc, commands, reported, mishaps>>

DaemonNext ==
    \/ \E c \in Clients :
         \/ StartCheck(c) \/ Spawn(c) \/ SpawnFails(c) \/ RecordPid(c) \/ RecordFails(c)
         \/ StopRead(c) \/ Terminate(c) \/ KillProcess(c) \/ Unlink(c) \/ CommandDies(c)
    \/ \E p \in Pids : Bind(p) \/ CrashProcess(p) \/ Reuse(p)

DaemonSpec == DaemonInit /\ [][DaemonNext]_daemonVars

-----------------------------------------------------------------------------
(* Properties.                                                             *)

(* The process that serves the port is the one of the pid file whenever no *)
(* command is at work, so that stop and status find it, unless its start   *)
(* has failed or was interrupted: README.md:62 calls it the single daemon. *)
DaemonIsKnown ==
    (\A c \in Clients : cmd[c] = NoCommand) => Serving \subseteq {pidFile} \cup reported
=============================================================================
