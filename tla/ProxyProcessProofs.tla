-------------------------- MODULE ProxyProcessProofs --------------------------
(***************************************************************************)
(* Proofs about ProxyDaemon and ProxyProcess: types, for any number of     *)
(* clients, and that one client at a time never loses sight of the process *)
(* that serves, for any number of commands, processes, crashes and reused  *)
(* pids.  The two parts of ProxyProcess keep what each of them keeps alone,*)
(* since a step of the whole is a step or a stutter of each.               *)
(***************************************************************************)
EXTENDS ProxyProcess, UpgradeListenerProofs

\* Commands do not overlap.
OneClient == \A c, d \in Clients : c = d

-----------------------------------------------------------------------------
(* ProxyDaemon: the inductive invariant.                                   *)

\* Processes that serve the port, or may come to serve it.
Live == {p \in Pids : proc[p] \in {"booting", "serving"}}

\* Where the live processes are known from, at each step of a command.
KnownAt(c) ==
    CASE cmd[c].step = "idle"      -> {pidFile} \cup reported
      [] cmd[c].step = "record"    -> {cmd[c].pid} \cup reported
      [] cmd[c].step = "terminate" -> ({cmd[c].pid} \cap {pidFile}) \cup reported
      [] OTHER                     -> reported

\* A pid that is about to be written is one.
DaemonTypeInv ==
    /\ DaemonTypeOK
    /\ \A c \in Clients : cmd[c].step = "record" => cmd[c].pid \in Pids

\* Somebody must have started a live process.
KnownInv ==
    /\ \A c \in Clients : Live \subseteq KnownAt(c)
    /\ Clients = {} => Live = {}

-----------------------------------------------------------------------------
(* Facts.                                                                  *)

(* A client without a command is at the step idle.                         *)
LEMMA NoCommandType ==
    NoCommand \in Commands /\ NoCommand.step = "idle"
BY DEF NoCommand, Commands

(* A step of a command leaves the other clients alone.                     *)
LEMMA CommandMoves ==
    ASSUME DaemonTypeOK, NEW c \in Clients, NEW r \in Commands, cmd' = [cmd EXCEPT ![c] = r]
    PROVE  /\ cmd' \in [Clients -> Commands] /\ cmd'[c] = r
           /\ \A d \in Clients : d # c => cmd'[d] = cmd[d]
BY DEF DaemonTypeOK

(* Each step keeps the types.                                              *)
LEMMA DaemonTypeKept ==
    ASSUME DaemonTypeInv, [DaemonNext]_daemonVars
    PROVE  DaemonTypeInv'
<1> USE NoCommandType
<1>1. CASE UNCHANGED daemonVars
  BY <1>1 DEF DaemonTypeInv, DaemonTypeOK, daemonVars
<1>2. ASSUME NEW c \in Clients, StartCheck(c) \/ StopRead(c) PROVE DaemonTypeInv'
  <2>1. commands' \in 0..MaxCommands
    BY <1>2, DaemonAssumption DEF StartCheck, StopRead, IssueCommand, DaemonTypeInv, DaemonTypeOK
  <2>2. UNCHANGED cmd \/ \E r \in Commands : r.step # "record" /\ cmd' = [cmd EXCEPT ![c] = r]
    BY <1>2 DEF StartCheck, StopRead, Step, DaemonTypeInv, DaemonTypeOK, Commands
  <2>3. /\ cmd' \in [Clients -> Commands]
        /\ \A d \in Clients : cmd'[d].step = "record" => cmd'[d].pid \in Pids
    BY <2>2, CommandMoves DEF DaemonTypeInv, DaemonTypeOK
  <2> QED
    BY <1>2, <2>1, <2>3 DEF StartCheck, StopRead, DaemonTypeInv, DaemonTypeOK, Pids
<1>3. ASSUME NEW c \in Clients, Spawn(c) PROVE DaemonTypeInv'
  <2>1. PICK p \in Pids : proc' = [proc EXCEPT ![p] = "booting"] /\ Step(c, "record", p)
    BY <1>3 DEF Spawn
  <2>2. proc' \in [Pids -> Fates]
    BY <2>1 DEF DaemonTypeInv, DaemonTypeOK, Fates
  <2>3. [step |-> "record", pid |-> p] \in Commands
    BY DEF Commands
  <2>4. /\ cmd' \in [Clients -> Commands]
        /\ \A d \in Clients : cmd'[d].step = "record" => cmd'[d].pid \in Pids
    BY <2>1, <2>3, CommandMoves DEF Step, DaemonTypeInv
  <2> QED
    BY <1>3, <2>2, <2>4 DEF Spawn, DaemonTypeInv, DaemonTypeOK, Pids
<1>4. ASSUME NEW c \in Clients,
             \/ SpawnFails(c) \/ RecordPid(c) \/ RecordFails(c) \/ Unlink(c)
             \/ CommandDies(c)
      PROVE  DaemonTypeInv'
  <2>1. cmd' = [cmd EXCEPT ![c] = NoCommand]
    BY <1>4 DEF SpawnFails, RecordPid, RecordFails, Unlink, CommandDies, Done
  <2>2. /\ cmd' \in [Clients -> Commands]
        /\ \A d \in Clients : cmd'[d].step = "record" => cmd'[d].pid \in Pids
    BY <2>1, CommandMoves DEF DaemonTypeInv
  <2>3. UNCHANGED <<proc, commands>>
    BY <1>4 DEF SpawnFails, RecordPid, RecordFails, Unlink, CommandDies
  <2>4. pidFile' \in Pids \cup {NoPid} /\ reported' \subseteq Pids
    BY <1>4 DEF SpawnFails, RecordPid, RecordFails, Unlink, CommandDies, DaemonTypeInv, DaemonTypeOK
  <2>5. mishaps' \in 0..MaxMishaps
    BY <1>4, DaemonAssumption
       DEF SpawnFails, RecordPid, RecordFails, Unlink, CommandDies, Mishap, DaemonTypeInv, DaemonTypeOK
  <2> QED
    BY <2>2, <2>3, <2>4, <2>5 DEF DaemonTypeInv, DaemonTypeOK, Pids
<1>5. ASSUME NEW c \in Clients, Terminate(c) \/ KillProcess(c) PROVE DaemonTypeInv'
  <2>1. \E r \in Commands : r.step # "record" /\ cmd' = [cmd EXCEPT ![c] = r]
    BY <1>5 DEF Terminate, KillProcess, Step, DaemonTypeInv, DaemonTypeOK, Commands
  <2>2. /\ cmd' \in [Clients -> Commands]
        /\ \A d \in Clients : cmd'[d].step = "record" => cmd'[d].pid \in Pids
    BY <2>1, CommandMoves DEF DaemonTypeInv
  <2>3. proc' \in [Pids -> Fates]
    BY <1>5 DEF Terminate, KillProcess, Killed, DaemonTypeInv, DaemonTypeOK, Fates
  <2> QED
    BY <1>5, <2>2, <2>3 DEF Terminate, KillProcess, DaemonTypeInv, DaemonTypeOK, Pids
<1>6. ASSUME NEW p \in Pids, Bind(p) \/ CrashProcess(p) \/ Reuse(p) PROVE DaemonTypeInv'
  <2>1. mishaps' \in 0..MaxMishaps
    BY <1>6, DaemonAssumption
       DEF Bind, CrashProcess, Reuse, Mishap, DaemonTypeInv, DaemonTypeOK
  <2>2. proc' \in [Pids -> Fates]
    BY <1>6 DEF Bind, CrashProcess, Reuse, DaemonTypeInv, DaemonTypeOK, Fates
  <2> QED
    BY <1>6, <2>1, <2>2 DEF Bind, CrashProcess, Reuse, DaemonTypeInv, DaemonTypeOK, Pids
<1> QED
  BY <1>1, <1>2, <1>3, <1>4, <1>5, <1>6 DEF DaemonNext

(* At the start nothing lives, so all that lives is known.                 *)
LEMMA DaemonInitTyped ==
    ASSUME DaemonInit
    PROVE  DaemonTypeInv /\ KnownInv
<1>1. DaemonTypeInv
  BY NoCommandType, DaemonAssumption DEF DaemonInit, DaemonTypeInv, DaemonTypeOK, Fates, Pids
<1>2. Live = {}
  BY DEF DaemonInit, Live
<1> QED
  BY <1>1, <1>2 DEF KnownInv

-----------------------------------------------------------------------------
(* One client.                                                             *)

(* Whatever the one client does next, it knows where the live processes    *)
(* are.                                                                    *)
LEMMA KnownKept ==
    ASSUME OneClient, DaemonTypeInv, KnownInv, [DaemonNext]_daemonVars
    PROVE  KnownInv'
<1>1. CASE UNCHANGED daemonVars
  BY <1>1 DEF KnownInv, KnownAt, Live, daemonVars
<1>2. ASSUME NEW p \in Pids, Bind(p) \/ CrashProcess(p) \/ Reuse(p) PROVE KnownInv'
  <2>1. UNCHANGED <<pidFile, cmd, reported>>
    BY <1>2 DEF Bind, CrashProcess, Reuse
  <2>2. Live' \subseteq Live
    BY <1>2 DEF Bind, CrashProcess, Reuse, Live, DaemonTypeInv, DaemonTypeOK
  <2> QED
    BY <2>1, <2>2 DEF KnownInv, KnownAt
<1>3. ASSUME NEW c \in Clients, UNCHANGED cmd, StartCheck(c) \/ StopRead(c) PROVE KnownInv'
  BY <1>3 DEF StartCheck, StopRead, KnownInv, KnownAt, Live
<1>4. SUFFICES ASSUME NEW c \in Clients,
                      \/ StartCheck(c) \/ Spawn(c) \/ SpawnFails(c) \/ RecordPid(c)
                      \/ RecordFails(c) \/ StopRead(c) \/ Terminate(c) \/ KillProcess(c)
                      \/ Unlink(c) \/ CommandDies(c),
                      cmd' # cmd
               PROVE  Live' \subseteq KnownAt(c)'
  <2>1. ASSUME NEW c \in Clients, Live' \subseteq KnownAt(c)' PROVE KnownInv'
    BY <2>1 DEF OneClient, KnownInv
  <2>2. ASSUME NEW c \in Clients, UNCHANGED cmd,
               \/ Spawn(c) \/ SpawnFails(c) \/ RecordPid(c)
               \/ RecordFails(c) \/ Terminate(c) \/ KillProcess(c) \/ Unlink(c)
               \/ CommandDies(c)
        PROVE  FALSE
    <3>1. cmd[c] \in Commands /\ cmd'[c].step # cmd[c].step
      BY <2>2, NoCommandType, CommandMoves
         DEF Spawn, SpawnFails, RecordPid, RecordFails, Terminate, KillProcess, Unlink, CommandDies, Step, Done,
             DaemonTypeInv, DaemonTypeOK
    <3> QED
      BY <2>2, <3>1
  <2> QED
    BY <1>1, <1>2, <1>3, <2>1, <2>2 DEF DaemonNext
<1>5. cmd[c] \in Commands /\ Live \subseteq KnownAt(c)
  BY DEF DaemonTypeInv, DaemonTypeOK, KnownInv
<1>6. CASE StartCheck(c)
  <2>1. /\ cmd[c].step = "idle" /\ ~Alive(pidFile) /\ Step(c, "spawn", NoPid)
        /\ UNCHANGED <<pidFile, proc, reported>>
    BY <1>4, <1>6, NoCommandType DEF StartCheck, IssueCommand
  <2>2. pidFile \notin Live
    BY <2>1 DEF Alive, Live, Pids, NoPid
  <2>3. Live \subseteq reported
    BY <1>5, <2>1, <2>2 DEF KnownAt
  <2>4. cmd'[c].step = "spawn"
    BY <2>1 DEF Step, DaemonTypeInv, DaemonTypeOK
  <2> QED
    BY <2>1, <2>3, <2>4 DEF KnownAt, Live
<1>7. CASE Spawn(c)
  <2>1. PICK p \in Pids : proc' = [proc EXCEPT ![p] = "booting"] /\ Step(c, "record", p)
    BY <1>7 DEF Spawn
  <2>2. UNCHANGED reported /\ Live \subseteq reported
    BY <1>5, <1>7 DEF Spawn, KnownAt
  <2>3. Live' \subseteq Live \cup {p}
    BY <2>1 DEF Live, DaemonTypeInv, DaemonTypeOK
  <2>4. cmd'[c].step = "record" /\ cmd'[c].pid = p
    BY <2>1 DEF Step, DaemonTypeInv, DaemonTypeOK
  <2> QED
    BY <2>2, <2>3, <2>4 DEF KnownAt
<1>8. CASE SpawnFails(c) \/ RecordPid(c) \/ RecordFails(c) \/ Unlink(c) \/ CommandDies(c)
  <2>1. cmd'[c].step = "idle" /\ Live' = Live
    BY <1>8, NoCommandType
       DEF SpawnFails, RecordPid, RecordFails, Unlink, CommandDies, Done, Live, DaemonTypeInv, DaemonTypeOK
  <2>2. Live \subseteq {pidFile'} \cup reported'
    <3>1. CASE ~CommandDies(c)
      BY <1>5, <1>8, <3>1 DEF SpawnFails, RecordPid, RecordFails, Unlink, KnownAt
    <3>2. CASE CommandDies(c) /\ cmd[c].step = "record"
      <4>1. cmd[c].pid \in Pids /\ cmd[c] = [step |-> "record", pid |-> cmd[c].pid]
        BY <1>5, <3>2 DEF DaemonTypeInv, Commands
      <4>2. reported' = reported \cup {p \in Pids : cmd[c] = [step |-> "record", pid |-> p]}
        BY <3>2 DEF CommandDies
      <4> QED
        BY <1>5, <3>2, <4>1, <4>2 DEF KnownAt
    <3>3. CASE CommandDies(c) /\ cmd[c].step # "record"
      <4>1. UNCHANGED pidFile /\ reported \subseteq reported'
        BY <3>3 DEF CommandDies
      <4> QED
        BY <1>5, <3>3, <4>1 DEF KnownAt
    <3> QED
      BY <3>1, <3>2, <3>3
  <2> QED
    BY <2>1, <2>2 DEF KnownAt
<1>9. CASE StopRead(c)
  <2>1. /\ cmd[c].step = "idle" /\ Step(c, "terminate", pidFile)
        /\ UNCHANGED <<pidFile, proc, reported>>
    BY <1>4, <1>9, NoCommandType DEF StopRead, IssueCommand
  <2>2. cmd'[c].step = "terminate" /\ cmd'[c].pid = pidFile
    BY <2>1 DEF Step, DaemonTypeInv, DaemonTypeOK
  <2> QED
    BY <1>5, <2>1, <2>2 DEF KnownAt, Live
<1>10. CASE Terminate(c) \/ KillProcess(c)
  <2>1. proc' = Killed(cmd[c].pid) /\ UNCHANGED reported
    BY <1>10 DEF Terminate, KillProcess
  <2>2. Live' \subseteq Live \ {cmd[c].pid}
    BY <2>1 DEF Killed, Alive, Live, DaemonTypeInv, DaemonTypeOK, Pids, NoPid
  <2>3. Live \subseteq {cmd[c].pid} \cup reported
    BY <1>5, <1>10 DEF Terminate, KillProcess, KnownAt
  <2>4. cmd'[c].step \in {"kill", "unlink"}
    BY <1>10 DEF Terminate, KillProcess, Step, DaemonTypeInv, DaemonTypeOK
  <2> QED
    BY <2>1, <2>2, <2>3, <2>4 DEF KnownAt
<1> QED
  BY <1>4, <1>6, <1>7, <1>8, <1>9, <1>10

(* A process that serves is live.                                          *)
LEMMA KnownIsKnown ==
    ASSUME KnownInv
    PROVE  DaemonIsKnown
<1> SUFFICES ASSUME \A c \in Clients : cmd[c] = NoCommand
             PROVE  Serving \subseteq {pidFile} \cup reported
  BY DEF DaemonIsKnown
<1>1. Serving \subseteq Live
  BY DEF Serving, Live
<1>2. \A c \in Clients : KnownAt(c) = {pidFile} \cup reported
  BY NoCommandType DEF KnownAt
<1> QED
  BY <1>1, <1>2 DEF KnownInv

-----------------------------------------------------------------------------
(* ProxyDaemon: the theorems.                                              *)

(* Pid file, processes and commands are well typed.                        *)
THEOREM DaemonTypeCorrect == DaemonSpec => []DaemonTypeOK
<1>1. DaemonInit => DaemonTypeInv
  BY DaemonInitTyped
<1>2. DaemonTypeInv /\ [DaemonNext]_daemonVars => DaemonTypeInv'
  BY DaemonTypeKept
<1>3. DaemonTypeInv => DaemonTypeOK
  BY DEF DaemonTypeInv
<1> QED
  BY <1>1, <1>2, <1>3, PTL DEF DaemonSpec

(* With one client at a time the process that serves is the one of the pid *)
(* file, or one whose start was reported as failed, through any sequence   *)
(* of starts, stops, crashes and reused pids (main.go:775-884).            *)
THEOREM ServingIsKnown == OneClient => (DaemonSpec => []DaemonIsKnown)
<1> SUFFICES ASSUME OneClient PROVE DaemonSpec => []DaemonIsKnown
  OBVIOUS
<1>1. DaemonInit => DaemonTypeInv /\ KnownInv
  BY DaemonInitTyped
<1>2. DaemonTypeInv /\ KnownInv /\ [DaemonNext]_daemonVars => (DaemonTypeInv /\ KnownInv)'
  BY DaemonTypeKept, KnownKept
<1>3. DaemonTypeInv /\ KnownInv => DaemonIsKnown
  BY KnownIsKnown
<1> QED
  BY <1>1, <1>2, <1>3, PTL DEF DaemonSpec

-----------------------------------------------------------------------------
(* ProxyProcess.                                                           *)

(* The daemon does not notice the listener.                                *)
LEMMA ProcessImplementsDaemon == ProcessSpec => DaemonSpec
<1>1. ProcessInit => DaemonInit
  BY DEF ProcessInit
<1>2. [ProcessNext]_processVars => [DaemonNext]_daemonVars
  BY DEF ProcessNext, processVars
<1> QED
  BY <1>1, <1>2, PTL DEF ProcessSpec, DaemonSpec

(* To the listener the process comes and goes.                             *)
LEMMA ProcessImplementsListener == ProcessSpec => Spec
<1>1. ProcessInit => Init
  BY DEF ProcessInit
<1>2. [ProcessNext]_processVars => [Next]_listenerVars
  <2>1. DaemonNext /\ Follow => [Next]_listenerVars
    BY DEF Follow, Next
  <2>2. ListenerNext => Next
    BY DEF Next
  <2> QED
    BY <2>1, <2>2 DEF ProcessNext, processVars
<1> QED
  BY <1>1, <1>2, PTL DEF ProcessSpec, Spec

(* The whole is well typed.                                                *)
THEOREM ProcessTypeCorrect == ProcessSpec => []ProcessTypeOK
<1>1. DaemonTypeOK /\ TypeOK => ProcessTypeOK
  BY DEF ProcessTypeOK
<1> QED
  BY <1>1, ProcessImplementsDaemon, ProcessImplementsListener, DaemonTypeCorrect,
     ListenerTypeCorrect, PTL

(* With one client at a time, the process that serves is known.            *)
THEOREM ProcessIsKnown == OneClient => (ProcessSpec => []DaemonIsKnown)
<1> SUFFICES ASSUME OneClient PROVE ProcessSpec => []DaemonIsKnown
  OBVIOUS
<1>1. DaemonSpec => []DaemonIsKnown
  BY ServingIsKnown
<1> QED
  BY <1>1, ProcessImplementsDaemon, PTL

(* Through crashes, stops and starts of the process too, no write is       *)
(* forgotten.                                                              *)
THEOREM ProcessForgetsNoWrite == ProcessSpec => []NothingForgotten
BY ProcessImplementsListener, NoWriteForgotten, PTL

(* The proxy as a whole is the upgrade service the data plane relies on.   *)
THEOREM ProcessImplementsViewUpgrade == ProcessSpec => ImplementsViewUpgrade
BY ProcessImplementsListener, ListenerImplementsViewUpgrade, PTL
=============================================================================
