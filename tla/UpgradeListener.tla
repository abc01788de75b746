--------------------------- MODULE UpgradeListener ---------------------------
(***************************************************************************)
(* The view-upgrade listener of the proxy process (internal/proxy,         *)
(* listenForUpgrades): one connection that LISTENs on chuck_write, and one *)
(* goroutine per notification with statements of its own on the metadata   *)
(* and on the branch schema.  Beside it applications write to the branch   *)
(* views, branches are created, merged, dropped and created again under    *)
(* the same name, connections fail, and the process itself comes and goes. *)
(*                                                                         *)
(* An operator named in a parenthesis before a definition is a wrong form  *)
(* of that definition, kept to show that some property notices the bug.    *)
(***************************************************************************)
EXTENDS Integers, Sequences

CONSTANTS
    Names,        \* branch names; a name stands for the schema chuck_<name> too
    Tables,       \* tracked tables
    Slots,        \* goroutines that may run at once (bound)
    MaxCreated,   \* bound on branches created
    MaxQueue,     \* bound on notifications not yet received
    MaxFaults,    \* bound on failures
    Malformed,    \* a payload that is not schema.table
    Nothing       \* no goroutine

Views    == Names \X Tables
Payloads == Views \cup {Malformed}
Steps    == {"inspect", "upgrade", "mark"}
Jobs     == [view : Views, step : Steps]
Links    == {"down", "connecting", "connected", "listening"}

ASSUME ListenerAssumption ==
    /\ Malformed \notin Views
    /\ Nothing \notin Jobs
    /\ MaxCreated \in Nat /\ MaxQueue \in Nat /\ MaxFaults \in Nat

VARIABLES
    branch,     \* branch[n]: the branch that holds name n
    created,    \* branches created so far
    overlay,    \* views that are overlays
    dirty,      \* views whose branch_tables row has is_dirty
    written,    \* views whose delta table has rows
    link,       \* the listener's connection
    queue,      \* notifications sent to it and not yet received
    job,        \* the goroutines
    faults,     \* failures left
    missed      \* views of which a request was lost since the branch exists

branchVars   == <<branch, created, overlay, dirty, written>>
listenerVars == <<branchVars, link, queue, job, faults, missed>>

TypeOK ==
    /\ branch \in [Names -> {"none", "active", "merged"}]
    /\ created \in 0..MaxCreated
    /\ overlay \subseteq Views
    /\ dirty \subseteq Views
    /\ written \subseteq Views
    /\ link \in Links
    /\ queue \in Seq(Payloads)
    /\ job \in [Slots -> Jobs \cup {Nothing}]
    /\ faults \in 0..MaxFaults
    /\ missed \subseteq Views

Init ==
    /\ branch = [n \in Names |-> "none"]
    /\ created = 0
    /\ overlay = {}
    /\ dirty = {}
    /\ written = {}
    /\ link = "down"
    /\ queue = <<>>
    /\ job = [s \in Slots |-> Nothing]
    /\ faults = MaxFaults
    /\ missed = {}

-----------------------------------------------------------------------------
ViewsOf(n) == {v \in Views : v[1] = n}
Queued     == {queue[i] : i \in 1..Len(queue)} \ {Malformed}
\* Views that some goroutine has still to upgrade.
BeingDone  == {v \in Views : \E s \in Slots : /\ job[s] # Nothing
                                              /\ job[s].view = v
                                              /\ job[s].step # "mark"}
InFlight   == Queued \cup BeingDone

Fault == faults > 0 /\ faults' = faults - 1

-----------------------------------------------------------------------------
(* Branches and applications.                                              *)

CreateBranch(n) ==
    /\ branch[n] = "none"
    /\ created < MaxCreated
    /\ branch' = [branch EXCEPT ![n] = "active"]
    /\ created' = created + 1
    /\ UNCHANGED <<overlay, dirty, written, link, queue, job, faults, missed>>

\* DROP SCHEMA removes views and delta tables; a merge keeps the rows of the
\* metadata under the schema name, a drop renames them away.
RemoveSchema(n) ==
    /\ overlay' = overlay \ ViewsOf(n)
    /\ written' = written \ ViewsOf(n)
    /\ missed' = missed \ ViewsOf(n)
    /\ UNCHANGED <<created, link, queue, job, faults>>

MergeBranch(n) ==
    /\ branch[n] = "active"
    /\ branch' = [branch EXCEPT ![n] = "merged"]
    /\ RemoveSchema(n)
    /\ UNCHANGED dirty

DropBranch(n) ==
    /\ branch[n] # "none"
    /\ branch' = [branch EXCEPT ![n] = "none"]
    /\ RemoveSchema(n)
    /\ dirty' = dirty \ ViewsOf(n)

\* A write through a view, committed: PostgreSQL delivers the notification to
\* the backends that listen at that moment.
Write(v) ==
    /\ branch[v[1]] = "active"
    /\ written' = written \cup {v}
    /\ \/ /\ link = "listening"
          /\ Len(queue) < MaxQueue
          /\ queue' = Append(queue, v)
          /\ UNCHANGED missed
       \/ /\ link # "listening"
          /\ missed' = missed \cup {v}
          /\ UNCHANGED queue
    /\ UNCHANGED <<branch, created, overlay, dirty, link, job, faults>>

\* Any client may NOTIFY the channel.
Noise ==
    /\ link = "listening"
    /\ Len(queue) < MaxQueue
    /\ Fault
    /\ queue' = Append(queue, Malformed)
    /\ UNCHANGED <<branchVars, link, job, missed>>

-----------------------------------------------------------------------------
(* The connection of the listener.                                         *)

\* Start: the port is bound and the listener goroutine runs.
Boot ==
    /\ link = "down"
    /\ link' = "connecting"
    /\ UNCHANGED <<branchVars, queue, job, faults, missed>>

\* The process ends, in the middle of whatever its goroutines do.
Die ==
    /\ link # "down"
    /\ link' = "down"
    /\ queue' = <<>>
    /\ job' = [s \in Slots |-> Nothing]
    /\ missed' = missed \cup InFlight
    /\ UNCHANGED <<branchVars, faults>>

\* A failed attempt sleeps a second and tries again: no change of state.
Connect ==
    /\ link = "connecting"
    /\ link' = "connected"
    /\ UNCHANGED <<branchVars, queue, job, faults, missed>>

Listen ==
    /\ link = "connected"
    /\ link' = "listening"
    /\ UNCHANGED <<branchVars, queue, job, faults, missed>>

\* LISTEN or WaitForNotification fails: close the connection and start over.
\* What was sent to it is gone, goroutines go on.
\* (LinkLostForGood: the listener returns.)
LinkLostForGood ==
    /\ link \in {"connected", "listening"}
    /\ Fault
    /\ link' = "down"
    /\ queue' = <<>>
    /\ missed' = missed \cup Queued
    /\ UNCHANGED <<branchVars, job>>
LinkLost ==
    /\ link \in {"connected", "listening"}
    /\ Fault
    /\ link' = "connecting"
    /\ queue' = <<>>
    /\ missed' = missed \cup Queued
    /\ UNCHANGED <<branchVars, job>>

\* The next notification gets a goroutine, unless its payload is malformed.
\* (ReceiveUnchecked: takes any payload.  ReceiveOnce: not for a view that some
\* goroutine is already at.)
ReceiveUnchecked ==
    /\ link = "listening"
    /\ queue # <<>>
    /\ queue' = Tail(queue)
    /\ \E s \in Slots :
         /\ job[s] = Nothing
         /\ job' = [job EXCEPT ![s] = [view |-> Head(queue), step |-> "inspect"]]
    /\ UNCHANGED <<branchVars, link, faults, missed>>
ReceiveOnce ==
    /\ link = "listening"
    /\ queue # <<>>
    /\ queue' = Tail(queue)
    /\ \/ /\ \/ Head(queue) = Malformed
             \/ \E s \in Slots : job[s] # Nothing /\ job[s].view = Head(queue)
          /\ UNCHANGED job
       \/ /\ Head(queue) # Malformed
          /\ \A s \in Slots : job[s] # Nothing => job[s].view # Head(queue)
          /\ \E s \in Slots :
               /\ job[s] = Nothing
               /\ job' = [job EXCEPT ![s] = [view |-> Head(queue), step |-> "inspect"]]
    /\ UNCHANGED <<branchVars, link, faults, missed>>
Receive ==
    /\ link = "listening"
    /\ queue # <<>>
    /\ queue' = Tail(queue)
    /\ \/ /\ Head(queue) = Malformed
          /\ UNCHANGED job
       \/ /\ Head(queue) # Malformed
          /\ \E s \in Slots :
               /\ job[s] = Nothing
               /\ job' = [job EXCEPT ![s] = [view |-> Head(queue), step |-> "inspect"]]
    /\ UNCHANGED <<branchVars, link, faults, missed>>

-----------------------------------------------------------------------------
(* A goroutine: each step is a statement that commits by itself, and a     *)
(* failed one ends the goroutine.                                          *)

At(s, step) == job[s] # Nothing /\ job[s].step = step

Goto(s, step) == job' = [job EXCEPT ![s].step = step]
Exit(s)       == job' = [job EXCEPT ![s] = Nothing]

\* The base schema of the table from the metadata, found while a branch has
\* the schema name, and the columns from the catalog.
Inspect(s) ==
    /\ At(s, "inspect")
    /\ IF branch[job[s].view[1]] # "none" THEN Goto(s, "upgrade") ELSE Exit(s)
    /\ UNCHANGED <<branchVars, link, queue, faults, missed>>

\* UpgradeToOverlay: CREATE OR REPLACE VIEW in the schema, if there is one.
\* (UpgradeOnce: gives up on a table that is marked dirty.  UpgradeMerged:
\* makes the schema again if it is missing.)
UpgradeMerged(s) ==
    LET v == job[s].view
    IN  /\ At(s, "upgrade")
        /\ IF branch[v[1]] # "none"
           THEN Goto(s, "mark") /\ overlay' = overlay \cup {v}
           ELSE Exit(s) /\ UNCHANGED overlay
        /\ UNCHANGED <<branch, created, dirty, written, link, queue, faults, missed>>
UpgradeOnce(s) ==
    LET v == job[s].view
    IN  /\ At(s, "upgrade")
        /\ IF branch[v[1]] = "active" /\ v \notin dirty
           THEN Goto(s, "mark") /\ overlay' = overlay \cup {v}
           ELSE Exit(s) /\ UNCHANGED overlay
        /\ UNCHANGED <<branch, created, dirty, written, link, queue, faults, missed>>
UpgradeView(s) ==
    LET v == job[s].view
    IN  /\ At(s, "upgrade")
        /\ IF branch[v[1]] = "active"
           THEN Goto(s, "mark") /\ overlay' = overlay \cup {v}
           ELSE Exit(s) /\ UNCHANGED overlay
        /\ UNCHANGED <<branch, created, dirty, written, link, queue, faults, missed>>

\* is_dirty, of whatever branch has the schema name by now.
Mark(s) ==
    LET v == job[s].view
    IN  /\ At(s, "mark")
        /\ Exit(s)
        /\ dirty' = IF branch[v[1]] # "none" THEN dirty \cup {v} ELSE dirty
        /\ UNCHANGED <<branch, created, overlay, written, link, queue, faults, missed>>

\* A statement of the goroutine fails.
GiveUp(s) ==
    /\ job[s] # Nothing
    /\ Fault
    /\ Exit(s)
    /\ missed' = IF At(s, "mark") THEN missed ELSE missed \cup {job[s].view}
    /\ UNCHANGED <<branchVars, link, queue>>

-----------------------------------------------------------------------------
BranchStep ==
    \/ \E n \in Names : CreateBranch(n) \/ MergeBranch(n) \/ DropBranch(n)
    \/ \E v \in Views : Write(v)
    \/ Noise

GoroutineStep(s) == Inspect(s) \/ UpgradeView(s) \/ Mark(s)

\* Everything but the process coming and going.
ListenerNext ==
    \/ BranchStep
    \/ Connect \/ Listen \/ LinkLost \/ Receive
    \/ \E s \in Slots : GoroutineStep(s) \/ GiveUp(s)

Next == ListenerNext \/ Boot \/ Die

Spec == Init /\ [][Next]_listenerVars

\* Go schedules every goroutine that can run, and PostgreSQL answers.  Nobody
\* has to write, to manage branches or to start the process, and no failure
\* has to happen.
ListenerFairness ==
    /\ WF_listenerVars(Connect)
    /\ WF_listenerVars(Listen)
    /\ WF_listenerVars(Receive)
    /\ \A s \in Slots : WF_listenerVars(GoroutineStep(s))

-----------------------------------------------------------------------------
(* Properties.                                                             *)

(* No write is forgotten silently: a table that was written and still has  *)
(* its passthrough view has its upgrade under way, unless a failure or the *)
(* absence of a listener lost the request; goroutines of a former branch   *)
(* of the same name do not get in the way (proxy.go, listenForUpgrades).   *)
NothingForgotten ==
    written \subseteq overlay \cup InFlight \cup missed

(* The listener does what the data plane relies on: see ViewUpgrade.       *)
\* A goroutine of a former branch asks, for a new one, as soon as that exists.
Existing == {v \in Views : branch[v[1]] = "active"}
Service == INSTANCE ViewUpgrade WITH upgraded <- overlay,
                                     asked <- (InFlight \cap Existing) \ overlay
ImplementsViewUpgrade == Service!Spec
=============================================================================
