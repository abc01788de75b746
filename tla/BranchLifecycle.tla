--------------------------- MODULE BranchLifecycle ---------------------------
(***************************************************************************)
(* The branches themselves: the commands create, checkout, drop and merge  *)
(* of several command-line processes (cmd/chuck, internal/branch, the      *)
(* metadata of internal/merge) and the application sessions that the proxy *)
(* routes (internal/proxy, handleConnection).                              *)
(*                                                                         *)
(* A command reads the metadata in one step and takes effect in another;   *)
(* the writes of create, drop and merge are one transaction each, and a    *)
(* statement that needs a locked row waits.  What a merge does to rows is  *)
(* in BranchMerge; here it either commits or fails.                        *)
(*                                                                         *)
(* An operator named in a parenthesis before a definition is a wrong form  *)
(* of that definition, kept to show that some property notices the bug.    *)
(***************************************************************************)
EXTENDS Integers

CONSTANTS
    Clients,       \* command-line processes
    Commands,      \* Commands[c] = commands that client c runs
    Names,         \* branch names
    Apps,          \* application connections to the proxy
    MaxBranches,   \* bound on branches ever created
    Nothing        \* no branch row, no session

Ids      == 1..MaxBranches
Statuses == {"active", "merged", "dropped"}
Branches == [name : Names, parent : 0..MaxBranches, status : Statuses]
Ops      == {"none", "create", "checkout", "drop", "merge"}
\* A running command: the name it was given, the id it found, the active branch
\* it saw, and whether the active_branch row was written since.
Runs     == [op : Ops, name : Names, id : 0..MaxBranches, seen : 0..MaxBranches,
             moved : BOOLEAN]
\* search_path of a session; joined is the branch that was active at its start.
Sessions == [path : Names \cup {"public", "dropped"}, joined : 0..MaxBranches]

ASSUME LifecycleAssumption ==
    /\ Commands \in [Clients -> SUBSET (Ops \ {"none"})]
    /\ MaxBranches \in Nat
    /\ Nothing \notin Branches \cup Sessions
    /\ Names # {} /\ Names \cap {"public", "dropped"} = {}

VARIABLES
    made,       \* last id that the sequence of chuck_meta.branches gave out
    branches,   \* rows of chuck_meta.branches by id
    schemas,    \* names n whose schema chuck_<n> exists
    active,     \* branch_id of the active_branch row, 0 if there is none
    run,        \* the command each client is running
    session     \* the application sessions

lifeVars == <<made, branches, schemas, active, run, session>>

\* The branches ever created, dropped ones included.
Created == 1..made

TypeOK ==
    /\ made \in 0..MaxBranches
    /\ branches \in [Ids -> Branches \cup {Nothing}]
    /\ \A i \in Created : branches[i] \in Branches
    /\ schemas \subseteq Names
    /\ active \in 0..MaxBranches
    /\ run \in [Clients -> Runs]
    /\ session \in [Apps -> Sessions \cup {Nothing}]

Idle == [op |-> "none", name |-> CHOOSE n \in Names : TRUE, id |-> 0, seen |-> 0,
         moved |-> FALSE]

Init ==
    /\ made = 0
    /\ branches = [i \in Ids |-> Nothing]
    /\ schemas = {}
    /\ active = 0
    /\ run = [c \in Clients |-> Idle]
    /\ session = [a \in Apps |-> Nothing]

-----------------------------------------------------------------------------
\* SELECT ... WHERE name = n AND dropped_at IS NULL: a merged branch keeps its
\* name, a dropped one is renamed.
\* (FindActive: merged branches are left out.)
FindActive(n) == {i \in Created : branches[i].name = n /\ branches[i].status = "active"}
Find(n) == {i \in Created : branches[i].name = n /\ branches[i].status # "dropped"}

\* A running merge has updated the branch row (status 'locked') and holds it.
\* (LockedByNobody: the merge does not lock the branch.)
LockedByNobody(i) == FALSE
Locked(i) == \E c \in Clients : run[c].op = "merge" /\ run[c].id = i

Begin(c, op, n, i) ==
    /\ run[c].op = "none"
    /\ op \in Commands[c]
    /\ run' = [run EXCEPT ![c] = [op |-> op, name |-> n, id |-> i, seen |-> active,
                                  moved |-> FALSE]]
    /\ UNCHANGED <<made, branches, schemas, active, session>>

Fail(c) ==
    /\ run' = [run EXCEPT ![c] = Idle]
    /\ UNCHANGED <<made, branches, schemas, active, session>>

\* The command of c ends having written b to the active_branch row (or deleted
\* the row, b = 0); wrote tells whether it did.
SetActive(c, b, wrote) ==
    /\ active' = IF wrote THEN b ELSE active
    /\ run' = [d \in Clients |-> IF d = c THEN Idle
                                 ELSE [run[d] EXCEPT !.moved = @ \/ wrote]]

-----------------------------------------------------------------------------
(* branch.Create: the existence check and the read of the active branch,   *)
(* then the insert (UNIQUE name), the schema and, without an active branch *)
(* at the read, the active_branch row.                                     *)

CreateRead(c, n) == Find(n) = {} /\ Begin(c, "create", n, 0)

CreateCommit(c) ==
    LET n  == run[c].name
        id == made + 1
    IN  /\ run[c].op = "create"
        /\ Find(n) = {}
        /\ id \in Ids
        /\ made' = id
        /\ branches' = [branches EXCEPT ![id] =
               [name |-> n, parent |-> run[c].seen, status |-> "active"]]
        /\ schemas' = schemas \cup {n}
        /\ SetActive(c, id, run[c].seen = 0)
        /\ UNCHANGED session

CreateDuplicate(c) ==
    /\ run[c].op = "create"
    /\ Find(run[c].name) # {}
    /\ Fail(c)

(* chuck checkout: a SELECT and an upsert, each committed by itself.       *)

CheckoutRead(c, n) == \E i \in Find(n) : Begin(c, "checkout", n, i)

CheckoutWrite(c) ==
    /\ run[c].op = "checkout"
    /\ SetActive(c, run[c].id, TRUE)
    /\ UNCHANGED <<made, branches, schemas, session>>

(* branch.Drop: READ COMMITTED; DROP SCHEMA IF EXISTS by the schema name   *)
(* it read, then the branch row and active_branch by id.                   *)

DropRead(c, n) == \E i \in Find(n) : Begin(c, "drop", n, i)

DropCommit(c) ==
    LET i == run[c].id
    IN  /\ run[c].op = "drop"
        /\ ~Locked(i)
        /\ branches' = [branches EXCEPT ![i].status = "dropped"]
        /\ schemas' = schemas \ {run[c].name}
        /\ SetActive(c, 0, active = i)
        /\ UNCHANGED <<made, session>>

\* Drop holds the schema, the merge the branch row: PostgreSQL breaks the
\* deadlock by aborting one of them.
DropDeadlock(c) ==
    /\ run[c].op = "drop"
    /\ Locked(run[c].id)
    /\ Fail(c)

(* merge.Merge: one SERIALIZABLE transaction.                              *)

MergeStart(c, n) == \E i \in Find(n) :
    /\ branches[i].status = "active"
    /\ ~Locked(i)
    /\ Begin(c, "merge", n, i)

\* DELETE FROM active_branch WHERE branch_id = i works on the snapshot: if it
\* finds the row there and the row has been written since, the merge fails.  It
\* fails too if the schema, and with it the delta tables, is gone.
MergeCommit(c) ==
    LET i == run[c].id
        wasActive == run[c].seen = i
    IN  /\ run[c].op = "merge"
        /\ wasActive => ~run[c].moved
        /\ run[c].name \in schemas
        /\ branches' = [branches EXCEPT ![i].status = "merged"]
        /\ schemas' = schemas \ {run[c].name}
        /\ SetActive(c, 0, wasActive)
        /\ UNCHANGED <<made, session>>

\* Violations, conflicts, a dry run, a serialization failure, a lost connection.
MergeFail(c) == run[c].op = "merge" /\ Fail(c)

-----------------------------------------------------------------------------
(* handleConnection: the schema name of the active branch is looked up     *)
(* once, when the session starts.                                          *)

\* (SchemaNameOfNone: no schema name for a branch that is gone.)
SchemaNameOfNone(i) == IF branches[i].status = "active" THEN branches[i].name ELSE Nothing
SchemaName(i) == IF branches[i].status = "dropped" THEN "dropped" ELSE branches[i].name

Connect(a) ==
    /\ session[a] = Nothing
    /\ session' = [session EXCEPT ![a] =
           [path |-> IF active = 0 THEN "public" ELSE SchemaName(active),
            joined |-> active]]
    /\ UNCHANGED <<made, branches, schemas, active, run>>

Disconnect(a) ==
    /\ session[a] # Nothing
    /\ session' = [session EXCEPT ![a] = Nothing]
    /\ UNCHANGED <<made, branches, schemas, active, run>>

\* Where an unqualified table name leads under search_path "chuck_x, public":
\* a schema that does not exist is skipped.  0 is production.
Routed(a) == IF session[a].path \in schemas
             THEN CHOOSE i \in FindActive(session[a].path) : TRUE
             ELSE 0

Next ==
    \/ \E c \in Clients, n \in Names :
         CreateRead(c, n) \/ CheckoutRead(c, n) \/ DropRead(c, n) \/ MergeStart(c, n)
    \/ \E c \in Clients : \/ CreateCommit(c) \/ CreateDuplicate(c)
                          \/ CheckoutWrite(c)
                          \/ DropCommit(c) \/ DropDeadlock(c)
                          \/ MergeCommit(c) \/ MergeFail(c)
    \/ \E a \in Apps : Connect(a) \/ Disconnect(a)

Spec == Init /\ [][Next]_lifeVars

-----------------------------------------------------------------------------
(* Properties.                                                             *)

(* No two branches that are not dropped have the same name, although       *)
(* several processes create, drop and merge at once (branch/create.go).    *)
LiveNamesDiffer ==
    \A i, j \in Created :
        /\ i # j
        /\ branches[i].status # "dropped"
        /\ branches[j].status # "dropped"
        => branches[i].name # branches[j].name

(* A branch that is still active has its schema, and no schema outlives    *)
(* its branch: a drop or a merge removes the schema of its own branch and  *)
(* of no other one (branch/drop.go, merge/engine.go).                      *)
SchemasMatchBranches ==
    schemas = {branches[i].name : i \in {j \in Created : branches[j].status = "active"}}

(* A branch never comes back: a dropped one stays dropped, a merged one is *)
(* merged or dropped (merge/engine.go locks the row before it reads).      *)
StatusOnlyAdvances ==
    [][\A i \in Created :
         /\ branches[i].status = "dropped" => branches'[i].status = "dropped"
         /\ branches[i].status = "merged" => branches'[i].status # "active"]_lifeVars

(* A session that started on a branch reads and writes that branch, never  *)
(* production and never another branch (README.md:73).                     *)
SessionStaysOnBranch ==
    \A a \in Apps : session[a] # Nothing /\ session[a].joined # 0 =>
        Routed(a) = session[a].joined
=============================================================================
