------------------------ MODULE BranchLifecycleProofs ------------------------
(***************************************************************************)
(* Proofs about BranchLifecycle, for any number of clients, each running   *)
(* any of the commands: types, the uniqueness of live names, and that the  *)
(* status of a branch only advances.                                       *)
(***************************************************************************)
EXTENDS BranchLifecycle, TLAPS

-----------------------------------------------------------------------------
(* The inductive invariant.                                                *)

\* A running command found a branch that exists.
RunsKnowTheirBranch ==
    \A c \in Clients : run[c].op \in {"checkout", "drop", "merge"} => run[c].id \in Created

\* What a running merge has locked is active, and is locked by it alone.
MergesHoldTheirBranch ==
    /\ \A c \in Clients : run[c].op = "merge" => branches[run[c].id].status = "active"
    /\ \A c, d \in Clients : /\ c # d
                             /\ run[c].op = "merge"
                             /\ run[d].op = "merge"
                             => run[c].id # run[d].id

LifeInv ==
    /\ TypeOK
    /\ active \in 0..made
    /\ LiveNamesDiffer
    /\ RunsKnowTheirBranch
    /\ MergesHoldTheirBranch

-----------------------------------------------------------------------------
(* Facts.                                                                  *)

(* What Find returns has the name and is not dropped.                      *)
LEMMA Found ==
    ASSUME NEW n, NEW i \in Find(n)
    PROVE  i \in Created /\ branches[i].name = n /\ branches[i].status # "dropped"
BY DEF Find

(* Ids of created branches are ids.                                        *)
LEMMA CreatedIds ==
    ASSUME TypeOK
    PROVE  /\ made \in Nat /\ MaxBranches \in Nat
           /\ \A i \in Created : i \in Ids /\ i # 0
           /\ Created \subseteq 0..MaxBranches
BY LifecycleAssumption DEF TypeOK, Created, Ids

(* Idle is a run.                                                          *)
LEMMA IdleType == Idle \in Runs /\ Idle.op = "none"
<1>1. 0 \in 0..MaxBranches
  BY LifecycleAssumption
<1>2. (CHOOSE n \in Names : TRUE) \in Names
  BY LifecycleAssumption
<1> QED
  BY <1>1, <1>2 DEF Idle, Runs, Ops

(* The start of a command, on a branch that exists if it is not a create,  *)
(* and on an active and unlocked one if it is a merge.                     *)
LEMMA BeginKeepsInv ==
    ASSUME LifeInv, NEW c \in Clients, NEW op \in Ops, NEW n \in Names, NEW i \in 0..MaxBranches,
           Begin(c, op, n, i),
           op \in {"checkout", "drop", "merge"} => i \in Created,
           op = "merge" => branches[i].status = "active" /\ ~Locked(i)
    PROVE  LifeInv'
<1> DEFINE r == [op |-> op, name |-> n, id |-> i, seen |-> active, moved |-> FALSE]
<1>1. /\ run' = [run EXCEPT ![c] = r]
      /\ UNCHANGED <<made, branches, schemas, active, session>>
  BY DEF Begin
<1>2. active \in 0..MaxBranches /\ run \in [Clients -> Runs]
  BY DEF LifeInv, TypeOK
<1>3. r \in Runs /\ r.op = op /\ r.id = i
  BY <1>2 DEF Runs
<1> HIDE DEF r
<1>4. run' \in [Clients -> Runs] /\ run'[c] = r /\ \A d \in Clients : d # c => run'[d] = run[d]
  BY <1>1, <1>2, <1>3
<1>5. TypeOK'
  BY <1>1, <1>4 DEF LifeInv, TypeOK, Created
<1>6. LiveNamesDiffer'
  BY <1>1 DEF LifeInv, LiveNamesDiffer, Created
<1>7. RunsKnowTheirBranch'
  BY <1>1, <1>3, <1>4 DEF LifeInv, RunsKnowTheirBranch, Created
<1>8. MergesHoldTheirBranch'
  BY <1>1, <1>3, <1>4 DEF LifeInv, MergesHoldTheirBranch, Locked
<1> QED
  BY <1>1, <1>5, <1>6, <1>7, <1>8 DEF LifeInv

(* A command that fails changes no branch.                                 *)
LEMMA FailKeepsInv ==
    ASSUME LifeInv, NEW c \in Clients, Fail(c)
    PROVE  LifeInv'
<1>1. /\ run' = [run EXCEPT ![c] = Idle]
      /\ UNCHANGED <<made, branches, schemas, active, session>>
  BY DEF Fail
<1>2. run \in [Clients -> Runs]
  BY DEF LifeInv, TypeOK
<1>3. /\ run' \in [Clients -> Runs] /\ run'[c].op = "none"
      /\ \A d \in Clients : d # c => run'[d] = run[d]
  BY <1>1, <1>2, IdleType
<1>4. TypeOK'
  BY <1>1, <1>3 DEF LifeInv, TypeOK, Created
<1>5. LiveNamesDiffer'
  BY <1>1 DEF LifeInv, LiveNamesDiffer, Created
<1>6. RunsKnowTheirBranch' /\ MergesHoldTheirBranch'
  BY <1>1, <1>3 DEF LifeInv, RunsKnowTheirBranch, MergesHoldTheirBranch, Created
<1> QED
  BY <1>1, <1>4, <1>5, <1>6 DEF LifeInv

(* What the end of a command does to active_branch and to the runs.        *)
LEMMA SetActiveType ==
    ASSUME TypeOK, NEW c \in Clients, NEW b \in 0..MaxBranches, NEW wrote \in BOOLEAN,
           SetActive(c, b, wrote)
    PROVE  /\ active' \in {active, b}
           /\ run' \in [Clients -> Runs]
           /\ run'[c].op = "none"
           /\ \A d \in Clients : d # c => run'[d].op = run[d].op /\ run'[d].id = run[d].id
<1>1. run \in [Clients -> Runs]
  BY DEF TypeOK
<1>2. /\ active' = IF wrote THEN b ELSE active
      /\ run' = [d \in Clients |-> IF d = c THEN Idle
                                   ELSE [run[d] EXCEPT !.moved = @ \/ wrote]]
  BY DEF SetActive
<1>3. ASSUME NEW d \in Clients
      PROVE  /\ [run[d] EXCEPT !.moved = @ \/ wrote] \in Runs
             /\ [run[d] EXCEPT !.moved = @ \/ wrote].op = run[d].op
             /\ [run[d] EXCEPT !.moved = @ \/ wrote].id = run[d].id
  <2>1. run[d] \in Runs
    BY <1>1
  <2> DEFINE m == run[d].moved \/ wrote
  <2>2. m \in BOOLEAN
    OBVIOUS
  <2>3. [run[d] EXCEPT !.moved = @ \/ wrote] = [run[d] EXCEPT !.moved = m]
    OBVIOUS
  <2> HIDE DEF m
  <2>4. /\ [run[d] EXCEPT !.moved = m] \in Runs
        /\ [run[d] EXCEPT !.moved = m].op = run[d].op
        /\ [run[d] EXCEPT !.moved = m].id = run[d].id
    BY <2>1, <2>2 DEF Runs
  <2> QED
    BY <2>3, <2>4
<1>4. active' \in {active, b}
  BY <1>2
<1>5. run' \in [Clients -> Runs] /\ run'[c].op = "none"
  BY <1>2, <1>3, IdleType
<1>6. \A d \in Clients : d # c => run'[d].op = run[d].op /\ run'[d].id = run[d].id
  BY <1>2, <1>3
<1> QED
  BY <1>4, <1>5, <1>6

(* Create commits a name that no live branch has.                          *)
LEMMA CreateKeepsInv ==
    ASSUME LifeInv, NEW c \in Clients, CreateCommit(c)
    PROVE  LifeInv'
<1> DEFINE n  == run[c].name
           id == made + 1
           b  == [name |-> n, parent |-> run[c].seen, status |-> "active"]
<1>1. /\ Find(n) = {} /\ id \in Ids /\ made' = id
      /\ branches' = [branches EXCEPT ![id] = b]
      /\ schemas' = schemas \cup {n}
      /\ SetActive(c, id, run[c].seen = 0)
      /\ session' = session
      /\ run[c].op = "create"
  BY DEF CreateCommit
<1>2. /\ made \in Nat /\ MaxBranches \in Nat /\ id \in 0..MaxBranches
      /\ n \in Names /\ run[c].seen \in 0..MaxBranches
      /\ branches \in [Ids -> Branches \cup {Nothing}]
  BY <1>1, CreatedIds DEF LifeInv, TypeOK, Runs, Ids
<1>3. b \in Branches /\ b.name = n /\ b.status = "active"
  BY <1>2 DEF Branches, Statuses
<1>4. id \notin Created /\ Created' = Created \cup {id} /\ active \in 0..made' /\ id \in 0..made'
  BY <1>1, <1>2 DEF Created, LifeInv
<1>5. /\ active' \in {active, id}
      /\ run' \in [Clients -> Runs]
      /\ run'[c].op = "none"
      /\ \A d \in Clients : d # c => run'[d].op = run[d].op /\ run'[d].id = run[d].id
  <2>1. (run[c].seen = 0) \in BOOLEAN
    OBVIOUS
  <2>2. SetActive(c, id, run[c].seen = 0)
    BY <1>1
  <2> DEFINE w == run[c].seen = 0
  <2>3. w \in BOOLEAN /\ SetActive(c, id, w)
    BY <2>1, <2>2
  <2> HIDE DEF w, id
  <2> QED
    BY <1>2, <2>3, SetActiveType DEF LifeInv
<1> HIDE DEF b, id
<1>6. branches'[id] = b /\ \A i \in Created : branches'[i] = branches[i]
  BY <1>1, <1>2, <1>4, CreatedIds DEF LifeInv
<1>7. TypeOK'
  <2>1. branches' \in [Ids -> Branches \cup {Nothing}]
    BY <1>1, <1>2, <1>3
  <2>2. \A i \in Created' : branches'[i] \in Branches
    BY <1>3, <1>4, <1>6 DEF LifeInv, TypeOK
  <2>3. active' \in 0..MaxBranches
    BY <1>2, <1>5 DEF LifeInv, TypeOK
  <2>4. made' \in 0..MaxBranches /\ schemas' \subseteq Names
    BY <1>1, <1>2 DEF LifeInv, TypeOK
  <2>5. session' \in [Apps -> Sessions \cup {Nothing}]
    BY <1>1 DEF LifeInv, TypeOK
  <2> QED
    BY <1>5, <2>1, <2>2, <2>3, <2>4, <2>5 DEF TypeOK
<1>8. LiveNamesDiffer'
  <2>1. \A i \in Created : branches[i].name = n => branches[i].status = "dropped"
    BY <1>1 DEF Find
  <2> QED
    BY <1>3, <1>4, <1>6, <2>1 DEF LifeInv, LiveNamesDiffer
<1>9. RunsKnowTheirBranch'
  BY <1>4, <1>5 DEF LifeInv, RunsKnowTheirBranch
<1>10. MergesHoldTheirBranch'
  BY <1>5, <1>6 DEF LifeInv, MergesHoldTheirBranch, RunsKnowTheirBranch
<1>11. active' \in 0..made'
  BY <1>4, <1>5
<1> QED
  BY <1>7, <1>8, <1>9, <1>10, <1>11 DEF LifeInv

(* Checkout points active_branch at the branch it found.                   *)
LEMMA CheckoutKeepsInv ==
    ASSUME LifeInv, NEW c \in Clients, CheckoutWrite(c)
    PROVE  LifeInv'
<1>1. /\ run[c].op = "checkout"
      /\ SetActive(c, run[c].id, TRUE)
      /\ UNCHANGED <<made, branches, schemas, session>>
  BY DEF CheckoutWrite
<1>2. run[c].id \in Created
  BY <1>1 DEF LifeInv, RunsKnowTheirBranch
<1>3. run[c].id \in 0..MaxBranches /\ run[c].id \in 0..made
  BY <1>2, CreatedIds DEF LifeInv, Created
<1>4. /\ active' \in {active, run[c].id}
      /\ run' \in [Clients -> Runs]
      /\ run'[c].op = "none"
      /\ \A d \in Clients : d # c => run'[d].op = run[d].op /\ run'[d].id = run[d].id
  BY <1>1, <1>3, SetActiveType DEF LifeInv
<1>5. TypeOK'
  BY <1>1, <1>3, <1>4 DEF LifeInv, TypeOK, Created
<1>6. LiveNamesDiffer' /\ RunsKnowTheirBranch' /\ MergesHoldTheirBranch'
  BY <1>1, <1>4
  DEF LifeInv, LiveNamesDiffer, RunsKnowTheirBranch, MergesHoldTheirBranch, Created
<1> QED
  BY <1>1, <1>3, <1>4, <1>5, <1>6 DEF LifeInv

(* The end of a branch, by a drop or by a merge: its status becomes final  *)
(* and no other merge holds it.                                            *)
LEMMA RetireKeepsInv ==
    ASSUME LifeInv, NEW c \in Clients, NEW status \in {"merged", "dropped"},
           NEW wrote \in BOOLEAN,
           run[c].id \in Created,
           status = "merged" => branches[run[c].id].status = "active",
           \A d \in Clients : d # c /\ run[d].op = "merge" => run[d].id # run[c].id,
           branches' = [branches EXCEPT ![run[c].id].status = status],
           schemas' = schemas \ {run[c].name},
           SetActive(c, 0, wrote),
           UNCHANGED <<made, session>>
    PROVE  LifeInv'
<1> DEFINE i == run[c].id
           b == [branches[i] EXCEPT !.status = status]
<1>1. /\ i \in Created /\ i \in Ids /\ branches[i] \in Branches
      /\ branches \in [Ids -> Branches \cup {Nothing}]
      /\ \A j \in Created : j \in Ids
  BY CreatedIds DEF LifeInv, TypeOK
<1>2. b \in Branches /\ b.status = status /\ b.name = branches[i].name
  BY <1>1 DEF Branches, Statuses
<1>3. 0 \in 0..MaxBranches /\ 0 \in 0..made /\ Created' = Created
  BY CreatedIds DEF LifeInv, Created
<1>4. /\ active' \in {active, 0}
      /\ run' \in [Clients -> Runs]
      /\ run'[c].op = "none"
      /\ \A d \in Clients : d # c => run'[d].op = run[d].op /\ run'[d].id = run[d].id
  BY <1>3, SetActiveType DEF LifeInv
<1> HIDE DEF b
<1>5. /\ branches' = [branches EXCEPT ![i] = b]
  BY DEF b
<1>6. branches'[i] = b /\ \A j \in Created : j # i => branches'[j] = branches[j]
  BY <1>1, <1>5
<1>7. TypeOK'
  <2>1. branches' \in [Ids -> Branches \cup {Nothing}]
    BY <1>1, <1>2, <1>5
  <2>2. \A j \in Created' : branches'[j] \in Branches
    BY <1>2, <1>3, <1>6 DEF LifeInv, TypeOK
  <2>3. /\ active' \in 0..MaxBranches /\ made' \in 0..MaxBranches
        /\ schemas' \subseteq Names /\ session' \in [Apps -> Sessions \cup {Nothing}]
    BY <1>3, <1>4 DEF LifeInv, TypeOK
  <2> QED
    BY <1>4, <2>1, <2>2, <2>3 DEF TypeOK
<1>8. LiveNamesDiffer'
  <2> SUFFICES ASSUME NEW j \in Created, NEW k \in Created, j # k,
                      branches'[j].status # "dropped", branches'[k].status # "dropped"
               PROVE  branches'[j].name # branches'[k].name
    BY <1>3 DEF LiveNamesDiffer
  <2>1. ASSUME NEW m \in {j, k}
        PROVE  branches[m].status # "dropped" /\ branches'[m].name = branches[m].name
    BY <1>2, <1>6
  <2> QED
    BY <2>1 DEF LifeInv, LiveNamesDiffer
<1>9. RunsKnowTheirBranch'
  BY <1>3, <1>4 DEF LifeInv, RunsKnowTheirBranch
<1>10. MergesHoldTheirBranch'
  <2>1. ASSUME NEW d \in Clients, run'[d].op = "merge"
        PROVE  /\ d # c /\ run[d].op = "merge" /\ run'[d].id = run[d].id
               /\ run[d].id \in Created /\ branches'[run[d].id] = branches[run[d].id]
    <3>1. d # c /\ run[d].op = "merge" /\ run'[d].id = run[d].id
      BY <1>4, <2>1
    <3>2. run[d].id \in Created /\ run[d].id # i
      BY <3>1 DEF LifeInv, RunsKnowTheirBranch
    <3> QED
      BY <1>6, <3>1, <3>2
  <2> QED
    BY <2>1 DEF LifeInv, MergesHoldTheirBranch
<1>11. active' \in 0..made'
  BY <1>3, <1>4 DEF LifeInv
<1> QED
  BY <1>7, <1>8, <1>9, <1>10, <1>11 DEF LifeInv

(* A drop waits for a merge that holds the branch.                         *)
LEMMA DropKeepsInv ==
    ASSUME LifeInv, NEW c \in Clients, DropCommit(c)
    PROVE  LifeInv'
<1> DEFINE w == active = run[c].id
<1>1. /\ run[c].op = "drop" /\ ~Locked(run[c].id)
      /\ branches' = [branches EXCEPT ![run[c].id].status = "dropped"]
      /\ schemas' = schemas \ {run[c].name}
      /\ SetActive(c, 0, w)
      /\ UNCHANGED <<made, session>>
  BY DEF DropCommit
<1>2. run[c].id \in Created
  BY <1>1 DEF LifeInv, RunsKnowTheirBranch
<1>3. \A d \in Clients : d # c /\ run[d].op = "merge" => run[d].id # run[c].id
  BY <1>1 DEF Locked
<1>4. w \in BOOLEAN
  OBVIOUS
<1> HIDE DEF w
<1> QED
  BY <1>1, <1>2, <1>3, <1>4, RetireKeepsInv

(* A merge that commits holds its branch alone.                            *)
LEMMA MergeKeepsInv ==
    ASSUME LifeInv, NEW c \in Clients, MergeCommit(c)
    PROVE  LifeInv'
<1> DEFINE w == run[c].seen = run[c].id
<1>1. /\ run[c].op = "merge"
      /\ branches' = [branches EXCEPT ![run[c].id].status = "merged"]
      /\ schemas' = schemas \ {run[c].name}
      /\ SetActive(c, 0, w)
      /\ UNCHANGED <<made, session>>
  BY DEF MergeCommit
<1>2. run[c].id \in Created
  BY <1>1 DEF LifeInv, RunsKnowTheirBranch
<1>3. /\ branches[run[c].id].status = "active"
      /\ \A d \in Clients : d # c /\ run[d].op = "merge" => run[d].id # run[c].id
  BY <1>1 DEF LifeInv, MergesHoldTheirBranch
<1>4. w \in BOOLEAN
  OBVIOUS
<1> HIDE DEF w
<1> QED
  BY <1>1, <1>2, <1>3, <1>4, RetireKeepsInv

(* Sessions come and go without touching the metadata.                     *)
LEMMA SessionKeepsInv ==
    ASSUME LifeInv, NEW a \in Apps, Connect(a) \/ Disconnect(a)
    PROVE  LifeInv'
<1>1. UNCHANGED <<made, branches, schemas, active, run>>
  BY DEF Connect, Disconnect
<1>2. session \in [Apps -> Sessions \cup {Nothing}]
  BY DEF LifeInv, TypeOK
<1>3. session' \in [Apps -> Sessions \cup {Nothing}]
  <2>1. CASE Connect(a)
    <3> DEFINE p == IF active = 0 THEN "public" ELSE SchemaName(active)
    <3>1. session' = [session EXCEPT ![a] = [path |-> p, joined |-> active]]
      BY <2>1 DEF Connect
    <3>2. active # 0 => branches[active] \in Branches
      BY CreatedIds DEF LifeInv, TypeOK, Created
    <3>3. p \in Names \cup {"public", "dropped"}
      BY <3>2 DEF SchemaName, Branches
    <3>4. active \in 0..MaxBranches
      BY DEF LifeInv, TypeOK
    <3> HIDE DEF p
    <3>5. [path |-> p, joined |-> active] \in Sessions
      BY <3>3, <3>4 DEF Sessions
    <3> QED
      BY <1>2, <3>1, <3>5
  <2>2. CASE Disconnect(a)
    BY <1>2, <2>2 DEF Disconnect
  <2> QED
    BY <2>1, <2>2
<1>4. TypeOK'
  BY <1>1, <1>3 DEF LifeInv, TypeOK, Created
<1>5. LiveNamesDiffer' /\ RunsKnowTheirBranch' /\ MergesHoldTheirBranch'
  BY <1>1 DEF LifeInv, LiveNamesDiffer, RunsKnowTheirBranch, MergesHoldTheirBranch, Created
<1> QED
  BY <1>1, <1>4, <1>5 DEF LifeInv

-----------------------------------------------------------------------------
(* The theorems.                                                           *)

(* The invariant of the lifecycle.                                         *)
THEOREM LifeInvariance == Spec => []LifeInv
<1>1. Init => LifeInv
  <2> SUFFICES ASSUME Init PROVE LifeInv
    OBVIOUS
  <2>1. /\ made = 0 /\ active = 0 /\ schemas = {} /\ Created = {}
        /\ branches \in [Ids -> Branches \cup {Nothing}]
        /\ session \in [Apps -> Sessions \cup {Nothing}]
    BY DEF Init, Created
  <2>2. run \in [Clients -> Runs] /\ \A c \in Clients : run[c].op = "none"
    BY IdleType DEF Init
  <2>3. 0 \in 0..MaxBranches /\ 0 \in 0..0
    BY LifecycleAssumption
  <2> QED
    BY <2>1, <2>2, <2>3
    DEF LifeInv, TypeOK, LiveNamesDiffer, RunsKnowTheirBranch, MergesHoldTheirBranch
<1>2. LifeInv /\ [Next]_lifeVars => LifeInv'
  <2> SUFFICES ASSUME LifeInv, [Next]_lifeVars PROVE LifeInv'
    OBVIOUS
  <2>1. ASSUME NEW c \in Clients, NEW n \in Names,
               CreateRead(c, n) \/ CheckoutRead(c, n) \/ DropRead(c, n) \/ MergeStart(c, n)
        PROVE  LifeInv'
    <3>1. \A i \in Find(n) : i \in Created /\ i \in 0..MaxBranches
      BY Found, CreatedIds DEF LifeInv
    <3>2. 0 \in 0..MaxBranches
      BY LifecycleAssumption
    <3>3. CASE CreateRead(c, n)
      BY <3>2, <3>3, BeginKeepsInv DEF CreateRead, Ops
    <3>4. CASE CheckoutRead(c, n)
      BY <3>1, <3>4, BeginKeepsInv DEF CheckoutRead, Ops
    <3>5. CASE DropRead(c, n)
      BY <3>1, <3>5, BeginKeepsInv DEF DropRead, Ops
    <3>6. CASE MergeStart(c, n)
      BY <3>1, <3>6, BeginKeepsInv DEF MergeStart, Ops
    <3> QED
      BY <2>1, <3>3, <3>4, <3>5, <3>6
  <2>2. ASSUME NEW c \in Clients,
               CreateDuplicate(c) \/ DropDeadlock(c) \/ MergeFail(c)
        PROVE  LifeInv'
    BY <2>2, FailKeepsInv DEF CreateDuplicate, DropDeadlock, MergeFail
  <2>3. ASSUME NEW c \in Clients,
               CreateCommit(c) \/ CheckoutWrite(c) \/ DropCommit(c) \/ MergeCommit(c)
        PROVE  LifeInv'
    BY <2>3, CreateKeepsInv, CheckoutKeepsInv, DropKeepsInv, MergeKeepsInv
  <2>4. ASSUME NEW a \in Apps, Connect(a) \/ Disconnect(a)
        PROVE  LifeInv'
    BY <2>4, SessionKeepsInv
  <2>5. CASE UNCHANGED lifeVars
    BY <2>5 DEF lifeVars, LifeInv, TypeOK, LiveNamesDiffer, RunsKnowTheirBranch,
       MergesHoldTheirBranch, Created
  <2> QED
    BY <2>1, <2>2, <2>3, <2>4, <2>5 DEF Next
<1> QED
  BY <1>1, <1>2, PTL DEF Spec

(* The metadata stays well typed under every interleaving of the commands. *)
THEOREM LifeTypeCorrect == Spec => []TypeOK
<1>1. LifeInv => TypeOK
  BY DEF LifeInv
<1> QED
  BY <1>1, LifeInvariance, PTL

(* No two live branches share a name, however many processes create, drop  *)
(* and merge at once: neither a merge nor a drop frees a name too early    *)
(* (branch/create.go).                                                     *)
THEOREM NamesDiffer == Spec => []LiveNamesDiffer
<1>1. LifeInv => LiveNamesDiffer
  BY DEF LifeInv
<1> QED
  BY <1>1, LifeInvariance, PTL

(* A dropped branch stays dropped and a merged one never becomes active    *)
(* again: the drop of a branch waits for the merge that has locked it, so  *)
(* a merge never marks a dropped branch as merged (merge/engine.go).       *)
THEOREM StatusAdvances == Spec => StatusOnlyAdvances
<1> DEFINE Advances == \A i \in Created :
             /\ branches[i].status = "dropped" => branches'[i].status = "dropped"
             /\ branches[i].status = "merged" => branches'[i].status # "active"
<1>1. LifeInv /\ [Next]_lifeVars => [Advances]_lifeVars
  <2> SUFFICES ASSUME LifeInv, Next PROVE Advances
    OBVIOUS
  <2>0. /\ branches \in [Ids -> Branches \cup {Nothing}]
        /\ \A i \in Created : i \in Ids /\ branches[i] \in Branches
    BY CreatedIds DEF LifeInv, TypeOK
  <2>1. CASE UNCHANGED branches
    BY <2>1
  <2>2. ASSUME NEW c \in Clients, CreateCommit(c)
        PROVE  Advances
    <3>1. made + 1 \notin Created
      BY CreatedIds DEF LifeInv, Created
    <3> QED
      BY <2>0, <2>2, <3>1 DEF CreateCommit
  <2>3. ASSUME NEW c \in Clients, DropCommit(c)
        PROVE  Advances
    BY <2>0, <2>3 DEF DropCommit, Branches
  <2>4. ASSUME NEW c \in Clients, MergeCommit(c)
        PROVE  Advances
    <3>1. branches[run[c].id].status = "active"
      BY <2>4 DEF LifeInv, MergesHoldTheirBranch, MergeCommit
    <3> QED
      BY <2>0, <2>4, <3>1 DEF MergeCommit, Branches
  <2>5. \/ UNCHANGED branches
        \/ \E c \in Clients : CreateCommit(c) \/ DropCommit(c) \/ MergeCommit(c)
    BY DEF Next, CreateRead, CheckoutRead, DropRead, MergeStart, Begin, CreateDuplicate,
       CheckoutWrite, DropDeadlock, MergeFail, Fail, Connect, Disconnect
  <2> QED
    BY <2>1, <2>2, <2>3, <2>4, <2>5
<1> QED
  BY <1>1, LifeInvariance, PTL DEF Spec, StatusOnlyAdvances

-----------------------------------------------------------------------------
(* Schemas, with one client that drops.                                    *)

\* At most one client runs drop.
OneDropper ==
    \A c, d \in Clients : "drop" \in Commands[c] /\ "drop" \in Commands[d] => c = d

\* A client runs what it may run, a drop or a merge under the name of the live
\* branch it found.
RunsKnowTheirName ==
    \A c \in Clients :
        /\ run[c].op # "none" => run[c].op \in Commands[c]
        /\ run[c].op \in {"drop", "merge"} => /\ run[c].id \in Created
                                              /\ branches[run[c].id].name = run[c].name
                                              /\ branches[run[c].id].status # "dropped"

ActiveNames == {branches[i].name : i \in {j \in Created : branches[j].status = "active"}}

SchemaInv == LifeInv /\ RunsKnowTheirName /\ SchemasMatchBranches

(* A command that begins or ends leaves the names of the others.           *)
LEMMA SetActiveName ==
    ASSUME TypeOK, NEW c \in Clients, NEW b, NEW wrote \in BOOLEAN, SetActive(c, b, wrote)
    PROVE  /\ run'[c].op = "none"
           /\ \A d \in Clients : d # c => /\ run'[d].op = run[d].op
                                          /\ run'[d].id = run[d].id
                                          /\ run'[d].name = run[d].name
<1>1. run \in [Clients -> Runs]
  BY DEF TypeOK
<1>2. run' = [d \in Clients |-> IF d = c THEN Idle
                                ELSE [run[d] EXCEPT !.moved = @ \/ wrote]]
  BY DEF SetActive
<1>3. ASSUME NEW d \in Clients
      PROVE  /\ [run[d] EXCEPT !.moved = @ \/ wrote].op = run[d].op
             /\ [run[d] EXCEPT !.moved = @ \/ wrote].id = run[d].id
             /\ [run[d] EXCEPT !.moved = @ \/ wrote].name = run[d].name
  <2>1. run[d] \in Runs
    BY <1>1
  <2> DEFINE m == run[d].moved \/ wrote
  <2>2. [run[d] EXCEPT !.moved = @ \/ wrote] = [run[d] EXCEPT !.moved = m]
    OBVIOUS
  <2> HIDE DEF m
  <2>3. /\ [run[d] EXCEPT !.moved = m].op = run[d].op
        /\ [run[d] EXCEPT !.moved = m].id = run[d].id
        /\ [run[d] EXCEPT !.moved = m].name = run[d].name
    BY <2>1 DEF Runs
  <2> QED
    BY <2>2, <2>3
<1> QED
  BY <1>2, <1>3, IdleType

(* A command that begins, on a live branch of its name.                    *)
LEMMA BeginKeepsSchemas ==
    ASSUME SchemaInv, NEW c \in Clients, NEW op \in Ops, NEW n \in Names, NEW i,
           Begin(c, op, n, i),
           op \in {"drop", "merge"} => i \in Find(n)
    PROVE  RunsKnowTheirName' /\ SchemasMatchBranches'
<1> DEFINE r == [op |-> op, name |-> n, id |-> i, seen |-> active, moved |-> FALSE]
<1>1. /\ run' = [run EXCEPT ![c] = r] /\ op \in Commands[c]
      /\ UNCHANGED <<made, branches, schemas, active, session>>
  BY DEF Begin
<1>2. run \in [Clients -> Runs] /\ r.op = op /\ r.id = i /\ r.name = n
  BY DEF SchemaInv, LifeInv, TypeOK
<1> HIDE DEF r
<1>3. run'[c] = r /\ \A d \in Clients : d # c => run'[d] = run[d]
  BY <1>1, <1>2
<1>4. RunsKnowTheirName'
  BY <1>1, <1>2, <1>3, Found DEF SchemaInv, RunsKnowTheirName, Created
<1> QED
  BY <1>1, <1>4 DEF SchemaInv, SchemasMatchBranches, Created

(* A command that ends without a change of a branch.                       *)
LEMMA EndKeepsSchemas ==
    ASSUME SchemaInv, NEW c \in Clients, run'[c].op = "none",
           \A d \in Clients : d # c => /\ run'[d].op = run[d].op
                                       /\ run'[d].id = run[d].id
                                       /\ run'[d].name = run[d].name,
           UNCHANGED <<made, branches, schemas>>
    PROVE  RunsKnowTheirName' /\ SchemasMatchBranches'
BY DEF SchemaInv, RunsKnowTheirName, SchemasMatchBranches, Created

(* Create adds a branch and its schema.                                    *)
LEMMA CreateKeepsSchemas ==
    ASSUME SchemaInv, NEW c \in Clients, CreateCommit(c)
    PROVE  RunsKnowTheirName' /\ SchemasMatchBranches'
<1> DEFINE n == run[c].name
           id == made + 1
           b == [name |-> n, parent |-> run[c].seen, status |-> "active"]
           w == run[c].seen = 0
<1>1. /\ id \in Ids /\ made' = id
      /\ branches' = [branches EXCEPT ![id] = b]
      /\ schemas' = schemas \cup {n}
      /\ SetActive(c, id, w)
  BY DEF CreateCommit
<1>2. w \in BOOLEAN
  OBVIOUS
<1> HIDE DEF w
<1>3. /\ run'[c].op = "none"
      /\ \A d \in Clients : d # c => /\ run'[d].op = run[d].op
                                     /\ run'[d].id = run[d].id
                                     /\ run'[d].name = run[d].name
  BY <1>1, <1>2, SetActiveName DEF SchemaInv, LifeInv
<1>4. b.name = n /\ b.status = "active"
  OBVIOUS
<1>5. /\ made \in Nat /\ branches \in [Ids -> Branches \cup {Nothing}]
      /\ \A i \in Created : i \in Ids
  BY CreatedIds DEF SchemaInv, LifeInv, TypeOK
<1>6. Created' = Created \cup {id} /\ id \notin Created
  BY <1>1, <1>5 DEF Created
<1> HIDE DEF b, id, n
<1>7. branches'[id] = b /\ \A i \in Created : branches'[i] = branches[i]
  BY <1>1, <1>5, <1>6
<1>8. RunsKnowTheirName'
  BY <1>3, <1>6, <1>7 DEF SchemaInv, RunsKnowTheirName
<1>9. ActiveNames' = ActiveNames \cup {n}
  BY <1>4, <1>6, <1>7 DEF ActiveNames
<1> QED
  BY <1>1, <1>8, <1>9 DEF SchemaInv, SchemasMatchBranches, ActiveNames

(* The end of a live branch takes its schema and no other, and no other    *)
(* drop or merge works on it.                                              *)
LEMMA RetireKeepsSchemas ==
    ASSUME SchemaInv, NEW c \in Clients, NEW status \in {"merged", "dropped"},
           NEW w \in BOOLEAN,
           run[c].op \in {"drop", "merge"},
           \A d \in Clients : d # c /\ run[d].op \in {"drop", "merge"} /\ status = "dropped" =>
                                  run[d].id # run[c].id,
           branches' = [branches EXCEPT ![run[c].id].status = status],
           schemas' = schemas \ {run[c].name},
           SetActive(c, 0, w),
           UNCHANGED made
    PROVE  RunsKnowTheirName' /\ SchemasMatchBranches'
<1> DEFINE i == run[c].id
           b == [branches[i] EXCEPT !.status = status]
<1>1. i \in Created /\ branches[i].name = run[c].name /\ branches[i].status # "dropped"
  BY DEF SchemaInv, RunsKnowTheirName
<1>2. /\ i \in Ids /\ branches[i] \in Branches
      /\ branches \in [Ids -> Branches \cup {Nothing}]
      /\ \A j \in Created : j \in Ids
  BY <1>1, CreatedIds DEF SchemaInv, LifeInv, TypeOK
<1>3. b.status = status /\ b.name = branches[i].name
  BY <1>2 DEF Branches
<1> HIDE DEF b
<1>4. branches' = [branches EXCEPT ![i] = b]
  BY DEF b
<1>5. branches'[i] = b /\ \A j \in Created : j # i => branches'[j] = branches[j]
  BY <1>2, <1>4
<1>6. /\ run'[c].op = "none"
      /\ \A d \in Clients : d # c => /\ run'[d].op = run[d].op
                                     /\ run'[d].id = run[d].id
                                     /\ run'[d].name = run[d].name
  BY SetActiveName DEF SchemaInv, LifeInv
<1>7. Created' = Created
  BY DEF Created
<1> HIDE DEF i
<1>8. RunsKnowTheirName'
  <2> SUFFICES ASSUME NEW d \in Clients
               PROVE  /\ run'[d].op # "none" => run'[d].op \in Commands[d]
                      /\ run'[d].op \in {"drop", "merge"} =>
                            /\ run'[d].id \in Created
                            /\ branches'[run'[d].id].name = run'[d].name
                            /\ branches'[run'[d].id].status # "dropped"
    BY <1>7 DEF RunsKnowTheirName
  <2>1. CASE d = c
    BY <1>6, <2>1
  <2>2. CASE d # c
    <3>1. /\ run'[d].op = run[d].op /\ run'[d].id = run[d].id /\ run'[d].name = run[d].name
          /\ run[d].op # "none" => run[d].op \in Commands[d]
          /\ run[d].op \in {"drop", "merge"} => /\ run[d].id \in Created
                                                /\ branches[run[d].id].name = run[d].name
                                                /\ branches[run[d].id].status # "dropped"
      BY <1>6, <2>2 DEF SchemaInv, RunsKnowTheirName
    <3>2. run[d].op \in {"drop", "merge"} /\ status = "dropped" => run[d].id # i
      BY <2>2 DEF i
    <3>3. CASE run[d].id = i
      BY <1>3, <1>5, <3>1, <3>2, <3>3
    <3>4. CASE run[d].id # i
      BY <1>5, <3>1, <3>4
    <3> QED
      BY <3>3, <3>4
  <2> QED
    BY <2>1, <2>2
<1>9. ActiveNames' = ActiveNames \ {run[c].name}
  <2>1. \A j \in Created : branches'[j].status = "active" <=> j # i /\ branches[j].status = "active"
    BY <1>3, <1>5
  <2>2. \A j \in Created : j # i /\ branches[j].status = "active" => branches[j].name # run[c].name
    BY <1>1 DEF SchemaInv, LifeInv, LiveNamesDiffer
  <2>3. \A j \in Created : j # i => branches'[j].name = branches[j].name
    BY <1>5
  <2> QED
    BY <1>1, <1>7, <2>1, <2>2, <2>3 DEF ActiveNames
<1> QED
  BY <1>8, <1>9 DEF SchemaInv, SchemasMatchBranches, ActiveNames

(* With one client that drops, each active branch has its schema and no    *)
(* schema outlives its branch: a drop that waits for a merge, or overtakes *)
(* one, still finds the branch it read (drop.go:27, engine.go:281).        *)
THEOREM SchemasAreBranches == OneDropper => (Spec => []SchemasMatchBranches)
<1> SUFFICES ASSUME OneDropper PROVE Spec => []SchemasMatchBranches
  OBVIOUS
<1>1. Init => RunsKnowTheirName /\ SchemasMatchBranches
  BY IdleType DEF Init, RunsKnowTheirName, SchemasMatchBranches, Created
<1>2. SchemaInv /\ LifeInv' /\ [Next]_lifeVars => SchemaInv'
  <2> SUFFICES ASSUME SchemaInv, LifeInv', [Next]_lifeVars
               PROVE  RunsKnowTheirName' /\ SchemasMatchBranches'
    BY DEF SchemaInv
  <2>1. ASSUME NEW c \in Clients, NEW n \in Names,
               CreateRead(c, n) \/ CheckoutRead(c, n) \/ DropRead(c, n) \/ MergeStart(c, n)
        PROVE  RunsKnowTheirName' /\ SchemasMatchBranches'
    <3>1. \E op \in Ops : \E i : Begin(c, op, n, i) /\ (op \in {"drop", "merge"} => i \in Find(n))
      BY <2>1 DEF CreateRead, CheckoutRead, DropRead, MergeStart, Ops
    <3> QED
      BY <3>1, BeginKeepsSchemas
  <2>2. ASSUME NEW c \in Clients, CreateDuplicate(c) \/ DropDeadlock(c) \/ MergeFail(c)
        PROVE  RunsKnowTheirName' /\ SchemasMatchBranches'
    <3>1. /\ UNCHANGED <<made, branches, schemas>>
          /\ run' = [run EXCEPT ![c] = Idle]
      BY <2>2 DEF CreateDuplicate, DropDeadlock, MergeFail, Fail
    <3>2. run'[c].op = "none" /\ \A d \in Clients : d # c => run'[d] = run[d]
      BY <3>1, IdleType DEF SchemaInv, LifeInv, TypeOK
    <3> QED
      BY <3>1, <3>2, EndKeepsSchemas
  <2>3. ASSUME NEW c \in Clients, CreateCommit(c)
        PROVE  RunsKnowTheirName' /\ SchemasMatchBranches'
    BY <2>3, CreateKeepsSchemas
  <2>4. ASSUME NEW c \in Clients, CheckoutWrite(c)
        PROVE  RunsKnowTheirName' /\ SchemasMatchBranches'
    BY <2>4, SetActiveName, EndKeepsSchemas DEF CheckoutWrite, SchemaInv, LifeInv
  <2>5. ASSUME NEW c \in Clients, DropCommit(c)
        PROVE  RunsKnowTheirName' /\ SchemasMatchBranches'
    <3> DEFINE w == active = run[c].id
    <3>1. /\ run[c].op = "drop" /\ ~Locked(run[c].id)
          /\ branches' = [branches EXCEPT ![run[c].id].status = "dropped"]
          /\ schemas' = schemas \ {run[c].name}
          /\ SetActive(c, 0, w) /\ UNCHANGED made
      BY <2>5 DEF DropCommit
    <3>2. w \in BOOLEAN
      OBVIOUS
    <3> HIDE DEF w
    <3>3. ASSUME NEW d \in Clients, d # c, run[d].op \in {"drop", "merge"}
          PROVE  run[d].id # run[c].id
      <4>1. run[d].op # "drop"
        <5>1. run[d].op = "drop" => "drop" \in Commands[d]
          BY DEF SchemaInv, RunsKnowTheirName
        <5>2. "drop" \in Commands[c]
          BY <3>1 DEF SchemaInv, RunsKnowTheirName
        <5> QED
          BY <3>3, <5>1, <5>2 DEF OneDropper
      <4> QED
        BY <3>1, <3>3, <4>1 DEF Locked
    <3> QED
      BY <3>1, <3>2, <3>3, RetireKeepsSchemas
  <2>6. ASSUME NEW c \in Clients, MergeCommit(c)
        PROVE  RunsKnowTheirName' /\ SchemasMatchBranches'
    <3> DEFINE w == run[c].seen = run[c].id
    <3>1. /\ run[c].op = "merge"
          /\ branches' = [branches EXCEPT ![run[c].id].status = "merged"]
          /\ schemas' = schemas \ {run[c].name}
          /\ SetActive(c, 0, w) /\ UNCHANGED made
      BY <2>6 DEF MergeCommit
    <3>2. w \in BOOLEAN
      OBVIOUS
    <3> HIDE DEF w
    <3> QED
      BY <3>1, <3>2, RetireKeepsSchemas
  <2>7. ASSUME NEW a \in Apps, Connect(a) \/ Disconnect(a)
        PROVE  RunsKnowTheirName' /\ SchemasMatchBranches'
    BY <2>7 DEF Connect, Disconnect, SchemaInv, RunsKnowTheirName, SchemasMatchBranches, Created
  <2>8. CASE UNCHANGED lifeVars
    BY <2>8 DEF lifeVars, SchemaInv, RunsKnowTheirName, SchemasMatchBranches, Created
  <2> QED
    BY <2>1, <2>2, <2>3, <2>4, <2>5, <2>6, <2>7, <2>8 DEF Next
<1>3. SchemaInv => SchemasMatchBranches
  BY DEF SchemaInv
<1>4. LifeInv /\ RunsKnowTheirName /\ SchemasMatchBranches => SchemaInv
  BY DEF SchemaInv
<1> QED
  BY <1>1, <1>2, <1>3, <1>4, LifeInvariance, PTL DEF Spec
=============================================================================
