------------------------------ MODULE CommitLog ------------------------------
(***************************************************************************)
(* chuck commit (cmd/chuck/main.go, commitCmd) beside the branch commands  *)
(* and the applications that write to the branches.  A commit is a row of  *)
(* chuck_meta.commits that counts the rows of the delta tables.  commit    *)
(* reads the active branch, the parent and three counts of each table, and *)
(* inserts, every statement in a transaction of its own; create reads the  *)
(* latest commit of the branch it forks from.                              *)
(*                                                                         *)
(* An operator named in a parenthesis before a definition is a wrong form  *)
(* of that definition, kept to show that some property notices the bug.    *)
(***************************************************************************)
EXTENDS BranchLifecycle, Sequences, FiniteSets

CONSTANTS
    Committers,    \* command-line processes that run chuck commit
    TableCount,    \* number of tracked tables
    RowKeys,       \* primary keys of a table
    MaxCommits,    \* bound on commits, those under way included
    MaxWrites      \* bound on branch statements

ASSUME CommitAssumption ==
    /\ TableCount \in Nat /\ MaxCommits \in Nat /\ MaxWrites \in Nat
    /\ IsFiniteSet(RowKeys) /\ IsFiniteSet(Committers)

\* What the delta table says of a row; the three counts are taken in this order.
Counted  == <<"inserted", "updated", "deleted">>
Marks    == {"none", "inserted", "updated", "deleted"}
Deltas   == [1..TableCount -> [RowKeys -> Marks]]
Untouched == [t \in 1..TableCount |-> [k \in RowKeys |-> "none"]]
Summaries == [{"inserted", "updated", "deleted"} -> Nat]
Zero     == [m \in {"inserted", "updated", "deleted"} |-> 0]

\* Count queries in order: those of table t are 3(t - 1) + 1 to 3t.
Last       == 3 * TableCount
TableOf(q) == ((q - 1) \div 3) + 1
MarkOf(q)  == Counted[((q - 1) % 3) + 1]

Unread   == MaxCommits + 1
\* The counts, message and author in a row are left out: only chuck log shows
\* them.  For the properties: before is what was committed when commit began,
\* known says that the queries for the parent were answered.
Commits  == [branch : Ids, parent : 0..MaxCommits, before : 0..MaxCommits,
             known : BOOLEAN]
\* A running commit: the branch and its schema name as read, the parent, Unread
\* before that, the next count query, and, for the properties, whether the delta
\* tables are those of the branch and unchanged since the first count, and every
\* count was answered.
Works    == [branch : 0..MaxBranches, schema : Names \cup {"dropped"},
             parent : 0..Unread, query : 1..(Last + 1), counts : Summaries,
             quiet : BOOLEAN, before : 0..MaxCommits, known : BOOLEAN]

VARIABLES
    commits,    \* chuck_meta.commits by created_at; 0 stands for no commit
    base,       \* base_commit_id of each branch
    basis,      \* base commit that the create command of each client has read
    delta,      \* the delta tables of each branch, while its schema exists
    work,       \* the commit command of each committer
    writes      \* branch statements left

logVars    == <<commits, base, basis, delta, work, writes>>
commitVars == <<lifeVars, logVars>>

CommitTypeOK ==
    /\ commits \in Seq(Commits) /\ Len(commits) <= MaxCommits
    /\ base \in [Ids -> 0..MaxCommits]
    /\ basis \in [Clients -> 0..Unread]
    /\ delta \in [Ids -> Deltas]
    /\ work \in [Committers -> Works]
    /\ writes \in 0..MaxWrites

NoWork == [branch |-> 0, schema |-> "dropped", parent |-> Unread, query |-> 1,
           counts |-> Zero, quiet |-> FALSE, before |-> 0, known |-> TRUE]

CommitInit ==
    /\ Init
    /\ commits = <<>>
    /\ base = [i \in Ids |-> 0]
    /\ basis = [c \in Clients |-> Unread]
    /\ delta = [i \in Ids |-> Untouched]
    /\ work = [c \in Committers |-> NoWork]
    /\ writes = MaxWrites

-----------------------------------------------------------------------------
\* ORDER BY created_at DESC LIMIT 1, 0 without a row.
\* (LatestOfAll: of any branch.)
CommitsOf(b) == {i \in 1..Len(commits) : commits[i].branch = b}
LatestOfAll(b) == Len(commits)
Latest(b) ==
    LET mine == CommitsOf(b)
    IN  IF mine = {} THEN 0 ELSE CHOOSE i \in mine : \A j \in mine : j <= i

\* Branch i is active and its schema, with the delta tables, is there.
HasTables(i) == branches[i].status = "active" /\ branches[i].name \in schemas

\* The branch whose delta tables are in schema chuck_<n>, as a set.
Owner(n) == {i \in Created : branches[i].name = n /\ HasTables(i)}

\* Rows of table t that carry one of the marks, in the delta tables of branch i.
Marked(i, t, marks) == {k \in RowKeys : delta[i][t][k] \in marks}

\* SELECT COUNT(*) of query q, 0 if the schema is gone (an ignored error).
\* (CountDeletedToo: the first query forgets the deleted flag.)
CountDeletedToo(n, q) ==
    LET marks == IF MarkOf(q) = "inserted" THEN {"inserted", "deleted"} ELSE {MarkOf(q)}
    IN  Cardinality(UNION {Marked(i, TableOf(q), marks) : i \in Owner(n)})
Count(n, q) == Cardinality(UNION {Marked(i, TableOf(q), {MarkOf(q)}) : i \in Owner(n)})

-----------------------------------------------------------------------------
(* chuck commit.                                                           *)

Working(c) == work[c].branch # 0

CommitBegin(c) ==
    /\ ~Working(c)
    /\ Len(commits) + Cardinality({d \in Committers : Working(d)}) < MaxCommits
    /\ active # 0
    /\ work' = [work EXCEPT ![c] = [NoWork EXCEPT !.branch = active,
                                                  !.schema = SchemaName(active),
                                                  !.before = Len(commits)]]
    /\ UNCHANGED <<lifeVars, commits, base, basis, delta, writes>>

\* The latest commit of the branch, or else what the branch was forked from.
\* (ParentIsBase: the second query alone.)
ParentIsBase(c) ==
    /\ Working(c)
    /\ work[c].parent = Unread
    /\ work' = [work EXCEPT ![c].parent = base[work[c].branch]]
    /\ UNCHANGED <<lifeVars, commits, base, basis, delta, writes>>
CommitParent(c) ==
    LET b    == work[c].branch
        last == Latest(b)
    IN  /\ Working(c)
        /\ work[c].parent = Unread
        /\ work' = [work EXCEPT ![c].parent = IF last # 0 THEN last ELSE base[b]]
        /\ UNCHANGED <<lifeVars, commits, base, basis, delta, writes>>

\* The error of either query is ignored: without the latest commit it is the
\* base commit, without that one no parent.
CommitParentError(c) ==
    /\ Working(c)
    /\ work[c].parent = Unread
    /\ \E p \in {base[work[c].branch], 0} :
         work' = [work EXCEPT ![c].parent = p, ![c].known = FALSE]
    /\ UNCHANGED <<lifeVars, commits, base, basis, delta, writes>>

CommitCount(c) ==
    LET w == work[c]
    IN  /\ Working(c)
        /\ w.parent # Unread
        /\ w.query <= Last
        /\ work' = [work EXCEPT
               ![c].query = w.query + 1,
               ![c].counts[MarkOf(w.query)] = @ + Count(w.schema, w.query),
               ![c].quiet = IF w.query = 1 THEN w.branch \in Owner(w.schema) ELSE w.quiet]
        /\ UNCHANGED <<lifeVars, commits, base, basis, delta, writes>>

\* The error of a count is ignored: it adds nothing.
CommitCountError(c) ==
    /\ Working(c)
    /\ work[c].parent # Unread
    /\ work[c].query <= Last
    /\ work' = [work EXCEPT ![c].query = @ + 1, ![c].quiet = FALSE]
    /\ UNCHANGED <<lifeVars, commits, base, basis, delta, writes>>

CommitInsert(c) ==
    LET w == work[c]
    IN  /\ Working(c)
        /\ w.parent # Unread
        /\ w.query = Last + 1
        /\ commits' = Append(commits, [branch |-> w.branch, parent |-> w.parent,
                                       before |-> w.before, known |-> w.known])
        /\ work' = [work EXCEPT ![c] = NoWork]
        /\ UNCHANGED <<lifeVars, base, basis, delta, writes>>

\* A query that is not allowed to fail does, or the process ends.
CommitFails(c) ==
    /\ Working(c)
    /\ work' = [work EXCEPT ![c] = NoWork]
    /\ UNCHANGED <<lifeVars, commits, base, basis, delta, writes>>

-----------------------------------------------------------------------------
(* The others.                                                             *)

\* The running commits, none of them quiet any more on the branches is.
Disturbed(is) ==
    [c \in Committers |-> IF work[c].branch \in is THEN [work[c] EXCEPT !.quiet = FALSE]
                          ELSE work[c]]

\* A statement of an application changes what a delta table says of a row; only
\* a merge or a drop takes a row out of it again.
BranchWrite(i, t, k) ==
    /\ i \in Created /\ HasTables(i)
    /\ writes > 0
    /\ writes' = writes - 1
    /\ \E m \in Marks \ {"none", delta[i][t][k]} :
         /\ m = "inserted" => delta[i][t][k] # "updated"
         /\ m = "updated" => delta[i][t][k] # "inserted"
         /\ delta' = [delta EXCEPT ![i][t][k] = m]
    /\ work' = Disturbed({i})
    /\ UNCHANGED <<lifeVars, commits, base, basis>>

\* branch.Create between its other two statements: the latest commit of the
\* branch that was active at the first one.
CreateReadBase(c) ==
    /\ run[c].op = "create"
    /\ basis[c] = Unread
    /\ basis' = [basis EXCEPT ![c] = IF run[c].seen = 0 THEN 0 ELSE Latest(run[c].seen)]
    /\ UNCHANGED <<lifeVars, commits, base, delta, work, writes>>

\* A branch command: the new branch gets the base commit that was read, a
\* removed schema takes the delta tables with it.
Gone == {i \in Created : HasTables(i) /\ ~HasTables(i)'}
LifecycleStep ==
    /\ Next
    /\ \/ made' = made /\ UNCHANGED base
       \/ \E c \in Clients : /\ made' # made
                             /\ run[c].op = "create" /\ run'[c].op = "none"
                             /\ basis[c] # Unread
                             /\ base' = [base EXCEPT ![made'] = basis[c]]
    /\ basis' = [c \in Clients |-> IF run'[c].op = "create" THEN basis[c] ELSE Unread]
    /\ delta' = [i \in Ids |-> IF i \in Gone THEN Untouched ELSE delta[i]]
    /\ work' = Disturbed(Gone)
    /\ UNCHANGED <<commits, writes>>

CommitNext ==
    \/ \E c \in Committers :
         \/ CommitBegin(c)
         \/ CommitParent(c) \/ CommitParentError(c)
         \/ CommitCount(c) \/ CommitCountError(c)
         \/ CommitInsert(c)
         \/ CommitFails(c)
    \/ \E c \in Clients : CreateReadBase(c)
    \/ \E i \in Ids, t \in 1..TableCount, k \in RowKeys : BranchWrite(i, t, k)
    \/ LifecycleStep

CommitSpec == CommitInit /\ [][CommitNext]_commitVars

-----------------------------------------------------------------------------
(* Properties.                                                             *)

(* The parent of a commit is an earlier commit of its own branch or of the *)
(* branch it was forked from, although the active branch and the commits   *)
(* change between the statements of commit and create, and although commit *)
(* ignores the errors of its queries (main.go:374-389,                     *)
(* branch/create.go:43-60).                                                *)
ParentInLineage ==
    \A i \in 1..Len(commits) :
        LET p == commits[i].parent
        IN  p # 0 => /\ p < i
                     /\ commits[p].branch \in {commits[i].branch,
                                               branches[commits[i].branch].parent}

(* The log of a branch forks only where commits overlap, or where a query  *)
(* for the parent failed: of two commits with the same parent the later    *)
(* one, if its queries were answered, had begun before the earlier one was *)
(* there (main.go:374-436, no transaction around the statements).          *)
ForksOverlap ==
    \A j \in 1..Len(commits) : \A i \in 1..(j - 1) :
        /\ commits[i].branch = commits[j].branch
        /\ commits[i].parent = commits[j].parent
        /\ commits[j].known
        => commits[j].before < i

(* If nothing touches the delta tables of the branch while they are being  *)
(* counted, and every count is answered, the counts are those of the       *)
(* branch, each row in one of them (main.go:401-419).                      *)
Total(b, m) == Cardinality({r \in (1..TableCount) \X RowKeys : delta[b][r[1]][r[2]] = m})
QuietCountsAreExact ==
    \A c \in Committers :
        Working(c) /\ work[c].query = Last + 1 /\ work[c].quiet =>
            work[c].counts = [m \in DOMAIN Zero |-> Total(work[c].branch, m)]
=============================================================================
