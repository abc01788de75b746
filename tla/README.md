# chuckDB in TLA+

chuckDB puts branches on top of one PostgreSQL database. A branch is a schema
`chuck_<name>` with, for every tracked table, a *delta table*, a *view* and an
INSTEAD OF *trigger*; `chuck merge` replays the delta tables into production.
This directory models that program, checks the models with TLC on small
instances, and proves the main invariants with TLAPS for all values of the
constants. Line numbers are those of the repository's files.

## 1. Inventory

| Component | State | Operations | Interaction |
|---|---|---|---|
| Branch data plane (`internal/delta/schema.go`, `view.go`) | delta tables (`__deleted`, `__is_new`), views (passthrough or overlay), branch sequences | INSERT, UPDATE, DELETE through a view; cascades to the children's views | reads production; draws from production sequences; notifies `chuck_write` |
| Cascade inspection (`schema.go:153`) | none | `BuildCascadeGraph`, `InspectFKs` | called when a branch is created and when a view is upgraded |
| View-upgrade listener (`internal/proxy/proxy.go:81`) | its connection, one goroutine per notification | upgrade a view to overlay, set `is_dirty` | notifications in, DDL on the branch out |
| Proxy process (`cmd/chuck/main.go:768`, `proxy.go:43`) | the pid file, the port, the process | start, run, stop | command line, operating system; contains the listener |
| Proxy connection (`proxy.go:170`) | two sockets, the handler, two copy loops, `search_path` | start-up relay, routing, relay, shutdown | application and PostgreSQL; reads `active_branch` once |
| Merge engine (`internal/merge`) | one SERIALIZABLE transaction, the remap table | validate, detect conflicts, remap, repair references, replay, drop the schema | reads the delta tables, writes production; beside everybody else |
| Replay order (`engine.go:289`) | none | `sortTables` | called by the merge |
| Branch lifecycle (`internal/branch`, `cmd/chuck/main.go:313`) | `branches`, `active_branch`, the schemas | create, checkout, drop, merge | several CLI processes, metadata rows and locks |
| Commit log (`cmd/chuck/main.go:347`) | `commits`, `base_commit_id` | commit; log and status only read | reads delta tables and the active branch; create reads the latest commit |
| Bootstrap, tracking, column and trigger inspection, reports | `tracked_tables` | init, track, list, info, stats | metadata only |

What is hard here:

- A view is upgraded *after* the write that asks for it, by another process,
  from a notification that may be lost. That process runs a goroutine per
  notification, reconnects, is started and stopped by hand, and may crash.
- The merge is one SERIALIZABLE transaction, but the writers of the branch and
  of production are READ COMMITTED and do not know it. `nextval` is outside
  every transaction. A failed merge is repeated by hand.
- Renaming ids works on the delta tables with SQL `UPDATE`s in Go map order.
- The replay lets production's own referential actions run between its steps;
  the branch imitates those actions with triggers generated from a graph.
- Commands of several processes read metadata first and act later, or read it
  in several statements without a transaction (`commit`, `proxy start`).
- A connection is relayed by one sequential handler first and two goroutines
  later, and either side may go away at any time.

What makes each component correct:

- data plane: a branch looks like a private copy with foreign keys; rows under
  branch-local ids are marked new; a DELETE does what production would do;
- listener: no view is upgraded without a request, no request is lost without
  a failure, and a table that keeps being written is upgraded in the end;
- proxy process: the process that serves is the one that stop and status find;
- connection: every query runs on the branch it was routed to, the client sees
  its own answers only, and nothing is left running afterwards;
- merge: production becomes what the branch showed, up to renaming; no
  branch-local id gets out; concurrent production writes are not overwritten;
- replay order: each table once, parents first;
- lifecycle: live names differ, schemas belong to active branches, a status
  never goes back; sessions stay on their branch;
- commit log: parents stay in the lineage of the branch, the log forks only
  where commits overlap, counts of an undisturbed branch are exact.

`PROJECT.json` lists the hazards with their lines and the properties that
cover them.

## 2. Modules

| Module | Stands for | State | Actions |
|---|---|---|---|
| `ForeignKeys` | rows by key, what a DELETE does under CASCADE, SET NULL, RESTRICT; used for PostgreSQL's own actions and for `generateCascadeDDL` | - | - |
| `BranchStore` | triggers and views of one branch, the listener as it sees it, and the application on production | `base`, `delta`, `view`, `pending`, `pubSeq`, `localSeq`, `stamped`, `budget` | `BranchInsert`, `BranchUpdate`, `BranchMove`, `BranchDelete`, `Upgrade`, `LoseNotification`, `BaseInsert`, `BaseUpdate`, `BaseDelete` |
| `PrivateCopy` | abstract specification of a branch: ordinary tables, production shows through where the branch has not written | `rows`, `mine` | `Insert`, `Update`, `Delete`, `Refresh` |
| `FKConstraints` | a list of foreign keys of any shape | `fks` | - |
| `SortTables` | `sortTables`, its recursion as a stack of calls of `visit` | `tables`, `next`, `visiting`, `visited`, `result` | `VisitNext`, `FollowFK`, `LeaveTable` |
| `CascadeGraph` | `BuildCascadeGraph`, its recursion as a stack of calls of the helper | `root`, `calls`, `seen`, `nodes` | `SkipFK`, `MeetAgain`, `Descend`, `Return` |
| `DeleteTriggers` | one DELETE through overlay views with foreign keys of any shape: the triggers that fire one another | `victim`, `before`, `rows`, `tombstones`, `triggers`, `refused` | `NoStatement`, `Refuse`, `NothingFound`, `SetNull`, `Cascade`, `Fire`, `EndTrigger` |
| `BranchMerge` | EXTENDS `BranchStore`: `Merge` with its five callees, beside the statements of `BranchStore` | plus `phase`, `attempts`, `outcome`, `tbase`, `tdelta`, `todo`, `remap`, `fixes`, `pos`, `own`, `since`, `foreign` | `RejectViolations`, `RejectConflicts`, `DryRun`, `Start`, `RemapRow`, `RemapDone`, `FixReference`, `FixDone`, `Replay`, `Finish`, `Crash`, `OnBranch`, `OnListener`, `OnBase` |
| `ViewUpgrade` | abstract specification of the upgrade of views: what the data plane relies on | `upgraded`, `asked` | `Ask`, `Upgrade`, `Forget`, `Remove` |
| `UpgradeListener` | `listenForUpgrades`, its goroutines, and the branches it serves | `branch`, `created`, `overlay`, `dirty`, `written`, `link`, `queue`, `job`, `faults`, `missed` | `Boot`, `Die`, `Connect`, `Listen`, `LinkLost`, `Receive`, `GoroutineStep`, `GiveUp`, and those of the branches |
| `ProxyDaemon` | `proxy start`, `run`, `stop` and the operating system | `pidFile`, `proc`, `cmd`, `commands`, `reported`, `mishaps` | one per step of a command, `CommandDies`, `Bind`, `CrashProcess`, `Reuse` |
| `ProxyProcess` | composes `ProxyDaemon` and `UpgradeListener`: the listener lives as long as a process serves | both | both; start and end of the process are one step of the two |
| `ProxyConn` | `handleConnection`, the two copying goroutines, client and server | four FIFO wires, handler, copiers, client, server | one per read or write of the handler, per copied message, per message of client and server, closing of either side |
| `BranchLifecycle` | create, checkout, drop, merge on the metadata; sessions of the proxy | `made`, `branches`, `schemas`, `active`, `run`, `session` | a read and a commit action per command, `CreateDuplicate`, `DropDeadlock`, `MergeFail`, `Connect`, `Disconnect` |
| `CommitLog` | EXTENDS `BranchLifecycle`: `chuck commit` statement by statement, the base commit of create, writers of the branches | plus `commits`, `base`, `basis`, `delta`, `work`, `writes` | `CommitBegin`, `CommitParent`, `CommitParentError`, `CommitCount`, `CommitCountError`, `CommitInsert`, `CommitFails`, `CreateReadBase`, `BranchWrite`, `LifecycleStep` |
| `MC*` | instances for TLC; `MCGraphs` enumerates the inputs of the three modules on foreign keys and runs one of them in each behaviour | | |
| `*Proofs` | theorems and proofs | | |

How state corresponds:

- A key is a pair table, id. In `BranchStore` a row keeps one payload column
  and one foreign-key column, a table has at most one foreign key and foreign
  keys form no cycle; `SortTables`, `CascadeGraph` and `DeleteTriggers` have
  neither restriction.
- A call that has not returned is an element of `visiting`, `calls` or
  `triggers`; `fk` in it is the position of its loop in `fks`. A foreign key is
  known by its position, a node of the cascade graph by the positions from the
  root down to it. A trigger executes the statements of the top level of its
  graph, which are those of the foreign keys that refer to its table.
- `delta[k]` is the delta row: its columns, `__deleted`, `__is_new`. `stamped`
  is the set of production rows whose `updated_at` is later than the branch.
- `pending` (`BranchStore`) is the set of tables with an upgrade under way; the
  queue, the goroutines and the failures behind it are in `UpgradeListener`.
  `ViewUpgrade` stands between the two: `UpgradeListener` implements it, and
  `ListenerStep` of `BranchStore` allows whatever it allows to the views of a
  branch that exists (`ServiceIsCovered`).
- Ids are split in `ProdIds` (production sequences) and `LocalIds` (from
  `1000000000 * branchID` on). `ExplicitIds` are the ids of either kind that the
  application names itself, in inserts into production and in key updates;
  `DrawnIds` are the local ids left to the branch sequence.
- `tbase` and `tdelta` are the transaction's snapshot with its own writes, `own`
  the production rows it has written, `since` and `foreign` what others have
  committed to production and to the delta tables since. A write to a row in
  `since` or `foreign` is a serialization failure. Others wait for rows in
  `own`, so their statement has not happened.
- Validation and conflict detection read the snapshot and write nothing, so
  they are one step with the taking of the snapshot.
- In `BranchLifecycle` a command is two steps, because another process's
  commit fits between the read and the writes. `seen` and `moved` carry what
  the SERIALIZABLE snapshot of a merge knows of `active_branch`. `CommitLog`
  puts one more read into create, between these two.
- In `UpgradeListener` a goroutine is three steps (look up, upgrade, mark), a
  queue entry is one notification, and a branch name may be used again after a
  drop. `missed` records that a request was lost to a failure or to the absence
  of a listener.
- In `ProxyDaemon` a pid belongs to a proxy that boots or serves, to nobody, or
  to another program; each command reads the pid file, acts and writes in steps
  of its own. A command may be interrupted between any two of them.
- The queries of `commit` whose errors the code drops are two steps each, the
  answer and the error; `known` and `quiet` remember which it was.
- In `ProxyConn` a message is its kind; the first packets of a client come as a
  length word and the rest because the handler reads them so. `since`, `ran`
  and `failed` (the lookup or the injected statement has failed) are there for
  the properties.

An operator named in a parenthesis before a definition is a wrong form of it:
substituted for it, it makes some listed property fail (`mutants` in
`PROJECT.json`).

## 3. Runs

| Run | Question | Bounds | Result |
|---|---|---|---|
| `store_overlay` | Does an upgraded branch behave as a private copy with foreign keys? | 4 tables (CASCADE, SET NULL and RESTRICT children), 3 production and 2 local ids, 3 statements | holds, 28,000 states |
| `merge_clean` | Is a merge faithful beside concurrent statements, with retries? | 2 tables, CASCADE, 4 production ids, 1 local id, 3 statements, 2 attempts | holds, 409,000 states |
| `merge_setnull` | The same under SET NULL. | 3 statements, 1 attempt | holds, 112,000 states |
| `merge_explicit` | Does an id of the branch sequence get out when everything else goes wrong? | passthrough views that are upgraded late or never, two production ids and a local one named by the application, sequences behind, 2 statements, 2 attempts | holds, 469,000 states |
| `graphs` | Are replay order, cascade graph and DELETE triggers right for every foreign-key graph? | 3 tracked tables and an untracked one; all lists of up to 3 foreign keys for `sortTables` and for the graph; up to 3 with the rules CASCADE, SET NULL, NO ACTION for the triggers, between two tables of two rows (3 rows with 3 foreign keys) and the untracked table; cycles and self references included | holds, 1,288,000 states |
| `lifecycle` | Do concurrent commands keep the metadata consistent? | 2 clients of which one drops, 2 names, 3 branches, 1 session | holds, 382,000 states |
| `commit_log` | Do overlapping commits beside branch commands keep the log in order? | 2 committers (symmetric), 1 client of all branch commands, 2 names, 2 branches, 2 commits, 2 writes, any query may fail | holds, 3,314,000 states |
| `proxy_process` | Are written tables upgraded in the end, and does the pid file find the process, through failures, stops and starts? | 1 client, 3 commands, 2 processes, 2 mishaps, 1 failure, one name used twice, 2 goroutines at once, 2 queued notifications | holds, 528,000 states |
| `proxy_conn` | Is a connection routed once, unbroken, and cleaned up? | plain and SSL clients, up to 2 password rounds, 2 queries, 1 change of the active branch, the SET may fail | holds, 14,000 states |
| `viol_passthrough` | `UpdateChangesOneColumn` before the upgrade | 2 statements | violated |
| `viol_late_write` | `NoBranchWriteLost` | 1 statement | violated |
| `viol_session_to_public` | `SessionStaysOnBranch` | 1 client, 1 session | violated |

What the properties say:

- `ImplementsPrivateCopy`: `BranchStore` refines `PrivateCopy` with the overlay
  as `rows` and the delta keys as `mine`.
- `DeleteLeavesNoOrphans`, `UpdateChangesOneColumn`: action properties of the
  triggers over what the branch shows.
- `LocalIdsStayNew`: whatever the order of inserts, updates, key updates and
  deletes, a delta row under an id of the branch sequence is `__is_new`, and
  production has and refers to no such id. It contains `NoBranchIdInBase`, so
  `merge_explicit` checks only the stronger one. A local id that a key update
  names itself is excepted, because it does get out (see the divergences).
- `MergeIsFaithful`: if nobody wrote the branch after the snapshot and the
  branch has no dangling reference, the commit turns production into the
  overlay, renamed. Both conditions are needed: without the first see
  `viol_late_write`; validation looks at delta rows only, so a production row
  may refer to a parent the branch has deleted.
- `ProductionUpdateSurvives`: between `updated_at` and PostgreSQL's
  serialization check no production update is overwritten.
- `ValidatedBranchReplays`: a validated branch is refused by a foreign key only
  if production changed meanwhile (CASCADE and SET NULL).
- `RemapTargetsFresh`, `NoBranchIdInBase`, `InsertThenDeleteIsNoOp`: the
  renaming.
- `EachTableOnce`, `ParentsFirst`: `sortTables`.
- `GraphHasAllPaths`: the cascade graph has every chain of foreign keys exactly
  once. `DeleteMatchesProduction`: a DELETE that the branch accepts removes and
  changes what production would, and it refuses only for a reference or an
  untracked table that may refuse it; it refuses more than production (below).
- `LiveNamesDiffer`, `SchemasMatchBranches`, `StatusOnlyAdvances`: metadata.
- `ParentInLineage`, `ForksOverlap`, `QuietCountsAreExact`: the commit log. The
  first holds whatever queries fail; the others speak of commits whose queries
  were answered (see the divergences).
- `DaemonIsKnown`: between commands, the process that serves is the one of the
  pid file or one whose start command failed or was interrupted.
- `NothingForgotten`: a written table is upgraded, has its upgrade under way, or
  has lost the request to a failure or to the absence of a listener; a
  goroutine of a former branch of the same name takes nothing away.
- `ImplementsViewUpgrade`: no view is upgraded without a request since its
  branch exists, none goes back.
- `WrittenTablesUpgrade`, `RequestsAreServed`: liveness of the listener.
- `QueriesAreRouted`: a query runs on a branch that was active since the accept,
  or on production if there was none, the lookup failed or the injected
  statement failed. `ClientSeesOwnAnswers`, `OneSideEndsAll`, `ClientIsServed`:
  the rest of one connection.

Why the bounds are enough to be interesting: three statements allow insert,
update and delete of one row, a parent and its child both new, or a branch
write, a production write and a third one around the steps of a merge. Two
attempts let a merge fail anywhere (a crash at each phase, a serialization
failure at each write) and be repeated. In `merge_clean` the rows have two production ids
to start with; two more leave room for what the renaming is about, an insert into
production after the merge has drawn, or a second draw by the repeated merge. One
local id is one renamed row per table, so that a child can refer to a renamed
parent (more only in the theorems); `merge_explicit` has two. With two clients every pair
of commands overlaps; with two committers every pair of statements of `commit`
does, and two commits are enough for a fork or a wrong parent, since a property
speaks of two. Three foreign keys over three tables give a diamond, a cycle, a
self reference and a chain. Three proxy commands are start, stop, start or two
starts around a crash, and two mishaps a crash and then the reuse of the pid; two goroutines and two queued notifications let a late
one of a former branch overlap with one of the new branch. Two queries show an
answer out of order. The bounded constants are `MaxWrites`, `MaxMerges`,
`MaxSortFKs`, `MaxGraphFKs`, `MaxRuledFKs`, `MaxBranches`, `MaxCommits`,
`MaxCreated`, `MaxQueue`, `MaxFaults`, `MaxPids`, `MaxCommands`, `MaxMishaps`,
`MaxRounds`, `MaxQueries`, `MaxSwitches`, the id sets and `Slots`.

`CHECK_DEADLOCK FALSE` is stated in every configuration because a behaviour ends when
its statements, attempts, branches, commands or queries are used up, or the
branch is merged.

### Fairness

Only the program's own steps are fair, never its users, the network or faults.

- `ListenerFairness` is weak fairness of connecting (the loop of `proxy.go:83`
  tries again every second for ever), of `LISTEN`, of receiving from the
  connection, and of each goroutine. Faults are finitely many, as a liveness
  property needs.
- `WrittenTablesUpgrade` takes as hypotheses that in the end a process serves
  and the branch stays, and strong fairness of the application's write: a
  notification that nobody hears is not repeated, so that nothing can be
  promised to an application that writes once. The write is a step of the
  system even if nobody hears it, but the second such write changes no state;
  strong fairness is what remains of "writes again and again".
- `ProxyConn` has weak fairness of the handler, of the two copiers and their
  ends, and of client and server taking what has arrived (a peer that does not
  read is outside the properties). When and whether a client queries or closes
  is not fair.

The other specifications have no fairness: nothing in the code promises that
a merge or a command is repeated.

### Divergences kept as runs

Each is listed with its line under `findings`: the lost first update of a table
not yet upgraded, the branch write lost at the end of a merge, and the session
that goes over to production when its branch is merged.

### Divergences without a run

Stated here so that nobody takes the passing runs for more than they say; the
first group fails a listed property when the named constant is changed.

- *Two clients* (`Clients = {ann, bob}` in `proxy_process`) violate
  `DaemonIsKnown`: two starts both find no pid file, or a stop removes the file
  a start has just written (`main.go:788`, `823`, `880`).
- *GSS encryption* (`Greetings = {"gss"}`) violates `ClientIsServed`: the
  handler takes any length of 8 that is no SSL request for the start of a longer
  packet (`proxy.go:193`).
- *A lagging sequence* (`SeqBehind` and `TwoUsers` in `merge_clean`) violates
  `InsertThenDeleteIsNoOp`: a remapped row gets the id of a production row,
  which the tombstone then deletes (`remap.go:69`).
- *A chain of CASCADEs* (three tables and `TwoUsers`, with two statements in `merge_clean`) violates
  `MergeIsFaithful`. The branch moves an order away from its user and deletes
  the user. The replay deletes the user first (`engine.go:253`), production's own
  cascade takes the order and its line along, and the replay of `orders` puts
  back the order only: the line has no delta row.
- *Passthrough views* violate `ValidatedBranchReplays` as well.
- *Two clients that drop* violate `SchemasMatchBranches`: the second drop of a
  branch, waiting behind the first, removes the schema of a branch created under
  the same name meanwhile (`drop.go:27`).

The others were met while modelling:

- *A key update to a local id.* `UPDATE t SET id = id + 1` on row 11 of the branch
  writes row 12 with `__is_new = false`, as under any other new key
  (`schema.go:495`). The merge takes it for a production row, does not rename it, and
  row 12 is in production. `DrawnIds` excepts the ids named so.
- *Errors that `commit` drops.* If the query for the parent fails, the parent is the
  base commit or none, and the log forks with nothing going on at the same time
  (`main.go:376-389`); a failed count is recorded as 0 (`main.go:408-410`). Without
  the conditions `known` and `quiet` the two properties fail.
- *An error of the injected SET* (a statement timeout, a cancel request) is
  dropped, and the session runs on the default `search_path`, on production,
  while a branch is active (`proxy.go:277`).
- *Other authentication methods* (`AuthKinds` with `"other auth"` in
  `proxy_conn`: GSSAPI and SSPI, types 7 to 9) violate `ClientIsServed` and
  `OneSideEndsAll`: the handler relays the request, waits for the server while the
  client's answer waits for the handler, and does not notice that the client
  goes away (`proxy.go:241`).
- *A start command that dies* after it has started the process leaves one that no
  file tells of (`main.go:819-823`); `DaemonIsKnown` excepts it.
- `BranchMove`: an UPDATE of a primary key leaves the row under the old key
  (`schema.go:492`); `store_overlay` has no such updates.
- A child and its RESTRICT parent deleted in the branch: validation passes, the
  replay deletes parents first and is refused (`engine.go:253`). The merge runs
  have CASCADE and SET NULL only.
- A row deleted in production and updated in the branch is inserted again
  without a conflict (`conflict.go:64` joins with the production row).
- NO ACTION is checked at once, in the order of the catalog, where production
  checks it at the end of the statement, and a DELETE on a table that an
  untracked table refers to fails: the branch refuses some DELETEs that
  production accepts (`schema.go:503-562`). SET DEFAULT is not handled.
- A row that refers to itself under CASCADE makes the trigger of a passthrough
  view recurse without end (`schema.go:537`): the view still shows the row.
- `InspectFKs` and `BuildCascadeGraph` join catalog tables by constraint name
  only, which PostgreSQL does not make unique per schema.
- Two creates at once without an active branch: the later one takes over
  (`create.go:189`, against the comment above it).
- `checkout` accepts a merged branch (`main.go:326`); the sessions started then
  go to production. A second merge of a branch waits for the row lock rather
  than being rejected (`engine.go:80`).
- `status` counts all changes since the branch was created, committed or not
  (README:76 calls them uncommitted); under concurrent writes the counts of a
  commit are those of no moment (README:81 calls a commit a snapshot), and a
  commit on a branch that was merged meanwhile records zeros.
- `BranchProxy.Stop` ("gracefully", `proxy.go:71`) waits for no connection and
  the background process never calls it; `view_tier` is never updated,
  `DowngradeToPassthrough` never called, and only a test reads `is_dirty`.

## 4. Proofs

All for any constants that satisfy the named assumptions; these are
evaluated by TLC in every run.

| Theorem | Statement |
|---|---|
| `BranchStoreProofs!TypeCorrect` | `Spec => []TypeOK` |
| `BranchStoreProofs!LocalIdsAreNew` | `Spec => []LocalIdsStayNew` |
| `BranchStoreProofs!ServiceIsCovered` | an upgrade or a forgotten request of `ViewUpgrade` is a `ListenerStep` |
| `BranchStoreProofs!DeletesLeaveNoOrphans` | overlay views, `RulesAreHandled` give `Spec => DeleteLeavesNoOrphans` |
| `BranchStoreProofs!StoreImplementsPrivateCopy` | `PrivateStart` gives `Spec => ImplementsPrivateCopy` |
| `BranchStoreProofs!UpdatesChangeOneColumn` | `PrivateStart` gives `Spec => UpdateChangesOneColumn` |
| `BranchMergeProofs!MergeTypeCorrect` | `MergeSpec => []MergeTypeOK` |
| `BranchMergeProofs!BaseHasNoBranchId` | `MergeSpec => []NoBranchIdInBase` |
| `BranchMergeProofs!RemapIsFresh` | `SequencesAhead` gives `MergeSpec => []RemapTargetsFresh` |
| `BranchMergeProofs!ProductionIsNotOverwritten` | `SequencesAhead` gives `MergeSpec => ProductionUpdateSurvives` |
| `BranchMergeProofs!VanishedRowsDoNothing` | `SequencesAhead` gives `MergeSpec => InsertThenDeleteIsNoOp` |
| `BranchMergeProofs!QuietMergesAreFaithful` | `IdsFromSequences`, `ShallowCascades`, `OrderIsSorted` give `MergeSpec => MergeIsFaithful` |
| `BranchMergeProofs!ValidatedBranchesReplay` | the same with `NothingRestricts` and overlay views gives `MergeSpec => ValidatedBranchReplays` |
| `BranchLifecycleProofs!LifeTypeCorrect` | `Spec => []TypeOK` |
| `BranchLifecycleProofs!NamesDiffer` | `Spec => []LiveNamesDiffer` |
| `BranchLifecycleProofs!StatusAdvances` | `Spec => StatusOnlyAdvances` |
| `BranchLifecycleProofs!SchemasAreBranches` | `OneDropper` gives `Spec => []SchemasMatchBranches` |
| `CommitLogProofs!CommitTypeCorrect` | `CommitSpec => []CommitTypeOK` |
| `CommitLogProofs!ParentIsInLineage` | `CommitSpec => []ParentInLineage` |
| `CommitLogProofs!OnlyOverlapsFork` | `CommitSpec => []ForksOverlap` |
| `CommitLogProofs!QuietCountsExact` | `CommitSpec => []QuietCountsAreExact` |
| `UpgradeListenerProofs!ListenerTypeCorrect` | `Spec => []TypeOK` |
| `UpgradeListenerProofs!NoWriteForgotten` | `Spec => []NothingForgotten` |
| `UpgradeListenerProofs!ListenerImplementsViewUpgrade` | `Spec => ImplementsViewUpgrade` |
| `ProxyProcessProofs!DaemonTypeCorrect` | `DaemonSpec => []DaemonTypeOK` |
| `ProxyProcessProofs!ServingIsKnown` | `OneClient` gives `DaemonSpec => []DaemonIsKnown` |
| `ProxyProcessProofs!ProcessTypeCorrect` | `ProcessSpec => []ProcessTypeOK` |
| `ProxyProcessProofs!ProcessIsKnown` | `OneClient` gives `ProcessSpec => []DaemonIsKnown` |
| `ProxyProcessProofs!ProcessForgetsNoWrite` | `ProcessSpec => []NothingForgotten` |
| `ProxyProcessProofs!ProcessImplementsViewUpgrade` | `ProcessSpec => ImplementsViewUpgrade` |
| `ProxyConnProofs!ConnTypeCorrect` | `Spec => []TypeOK` |
| `ProxyConnProofs!QueriesRouted` | `Spec => []QueriesAreRouted` |
| `ProxyConnProofs!AnswersAreOwn` | `Spec => []ClientSeesOwnAnswers` |
| `GraphProofs!OrderHasEachTable` | `SortSpec => []EachTableOnce` |
| `GraphProofs!OrderHasParentsFirst` | `SortSpec => []ParentsFirst` |
| `GraphProofs!OrderIsTopologicallySorted` | `SortSpec => []OrderIsTopological` |
| `GraphProofs!GraphIsComplete` | `GraphSpec => []GraphHasAllPaths` |
| `GraphProofs!TriggersMatchProduction` | `DeleteSpec => []DeleteMatchesProduction` |

- **Data plane.** `StoreInv` adds `RefsHaveFK` (only tables with a foreign key
  have references) to the two properties: without it a reference column could
  carry a local id into a table that no repair visits. The heart is
  `DeleteKeepsInv`: a tombstone on a key without a delta row is not marked new,
  which is harmless only because a visible row without a delta row is a
  production row, and those have no id of the branch sequence.
- **Cascades.** `Taken` is the cascade followed once per table. That this is
  far enough, so that no row outside it refers by CASCADE to one inside it
  (`TakenIsClosed`), is the ranking of the tables in `FKAssumption`: by the
  time a level has been added once per rank it has its whole chain (`TakenLevels`,
  `LevelsGrow`, `RankBounds`). With it `NothingDangles` shows that a DELETE which is not
  refused leaves no reference to what it removed. `RulesAreHandled` excludes the
  one rule for which the triggers do nothing, SET DEFAULT; `AllOverlay` excludes
  the passthrough views of `viol_passthrough`.
- **Private copy.** Under `PrivateStart` (overlay views, sequences ahead of the
  rows, ids left to them, as in `store_overlay`) each statement on the branch is
  shown to be one of `PrivateCopy` and each on production a `Refresh`
  (`StatementOnCopy`, `ProductionRefreshes`). Two facts carry it: `SequencesLead`
  (no row has an id that a sequence has yet to hand out, so an INSERT takes a free
  key: `FreshInsert`), and that tombstones and SET NULLs written through views show
  what the same DELETE does to the overlay (`DeleteShown`, `SameDelete`). `TypeOK`
  alone allows an INSERT over a row. `UpdatesChangeOneColumn` follows: such an
  INSERT would be the only statement to change two columns.
- **No branch id in production.** `NoBranchIdInBase` follows from `StoreInv`,
  but only `MergeInv` is kept by the merge: rows under ids of the branch sequence (`DrawnIds`) are still to
  be renamed (`LocalRowsAreToDo`); each live reference to one has its parent
  still to be renamed, or renamed and the repair still to be run
  (`LocalRefsHaveRepair`). The first phase change needs that every such
  reference has a parent in the delta table, which is what `ValidateFKs`
  established on the snapshot. When the replay starts both sets are empty, so
  the live rows carry none of these ids.
- **Fresh ids.** `FreshInv`: until the commit every production row, and every
  id in `remap`, is below its sequence, which only moves forward; so what others
  insert is never an id the merge has drawn. It needs `SequencesAhead` about
  the rows at the start; without it see the lagging sequence above.
- **Production is not overwritten.** `SurvivalInv`: while the merge runs, a stamped
  production row with a delta row has changed since the snapshot (at the snapshot
  it would have been a conflict), and no row that the merge has written has
  changed. Together: the merge has not written the former. `FreshInv` is needed
  because a renamed row must not land on a stamped one.
- **Insert, then delete.** `NoOpInv` follows a new row through its renaming: it is
  still to be renamed or has an id of the merge's own, which neither the snapshot
  nor production has a row of, so the DELETE and the cascades of the replay do
  not find it. A row renamed twice would break this (`ToDoHasNoTarget`).
- **Faithful merge.** Three invariants meet at the commit. `IdsInv`: new rows
  have local ids, and a delta row under a production id is below its sequence, so
  that production never inserts a row where a delta row is. `MoveInv`: only new rows
  are renamed, and until somebody writes the branch the transaction's delta rows
  are those of the branch, each under its new id and with its reference as far
  repaired as the phase says; that an `UPDATE` repairs nothing twice, in any
  order, is that new names are production ids and old ones local
  (`FixReferenceKeepsMove`). `ReplayInv`: the tables replayed so far are as their
  delta rows say, which a later table's DELETE does not undo (`OrderIsSorted`),
  and a row written without a delta row refers to a deleted production row:
  it is one that the DELETE's own action changed, and if there were one at the
  commit the branch would have a dangling reference. The hypothesis
  `ShallowCascades` (nothing refers to a table whose own foreign key cascades)
  bounds what a DELETE reaches (`DeleteReaches`); without it see the chain
  of CASCADEs above. `IdsFromSequences` excludes ids named by the application
  and lagging sequences. `OrderIsSorted` is what `OrderIsTopologicallySorted`
  says of the result of `sortTables` on foreign keys without cycles.
- **Validated branch.** `ValidInv` follows the parent that `ValidateFKs` has found
  for each live row through renaming and repair (`ParentsWait`): it is live in
  the delta tables, and then the replay has put it before its child, or it is a
  production row without a delta row, which no cascade removes
  (`OnlyCascadesTake`, `ShallowCascades`). Whether others write the branch
  does not matter. RESTRICT is excluded because the replay deletes parents
  first (see the divergences), passthrough views because validation looks at
  the views.
- **Lifecycle.** `LifeInv` adds that a running command knows a created branch,
  and that a running merge's branch is active and locked by it alone. That is
  what keeps a drop from overtaking a merge, so a dropped branch is not
  marked merged afterwards. `SchemaInv` adds that a running drop or merge holds
  the name of the live branch it found; with one client that drops nobody else
  can free that name, so `schemas \ {name}` removes the schema of that branch:
  since live names differ, of no other.
- **Commit log.** `CommitSpec` implies `Spec` of `BranchLifecycle`, which gives
  `LifeInv`. `LogInv` follows a commit that is under way: what it has read as
  its parent is in the lineage of its branch, and every commit of the branch
  with that parent came after the commit had begun, unless the query for it
  failed. At the read there is none:
  the latest commit is no parent of a commit of its branch, because a parent
  comes before its commit. For create, `basis` is a commit of the branch that
  was seen active, and the step that makes the branch records that same branch
  as its parent. `Room` (commits and those under way fit the bound) keeps the
  sentinel `Unread` apart from the commits. `CountsAreExact` says of a commit that
  is not disturbed so far what its counts are after each query: the marked rows of
  the tables and marks that have had their turn, as the size of one set, so that a
  count needs no recursion.
- **Listener.** `ListenerInv` adds to `NothingForgotten` that overlays and delta
  tables belong to an active branch; each step of a goroutine is compared with
  what is in flight before and after it. The refinement maps requests in flight
  for views of an existing branch to `asked`: a goroutine left over from a
  former branch becomes a request of the new one at its creation.
- **Process.** `KnownInv` says for each step of a command where the live
  processes are known (the file, the command's own hand, or `reported`; of a stop
  both of the first, since it may be interrupted); it is inductive for one client
  only. `ProcessSpec` implies both specifications it is
  composed of, so that their theorems carry over.
- **Connection.** `ConnInv` is a turn argument: during the start-up exactly one
  wire holds something, or the party whose turn it is; while the handler injects
  its statement there are two turns, the client's and the statement's, and the
  answers to the statement are in front; afterwards what is under way from and to
  the client continues what it has received (`Turns`). That `Drain` takes exactly
  the answers of the injected statement is what the rest depends on. It has no
  bound: rounds, queries and switches are any numbers.
- **Replay order.** `SortInv`: the marked tables are those in the result and
  those of the open calls (`MarkInv`), none of them twice (`OnceInv`); a loop has
  marked every parent it has passed (`FollowedInv`), and a call is for an ancestor
  of the tables of its callers (`NestedInv`). When a call returns, a parent of its
  table is therefore in the result already, or its call is still open and the
  table is an ancestor of that parent: a cycle, which is the exception that
  `ParentsFirst` makes (`AfterLeave`). Ancestors are defined as a least set
  without recursion. For `OrderIsTopologicallySorted`, "no cycle" is a numbering
  of the tables, as in `FKAssumption`.
- **Cascade graph.** The loops of the open calls are like the digits of a
  counter: `Covered(calls, p)` says that they have passed path `p`, which is
  where `p` first differs from the positions of the loops and is smaller. `NodesInv`:
  the nodes are the paths passed so far, once each. Each step passes one path and
  appends it, or passes none. That a `MeetAgain` ends a path, and that `Return` adds only the
  path of its caller, needs `ChainInv`: the open calls are themselves a path through
  the tables in `seen`, which is what `delete(visited, table)` keeps true. No path
  has a foreign key twice (`PathsAreShort`), so the definition by paths is finite.
- **DELETE triggers.** `DeleteInv`: nothing is tombstoned that production would
  not remove (`RemovedInv`), nothing changes but SET NULL references to such
  rows (`ColumnsInv`), and a tombstoned row whose trigger has passed a foreign key is
  referred to by no remaining row through it (`SettledInv`). While a cascading DELETE goes on, the
  rows it found and has not deleted stand for the settled part (`TodoInv`).
  Settled stays settled because triggers only clear references and delete
  rows. At the end all tombstones are settled, so they are closed under the cascade
  and hence all that production removes (`AllIsDeleted`). `RulesAreHandled` inside the property
  excludes SET DEFAULT.
- **ViewUpgrade.** The listener and the process are proved to implement it. In the
  other direction `ServiceIsCovered` says that the stand-in for the listener in
  `BranchStore`, and so in `BranchMerge`, can take every step that `ViewUpgrade`
  allows for a branch that stays. It is a lemma about steps, not a composition
  of the two specifications: a view that the real listener changes is changed in
  a way that the data plane and the merge are checked against.

Checked by TLC only: liveness (`WrittenTablesUpgrade`, `RequestsAreServed`,
`OneSideEndsAll`, `ClientIsServed`), which needs ENABLED. That `sortTables`,
`BuildCascadeGraph` and a DELETE come to an end is not stated: the theorems
speak of what they return.

Every other property of a passing run is stated by a theorem. Where a theorem has a
hypothesis, the run of its property satisfies it, and the run or divergence
named with it shows what happens otherwise; `merge_setnull` and `merge_clean` check
the two merge properties for the tables and rules they have.

## 5. Not modelled

Composite and non-integer keys; in the data plane and the merge several foreign
keys per table, cycles and untracked children (`DeleteTriggers` has them for
DELETE); tables outside `public` (`engine.go:200` skips them); replicated BEFORE
triggers; `merge_history`; the stale-lock branch of the merge (`engine.go:55`:
the status `locked` is never committed, so no other transaction reads it); SERIAL
overflow; two branch sessions inside one another's statements; the bytes of the
wire protocol; bootstrap and tracking (idempotent DDL, one upsert), catalog
inspection of columns and triggers (string matching) and the reports (they only
read).

## 6. Plan

Done: `ForeignKeys`, `BranchStore`, `PrivateCopy`, `BranchMerge`, `SortTables`,
`BranchLifecycle`; then `ViewUpgrade`, `UpgradeListener`, `ProxyDaemon`,
`ProxyProcess`, `ProxyConn`, `CommitLog`; `FKConstraints`, `CascadeGraph`,
`DeleteTriggers`; and the proofs of section 4.

Next, modelling:

1. `BranchSessions`: two READ COMMITTED sessions on one branch with statement
   snapshots and row locks, composed with `ForeignKeys`; lost updates of
   different columns (`schema.go:498`).
2. A merge with SET NULL and CASCADE in one instance, in place of
   `merge_setnull`; a table outside `public`.
3. Ids with a width, over several branches (`schema.go:337`).

Next, proofs: `SchemasMatchBranches` for several droppers of different names;
what a merge promises beyond `ShallowCascades`; that a DELETE on views with one
foreign key per table (`BranchStore`) is one of `DeleteTriggers`.
