# ducklake-sdk: a TLA+ model of its protocols

`ducklake-sdk` reads and writes *DuckLakes*: a SQL database holds the catalog (snapshots, schemas,
tables, columns, statistics, lists of files), an object store holds the data files. Any number of
clients share one lake, without a server between them; whatever consistency there is comes from the
SQL transactions a client runs and from the order in which it runs them. This directory models that:
how transactions are staged, committed, retried and refused; how a connection reads through its
caches; how files are written, scheduled and deleted; how tables move between lakes; and how a
catalog is created, upgraded and configured.

Paths below are relative to `src/crates/ducklake/src/`.

## 1. Inventory

| component | state | operations | what makes it correct |
|---|---|---|---|
| transaction staging (`transaction/table.rs`, `schema.rs`, `view.rs`, `macro_.rs`) | the base snapshot, a private catalog, a list of changes | create, delete, rename, add and remove columns, tags, partitioning, sorting, write files, write inline rows | every change is valid in the private catalog |
| change set (`transaction/changes/change.rs`) | the list, normalised | `new`, `apply`, `applied_change_set` | same effect as the list; what it records lets others detect conflicts |
| commit state and executors (`transaction/commit_state.rs`, `executors/`, `transaction_changes.rs`) | the counters of the snapshot built upon, rows to insert and to retire | hand out IDs, collect rows, `persist` | IDs are unique, rows begin and end at the new snapshot |
| commit (`transaction/mod.rs`) | the snapshot of the current attempt, number of attempts | attempt, refresh, conflict check, retry | commits are linear; nothing is lost; it returns |
| applied changes (`transaction/changes/applied_change.rs`) | text in `ducklake_snapshot_changes` | print, parse, `check_conflict` | incompatible changes conflict, compatible ones do not |
| catalog (`catalog/`) | objects by ID and by name | load at a snapshot, look up, mutate | names are unique, references resolve |
| caches (`caches/`) | the newest snapshot seen; catalogs by schema version; statistics by (schema version, next file ID) | get, insert | one key, one value; the head never goes back |
| metadata (`caches/metadata.rs`) | options by scope | get, set, unset | updates replace, in the database and in memory |
| expiry (`maintenance/expire_snapshots.rs`) | rows of the database | one transaction | a retained snapshot keeps everything it shows |
| file clean-up (`maintenance/cleanup_old_files.rs`, `delete_orphaned_files.rs`) | rows and objects in a store | delete objects, then rows; list, compare, delete | no referenced file is deleted, a crash is repeatable |
| transfer (`transfer.rs`) | two lakes | copy or move tables | a move hands over what its handles showed; a row is lost to nothing else |
| scan (`scan/`) | none | files, delete files and inline rows of a snapshot | the rows of the snapshot, once each |
| database layer (`db/`) | connections and transactions of SQLite, PostgreSQL, MySQL | begin, execute, commit; conversion from and to Arrow | isolation as configured, errors classified |
| format (`spec/`) | table definitions, versions | init, upgrade, literals | keys, visibility, one upgrade at a time |
| io, types, views, macros, table statistics, Python bindings | none of their own | conversion and forwarding | round trips |

Components interact through the database, and two of them through the object store. A transaction
reads the head snapshot and its catalog, works on a private copy, and on `commit` writes everything
in one database transaction whose last inserts are the row of the new snapshot and its list of
changes. Primary keys (of snapshots, schemas, data and delete files) are what makes concurrent
commits collide; tables, views, macros, columns and statistics have none. Files are uploaded before
the row that refers to them is committed, and deleted before the row that schedules them is. Within
one process, all handles of a connection share its caches and its options.

Hard to test: two or three commits in one order out of many; values read before the database
transaction (head, statistics, next column ID) and used in it; the IDs of a failed attempt, used to
describe the changes to the conflict check; caches keyed by counters that a commit has to advance;
answers that arrive late; rows that expiry deletes while a transaction, or a reader of an older
snapshot, needs them; crashes between object store and database, or between two statements of a
database that does not roll back DDL; sequences of calls inside one transaction that undo each other;
and what one database reports as a unique violation and another as a serialization failure.
`PROJECT.json` lists these hazards line by line, with the property that watches each.

## 2. Modules

    AppliedChange   LakeRows
            \        /
            ChangeSet          rows an attempt writes, changes it records
                |
          StagedChanges        change sets the API lets a user build
                |
          CommitProtocol       the transactions, the database, expiry
                |
          CommitProperties --- LinearHistory   (abstract specification)
           /          \
      MCCommit   CommitProtocolProofs --- CommitRowsProofs --- CommitDataProofs

    LakeRows --- TransactionBuffer --- TransactionBufferProofs   calls on a table, and its rows
            \--- ReadPath --- MCReadPath   caches, handles and scans of a connection
            |         \------ ReadPathProofs
            \--- FileMaintenance --- FileMaintenanceProofs   files and the jobs that delete them

    TableTransfer --- TableTransferProofs   two lakes
    Session --- SessionProofs               catalog creation, upgrades, options

* `AppliedChange` - the variants of `AppliedChange` as [verb, kind] and the conflict matrix, rule by
  rule, including its asymmetries and the lookup of a dropped schema in the checking transaction's
  catalog. Names are atomic; a macro name stands for its case class.
* `LakeRows` - versioned rows, the catalog at a snapshot, and what expiry leaves. `objects`
  are the rows of four tables; `attributes` are tags, partitionings and sort orders.
* `ChangeSet` - `CommitState` (IDs from the counters of the snapshot built upon),
  `applied_change_set`, and `persist`: rows of the files of detached tables deleted, other rows retired,
  then inserted, statistics last. All files have one row.
* `StagedChanges` - one operator per operation of the API (`create_table`, `rename_table`, ...), and
  the validation a set of changes has to pass. A set is what `ChangeSet::new` leaves of a list. The drop
  of moved tables (`delete_table_transferring_file_ownership`) is a transaction of its own.
  Inline writes into a table whose schema the same transaction changes are excluded: `apply_changes`
  stops with `unimplemented!` there.
* `CommitProtocol` - the variables are the database (`snapshots`, `snapshot_changes`, `lake`), one
  component per transaction of what the code holds in local variables (`base` = `self.snapshot`,
  `latest` = `latest_snapshot`, `failed` = the snapshot behind `state` after an attempt, `catalog`,
  `changes`, `stats`, `retry` = `i`), `seen` (the snapshot of a PostgreSQL transaction),
  `table_stats_cache`, and the history variable `log`.
* `LinearHistory` - the promise: a head that grows by one and a log; a commit takes the next ID and
  conflicts with nothing committed since its base.

| action | code |
|---|---|
| `Begin`, `LoadCatalog` | `DucklakeConnection::transaction`, `Transaction::new`: two reads, another transaction may commit between them |
| `Commit` | any change set the API accepts; an empty one returns at once |
| `LoadStats` | `latest_snapshot.table_stats()`: from the cache, or from the database |
| `BeginPersist` | `pool.begin()`: the write lock on SQLite, a snapshot on PostgreSQL |
| `PersistOk` | all of `persist` and `finalize_commit`, then `tx.commit()` |
| `PersistRetry`, `PersistError` | the two error arms of `commit`; `Outcome` says which statement fails first |
| `Refresh` | `get_latest()`, fixed before the changes are read |
| `CheckConflict` | `get_snapshot_changes` and `check_conflict`; the next attempt, or `RetriesExceeded` |
| `ExpireSnapshots` | `expire_snapshots`: any set of snapshots but the newest, in one database transaction |

The statements of one database transaction are one step: SQLite serializes writers and the others
cannot see them before the commit. What they can hit is in `Outcome`: taken primary keys, an
inlined data table that exists or lacks a column, and on PostgreSQL a row that was updated since the
transaction began. On PostgreSQL a second insert of a key waits for the first transaction and then
fails, which is the same outcome.

`SafeRetention` is an assumption about the environment, not code: expiry spares the base of every
open transaction and all that follows. Nothing in the code enforces it - the retention period of
`expire_older_than` is expected to exceed the longest transaction - and section 4 shows what happens
without it.

The other modules look at one commit as one step, which `CommitProtocol` justifies, and take apart
what it leaves whole.

* `TransactionBuffer` - one table and one transaction at a time. The private catalog (`cols`, an arena
  of columns by ID; `gone`, those no longer in `by_id`; partitioning, sort order, tags) and the list of
  changes grow call by call: `add_table_column`, `remove_table_column`, `rename_table_column`,
  `update_table_column_dtype`, `update_table_column_nullability`, `update_struct`,
  `update_table_schema`, partitioning, sort order, tags, file and inline writes; `Unsorted` stands for
  no sort order. `Commit` is `ChangeSet` (`ChangeSet::new`), `Buffer` (the executors, one `exec_`
  operator each, applied in the order of the changes) and `persist`.
  The ghosts `staged`, `acked` and `used` keep what the caller was shown. `Shown` is what the schema of a
  catalog lists (`Listed`): removed columns are left out, but a removed field of a struct is listed as long
  as its struct is, since `schema_dtype` does not look at `by_id`. `CommittedIsStaged` says so: what is
  loaded is what was shown, `Without` what was removed. `Avoid` names the uses of the API callers have to
  avoid, see section 4.
* `ReadPath` - one connection with several tasks. `current` is the cached head, `catalogs` the weak
  cache of lazy catalogs, `view` a handle made with `at_snapshot` or `readonly`, `task` the local
  variables of a running operation: look up the head and insert it (two steps, so an answer may be
  late), commit and record the commit, resolve a table, run the queries of a scan in any order, look
  up or synthesize the schema of inlined rows, read them. Other connections commit and snapshots
  expire between any two steps; expiry spares what is being read (the same assumption as
  `SafeRetention`). `history` remembers each snapshot as it was committed. The map of `DeleteRows`
  is external: this SDK reads delete files and never writes them.
* `FileMaintenance` - `store` is the object store, `files` and `scheduled` the rows that refer to it,
  with ages instead of times. `Upload` and `CommitFile` are the two halves of a write;
  `CleanupSelect`, `CleanupDelete`, `CleanupRows` are `cleanup_old_files`; `OrphansStart`,
  `QueryTableFiles`, `QueryScheduled` (or `OrphansPanic`, the `unwrap` on a missing table),
  `ListStore`, `OrphansDelete` are `delete_orphaned_files`; the `Wipe` actions are
  `Ducklake::delete`. Writers and jobs may crash anywhere. Two assumptions on the environment: a
  writer commits before its upload is older than `delete_older_than` (`Lease <= Retention`), and the
  variants that ignore age, like the deletion of the whole lake, run with no writer at work.
* `TableTransfer` - `source` and `target` with their heads and data, `job` the running
  `transfer_tables`: `Start`, `Scan` per table, `TargetBegin`, `CopyFile` per file, `TargetCommit`,
  and for a move `CheckHead`, `SourceBegin`, `DropSources`. A handle may be pinned to a snapshot of the
  source (`pins`): it is then scanned at that snapshot (`SnapshotOf`), while the check and the drop concern
  the head. Others write to and drop tables of the source, create tables in the target and run the jobs of
  both lakes; the process may die between any two steps. `past` is the history of the source. The ghost
  `exposed` has the writes a move may lose: those to a table of the batch after `CheckHead`, and those its
  pinned handle hides.
* `Session` - the catalog database as `exists`, `layout` (which upgrades' columns are there),
  `metadata` and the data the upgrades rewrite; `client` is a process that creates, connects (with or
  without permission to upgrade) and sets options. `ddl` is whether the database rolls back DDL
  (SQLite, PostgreSQL) or commits each statement (MySQL), in which case creation and upgrades are
  several steps. Setting an option is three: `BeginUpdate` is the DELETE, which fixes what the transaction
  sees, `CommitUpdate` the INSERT and the commit, which fails if another transaction deleted one of the
  rows, and `Remember` the change of memory. Updates overlap, of one session and of several. The ghosts
  `replaced` and `outdated` have the rows that an update which began later has replaced.

## 3. Runs

The commit runs instantiate `MCCommit`: a lake with schemas `main` and `s` and a table `a` of one
column, one file and one inlined data table. Transactions are symmetric except under fairness, as are
the tasks of `MCReadPath`. `CHECK_DEADLOCK FALSE` everywhere: transactions run once, calls are
bounded, and a lake at rest may stay at rest.

| run | instance | shows |
|---|---|---|
| `commit_objects` | 2 transactions, 1 change of any kind, the drop of moved tables among them, expiry, overlapping REPEATABLE READ transactions | primary keys alone serialize the commits (refinement of `LinearHistory`), names unique, time travel stable but for the files of moved tables, a schema version determines its catalog, retries only after a newer snapshot |
| `commit_pairs` | 2 transactions, up to 2 changes without renames, serialized writers | refusals justified, no dangling rows, row IDs disjoint, statistics cover all rows, inlined data tables match their schema, committed changes take effect |
| `commit_contention` | 3 writers of one table, 1 retry, fairness | refinement of `LinearHistory`, complete conflict check, retry bound, `commit` returns |
| `buffer` | up to 3 calls in up to 3 transactions, five mixes of calls | what is loaded is what was staged, every snapshot loads and is kept, writes are persisted, column IDs are not reused, NOT NULL and partition values hold |
| `read_path` | 2 tasks, 3 calls, 3 snapshots, expiry | scans and cached catalogs are exact, own commits are visible, pinned handles stay pinned |
| `maintenance` | 1 writer, 2 files, 3 snapshots, 1 crash, fairness | no needed file is deleted, the jobs keep track of objects across crashes, scheduled and orphaned files go away |
| `transfer` | 2 tables, 2 writes, 1 drop, 2 transfers, pinned handles, crashes | a move hands over what its handles showed when it began, a write is lost only after the head check or behind a pinned handle, copies survive the source |
| `session` | 2 clients, 1 option, 3 overlapping updates, 1 crash, every version, with and without transactional DDL, fairness | upgrades happen once and completely, sessions work on the latest format, updates of options take effect in their order |
| `rename_lost` | renames and drops | violated: a rename of a dropped table commits and renames nothing |
| `moved_files` | as `transfer`, 1 transfer, no pinned handles | violated: the source's orphan job deletes files of a moved table |
| `moved_write_lost` | the same | violated: a write between the head check and the drop of a move is dropped with its table, and no error is returned |
| `inline_lost` | writes of one transaction | violated: the first of two inline writes is dropped |

Every module has a type invariant. The runs list the one of the commit protocol only; that one and
those of `FileMaintenance`, `TableTransfer` and `Session` are proved.

The violations are disagreements between the code and its own comments, quoted under `findings`.

**Bounds.** Conflicts are between pairs of transactions, so two of them show every pair of changes;
a third is needed to be overtaken twice (`ExceededMeansContention`, with `MaxRetry = 1` for the
10 of the code) and to read what a second one left in the statistics cache. Two changes per
transaction are enough for every dependency inside a set: create a schema and a table in it, create
a table and write to it, write files and inline rows, drop a column and change the partitioning. Two
names and two schemas distinguish "same" from "other"; a third schema name, `n`, is free so that two
transactions can race to create it (not in `commit_contention`, which only writes). IDs are bounded by
the number of commits, since each transaction runs once; no counter needs a cap.

`buffer`: three calls make every chain add/update/remove, or call/commit/call; three snapshots have a
past, a middle and a head; the mixes pair the groups of calls that touch the same rows. `read_path`:
the head can be overtaken twice, and a schema version can lose all its snapshots. `maintenance`: one
file can be live while another is scheduled or orphaned, and one crash may hit every step of every
job; `Retention = 1` separates young from old. `transfer`: two tables for a batch scanned at two
snapshots, a second transfer after a failed one. `session`: two clients race through the chain of
upgrades from each version; three updates set, override and unset an option, two of them at once, and one
scope is enough since updates of different scopes touch no common row. `commit_objects` overlaps
transactions because REPEATABLE READ allows what the lock of SQLite allows and more.

**Fairness.** `CommitReturns` assumes weak fairness of the steps of a commit that has been called:
the database answers and the runtime polls the future. Starting a transaction, calling `commit` and
expiring snapshots are not fair. The write lock of SQLite is only held during `persist`, a fair step,
and every transaction takes it finitely often, so weak fairness of `BeginPersist` is enough.
`ScheduledGoAway` and `OrphansGoAway` assume that time passes, that a writer's commit returns, and that
the jobs which respect age are started again and again and go on unless they crash - the jobs are
meant to be scheduled - and the second also that snapshots are expired now and then; drops, uploads,
crashes and the variants that ignore age are not fair. `UpgradeCompletes` assumes that clients make
progress and connect again after an error; crashes are bounded and not fair.

## 4. Assumptions that matter

Each passing run states what its callers or operators have to avoid as the value of a constant.
Changing one of them in the cfg gives a counterexample, which documents a limit of the code. The
operators named `Enabled <- ...` are in `MCCommit`; a property is checked alone.

| change | violated | what happens |
|---|---|---|
| `commit_pairs` with `Enabled <- RenameColumnMenu` | `InlineTablesMatchSchema` | a rename retried on top of a new column creates the inlined data table from its own catalog, without the column |
| `commit_pairs` with `Tx = {t1, t2, t3}`, `Enabled <- SchemaMenu`, `MaxChanges = 1` | `RefusalsAreJustified` | a commit fails on a schema that two others created and dropped since it started |
| `commit_pairs` with `Enabled <- InlineMenu`, `FileCounts = {0, 1}` | `RowIdsDisjoint`, `StatsCoverRows` | an empty file write beside an inline write keeps the file counter, so the cached statistics are found again |
| `commit_contention` with `Enabled <- DropMenu`, `SafeRetention = FALSE` | `CheckSeesAllChanges`, `CommitsAreLinear` | expiry under an open transaction blinds its conflict check |
| `commit_pairs` with `Enabled <- InlineMenu`, `Isolation = "snapshot"` | `RefusalsAreJustified` | a serialization failure of two compatible writers is not retried |
| `transfer` with `PinnedHandles = FALSE` | `NoWriteLost` | run `moved_write_lost` |
| `transfer` | `NoWriteLost` | also: a move through a handle of an earlier snapshot hands over the old contents and drops the newer table |
| `session` with `InitializedCanConnect` | itself | on MySQL a crash during `create` leaves a catalog that can be neither created nor connected to |
| `maintenance` with `UnexpiredSpec` | `OrphansGoAway` | a dropped, unexpired table with files makes the orphan job panic each time |
| `buffer` without `removed_column` in `Avoid` | `CommittedIsStaged` | a removed column can be addressed and is brought back by an update |
| ... without `pending_partitioning` | `CommittedIsStaged` | a new partitioning shares the ID of the one given to `create_table` |
| ... without `second_inline_write` | `WritesArePersisted` | run `inline_lost` |
| ... without `not_null_after_write` | `NotNullHolds` | the check uses the statistics of the base snapshot |
| ... without `not_null_on_old_rows` | `NotNullHolds` | a column added after rows were written has no statistics, the check passes, and the old rows read as NULL; the comment at `transaction/table.rs:868` promises otherwise |
| ... without `partition_after_write` | `FilesMatchPartitioning` | values staged for the old partitioning are registered with the new one |

## 5. Proofs

Each component's theorems are in a module of their own, which extends the component and first defines
its inductive invariant. A theorem holds for every value of the constants that the named assumptions of
the module admit; the bounds of the runs are no bounds of the theorems. The inductive invariants were
checked with TLC on the instance of the component's run before they were proved, with the quantifiers of
`Agree` in `CommitDataProofs` bounded for the purpose. The exception is `BufferInv` of
`TransactionBufferProofs`, which quantifies over all values a column, a name or a tag may have; of it TLC
checked what it is for, the properties of run `buffer`.

| module | theorem | states, for every behaviour of `Spec` |
|---|---|---|
| `CommitProtocolProofs` | `TypeCorrect`, `CheckIsNeverBlind`, `CommitsImplementLinearHistory`, `RetriesAreRaces`, `GivingUpMeansContention` | `TypeOK`, `CheckSeesAllChanges`, the refinement `CommitsAreLinear`, `RetryMeansNewerSnapshot`, `ExceededMeansContention`; under `SafeRetention` |
| `CommitRowsProofs` | `NamesAreUnique`, `NothingEverDangles`, `VersionsDetermineCatalogs`, `TimeTravelIsStable` | `UniqueNames`, `NoDanglingRows`, `SchemaVersionDeterminesCatalog`, and the action property `TimeTravelStable`; under `SafeRetention` |
| `CommitDataProofs` | `InlineTablesMatch`, `CommitsTakeEffect` | `InlineTablesMatchSchema` and the action property `CommittedChangesTakeEffect`; under `SafeRetention` and `NoRenames` |
| `CommitDataProofs` | `RowIdsAreDisjoint`, `StatisticsCoverRows` | `RowIdsDisjoint`, `StatsCoverRows`; under `SafeRetention` and `WritesHaveRows` |
| `TransactionBufferProofs` | `CommittedTablesAreStaged`, `SnapshotsLoad`, `FieldIdsAreNotReused`, `NoWriteIsLost`, `NotNullColumnsHoldNoNull`, `FilesFitTheirPartitioning`, `HistoryStays` | `CommittedIsStaged`, `EverySnapshotLoads`, `FieldIdsNotReused`, `WritesArePersisted`, `NotNullHolds`, `FilesMatchPartitioning`, and the action property `HistoryIsKept`; under `Careful` |
| `FileMaintenanceProofs` | `TypeCorrect`, `FilesStayAvailable`, `ScheduledSpared`, `CleanupIsTracked` | `TypeOK`, `FilesAvailable`, and the action properties `OrphansSpareScheduled` and `CleanupKeepsTrack` |
| `TableTransferProofs` | `TypeCorrect`, `FilesStayReadable`, `MovesAreConsistent`, `OnlyExposedWritesLost` | `TypeOK`, `OwnFilesReadable`, the action property `MoveIsConsistent`, and `OnlyExposedLost` |
| `SessionProofs` | `TypeCorrect`, `UpgradedOnce`, `AllOrNothing`, `LatestSessions`, `OptionsStayInOrder` | `TypeOK`, `DataUpgradedOnce`, `NothingHalfDone`, `SessionsAreLatest`, `OptionsInOrder` |
| `ReadPathProofs` | `ScansExact`, `CatalogsExact`, `OwnCommitsSeen`, `PinsHold` | `ScansAreExact`, `CatalogsAreExact`, `OwnCommitsVisible`, `PinnedReadsPinned` |

`SafeRetention` is a hypothesis on the environment, and the other three are on what callers do:
`NoRenames` (no table is renamed), `WritesHaveRows` (no file write is empty) and `Careful`
(the caller avoids the six uses of the API in `Uses`). Section 4, `rename_lost` and `inline_lost` show what
happens without each of them: none can be dropped, and the runs of the same properties keep to them.

**The commit protocol** (`CommitProtocolProofs`), for any set of transactions, any retry bound, both
isolation levels, any names and change sets and any initial lake that satisfies the assumptions of
`CommitProtocol`: `MaxRetry` and file counts are natural numbers, the initial snapshot is a row of
counters, the rows of the initial lake have IDs below its counters and began no later than it, and its
inlined data tables have schema versions up to its own. `CommitRowsProofs` also uses
`InitialCatalogAssumption`: the initial lake is a consistent catalog, that is, what the theorems say of
every snapshot holds of the first. `CommitDataProofs` also uses `InitialDataAssumption`, which says the same
of its columns, row IDs, statistics and inlined data tables. TLC evaluates the assumptions on the lake of
`MCCommit`.

Why an inductive invariant is needed: linearity is a statement about a commit and everything since
its base, but the attempt only tests one primary key, and the check before it ran against an
earlier head with the IDs of an earlier attempt. `IndInv` has two parts.

* `DbInv`, about the database: snapshots of increasing IDs have increasing counters
  (`SnapshotsOrdered`); every commit later than the oldest retained snapshot still has its row of
  changes (`LogRecorded`), and all IDs in it are below the counters of the snapshots from then on;
  rows begin no later than the head (`RowsDated`).
* `TxInv(t)`, about a transaction: its base and all later snapshots are retained (`BaseRetained`,
  from `SafeRetention`); its catalog and changes only mention IDs known at its base
  (`KnownCatalog`, `KnownChanges`); and once it has been checked, its changes conflict with no
  commit up to `latest` (`Checked`).

The argument for `CommitsImplementLinearHistory`: an attempt that finds no taken snapshot ID builds on the
head, because all snapshots between base and head are retained and have consecutive IDs
(`CommitsOnHead`). So everything since the base was in the range the check read (`CheckIsComplete`).
The check described the changes with IDs of the failed attempt; the new attempt uses others. IDs of
existing objects are the same in both, and fresh IDs are at or above the counter of `latest`, hence
different from every ID in a row the check read: a change that did not conflict under the old IDs
does not under the new ones (`CheckCarriesOver`, from `AppliedIdsBelowNext` and
`AppliedOnAnotherSnapshot`). The converse does not hold: the old IDs may clash by accident, which
refuses a commit and loses nothing.

**Retries** (`CommitProtocolProofs`). `RetryInv` is inductive together with `IndInv`. It says that file IDs
and the schema versions of inlined data tables are used up to the counters of the head
(`UsedBelowHead`), that every snapshot after the first was logged (`LogNumbered`), and that a
transaction which has been retried `n` times builds at least `n` snapshots after its base
(`Attempts`). From the first part, an attempt that builds on the head finds nothing taken
(`HeadFindsNothingTaken`), so whatever error sends it back, the head has moved. From the other two, a
transaction that gives up has seen more than `MaxRetry` commits of others.

**Rows** (`CommitRowsProofs`), under the same assumptions. A transaction validates its changes in the
catalog of its base, and what it writes lands on the head. Consistency of the result is therefore no
property of one step: it needs to be known how the two catalogs can differ. `RowInv`, inductive together
with `IndInv`, says

* of the rows: they begin and end with snapshots up to the head (`RowsWhole`), an ID is that of one object
  for ever (`IdsNameOne`), names are unique and nothing dangles in any retained snapshot, and rows of the
  catalog begin and end only where the schema version grows (`VersionsOrdered`);
* of the log (`LogExplains`): for every retained snapshot, an object that is missing from the head was
  dropped since, one that is new was created or renamed since, and a table with other columns or keys was
  altered since;
* of a transaction (`TxRows`): its catalog is still that of its base, its changes were accepted there and
  are ones the API can produce (`Sound`), and once checked it neither drops a schema others have created
  in nor creates in one others have dropped (`SchemasChecked`).

A commit on the head clashes with nothing since its base (`NothingClashes`). By `LogExplains`, whatever
the conflict matrix rules out is also ruled out as a difference between catalog and head, so the two
agree on all the commit depends on (`AgreesAtHead`): the schemas it creates in are there, the names it takes are
free, the tables it alters have the columns it saw. The rest is about rows: what persist leaves alive is
the old rows without those it retires, and those it adds (`LiveAfterCommit`), no two of which share a
name (`NamesAfter`, pair by pair: kept, renamed, new) and none of which dangles (`NoneDanglesAfter`);
older snapshots see the rows they saw (`PastAfter`), less the rows of the files a move
detaches. Expiry takes no row of a retained snapshot because a
table that one of them shows is not expired and nothing dangles in it (`ExpiryKeepsRetained`).
`TimeTravelIsStable` follows from the last two, `VersionsDetermineCatalogs` from `VersionsOrdered`.

`SchemasChecked` is there because what `IndInv` keeps of the check is what linearity needs, names and
IDs: for `NothingEverDangles` the comparison of dropped schemas with created objects has to survive
the retry too, in both directions. `IdsNameOne` is there because rows are retired by ID: it makes the
row that is retired the one the transaction saw.

**Data** (`CommitDataProofs`), on top of the rows. `StagedInv`: the columns of a table are numbered and there
is a last one (`ColumnsNumbered`), and what is staged adds columns with new numbers, one per table and none
that it also removes (`Staged`).

* `CommitsTakeEffect`: by `AgreesAtHead` the commit finds what it validated, and by `LiveAfterCommit` each
  change but a rename is then seen in the live rows (`ChangesLive`). A rename is the one change that neither
  conflicts with a concurrent drop of its table nor fails without it.
* `InlineTablesMatch`: without renames only a commit that alters a table creates an inlined data table for
  it, and takes its columns from the transaction's catalog; the check has excluded that others altered the
  table, so these are the columns of the head (`NewInlineMatches`). A later snapshot of the same schema
  version has the same columns by `VersionsOrdered`.
* `RowIdsAreDisjoint`: row IDs are handed out from statistics that are not versioned and come from a cache
  keyed by schema version and file counter. `StatsInv` says that no key in the cache is ahead of the head and
  that the entry for the key of the head, and what an attempt on the head has read, are the current
  statistics of all tables it may write to (`CacheCurrent`, `TxStats`, `Agree`). The first part carries the
  second over a commit: a file is counted, inline rows without files are counted as one, and any other change
  takes a new schema version, so the new head has a key that is not in the cache (`KeyMoves`) - which is just
  what an empty file write beside an inline write does not do. Expiry deletes statistics of tables no snapshot shows; `Agree`
  therefore speaks of live tables and of the one the commit will create.

**One transaction** (`TransactionBufferProofs`), for any names, fields and tags, any mix of calls, and lists
of changes of any length. `BufferInv` has two parts besides the call counter.

* `DbOk`: the IDs of partitionings are below the counter, column IDs are bounded, rows begin and end with
  snapshots up to the head (`RowsOk`), every snapshot can be loaded (`SnapOk`), and the properties hold.
* `TxOk`: the private catalog is explained by the list of changes (`WholeOk`). Per column (`ColumnOk`): it was
  loaded, or added at one position; updates follow, and no update follows a removal; the last update holds
  the definition the catalog shows. Likewise the partitioning, the sort order and each tag (`PartOk`, `SortOk`,
  `TagOk`), the writes (`WritesOk`), and columns that allow no NULL and all rows so far, those without the
  column included (`NotNullOk`).

Each call keeps `WholeOk`, one lemma per call. For the commit, `ChangeSet` keeps the last change of each key, and
the buffer after the first `i` changes is described for every `i` (`ColumnState`, `TagState`, `DataState`,
...) by induction over positions, in the form of "a set of naturals that holds 0 and the successor of each
member holds all up to n" (`Induct`). At the end of the list the rows that `persist` writes show the private
catalog (`ColumnsPersisted`, `PartPersisted`, `SortPersisted`, `TagsPersisted`, together `NewSnapshotOk`).
Earlier snapshots stay because rows only get an end, that of the new snapshot (`Continues`). The hypothesis
`Careful` enters where `WholeOk` would fail: a removed column that is updated has an update after its
removal, and so on.

**Files** (`FileMaintenanceProofs`), for any number of writers, files, snapshots and crashes and any
`Lease <= Retention`. The jobs act on what they read earlier, so the invariant says what that is still
good for: an upload that is not yet committed is younger than `Lease` and known to nobody
(`UploadsSafe`); what the clean-up job is deleting is scheduled, and what it has deleted is gone
(`CleanupHolds`); the candidates of the orphan job are nobody's upload, and a row that refers to one of
them was read or will be read by a query still to come (`OrphansHold`) - rows only move from the
table's to the scheduled ones, and the job queries them in that order.

**Transfer** (`TableTransferProofs`), for any tables, writes, drops, transfers and crashes, with pinned
handles and without. What was scanned through a pinned handle is the table in the snapshot of the handle;
anything else that was scanned is what the source still has as long as its head has not moved
(`ScanHolds`). A table only grows (`PastKept`), so what a pinned handle hides of it is what was written
later, which was noted in `exposed` when the move began (`HiddenNoted`). What was copied is in the store
(`CopiesHold`); and once the target has committed, its tables are what the handles showed at the start if
the head check succeeds (`MoveHolds`). `MovesAreConsistent` needs no hypothesis: the check ties the
tables of a batch that are scanned one by one at the head to one snapshot, and a pinned table cannot
change. `OnlyExposedWritesLost` needs none either: after the check, whatever the source has and the target
has not is in `exposed`. That `exposed` is not always empty is what `moved_write_lost` shows.

**Sessions** (`SessionProofs`), for any number of clients, updates and crashes, with and without
transactional DDL. The version row is absent or unique, and the layout has all columns up to that
version and at most those of the next (`CatalogHolds`); a client in the chain of upgrades is at most one
ahead of the version (`ClientHolds`); at most one client is between the steps of an upgrade other than
the last, whose DDL alone does not collide (`OneUpgrade`); the data of a legacy catalog is that of its
version, or that of the next where a client has just written it (`DataHolds`). The first proof attempt
showed that a catalog without a version row must also be known not to be a legacy one.
`OptionsStayInOrder` rests on `OptInv`: a row is inserted by one update, under an ID of its own; an update
that commits has deleted all rows it saw, none of which somebody else may have deleted meanwhile; and what
had committed before it began and is still in the database is what it saw, since only rows that were
replaced are gone.

**Reading** (`ReadPathProofs`), for any number of tasks, calls and snapshots. Four facts about the
database carry the rest: schema versions never fall, and rows of tables and columns begin and end only in
snapshots that start a new one (`SchemaDated`), so that two snapshots of a schema version have the same
catalog (`SameVersion`); what was committed can still be read from every retained snapshot
(`HistoryHolds`), which commits keep because they only end live rows and add rows that begin with them
(`Continues`), and expiry because it deletes what no retained snapshot shows; an inlined data table has
the columns of its table in the snapshots of its schema version, retained or not, and a row of
`ducklake_schema_versions` to find one by (`InlineHolds`); columns are visible with their table only.
A cached catalog then fits the retained snapshots and the inlined data tables of its schema version
(`CatalogIs`), although it may be loaded for the ID of a snapshot that has expired since, and what a scan
has collected is what the snapshot shows, except for the inlined data tables it has still to read
(`ScanReads`). `ScansExact` includes that no scan ends in an error.

**Only model-checked.** Liveness (`CommitReturns`, `ScheduledGoAway`, `OrphansGoAway`,
`UpgradeCompletes`): fairness and `ENABLED` are out of the prover's reach. `RefusalsAreJustified`: it holds
of two transactions that are serialized, and section 4 shows that it is not true of three, nor of
PostgreSQL. The type invariants of `ReadPath` and `TransactionBuffer`: what the proofs need of types is part of
their inductive invariants. No module declares a recursive operator.

## 6. Not modelled

* List and map columns, default values, and column statistics other than "contains NULL": they are
  handled like structs and types, as data.
* The value a column that was added later has in older rows (`initial_default`): NULL in the model.
* Moves by other connections in `ReadPath`: a scan of a snapshot whose files were detached misses them, as
  `transfer.rs:126-127` warns.
* Transfers to other names, which change no other state and are refused when two tables target one name;
  tables of one name created again in the source.
* The lookup of an option by the narrowest scope: it changes no state.
* `IfExistsStrategy`: each variant is an existing call or none.
* Delete files are read and never written by this SDK; other clients write them in `ReadPath`.
* MySQL in commits, where inlining is not available; its isolation level is that of PostgreSQL there,
  its locking differs. Its DDL is in `Session`.
* Network failures between client and database: `commit` returns the error and does not retry.
* Clocks: ages in `FileMaintenance`, but no skew between clients; lookups by timestamp.
* Panics are transactions that end without effect; what a panic does to the process is not modelled.
* Conversions: printing and parsing of `changes_made`, literals and values, Arrow and Parquet, rows and
  batches of the drivers, paths, SQL of views. Character-level code is out of TLC's reach and covered
  by unit tests; nothing in it depends on an order of events.
* Table statistics returned to the user, Python bindings, derive macros: no protocol of their own.

## 7. What is left

Type correctness of `ReadPath` and `TransactionBuffer`. Renames in `CommitDataProofs`: an inlined data table of
a renamed table matches unless others change its columns at the same time, which takes a hypothesis on pairs
of transactions instead of the menu.
