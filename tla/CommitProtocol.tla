--------------------------- MODULE CommitProtocol ---------------------------
(***************************************************************************)
(* Optimistic commits of concurrent transactions against one catalog       *)
(* database (transaction/mod.rs), with snapshot expiry                     *)
(* (maintenance/expire_snapshots.rs) running beside them.                  *)
(*                                                                         *)
(* A transaction remembers the snapshot it started from.  Its commit tries *)
(* to insert the next snapshot; a primary-key violation means that another *)
(* snapshot was committed, in which case the transaction loads the head,   *)
(* checks its changes against everything committed since it started and    *)
(* tries again on top of the head, MaxRetry times at most.                 *)
(***************************************************************************)
EXTENDS StagedChanges

CONSTANTS
    Tx,             \* transactions; each runs once
    MaxRetry,       \* max_retry_count (10 in the code)
    Isolation,      \* "serial" (SQLite) or "snapshot" (PostgreSQL)
    SafeRetention,  \* expiry spares whatever an open transaction may need
    InitialSnapshot,
    InitialLake

ASSUME MaxRetryAssumption == MaxRetry \in Nat
ASSUME IsolationAssumption == Isolation \in {"serial", "snapshot"}
ASSUME SafeRetentionAssumption == SafeRetention \in BOOLEAN

\* SnapshotInfo: the ID of a snapshot and the counters it leaves behind.
Info == [id : Nat, schema_version : Nat, next_catalog_id : Nat, next_file_id : Nat]

ASSUME InitialSnapshotAssumption == InitialSnapshot \in Info

\* The lake the transactions find: its rows began no later than its snapshot,
\* and the IDs and versions in use are below its counters.
ASSUME InitialLakeAssumption ==
    /\ \A r \in InitialLake.objects :
          /\ {"id", "begin", "end"} \subseteq DOMAIN r
          /\ r.id \in 0 .. InitialSnapshot.next_catalog_id - 1
          /\ r.begin \in 0 .. InitialSnapshot.id
    /\ \A r \in InitialLake.columns \union InitialLake.attributes :
          /\ {"table", "begin", "end"} \subseteq DOMAIN r
          /\ r.table \in 0 .. InitialSnapshot.next_catalog_id - 1
          /\ r.begin \in 0 .. InitialSnapshot.id
    /\ \A r \in InitialLake.files :
          /\ {"id", "table", "begin", "end"} \subseteq DOMAIN r
          /\ r.id \in 0 .. InitialSnapshot.next_file_id - 1
    /\ \A r \in InitialLake.inline : r.schema_version \in 0 .. InitialSnapshot.schema_version

\* No two tables or views share a name, nor two schemas, nor two macros of one
\* type.
NamesDiffer(objects) ==
    \A q, r \in objects :
        /\ q # r
        /\ q.kind = r.kind \/ {q.kind, r.kind} \subseteq Relation
        => <<q.schema_id, q.name>> # <<r.schema_id, r.name>> /\ q.id # r.id

\* In snapshot s each table, view and macro is in a schema, each column, tag
\* and data file is of a table, and keys refer to columns.
NothingDangles(l, s) ==
    LET objects == Visible(l.objects, s)
        tables == {r.id : r \in {o \in objects : o.kind = "table"}}
    IN  /\ \A r \in objects : r.kind # "schema" =>
              \E q \in objects : q.kind = "schema" /\ q.id = r.schema_id
        /\ \A r \in Visible(l.columns, s) : r.table \in tables
        /\ \A r \in Visible(l.files, s) : r.table \in tables
        /\ \A r \in Visible(l.attributes, s) :
              /\ r.table \in tables
              /\ r.key \in Indexed =>
                    r.column \in ColumnsOf(Visible(l.columns, s), r.table)

\* An ID is that of one object, whose row is only replaced when a table is
\* renamed.
IdsNameOne(objects) ==
    \A q, r \in objects : q.id = r.id =>
        /\ q.kind = r.kind /\ q.schema_id = r.schema_id
        /\ q.kind # "table" => q.name = r.name

\* It is a consistent catalog; rows that have ended did so by its snapshot.
ASSUME InitialCatalogAssumption ==
    /\ \A r \in InitialLake.objects :
          {"kind", "schema_id", "name"} \subseteq DOMAIN r /\ (r.kind = "schema" => r.schema_id = NoId)
    /\ \A r \in InitialLake.columns : "column" \in DOMAIN r
    /\ \A r \in InitialLake.attributes : {"key", "column"} \subseteq DOMAIN r
    /\ \A r \in InitialLake.files : r.begin \in 0 .. InitialSnapshot.id
    /\ \A r \in InitialLake.inlined : {"table", "begin", "end"} \subseteq DOMAIN r
    /\ \A r \in UNION {InitialLake.objects, InitialLake.columns, InitialLake.attributes,
                       InitialLake.files} : r.end \in {NULL} \union 0 .. InitialSnapshot.id
    /\ IdsNameOne(InitialLake.objects)
    /\ NamesDiffer(Visible(InitialLake.objects, InitialSnapshot.id))
    /\ NothingDangles(InitialLake, InitialSnapshot.id)

\* The ranges of row IDs of one table do not overlap.
RangesDisjoint(rows) ==
    \A q, r \in rows :
        q # r /\ q.table = r.table /\ q.row_id_start <= r.row_id_start =>
            q.row_id_start + q.rows <= r.row_id_start

\* The statistics of a table are above every row ID it has in use.
CoversRows(statistics, rows) ==
    \A r \in rows :
        \E s \in statistics :
            s.table = r.table /\ r.row_id_start + r.rows <= s.next_row_id

\* An inlined data table has the columns of its table in snapshots of its
\* schema version.
InlineMatches(l, s) ==
    \A i \in l.inline : i.schema_version = s.schema_version =>
        i.columns = ColumnsOf(Visible(l.columns, s.id), i.table)

\* One of a table's column IDs is the largest.
HasLastColumn(columns, table) ==
    \E m \in ColumnsOf(columns, table) : \A n \in ColumnsOf(columns, table) : n <= m

\* Its data was written by commits as well: a table that has rows has one row
\* of statistics, and column IDs count up.
ASSUME InitialDataAssumption ==
    /\ \A r \in InitialLake.columns : r.column \in Nat /\ HasLastColumn(InitialLake.columns, r.table)
    /\ \A r \in InitialLake.files \union InitialLake.inlined :
          /\ {"row_id_start", "rows"} \subseteq DOMAIN r
          /\ r.row_id_start \in Nat /\ r.rows \in Nat \ {0}
    /\ \A r \in InitialLake.inlined : "id" \notin DOMAIN r
    /\ \A s \in InitialLake.stats :
          /\ s.table \in 0 .. InitialSnapshot.next_catalog_id - 1 /\ s.next_row_id \in Nat
          /\ \A q \in InitialLake.stats : q.table = s.table => q = s
    /\ RangesDisjoint(InitialLake.files \union InitialLake.inlined)
    /\ CoversRows(InitialLake.stats, InitialLake.files \union InitialLake.inlined)
    /\ InlineMatches(InitialLake, InitialSnapshot)

VARIABLES
    snapshots,         \* ducklake_snapshot
    snapshot_changes,  \* ducklake_snapshot_changes
    lake,              \* all other metadata tables
    pc,                \* where each transaction is
    base,              \* the snapshot it started from
    latest,            \* the snapshot its current attempt builds on
    failed,            \* the snapshot its last failed attempt was built on
    catalog,           \* the catalog at base
    changes,           \* its change set
    stats,             \* the statistics its current attempt has read
    seen,              \* the rows its database transaction can see
    retry,             \* failed attempts so far
    table_stats_cache, \* statistics loaded before, by schema version and next file ID
    log                \* history: one entry per commit

dbVars == <<snapshots, snapshot_changes, lake, log, table_stats_cache>>
txVars == <<pc, base, latest, failed, catalog, changes, stats, seen, retry>>
vars == <<dbVars, txVars>>

Finished == {"committed", "conflict", "not_found", "error", "exceeded"}
Committing == {"load", "attempt", "persist", "refresh", "check"}
Active == {"start", "open"} \union Committing

Ids(rows) == {r.id : r \in rows}

\* SnapshotInfo::load_latest: ORDER BY snapshot_id DESC LIMIT 1.
Newest(rows) == CHOOSE s \in rows : \A r \in rows : r.id <= s.id
Head == Newest(snapshots)
NoRows == [objects |-> {}, columns |-> {}, attributes |-> {}]

-----------------------------------------------------------------------------
Init ==
    /\ snapshots = {InitialSnapshot}
    /\ snapshot_changes = {[id |-> InitialSnapshot.id, changes |-> {}]}
    /\ lake = InitialLake
    /\ log = {}
    /\ table_stats_cache = {}
    /\ pc = [t \in Tx |-> "idle"]
    /\ base = [t \in Tx |-> InitialSnapshot]
    /\ latest = [t \in Tx |-> InitialSnapshot]
    /\ failed = [t \in Tx |-> InitialSnapshot]
    /\ catalog = [t \in Tx |-> NoRows]
    /\ changes = [t \in Tx |-> {}]
    /\ stats = [t \in Tx |-> {}]
    /\ seen = [t \in Tx |-> InitialLake]
    /\ retry = [t \in Tx |-> 0]

Goto(t, l) == pc' = [pc EXCEPT ![t] = l]

\* Ducklake::transaction: take the head, then load its catalog.
Begin(t) ==
    /\ pc[t] = "idle"
    /\ base' = [base EXCEPT ![t] = Head]
    /\ latest' = [latest EXCEPT ![t] = Head]
    /\ Goto(t, "start")
    /\ UNCHANGED <<dbVars, failed, catalog, changes, stats, seen, retry>>

LoadCatalog(t) ==
    /\ pc[t] = "start"
    /\ catalog' = [catalog EXCEPT ![t] = CatalogAt(lake, base[t].id)]
    /\ Goto(t, "open")
    /\ UNCHANGED <<dbVars, base, latest, failed, changes, stats, seen, retry>>

\* The user has staged changes and calls commit; an empty set is a no-op.
Commit(t) ==
    /\ pc[t] = "open"
    /\ \E cs \in StagedSets(lake, catalog[t]) :
          /\ changes' = [changes EXCEPT ![t] = cs]
          /\ Goto(t, IF cs = {} THEN "committed" ELSE "load")
    /\ UNCHANGED <<dbVars, base, latest, failed, catalog, stats, seen, retry>>

\* Each attempt asks for the table statistics of its snapshot.  They are not
\* versioned: a miss reads them as they are now, a hit returns what was read
\* before for the same key.  Entries are weak and each connection has its own
\* cache, so a miss is always possible.
StatsKey(info) == <<info.schema_version, info.next_file_id>>

LoadStats(t) ==
    /\ pc[t] = "load"
    /\ IF requires_table_stats(changes[t])
       THEN \E entry \in {e \in table_stats_cache : e.key = StatsKey(latest[t])}
                         \union {[key |-> StatsKey(latest[t]), stats |-> lake.stats]} :
               /\ stats' = [stats EXCEPT ![t] = entry.stats]
               /\ table_stats_cache' = table_stats_cache \union {entry}
       ELSE /\ stats' = [stats EXCEPT ![t] = {}]
            /\ UNCHANGED table_stats_cache
    /\ Goto(t, "attempt")
    /\ UNCHANGED <<snapshots, snapshot_changes, lake, log>>
    /\ UNCHANGED <<base, latest, failed, catalog, changes, seen, retry>>

\* pool.begin(): SQLite takes the write lock, PostgreSQL a snapshot of the rows.
LockFree == Isolation = "serial" => \A u \in Tx : pc[u] # "persist"

BeginPersist(t) ==
    /\ pc[t] = "attempt"
    /\ LockFree
    /\ seen' = [seen EXCEPT ![t] = lake]
    /\ Goto(t, "persist")
    /\ UNCHANGED <<dbVars, base, latest, failed, catalog, changes, stats, retry>>

-----------------------------------------------------------------------------
(* The first statement of persist or finalize_commit that fails decides    *)
(* the outcome of the attempt.                                             *)
\* REPEATABLE READ: updating a row that a concurrent transaction has updated
\* or deleted since this one began is refused.
Lost(mine, theirs) == \E r \in Live(mine) : r \notin theirs

StaleRetirement(t) ==
    LET cs == changes[t]
        mine == seen[t]
    IN  \/ Lost({r \in mine.objects : dropped(cs, r) \/ renamed(cs, r)}, lake.objects)
        \/ Lost({r \in mine.columns : retires_column(cs, r)}, lake.columns)
        \/ Lost({r \in mine.files : dropped_table(cs, r.table)}, lake.files)
        \/ \E r \in mine.files : detached_table(cs, r.table) /\ r \notin lake.files
        \/ Lost({r \in mine.attributes : retires_attribute(cs, r)}, lake.attributes)

StaleStatistics(t) ==
    \E r \in seen[t].stats :
        /\ r.table \in written_tables(changes[t], latest[t])
        /\ \E s \in stats[t] : s.table = r.table
        /\ r \notin lake.stats

\* Primary keys: ducklake_schema, ducklake_data_file and, last, ducklake_snapshot.
SchemaKeyTaken(t) ==
    /\ "schema" \in CreatedKinds(changes[t])
    /\ \E r \in lake.objects :
          r.kind = "schema" /\ r.id = catalog_id(changes[t], latest[t], "schema")

\* Mutant: the file counter names the last ID in use instead of the next one.
FileKeyTakenAtCounter(t) ==
    /\ FileCount(changes[t]) > 0
    /\ \E r \in lake.files : latest[t].next_file_id - 1 <= r.id

FileKeyTaken(t) ==
    \E r \in lake.files :
        /\ latest[t].next_file_id <= r.id
        /\ r.id < latest[t].next_file_id + FileCount(changes[t])

\* Mutant: ducklake_snapshot has no primary key.
SnapshotKeyNeverTaken(t) == FALSE

SnapshotKeyTaken(t) == latest[t].id + 1 \in Ids(snapshots)

\* CREATE TABLE of an inlined data table whose name is taken.
InlineTableExists(t) ==
    \E i \in lake.inline, n \in new_inline(changes[t], latest[t], catalog[t]) :
        i.table = n.table /\ i.schema_version = n.schema_version

\* Inline rows are inserted, by column name, into the newest inlined data table.
InlineTableUnusable(t) ==
    \E c \in Ops(changes[t], "write_inline") :
        /\ c.id # Pending
        /\ \/ \A i \in seen[t].inline : i.table # c.id
           \/ ~ (tx_columns(changes[t], catalog[t], c.id)
                   \subseteq NewestInline(seen[t].inline, c.id).columns)

Outcome(t) ==
    IF StaleRetirement(t) THEN "serialization"
    ELSE IF SchemaKeyTaken(t) \/ FileKeyTaken(t) THEN "unique"
    ELSE IF InlineTableExists(t) THEN "exists"
    ELSE IF InlineTableUnusable(t) THEN "unusable"
    ELSE IF StaleStatistics(t) THEN "serialization"
    ELSE IF SnapshotKeyTaken(t) THEN "unique"
    ELSE "ok"

\* Mutant: only primary-key violations are retried.
RetryableUniqueOnly(t) == Outcome(t) = "unique"

Retryable(t) ==
    \/ Outcome(t) = "unique"
    \/ Outcome(t) = "exists" /\ retry[t] < MaxRetry

\* The database transaction is over and the state of the attempt is dropped.
EndAttempt(t, l) ==
    /\ seen' = [seen EXCEPT ![t] = InitialLake]
    /\ stats' = [stats EXCEPT ![t] = {}]
    /\ Goto(t, l)

\* tx.commit() succeeds: the rows, the snapshot and its changes become visible.
PersistOk(t) ==
    /\ pc[t] = "persist"
    /\ Outcome(t) = "ok"
    /\ lake' = persist(lake, changes[t], latest[t], catalog[t], stats[t])
    /\ snapshots' = snapshots \union {NewSnapshot(changes[t], latest[t])}
    /\ snapshot_changes' = snapshot_changes \union
          {[id |-> latest[t].id + 1, changes |-> applied_change_set(changes[t], latest[t])]}
    /\ log' = log \union
          {[id |-> latest[t].id + 1, tx |-> t, base |-> base[t].id,
            changes |-> applied_change_set(changes[t], latest[t])]}
    /\ EndAttempt(t, "committed")
    /\ UNCHANGED <<table_stats_cache, base, latest, failed, catalog, changes, retry>>

\* Mutant: the attempt is repeated on the snapshot that has just failed.
PersistRetrySame(t) ==
    /\ pc[t] = "persist"
    /\ Retryable(t)
    /\ EndAttempt(t, "attempt")
    /\ UNCHANGED <<dbVars, base, latest, failed, catalog, changes, retry>>

\* The database transaction is rolled back and commit tries again.
PersistRetry(t) ==
    /\ pc[t] = "persist"
    /\ Retryable(t)
    /\ EndAttempt(t, "refresh")
    /\ UNCHANGED <<dbVars, base, latest, failed, catalog, changes, retry>>

\* Every other database error is returned to the user.
PersistError(t) ==
    /\ pc[t] = "persist"
    /\ Outcome(t) # "ok" /\ ~ Retryable(t)
    /\ EndAttempt(t, "error")
    /\ UNCHANGED <<dbVars, base, latest, failed, catalog, changes, retry>>

\* Mutant: the retry builds on the snapshot the transaction started from.
RefreshKeepsLatest(t) ==
    /\ pc[t] = "refresh"
    /\ failed' = [failed EXCEPT ![t] = latest[t]]
    /\ Goto(t, "check")
    /\ UNCHANGED <<dbVars, base, latest, catalog, changes, stats, seen, retry>>

\* get_latest: the head of the next attempt is fixed before the changes are read.
Refresh(t) ==
    /\ pc[t] = "refresh"
    /\ failed' = [failed EXCEPT ![t] = latest[t]]
    /\ latest' = [latest EXCEPT ![t] = Head]
    /\ Goto(t, "check")
    /\ UNCHANGED <<dbVars, base, catalog, changes, stats, seen, retry>>

\* Mutant: the range ends before the head.
ChangesMadeBelowLatest(t) ==
    {r \in snapshot_changes : base[t].id < r.id /\ r.id < latest[t].id}

\* get_snapshot_changes: rows in the range (base, latest].
ChangesMade(t) ==
    {r \in snapshot_changes : base[t].id < r.id /\ r.id <= latest[t].id}

Schemas(t) == {r \in catalog[t].objects : r.kind = "schema"}

\* Mutant: only the newest snapshot is checked.
CheckErrorsNewest(t) ==
    UNION {check_conflict(applied_change_set(changes[t], failed[t]), r.changes, Schemas(t)) :
             r \in {s \in ChangesMade(t) : s.id = latest[t].id}}

\* The changes are described with the IDs of the attempt that failed.
CheckErrors(t) ==
    UNION {check_conflict(applied_change_set(changes[t], failed[t]), r.changes, Schemas(t)) :
             r \in ChangesMade(t)}

\* Mutant: one attempt too many.
CheckConflictOnceMore(t) ==
    /\ pc[t] = "check"
    /\ CheckErrors(t) = {}
    /\ retry' = [retry EXCEPT ![t] = retry[t] + 1]
    /\ Goto(t, IF retry[t] <= MaxRetry THEN "load" ELSE "exceeded")
    /\ UNCHANGED <<dbVars, base, latest, failed, catalog, changes, stats, seen>>

CheckConflict(t) ==
    /\ pc[t] = "check"
    /\ \/ /\ CheckErrors(t) # {}
          /\ \E err \in CheckErrors(t) : Goto(t, err)
          /\ UNCHANGED retry
       \/ /\ CheckErrors(t) = {}
          /\ retry' = [retry EXCEPT ![t] = retry[t] + 1]
          /\ Goto(t, IF retry[t] < MaxRetry THEN "load" ELSE "exceeded")
    /\ UNCHANGED <<dbVars, base, latest, failed, catalog, changes, stats, seen>>

-----------------------------------------------------------------------------
\* Whether expiring the snapshots ids leaves every open transaction its base
\* and everything after it.  The code does not check this: it is a demand on
\* whoever chooses the retention period.
Spares(ids) == \A t \in Tx : pc[t] \in Active => \A s \in ids : s < base[t].id

ExpireSnapshots ==
    /\ LockFree
    /\ \E ids \in SUBSET (Ids(snapshots) \ {Head.id}) :
          /\ ids # {}
          /\ SafeRetention => Spares(ids)
          /\ snapshots' = {s \in snapshots : s.id \notin ids}
          /\ snapshot_changes' = {r \in snapshot_changes : r.id \notin ids}
          /\ lake' = ExpireRows(lake, Ids(snapshots) \ ids)
    /\ UNCHANGED <<log, table_stats_cache, txVars>>

Step(t) ==
    \/ Begin(t) \/ LoadCatalog(t) \/ Commit(t) \/ LoadStats(t) \/ BeginPersist(t)
    \/ PersistOk(t) \/ PersistRetry(t) \/ PersistError(t)
    \/ Refresh(t) \/ CheckConflict(t)

Next == ExpireSnapshots \/ \E t \in Tx : Step(t)

Spec == Init /\ [][Next]_vars

\* The database answers, the runtime polls the future of a commit that was
\* started.  Transactions run once, so the write lock is free in the end.
Fairness ==
    \A t \in Tx :
        /\ WF_vars(LoadStats(t)) /\ WF_vars(BeginPersist(t))
        /\ WF_vars(PersistOk(t) \/ PersistRetry(t) \/ PersistError(t))
        /\ WF_vars(Refresh(t)) /\ WF_vars(CheckConflict(t))

FairSpec == Spec /\ Fairness

=============================================================================
