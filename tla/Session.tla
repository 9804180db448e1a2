------------------------------ MODULE Session ------------------------------
(***************************************************************************)
(* Sessions on one catalog database: creating a catalog, connecting to it  *)
(* and upgrading an old one (ducklake.rs, spec/), and the options every    *)
(* session keeps in memory (caches/metadata.rs).                           *)
(*                                                                         *)
(* Versions are numbered: 0 is "0.1", Latest is "1.0", and anything newer  *)
(* is not supported.  The legacy catalog that is upgraded has one table    *)
(* with a partition column and a few schema versions: what the upgrades of *)
(* its data read and write.                                                *)
(***************************************************************************)
EXTENDS Integers, Sequences, FiniteSets, FiniteSetsExt

CONSTANTS
    Clients,       \* processes that create, connect and set options
    Values,        \* values of options
    Scopes,        \* scopes in which options are set
    MaxUpdates,    \* bound: number of updates of options
    MaxCrashes     \* bound: number of clients that crash

ASSUME SessionAssumption ==
    /\ {MaxUpdates, MaxCrashes} \subseteq Nat
    /\ Scopes \subseteq {"global", "schema", "table"} /\ "global" \in Scopes

VARIABLES
    ddl,              \* does the database roll back CREATE and ALTER TABLE?
    exists,           \* the tables of the catalog exist
    layout,           \* upgrades whose columns and tables exist
    metadata,         \* rows of ducklake_metadata
    snapshots,        \* ducklake_snapshot: ID -> schema version
    partition,        \* column_id of the row of ducklake_partition_column
    schema_versions,  \* rows of ducklake_schema_versions
    client,           \* what every client is doing
    memory,           \* the options every session has in memory
    running,          \* updates of options between BEGIN and the change of memory
    committed,        \* history: rows of the updates that committed
    replaced,         \* history: rows a later update should have deleted
    outdated,         \* history: the same, of the memory of every session
    updates, crashes

tables == <<exists, layout, snapshots, partition, schema_versions>>
options == <<memory, running, committed, replaced, outdated>>
vars == <<ddl, tables, metadata, client, options, updates, crashes>>

NULL == -1
Latest == 4
Upgrades == 1 .. Latest
V0_2 == 1
V0_3 == 2
V0_4 == 3
V1_0 == 4
SUPPORTED_VERSIONS == 0 .. Latest
Keys == {"version", "option"}
READ_ONLY_KEYS == {"version"}

\* The legacy catalog.  Columns of its table in column order, and the
\* snapshots in which its tables were created.
Columns == <<2, 3, 1>>
LegacySnapshots == [b \in 0 .. 4 |-> <<0, 1, 1, 2, 3>>[b + 1]]
FirstSnapshot == [b \in {0} |-> 0]
LegacyTables == {[id |-> 1, begin |-> 1], [id |-> 5, begin |-> 4]}
PartitionIndex == 0

-----------------------------------------------------------------------------
(* Rows.                                                                   *)

\* ducklake_metadata has no key: the ID tells rows apart that different updates
\* inserted.  The row of the version has ID 0.
Row(id, key, scope, value) == [id |-> id, key |-> key, scope |-> scope, value |-> value]
RowsOf(rows, key, scope) == {r \in rows : r.key = key /\ r.scope = scope}

\* get_version does not look at the scope of the row.
VersionRows == {r \in metadata : r.key = "version"}
\* Mutant: the version is not set.
SetVersionNever(v) == metadata
SetVersion(v) == {r \in metadata : r.key # "version"}
                    \union {[r EXCEPT !.value = v] : r \in VersionRows}

Off == [pc |-> "off"]
Connected(c) == client[c].pc = "connected"
Become(c, state) == client' = [client EXCEPT ![c] = state]

Empty ==
    /\ exists = FALSE
    /\ layout = {}
    /\ metadata = {} /\ snapshots = <<>>
    /\ partition = NULL /\ schema_versions = {}

\* What the programs that write older catalogs left behind.
Legacy(v) ==
    /\ exists = TRUE
    /\ layout = {u \in Upgrades : u <= v}
    /\ metadata = {Row(0, "version", "global", v)}
    /\ snapshots = LegacySnapshots
    /\ partition = IF v >= V0_2 THEN Columns[PartitionIndex + 1] ELSE PartitionIndex
    /\ schema_versions =
          CASE v < V0_3 -> {}
            [] v = V0_3 -> {[table |-> NULL, begin |-> b, version |-> LegacySnapshots[b]]
                              : b \in {0, 1, 3, 4}}
            [] OTHER -> {[table |-> t.id, begin |-> t.begin,
                          version |-> LegacySnapshots[t.begin]] : t \in LegacyTables}

Init ==
    /\ ddl \in BOOLEAN
    /\ Empty \/ \E v \in 0 .. Latest + 1 : Legacy(v)
    /\ client = [c \in Clients |-> Off]
    /\ memory = [c \in Clients |-> {}] /\ outdated = [c \in Clients |-> {}]
    /\ running = {} /\ committed = {} /\ replaced = {}
    /\ updates = 0 /\ crashes = 0

-----------------------------------------------------------------------------
(* Ducklake::create.  The check and the creation are two transactions; a   *)
(* database that does not roll back DDL commits every statement.           *)

CreateCheck(c) ==
    /\ client[c].pc = "off"
    /\ ~ exists
    /\ Become(c, [pc |-> "create"])
    /\ UNCHANGED <<ddl, tables, metadata, options, updates, crashes>>

Populated == {Row(0, "version", "global", Latest)}

\* CREATE TABLE fails if another client was faster.
InitCatalog(c) ==
    /\ client[c].pc = "create"
    /\ IF exists
       THEN /\ Become(c, Off)
            /\ UNCHANGED <<tables, metadata>>
       ELSE /\ exists' = TRUE
            /\ layout' = Upgrades
            /\ IF ddl
               THEN /\ metadata' = Populated
                    /\ snapshots' = FirstSnapshot
                    /\ Become(c, [pc |-> "load"])
               ELSE /\ UNCHANGED <<metadata, snapshots>>
                    /\ Become(c, [pc |-> "populate"])
            /\ UNCHANGED <<partition, schema_versions>>
    /\ UNCHANGED <<ddl, options, updates, crashes>>

PopulateMetadata(c) ==
    /\ client[c].pc = "populate"
    /\ metadata' = metadata \union Populated
    /\ Become(c, [pc |-> "populateRest"])
    /\ UNCHANGED <<ddl, tables, options, updates, crashes>>

PopulateRest(c) ==
    /\ client[c].pc = "populateRest"
    /\ snapshots' = FirstSnapshot
    /\ Become(c, [pc |-> "load"])
    /\ UNCHANGED <<ddl, exists, layout, partition, schema_versions, metadata, options,
                   updates, crashes>>

-----------------------------------------------------------------------------
(* Ducklake::connect.                                                      *)

\* Errors leave nothing behind: the client is off again.
ReadVersion(c) ==
    /\ client[c].pc = "off"
    /\ VersionRows # {}
    /\ \E r \in VersionRows, upgrade \in BOOLEAN :
          /\ r.value \in SUPPORTED_VERSIONS
          /\ r.value = Latest \/ upgrade
          /\ Become(c, [pc |-> "upgrade", at |-> r.value + 1])
    /\ UNCHANGED <<ddl, tables, metadata, options, updates, crashes>>

\* Mutant: columns and tables are added only if they are missing.
ClashesNever(u) == FALSE

\* A statement of the upgrade finds its column or table in place: v1_0 has none.
Clashes(u) == u # V1_0 /\ u \in layout

\* v0_2: a partition column was known by its position, now by its ID.
Remapped(p) == IF p + 1 \in DOMAIN Columns THEN Columns[p + 1] ELSE p

\* v0_3: schema version -> first snapshot that has it.
CollectedVersions ==
    {[table |-> NULL, begin |-> Min({b \in DOMAIN snapshots : snapshots[b] = v}),
      version |-> v] : v \in {snapshots[b] : b \in DOMAIN snapshots}}

\* v0_4: rows get the table that was created in their snapshot, or go.
TableVersions ==
    (UNION {{[table |-> t.id, begin |-> t.begin, version |-> s.version] :
               s \in {r \in schema_versions : r.table = NULL /\ r.begin = t.begin}}
             : t \in LegacyTables})
    \union {s \in schema_versions : s.table # NULL}

UpgradeData(u) ==
    /\ partition' = IF u = V0_2 THEN Remapped(partition) ELSE partition
    /\ schema_versions' = CASE u = V0_3 -> schema_versions \union CollectedVersions
                            [] u = V0_4 -> TableVersions
                            [] OTHER -> schema_versions

\* Mutant: only one upgrade is run.
NextUpgradeNone(c) == [pc |-> "upgrade", at |-> Latest + 1]
NextUpgrade(c) == [pc |-> "upgrade", at |-> client[c].at + 1]

\* Upgrades::upgrade where the transaction holds all of it.
Upgrade(c) ==
    /\ client[c].pc = "upgrade" /\ client[c].at \in Upgrades /\ ddl
    /\ LET u == client[c].at IN
       IF Clashes(u)
       THEN /\ Become(c, Off)
            /\ UNCHANGED <<tables, metadata>>
       ELSE /\ layout' = layout \union {u}
            /\ UpgradeData(u)
            /\ metadata' = SetVersion(u)
            /\ Become(c, NextUpgrade(c))
            /\ UNCHANGED <<exists, snapshots>>
    /\ UNCHANGED <<ddl, options, updates, crashes>>

\* The same, where every ALTER TABLE commits and ends the transaction.
UpgradeSchema(c) ==
    /\ client[c].pc = "upgrade" /\ client[c].at \in Upgrades /\ ~ ddl
    /\ IF Clashes(client[c].at)
       THEN /\ Become(c, Off)
            /\ UNCHANGED layout
       ELSE /\ layout' = layout \union {client[c].at}
            /\ Become(c, [client[c] EXCEPT !.pc = "upgradeData"])
    /\ UNCHANGED <<ddl, exists, snapshots, partition, schema_versions, metadata, options,
                   updates, crashes>>

UpgradeRows(c) ==
    /\ client[c].pc = "upgradeData"
    /\ UpgradeData(client[c].at)
    /\ Become(c, [client[c] EXCEPT !.pc = "upgradeVersion"])
    /\ UNCHANGED <<ddl, exists, layout, snapshots, metadata, options, updates, crashes>>

UpgradeVersion(c) ==
    /\ client[c].pc = "upgradeVersion"
    /\ metadata' = SetVersion(client[c].at)
    /\ Become(c, NextUpgrade(c))
    /\ UNCHANGED <<ddl, tables, options, updates, crashes>>

\* Metadata::new: a map has one value per key and scope, whichever row comes last.
Loaded(rows) == {m \in SUBSET rows :
                   \A r \in rows : Cardinality(RowsOf(m, r.key, r.scope)) = 1}

\* Ducklake::new: the head snapshot is loaded, and then all options.
Load(c) ==
    /\ \/ client[c].pc = "load"
       \/ client[c].pc = "upgrade" /\ client[c].at > Latest
    /\ IF snapshots = <<>>
       THEN Become(c, Off) /\ UNCHANGED memory
       ELSE \E readonly \in BOOLEAN, m \in Loaded(metadata) :
               /\ Become(c, [pc |-> "connected", readonly |-> readonly])
               /\ memory' = [memory EXCEPT ![c] = m]
    /\ UNCHANGED <<ddl, tables, metadata, running, committed, replaced, outdated,
                   updates, crashes>>

\* Closing a connection, which rolls back what is under way, and a crash at any
\* other step.
Disconnect(c) ==
    /\ Connected(c)
    /\ Become(c, Off)
    /\ memory' = [memory EXCEPT ![c] = {}]
    /\ outdated' = [outdated EXCEPT ![c] = {}]
    /\ running' = {u \in running : u.client # c}
    /\ UNCHANGED <<ddl, tables, metadata, committed, replaced, updates, crashes>>

Crash(c) ==
    /\ crashes < MaxCrashes
    /\ client[c].pc \notin {"off", "connected"}
    /\ Become(c, Off)
    /\ crashes' = crashes + 1
    /\ UNCHANGED <<ddl, tables, metadata, options, updates>>

-----------------------------------------------------------------------------
(* Setting and unsetting options.                                          *)

Writable(c) == ~ client[c].readonly
MayUpdate(key) == key \notin READ_ONLY_KEYS

Inserted(row) == IF row.value = NULL THEN {} ELSE {row}

\* Mutant: the DELETE compares the scope with =, which is never true of NULL.
DeletedScoped(rows, key, scope) == {r \in RowsOf(rows, key, scope) : scope # "global"}

\* The WHERE clause of the DELETE.
Deleted(rows, key, scope) == RowsOf(rows, key, scope)

\* MetadataCache::update begins: the DELETE fixes what the transaction sees.  This
\* is REPEATABLE READ of PostgreSQL; the others lock and allow fewer behaviours.
\* after, shown: what had been committed and what was in memory by then.
BeginUpdate(c) ==
    /\ Connected(c) /\ Writable(c)
    /\ updates < MaxUpdates
    /\ \E key \in Keys, scope \in Scopes, value \in Values \union {NULL} :
          /\ MayUpdate(key)
          /\ running' = running \union
                {[client |-> c, row |-> Row(updates + 1, key, scope, value),
                  seen |-> Deleted(metadata, key, scope), done |-> FALSE,
                  after |-> RowsOf(committed, key, scope),
                  shown |-> RowsOf(memory[c], key, scope)]}
    /\ updates' = updates + 1
    /\ UNCHANGED <<ddl, tables, metadata, client, memory, committed, replaced, outdated,
                   crashes>>

\* ... the INSERT, and the commit, which fails if somebody else deleted a row that
\* this transaction deletes.  Nothing else keeps two updates apart.
CommitUpdate(c) ==
    /\ \E u \in running :
          /\ u.client = c /\ ~ u.done
          /\ IF u.seen \subseteq metadata
             THEN /\ metadata' = (metadata \ u.seen) \union Inserted(u.row)
                  /\ running' = (running \ {u}) \union {[u EXCEPT !.done = TRUE]}
                  /\ committed' = committed \union {u.row}
                  /\ replaced' = replaced \union u.after
             ELSE /\ running' = running \ {u}
                  /\ UNCHANGED <<metadata, committed, replaced>>
    /\ UNCHANGED <<ddl, tables, client, memory, outdated, updates, crashes>>

\* set_* and unset_*: the map in memory follows when the transaction has committed.
Remembered(rows, row) == (rows \ RowsOf(rows, row.key, row.scope)) \union Inserted(row)

Remember(c) ==
    /\ \E u \in running :
          /\ u.client = c /\ u.done
          /\ memory' = [memory EXCEPT ![c] = Remembered(@, u.row)]
          /\ outdated' = [outdated EXCEPT ![c] = @ \union u.shown]
          /\ running' = running \ {u}
    /\ UNCHANGED <<ddl, tables, metadata, client, committed, replaced, updates, crashes>>

ConnectSteps(c) ==
    \/ ReadVersion(c) \/ Upgrade(c) \/ UpgradeSchema(c) \/ UpgradeRows(c)
    \/ UpgradeVersion(c) \/ Load(c)
CreateSteps(c) ==
    \/ CreateCheck(c) \/ InitCatalog(c) \/ PopulateMetadata(c) \/ PopulateRest(c)

Next == \E c \in Clients :
    \/ CreateSteps(c) \/ ConnectSteps(c)
    \/ Disconnect(c) \/ Crash(c)
    \/ BeginUpdate(c) \/ CommitUpdate(c) \/ Remember(c)

Spec == Init /\ [][Next]_vars

\* Clients make progress, and connect again when they fail.
FairSpec == Spec /\ \A c \in Clients : WF_vars(CreateSteps(c) \/ ConnectSteps(c))
-----------------------------------------------------------------------------
(* Properties.                                                             *)

\* There is one version, options have a known key and scope, and only sessions
\* have options in memory and updates under way.
TypeOK ==
    /\ ddl \in BOOLEAN /\ exists \in BOOLEAN
    /\ layout \subseteq Upgrades
    /\ \A r \in metadata : r.key \in Keys /\ r.scope \in Scopes
    /\ Cardinality(VersionRows) <= 1
    /\ partition \in {NULL, PartitionIndex} \union {Columns[i] : i \in DOMAIN Columns}
    /\ \A c \in Clients : memory[c] # {} => Connected(c)
    /\ \A u \in running : Connected(u.client)
    /\ updates \in 0 .. MaxUpdates /\ crashes \in 0 .. MaxCrashes

Version == IF VersionRows = {} THEN NULL ELSE (CHOOSE r \in VersionRows : TRUE).value
TheColumn == Columns[PartitionIndex + 1]
FirstVersions == {[table |-> t.id, begin |-> t.begin, version |-> LegacySnapshots[t.begin]]
                    : t \in LegacyTables}
IsLegacy == snapshots = LegacySnapshots

\* Whoever upgrades, however often it was interrupted and on every database:
\* the data has been upgraded exactly once when the version says so, that is,
\* the partition column is still the same column, and every table has the
\* schema version it was created with (v0_2.rs, v0_3.rs, v0_4.rs).
DataUpgradedOnce ==
    Version \in Nat /\ IsLegacy =>
        /\ Version >= V0_2 => partition = TheColumn
        /\ Version < V0_2 /\ ddl => partition = PartitionIndex
        /\ Version >= V0_4 => schema_versions = FirstVersions

\* Where DDL is transactional, an interrupted create or upgrade leaves nothing
\* half done: the tables have the layout of the version in the metadata, and a
\* catalog that exists can be connected to (init.rs, upgrades/mod.rs).
NothingHalfDone ==
    ddl /\ exists =>
        /\ Version \in Nat
        /\ layout = {u \in Upgrades : u <= Version}
        /\ snapshots # <<>>

\* A session works on the latest format from its start to its end.
SessionsAreLatest ==
    \A c \in Clients : Connected(c) => Version = Latest /\ layout = Upgrades

\* Updates of options take effect in their order although the table has no key:
\* what had been committed or shown by a session before another update of the
\* same option began is gone when that update has committed and, in the memory of
\* its session, has been remembered (metadata.rs:364-408).  Two updates that
\* overlap may both leave their row, until the next one removes both.
OptionsInOrder ==
    /\ metadata \intersect replaced = {}
    /\ \A c \in Clients : memory[c] \intersect outdated[c] = {}

\* An old catalog becomes usable if clients keep connecting to it and crash
\* only so often, where DDL is transactional.
UpgradeCompletes == (ddl /\ Version \in SUPPORTED_VERSIONS) ~> (Version = Latest)

\* Creating or connecting always ends in a session or an error that a later
\* attempt can overcome, on every database (the comment on Ducklake::create
\* says to use connect when the catalog is already initialized).
InitializedCanConnect ==
    exists /\ (\A c \in Clients : client[c].pc = "off") => Version # NULL
=============================================================================
