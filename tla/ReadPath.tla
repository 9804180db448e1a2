------------------------------ MODULE ReadPath ------------------------------
(***************************************************************************)
(* How a connection reads: the cached head and the catalogs cached by      *)
(* schema version (caches/snapshot.rs, caches/catalog.rs), the modes of a  *)
(* handle (ducklake.rs), and scans of a table (scan/).                     *)
(*                                                                         *)
(* One connection with several tasks reads a table that others change      *)
(* while snapshots expire.  The queries of a scan and of a catalog are     *)
(* separate statements outside a transaction.  A column is its ID and the  *)
(* name it has; the contents of a data file are its name and whether rows  *)
(* of it are deleted; an inlined row is the columns it was written with.   *)
(***************************************************************************)
EXTENDS LakeRows, FiniteSets, FiniteSetsExt

CONSTANTS
    Tasks,         \* concurrent operations of the connection
    MaxSnapshots,  \* bound: newest snapshot ID
    MaxCalls       \* bound: number of calls on the connection

ASSUME ReadPathAssumption == MaxSnapshots \in Nat \ {0} /\ MaxCalls \in Nat

VARIABLES
    snapshots,        \* ducklake_snapshot: ID -> schema version
    tables, columns,  \* rows of ducklake_table and ducklake_column
    files, deletes,   \* rows of ducklake_data_file and ducklake_delete_file
    inlineTables,     \* ducklake_inlined_data_tables, with the columns they have
    inlineRows,       \* rows of the inlined data tables
    schemaVersions,   \* rows of ducklake_schema_versions
    current,          \* SnapshotCache: the cached head
    catalogs,         \* CatalogCache: schema version -> lazy catalog
    view,             \* a handle derived from the connection
    task,             \* what every task is doing
    started,
    acked,            \* newest commit this connection was told of
    history           \* for the properties: all snapshots as they were committed

database == <<snapshots, tables, columns, files, deletes, inlineTables, inlineRows,
              schemaVersions>>
cache == <<current, catalogs>>
vars == <<database, cache, view, task, started, acked, history>>

Scanned == 1
Other == 2
HeadId == Max(DOMAIN snapshots)

\* Catalog::load at a snapshot, as far as it is about tables and columns.
CatalogOf(s) ==
    [tables |-> {[id |-> r.id, name |-> r.name] : r \in Visible(tables, s)},
     columns |-> {[table |-> r.table, id |-> r.id, name |-> r.name]
                    : r \in Visible(columns, s)}]
HasTable(catalog) == \E t \in catalog.tables : t.id = Scanned
SchemaOf(catalog) == {[id |-> c.id, name |-> c.name]
                        : c \in {c \in catalog.columns : c.table = Scanned}}
ColumnIds(schema) == {c.id : c \in schema}

\* What a reader of a snapshot should see of the scanned table.
ContentsAt(s) ==
    [files |-> {[file |-> f.file, deleted |-> \E d \in Visible(deletes, s) : d.file = f.file]
                  : f \in Visible(files, s)},
     rows |-> {[row |-> r.row, values |-> r.columns \intersect ColumnIds(SchemaOf(CatalogOf(s)))]
                  : r \in Visible(inlineRows, s)}]

Info(id, version) == [id |-> id, version |-> version]
Idle == [pc |-> "idle"]

Init ==
    /\ snapshots = [s \in {1} |-> 1]
    /\ tables = {[id |-> Scanned, name |-> "a", begin |-> 1, end |-> NULL]}
    /\ columns = {[table |-> Scanned, id |-> 1, name |-> "x", begin |-> 1, end |-> NULL]}
    /\ files = {} /\ deletes = {} /\ inlineRows = {}
    /\ inlineTables = {[table |-> Scanned, version |-> 1,
                        columns |-> {[id |-> 1, name |-> "x"]}]}
    /\ schemaVersions = {[table |-> Scanned, begin |-> 1, version |-> 1]}
    /\ current = Info(1, 1)
    /\ catalogs = [v \in {1} |-> [bound |-> 1, loaded |-> {}]]
    /\ view = [mode |-> "ReadOnly", pinned |-> {}, asked |-> NULL]
    /\ task = [t \in Tasks |-> Idle]
    /\ started = 0 /\ acked = 1
    /\ history = [s \in {1} |-> [version |-> 1, catalog |-> CatalogOf(1),
                                 contents |-> ContentsAt(1)]]

-----------------------------------------------------------------------------
(* Commits, as seen by a reader (see CommitProtocol).                      *)

New == HeadId + 1
Retire(rows, gone) == {IF r \in gone THEN [r EXCEPT !.end = New] ELSE r : r \in rows}

TableIsLive == \E r \in Live(tables) : r.id = Scanned
LatestInlineTable == CHOOSE i \in inlineTables :
    i.table = Scanned /\ \A j \in inlineTables : j.table = Scanned => j.version <= i.version

WriteFile ==
    /\ TableIsLive
    /\ files' = files \union {[file |-> New, begin |-> New, end |-> NULL]}
    /\ UNCHANGED <<tables, columns, deletes, inlineTables, inlineRows, schemaVersions>>

\* Rows of a file are deleted, or the file is replaced.
DeleteRows ==
    /\ \E f \in Live(files) :
          deletes' = Retire(deletes, {d \in Live(deletes) : d.file = f.file})
                        \union {[file |-> f.file, begin |-> New, end |-> NULL]}
    /\ UNCHANGED <<tables, columns, files, inlineTables, inlineRows, schemaVersions>>

WriteInline ==
    /\ TableIsLive
    /\ inlineRows' = inlineRows \union
          {[row |-> New, version |-> LatestInlineTable.version,
            columns |-> ColumnIds(LatestInlineTable.columns), begin |-> New, end |-> NULL]}
    /\ UNCHANGED <<tables, columns, files, deletes, inlineTables, schemaVersions>>

\* Mutant: the schema version is not advanced.
NextVersionSame == snapshots[HeadId]

\* The schema version a commit has that changes the catalog.
NextVersion == snapshots[HeadId] + 1

\* A table whose columns or name change gets a schema version of its own and a
\* new inlined data table.
NewInlineTable(cols) ==
    /\ inlineTables' = inlineTables \union
          {[table |-> Scanned, version |-> NextVersion,
            columns |-> {[id |-> c.id, name |-> c.name] : c \in cols}]}
    /\ schemaVersions' = schemaVersions \union
          {[table |-> Scanned, begin |-> New, version |-> NextVersion]}

ColumnsNow == {c \in Live(columns) : c.table = Scanned}

AddColumn ==
    /\ TableIsLive /\ 2 \notin ColumnIds(ColumnsNow)
    /\ LET c == [table |-> Scanned, id |-> 2, name |-> "y", begin |-> New, end |-> NULL] IN
       /\ columns' = columns \union {c}
       /\ NewInlineTable(ColumnsNow \union {c})
    /\ UNCHANGED <<tables, files, deletes, inlineRows>>

RenameColumn ==
    /\ TableIsLive
    /\ \E old \in ColumnsNow :
          LET c == [old EXCEPT !.name = IF old.name = "x" THEN "z" ELSE "x", !.begin = New] IN
          /\ old.id = 1
          /\ columns' = Retire(columns, {old}) \union {c}
          /\ NewInlineTable((ColumnsNow \ {old}) \union {c})
    /\ UNCHANGED <<tables, files, deletes, inlineRows>>

DropTable ==
    /\ TableIsLive
    /\ tables' = Retire(tables, {r \in Live(tables) : r.id = Scanned})
    /\ columns' = Retire(columns, ColumnsNow)
    /\ files' = Retire(files, Live(files))
    /\ deletes' = Retire(deletes, Live(deletes))
    /\ UNCHANGED <<inlineTables, inlineRows, schemaVersions>>

\* Somebody else's table: a schema version the scanned table has no part in.
CreateOther ==
    /\ \A r \in tables : r.id # Other
    /\ tables' = tables \union {[id |-> Other, name |-> "b", begin |-> New, end |-> NULL]}
    /\ schemaVersions' = schemaVersions \union
          {[table |-> Other, begin |-> New, version |-> NextVersion]}
    /\ UNCHANGED <<columns, files, deletes, inlineTables, inlineRows>>

DropOther ==
    /\ \E r \in Live(tables) :
          /\ r.id = Other
          /\ tables' = Retire(tables, {r})
    /\ UNCHANGED <<columns, files, deletes, inlineTables, inlineRows, schemaVersions>>

DataChange == WriteFile \/ DeleteRows \/ WriteInline
SchemaChange == AddColumn \/ RenameColumn \/ DropTable \/ CreateOther \/ DropOther

Append(f, k, v) == [x \in DOMAIN f \union {k} |-> IF x = k THEN v ELSE f[x]]

Commit(new, version) ==
    /\ new = New /\ new <= MaxSnapshots
    /\ \/ version = snapshots[HeadId] /\ DataChange
       \/ version = NextVersion /\ SchemaChange
    /\ snapshots' = Append(snapshots, new, version)
    /\ history' = Append(history, new, [version |-> version, catalog |-> CatalogOf(new)',
                                        contents |-> ContentsAt(new)'])

Ids == 1 .. MaxSnapshots
\* A commit of another connection.
ForeignCommit ==
    /\ \E new \in Ids, version \in Ids : Commit(new, version)
    /\ UNCHANGED <<cache, view, task, started, acked>>

-----------------------------------------------------------------------------
(* Caches.  A lazy catalog lives as long as a snapshot holds on to it.     *)

SnapshotsOf(t) ==
    CASE task[t].pc = "idle" -> {}
      [] task[t].pc \in {"insert", "record"} -> {}
      [] OTHER -> {task[t].snapshot} \union task[t].resolved
Pins == view.pinned
Held == {i.version : i \in {current} \union Pins \union UNION {SnapshotsOf(t) : t \in Tasks}}

\* Snapshot::new, WeakCache::get_or_insert_with: the first snapshot of a schema
\* version to ask for its catalog decides at which ID it is loaded.
Share(info) ==
    catalogs' = [v \in Held' |-> IF v \in DOMAIN catalogs THEN catalogs[v]
                                 ELSE [bound |-> info.id, loaded |-> {}]]

\* Mutant: the last answer is the head.
NewerLast(info) == info

\* insert_snapshot: a late answer does not move the head back.
Newer(info) == IF info.id > current.id THEN info ELSE current

\* Mutant: no schema versions of expired snapshots.
InfoForLive(v) ==
    LET live == {s \in DOMAIN snapshots : snapshots[s] = v}
    IN  IF current.version = v THEN {current}
        ELSE IF live # {} THEN {Info(Max(live), v)} ELSE {}

\* get_for_schema_version: the head, a snapshot that is retained, or else where
\* the schema version began.
InfoFor(v) ==
    LET live == {s \in DOMAIN snapshots : snapshots[s] = v}
        begins == {r.begin : r \in {r \in schemaVersions : r.version = v}}
    IN  IF current.version = v THEN {current}
        ELSE IF live # {} THEN {Info(Max(live), v)}
        ELSE IF begins # {} THEN {Info(Min(begins), v)}
        ELSE {}

\* AsyncLazy: the catalog is loaded once, when it is first needed.
LoadCatalog(t) ==
    /\ task[t].pc \in {"catalog", "schemas"}
    /\ \E v \in {i.version : i \in SnapshotsOf(t)} :
          /\ catalogs[v].loaded = {}
          /\ catalogs' = [catalogs EXCEPT ![v].loaded = {CatalogOf(catalogs[v].bound)}]
    /\ UNCHANGED <<database, current, view, task, started, acked, history>>

Loaded(info) == catalogs[info.version].loaded # {}
CatalogFor(info) == CHOOSE c \in catalogs[info.version].loaded : TRUE

-----------------------------------------------------------------------------
(* Handles.                                                                *)

\* at_snapshot_id, at_snapshot_timestamp.
AtSnapshot ==
    /\ started < MaxCalls /\ started' = started + 1
    /\ \E s \in DOMAIN snapshots :
          /\ view' = [mode |-> "TimeTravel", pinned |-> {Info(s, snapshots[s])}, asked |-> s]
          /\ UNCHANGED <<current, task>>
          /\ Share(Info(s, snapshots[s]))
    /\ UNCHANGED <<database, acked, history>>

\* Mutant: a read-only handle always follows the head.
ReadonlyModeHead(handle) == [handle EXCEPT !.mode = "ReadOnly", !.pinned = {}]

ReadonlyMode(handle) == IF handle.mode = "TimeTravel" THEN handle
                        ELSE [handle EXCEPT !.mode = "ReadOnly"]

Readonly ==
    /\ started < MaxCalls /\ started' = started + 1
    /\ \E handle \in {view, [mode |-> "ReadWrite", pinned |-> {}, asked |-> NULL]} :
          view' = ReadonlyMode(handle)
    /\ UNCHANGED <<current, task>>
    /\ Share(current)
    /\ UNCHANGED <<database, acked, history>>

-----------------------------------------------------------------------------
(* Scans.                                                                  *)

Scan(snapshot, asked, floor) ==
    [pc |-> "catalog", snapshot |-> snapshot, asked |-> asked, floor |-> floor,
     fetched |-> {}, files |-> {}, deletes |-> {}, inline |-> {}, resolved |-> {}, rows |-> {}]

Become(t, state) == task' = [task EXCEPT ![t] = state]

\* DucklakeConnection::snapshot on a handle that is not pinned: load_latest.
QueryHead(t) ==
    /\ task[t].pc = "idle"
    /\ started < MaxCalls /\ started' = started + 1
    /\ Become(t, [pc |-> "insert", info |-> Info(HeadId, snapshots[HeadId]), floor |-> acked])
    /\ UNCHANGED <<database, cache, view, acked, history>>

InsertHead(t) ==
    /\ task[t].pc = "insert"
    /\ current' = Newer(task[t].info)
    /\ Become(t, Scan(task[t].info, NULL, task[t].floor))
    /\ UNCHANGED view
    /\ Share(task[t].info)
    /\ UNCHANGED <<database, started, acked, history>>

ScanView(t) ==
    /\ task[t].pc = "idle" /\ view.mode = "TimeTravel"
    /\ started < MaxCalls /\ started' = started + 1
    /\ \E info \in view.pinned : Become(t, Scan(info, view.asked, 0))
    /\ UNCHANGED <<database, cache, view, acked, history>>

\* A commit of this connection, and what it does when it has returned.
OwnCommit(t) ==
    /\ task[t].pc = "idle"
    /\ started < MaxCalls /\ started' = started + 1
    /\ \E new \in Ids, version \in Ids :
          /\ Commit(new, version)
          /\ Become(t, [pc |-> "record", info |-> Info(new, version)])
    /\ UNCHANGED <<cache, view, acked>>

RecordCommit(t) ==
    /\ task[t].pc = "record"
    /\ current' = Newer(task[t].info)
    /\ acked' = Max({acked, task[t].info.id})
    /\ Become(t, Idle)
    /\ UNCHANGED view
    /\ Share(task[t].info)
    /\ UNCHANGED <<database, started, history>>

Done(t, outcome) ==
    Become(t, [task[t] EXCEPT !.pc = outcome])

LookUpTable(t) ==
    /\ task[t].pc = "catalog" /\ Loaded(task[t].snapshot)
    /\ IF HasTable(CatalogFor(task[t].snapshot))
       THEN Become(t, [task[t] EXCEPT !.pc = "fetch"])
       ELSE Done(t, "not_found")
    /\ UNCHANGED <<database, cache, view, started, acked, history>>

\* scan_table_inner: queries side by side, each for the ID of the snapshot.
Queries == {"files", "deletes", "inline"}

Fetch(t, q) ==
    /\ task[t].pc = "fetch" /\ q \notin task[t].fetched
    /\ LET id == task[t].snapshot.id
           got == CASE q = "files" -> {f.file : f \in Visible(files, id)}
                    [] q = "deletes" -> {d.file : d \in Visible(deletes, id)}
                    [] OTHER -> {i \in inlineTables : i.table = Scanned}
           after == [task[t] EXCEPT ![q] = got, !.fetched = @ \union {q}]
       IN  Become(t, [after EXCEPT !.pc = IF after.fetched = Queries THEN "schemas" ELSE "fetch"])
    /\ UNCHANGED <<database, cache, view, started, acked, history>>

Unresolved(t) == {i \in task[t].inline : \A r \in task[t].resolved : r.version # i.version}

ResolveSchema(t) ==
    /\ task[t].pc = "schemas"
    /\ \E i \in Unresolved(t) :
          IF InfoFor(i.version) = {}
          THEN /\ Done(t, "error")
               /\ UNCHANGED <<current, view>> /\ Share(current)
          ELSE \E info \in InfoFor(i.version) :
               /\ Become(t, [task[t] EXCEPT !.resolved = @ \union {info}])
               /\ UNCHANGED <<current, view>> /\ Share(info)
    /\ UNCHANGED <<database, started, acked, history>>

\* The columns of the schema version are selected by name, and matched by ID
\* with those of the snapshot: a name the table lacks is an error.
ReadInlined(t) ==
    /\ task[t].pc = "schemas" /\ Unresolved(t) = {}
    /\ \E i \in task[t].inline :
          \E r \in {r \in task[t].resolved : r.version = i.version} :
          /\ Loaded(r)
          /\ LET schema == SchemaOf(CatalogFor(r))
                 target == ColumnIds(SchemaOf(CatalogFor(task[t].snapshot)))
                 seen == {x \in Visible(inlineRows, task[t].snapshot.id) : x.version = i.version}
             IN  IF HasTable(CatalogFor(r)) /\ schema \subseteq i.columns
                 THEN Become(t, [task[t] EXCEPT !.inline = @ \ {i},
                         !.rows = @ \union {[row |-> x.row,
                            values |-> x.columns \intersect ColumnIds(schema) \intersect target]
                               : x \in seen}])
                 ELSE Done(t, "error")
    /\ UNCHANGED <<database, cache, view, started, acked, history>>

ScanDone(t) ==
    /\ task[t].pc = "schemas" /\ task[t].inline = {}
    /\ Done(t, "ok")
    /\ UNCHANGED <<database, cache, view, started, acked, history>>

Release(t) ==
    /\ task[t].pc \in {"ok", "not_found", "error"}
    /\ Become(t, Idle)
    /\ UNCHANGED <<current, view>>
    /\ Share(current)
    /\ UNCHANGED <<database, started, acked, history>>

-----------------------------------------------------------------------------
(* Expiry, which spares the snapshots that are being read.                 *)

InUse == {i.id : i \in Pins \union
            UNION {CASE task[t].pc \in {"idle", "record"} -> {}
                     [] task[t].pc = "insert" -> {task[t].info}
                     [] OTHER -> {task[t].snapshot} : t \in Tasks}}

ExpireSnapshots ==
    /\ \E ids \in SUBSET (DOMAIN snapshots \ (InUse \union {HeadId})) :
          LET kept == DOMAIN snapshots \ ids
              gone == {x \in {Scanned, Other} :
                         \A r \in tables : r.id = x => Inactive(r, kept)}
          IN  /\ ids # {}
              /\ snapshots' = [s \in kept |-> snapshots[s]]
              /\ tables' = {r \in tables : r.id \notin gone}
              /\ columns' = {r \in columns : r.table \notin gone}
              /\ inlineTables' = {r \in inlineTables : r.table \notin gone}
              /\ inlineRows' = IF Scanned \in gone THEN {} ELSE inlineRows
              /\ schemaVersions' = {r \in schemaVersions : r.table \notin gone}
              /\ files' = {r \in files : ~ Inactive(r, kept)}
              /\ deletes' = {r \in deletes : ~ Inactive(r, kept)}
    /\ UNCHANGED <<cache, view, task, started, acked, history>>

Step(t) ==
    \/ QueryHead(t) \/ InsertHead(t) \/ ScanView(t) \/ OwnCommit(t) \/ RecordCommit(t)
    \/ LoadCatalog(t) \/ LookUpTable(t) \/ (\E q \in Queries : Fetch(t, q))
    \/ ResolveSchema(t) \/ ReadInlined(t) \/ ScanDone(t) \/ Release(t)

Next == ForeignCommit \/ AtSnapshot \/ Readonly \/ ExpireSnapshots \/ \E t \in Tasks : Step(t)

Spec == Init /\ [][Next]_vars

-----------------------------------------------------------------------------
(* Properties.                                                             *)

\* Snapshots were committed, and the catalogs that are held are cached.
TypeOK ==
    /\ HeadId \in Ids /\ DOMAIN snapshots \subseteq DOMAIN history
    /\ current.id \in DOMAIN history /\ acked \in DOMAIN history
    /\ DOMAIN catalogs = Held
    /\ started \in 0 .. MaxCalls

\* A scan returns the table as it was committed in the snapshot the scan has
\* resolved, whatever is committed or expires between its queries, also when
\* the schema of old inlined rows has to be reconstructed (snapshot.rs:75).
ScansAreExact ==
    \A t \in Tasks :
        LET h == history[task[t].snapshot.id]
            contents == [files |-> {[file |-> f, deleted |-> f \in task[t].deletes]
                                       : f \in task[t].files},
                         rows |-> task[t].rows]
        IN  /\ task[t].pc = "ok" => contents = h.contents
            /\ task[t].pc = "not_found" => ~ HasTable(h.catalog)
            /\ task[t].pc # "error"

\* A cached catalog is the one of every snapshot that shares it, although it
\* may be loaded late and for another ID (catalog.rs:24).
CatalogsAreExact ==
    \A i \in {current} \union Pins \union {task[t].snapshot : t \in
                {t \in Tasks : task[t].pc \notin {"idle", "insert", "record"}}} :
        (i.id \in DOMAIN snapshots /\ Loaded(i)) => CatalogFor(i) = history[i.id].catalog

\* The connection sees what it has committed, in the cached head and in every
\* scan that starts later, even if an older lookup of the head comes in late.
OwnCommitsVisible ==
    /\ current.id >= acked
    /\ \A t \in Tasks : task[t].pc \notin {"idle", "insert", "record"} =>
          task[t].snapshot.id >= task[t].floor

\* A handle for a snapshot, and read-only handles made from it, read that
\* snapshot (ducklake.rs:57).
PinnedReadsPinned ==
    /\ view.asked # NULL => {i.id : i \in view.pinned} = {view.asked}
    /\ \A t \in Tasks : task[t].pc \notin {"idle", "insert", "record"} =>
          (task[t].asked # NULL => task[t].snapshot.id = task[t].asked)
=============================================================================
