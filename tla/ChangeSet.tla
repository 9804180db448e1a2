------------------------------ MODULE ChangeSet ------------------------------
(***************************************************************************)
(* The changes a transaction collects and what committing them does to the *)
(* rows of the lake (transaction/changes/change.rs, commit_state.rs,       *)
(* transaction_changes.rs and the executors).                              *)
(*                                                                         *)
(* A change is a record [op, kind, id, schema, name, n].  A change set is  *)
(* a set of them, in the normal form ChangeSet::new leaves: at most one    *)
(* change per operation and target, and nothing done to an object that the *)
(* same transaction deletes.  The model also bounds it to one created      *)
(* object of each kind; Pending refers to the table created in the set.    *)
(***************************************************************************)
EXTENDS AppliedChange, LakeRows, FiniteSets

Pending == -2
\* The n of a "delete" of a table that hands its files over to another lake.
Detach == 1

Change(op, kind, id, schema, name, n) ==
    [op |-> op, kind |-> kind, id |-> id, schema |-> schema, name |-> name, n |-> n]

Ops(cs, op) == {c \in cs : c.op = op}
Targets(cs, op, kind) == {c.id : c \in {d \in Ops(cs, op) : d.kind = kind}}

-----------------------------------------------------------------------------
(* CommitState: identifiers are handed out from the counters of the        *)
(* snapshot the attempt is based on.                                       *)
CreatedKinds(cs) == {c.kind : c \in Ops(cs, "create")}

\* Objects, partitionings and sort orders draw their IDs from one counter.
Indexed == {"partitioning", "sort"}
Numbered(cs) == CreatedKinds(cs) \union {c.kind : c \in {d \in Ops(cs, "set") : d.kind \in Indexed}}

\* IDs are handed out in the order of the changes; the model lists them in this
\* order, in which nothing is used before it is created.
Rank == [schema |-> 1, table |-> 2, view |-> 3, scalar_macro |-> 4, table_macro |-> 5,
         partitioning |-> 6, sort |-> 7]

catalog_id(cs, info, kind) ==
    info.next_catalog_id + Cardinality({k \in Numbered(cs) : Rank[k] < Rank[kind]})

table_id(cs, info, c) ==
    IF c.id = Pending THEN catalog_id(cs, info, "table") ELSE c.id

schema_id(cs, info, cat, name) ==
    IF \E c \in Ops(cs, "create") : c.kind = "schema" /\ c.name = name
    THEN catalog_id(cs, info, "schema")
    ELSE (CHOOSE s \in cat.objects : s.kind = "schema" /\ s.name = name).id

\* Only one write_files change per set: its n is the number of new files.
FileCount(cs) ==
    IF Ops(cs, "write_files") = {} THEN 0 ELSE (CHOOSE c \in Ops(cs, "write_files") : TRUE).n

contains_inline_data_writes_and_no_file_writes(cs) ==
    Ops(cs, "write_inline") # {} /\ Ops(cs, "write_files") = {}

file_ids(cs) ==
    FileCount(cs) + (IF contains_inline_data_writes_and_no_file_writes(cs) THEN 1 ELSE 0)

WriteOps == {"write_files", "write_inline"}
\* Mutant: a change to the columns of a table is no schema change.
changes_objects_only(cs) == \E c \in cs : c.op \in {"create", "delete", "rename"}
changes_schema(cs) == \E c \in cs : c.op \notin WriteOps
requires_table_stats(cs) == \E c \in cs : c.op \in WriteOps

\* The snapshot row finalize_commit inserts for cs on top of the snapshot info.
NewSnapshot(cs, info) ==
    [id |-> info.id + 1,
     schema_version |-> info.schema_version + (IF changes_schema(cs) THEN 1 ELSE 0),
     next_catalog_id |-> info.next_catalog_id + Cardinality(Numbered(cs)),
     next_file_id |-> info.next_file_id + file_ids(cs)]

-----------------------------------------------------------------------------
(* applied_change_set: the entries recorded in ducklake_snapshot_changes.  *)
(* A rename is recorded as the creation of a table of the new name.        *)
applied_change(cs, info, c) ==
    CASE c.op \in {"create", "rename"} -> Created(c.kind, c.schema, c.name)
      [] c.op = "delete"               -> About("dropped", c.kind, c.id)
      [] c.op = "write_files"          -> About("inserted", "table", table_id(cs, info, c))
      [] c.op = "write_inline"         -> About("inlined_insert", "table", table_id(cs, info, c))
      [] OTHER                         -> About("altered", "table", c.id)

applied_change_set(cs, info) == {applied_change(cs, info, c) : c \in cs}

-----------------------------------------------------------------------------
(* apply and persist: the rows an attempt writes, given the rows `lake` it *)
(* finds, the catalog `cat` the transaction holds and the statistics       *)
(* `stats` it read.  Rows are retired first, then inserted.                *)
Retire(rows, snapshot_id, hit) ==
    {IF r.end = NULL /\ r \in hit THEN [r EXCEPT !.end = snapshot_id] ELSE r : r \in rows}

new_objects(cs, info, cat) ==
    {[kind |-> c.kind,
      id |-> catalog_id(cs, info, c.kind),
      schema_id |-> IF c.kind = "schema" THEN NoId ELSE schema_id(cs, info, cat, c.schema),
      name |-> c.name,
      begin |-> info.id + 1,
      end |-> NULL] : c \in Ops(cs, "create")}

dropped(cs, r) == \E c \in Ops(cs, "delete") : c.kind = r.kind /\ c.id = r.id
dropped_table(cs, table) == table \in Targets(cs, "delete", "table")
\* detached_tables: a move drops its sources this way.
detached_table(cs, table) ==
    \E c \in Ops(cs, "delete") : c.kind = "table" /\ c.id = table /\ c.n = Detach
renamed(cs, r) == r.kind = "table" /\ r.id \in Targets(cs, "rename", "table")

\* persist_table_renames copies the row that this commit has just retired.
renamed_copies(cs, snapshot_id, retired) ==
    {[rc[1] EXCEPT !.name = rc[2].name, !.begin = snapshot_id, !.end = NULL] :
        rc \in {x \in retired \X Ops(cs, "rename") :
                  /\ x[1].kind = "table" /\ x[1].id = x[2].id
                  /\ x[1].end = snapshot_id}}

persist_objects(objects, cs, info, cat) ==
    LET hit == {r \in objects : dropped(cs, r) \/ renamed(cs, r)}
        retired == Retire(objects, info.id + 1, hit)
    IN  retired \union renamed_copies(cs, info.id + 1, retired)
                \union new_objects(cs, info, cat)

retires_column(cs, r) ==
    \/ dropped_table(cs, r.table)
    \/ \E c \in Ops(cs, "remove_column") : c.id = r.table /\ c.n = r.column

persist_columns(columns, cs, info) ==
    Retire(columns, info.id + 1, {r \in columns : retires_column(cs, r)})
      \union {[table |-> c.id, column |-> c.n, begin |-> info.id + 1, end |-> NULL] :
                 c \in Ops(cs, "add_column")}
      \union {[table |-> catalog_id(cs, info, "table"), column |-> 1,
               begin |-> info.id + 1, end |-> NULL] :
                 c \in {d \in Ops(cs, "create") : d.kind = "table"}}

retires_attribute(cs, r) ==
    \/ dropped_table(cs, r.table)
    \/ \E c \in Ops(cs, "set") \union Ops(cs, "unset") : c.id = r.table /\ c.kind = r.key

\* persist_tags, and the rows of update_table_partitioning and _sort_info.
persist_attributes(attributes, cs, info) ==
    Retire(attributes, info.id + 1, {r \in attributes : retires_attribute(cs, r)})
      \union {[table |-> c.id, key |-> c.kind,
               id |-> IF c.kind \in Indexed THEN catalog_id(cs, info, c.kind) ELSE NoId,
               column |-> c.n, begin |-> info.id + 1, end |-> NULL] : c \in Ops(cs, "set")}

(* Row IDs continue where the statistics the attempt read leave off.       *)
StatsOf(stats, table) ==
    IF \E r \in stats : r.table = table
    THEN CHOOSE r \in stats : r.table = table
    ELSE [table |-> table, next_row_id |-> 0, record_count |-> 0]

\* The rows of detached files are deleted, those of retained snapshots included.
attached(files, cs) == {r \in files : ~ detached_table(cs, r.table)}

persist_files(files, cs, info, stats) ==
    Retire(attached(files, cs), info.id + 1, {r \in files : dropped_table(cs, r.table)})
      \union UNION {{[id |-> info.next_file_id + i,
                      table |-> table_id(cs, info, c),
                      row_id_start |-> StatsOf(stats, table_id(cs, info, c)).next_row_id + i,
                      rows |-> 1,
                      begin |-> info.id + 1,
                      end |-> NULL] : i \in 0 .. c.n - 1} : c \in Ops(cs, "write_files")}

\* Mutant: inline rows start where the statistics read before the commit end.
RowsBeforeNone(cs, c) == 0

\* Rows written to files of the same table by the same set precede inline rows.
RowsBefore(cs, c) ==
    IF \E d \in Ops(cs, "write_files") : d.id = c.id THEN FileCount(cs) ELSE 0

persist_inlined(inlined, cs, info, stats) ==
    inlined \union
      {[table |-> table_id(cs, info, c),
        row_id_start |-> StatsOf(stats, table_id(cs, info, c)).next_row_id + RowsBefore(cs, c),
        rows |-> c.n,
        begin |-> info.id + 1,
        end |-> NULL] : c \in Ops(cs, "write_inline")}

\* Mutant: columns the transaction removed are still in its schema.
tx_columns_with_removed(cs, cat, table) ==
    ColumnsOf(cat.columns, table) \union {c.n : c \in {d \in Ops(cs, "add_column") : d.id = table}}

\* The columns a table has in the catalog of the transaction that commits cs.
tx_columns(cs, cat, table) ==
    (ColumnsOf(cat.columns, table) \union {c.n : c \in {d \in Ops(cs, "add_column") : d.id = table}})
      \ {c.n : c \in {d \in Ops(cs, "remove_column") : d.id = table}}

table_refs_with_schema_changes(cs) ==
    {c.id : c \in {d \in cs :
        \/ d.op \in {"rename", "add_column", "remove_column"}
        \/ d.op \in {"set", "unset"} /\ d.kind = "partitioning"}}

new_inline(cs, info, cat) ==
    {[table |-> t, schema_version |-> NewSnapshot(cs, info).schema_version,
      columns |-> tx_columns(cs, cat, t)] : t \in table_refs_with_schema_changes(cs)}
      \union
    {[table |-> catalog_id(cs, info, "table"),
      schema_version |-> NewSnapshot(cs, info).schema_version,
      columns |-> {1}] : c \in {d \in Ops(cs, "create") : d.kind = "table"}}

\* Mutant: inline rows are not counted.
RowsWrittenToFiles(cs, info, table) ==
    IF \E c \in Ops(cs, "write_files") : table_id(cs, info, c) = table THEN FileCount(cs) ELSE 0

RowsWritten(cs, info, table) ==
    LET writes == {c \in cs : c.op \in WriteOps /\ table_id(cs, info, c) = table}
        count(op) == IF Ops(writes, op) = {} THEN 0 ELSE (CHOOSE c \in Ops(writes, op) : TRUE).n
    IN  count("write_files") + count("write_inline")

written_tables(cs, info) == {table_id(cs, info, c) : c \in {d \in cs : d.op \in WriteOps}}

new_stats(cs, info, stats) ==
    {[table |-> t,
      next_row_id |-> StatsOf(stats, t).next_row_id + RowsWritten(cs, info, t),
      record_count |-> StatsOf(stats, t).record_count + RowsWritten(cs, info, t)] :
        t \in written_tables(cs, info)}

\* persist_statistics updates the row if the attempt read one, else inserts it.
persist_statistics(rows, cs, info, stats) ==
    LET updated == {t \in written_tables(cs, info) : \E r \in stats : r.table = t}
    IN  {r \in rows : r.table \notin updated}
          \union {r \in new_stats(cs, info, stats) :
                    r.table \in updated => \E old \in rows : old.table = r.table}

persist(lake, cs, info, cat, stats) ==
    [objects |-> persist_objects(lake.objects, cs, info, cat),
     columns |-> persist_columns(lake.columns, cs, info),
     attributes |-> persist_attributes(lake.attributes, cs, info),
     files   |-> persist_files(lake.files, cs, info, stats),
     inlined |-> persist_inlined(lake.inlined, cs, info, stats),
     inline  |-> lake.inline \union new_inline(cs, info, cat),
     stats   |-> persist_statistics(lake.stats, cs, info, stats),
     scheduled |-> lake.scheduled]

=============================================================================
