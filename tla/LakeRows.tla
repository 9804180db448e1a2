------------------------------ MODULE LakeRows ------------------------------
(***************************************************************************)
(* The metadata tables of a DuckLake catalog database.  Most rows carry    *)
(* the interval of snapshots [begin_snapshot, end_snapshot) in which they  *)
(* are visible; an end_snapshot of NULL means "still alive".               *)
(*                                                                         *)
(* A lake is a record with one set of rows per group of tables:            *)
(*   objects   schemas, tables, views and macros, told apart by kind       *)
(*   columns   columns of tables                                           *)
(*   attributes  the tag, the partitioning and the sort order of a table;  *)
(*             the last two have an ID and name a column                   *)
(*   files     data files, each with the range of row IDs it holds         *)
(*   inlined   rows stored in the catalog, as ranges of row IDs            *)
(*   inline    the inlined data tables, with the columns they really have  *)
(*   stats     table statistics; these rows are not versioned              *)
(*   scheduled IDs of the data files scheduled for deletion                *)
(***************************************************************************)
EXTENDS Integers

NULL == -1

\* filter_for_snapshot: the rows a reader of snapshot s sees.
VisibleAt(r, s) == r.begin <= s /\ (r.end = NULL \/ s < r.end)
Visible(rows, s) == {r \in rows : VisibleAt(r, s)}
Live(rows) == {r \in rows : r.end = NULL}

\* What a reader of snapshot s gets: no query returns end_snapshot.
AsOf(rows, s) == {[r EXCEPT !.end = NULL] : r \in Visible(rows, s)}

\* Catalog::load: the objects, columns and attributes visible in snapshot s.
CatalogAt(lake, s) ==
    [objects |-> AsOf(lake.objects, s),
     columns |-> AsOf(lake.columns, s),
     attributes |-> AsOf(lake.attributes, s)]

ColumnsOf(columns, table) == {c.column : c \in {r \in columns : r.table = table}}

\* load_next_column_id: one past the largest column ID ever used by the table.
NextColumn(lake, table) ==
    1 + (CHOOSE m \in ColumnsOf(lake.columns, table) :
            \A n \in ColumnsOf(lake.columns, table) : n <= m)

\* persist_inline_data: inline writes go to the newest inlined data table.
NewestInline(inline, table) ==
    CHOOSE i \in inline :
        /\ i.table = table
        /\ \A j \in inline : j.table = table => j.schema_version <= i.schema_version

-----------------------------------------------------------------------------
(* expire_snapshots: what is left of a lake when only the snapshots `ids`  *)
(* are retained.                                                           *)
\* Mutant: the snapshot that began a row does not keep it.
InactiveAtBegin(r, ids) ==
    /\ r.end # NULL
    /\ \A s \in ids : ~ (r.begin < s /\ s < r.end)

Inactive(r, ids) ==
    /\ r.end # NULL
    /\ \A s \in ids : ~ (r.begin <= s /\ s < r.end)

\* Tables none of whose versions can be reached any more.
ExpiredTables(lake, ids) ==
    {t.id : t \in {r \in lake.objects :
        /\ r.kind = "table"
        /\ \A v \in lake.objects :
              v.kind = "table" /\ v.id = r.id => Inactive(v, ids)}}

\* mark_data_files_for_deletion: data files no retained snapshot shows.
UnreachableFiles(lake, ids) == {f \in lake.files : Inactive(f, ids)}

\* delete_expired_catalog_objects looks at every version of a schema, view or
\* macro by itself; a table keeps all its versions until all are unreachable.
RetainedObjects(lake, ids) ==
    {r \in lake.objects :
        IF r.kind = "table" THEN r.id \notin ExpiredTables(lake, ids) ELSE ~ Inactive(r, ids)}

ExpireRows(lake, ids) ==
    LET expired == ExpiredTables(lake, ids) IN
    [objects |-> RetainedObjects(lake, ids),
     columns |-> {r \in lake.columns : r.table \notin expired},
     attributes |-> {r \in lake.attributes :
                       IF r.key = "tag" THEN ~ Inactive(r, ids) ELSE r.table \notin expired},
     files   |-> lake.files \ UnreachableFiles(lake, ids),
     inlined |-> {r \in lake.inlined : r.table \notin expired},
     inline  |-> {r \in lake.inline : r.table \notin expired},
     stats   |-> {r \in lake.stats : r.table \notin expired},
     scheduled |-> lake.scheduled \union {r.id : r \in UnreachableFiles(lake, ids)}]

=============================================================================
