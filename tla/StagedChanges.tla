---------------------------- MODULE StagedChanges ----------------------------
(***************************************************************************)
(* Which change sets the transaction API can produce.  Every operation is  *)
(* validated against the catalog of the transaction (transaction/table.rs, *)
(* schema.rs, view.rs, macro_.rs and the catalog they mutate), so a change *)
(* set is consistent with the snapshot the transaction started from and    *)
(* with nothing else.                                                      *)
(***************************************************************************)
EXTENDS ChangeSet

CONSTANTS
    SchemaNames,  \* names schemas may take
    Names,        \* names tables, views and macros may take
    Enabled,      \* the <<op, kind>> pairs a run lets transactions use
    MaxChanges,   \* changes per transaction: 0, 1 or 2
    FileCounts,   \* files (of one row each) one write may append; the API takes none, too
    MaxRows       \* rows per inline write

ASSUME FileCountsAssumption == FileCounts \subseteq Nat
ASSUME MaxRowsAssumption == MaxRows \in Nat

-----------------------------------------------------------------------------
Objects(cat, kinds) == {r \in cat.objects : r.kind \in kinds}
Tables(cat) == Objects(cat, {"table"})
SchemaName(cat, id) == (CHOOSE s \in Objects(cat, {"schema"}) : s.id = id).name

(* The operations a user may call, before validation.                      *)
create_schema == {Change("create", "schema", NoId, NoName, n, 0) : n \in SchemaNames}

create_in_schema(kinds) ==
    {Change("create", k, NoId, s, n, 0) : k \in kinds, s \in SchemaNames, n \in Names}

create_table == create_in_schema({"table"})
create_view  == create_in_schema({"view"})
create_macro == create_in_schema(Macro)

\* delete_schema, delete_table, delete_view and delete_macro.
delete_object(cat) == {Change("delete", r.kind, r.id, NoName, NoName, 0) : r \in cat.objects}

\* What move_tables does to its sources, in a transaction of its own.
delete_table_transferring_file_ownership(cat) ==
    {Change("delete", "table", r.id, NoName, NoName, Detach) : r \in Tables(cat)}

Moves(cs) == {c \in Ops(cs, "delete") : c.n = Detach}

\* Renaming a table to the name it has does nothing.
rename_table(cat) ==
    UNION {{Change("rename", "table", r.id, SchemaName(cat, r.schema_id), n, 0) :
              n \in Names \ {r.name}} : r \in Tables(cat)}

\* The next column ID is read from the database, not from the base snapshot.
add_table_column(lake, cat) ==
    {Change("add_column", "table", r.id, NoName, NoName, NextColumn(lake, r.id)) :
        r \in {x \in Tables(cat) : ColumnsOf(lake.columns, x.id) # {}}}

remove_table_column(cat) ==
    {Change("remove_column", "table", c.table, NoName, NoName, c.column) : c \in cat.columns}

add_table_tag(cat) == {Change("set", "tag", r.id, NoName, NoName, 0) : r \in Tables(cat)}

remove_table_tag(cat) ==
    {Change("unset", "tag", a.table, NoName, NoName, 0) :
        a \in {b \in cat.attributes : b.key = "tag"}}

\* update_partitioning and update_sort_info: to a column, or to nothing.
update_indexed(cat) ==
    {Change("set", k, c.table, NoName, NoName, c.column) : k \in Indexed, c \in cat.columns}
      \union
    {Change("unset", k, r.id, NoName, NoName, 0) : k \in Indexed, r \in Tables(cat)}

\* A write may go to a table of the catalog or to one the transaction creates.
Writable(cat) == {r.id : r \in Tables(cat)} \union {Pending}

write_table_data_files(cat) ==
    {Change("write_files", "table", id, NoName, NoName, n) : id \in Writable(cat), n \in FileCounts}

write_table_inline_data(cat) ==
    {Change("write_inline", "table", id, NoName, NoName, n) : id \in Writable(cat), n \in 1 .. MaxRows}

Candidates(lake, cat) ==
    {c \in UNION {create_schema, create_table, create_view, create_macro, delete_object(cat),
                  delete_table_transferring_file_ownership(cat), rename_table(cat),
                  add_table_column(lake, cat), remove_table_column(cat),
                  add_table_tag(cat), remove_table_tag(cat), update_indexed(cat),
                  write_table_data_files(cat), write_table_inline_data(cat)} :
        <<c.op, c.kind>> \in Enabled}

-----------------------------------------------------------------------------
Deleted(cs, r) == dropped(cs, r)
Gone(cs, r) == dropped(cs, r) \/ renamed(cs, r)

\* add_schema, and schema lookups by name in the transaction's catalog.
SchemaFree(cs, cat, name) ==
    \A s \in Objects(cat, {"schema"}) : s.name = name => Deleted(cs, s)

SchemaExists(cs, cat, name) ==
    \/ \E c \in Ops(cs, "create") : c.kind = "schema" /\ c.name = name
    \/ \E s \in Objects(cat, {"schema"}) : s.name = name /\ ~ Deleted(cs, s)

\* Tables and views share a namespace; each type of macro has its own.
Namespace(kind) == IF kind \in Relation THEN Relation ELSE {kind}

\* add_table, add_view, add_macro and rename: the name is not taken.
NameFree(cs, cat, c) ==
    /\ \A r \in Objects(cat, Namespace(c.kind)) :
          r.name = c.name /\ SchemaName(cat, r.schema_id) = c.schema => Gone(cs, r)
    /\ \A d \in Ops(cs, "create") \union Ops(cs, "rename") :
          d # c /\ d.kind \in Namespace(c.kind) => <<d.schema, d.name>> # <<c.schema, c.name>>

\* SchemaViewMut::delete: only an empty schema can be deleted.
SchemaEmpty(cs, cat, id) ==
    /\ \A r \in cat.objects : r.schema_id = id => Deleted(cs, r)
    /\ \A d \in Ops(cs, "create") \union Ops(cs, "rename") : d.schema # SchemaName(cat, id)

\* Operations that address a table by name fail once the set has deleted it;
\* the ones that came before are removed by ChangeSet::new.
Affects(c, kind, id) ==
    /\ c.id = id
    /\ c.kind = kind \/ (kind = "table" /\ c.op \in {"set", "unset"})

\* The columns the partitioning or the sort order of a table refers to.
KeyColumns(cs, cat, table) ==
    {a.column : a \in {b \in cat.attributes :
        b.table = table /\ b.key \in Indexed /\ ~ retires_attribute(cs, b)}}
      \union {c.n : c \in {d \in Ops(cs, "set") : d.id = table /\ d.kind \in Indexed}}

Accepted(cs, cat) ==
    /\ \A c \in Ops(cs, "create") :
          IF c.kind = "schema" THEN SchemaFree(cs, cat, c.name)
          ELSE SchemaExists(cs, cat, c.schema) /\ NameFree(cs, cat, c)
    /\ \A c \in Ops(cs, "rename") : NameFree(cs, cat, c)
    /\ \A c \in Ops(cs, "delete") :
          /\ c.kind = "schema" => SchemaEmpty(cs, cat, c.id)
          /\ \A d \in cs : d # c => ~ Affects(d, c.kind, c.id)
    \* the later of two changes to one attribute wins
    /\ \A c \in Ops(cs, "set"), d \in Ops(cs, "unset") : <<c.kind, c.id>> # <<d.kind, d.id>>
    /\ \A c \in Ops(cs, "remove_column") : c.n \notin KeyColumns(cs, cat, c.id)
    \* the drop of moved tables is a transaction of its own
    /\ Moves(cs) \in {{}, cs}
    /\ \A c \in cs : c.id = Pending => "table" \in CreatedKinds(cs)
    \* one object of a kind and one write of a sort per set (bound of the model)
    /\ \A c, d \in cs : c # d /\ c.op = d.op =>
          /\ c.op \notin WriteOps
          /\ c.op \in {"create", "set"} => c.kind # d.kind
          /\ c.op = "rename" => c.id # d.id
    \* apply_changes panics with unimplemented! on such a set
    /\ \A c \in Ops(cs, "write_inline") : c.id \notin table_refs_with_schema_changes(cs)

StagedSets(lake, cat) ==
    LET C == Candidates(lake, cat) IN
    {cs \in {{}} \union {{c, d} : c, d \in C} : Cardinality(cs) <= MaxChanges /\ Accepted(cs, cat)}

=============================================================================
