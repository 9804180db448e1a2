------------------------- MODULE TransactionBuffer -------------------------
(***************************************************************************)
(* The changes one transaction buffers for a table, and what is left of    *)
(* them in the database.                                                   *)
(*                                                                         *)
(* Every call edits the private catalog of the transaction and appends     *)
(* changes to a list (transaction/table.rs).  The commit deduplicates the  *)
(* list (ChangeSet::new), turns it into rows to retire and rows to insert  *)
(* (executors) and writes those (TransactionChanges::persist).  The next   *)
(* transaction loads its catalog from the rows.  The catalog a caller saw  *)
(* and the catalog that is loaded are computed along two different ways;   *)
(* this module compares them.                                              *)
(*                                                                         *)
(* The table has root columns and structs with fields.  A column is        *)
(* identified by its ID: IDs grow with the position in the arena, and      *)
(* column_order is the ID.  There is one tag key.  Commits succeed: what   *)
(* happens between several transactions is the subject of CommitProtocol.  *)
(***************************************************************************)
EXTENDS LakeRows, Sequences, FiniteSets, SequencesExt

CONSTANTS
    Names,        \* names of columns
    FieldNames,   \* names of struct fields
    Tags,         \* values of the tag
    Mixes,        \* sets of groups of calls; a behaviour uses one of the sets
    Avoid,        \* uses of the API that the callers avoid, see Uses
    MaxCalls,     \* bound: calls that stage something
    MaxSnapshots  \* bound: commits

Groups == {"columns", "schema", "keys", "tags", "writes"}

\* Uses of the API after which the database does not hold what was staged:
\*  removed_column        addressing a column the transaction has removed
\*  pending_partitioning  changing the partitioning given to create_table
\*  second_inline_write   two inline writes to the table
\*  not_null_after_write  disallowing NULL after a write of the transaction
\*  not_null_on_old_rows  disallowing NULL where committed rows lack the column
\*  partition_after_write changing the partitioning after a write of files
Uses == {"removed_column", "pending_partitioning", "second_inline_write",
         "not_null_after_write", "not_null_on_old_rows", "partition_after_write"}

\* What a table without a sort order has in place of a column name.
Unsorted == "unsorted"

ASSUME BufferAssumption ==
    /\ Mixes \subseteq SUBSET Groups
    /\ Avoid \subseteq Uses
    /\ MaxCalls \in Nat /\ MaxSnapshots \in Nat
    /\ 0 \notin Tags /\ Unsorted \notin Names

VARIABLES
    table,    \* the rows of the table in the database
    head,     \* latest snapshot
    next_id,  \* next_catalog_id
    tx,       \* the transaction, or NoTx
    calls,    \* number of calls so far
    mix,      \* the groups of calls this behaviour uses
    staged,   \* ghost: what the last transaction showed when it committed, and
              \* the columns it had removed
    acked,    \* ghost: the writes of the transactions that have committed
    used      \* ghost: the column IDs these transactions have shown

vars == <<table, head, next_id, tx, calls, mix, staged, acked, used>>

-----------------------------------------------------------------------------
(* The private catalog: cols maps the IDs of all columns of the arena to   *)
(* their definition, gone are the ones no longer in by_id.                 *)
Types == {"int", "bigint", "struct"}
Column(parent, name, type, nullable) ==
    [parent |-> parent, name |-> name, type |-> type, nullable |-> nullable]
Merged(f, g) == [x \in DOMAIN f \union DOMAIN g |-> IF x \in DOMAIN g THEN g[x] ELSE f[x]]
Only(f, S) == [x \in DOMAIN f \intersect S |-> f[x]]
Empty == [x \in {} |-> x]

NoPart == [id |-> 0, cols |-> {}]
NoTx == [active |-> FALSE]
Active == tx.active

Present(cat) == DOMAIN cat.cols \ cat.gone
Roots(cat) == {c \in DOMAIN cat.cols : cat.cols[c].parent = 0}
Fields(cat, c) == {d \in DOMAIN cat.cols : cat.cols[d].parent = c}

\* root_columns and the fields of a struct keep the names of removed columns.
NameTaken(cat, parent, name) ==
    \E c \in DOMAIN cat.cols : cat.cols[c].parent = parent /\ cat.cols[c].name = name

Named(cat, parent, name) ==
    CHOOSE c \in DOMAIN cat.cols : cat.cols[c].parent = parent /\ cat.cols[c].name = name

\* mark_column_deleted: the column and the fields below it.
Subtree(cat, c) == {c} \union Fields(cat, c)

\* The columns of the schema: roots are looked up in by_id, the fields of a
\* struct are not, and those that were removed are listed (schema_dtype).
Listed(cat) ==
    {c \in DOMAIN cat.cols :
        IF cat.cols[c].parent = 0 THEN c \in Present(cat) ELSE cat.cols[c].parent \in Present(cat)}

\* What a caller, or the next transaction, sees of a catalog: schema, keys and
\* tags.
Shown(cat) ==
    [cols |-> Only(cat.cols, Listed(cat)),
     part |-> cat.part.cols,
     sort |-> cat.sort,
     tags |-> Only(cat.tags, Listed(cat) \union {0})]

\* The same without some columns.
Without(view, S) ==
    LET less(f) == Only(f, DOMAIN f \ S)
    IN [cols |-> less(view.cols), part |-> view.part, sort |-> view.sort, tags |-> less(view.tags)]

-----------------------------------------------------------------------------
(* Loading: Catalog::set_tables and CatalogColumns::from_ducklake.         *)
Ids(rows) == {r.id : r \in rows}
RowOf(rows, id) == CHOOSE r \in rows : r.id = id

LoadedColumns(t, s) ==
    LET rows == Visible(t.columns, s) IN
    [c \in Ids(rows) |-> LET r == RowOf(rows, c) IN Column(r.parent, r.name, r.type, r.nullable)]

\* The partition columns are found by the ID of the partitioning.
LoadedPart(t, s) ==
    LET infos == Visible(t.parts, s) IN
    IF infos = {} THEN NoPart
    ELSE LET p == CHOOSE p \in Ids(infos) : TRUE
         IN [id |-> p, cols |-> {k.col : k \in {q \in t.part_cols : q.id = p}}]

\* The sort order names its column.
LoadedSort(t, s) ==
    LET infos == Visible(t.sorts, s)
        cols == LoadedColumns(t, s)
    IN IF infos = {} THEN 0
       ELSE CHOOSE c \in DOMAIN cols \union {NULL} :
                \/ c # NULL /\ cols[c].parent = 0
                            /\ cols[c].name = (CHOOSE i \in infos : TRUE).name
                \/ c = NULL /\ \A d \in DOMAIN cols : cols[d].parent = 0 =>
                                   cols[d].name # (CHOOSE i \in infos : TRUE).name

LoadedTags(t, s) ==
    LET rows == Visible(t.tags, s) IN
    [o \in Ids(rows) |-> RowOf(rows, o).value]

Load(t, s) ==
    [cols |-> LoadedColumns(t, s), gone |-> {}, part |-> LoadedPart(t, s),
     sort |-> LoadedSort(t, s), tags |-> LoadedTags(t, s), next |-> 0]

\* ensure_next_column_id: looked up in the database when first needed.
NextColumnId(cat) ==
    IF cat.next # 0 THEN cat.next
    ELSE 1 + (CHOOSE m \in Ids(table.columns) : \A n \in Ids(table.columns) : n <= m)

-----------------------------------------------------------------------------
(* The calls.  A draft is the state of a transaction inside a call; a call *)
(* that fails leaves ok = FALSE behind.                                    *)
Change(op, key, val) == [op |-> op, key |-> key, val |-> val]
Draft == [ok |-> TRUE, cat |-> tx.cat, changes |-> tx.changes]
Failed(d) == [d EXCEPT !.ok = FALSE]
Push(d, cat, cs) == [d EXCEPT !.cat = cat, !.changes = @ \o cs]

\* Every update carries the full definition of the column.
UpdateColumn(d, c, def) ==
    LET cat == [d.cat EXCEPT !.cols[c] = def]
    IN Push(d, cat, <<Change("update", c, def)>>)

add_table_column(d, parent, name, type, nullable) ==
    LET id == NextColumnId(d.cat)
        new == IF type = "struct"
               THEN [c \in {id, id + 1} |->
                        IF c = id THEN Column(parent, name, type, nullable)
                        ELSE Column(id, "a", "int", TRUE)]
               ELSE [c \in {id} |-> Column(parent, name, type, nullable)]
        cat == [d.cat EXCEPT !.cols = Merged(@, new), !.next = id + Cardinality(DOMAIN new)]
    IN IF NameTaken(d.cat, parent, name) THEN Failed(d)
       ELSE Push(d, cat, <<Change("add", DOMAIN new, new)>>)

\* ColumnViewMut::remove
InUse(cat, c) == c \in cat.part.cols \/ c = cat.sort

remove_table_column(d, c) ==
    LET cat == [d.cat EXCEPT !.gone = @ \union Subtree(d.cat, c)]
        fields == SetToSeq(Fields(d.cat, c))
    IN IF InUse(d.cat, c) THEN Failed(d)
       ELSE Push(d, cat, [i \in 1 .. 1 + Len(fields) |->
                             Change("remove", IF i = 1 THEN c ELSE fields[i - 1], 0)])

SortName(cat) == IF cat.sort = 0 THEN Unsorted ELSE cat.cols[cat.sort].name

rename_table_column(d, c, name) ==
    LET def == [d.cat.cols[c] EXCEPT !.name = name]
        e == UpdateColumn(d, c, def)
    IN IF NameTaken(d.cat, def.parent, name) THEN Failed(d)
       ELSE IF d.cat.sort = c THEN Push(e, e.cat, <<Change("sort", 0, SortName(e.cat))>>)
       ELSE e

can_promote_to(type, target) == type = "int" /\ target = "bigint"

update_table_column_dtype(d, c, target) ==
    LET def == d.cat.cols[c] IN
    IF def.type = target THEN d
    ELSE IF can_promote_to(def.type, target) THEN UpdateColumn(d, c, [def EXCEPT !.type = target])
    ELSE Failed(d)

\* The statistics are the ones of the snapshot the transaction started from.
ContainsNull(c) == \E w \in table.data : c \in w.nulls

update_table_column_nullability(d, c, nullable) ==
    LET def == d.cat.cols[c] IN
    IF def.nullable = nullable THEN d
    ELSE IF ~ nullable /\ ContainsNull(c) THEN Failed(d)
    ELSE UpdateColumn(d, c, [def EXCEPT !.nullable = nullable])

\* The sorted merge of old and new names, at the top or below a struct: what
\* comes after a step that fails is not done.
Then(d, e) == IF d.ok THEN e ELSE d
NamesOf(cat, S) == {cat.cols[c].name : c \in S}

\* update_table_column_dtype_recursive on a struct; the old fields are the
\* ones of the arena.
merge_field(d, c, fields, old, n) ==
    IF n \in old /\ n \in DOMAIN fields
    THEN update_table_column_dtype(d, Named(d.cat, c, n), fields[n])
    ELSE IF n \in old THEN remove_table_column(d, Named(d.cat, c, n))
    ELSE IF n \in DOMAIN fields THEN add_table_column(d, c, n, fields[n], TRUE)
    ELSE d

update_struct(d, c, fields) ==
    LET old == NamesOf(d.cat, Fields(d.cat, c))
        step(e, n) == Then(e, merge_field(e, c, fields, old, n))
    IN step(step(step(d, "a"), "b"), "c")

\* update_table_schema; the default value is set whether it changes or not.
SetDefault(d, c) == UpdateColumn(d, c, d.cat.cols[c])

merge_column(d, columns, old, n) ==
    LET c == Named(d.cat, 0, n) IN
    IF n \in old /\ n \in DOMAIN columns
    THEN LET typed == update_table_column_dtype(d, c, columns[n].type)
         IN Then(typed, update_table_column_nullability(SetDefault(typed, c), c, columns[n].nullable))
    ELSE IF n \in old THEN remove_table_column(d, c)
    ELSE IF n \in DOMAIN columns THEN add_table_column(d, 0, n, columns[n].type, columns[n].nullable)
    ELSE d

update_table_schema(d, columns) ==
    LET old == NamesOf(d.cat, Roots(d.cat) \intersect Present(d.cat))
        step(e, n) == Then(e, merge_column(e, columns, old, n))
    IN step(step(step(d, "a"), "b"), "c")

\* TransactionGuard: a call that fails takes back everything it staged.
guard(before, d) == IF d.ok THEN d ELSE before

\* Mutant: the new partitioning takes the ID of the old one.
update_table_partitioningSameId(d, cols) ==
    Push(d, [d.cat EXCEPT !.part.cols = cols], <<Change("partition", 0, cols)>>)

update_table_partitioning(d, cols) ==
    Push(d, [d.cat EXCEPT !.part = [id |-> 0, cols |-> cols]], <<Change("partition", 0, cols)>>)

update_table_sort_info(d, c) ==
    LET cat == [d.cat EXCEPT !.sort = c]
    IN Push(d, cat, <<Change("sort", 0, SortName(cat))>>)

add_tag(d, o, value) ==
    Push(d, [d.cat EXCEPT !.tags = Merged(@, [x \in {o} |-> value])], <<Change("tag", o, value)>>)

remove_tag(d, o) ==
    IF o \notin DOMAIN d.cat.tags THEN Failed(d)
    ELSE Push(d, [d.cat EXCEPT !.tags = Only(@, DOMAIN @ \ {o})], <<Change("untag", o, 0)>>)

\* Mutant: the schema of the snapshot the transaction started from decides.
NullsAllowedBefore(cat, nulls) ==
    \A c \in nulls \intersect DOMAIN LoadedColumns(table, head) : LoadedColumns(table, head)[c].nullable

\* The statistics of the data must have no NULL where none is allowed.
NullsAllowed(cat, nulls) == \A c \in nulls : cat.cols[c].nullable

\* Partition values are kept when the table is partitioned and they are given.
\* The rows have the columns the table has by now.
write_table_data_files(d, w, nulls, given) ==
    LET part == IF given THEN d.cat.part.cols ELSE {}
    IN IF ~ NullsAllowed(d.cat, nulls) THEN Failed(d)
       ELSE Push(d, d.cat, <<Change("files", w, [nulls |-> nulls, part |-> part,
                                                  cols |-> DOMAIN d.cat.cols])>>)

write_table_inline_data(d, w, nulls) ==
    IF ~ NullsAllowed(d.cat, nulls) THEN Failed(d)
    ELSE Push(d, d.cat, <<Change("inline", 0, [nulls |-> nulls, write |-> w,
                                                 cols |-> DOMAIN d.cat.cols])>>)

create_table(d, cols, part, sort, tag) ==
    LET cat == [cols |-> cols, gone |-> {}, part |-> [id |-> 0, cols |-> part], sort |-> sort,
                tags |-> tag, next |-> 1 + Cardinality(DOMAIN cols)]
    IN Push(d, cat, <<Change("create", 0, [cols |-> cols, part |-> part,
                                           sort |-> SortName(cat), tags |-> tag])>>)

-----------------------------------------------------------------------------
(* ChangeSet::new: of the changes with equal keys the last one stays.      *)
\* Mutant: the file writes of a table are taken for one another.
HashableChangeByTable(c) == IF c.op = "files" THEN <<c.op, 0>> ELSE <<c.op, c.key>>

HashableChange(c) == <<c.op, c.key>>

\* Mutant: of the changes with equal keys the first one stays.
ChangeSetFirst(cs) ==
    {i \in DOMAIN cs : \A j \in DOMAIN cs : j < i => HashableChange(cs[j]) # HashableChange(cs[i])}

\* The positions of the changes that stay.
ChangeSet(cs) ==
    {i \in DOMAIN cs : \A j \in DOMAIN cs : i < j => HashableChange(cs[j]) # HashableChange(cs[i])}

(* The executors: a buffer holds the rows to retire and to insert.         *)
Versions(s, defs) ==
    {[id |-> c, parent |-> defs[c].parent, name |-> defs[c].name, type |-> defs[c].type,
      nullable |-> defs[c].nullable, begin |-> s, end |-> NULL] : c \in DOMAIN defs}

NoBuffer(cat) ==
    [columns |-> {}, retired |-> {}, parts |-> {}, part_cols |-> {}, repartitioned |-> FALSE,
     sorts |-> {}, resorted |-> FALSE, tags |-> {}, tag_changes |-> <<>>, data |-> {},
     part_id |-> cat.part.id, next_id |-> next_id]

Ended(rows, s) == {[r EXCEPT !.end = s] : r \in rows}

exec_add(b, s, c) == [b EXCEPT !.columns = @ \union Versions(s, c.val)]

exec_update(b, s, c) ==
    [b EXCEPT !.retired = @ \union {c.key},
              !.columns = {r \in @ : r.id # c.key} \union Versions(s, [x \in {c.key} |-> c.val])]

\* Mutant: a column added in this commit leaves no row behind.
exec_removeForget(b, s, c) ==
    [b EXCEPT !.retired = @ \union {c.key}, !.columns = {r \in @ : r.id # c.key}]

exec_remove(b, s, c) ==
    LET pending == {r \in b.columns : r.id = c.key}
    IN [b EXCEPT !.retired = @ \union {c.key}, !.columns = (@ \ pending) \union Ended(pending, s)]

\* CommitState::partition_id: one ID for the partitioning the table ends up with.
partition_id(b) == IF b.part_id # 0 THEN b.part_id ELSE b.next_id
WithPartitionId(b) ==
    IF b.part_id # 0 THEN b ELSE [b EXCEPT !.part_id = b.next_id, !.next_id = @ + 1]

create_partitioning(b, s, cols) ==
    LET p == partition_id(b) IN
    IF cols = {} THEN b
    ELSE [WithPartitionId(b) EXCEPT
             !.parts = @ \union {[id |-> p, begin |-> s, end |-> NULL]},
             !.part_cols = @ \union {[id |-> p, col |-> c] : c \in cols}]

exec_partition(b, s, c) ==
    create_partitioning([b EXCEPT !.repartitioned = TRUE, !.parts = Ended(@, s)], s, c.val)

\* Every sort order gets an ID of its own.
create_sort_info(b, s, name) ==
    IF name = Unsorted THEN b
    ELSE [b EXCEPT !.sorts = @ \union {[id |-> b.next_id, name |-> name, begin |-> s, end |-> NULL]},
                   !.next_id = @ + 1]

\* Mutant: the sort order given to create_table stays beside the new one.
exec_sortKeep(b, s, c) == create_sort_info([b EXCEPT !.resorted = TRUE], s, c.val)

exec_sort(b, s, c) ==
    create_sort_info([b EXCEPT !.resorted = TRUE, !.sorts = Ended(@, s)], s, c.val)

TagRows(s, tags) == {[id |-> o, value |-> tags[o], begin |-> s, end |-> NULL] : o \in DOMAIN tags}

exec_create(b, s, c) ==
    LET partitioned == create_partitioning(b, s, c.val.part)
        sorted == create_sort_info(partitioned, s, c.val.sort)
    IN [sorted EXCEPT !.columns = @ \union Versions(s, c.val.cols),
                      !.tags = @ \union TagRows(s, c.val.tags)]

exec_tag(b, c) == [b EXCEPT !.tag_changes = Append(@, c)]

exec_files(b, s, c) ==
    LET row == [write |-> c.key, kind |-> "files", nulls |-> c.val.nulls, cols |-> c.val.cols,
                values |-> c.val.part,
                part |-> IF c.val.part = {} THEN 0 ELSE partition_id(b)]
    IN [IF c.val.part = {} THEN b ELSE WithPartitionId(b) EXCEPT !.data = @ \union {row}]

exec_inline(b, s, c) ==
    [b EXCEPT !.data = @ \union {[write |-> c.val.write, kind |-> "inline", nulls |-> c.val.nulls,
                                  cols |-> c.val.cols, values |-> {}, part |-> 0]}]

\* Change::apply
apply(b, s, c) ==
    CASE c.op = "create" -> exec_create(b, s, c)
      [] c.op = "add" -> exec_add(b, s, c)
      [] c.op = "update" -> exec_update(b, s, c)
      [] c.op = "remove" -> exec_remove(b, s, c)
      [] c.op = "partition" -> exec_partition(b, s, c)
      [] c.op = "sort" -> exec_sort(b, s, c)
      [] c.op \in {"tag", "untag"} -> exec_tag(b, c)
      [] c.op = "files" -> exec_files(b, s, c)
      [] c.op = "inline" -> exec_inline(b, s, c)

\* ChangeSet::apply: the changes that stay, in their order.
apply_next(b, cs, s, i) == IF i \in ChangeSet(cs) THEN apply(b, s, cs[i]) ELSE b

Buffer(cs, s) ==
    LET b[i \in 0 .. Len(cs)] == IF i = 0 THEN NoBuffer(tx.cat) ELSE apply_next(b[i - 1], cs, s, i)
    IN b[Len(cs)]

-----------------------------------------------------------------------------
(* TransactionChanges::persist                                             *)
\* Mutant: rows that are no longer alive are retired again.
retire_rowsAgain(rows, hit, s) == (rows \ hit) \union Ended(hit, s)

retire_rows(rows, hit, s) ==
    LET retired == hit \intersect Live(rows) IN (rows \ retired) \union Ended(retired, s)

\* One edit at a time: each retires what is there and may insert a value.
persist_tag(rows, s, c) ==
    LET hit == {r \in rows : r.id = c.key}
        left == retire_rows(rows, hit, s)
    IN IF c.op = "tag" THEN left \union TagRows(s, [x \in {c.key} |-> c.val]) ELSE left

persist_tags(rows, s, changes) ==
    LET left[i \in 0 .. Len(changes)] == IF i = 0 THEN rows ELSE persist_tag(left[i - 1], s, changes[i])
    IN left[Len(changes)]

All(rows, flag) == IF flag THEN rows ELSE {}

persist(b, s) ==
    [columns |-> retire_rows(table.columns, {r \in table.columns : r.id \in b.retired}, s)
                   \union b.columns,
     parts |-> retire_rows(table.parts, All(table.parts, b.repartitioned), s) \union b.parts,
     part_cols |-> table.part_cols \union b.part_cols,
     sorts |-> retire_rows(table.sorts, All(table.sorts, b.resorted), s) \union b.sorts,
     tags |-> persist_tags(table.tags \union b.tags, s, b.tag_changes),
     data |-> table.data \union b.data]

\* The process stops: the definition of a struct is longer than the list of
\* the columns it updates, a partitioning is resolved that is gone by now, or
\* rows are inlined in a table that changes.
NeedsPart(c) ==
    \/ c.op = "create" /\ c.val.part # {}
    \/ c.op = "partition" /\ c.val # {}
    \/ c.op = "files" /\ c.val.part # {}
ChangesColumns(c) == c.op \in {"add", "update", "remove", "partition"}
Panics(cs) ==
    \/ \E c \in cs : c.op = "update" /\ c.val.type = "struct"
    \/ tx.cat.part.cols = {} /\ \E c \in cs : NeedsPart(c)
    \/ /\ \E c \in cs : c.op = "inline"
       /\ \E c \in cs : ChangesColumns(c)
       /\ ~ tx.created

-----------------------------------------------------------------------------
NoRows == [columns |-> {}, parts |-> {}, part_cols |-> {}, sorts |-> {}, tags |-> {}, data |-> {}]

\* An int column, or an int column and a struct.
Layouts ==
    LET a == Column(0, "a", "int", TRUE) IN
    {<<a>>, <<a, Column(0, "b", "struct", TRUE), Column(2, "a", "int", TRUE)>>}

Init ==
    /\ mix \in Mixes
    /\ calls = 0 /\ tx = NoTx
    /\ \/ table = NoRows /\ head = 0 /\ next_id = 1
       \/ \E cols \in Layouts :
             /\ table = [NoRows EXCEPT !.columns = Versions(1, cols)]
             /\ head = 1 /\ next_id = 2
    /\ staged = [shown |-> Shown(Load(table, head)), removed |-> {}]
    /\ acked = {} /\ used = Ids(table.columns)

\* Tables are not dropped here.
Exists == table.columns # {}

\* Ducklake::transaction
Begin ==
    /\ ~ Active
    /\ head < MaxSnapshots /\ calls < MaxCalls
    /\ tx' = [active |-> TRUE, cat |-> Load(table, head), changes |-> <<>>, created |-> FALSE]
    /\ UNCHANGED <<table, head, next_id, calls, mix, staged, acked, used>>

\* The table the transaction works on exists or was created by it.
Open == Active /\ (Exists \/ tx.created)
Call(group) == Open /\ group \in mix /\ calls < MaxCalls
Avoided(use, when) == use \in Avoid => ~ when

\* A call that fails leaves the transaction as it was.
Stage(d) ==
    /\ d.ok /\ d # Draft
    /\ tx' = [tx EXCEPT !.cat = d.cat, !.changes = d.changes]
    /\ calls' = calls + 1
    /\ UNCHANGED <<table, head, next_id, mix, staged, acked, used>>

\* A guarded call may fail halfway.
StageGuarded(d) ==
    LET e == guard(Draft, d) IN
    /\ tx' = [tx EXCEPT !.cat = e.cat, !.changes = e.changes]
    /\ calls' = calls + 1
    /\ UNCHANGED <<table, head, next_id, mix, staged, acked, used>>

Given(group, S) == IF group \in mix THEN S ELSE {}

CreateTable ==
    /\ Active /\ ~ Exists /\ ~ tx.created /\ calls < MaxCalls
    /\ \E cols \in Layouts, part \in {{}} \union Given("keys", {{1}}),
          sort \in {0} \union Given("keys", {1}),
          tag \in {Empty} \union Given("tags", {[x \in {0} |-> v] : v \in Tags}) :
          LET d == create_table(Draft, cols, part, sort, tag)
          IN tx' = [tx EXCEPT !.cat = d.cat, !.changes = d.changes, !.created = TRUE]
    /\ calls' = calls + 1
    /\ UNCHANGED <<table, head, next_id, mix, staged, acked, used>>

Addressable(c) == Avoided("removed_column", c \in tx.cat.gone)
Columns == {c \in DOMAIN tx.cat.cols : Addressable(c)}
RootColumns == Columns \intersect Roots(tx.cat)
NamesFor(parent) == IF parent = 0 THEN Names ELSE FieldNames

AddColumn ==
    /\ Call("columns")
    /\ \E n \in Names, type \in {"int", "struct"} : Stage(add_table_column(Draft, 0, n, type, TRUE))

RemoveColumn ==
    /\ Call("columns")
    /\ \E c \in Columns : Stage(remove_table_column(Draft, c))

RenameColumn ==
    /\ Call("columns")
    /\ \E c \in Columns : \E n \in NamesFor(tx.cat.cols[c].parent) :
          Stage(rename_table_column(Draft, c, n))

UpdateDtype ==
    /\ Call("columns")
    /\ \E c \in Columns : Stage(update_table_column_dtype(Draft, c, "bigint"))

StagedWrites ==
    {IF c.op = "files" THEN c.key ELSE c.val.write :
        c \in {x \in Range(tx.changes) : x.op \in {"files", "inline"}}}

\* Some committed rows were written before there was a column c.
OlderRows(c) == \E w \in table.data : c \notin w.cols

\* The statistics are looked up by the ID of the table, which a table that the
\* transaction created does not have yet.
UpdateNullability ==
    /\ Call("columns")
    /\ \E c \in Columns, nullable \in BOOLEAN :
          /\ ~ nullable =>
                /\ ~ tx.created
                /\ Avoided("not_null_after_write", StagedWrites # {})
                /\ Avoided("not_null_on_old_rows", OlderRows(c))
          /\ Stage(update_table_column_nullability(Draft, c, nullable))

UpdateNullabilityPanics ==
    /\ Call("columns") /\ tx.created
    /\ \E c \in Columns : tx.cat.cols[c].nullable
    /\ tx' = NoTx
    /\ UNCHANGED <<table, head, next_id, calls, mix, staged, acked, used>>

\* The new fields, and below the new columns, are of one type (bound).
UpdateStruct ==
    /\ Call("schema")
    /\ \E c \in Columns :
          /\ tx.cat.cols[c].type = "struct"
          /\ Fields(tx.cat, c) \subseteq Columns
          /\ \E names \in SUBSET FieldNames, type \in {"int", "bigint"} :
                StageGuarded(update_struct(Draft, c, [n \in names |-> type]))

\* One of these columns is new to the rows of the table.
AddsOrOlder(names) ==
    /\ table.data # {}
    /\ ~ names \subseteq NamesOf(tx.cat, {c \in RootColumns \intersect Present(tx.cat) : ~ OlderRows(c)})

UpdateSchema ==
    /\ Call("schema")
    /\ \E names \in SUBSET Names, nullable \in BOOLEAN, type \in {"int", "bigint"} :
          /\ ~ nullable =>
                /\ ~ tx.created
                /\ Avoided("not_null_after_write", StagedWrites # {})
                /\ Avoided("not_null_on_old_rows", AddsOrOlder(names))
          /\ StageGuarded(update_table_schema(Draft,
                [n \in names |-> [type |-> type, nullable |-> nullable]]))

StagedPart(op) == \E c \in Range(tx.changes) : c.op = op /\ c.val.part # {}

UpdatePartitioning ==
    /\ Call("keys")
    /\ Avoided("pending_partitioning", StagedPart("create"))
    /\ Avoided("partition_after_write", StagedPart("files"))
    /\ \E cols \in {{}} \union {{c} : c \in RootColumns} :
          Stage(update_table_partitioning(Draft, cols))

UpdateSortInfo ==
    /\ Call("keys")
    /\ \E c \in {0} \union RootColumns : Stage(update_table_sort_info(Draft, c))

EditTag ==
    /\ Call("tags")
    /\ \E o \in {0} \union Columns :
          \/ \E v \in Tags : Stage(add_tag(Draft, o, v))
          \/ Stage(remove_tag(Draft, o))

\* A write is known by the number of the call.
Write ==
    /\ Call("writes")
    /\ \E nulls \in {{}} \union {{c} : c \in RootColumns \intersect Present(tx.cat)} :
          \/ \E given \in BOOLEAN : Stage(write_table_data_files(Draft, calls + 1, nulls, given))
          \/ /\ Avoided("second_inline_write",
                        \E c \in Range(tx.changes) : c.op = "inline")
             /\ Stage(write_table_inline_data(Draft, calls + 1, nulls))

\* Transaction::commit and apply_changes
Commit ==
    LET s == head + 1
        b == Buffer(tx.changes, s)
    IN /\ Active /\ tx.changes # <<>>
       /\ ~ Panics({tx.changes[i] : i \in ChangeSet(tx.changes)})
       /\ table' = persist(b, s)
       /\ head' = s
       /\ next_id' = b.next_id
       /\ staged' = [shown |-> Shown(tx.cat), removed |-> tx.cat.gone]
       /\ acked' = acked \union StagedWrites
       /\ used' = used \union DOMAIN tx.cat.cols
       /\ tx' = NoTx
       /\ UNCHANGED <<calls, mix>>

\* A transaction that is dropped, or whose commit panics, leaves nothing.
Abandon ==
    /\ Active
    /\ tx' = NoTx
    /\ UNCHANGED <<table, head, next_id, calls, mix, staged, acked, used>>

Next ==
    \/ Begin \/ CreateTable \/ AddColumn \/ RemoveColumn \/ RenameColumn
    \/ UpdateDtype \/ UpdateNullability \/ UpdateNullabilityPanics
    \/ UpdateStruct \/ UpdateSchema \/ UpdatePartitioning \/ UpdateSortInfo
    \/ EditTag \/ Write \/ Commit \/ Abandon

Spec == Init /\ [][Next]_vars

-----------------------------------------------------------------------------
Interval == [begin : 1 .. head, end : {NULL} \union 1 .. head]
Times(rows) == \A r \in rows : [begin |-> r.begin, end |-> r.end] \in Interval

\* The rows of the table and the list of changes have the expected shape: no
\* row begins or ends in a snapshot that is not there yet.
TypeOK ==
    /\ head \in 0 .. MaxSnapshots /\ calls \in 0 .. MaxCalls
    /\ mix \in Mixes /\ next_id \in Nat /\ acked \subseteq 1 .. MaxCalls /\ used \subseteq Nat
    /\ \A r \in table.columns :
          /\ r.id \in Nat \ {0} /\ r.parent \in Nat
          /\ r.name \in Names /\ r.type \in Types /\ r.nullable \in BOOLEAN
    /\ Times(table.columns) /\ Times(table.parts) /\ Times(table.sorts) /\ Times(table.tags)
    /\ \A r \in table.parts \union table.sorts : r.id \in 1 .. next_id - 1
    /\ Active => tx.cat.gone \subseteq DOMAIN tx.cat.cols /\ Len(tx.changes) \in Nat

\* The table a transaction showed to its caller when it committed is the table
\* that is loaded from the database afterwards, less the fields the transaction
\* had removed from a struct, which its own schema went on listing:
\* deduplication, executors and persistence lose no change, keep their order
\* and add nothing.
CommittedIsStaged == Shown(Load(table, head)) = Without(staged.shown, staged.removed)

\* Every snapshot of the table can be loaded: a column has one definition and a
\* field has its struct, names are unique, there is at most one partitioning and one sort order, and the
\* columns they refer to exist (from_ducklake unwraps or fails otherwise).
EverySnapshotLoads ==
    \A s \in 0 .. head :
        LET rows == Visible(table.columns, s) IN
        /\ \A r, q \in rows : r.id = q.id => r = q
        /\ \A r \in rows : r.parent = 0 \/ r.parent \in Ids(rows)
        /\ \A r, q \in rows : r # q => <<r.parent, r.name>> # <<q.parent, q.name>>
        /\ Cardinality(Visible(table.parts, s)) <= 1
        /\ Cardinality(Visible(table.sorts, s)) <= 1
        /\ LoadedPart(table, s).cols \subseteq Ids(rows)
        /\ Visible(table.parts, s) # {} => LoadedPart(table, s).cols # {}
        /\ LoadedSort(table, s) # NULL

\* A column ID, which is the field ID in the data files, is never given to a
\* second column, not even when the first one was added and removed by one
\* transaction.
FieldIdsNotReused ==
    Active => DOMAIN tx.cat.cols \intersect used \subseteq DOMAIN LoadedColumns(table, head)

\* The data of every write of a committed transaction is in the database.
WritesArePersisted == acked \subseteq {w.write : w \in table.data}

\* A reader finds a NULL in column c: one that was written, or one that stands
\* for the column in rows older than it (generate_column).
HoldsNull(c) == \E w \in table.data : c \in w.nulls \/ c \notin w.cols

\* A column that allows no NULL holds none, whatever was written before and
\* after it was added or changed.
NotNullHolds ==
    \A c \in DOMAIN LoadedColumns(table, head) : ~ LoadedColumns(table, head)[c].nullable => ~ HoldsNull(c)

\* The partition values of a file belong to the columns of the partitioning the
\* file is registered with.
FilesMatchPartitioning ==
    \A w \in table.data : w.part # 0 =>
        w.values = {k.col : k \in {q \in table.part_cols : q.id = w.part}}

\* A commit does not change what earlier snapshots of the table look like.
HistoryIsKept == [][\A s \in 0 .. head : Shown(Load(table', s)) = Shown(Load(table, s))]_table

=============================================================================
