-------------------------- MODULE CommitRowsProofs --------------------------
(***************************************************************************)
(* The rows that commits leave behind, for any number of transactions and  *)
(* any menu of changes: the catalog of every retained snapshot is          *)
(* consistent, stays what it was, and is determined by its schema version. *)
(***************************************************************************)
EXTENDS CommitProtocolProofs

-----------------------------------------------------------------------------
(* The inductive invariant, on top of the one of CommitProtocolProofs.     *)

ObjectFields == {"kind", "id", "schema_id", "name", "begin", "end"}
ColumnFields == {"table", "column", "begin", "end"}
AttributeFields == {"table", "key", "column", "begin", "end"}
FileFields == {"id", "table", "begin", "end"}

\* A row begins and ends, if at all, with snapshots up to h.
Within(r, h) ==
    /\ r.begin \in Nat /\ r.begin <= h
    /\ r.end = NULL \/ (r.end \in Nat /\ r.end <= h)

Whole(rows, fields, h) == \A r \in rows : fields \subseteq DOMAIN r /\ Within(r, h)

RowsWhole ==
    /\ Whole(lake.objects, ObjectFields, HeadId)
    /\ Whole(lake.columns, ColumnFields, HeadId)
    /\ Whole(lake.attributes, AttributeFields, HeadId)
    /\ Whole(lake.files, FileFields, HeadId)
    /\ \A r \in lake.objects : r.kind = "schema" => r.schema_id = NoId

InlinedWhole == \A r \in lake.inlined : {"table", "begin", "end"} \subseteq DOMAIN r

\* Snapshot k separates schema versions: those before it have older ones.
Separates(k, S) ==
    \A q, r \in S : q.id < k /\ k <= r.id => q.schema_version < r.schema_version

\* Rows of the catalog begin and end where schema versions do.
SchemaDated(rows, S) ==
    \A r \in rows : Separates(r.begin, S) /\ (r.end # NULL => Separates(r.end, S))

VersionsOrdered ==
    /\ \A q, r \in snapshots : q.id <= r.id => q.schema_version <= r.schema_version
    /\ SchemaDated(lake.objects, snapshots)
    /\ SchemaDated(lake.columns, snapshots)
    /\ SchemaDated(lake.attributes, snapshots)

\* What the log says of the commits after snapshot s.
DroppedSince(kind, id, s) ==
    \E e \in log : e.id > s /\
        \E d \in e.changes : d.verb = "dropped" /\ d.kind = kind /\ d.id = id
CreatedSince(kind, schema, name, s) ==
    \E e \in log : e.id > s /\ Created(kind, schema, name) \in e.changes
AlteredSince(table, s) ==
    \E e \in log : e.id > s /\
        \E d \in e.changes : d.verb \in {"altered", "dropped"} /\ d.kind = "table" /\ d.id = table

Same(q, r) == q.kind = r.kind /\ q.id = r.id /\ q.schema_id = r.schema_id
KeysOf(attributes, table) ==
    {<<a.key, a.column>> : a \in {b \in attributes : b.table = table}}

\* The log explains how the head differs from snapshot s: what is missing was
\* dropped, what is new was created (or renamed), and a table that has other
\* columns or keys was altered.
KeptOrDropped(s) ==
    \A q \in Visible(lake.objects, s) :
        (\E r \in Live(lake.objects) : Same(q, r)) \/ DroppedSince(q.kind, q.id, s)
OldOrCreated(s) ==
    \A r \in Live(lake.objects) :
        \/ \E q \in Visible(lake.objects, s) : Same(q, r) /\ q.name = r.name
        \/ r.kind = "schema" /\ CreatedSince("schema", NoName, r.name, s)
        \/ /\ r.kind # "schema"
           /\ \E q \in Live(lake.objects) :
                 q.kind = "schema" /\ q.id = r.schema_id /\ CreatedSince(r.kind, q.name, r.name, s)
SameOrAltered(s) ==
    \A q \in Visible(lake.objects, s) : q.kind = "table" /\ ~ AlteredSince(q.id, s) =>
        /\ ColumnsOf(Live(lake.columns), q.id) = ColumnsOf(Visible(lake.columns, s), q.id)
        /\ KeysOf(Live(lake.attributes), q.id) = KeysOf(Visible(lake.attributes, s), q.id)

LogExplains == \A s \in Ids(snapshots) : KeptOrDropped(s) /\ OldOrCreated(s) /\ SameOrAltered(s)

\* A change the API can produce for a transaction with this catalog.
HasTable(cat, id) == \E r \in cat.objects : r.kind = "table" /\ r.id = id
AlterOps == {"add_column", "remove_column", "set", "unset"}

Sound(c, cat) ==
    /\ c.op \in {"create", "delete", "rename"} \union AlterOps \union WriteOps
    /\ c.op \in {"rename", "add_column", "remove_column"} \union WriteOps => c.kind = "table"
    /\ c.op = "create" => c.kind \in Kind /\ (c.kind = "schema" => c.schema = NoName)
    /\ c.op = "delete" => \E r \in cat.objects : r.kind = c.kind /\ r.id = c.id
    /\ c.op = "rename" => \E r \in cat.objects :
          r.kind = "table" /\ r.id = c.id /\ c.schema = SchemaName(cat, r.schema_id)
    /\ c.op \in AlterOps => HasTable(cat, c.id)
    /\ c.op = "set" /\ c.kind \in Indexed => c.n \in ColumnsOf(cat.columns, c.id)
    /\ c.op \in WriteOps => c.id = Pending \/ HasTable(cat, c.id)

\* What passed the conflict check drops no schema others have created in, and
\* creates nothing in a schema others have dropped.
SchemasChecked(t) ==
    pc[t] \in {"load", "attempt", "persist"} =>
        \A e \in log : base[t].id < e.id /\ e.id <= latest[t].id =>
            \A c \in applied_change_set(changes[t], latest[t]), d \in e.changes :
                ~ SchemaClash(c, d, Schemas(t)) /\ ~ SchemaClash(d, c, Schemas(t))

TxRows(t) ==
    /\ pc[t] \in {"open"} \union Committing => catalog[t] = CatalogAt(lake, base[t].id)
    /\ pc[t] \in Committing =>
          Accepted(changes[t], catalog[t]) /\ \A c \in changes[t] : Sound(c, catalog[t])
    /\ SchemasChecked(t)

RowInv ==
    /\ RowsWhole /\ InlinedWhole /\ VersionsOrdered
    /\ IdsNameOne(lake.objects) /\ UniqueNames /\ NoDanglingRows /\ LogExplains
    /\ \A t \in Tx : TxRows(t)

-----------------------------------------------------------------------------
(* Rows under a commit: live rows may end with snapshot k, and rows that   *)
(* begin with it are added.  Older snapshots show what they showed.        *)

After(r, k, hit) == IF r.end = NULL /\ r \in hit THEN [r EXCEPT !.end = k] ELSE r

(* Retiring a row changes its end only, and nothing before snapshot k.     *)
LEMMA AfterFacts ==
    ASSUME NEW r, NEW k \in Nat, NEW hit, {"begin", "end"} \subseteq DOMAIN r
    PROVE  /\ DOMAIN After(r, k, hit) = DOMAIN r
           /\ \A f \in DOMAIN r : f # "end" => After(r, k, hit)[f] = r[f]
           /\ After(r, k, hit).begin = r.begin
           /\ [After(r, k, hit) EXCEPT !.end = NULL] = [r EXCEPT !.end = NULL]
           /\ \A s \in Nat : s < k => (VisibleAt(After(r, k, hit), s) <=> VisibleAt(r, s))
           /\ After(r, k, hit).end = NULL => After(r, k, hit) = r
           /\ After(r, k, hit).end \in {r.end, k}
<1> DEFINE a == After(r, k, hit)
<1>1. CASE r.end = NULL /\ r \in hit
  <2>1. a = [r EXCEPT !.end = k]
    BY <1>1 DEF After
  <2>. HIDE DEF a
  <2>2. /\ DOMAIN a = DOMAIN r /\ \A f \in DOMAIN r : f # "end" => a[f] = r[f]
        /\ a.end = k /\ a.begin = r.begin
    BY <2>1
  <2>3. [a EXCEPT !.end = NULL] = [r EXCEPT !.end = NULL]
    BY <2>1, <2>2
  <2>4. \A s \in Nat : s < k => (VisibleAt(a, s) <=> VisibleAt(r, s))
    BY <1>1, <2>2 DEF VisibleAt
  <2>5. a.end # NULL
    BY <2>2 DEF NULL
  <2>. QED
    BY <2>2, <2>3, <2>4, <2>5 DEF a
<1>2. CASE ~ (r.end = NULL /\ r \in hit)
  BY <1>2 DEF After
<1>. QED
  BY <1>1, <1>2

Intervals(rows) == \A r \in rows : {"begin", "end"} \subseteq DOMAIN r
KeepsFields(q, r) == \A f \in DOMAIN r : f # "end" => q[f] = r[f]
\* The rows visible at s are those that were, some of them retired.
ShownAs(new, rows, s, k, hit) ==
    /\ \A q \in Visible(new, s) : \E r \in Visible(rows, s) : q = After(r, k, hit)
    /\ \A r \in Visible(rows, s) : After(r, k, hit) \in Visible(new, s)
    /\ \A r \in Visible(rows, s) : KeepsFields(After(r, k, hit), r)
    /\ AsOf(new, s) = AsOf(rows, s)

(* A reader of an older snapshot sees the rows it saw.                     *)
LEMMA PastRows ==
    ASSUME NEW rows, NEW k \in Nat, NEW hit, NEW added, NEW new,
           Intervals(rows),
           \A r \in added : r.begin = k,
           new = Retire(rows, k, hit) \union added,
           NEW s \in Nat, s < k
    PROVE  ShownAs(new, rows, s, k, hit)
<1>. USE DEF Intervals
<1>1. Retire(rows, k, hit) = {After(r, k, hit) : r \in rows}
  BY DEF Retire, After
<1>2. ASSUME NEW q \in Visible(new, s)
      PROVE  \E r \in Visible(rows, s) : q = After(r, k, hit)
  <2>1. q \in new /\ q.begin <= s /\ VisibleAt(q, s)
    BY DEF Visible, VisibleAt
  <2>2. q \notin added
    BY <2>1
  <2>3. PICK r \in rows : q = After(r, k, hit)
    BY <1>1, <2>1, <2>2
  <2>4. VisibleAt(r, s)
    BY <2>1, <2>3, AfterFacts
  <2>. QED
    BY <2>3, <2>4 DEF Visible
<1>3. ASSUME NEW r \in Visible(rows, s)
      PROVE  After(r, k, hit) \in Visible(new, s)
  <2>1. r \in rows /\ VisibleAt(r, s)
    BY DEF Visible
  <2>2. VisibleAt(After(r, k, hit), s)
    BY <2>1, AfterFacts
  <2>. QED
    BY <1>1, <2>1, <2>2 DEF Visible
<1>4. \A r \in Visible(rows, s) : [After(r, k, hit) EXCEPT !.end = NULL] = [r EXCEPT !.end = NULL]
  BY AfterFacts DEF Visible
<1>5. ASSUME NEW x \in AsOf(new, s) PROVE x \in AsOf(rows, s)
  <2>1. PICK q \in Visible(new, s) : x = [q EXCEPT !.end = NULL]
    BY DEF AsOf
  <2>2. PICK r \in Visible(rows, s) : q = After(r, k, hit)
    BY <1>2
  <2>3. x = [r EXCEPT !.end = NULL]
    BY <1>4, <2>1, <2>2
  <2>. QED
    BY <2>3 DEF AsOf
<1>6. ASSUME NEW x \in AsOf(rows, s) PROVE x \in AsOf(new, s)
  <2>1. PICK r \in Visible(rows, s) : x = [r EXCEPT !.end = NULL]
    BY DEF AsOf
  <2>2. x = [After(r, k, hit) EXCEPT !.end = NULL] /\ After(r, k, hit) \in Visible(new, s)
    BY <1>3, <1>4, <2>1
  <2>. QED
    BY <2>2 DEF AsOf
<1>7. \A r : KeepsFields(After(r, k, hit), r)
  BY DEF KeepsFields, After
<1>. QED
  BY <1>2, <1>3, <1>5, <1>6, <1>7 DEF ShownAs

\* Rows written for snapshot k.
WrittenFor(rows, fields, k) ==
    \A r \in rows : fields \subseteq DOMAIN r /\ r.begin = k /\ r.end = NULL

LivesOn(new, rows, hit, added) == Live(new) = (Live(rows) \ hit) \union added

(* The rows that are alive after a commit.                                 *)
LEMMA LiveRows ==
    ASSUME NEW rows, NEW k \in Nat, NEW hit, NEW added, NEW new, NEW fields,
           Intervals(rows),
           WrittenFor(added, fields, k),
           new = Retire(rows, k, hit) \union added
    PROVE  LivesOn(new, rows, hit, added)
<1>. USE DEF Intervals, WrittenFor
<1>1. Retire(rows, k, hit) = {After(r, k, hit) : r \in rows}
  BY DEF Retire, After
<1>2. ASSUME NEW q \in Live(new) PROVE q \in (Live(rows) \ hit) \union added
  <2>1. q \in new /\ q.end = NULL
    BY DEF Live
  <2>2. ASSUME NEW r \in rows, q = After(r, k, hit) PROVE q \in Live(rows) \ hit
    <3>1. q = r
      <4>1. "end" \in DOMAIN r /\ k \in Nat
        OBVIOUS
      <4>2. After(r, k, hit).end = NULL => After(r, k, hit) = r
        BY ONLY <4>1 DEF After, NULL
      <4>. QED
        BY <2>1, <2>2, <4>2
    <3>2. ~ (r.end = NULL /\ r \in hit)
      <4>1. CASE r.end = NULL /\ r \in hit
        <5>1. q = [r EXCEPT !.end = k]
          BY <2>2, <4>1 DEF After
        <5>2. q.end = k
          BY <5>1
        <5>. QED
          BY <2>1, <5>2 DEF NULL
      <4>. QED
        BY <4>1
    <3>. QED
      BY <2>1, <3>1, <3>2 DEF Live
  <2>. QED
    BY <1>1, <2>1, <2>2
<1>3. ASSUME NEW q \in Live(rows) \ hit PROVE q \in Live(new)
  <2>1. q \in rows /\ q.end = NULL /\ After(q, k, hit) = q
    BY DEF Live, After
  <2>. QED
    BY <1>1, <2>1 DEF Live
<1>4. added \subseteq Live(new)
  BY DEF Live
<1>. QED
  BY <1>2, <1>3, <1>4 DEF LivesOn

-----------------------------------------------------------------------------
(* The rows a commit retires and adds.                                     *)

HitObjects(objects, cs) == {r \in objects : dropped(cs, r) \/ renamed(cs, r)}
HitColumns(columns, cs) == {r \in columns : retires_column(cs, r)}
HitAttributes(attributes, cs) == {r \in attributes : retires_attribute(cs, r)}
HitFiles(files, cs) == {r \in files : dropped_table(cs, r.table)}

(* A table whose files are handed over is dropped.                         *)
LEMMA DetachedIsDropped ==
    ASSUME NEW cs, NEW table, detached_table(cs, table)
    PROVE  dropped_table(cs, table)
BY DEF detached_table, dropped_table, Targets, Ops

\* The copies persist_table_renames makes of the live rows it finds.
CopyOf(r, c, k) == [r EXCEPT !.name = c.name, !.begin = k, !.end = NULL]
Renames(c, r) == r.kind = "table" /\ r.id = c.id
Copies(objects, cs, k) ==
    UNION {{CopyOf(r, c, k) : c \in {d \in Ops(cs, "rename") : Renames(d, r)}} : r \in Live(objects)}

AddedColumns(cs, info) ==
    {[table |-> c.id, column |-> c.n, begin |-> info.id + 1, end |-> NULL] :
        c \in Ops(cs, "add_column")}
      \union {[table |-> catalog_id(cs, info, "table"), column |-> 1,
               begin |-> info.id + 1, end |-> NULL] :
                 c \in {d \in Ops(cs, "create") : d.kind = "table"}}
AddedAttributes(cs, info) ==
    {[table |-> c.id, key |-> c.kind,
      id |-> IF c.kind \in Indexed THEN catalog_id(cs, info, c.kind) ELSE NoId,
      column |-> c.n, begin |-> info.id + 1, end |-> NULL] : c \in Ops(cs, "set")}
AddedFiles(cs, info, sts) ==
    UNION {{[id |-> info.next_file_id + i,
             table |-> table_id(cs, info, c),
             row_id_start |-> StatsOf(sts, table_id(cs, info, c)).next_row_id + i,
             rows |-> 1,
             begin |-> info.id + 1,
             end |-> NULL] : i \in 0 .. c.n - 1} : c \in Ops(cs, "write_files")}

(* What persist_table_renames copies are the live rows of the renamed      *)
(* tables: no other row ends with the snapshot being written.              *)
LEMMA CopiesAreOfLiveRows ==
    ASSUME NEW objects, NEW cs, NEW k \in Nat,
           \A r \in objects : ObjectFields \subseteq DOMAIN r /\ r.end # k,
           \A c \in Ops(cs, "rename") : c.kind = "table"
    PROVE  renamed_copies(cs, k, Retire(objects, k, HitObjects(objects, cs))) = Copies(objects, cs, k)
<1> DEFINE hit == HitObjects(objects, cs)
           retired == Retire(objects, k, hit)
<1>1. retired = {After(r, k, hit) : r \in objects}
  BY DEF Retire, After
<1>2. k # NULL
  BY DEF NULL
<1>. HIDE DEF hit, retired
<1>3. ASSUME NEW r \in Live(objects), r \in hit
      PROVE  /\ After(r, k, hit) \in retired /\ After(r, k, hit).end = k
             /\ After(r, k, hit) = [r EXCEPT !.end = k]
  BY <1>1, <1>3 DEF Live, After, ObjectFields
<1>4. ASSUME NEW y \in retired, y.end = k
      PROVE  \E r \in Live(objects) : y = [r EXCEPT !.end = k] /\ r \in hit
  BY <1>1, <1>4 DEF Live, After
<1>5. ASSUME NEW r \in Live(objects), NEW c, NEW y, y = [r EXCEPT !.end = k]
      PROVE  CopyOf(y, c, k) = CopyOf(r, c, k) /\ (Renames(c, y) <=> Renames(c, r))
  BY <1>5 DEF Live, ObjectFields, CopyOf, Renames
<1>6. ASSUME NEW x
      PROVE  x \in renamed_copies(cs, k, retired) <=>
               \E y \in retired, c \in Ops(cs, "rename") :
                  Renames(c, y) /\ y.end = k /\ x = CopyOf(y, c, k)
  <2>1. renamed_copies(cs, k, retired) =
          {CopyOf(p[1], p[2], k) :
             p \in {q \in retired \X Ops(cs, "rename") : Renames(q[2], q[1]) /\ q[1].end = k}}
    BY Zenon DEF renamed_copies, CopyOf, Renames
  <2>2. ASSUME x \in renamed_copies(cs, k, retired)
        PROVE  \E y \in retired, c \in Ops(cs, "rename") :
                  Renames(c, y) /\ y.end = k /\ x = CopyOf(y, c, k)
    <3>1. PICK p \in retired \X Ops(cs, "rename") :
             Renames(p[2], p[1]) /\ p[1].end = k /\ x = CopyOf(p[1], p[2], k)
      BY Zenon, <2>1, <2>2
    <3>2. p[1] \in retired /\ p[2] \in Ops(cs, "rename")
      BY <3>1
    <3>. QED
      BY <3>1, <3>2
  <2>3. ASSUME NEW y \in retired, NEW c \in Ops(cs, "rename"),
               Renames(c, y), y.end = k, x = CopyOf(y, c, k)
        PROVE  x \in renamed_copies(cs, k, retired)
    <3> DEFINE p == <<y, c>>
    <3>1. p \in retired \X Ops(cs, "rename") /\ p[1] = y /\ p[2] = c
      OBVIOUS
    <3>. HIDE DEF p
    <3>2. Renames(p[2], p[1]) /\ p[1].end = k /\ x = CopyOf(p[1], p[2], k)
      BY <2>3, <3>1
    <3>. QED
      BY Zenon, <2>1, <3>1, <3>2
  <2>. QED
    BY <2>2, <2>3
<1>7. ASSUME NEW x
      PROVE  x \in Copies(objects, cs, k) <=>
               \E r \in Live(objects), c \in Ops(cs, "rename") : Renames(c, r) /\ x = CopyOf(r, c, k)
  BY DEF Copies
<1>8. ASSUME NEW r \in Live(objects), NEW c \in Ops(cs, "rename"), Renames(c, r)
      PROVE  r \in hit
  BY <1>8 DEF hit, HitObjects, Live, renamed, Targets, Renames, Ops
<1>9. ASSUME NEW x \in renamed_copies(cs, k, retired)
      PROVE  x \in Copies(objects, cs, k)
  <2>1. PICK y \in retired, c \in Ops(cs, "rename") : Renames(c, y) /\ y.end = k /\ x = CopyOf(y, c, k)
    BY <1>6
  <2>2. PICK r \in Live(objects) : y = [r EXCEPT !.end = k]
    BY <1>4, <2>1
  <2>. QED
    BY <1>5, <1>7, <2>1, <2>2
<1>10. ASSUME NEW x \in Copies(objects, cs, k)
       PROVE  x \in renamed_copies(cs, k, retired)
  <2>1. PICK r \in Live(objects), c \in Ops(cs, "rename") : Renames(c, r) /\ x = CopyOf(r, c, k)
    BY <1>7
  <2>2. /\ After(r, k, hit) \in retired /\ After(r, k, hit).end = k
        /\ After(r, k, hit) = [r EXCEPT !.end = k]
    BY <1>3, <1>8, <2>1
  <2>3. CopyOf(After(r, k, hit), c, k) = x /\ Renames(c, After(r, k, hit))
    BY <1>5, <2>1, <2>2
  <2>. QED
    BY <1>6, <2>2, <2>3
<1>. QED
  BY <1>9, <1>10 DEF hit, retired

AddedObjects(l, cs, info, cat) ==
    Copies(l.objects, cs, info.id + 1) \union new_objects(cs, info, cat)

\* The rows that retiring and adding leaves.
CommitOf(new, l, cs, info, cat, sts, k) ==
    /\ new.objects = Retire(l.objects, k, HitObjects(l.objects, cs))
                       \union AddedObjects(l, cs, info, cat)
    /\ new.columns = Retire(l.columns, k, HitColumns(l.columns, cs)) \union AddedColumns(cs, info)
    /\ new.attributes = Retire(l.attributes, k, HitAttributes(l.attributes, cs))
                          \union AddedAttributes(cs, info)
    /\ new.files = Retire(attached(l.files, cs), k, HitFiles(l.files, cs))
                     \union AddedFiles(cs, info, sts)
    /\ WrittenFor(AddedObjects(l, cs, info, cat), ObjectFields, k)
    /\ WrittenFor(AddedColumns(cs, info), ColumnFields, k)
    /\ WrittenFor(AddedAttributes(cs, info), AttributeFields, k)
    /\ WrittenFor(AddedFiles(cs, info, sts), FileFields, k)

NoneEndsAt(objects, k) == \A r \in objects : ObjectFields \subseteq DOMAIN r /\ r.end # k
RenamesTables(cs) == \A c \in Ops(cs, "rename") : c.kind = "table"

(* persist retires live rows and adds rows that begin with its snapshot.   *)
LEMMA PersistRetiresAndAdds ==
    ASSUME NEW l, NEW cs, NEW info \in Info, NEW cat, NEW sts, NEW k, k = info.id + 1,
           NoneEndsAt(l.objects, k), RenamesTables(cs),
           NEW new, new = persist(l, cs, info, cat, sts)
    PROVE  CommitOf(new, l, cs, info, cat, sts, k)
<1>. USE DEF NoneEndsAt, RenamesTables
<1>1. k \in Nat
  BY DEF Info
<1>2. new.objects = Retire(l.objects, k, HitObjects(l.objects, cs))
                      \union AddedObjects(l, cs, info, cat)
  <2>1. renamed_copies(cs, k, Retire(l.objects, k, HitObjects(l.objects, cs)))
          = Copies(l.objects, cs, k)
    BY <1>1, CopiesAreOfLiveRows
  <2>2. new.objects = persist_objects(l.objects, cs, info, cat)
    BY DEF persist
  <2>3. persist_objects(l.objects, cs, info, cat) =
          (Retire(l.objects, k, HitObjects(l.objects, cs))
             \union renamed_copies(cs, k, Retire(l.objects, k, HitObjects(l.objects, cs))))
          \union new_objects(cs, info, cat)
    BY DEF persist_objects, HitObjects
  <2>. QED
    BY <2>1, <2>2, <2>3 DEF AddedObjects
<1>3. new.columns = Retire(l.columns, k, HitColumns(l.columns, cs)) \union AddedColumns(cs, info)
  <2>1. new.columns = persist_columns(l.columns, cs, info)
    BY DEF persist
  <2>. QED
    BY <2>1 DEF persist_columns, HitColumns, AddedColumns
<1>4. new.attributes = Retire(l.attributes, k, HitAttributes(l.attributes, cs))
                         \union AddedAttributes(cs, info)
  <2>1. new.attributes = persist_attributes(l.attributes, cs, info)
    BY DEF persist
  <2>. QED
    BY <2>1 DEF persist_attributes, HitAttributes, AddedAttributes
<1>5. new.files = Retire(attached(l.files, cs), k, HitFiles(l.files, cs))
                    \union AddedFiles(cs, info, sts)
  <2>1. new.files = persist_files(l.files, cs, info, sts)
    BY DEF persist
  <2>. QED
    BY <2>1 DEF persist_files, HitFiles, AddedFiles
<1>6. WrittenFor(AddedObjects(l, cs, info, cat), ObjectFields, k)
  <2>1. ASSUME NEW r \in Copies(l.objects, cs, k)
        PROVE  ObjectFields \subseteq DOMAIN r /\ r.begin = k /\ r.end = NULL
    <3>1. PICK q \in Live(l.objects), c \in Ops(cs, "rename") : r = CopyOf(q, c, k)
      BY DEF Copies
    <3>2. ObjectFields \subseteq DOMAIN q
      BY DEF Live
    <3>. QED
      BY <3>1, <3>2 DEF CopyOf, ObjectFields
  <2>2. ASSUME NEW r \in new_objects(cs, info, cat)
        PROVE  ObjectFields \subseteq DOMAIN r /\ r.begin = k /\ r.end = NULL
    BY DEF new_objects, ObjectFields
  <2>. QED
    BY <2>1, <2>2 DEF AddedObjects, WrittenFor
<1>7. WrittenFor(AddedColumns(cs, info), ColumnFields, k)
  BY DEF AddedColumns, WrittenFor, ColumnFields
<1>8. WrittenFor(AddedAttributes(cs, info), AttributeFields, k)
  BY DEF AddedAttributes, WrittenFor, AttributeFields
<1>9. WrittenFor(AddedFiles(cs, info, sts), FileFields, k)
  BY DEF AddedFiles, WrittenFor, FileFields
<1>. QED
  BY <1>2, <1>3, <1>4, <1>5, <1>6, <1>7, <1>8, <1>9 DEF CommitOf

(* Writing data alone leaves the catalog as it is.                         *)
LEMMA WritesLeaveCatalog ==
    ASSUME NEW l, NEW cs, NEW info \in Info, NEW cat, ~ changes_schema(cs)
    PROVE  /\ HitObjects(l.objects, cs) = {} /\ HitColumns(l.columns, cs) = {}
           /\ HitAttributes(l.attributes, cs) = {}
           /\ AddedObjects(l, cs, info, cat) = {} /\ AddedColumns(cs, info) = {}
           /\ AddedAttributes(cs, info) = {}
<1>1. /\ Ops(cs, "create") = {} /\ Ops(cs, "delete") = {} /\ Ops(cs, "rename") = {}
      /\ Ops(cs, "add_column") = {} /\ Ops(cs, "remove_column") = {}
      /\ Ops(cs, "set") = {} /\ Ops(cs, "unset") = {}
  BY DEF changes_schema, WriteOps, Ops
<1>2. HitObjects(l.objects, cs) = {}
  BY <1>1 DEF HitObjects, dropped, renamed, Targets
<1>3. HitColumns(l.columns, cs) = {} /\ HitAttributes(l.attributes, cs) = {}
  BY <1>1 DEF HitColumns, HitAttributes, retires_column, retires_attribute, dropped_table, Targets
<1>4. Copies(l.objects, cs, info.id + 1) = {}
  BY <1>1 DEF Copies
<1>5. new_objects(cs, info, cat) = {} /\ AddedColumns(cs, info) = {} /\ AddedAttributes(cs, info) = {}
  BY <1>1 DEF new_objects, AddedColumns, AddedAttributes
<1>. QED
  BY <1>2, <1>3, <1>4, <1>5 DEF AddedObjects

\* A row after a commit is an old one, a retired one, or a new one.
OldOrNew(q, rows, k, hit, added) ==
    \/ q \in rows
    \/ \E r \in rows : /\ r.end = NULL /\ r \in hit /\ DOMAIN q = DOMAIN r /\ q.end = k
                       /\ \A f \in DOMAIN r : f # "end" => q[f] = r[f]
    \/ q \in added

(* Retiring and adding rows makes no others.                               *)
LEMMA RowsAfter ==
    ASSUME NEW rows, NEW k \in Nat, NEW hit, NEW added,
           \A r \in rows : {"begin", "end"} \subseteq DOMAIN r,
           NEW q \in Retire(rows, k, hit) \union added
    PROVE  OldOrNew(q, rows, k, hit, added)
<1>1. Retire(rows, k, hit) = {After(r, k, hit) : r \in rows}
  BY DEF Retire, After
<1>2. ASSUME NEW r \in rows, q = After(r, k, hit), r.end = NULL, r \in hit
      PROVE  DOMAIN q = DOMAIN r /\ q.end = k /\ \A f \in DOMAIN r : f # "end" => q[f] = r[f]
  <2>1. q = [r EXCEPT !.end = k]
    BY <1>2 DEF After
  <2>. QED
    BY <2>1
<1>3. ASSUME NEW r \in rows, q = After(r, k, hit), ~ (r.end = NULL /\ r \in hit)
      PROVE  q \in rows
  BY <1>3 DEF After
<1>. QED
  BY <1>1, <1>2, <1>3 DEF OldOrNew

(* Rows stay whole.                                                        *)
LEMMA WholeAfter ==
    ASSUME NEW rows, NEW h \in Nat, NEW hit, NEW added, NEW new, NEW fields,
           {"begin", "end"} \subseteq fields, Whole(rows, fields, h),
           WrittenFor(added, fields, h + 1), new = Retire(rows, h + 1, hit) \union added
    PROVE  Whole(new, fields, h + 1)
<1>1. ASSUME NEW q \in new PROVE fields \subseteq DOMAIN q /\ Within(q, h + 1)
  <2>1. CASE q \in rows
    BY <2>1 DEF Whole, Within
  <2>2. ASSUME NEW r \in rows, DOMAIN q = DOMAIN r, q.end = h + 1,
               \A f \in DOMAIN r : f # "end" => q[f] = r[f]
        PROVE  fields \subseteq DOMAIN q /\ Within(q, h + 1)
    <3>1. fields \subseteq DOMAIN r /\ r.begin \in Nat /\ r.begin <= h
      BY DEF Whole, Within
    <3>2. q.begin = r.begin
      BY <2>2, <3>1
    <3>. QED
      BY <2>2, <3>1, <3>2 DEF Within
  <2>3. CASE q \in added
    BY <2>3 DEF WrittenFor, Within
  <2>4. \A r \in rows : {"begin", "end"} \subseteq DOMAIN r
    BY DEF Whole
  <2>5. h + 1 \in Nat
    OBVIOUS
  <2>6. OldOrNew(q, rows, h + 1, hit, added)
    BY <2>4, <2>5, RowsAfter
  <2>. QED
    BY <2>1, <2>2, <2>3, <2>6 DEF OldOrNew
<1>. QED
  BY <1>1 DEF Whole

\* Snapshot n follows the snapshots S, of which h is the newest.
Follows(n, h, S) ==
    /\ h \in S /\ n.id = h.id + 1 /\ n.schema_version \in Nat
    /\ h.schema_version <= n.schema_version
    /\ \A s \in S : /\ s.id \in Nat /\ s.id <= h.id
                    /\ s.schema_version \in Nat /\ s.schema_version <= h.schema_version

\* Snapshot k retires the rows hit and adds others.
Rewritten(new, rows, fields, h, k, hit, added) ==
    /\ {"begin", "end"} \subseteq fields /\ Whole(rows, fields, h)
    /\ WrittenFor(added, fields, k) /\ new = Retire(rows, k, hit) \union added

\* It only does so if it has a schema version of its own.
Versioned(h, n, hit, added) == h.schema_version < n.schema_version \/ (hit = {} /\ added = {})

(* A commit that changes the catalog has a schema version of its own.      *)
LEMMA SchemaDatedAfter ==
    ASSUME NEW rows, NEW hit, NEW added, NEW new, NEW fields, NEW S, NEW h, NEW n, NEW k \in Nat,
           k = h.id + 1, Rewritten(new, rows, fields, h.id, k, hit, added),
           Follows(n, h, S), SchemaDated(rows, S), Versioned(h, n, hit, added)
    PROVE  SchemaDated(new, S \union {n})
<1>. USE DEF Rewritten, Versioned
<1>1. ASSUME NEW j \in Nat, j <= h.id, Separates(j, S)
      PROVE  Separates(j, S \union {n})
  BY <1>1 DEF Separates, Follows
<1>2. ASSUME h.schema_version < n.schema_version
      PROVE  Separates(k, S \union {n})
  BY <1>2 DEF Separates, Follows
<1>3. ASSUME NEW q \in rows
      PROVE  Separates(q.begin, S \union {n}) /\ (q.end # NULL => Separates(q.end, S \union {n}))
  <2>1. Within(q, h.id) /\ Separates(q.begin, S) /\ (q.end # NULL => Separates(q.end, S))
    BY DEF Whole, SchemaDated
  <2>. QED
    BY <1>1, <2>1 DEF Within
<1>4. \A r \in rows : {"begin", "end"} \subseteq DOMAIN r
  BY DEF Whole
<1>5. ASSUME NEW q \in new
      PROVE  Separates(q.begin, S \union {n}) /\ (q.end # NULL => Separates(q.end, S \union {n}))
  <2>1. CASE q \in rows
    BY <1>3, <2>1
  <2>2. ASSUME NEW r \in rows, r \in hit, DOMAIN q = DOMAIN r, q.end = k,
               \A f \in DOMAIN r : f # "end" => q[f] = r[f]
        PROVE  Separates(q.begin, S \union {n}) /\ Separates(q.end, S \union {n})
    <3>1. q.begin = r.begin
      BY <1>4, <2>2
    <3>. QED
      BY <1>2, <1>3, <2>2, <3>1
  <2>3. CASE q \in added
    BY <1>2, <2>3 DEF WrittenFor
  <2>4. OldOrNew(q, rows, k, hit, added)
    BY <1>4, RowsAfter
  <2>. QED
    BY <2>1, <2>2, <2>3, <2>4 DEF OldOrNew
<1>. QED
  BY <1>5 DEF SchemaDated

-----------------------------------------------------------------------------
(* The live objects after a commit.  cat is the catalog the transaction    *)
(* holds, L the objects alive when it commits.                             *)

Comparable(j, k) == j = k \/ {j, k} \subseteq Relation
SameName(q, r) == q.schema_id = r.schema_id /\ q.name = r.name
Alike(q, r) == Same(q, r) /\ q.name = r.name

WholeObjects(S, info) ==
    /\ \A r \in S : /\ ObjectFields \subseteq DOMAIN r /\ KnownId(r.id, info)
                    /\ r.kind = "schema" => r.schema_id = NoId
    /\ NamesDiffer(S)
    /\ \A r \in S : r.kind # "schema" => \E s \in S : s.kind = "schema" /\ s.id = r.schema_id

\* What the conflict check leaves of the differences between cat and L.
SchemasAgree(cat, L, cs) ==
    /\ \A c \in Ops(cs, "create"), s \in cat.objects :
          c.kind # "schema" /\ s.kind = "schema" /\ s.name = c.schema => \E r \in L : Same(s, r)
    /\ \A c \in Ops(cs, "delete"), r \in L :
          c.kind = "schema" /\ r.kind # "schema" /\ r.schema_id = c.id =>
              \E q \in cat.objects : Alike(q, r)
    /\ \A c \in Ops(cs, "create"), r \in L :
          c.kind = "schema" /\ r.kind = "schema" /\ r.name = c.name =>
              \E q \in cat.objects : Alike(q, r)
NamesAgree(cat, L, cs) ==
    \A c \in Ops(cs, "create") \union Ops(cs, "rename"), r \in L, s \in L :
        /\ c.kind # "schema" /\ r.kind # "schema" /\ Comparable(c.kind, r.kind) /\ r.name = c.name
        /\ s.kind = "schema" /\ s.id = r.schema_id /\ s.name = c.schema
        => \E q \in cat.objects : Alike(q, r)
TablesAgree(cat, L, cs) ==
    \A c \in cs, q \in cat.objects :
        /\ c.op \in AlterOps \/ (c.op \in WriteOps /\ c.id # Pending)
        /\ q.kind = "table" /\ q.id = c.id
        => \E r \in L : Same(q, r)

Agrees(cat, L, cs, info) ==
    /\ WholeObjects(L, info) /\ WholeObjects(cat.objects, info)
    /\ IdsNameOne(L \union cat.objects)
    /\ SchemasAgree(cat, L, cs) /\ NamesAgree(cat, L, cs) /\ TablesAgree(cat, L, cs)

ProperChanges(cs, cat, info) ==
    Accepted(cs, cat) /\ (\A c \in cs : Sound(c, cat)) /\ KnownChanges(cs, info)

\* The three sorts of live objects after a commit.
IsKept(x, L, cs) == x \in L /\ ~ dropped(cs, x) /\ ~ renamed(cs, x)
IsCopy(x, r, c, L, cs, info) ==
    /\ r \in L /\ c \in Ops(cs, "rename") /\ Renames(c, r)
    /\ Same(x, r) /\ x.name = c.name /\ x = CopyOf(r, c, info.id + 1)
NewObject(c, cs, info, cat) ==
    [kind |-> c.kind,
     id |-> catalog_id(cs, info, c.kind),
     schema_id |-> IF c.kind = "schema" THEN NoId ELSE schema_id(cs, info, cat, c.schema),
     name |-> c.name,
     begin |-> info.id + 1,
     end |-> NULL]
IsNew(x, c, cs, info, cat) ==
    /\ c \in Ops(cs, "create")
    /\ x.kind = c.kind /\ x.id = catalog_id(cs, info, c.kind) /\ x.name = c.name
    /\ x.schema_id = IF c.kind = "schema" THEN NoId ELSE schema_id(cs, info, cat, c.schema)
    /\ x = NewObject(c, cs, info, cat)

\* N is made of exactly these.
MadeOf(N, L, cs, info, cat) ==
    /\ \A x \in N : \/ IsKept(x, L, cs)
                    \/ \E r, c : IsCopy(x, r, c, L, cs, info)
                    \/ \E c : IsNew(x, c, cs, info, cat)
    /\ \A x : IsKept(x, L, cs) => x \in N
    /\ \A r \in L, c \in Ops(cs, "rename") : Renames(c, r) => \E x \in N : IsCopy(x, r, c, L, cs, info)
    /\ \A c \in Ops(cs, "create") : \E x \in N : IsNew(x, c, cs, info, cat)

(* Distinct kinds get distinct IDs (CommitState).                          *)
LEMMA CatalogIdsDiffer ==
    ASSUME NEW cs, NEW info \in Info, NEW j \in CreatedKinds(cs), NEW k \in CreatedKinds(cs),
           \A c \in cs : c.op = "create" => c.kind \in Kind,
           j # k
    PROVE  catalog_id(cs, info, j) # catalog_id(cs, info, k)
<1>1. IsFiniteSet(Numbered(cs))
  BY NumberedFinite
<1>2. /\ j \in Numbered(cs) /\ j \in Kind /\ k \in Numbered(cs) /\ k \in Kind
  BY DEF Numbered, CreatedKinds, Ops
<1>3. Rank[j] # Rank[k] /\ \A i \in Numbered(cs) : Rank[i] \in Nat
  <2>1. Numbered(cs) \subseteq Kind \union Indexed
    BY DEF Numbered, CreatedKinds, Ops
  <2>. QED
    BY <1>2, <2>1 DEF Kind, Relation, Macro, Indexed, Rank
<1>4. ASSUME NEW a \in Numbered(cs), NEW b \in Numbered(cs), Rank[a] < Rank[b]
      PROVE  catalog_id(cs, info, a) # catalog_id(cs, info, b)
  <2> DEFINE lo == {i \in Numbered(cs) : Rank[i] < Rank[a]}
             hi == {i \in Numbered(cs) : Rank[i] < Rank[b]}
  <2>1. lo \in SUBSET hi /\ lo # hi
    BY <1>3, <1>4
  <2>2. hi \in SUBSET Numbered(cs)
    OBVIOUS
  <2>3. /\ catalog_id(cs, info, a) = info.next_catalog_id + Cardinality(lo)
        /\ catalog_id(cs, info, b) = info.next_catalog_id + Cardinality(hi)
        /\ info.next_catalog_id \in Nat
    BY DEF catalog_id, Info
  <2>. HIDE DEF lo, hi
  <2>4. IsFiniteSet(hi)
    BY <1>1, <2>2, FS_Subset
  <2>5. IsFiniteSet(lo) /\ Cardinality(lo) <= Cardinality(hi) /\ (Cardinality(hi) = Cardinality(lo) => hi = lo)
    BY <2>1, <2>4, FS_Subset
  <2>6. Cardinality(lo) \in Nat /\ Cardinality(hi) \in Nat
    BY <2>4, <2>5, FS_CardinalityType
  <2>. QED
    BY <2>1, <2>3, <2>5, <2>6
<1>. QED
  BY <1>2, <1>3, <1>4

(* A created object gets an ID no other object has.                        *)
LEMMA NewIds ==
    ASSUME NEW cs, NEW info \in Info, NEW cat, ProperChanges(cs, cat, info),
           NEW c \in Ops(cs, "create")
    PROVE  /\ c.kind \in CreatedKinds(cs)
           /\ catalog_id(cs, info, c.kind) \in Int
           /\ catalog_id(cs, info, c.kind) >= info.next_catalog_id
           /\ ~ KnownId(catalog_id(cs, info, c.kind), info)
           /\ \A d \in Ops(cs, "create") : c # d =>
                 c.kind # d.kind /\ catalog_id(cs, info, c.kind) # catalog_id(cs, info, d.kind)
<1>1. \A d \in cs : d.op = "create" => d.kind \in Kind
  BY DEF ProperChanges, KnownChanges, KnownChange
<1>2. \A d \in Ops(cs, "create") : d.kind \in CreatedKinds(cs) /\ d \in cs /\ d.op = "create"
  BY DEF CreatedKinds, Ops
<1>3. /\ catalog_id(cs, info, c.kind) \in Int
      /\ catalog_id(cs, info, c.kind) >= info.next_catalog_id
  BY <1>1, <1>2, CatalogIdBelowNext
<1>4. ASSUME NEW d \in Ops(cs, "create"), c # d
      PROVE  c.kind # d.kind
  BY <1>2, <1>4 DEF ProperChanges, Accepted
<1>. QED
  BY <1>1, <1>2, <1>3, <1>4, CatalogIdsDiffer DEF KnownId, Info

(* Schema names are unique in a catalog, so lookups by ID and by name are  *)
(* inverses of each other.                                                 *)
LEMMA SchemaLookup ==
    ASSUME NEW cat, NEW info, WholeObjects(cat.objects, info),
           NEW s \in cat.objects, s.kind = "schema"
    PROVE  /\ SchemaName(cat, s.id) = s.name
           /\ (CHOOSE x \in cat.objects : x.kind = "schema" /\ x.name = s.name) = s
           /\ \A q \in cat.objects : q.kind = "schema" /\ (q.name = s.name \/ q.id = s.id) => q = s
<1>1. ASSUME NEW q \in cat.objects, q.kind = "schema", q.name = s.name \/ q.id = s.id
      PROVE  q = s
  BY <1>1 DEF WholeObjects, NamesDiffer
<1>2. (CHOOSE x \in cat.objects : x.kind = "schema" /\ x.name = s.name) = s
  <2> DEFINE P(x) == x.kind = "schema" /\ x.name = s.name
  <2>1. (CHOOSE x \in cat.objects : P(x)) \in cat.objects /\ P(CHOOSE x \in cat.objects : P(x))
    <3>1. \E x \in cat.objects : P(x)
      OBVIOUS
    <3>. HIDE DEF P
    <3>. QED
      BY Zenon, <3>1
  <2>. QED
    BY <1>1, <2>1
<1>3. (CHOOSE x \in Objects(cat, {"schema"}) : x.id = s.id) = s
  <2> DEFINE P(x) == x.id = s.id
             O == Objects(cat, {"schema"})
  <2>1. (CHOOSE x \in O : P(x)) \in O /\ P(CHOOSE x \in O : P(x))
    <3>1. \E x \in O : P(x)
      BY DEF Objects
    <3>. HIDE DEF P, O
    <3>. QED
      BY Zenon, <3>1
  <2>2. (CHOOSE x \in O : P(x)) \in cat.objects /\ (CHOOSE x \in O : P(x)).kind = "schema"
    BY <2>1 DEF Objects
  <2>. QED
    BY <1>1, <2>1, <2>2
<1>. QED
  BY <1>1, <1>2, <1>3 DEF SchemaName

(* Dropping and renaming go by kind and ID.                                *)
LEMMA DropsById ==
    ASSUME NEW cs, NEW q, NEW r, q.kind = r.kind, q.id = r.id
    PROVE  (dropped(cs, q) <=> dropped(cs, r)) /\ (renamed(cs, q) <=> renamed(cs, r))
BY DEF dropped, renamed

(* The schema an object is created in: one of the same change set, or one  *)
(* of the catalog that the set does not drop.                              *)
LEMMA NewSchemaId ==
    ASSUME NEW cs, NEW info \in Info, NEW cat, ProperChanges(cs, cat, info),
           WholeObjects(cat.objects, info),
           NEW c \in Ops(cs, "create"), c.kind # "schema"
    PROVE  \/ \E d \in Ops(cs, "create") :
                 /\ d.kind = "schema" /\ d.name = c.schema
                 /\ schema_id(cs, info, cat, c.schema) = catalog_id(cs, info, "schema")
           \/ \E s \in cat.objects :
                 /\ s.kind = "schema" /\ s.name = c.schema /\ ~ dropped(cs, s)
                 /\ schema_id(cs, info, cat, c.schema) = s.id
<1>1. CASE \E d \in Ops(cs, "create") : d.kind = "schema" /\ d.name = c.schema
  BY <1>1 DEF schema_id
<1>2. CASE ~ \E d \in Ops(cs, "create") : d.kind = "schema" /\ d.name = c.schema
  <2>1. SchemaExists(cs, cat, c.schema)
    BY DEF ProperChanges, Accepted
  <2>2. PICK s \in cat.objects : s.kind = "schema" /\ s.name = c.schema /\ ~ dropped(cs, s)
    BY <1>2, <2>1 DEF SchemaExists, Objects, Deleted
  <2>3. (CHOOSE x \in cat.objects : x.kind = "schema" /\ x.name = s.name) = s
    BY <2>2, SchemaLookup
  <2>4. schema_id(cs, info, cat, c.schema) = s.id
    BY <1>2, <2>2, <2>3 DEF schema_id
  <2>. QED
    BY <2>2, <2>4
<1>. QED
  BY <1>1, <1>2

(* A change set that passed the check drops no schema with live objects it *)
(* does not drop.                                                          *)
LEMMA SchemaStays ==
    ASSUME NEW cs, NEW info \in Info, NEW cat, NEW L, ProperChanges(cs, cat, info),
           Agrees(cat, L, cs, info),
           NEW r \in L, r.kind # "schema", ~ dropped(cs, r),
           NEW s \in L, s.kind = "schema", s.id = r.schema_id
    PROVE  IsKept(s, L, cs)
<1>1. ASSUME dropped(cs, s) PROVE FALSE
  <2>1. PICK c \in Ops(cs, "delete") : c.kind = "schema" /\ c.id = s.id
    BY <1>1 DEF dropped
  <2>2. PICK q \in cat.objects : Alike(q, r)
    BY <2>1 DEF Agrees, SchemasAgree
  <2>3. SchemaEmpty(cs, cat, c.id)
    BY <2>1 DEF ProperChanges, Accepted
  <2>4. dropped(cs, q)
    BY <2>1, <2>2, <2>3 DEF SchemaEmpty, Alike, Same, Deleted
  <2>. QED
    BY <2>2, <2>4, DropsById DEF Alike, Same
<1>2. ~ renamed(cs, s)
  BY DEF renamed
<1>. QED
  BY <1>1, <1>2 DEF IsKept

(* A renamed table is not dropped, and its schema is the one the change    *)
(* names.                                                                  *)
LEMMA RenamedTable ==
    ASSUME NEW cs, NEW info \in Info, NEW cat, NEW L, ProperChanges(cs, cat, info),
           Agrees(cat, L, cs, info),
           NEW r \in L, NEW c \in Ops(cs, "rename"), Renames(c, r)
    PROVE  /\ c.kind = "table" /\ ~ dropped(cs, r)
           /\ \E s \in L : IsKept(s, L, cs) /\ s.kind = "schema" /\ s.id = r.schema_id /\ s.name = c.schema
           /\ \E s \in cat.objects : s.kind = "schema" /\ s.id = r.schema_id /\ s.name = c.schema
<1>1. c \in cs /\ c.op = "rename" /\ Sound(c, cat)
  BY DEF ProperChanges, Ops
<1>2. c.kind = "table" /\ r.kind = "table" /\ r.id = c.id
  BY <1>1 DEF Sound, Renames
<1>3. ASSUME dropped(cs, r) PROVE FALSE
  <2>1. PICK d \in Ops(cs, "delete") : d.kind = "table" /\ d.id = c.id
    BY <1>2, <1>3 DEF dropped
  <2>2. d # c
    BY <1>1 DEF Ops
  <2>. QED
    BY <1>1, <1>2, <2>1, <2>2 DEF ProperChanges, Accepted, Affects
<1>4. PICK q \in cat.objects :
         q.kind = "table" /\ q.id = c.id /\ c.schema = SchemaName(cat, q.schema_id)
  BY <1>1 DEF Sound
<1>5. q.schema_id = r.schema_id
  BY <1>2, <1>4 DEF Agrees, IdsNameOne
<1>6. PICK z \in cat.objects : z.kind = "schema" /\ z.id = r.schema_id
  BY <1>4, <1>5 DEF Agrees, WholeObjects
<1>7. z.name = c.schema
  BY <1>4, <1>5, <1>6, SchemaLookup DEF Agrees
<1>8. PICK s \in L : s.kind = "schema" /\ s.id = r.schema_id
  BY <1>2 DEF Agrees, WholeObjects
<1>9. s.name = z.name
  BY <1>6, <1>8 DEF Agrees, IdsNameOne
<1>10. IsKept(s, L, cs)
  BY <1>2, <1>3, <1>8, SchemaStays
<1>. QED
  BY <1>2, <1>3, <1>6, <1>7, <1>8, <1>9, <1>10

(* An object is created in a schema that is alive.                         *)
LEMMA NewObjectSchema ==
    ASSUME NEW cs, NEW info \in Info, NEW cat, NEW L, NEW N, ProperChanges(cs, cat, info),
           Agrees(cat, L, cs, info), MadeOf(N, L, cs, info, cat),
           NEW c \in Ops(cs, "create"), c.kind # "schema"
    PROVE  \E s \in N : /\ s.kind = "schema" /\ s.name = c.schema
                        /\ s.id = schema_id(cs, info, cat, c.schema)
<1>1. WholeObjects(cat.objects, info)
  BY DEF Agrees
<1>2. CASE \E d \in Ops(cs, "create") :
              /\ d.kind = "schema" /\ d.name = c.schema
              /\ schema_id(cs, info, cat, c.schema) = catalog_id(cs, info, "schema")
  BY <1>2 DEF MadeOf, IsNew
<1>3. ASSUME NEW s \in cat.objects, s.kind = "schema", s.name = c.schema, ~ dropped(cs, s),
             schema_id(cs, info, cat, c.schema) = s.id
      PROVE  \E z \in N : /\ z.kind = "schema" /\ z.name = c.schema
                          /\ z.id = schema_id(cs, info, cat, c.schema)
  <2>1. PICK r \in L : Same(s, r)
    BY <1>3 DEF Agrees, SchemasAgree
  <2>2. r.name = s.name
    BY <1>3, <2>1 DEF Agrees, IdsNameOne, Same
  <2>3. ~ dropped(cs, r) /\ ~ renamed(cs, r)
    BY <1>3, <2>1, DropsById DEF Same, renamed
  <2>4. r \in N
    BY <2>3 DEF MadeOf, IsKept
  <2>. QED
    BY <1>3, <2>1, <2>2, <2>4 DEF Same
<1>. QED
  BY <1>1, <1>2, <1>3, NewSchemaId

(* Nothing is left without a schema.                                       *)
LEMMA SchemasAfter ==
    ASSUME NEW cs, NEW info \in Info, NEW cat, NEW L, NEW N, ProperChanges(cs, cat, info),
           Agrees(cat, L, cs, info), MadeOf(N, L, cs, info, cat),
           NEW x \in N, x.kind # "schema"
    PROVE  \E s \in N : s.kind = "schema" /\ s.id = x.schema_id
<1>1. CASE IsKept(x, L, cs)
  <2>1. PICK s \in L : s.kind = "schema" /\ s.id = x.schema_id
    BY <1>1 DEF Agrees, WholeObjects, IsKept
  <2>2. IsKept(s, L, cs)
    BY <1>1, <2>1, SchemaStays DEF IsKept
  <2>. QED
    BY <2>1, <2>2 DEF MadeOf
<1>2. ASSUME NEW r, NEW c, IsCopy(x, r, c, L, cs, info)
      PROVE  \E s \in N : s.kind = "schema" /\ s.id = x.schema_id
  <2>1. PICK s \in L : IsKept(s, L, cs) /\ s.kind = "schema" /\ s.id = r.schema_id
    BY <1>2, RenamedTable DEF IsCopy
  <2>. QED
    BY <1>2, <2>1 DEF MadeOf, IsCopy, Same
<1>3. ASSUME NEW c, IsNew(x, c, cs, info, cat)
      PROVE  \E s \in N : s.kind = "schema" /\ s.id = x.schema_id
  <2>1. c \in Ops(cs, "create") /\ c.kind # "schema" /\ x.schema_id = schema_id(cs, info, cat, c.schema)
    BY <1>3 DEF IsNew
  <2>. QED
    BY <2>1, NewObjectSchema
<1>. QED
  BY <1>1, <1>2, <1>3 DEF MadeOf

Apart(q, r) == ~ SameName(q, r) /\ q.id # r.id

(* A name that a change takes belongs to no live object that stays.        *)
LEMMA NameWasFree ==
    ASSUME NEW cs, NEW info \in Info, NEW cat, NEW L, ProperChanges(cs, cat, info),
           Agrees(cat, L, cs, info),
           NEW c \in Ops(cs, "create") \union Ops(cs, "rename"), c.kind # "schema",
           NEW s \in cat.objects, s.kind = "schema", s.name = c.schema,
           NEW x, IsKept(x, L, cs), Comparable(c.kind, x.kind), x.schema_id = s.id
    PROVE  x.name # c.name
<1> SUFFICES ASSUME x.name = c.name PROVE FALSE
  OBVIOUS
<1>1. x \in L /\ x.kind # "schema"
  BY DEF IsKept, Comparable, Relation
<1>2. PICK z \in L : z.kind = "schema" /\ z.id = x.schema_id
  BY <1>1 DEF Agrees, WholeObjects
<1>3. z.name = c.schema
  BY <1>2 DEF Agrees, IdsNameOne
<1>4. PICK q \in cat.objects : Alike(q, x)
  BY <1>1, <1>2, <1>3 DEF Agrees, NamesAgree
<1>5. q.kind \in Namespace(c.kind)
  BY <1>4 DEF Alike, Same, Comparable, Namespace, Relation
<1>6. SchemaName(cat, q.schema_id) = c.schema
  BY <1>4, SchemaLookup DEF Alike, Same, Agrees
<1>7. NameFree(cs, cat, c)
  BY DEF ProperChanges, Accepted
<1>8. Gone(cs, q)
  BY <1>4, <1>5, <1>6, <1>7 DEF NameFree, Objects, Alike, Same
<1>. QED
  BY <1>4, <1>8, DropsById DEF Gone, Alike, Same, IsKept

(* Kept and renamed tables.                                                *)
LEMMA KeptAndCopy ==
    ASSUME NEW cs, NEW info \in Info, NEW cat, NEW L, ProperChanges(cs, cat, info),
           Agrees(cat, L, cs, info),
           NEW x, IsKept(x, L, cs), NEW y, NEW r, NEW c, IsCopy(y, r, c, L, cs, info),
           Comparable(x.kind, y.kind)
    PROVE  Apart(x, y)
<1>1. /\ r \in L /\ c \in Ops(cs, "rename") /\ Renames(c, r) /\ x \in L
      /\ y.kind = "table" /\ y.id = r.id /\ y.schema_id = r.schema_id /\ y.name = c.name
      /\ r.kind = "table"
  BY DEF IsCopy, IsKept, Same, Renames
<1>2. c.kind = "table" /\ \E s \in cat.objects : s.kind = "schema" /\ s.id = r.schema_id /\ s.name = c.schema
  BY <1>1, RenamedTable
<1>3. x # r
  BY <1>1, <1>2 DEF IsKept, renamed, Targets, Renames, Ops
<1>4. x.id # r.id
  BY <1>1, <1>3 DEF Agrees, WholeObjects, NamesDiffer, Comparable
<1>5. Comparable(c.kind, x.kind)
  BY <1>1, <1>2 DEF Comparable
<1>6. x.schema_id = r.schema_id => x.name # c.name
  <2>1. PICK s \in cat.objects : s.kind = "schema" /\ s.id = r.schema_id /\ s.name = c.schema
    BY <1>2
  <2>2. c \in Ops(cs, "create") \union Ops(cs, "rename") /\ c.kind # "schema"
    BY <1>1, <1>2
  <2>. QED
    BY <1>5, <2>1, <2>2, NameWasFree
<1>. QED
  BY <1>1, <1>4, <1>6 DEF Apart, SameName

(* IDs in the database and in the catalog are older than created ones.     *)
LEMMA NewIdsApart ==
    ASSUME NEW cs, NEW info \in Info, NEW cat, NEW L, ProperChanges(cs, cat, info),
           Agrees(cat, L, cs, info), NEW c \in Ops(cs, "create"),
           NEW r \in L \union cat.objects
    PROVE  r.id # catalog_id(cs, info, c.kind) /\ (r.kind # "schema" => r.schema_id # catalog_id(cs, info, c.kind))
<1>1. ~ KnownId(catalog_id(cs, info, c.kind), info)
  BY NewIds
<1>2. \A q \in L \union cat.objects : KnownId(q.id, info)
  BY DEF Agrees, WholeObjects
<1>3. r.kind # "schema" => \E s \in L \union cat.objects : s.id = r.schema_id
  BY DEF Agrees, WholeObjects
<1>. QED
  BY <1>1, <1>2, <1>3

(* Kept and created objects.                                               *)
LEMMA KeptAndNew ==
    ASSUME NEW cs, NEW info \in Info, NEW cat, NEW L, ProperChanges(cs, cat, info),
           Agrees(cat, L, cs, info),
           NEW x, IsKept(x, L, cs), NEW y, NEW c, IsNew(y, c, cs, info, cat),
           Comparable(x.kind, y.kind)
    PROVE  Apart(x, y)
<1>1. /\ c \in Ops(cs, "create") /\ x \in L
      /\ y.kind = c.kind /\ y.id = catalog_id(cs, info, c.kind) /\ y.name = c.name
      /\ y.schema_id = IF c.kind = "schema" THEN NoId ELSE schema_id(cs, info, cat, c.schema)
  BY DEF IsNew, IsKept
<1>2. x.id # y.id
  BY <1>1, NewIdsApart
<1>3. CASE c.kind = "schema"
  <2>1. x.kind = "schema"
    BY <1>1, <1>3 DEF Comparable, Relation
  <2>2. ASSUME x.name = c.name PROVE FALSE
    <3>1. PICK q \in cat.objects : Alike(q, x)
      BY <1>1, <1>3, <2>1, <2>2 DEF Agrees, SchemasAgree
    <3>2. SchemaFree(cs, cat, c.name)
      BY <1>1, <1>3 DEF ProperChanges, Accepted
    <3>3. dropped(cs, q)
      BY <2>1, <2>2, <3>1, <3>2 DEF SchemaFree, Objects, Deleted, Alike, Same
    <3>. QED
      BY <3>1, <3>3, DropsById DEF Alike, Same, IsKept
  <2>. QED
    BY <1>1, <1>2, <2>2 DEF Apart, SameName
<1>4. CASE c.kind # "schema"
  <2>1. x.kind # "schema" /\ Comparable(c.kind, x.kind) /\ y.schema_id = schema_id(cs, info, cat, c.schema)
    BY <1>1, <1>4 DEF Comparable, Relation
  <2>2. ASSUME NEW s \in cat.objects, s.kind = "schema", s.name = c.schema, y.schema_id = s.id
        PROVE  ~ SameName(x, y)
    BY <1>1, <1>4, <2>1, <2>2, NameWasFree DEF SameName
  <2>3. ASSUME NEW d \in Ops(cs, "create"), d.kind = "schema",
               y.schema_id = catalog_id(cs, info, "schema")
        PROVE  ~ SameName(x, y)
    BY <1>1, <2>1, <2>3, NewIdsApart DEF SameName
  <2>4. \/ \E d \in Ops(cs, "create") : d.kind = "schema" /\ y.schema_id = catalog_id(cs, info, "schema")
        \/ \E s \in cat.objects : s.kind = "schema" /\ s.name = c.schema /\ y.schema_id = s.id
    BY <1>1, <1>4, <2>1, NewSchemaId DEF Agrees
  <2>. QED
    BY <1>2, <2>2, <2>3, <2>4 DEF Apart
<1>. QED
  BY <1>3, <1>4

(* Two renamed tables.                                                     *)
LEMMA CopyAndCopy ==
    ASSUME NEW cs, NEW info \in Info, NEW cat, NEW L, ProperChanges(cs, cat, info),
           Agrees(cat, L, cs, info),
           NEW x, NEW q, NEW d, IsCopy(x, q, d, L, cs, info),
           NEW y, NEW r, NEW c, IsCopy(y, r, c, L, cs, info), q # r \/ d # c
    PROVE  Apart(x, y)
<1>1. /\ r \in L /\ c \in Ops(cs, "rename") /\ Renames(c, r)
      /\ y.id = r.id /\ y.schema_id = r.schema_id /\ y.name = c.name /\ r.kind = "table" /\ r.id = c.id
  BY DEF IsCopy, Same, Renames
<1>2. /\ q \in L /\ d \in Ops(cs, "rename") /\ Renames(d, q)
      /\ x.id = q.id /\ x.schema_id = q.schema_id /\ x.name = d.name /\ q.kind = "table" /\ q.id = d.id
  BY DEF IsCopy, Same, Renames
<1>3. c \in cs /\ d \in cs /\ c.op = "rename" /\ d.op = "rename"
  BY <1>1, <1>2 DEF Ops
<1>4. d # c => d.id # c.id
  BY <1>3 DEF ProperChanges, Accepted
<1>5. q # r => q.id # r.id
  BY <1>1, <1>2 DEF Agrees, WholeObjects, NamesDiffer
<1>6. x.id # y.id /\ d # c
  BY <1>1, <1>2, <1>4, <1>5
<1>7. ASSUME SameName(x, y) PROVE FALSE
  <2>1. PICK s \in cat.objects : s.kind = "schema" /\ s.id = r.schema_id /\ s.name = c.schema
    BY <1>1, RenamedTable
  <2>2. PICK z \in cat.objects : z.kind = "schema" /\ z.id = q.schema_id /\ z.name = d.schema
    BY <1>2, RenamedTable
  <2>3. s = z
    BY <1>1, <1>2, <1>7, <2>1, <2>2, SchemaLookup DEF SameName, Agrees
  <2>4. c.kind = "table" /\ d.kind = "table"
    BY <1>1, <1>2, RenamedTable
  <2>5. NameFree(cs, cat, c)
    BY <1>1 DEF ProperChanges, Accepted
  <2>6. <<d.schema, d.name>> # <<c.schema, c.name>>
    BY <1>2, <1>6, <2>4, <2>5 DEF NameFree, Namespace, Relation
  <2>. QED
    BY <1>1, <1>2, <1>7, <2>1, <2>2, <2>3, <2>6 DEF SameName
<1>. QED
  BY <1>6, <1>7 DEF Apart

(* Renamed tables and created objects.                                     *)
LEMMA CopyAndNew ==
    ASSUME NEW cs, NEW info \in Info, NEW cat, NEW L, ProperChanges(cs, cat, info),
           Agrees(cat, L, cs, info),
           NEW x, NEW q, NEW d, IsCopy(x, q, d, L, cs, info),
           NEW y, NEW c, IsNew(y, c, cs, info, cat), Comparable(x.kind, y.kind)
    PROVE  Apart(x, y)
<1>1. /\ c \in Ops(cs, "create")
      /\ y.kind = c.kind /\ y.id = catalog_id(cs, info, c.kind) /\ y.name = c.name
      /\ y.schema_id = IF c.kind = "schema" THEN NoId ELSE schema_id(cs, info, cat, c.schema)
  BY DEF IsNew
<1>2. /\ q \in L /\ d \in Ops(cs, "rename") /\ Renames(d, q) /\ x.kind = "table" /\ q.kind = "table"
      /\ x.id = q.id /\ x.schema_id = q.schema_id /\ x.name = d.name
  BY DEF IsCopy, Same, Renames
<1>3. c.kind \in Relation /\ c.kind # "schema" /\ y.schema_id = schema_id(cs, info, cat, c.schema)
  BY <1>1, <1>2 DEF Comparable, Relation
<1>4. x.id # y.id
  BY <1>1, <1>2, NewIdsApart
<1>5. PICK z \in cat.objects : z.kind = "schema" /\ z.id = q.schema_id /\ z.name = d.schema
  BY <1>2, RenamedTable
<1>6. ASSUME SameName(x, y) PROVE FALSE
  <2>1. ASSUME NEW e \in Ops(cs, "create"), e.kind = "schema",
               y.schema_id = catalog_id(cs, info, "schema")
        PROVE  FALSE
    BY <1>2, <1>6, <2>1, NewIdsApart DEF SameName
  <2>2. ASSUME NEW s \in cat.objects, s.kind = "schema", s.name = c.schema, y.schema_id = s.id
        PROVE  FALSE
    <3>1. s = z
      BY <1>2, <1>5, <1>6, <2>2, SchemaLookup DEF SameName, Agrees
    <3>2. NameFree(cs, cat, c)
      BY <1>1, <1>3 DEF ProperChanges, Accepted
    <3>3. d.kind = "table" /\ d # c
      BY <1>1, <1>2, RenamedTable DEF Ops
    <3>4. <<d.schema, d.name>> # <<c.schema, c.name>>
      BY <1>2, <1>3, <3>2, <3>3 DEF NameFree, Namespace, Relation
    <3>. QED
      BY <1>1, <1>2, <1>5, <1>6, <2>2, <3>1, <3>4 DEF SameName
  <2>3. \/ \E e \in Ops(cs, "create") : e.kind = "schema" /\ y.schema_id = catalog_id(cs, info, "schema")
        \/ \E s \in cat.objects : s.kind = "schema" /\ s.name = c.schema /\ y.schema_id = s.id
    BY <1>1, <1>3, NewSchemaId DEF Agrees
  <2>. QED
    BY <2>1, <2>2, <2>3
<1>. QED
  BY <1>4, <1>6 DEF Apart

(* Two created objects.                                                    *)
LEMMA NewAndNew ==
    ASSUME NEW cs, NEW info \in Info, NEW cat, NEW L, ProperChanges(cs, cat, info),
           Agrees(cat, L, cs, info),
           NEW x, NEW d, IsNew(x, d, cs, info, cat),
           NEW y, NEW c, IsNew(y, c, cs, info, cat), Comparable(x.kind, y.kind), c # d
    PROVE  Apart(x, y)
<1>1. /\ c \in Ops(cs, "create")
      /\ y.kind = c.kind /\ y.id = catalog_id(cs, info, c.kind) /\ y.name = c.name
      /\ y.schema_id = IF c.kind = "schema" THEN NoId ELSE schema_id(cs, info, cat, c.schema)
  BY DEF IsNew
<1>2. /\ d \in Ops(cs, "create")
      /\ x.kind = d.kind /\ x.id = catalog_id(cs, info, d.kind) /\ x.name = d.name
      /\ x.schema_id = IF d.kind = "schema" THEN NoId ELSE schema_id(cs, info, cat, d.schema)
  BY DEF IsNew
<1>3. c.kind # d.kind /\ x.id # y.id
  BY <1>1, <1>2, NewIds
<1>4. /\ c.kind \in Relation /\ d.kind \in Relation /\ c.kind # "schema" /\ d.kind # "schema"
      /\ y.schema_id = schema_id(cs, info, cat, c.schema)
      /\ x.schema_id = schema_id(cs, info, cat, d.schema)
  BY <1>1, <1>2, <1>3 DEF Comparable, Relation
<1>5. NameFree(cs, cat, c)
  BY <1>1, <1>4 DEF ProperChanges, Accepted
<1>6. <<d.schema, d.name>> # <<c.schema, c.name>>
  BY <1>2, <1>4, <1>5 DEF NameFree, Namespace
<1>7. ASSUME SameName(x, y) PROVE c.schema = d.schema
  <2> DEFINE Own(z) == \E e \in Ops(cs, "create") :
                          /\ e.kind = "schema" /\ e.name = z.schema
                          /\ schema_id(cs, info, cat, z.schema) = catalog_id(cs, info, "schema")
             Old(z) == \E s \in cat.objects :
                          /\ s.kind = "schema" /\ s.name = z.schema
                          /\ schema_id(cs, info, cat, z.schema) = s.id
  <2>1. (Own(c) \/ Old(c)) /\ (Own(d) \/ Old(d))
    BY <1>1, <1>2, <1>4, NewSchemaId DEF Agrees
  <2>2. schema_id(cs, info, cat, c.schema) = schema_id(cs, info, cat, d.schema)
    BY <1>4, <1>7 DEF SameName
  <2>3. CASE Own(c) /\ Own(d)
    <3>1. \A e, f \in Ops(cs, "create") : e.kind = f.kind => e = f
      BY NewIds
    <3>. QED
      BY <2>3, <3>1
  <2>4. ASSUME NEW e \in Ops(cs, "create"), e.kind = "schema", NEW s \in cat.objects,
               s.id = catalog_id(cs, info, "schema")
        PROVE  FALSE
    BY <2>4, NewIdsApart
  <2>5. CASE Old(c) /\ Old(d)
    <3>1. PICK s \in cat.objects : /\ s.kind = "schema" /\ s.name = c.schema
                                   /\ schema_id(cs, info, cat, c.schema) = s.id
      BY <2>5
    <3>2. PICK z \in cat.objects : /\ z.kind = "schema" /\ z.name = d.schema
                                   /\ schema_id(cs, info, cat, d.schema) = z.id
      BY <2>5
    <3>3. WholeObjects(cat.objects, info) /\ z.id = s.id
      BY <2>2, <3>1, <3>2 DEF Agrees
    <3>4. s = z
      BY <3>1, <3>2, <3>3, SchemaLookup
    <3>. QED
      BY <3>1, <3>2, <3>4
  <2>6. CASE Own(c) /\ Old(d)
    BY <2>2, <2>4, <2>6
  <2>7. CASE Old(c) /\ Own(d)
    BY <2>2, <2>4, <2>7
  <2>. QED
    BY <2>1, <2>3, <2>5, <2>6, <2>7
<1>. QED
  BY <1>1, <1>2, <1>3, <1>6, <1>7 DEF Apart, SameName

(* Names stay unique.                                                      *)
LEMMA NamesAfter ==
    ASSUME NEW cs, NEW info \in Info, NEW cat, NEW L, NEW N, ProperChanges(cs, cat, info),
           Agrees(cat, L, cs, info), MadeOf(N, L, cs, info, cat)
    PROVE  NamesDiffer(N)
<1>1. ASSUME NEW x \in N, NEW y \in N, x # y, Comparable(x.kind, y.kind)
      PROVE  Apart(x, y)
  <2>0. Comparable(y.kind, x.kind) /\ (Apart(y, x) => Apart(x, y))
    BY <1>1 DEF Comparable, Apart, SameName
  <2>1. CASE IsKept(x, L, cs)
    <3>1. CASE IsKept(y, L, cs)
      BY <1>1, <2>1, <3>1 DEF IsKept, Agrees, WholeObjects, NamesDiffer, Comparable, Apart, SameName
    <3>2. ASSUME NEW r, NEW c, IsCopy(y, r, c, L, cs, info) PROVE Apart(x, y)
      BY <1>1, <2>1, <3>2, KeptAndCopy
    <3>3. ASSUME NEW c, IsNew(y, c, cs, info, cat) PROVE Apart(x, y)
      BY <1>1, <2>1, <3>3, KeptAndNew
    <3>. QED
      BY <3>1, <3>2, <3>3 DEF MadeOf
  <2>2. ASSUME NEW q, NEW d, IsCopy(x, q, d, L, cs, info)
        PROVE  Apart(x, y)
    <3>1. CASE IsKept(y, L, cs)
      BY <2>0, <2>2, <3>1, KeptAndCopy
    <3>2. ASSUME NEW r, NEW c, IsCopy(y, r, c, L, cs, info) PROVE Apart(x, y)
      <4>1. q # r \/ d # c
        BY <1>1, <2>2, <3>2 DEF IsCopy
      <4>. QED
        BY <2>2, <3>2, <4>1, CopyAndCopy
    <3>3. ASSUME NEW c, IsNew(y, c, cs, info, cat) PROVE Apart(x, y)
      BY <1>1, <2>2, <3>3, CopyAndNew
    <3>. QED
      BY <3>1, <3>2, <3>3 DEF MadeOf
  <2>3. ASSUME NEW d, IsNew(x, d, cs, info, cat)
        PROVE  Apart(x, y)
    <3>1. CASE IsKept(y, L, cs)
      BY <2>0, <2>3, <3>1, KeptAndNew
    <3>2. ASSUME NEW r, NEW c, IsCopy(y, r, c, L, cs, info) PROVE Apart(x, y)
      BY <2>0, <2>3, <3>2, CopyAndNew
    <3>3. ASSUME NEW c, IsNew(y, c, cs, info, cat) PROVE Apart(x, y)
      <4>1. c # d
        BY <1>1, <2>3, <3>3 DEF IsNew
      <4>. QED
        BY <1>1, <2>3, <3>3, <4>1, NewAndNew
    <3>. QED
      BY <3>1, <3>2, <3>3 DEF MadeOf
  <2>. QED
    BY <2>1, <2>2, <2>3 DEF MadeOf
<1>. QED
  BY <1>1 DEF NamesDiffer, Comparable, Apart, SameName

-----------------------------------------------------------------------------
(* The rows of tables after a commit.                                      *)

TableIn(S, id) == \E r \in S : r.kind = "table" /\ r.id = id

(* A table stays unless it is dropped, and what the change set alters or   *)
(* writes to is there.                                                     *)
LEMMA TablesAfter ==
    ASSUME NEW cs, NEW info \in Info, NEW cat, NEW L, NEW N, ProperChanges(cs, cat, info),
           Agrees(cat, L, cs, info), MadeOf(N, L, cs, info, cat)
    PROVE  /\ \A id : TableIn(L, id) /\ ~ dropped_table(cs, id) => TableIn(N, id)
           /\ \A c \in cs : c.op \in AlterOps => ~ dropped_table(cs, c.id) /\ TableIn(N, c.id)
           /\ \A c \in cs : c.op \in WriteOps => TableIn(N, table_id(cs, info, c))
           /\ "table" \in CreatedKinds(cs) => TableIn(N, catalog_id(cs, info, "table"))
<1>1. ASSUME NEW id, TableIn(L, id), ~ dropped_table(cs, id)
      PROVE  TableIn(N, id)
  <2>1. PICK r \in L : r.kind = "table" /\ r.id = id
    BY <1>1 DEF TableIn
  <2>2. ~ dropped(cs, r)
    BY <1>1, <2>1 DEF dropped, dropped_table, Targets
  <2>3. CASE renamed(cs, r)
    <3>1. PICK c \in Ops(cs, "rename") : c.id = r.id
      BY <2>3 DEF renamed, Targets
    <3>2. PICK x \in N : IsCopy(x, r, c, L, cs, info)
      BY <2>1, <3>1 DEF MadeOf, Renames
    <3>. QED
      BY <2>1, <3>2 DEF TableIn, IsCopy, Same
  <2>4. CASE ~ renamed(cs, r)
    BY <2>1, <2>2, <2>4 DEF TableIn, MadeOf, IsKept
  <2>. QED
    BY <2>3, <2>4
<1>2. ASSUME NEW c \in cs, c.op \in AlterOps \/ (c.op \in WriteOps /\ c.id # Pending)
      PROVE  ~ dropped_table(cs, c.id) /\ TableIn(N, c.id)
  <2>1. Sound(c, cat)
    BY DEF ProperChanges
  <2>2. HasTable(cat, c.id)
    BY <1>2, <2>1 DEF Sound
  <2>3. TableIn(L, c.id)
    BY <1>2, <2>2 DEF HasTable, Agrees, TablesAgree, TableIn, Same
  <2>4. ~ dropped_table(cs, c.id)
    <3> SUFFICES ASSUME dropped_table(cs, c.id) PROVE FALSE
      OBVIOUS
    <3>1. PICK d \in Ops(cs, "delete") : d.kind = "table" /\ d.id = c.id
      BY DEF dropped_table, Targets
    <3>2. d # c
      BY <1>2 DEF Ops, AlterOps, WriteOps
    <3>3. ~ Affects(c, d.kind, d.id)
      BY <3>2 DEF ProperChanges, Accepted
    <3>4. c.kind = "table" \/ c.op \in {"set", "unset"}
      BY <1>2, <2>1 DEF Sound, AlterOps
    <3>. QED
      BY <3>1, <3>3, <3>4 DEF Affects
  <2>. QED
    BY <1>1, <2>3, <2>4
<1>3. ASSUME "table" \in CreatedKinds(cs)
      PROVE  TableIn(N, catalog_id(cs, info, "table"))
  <2>1. PICK c \in Ops(cs, "create") : c.kind = "table"
    BY <1>3 DEF CreatedKinds
  <2>2. PICK x \in N : IsNew(x, c, cs, info, cat)
    BY DEF MadeOf
  <2>. QED
    BY <2>1, <2>2 DEF TableIn, IsNew
<1>4. ASSUME NEW c \in cs, c.op \in WriteOps
      PROVE  TableIn(N, table_id(cs, info, c))
  <2>1. CASE c.id = Pending
    BY <1>3, <2>1 DEF table_id, ProperChanges, KnownChanges
  <2>2. CASE c.id # Pending
    BY <1>2, <1>4, <2>2 DEF table_id
  <2>. QED
    BY <2>1, <2>2
<1>. QED
  BY <1>1, <1>2, <1>3, <1>4

\* The columns and keys of tables the change set alters are those it knows.
ColumnsAgree(cat, C, A, cs) ==
    \A c \in cs : c.op \in AlterOps =>
        /\ ColumnsOf(C, c.id) = ColumnsOf(cat.columns, c.id)
        /\ KeysOf(A, c.id) = KeysOf(cat.attributes, c.id)

(* Partitionings and sort orders refer to columns their tables have.       *)
LEMMA KeysAfter ==
    ASSUME NEW cs, NEW info \in Info, NEW cat, ProperChanges(cs, cat, info),
           NEW C, NEW C2, NEW A, ColumnsAgree(cat, C, A, cs),
           \A c \in cs : c.op \in AlterOps => ~ dropped_table(cs, c.id),
           \A r \in C : ~ retires_column(cs, r) => r \in C2,
           NEW a,
           \/ a \in A /\ ~ retires_attribute(cs, a) /\ a.column \in ColumnsOf(C, a.table)
           \/ a \in AddedAttributes(cs, info),
           a.key \in Indexed
    PROVE  a.column \in ColumnsOf(C2, a.table)
<1>1. ASSUME a.column \in ColumnsOf(C, a.table), ~ dropped_table(cs, a.table),
             \A d \in Ops(cs, "remove_column") : ~ (d.id = a.table /\ d.n = a.column)
      PROVE  a.column \in ColumnsOf(C2, a.table)
  <2>1. PICK r \in C : r.table = a.table /\ r.column = a.column
    BY <1>1 DEF ColumnsOf
  <2>2. ~ retires_column(cs, r)
    BY <1>1, <2>1 DEF retires_column
  <2>. QED
    BY <2>1, <2>2 DEF ColumnsOf
<1>2. CASE a \in A /\ ~ retires_attribute(cs, a) /\ a.column \in ColumnsOf(C, a.table)
  <2>1. ASSUME NEW d \in Ops(cs, "remove_column"), d.id = a.table, d.n = a.column
        PROVE  FALSE
    <3>1. d \in cs /\ d.op \in AlterOps
      BY DEF Ops, AlterOps
    <3>2. <<a.key, a.column>> \in KeysOf(A, d.id)
      BY <1>2, <2>1 DEF KeysOf
    <3>3. <<a.key, a.column>> \in KeysOf(cat.attributes, d.id)
      BY <3>1, <3>2 DEF ColumnsAgree
    <3>4. PICK b \in cat.attributes : b.table = d.id /\ b.key = a.key /\ b.column = a.column
      BY <3>3 DEF KeysOf
    <3>5. ~ retires_attribute(cs, b)
      BY <1>2, <2>1, <3>4 DEF retires_attribute
    <3>6. d.n \in KeyColumns(cs, cat, d.id)
      BY <2>1, <3>4, <3>5 DEF KeyColumns
    <3>. QED
      BY <3>6 DEF ProperChanges, Accepted
  <2>2. ~ dropped_table(cs, a.table)
    BY <1>2 DEF retires_attribute
  <2>. QED
    BY <1>1, <1>2, <2>1, <2>2
<1>3. CASE a \in AddedAttributes(cs, info)
  <2>1. PICK c \in Ops(cs, "set") : a.table = c.id /\ a.key = c.kind /\ a.column = c.n
    BY <1>3 DEF AddedAttributes
  <2>2. c \in cs /\ c.op = "set" /\ c.op \in AlterOps
    BY DEF Ops, AlterOps
  <2>3. c.n \in ColumnsOf(cat.columns, c.id)
    BY <2>1, <2>2 DEF ProperChanges, Sound
  <2>4. a.column \in ColumnsOf(C, a.table)
    BY <2>1, <2>2, <2>3 DEF ColumnsAgree
  <2>5. ASSUME NEW d \in Ops(cs, "remove_column"), d.id = a.table, d.n = a.column
        PROVE  FALSE
    <3>1. d.n \in KeyColumns(cs, cat, d.id)
      BY <2>1, <2>5 DEF KeyColumns
    <3>. QED
      BY <3>1 DEF ProperChanges, Accepted
  <2>. QED
    BY <1>1, <2>1, <2>2, <2>4, <2>5
<1>. QED
  BY <1>2, <1>3

\* Whether the change set drops or alters a table.
Alters(cs, id) ==
    dropped_table(cs, id) \/ \E c \in cs : c.op \in AlterOps /\ c.id = id

(* A table that a commit neither drops nor alters has the columns and keys *)
(* it had.                                                                 *)
LEMMA ColumnsUnaltered ==
    ASSUME NEW cs, NEW info \in Info, NEW id, ~ Alters(cs, id),
           id # catalog_id(cs, info, "table") \/ "table" \notin CreatedKinds(cs),
           NEW C, NEW C2, C2 = {r \in C : ~ retires_column(cs, r)} \union AddedColumns(cs, info),
           NEW A, NEW A2, A2 = {r \in A : ~ retires_attribute(cs, r)} \union AddedAttributes(cs, info)
    PROVE  ColumnsOf(C2, id) = ColumnsOf(C, id) /\ KeysOf(A2, id) = KeysOf(A, id)
<1>1. \A r \in C : r.table = id => ~ retires_column(cs, r)
  BY DEF retires_column, Alters, Ops, AlterOps
<1>2. \A r \in AddedColumns(cs, info) : r.table # id
  BY DEF AddedColumns, Alters, Ops, AlterOps, CreatedKinds
<1>3. \A r \in A : r.table = id => ~ retires_attribute(cs, r)
  BY DEF retires_attribute, Alters, Ops, AlterOps
<1>4. \A r \in AddedAttributes(cs, info) : r.table # id
  BY DEF AddedAttributes, Alters, Ops, AlterOps
<1>. HIDE DEF AddedColumns, AddedAttributes
<1>5. {r \in C2 : r.table = id} = {r \in C : r.table = id}
  BY <1>1, <1>2
<1>6. {r \in A2 : r.table = id} = {r \in A : r.table = id}
  BY <1>3, <1>4
<1>. QED
  BY <1>5, <1>6 DEF ColumnsOf, KeysOf

-----------------------------------------------------------------------------
(* The operators above, for the rows the protocol reads and writes.        *)

(* What the newest snapshot shows are the live rows.                       *)
LEMMA LiveIsVisible ==
    ASSUME NEW rows, NEW fields, NEW h \in Nat, Whole(rows, fields, h)
    PROVE  Visible(rows, h) = Live(rows)
<1>1. ASSUME NEW r \in rows PROVE VisibleAt(r, h) <=> r.end = NULL
  BY DEF Whole, Within, VisibleAt, NULL
<1>. QED
  BY <1>1 DEF Visible, Live

(* The live objects after persist.                                         *)
LEMMA LiveObjectsAfter ==
    ASSUME NEW l, NEW cs, NEW info \in Info, NEW cat, NEW N,
           \A r \in l.objects : ObjectFields \subseteq DOMAIN r,
           N = (Live(l.objects) \ HitObjects(l.objects, cs)) \union AddedObjects(l, cs, info, cat)
    PROVE  MadeOf(N, Live(l.objects), cs, info, cat)
<1> DEFINE L == Live(l.objects)
           k == info.id + 1
<1>1. \A x : x \in L \ HitObjects(l.objects, cs) <=> IsKept(x, L, cs)
  BY DEF HitObjects, IsKept, Live
<1>2. \A r \in L : ObjectFields \subseteq DOMAIN r
  BY DEF Live
<1>. HIDE DEF L
<1>3. ASSUME NEW r \in L, NEW c \in Ops(cs, "rename"), Renames(c, r)
      PROVE  IsCopy(CopyOf(r, c, k), r, c, L, cs, info)
  BY <1>2, <1>3 DEF IsCopy, CopyOf, Same, ObjectFields
<1>4. \A x : x \in Copies(l.objects, cs, k) <=>
         \E r \in L, c \in Ops(cs, "rename") : Renames(c, r) /\ x = CopyOf(r, c, k)
  BY DEF Copies, L
<1>5. ASSUME NEW c \in Ops(cs, "create")
      PROVE  IsNew(NewObject(c, cs, info, cat), c, cs, info, cat)
  BY DEF IsNew, NewObject
<1>6. new_objects(cs, info, cat) = {NewObject(c, cs, info, cat) : c \in Ops(cs, "create")}
  BY DEF new_objects, NewObject
<1>7. N = (L \ HitObjects(l.objects, cs)) \union (Copies(l.objects, cs, k) \union new_objects(cs, info, cat))
  BY DEF AddedObjects, L
<1>8. \A x \in N : \/ IsKept(x, L, cs)
                   \/ \E r, c : IsCopy(x, r, c, L, cs, info)
                   \/ \E c : IsNew(x, c, cs, info, cat)
  BY <1>1, <1>3, <1>4, <1>5, <1>6, <1>7
<1>9. \A x : IsKept(x, L, cs) => x \in N
  BY <1>1, <1>7
<1>10. ASSUME NEW r \in L, NEW c \in Ops(cs, "rename"), Renames(c, r)
       PROVE  \E x \in N : IsCopy(x, r, c, L, cs, info)
  BY <1>3, <1>4, <1>7, <1>10
<1>11. ASSUME NEW c \in Ops(cs, "create")
       PROVE  \E x \in N : IsNew(x, c, cs, info, cat)
  BY <1>5, <1>6, <1>7
<1>. QED
  BY <1>8, <1>9, <1>10, <1>11 DEF MadeOf, L

(* A catalog has the objects, columns and keys that were visible when it   *)
(* was loaded.                                                             *)
LEMMA CatalogRows ==
    ASSUME NEW l, NEW b, NEW cat, cat = CatalogAt(l, b),
           \A r \in l.objects : ObjectFields \subseteq DOMAIN r,
           \A r \in l.columns : ColumnFields \subseteq DOMAIN r,
           \A r \in l.attributes : AttributeFields \subseteq DOMAIN r
    PROVE  /\ \A r \in cat.objects : \E q \in Visible(l.objects, b) :
                 Alike(q, r) /\ DOMAIN r = DOMAIN q /\ r = [q EXCEPT !.end = NULL]
           /\ \A q \in Visible(l.objects, b) : \E r \in cat.objects : Alike(q, r)
           /\ \A id : ColumnsOf(cat.columns, id) = ColumnsOf(Visible(l.columns, b), id)
           /\ \A id : KeysOf(cat.attributes, id) = KeysOf(Visible(l.attributes, b), id)
<1>1. /\ cat.objects = {[r EXCEPT !.end = NULL] : r \in Visible(l.objects, b)}
      /\ cat.columns = {[r EXCEPT !.end = NULL] : r \in Visible(l.columns, b)}
      /\ cat.attributes = {[r EXCEPT !.end = NULL] : r \in Visible(l.attributes, b)}
  BY DEF CatalogAt, AsOf
<1>2. ASSUME NEW q \in Visible(l.objects, b), NEW r, r = [q EXCEPT !.end = NULL]
      PROVE  Alike(q, r) /\ DOMAIN r = DOMAIN q
  <2>1. ObjectFields \subseteq DOMAIN q
    BY DEF Visible
  <2>. QED
    BY <1>2, <2>1 DEF Alike, Same, ObjectFields
<1>3. ASSUME NEW q \in Visible(l.columns, b), NEW r, r = [q EXCEPT !.end = NULL]
      PROVE  r.table = q.table /\ r.column = q.column
  <2>1. ColumnFields \subseteq DOMAIN q
    BY DEF Visible
  <2>. QED
    BY <1>3, <2>1 DEF ColumnFields
<1>4. ASSUME NEW q \in Visible(l.attributes, b), NEW r, r = [q EXCEPT !.end = NULL]
      PROVE  r.table = q.table /\ r.key = q.key /\ r.column = q.column
  <2>1. AttributeFields \subseteq DOMAIN q
    BY DEF Visible
  <2>. QED
    BY <1>4, <2>1 DEF AttributeFields
<1>5. ASSUME NEW id
      PROVE  ColumnsOf(cat.columns, id) = ColumnsOf(Visible(l.columns, b), id)
  <2>1. \A r \in cat.columns : \E q \in Visible(l.columns, b) : r.table = q.table /\ r.column = q.column
    BY <1>1, <1>3
  <2>2. \A q \in Visible(l.columns, b) : \E r \in cat.columns : r.table = q.table /\ r.column = q.column
    BY <1>1, <1>3
  <2>. QED
    BY <2>1, <2>2 DEF ColumnsOf
<1>6. ASSUME NEW id
      PROVE  KeysOf(cat.attributes, id) = KeysOf(Visible(l.attributes, b), id)
  <2>1. \A r \in cat.attributes : \E q \in Visible(l.attributes, b) :
           r.table = q.table /\ r.key = q.key /\ r.column = q.column
    BY <1>1, <1>4
  <2>2. \A q \in Visible(l.attributes, b) : \E r \in cat.attributes :
           r.table = q.table /\ r.key = q.key /\ r.column = q.column
    BY <1>1, <1>4
  <2>. QED
    BY <2>1, <2>2 DEF KeysOf
<1>7. \A q \in Visible(l.objects, b) : \E r \in cat.objects : Alike(q, r)
  BY <1>1, <1>2
<1>8. \A r \in cat.objects : \E q \in Visible(l.objects, b) :
         Alike(q, r) /\ DOMAIN r = DOMAIN q /\ r = [q EXCEPT !.end = NULL]
  BY <1>1, <1>2
<1>. QED
  BY <1>5, <1>6, <1>7, <1>8

-----------------------------------------------------------------------------
(* What the conflict check and the log together tell a transaction whose   *)
(* attempt builds on the head.                                             *)

\* The state in which PersistOk is possible.
AtHead(t) == IndInv /\ RowInv /\ pc[t] = "persist" /\ latest[t] = Head

(* Everything after the base has been checked.                             *)
LEMMA NothingClashes ==
    ASSUME NEW t \in Tx, AtHead(t), NEW e \in log, e.id > base[t].id,
           NEW c \in changes[t], NEW a, a = applied_change(changes[t], latest[t], c),
           NEW d \in e.changes
    PROVE  /\ ~ NameClash(a, d) /\ ~ IdClash(a, d)
           /\ ~ SchemaClash(a, d, Schemas(t)) /\ ~ SchemaClash(d, a, Schemas(t))
<1>1. e.id \in Nat /\ e.id <= latest[t].id
  BY DEF AtHead, IndInv, DbInv, LogRecorded, HeadId
<1>2. a \in applied_change_set(changes[t], latest[t])
  BY DEF applied_change_set
<1>3. base[t].id \in Nat
  BY DEF AtHead, IndInv, TypeOK, Info
<1>4. base[t].id < e.id
  BY <1>1, <1>3
<1>5. Compatible(changes[t], latest[t], e)
  BY <1>1, <1>4 DEF AtHead, IndInv, TxInv, Checked
<1>6. ~ SchemaClash(a, d, Schemas(t)) /\ ~ SchemaClash(d, a, Schemas(t))
  BY <1>1, <1>2, <1>4 DEF AtHead, RowInv, TxRows, SchemasChecked
<1>. QED
  BY <1>2, <1>5, <1>6 DEF Compatible

(* The base of a transaction that commits is a retained snapshot, and its  *)
(* catalog is what the base shows.                                         *)
LEMMA BaseFacts ==
    ASSUME NEW t \in Tx, AtHead(t)
    PROVE  /\ base[t].id \in Nat /\ base[t].id <= HeadId /\ HeadId \in Nat
           /\ base[t].id \in Ids(snapshots) /\ HeadId \in Ids(snapshots)
           /\ latest[t] \in Info /\ latest[t].id = HeadId
           /\ catalog[t] = CatalogAt(lake, base[t].id)
           /\ Visible(lake.objects, HeadId) = Live(lake.objects)
           /\ Visible(lake.columns, HeadId) = Live(lake.columns)
           /\ Visible(lake.attributes, HeadId) = Live(lake.attributes)
           /\ Visible(lake.files, HeadId) = Live(lake.files)
<1>1. BaseRetained(t)
  BY DEF AtHead, IndInv, TxInv
<1>2. pc[t] \in Active /\ pc[t] \in Committing
  BY DEF AtHead, Active, Committing
<1>3. /\ Head \in snapshots /\ Head \in Info /\ HeadId = Head.id /\ HeadId \in Nat
      /\ \A r \in snapshots : r.id <= HeadId
  BY HeadFacts DEF AtHead, IndInv, DbInv
<1>4. base[t] \in snapshots /\ base[t].id \in Nat
  BY <1>1, <1>2 DEF BaseRetained, AtHead, IndInv, TypeOK, Info
<1>5. /\ Visible(lake.objects, HeadId) = Live(lake.objects)
      /\ Visible(lake.columns, HeadId) = Live(lake.columns)
      /\ Visible(lake.attributes, HeadId) = Live(lake.attributes)
      /\ Visible(lake.files, HeadId) = Live(lake.files)
  BY <1>3, LiveIsVisible DEF AtHead, RowInv, RowsWhole
<1>6. catalog[t] = CatalogAt(lake, base[t].id)
  BY <1>2 DEF AtHead, RowInv, TxRows
<1>. QED
  BY <1>3, <1>4, <1>5, <1>6 DEF AtHead, Ids

(* Its changes are proper.                                                 *)
LEMMA ChangesAreProper ==
    ASSUME NEW t \in Tx, AtHead(t)
    PROVE  ProperChanges(changes[t], catalog[t], latest[t])
<1>1. pc[t] \in Active /\ pc[t] \in Committing
  BY DEF AtHead, Active, Committing
<1>2. Accepted(changes[t], catalog[t]) /\ \A c \in changes[t] : Sound(c, catalog[t])
  BY <1>1 DEF AtHead, RowInv, TxRows
<1>3. base[t] \in snapshots /\ latest[t] \in snapshots /\ base[t].id <= latest[t].id
  BY <1>1 DEF AtHead, IndInv, TxInv, BaseRetained
<1>4. base[t].next_catalog_id <= latest[t].next_catalog_id /\ base[t] \in Info /\ latest[t] \in Info
  BY <1>3 DEF AtHead, IndInv, DbInv, SnapshotsOrdered, TypeOK
<1>5. KnownChanges(changes[t], base[t])
  BY <1>1 DEF AtHead, IndInv, TxInv
<1>6. KnownChanges(changes[t], latest[t])
  BY <1>4, <1>5, KnownMonotone
<1>. QED
  BY <1>2, <1>6 DEF ProperChanges

(* The objects of a retained snapshot, read into a catalog or not.         *)
LEMMA SnapshotIsWhole ==
    ASSUME NEW t \in Tx, AtHead(t)
    PROVE  /\ WholeObjects(Live(lake.objects), latest[t])
           /\ WholeObjects(catalog[t].objects, latest[t])
           /\ IdsNameOne(Live(lake.objects) \union catalog[t].objects)
<1> DEFINE b == base[t].id
           V(s) == Visible(lake.objects, s)
           cat == catalog[t]
<1>1. /\ b \in Ids(snapshots) /\ HeadId \in Ids(snapshots) /\ cat = CatalogAt(lake, b)
      /\ V(HeadId) = Live(lake.objects)
  BY BaseFacts
<1>2. ASSUME NEW r \in lake.objects
      PROVE  /\ ObjectFields \subseteq DOMAIN r /\ KnownId(r.id, latest[t])
             /\ r.kind = "schema" => r.schema_id = NoId
  <2>1. Dated(r.begin, r.id)
    BY DEF AtHead, IndInv, DbInv, RowsDated
  <2>2. Head \in snapshots /\ Head.id = HeadId
    BY HeadFacts DEF AtHead, IndInv, DbInv
  <2>. QED
    BY <2>1, <2>2 DEF AtHead, RowInv, RowsWhole, Whole, Dated, KnownId
<1>3. ASSUME NEW s \in Ids(snapshots)
      PROVE  WholeObjects(V(s), latest[t])
  <2>1. NamesDiffer(V(s)) /\ NothingDangles(lake, s)
    BY DEF AtHead, RowInv, UniqueNames, NoDanglingRows
  <2>2. \A r \in V(s) : r.kind # "schema" => \E q \in V(s) : q.kind = "schema" /\ q.id = r.schema_id
    BY <2>1 DEF NothingDangles
  <2>. QED
    BY <1>2, <2>1, <2>2 DEF WholeObjects, Visible
<1>4. \A r \in lake.objects : ObjectFields \subseteq DOMAIN r
  BY <1>2
<1>5. /\ \A r \in lake.columns : ColumnFields \subseteq DOMAIN r
      /\ \A r \in lake.attributes : AttributeFields \subseteq DOMAIN r
  BY DEF AtHead, RowInv, RowsWhole, Whole
<1>6. /\ \A r \in cat.objects : \E q \in V(b) :
            Alike(q, r) /\ DOMAIN r = DOMAIN q /\ r = [q EXCEPT !.end = NULL]
      /\ \A q \in V(b) : \E r \in cat.objects : Alike(q, r)
  BY <1>1, <1>4, <1>5, CatalogRows
<1>7. WholeObjects(V(b), latest[t])
  BY <1>1, <1>3
<1>8. V(b) \subseteq lake.objects /\ Live(lake.objects) \subseteq lake.objects
  BY DEF Visible, Live
<1>9. IdsNameOne(lake.objects)
  BY DEF AtHead, RowInv
<1>. HIDE DEF V, cat, b
<1>10. WholeObjects(cat.objects, latest[t])
  <2>1. ASSUME NEW r \in cat.objects
        PROVE  /\ ObjectFields \subseteq DOMAIN r /\ KnownId(r.id, latest[t])
               /\ r.kind = "schema" => r.schema_id = NoId
    BY <1>6, <1>7 DEF WholeObjects, Alike, Same
  <2>2. ASSUME NEW r \in cat.objects, r.kind # "schema"
        PROVE  \E s \in cat.objects : s.kind = "schema" /\ s.id = r.schema_id
    BY <1>6, <1>7, <2>2 DEF WholeObjects, Alike, Same
  <2>3. NamesDiffer(V(b))
    BY <1>7 DEF WholeObjects
  <2>4. ASSUME NEW x \in cat.objects, NEW y \in cat.objects, x # y,
               x.kind = y.kind \/ {x.kind, y.kind} \subseteq Relation
        PROVE  <<x.schema_id, x.name>> # <<y.schema_id, y.name>> /\ x.id # y.id
    <3>1. PICK q \in V(b) : Alike(q, x) /\ x = [q EXCEPT !.end = NULL]
      BY <1>6
    <3>2. PICK r \in V(b) : Alike(r, y) /\ y = [r EXCEPT !.end = NULL]
      BY <1>6
    <3>3. q # r
      BY <2>4, <3>1, <3>2
    <3>. QED
      BY <2>3, <2>4, <3>1, <3>2, <3>3 DEF NamesDiffer, Alike, Same
  <2>5. NamesDiffer(cat.objects)
    BY <2>4 DEF NamesDiffer
  <2>. QED
    BY <2>1, <2>2, <2>5 DEF WholeObjects
<1>11. IdsNameOne(Live(lake.objects) \union cat.objects)
  <2>1. \A x \in Live(lake.objects) \union cat.objects : \E q \in lake.objects : Alike(q, x)
    BY <1>6, <1>8 DEF Alike, Same
  <2>. QED
    BY <1>9, <2>1 DEF IdsNameOne, Alike, Same
<1>. QED
  BY <1>1, <1>3, <1>10, <1>11 DEF cat

(* How a change is recorded (applied_change).                              *)
LEMMA AppliedAs ==
    ASSUME NEW cs, NEW info, NEW c, NEW a, a = applied_change(cs, info, c)
    PROVE  /\ c.op \in {"create", "rename"} => a = Created(c.kind, c.schema, c.name)
           /\ c.op = "delete" => a = About("dropped", c.kind, c.id)
           /\ c.op \in AlterOps => a = About("altered", "table", c.id)
BY DEF applied_change, AlterOps

(* The catalog of a transaction and the lake it commits to differ in       *)
(* nothing that the changes of the transaction rely on.                    *)
LEMMA AgreesAtHead ==
    ASSUME NEW t \in Tx, AtHead(t)
    PROVE  /\ Agrees(catalog[t], Live(lake.objects), changes[t], latest[t])
           /\ ColumnsAgree(catalog[t], Live(lake.columns), Live(lake.attributes), changes[t])
<1> DEFINE b == base[t].id
           cs == changes[t]
           info == latest[t]
           cat == catalog[t]
           L == Live(lake.objects)
           V == Visible(lake.objects, b)
<1>1. /\ cat = CatalogAt(lake, b) /\ b \in Ids(snapshots)
  BY BaseFacts
<1>2. KeptOrDropped(b) /\ OldOrCreated(b) /\ SameOrAltered(b)
  BY <1>1 DEF AtHead, RowInv, LogExplains
<1>3. /\ \A r \in cat.objects : \E q \in V : Alike(q, r)
      /\ \A q \in V : \E r \in cat.objects : Alike(q, r)
      /\ \A id : ColumnsOf(cat.columns, id) = ColumnsOf(Visible(lake.columns, b), id)
      /\ \A id : KeysOf(cat.attributes, id) = KeysOf(Visible(lake.attributes, b), id)
  <2>1. /\ \A r \in lake.objects : ObjectFields \subseteq DOMAIN r
        /\ \A r \in lake.columns : ColumnFields \subseteq DOMAIN r
        /\ \A r \in lake.attributes : AttributeFields \subseteq DOMAIN r
    BY DEF AtHead, RowInv, RowsWhole, Whole
  <2>. QED
    BY <1>1, <2>1, CatalogRows
<1>4. WholeObjects(L, info) /\ WholeObjects(cat.objects, info) /\ IdsNameOne(L \union cat.objects)
  BY SnapshotIsWhole
<1>5. ProperChanges(cs, cat, info)
  BY ChangesAreProper
<1>6. Schemas(t) = {r \in cat.objects : r.kind = "schema"}
  BY DEF Schemas
<1>. HIDE DEF b, cs, info, cat, L, V
<1>7. ASSUME NEW c \in cs, NEW e \in log, e.id > b, NEW d \in e.changes,
             NEW a, a = applied_change(cs, info, c)
      PROVE  /\ ~ NameClash(a, d) /\ ~ IdClash(a, d)
             /\ ~ SchemaClash(a, d, Schemas(t)) /\ ~ SchemaClash(d, a, Schemas(t))
  BY <1>7, NothingClashes DEF b, cs, info
<1>8. ASSUME NEW q \in cat.objects
      PROVE  (\E r \in L : Same(q, r)) \/ DroppedSince(q.kind, q.id, b)
  BY <1>2, <1>3 DEF KeptOrDropped, L, V, Alike, Same
<1>9. ASSUME NEW r \in L
      PROVE  \/ \E q \in cat.objects : Alike(q, r)
             \/ r.kind = "schema" /\ CreatedSince("schema", NoName, r.name, b)
             \/ /\ r.kind # "schema"
                /\ \E q \in L : q.kind = "schema" /\ q.id = r.schema_id
                                /\ CreatedSince(r.kind, q.name, r.name, b)
  BY <1>2, <1>3 DEF OldOrCreated, L, V, Alike, Same
<1>10. SchemasAgree(cat, L, cs)
  <2>1. ASSUME NEW c \in Ops(cs, "create"), NEW s \in cat.objects,
               c.kind # "schema", s.kind = "schema", s.name = c.schema
        PROVE  \E r \in L : Same(s, r)
    <3>1. c \in cs /\ applied_change(cs, info, c) = Created(c.kind, c.schema, c.name)
      BY AppliedAs DEF Ops
    <3>2. ASSUME DroppedSince("schema", s.id, b) PROVE FALSE
      <4>0. PICK e \in log : e.id > b /\ \E d \in e.changes :
               d.verb = "dropped" /\ d.kind = "schema" /\ d.id = s.id
        BY <3>2 DEF DroppedSince
      <4>1. PICK d \in e.changes : e.id > b /\ d.verb = "dropped" /\ d.kind = "schema" /\ d.id = s.id
        BY <4>0
      <4>. QED
        BY <1>6, <1>7, <2>1, <3>1, <4>1 DEF SchemaClash, DropsSchema, Created
    <3>. QED
      BY <1>8, <2>1, <3>2
  <2>2. ASSUME NEW c \in Ops(cs, "delete"), NEW r \in L,
               c.kind = "schema", r.kind # "schema", r.schema_id = c.id
        PROVE  \E q \in cat.objects : Alike(q, r)
    <3>1. c \in cs /\ c.op = "delete" /\ applied_change(cs, info, c) = About("dropped", "schema", c.id)
      BY <2>2, AppliedAs DEF Ops
    <3>2. PICK s \in cat.objects : s.kind = "schema" /\ s.id = c.id
      BY <1>5, <2>2, <3>1 DEF ProperChanges, Sound
    <3>3. ASSUME NEW q \in L, q.kind = "schema", q.id = r.schema_id,
                 CreatedSince(r.kind, q.name, r.name, b)
          PROVE  FALSE
      <4>1. q.name = s.name
        BY <1>4, <2>2, <3>2, <3>3 DEF IdsNameOne
      <4>2. PICK e \in log : e.id > b /\ Created(r.kind, q.name, r.name) \in e.changes
        BY <3>3 DEF CreatedSince
      <4>. QED
        BY <1>6, <1>7, <2>2, <3>1, <3>2, <4>1, <4>2 DEF SchemaClash, DropsSchema, Created, About
    <3>. QED
      BY <1>9, <2>2, <3>3
  <2>3. ASSUME NEW c \in Ops(cs, "create"), NEW r \in L,
               c.kind = "schema", r.kind = "schema", r.name = c.name
        PROVE  \E q \in cat.objects : Alike(q, r)
    <3>1. /\ c \in cs /\ c.op = "create"
          /\ applied_change(cs, info, c) = Created("schema", c.schema, c.name)
      BY <2>3, AppliedAs DEF Ops
    <3>2. c.schema = NoName
      BY <1>5, <2>3, <3>1 DEF ProperChanges, Sound
    <3>3. ASSUME CreatedSince("schema", NoName, r.name, b) PROVE FALSE
      <4>1. PICK e \in log : e.id > b /\ Created("schema", NoName, r.name) \in e.changes
        BY <3>3 DEF CreatedSince
      <4>. QED
        BY <1>7, <2>3, <3>1, <3>2, <4>1 DEF NameClash, Created
    <3>. QED
      BY <1>9, <2>3, <3>3
  <2>. QED
    BY <2>1, <2>2, <2>3 DEF SchemasAgree
<1>11. NamesAgree(cat, L, cs)
  <2>1. ASSUME NEW c \in Ops(cs, "create") \union Ops(cs, "rename"), NEW r \in L, NEW s \in L,
               c.kind # "schema", r.kind # "schema", Comparable(c.kind, r.kind), r.name = c.name,
               s.kind = "schema", s.id = r.schema_id, s.name = c.schema
        PROVE  \E q \in cat.objects : Alike(q, r)
    <3>1. c \in cs /\ applied_change(cs, info, c) = Created(c.kind, c.schema, c.name)
      BY AppliedAs DEF Ops
    <3>2. ASSUME NEW q \in L, q.kind = "schema", q.id = r.schema_id,
                 CreatedSince(r.kind, q.name, r.name, b)
          PROVE  FALSE
      <4>1. q.name = s.name
        BY <1>4, <2>1, <3>2 DEF IdsNameOne
      <4>2. PICK e \in log : e.id > b /\ Created(r.kind, q.name, r.name) \in e.changes
        BY <3>2 DEF CreatedSince
      <4>. QED
        BY <1>7, <2>1, <3>1, <4>1, <4>2 DEF NameClash, Created, Comparable
    <3>. QED
      BY <1>9, <2>1, <3>2
  <2>. QED
    BY <2>1 DEF NamesAgree
<1>12. TablesAgree(cat, L, cs)
  <2>1. ASSUME NEW c \in cs, NEW q \in cat.objects,
               c.op \in AlterOps \/ (c.op \in WriteOps /\ c.id # Pending),
               q.kind = "table", q.id = c.id
        PROVE  \E r \in L : Same(q, r)
    <3>1. \E v \in {"altered"} \union InsertVerb :
             applied_change(cs, info, c) = About(v, "table", c.id)
      <4>1. CASE c.op \in AlterOps
        BY <4>1, AppliedAs
      <4>2. CASE c.op \in WriteOps /\ c.id # Pending
        <5>1. \E v \in InsertVerb : applied_change(cs, info, c) = About(v, "table", c.id)
          BY <4>2 DEF applied_change, WriteOps, InsertVerb, table_id
        <5>. QED
          BY <5>1
      <4>. QED
        BY <2>1, <4>1, <4>2
    <3>2. ASSUME DroppedSince("table", c.id, b) PROVE FALSE
      <4>0. PICK e \in log : e.id > b /\ \E d \in e.changes :
               d.verb = "dropped" /\ d.kind = "table" /\ d.id = c.id
        BY <3>2 DEF DroppedSince
      <4>1. PICK d \in e.changes : e.id > b /\ d.verb = "dropped" /\ d.kind = "table" /\ d.id = c.id
        BY <4>0
      <4>. QED
        BY <1>7, <3>1, <4>1 DEF IdClash, About, InsertVerb, Relation
    <3>. QED
      BY <1>8, <2>1, <3>2
  <2>. QED
    BY <2>1 DEF TablesAgree
<1>13. ColumnsAgree(cat, Live(lake.columns), Live(lake.attributes), cs)
  <2>1. ASSUME NEW c \in cs, c.op \in AlterOps
        PROVE  /\ ColumnsOf(Live(lake.columns), c.id) = ColumnsOf(cat.columns, c.id)
               /\ KeysOf(Live(lake.attributes), c.id) = KeysOf(cat.attributes, c.id)
    <3>1. applied_change(cs, info, c) = About("altered", "table", c.id)
      BY <2>1, AppliedAs
    <3>2. ~ AlteredSince(c.id, b)
      <4> SUFFICES ASSUME AlteredSince(c.id, b) PROVE FALSE
        OBVIOUS
      <4>0. PICK e \in log : e.id > b /\ \E d \in e.changes :
               d.verb \in {"altered", "dropped"} /\ d.kind = "table" /\ d.id = c.id
        BY DEF AlteredSince
      <4>1. PICK d \in e.changes : e.id > b /\ d.verb \in {"altered", "dropped"} /\ d.kind = "table" /\ d.id = c.id
        BY <4>0
      <4>. QED
        BY <1>7, <3>1, <4>1 DEF IdClash, About, Relation
    <3>3. HasTable(cat, c.id)
      <4>1. Sound(c, cat)
        BY <1>5 DEF ProperChanges
      <4>. QED
        BY <2>1, <4>1 DEF Sound
    <3>4. PICK q \in V : q.kind = "table" /\ q.id = c.id
      BY <1>3, <3>3 DEF HasTable, Alike, Same
    <3>. QED
      BY <1>2, <1>3, <3>2, <3>4 DEF SameOrAltered, V
  <2>. QED
    BY <2>1 DEF ColumnsAgree
<1>. QED
  BY <1>4, <1>10, <1>11, <1>12, <1>13 DEF Agrees, b, cs, info, cat, L

-----------------------------------------------------------------------------
(* A commit seen from its own snapshot and from the snapshots before it.   *)

NoneDangles(O, C, F, A) ==
    /\ \A r \in O : r.kind # "schema" => \E q \in O : q.kind = "schema" /\ q.id = r.schema_id
    /\ \A r \in C : TableIn(O, r.table)
    /\ \A r \in F : TableIn(O, r.table)
    /\ \A r \in A : TableIn(O, r.table) /\ (r.key \in Indexed => r.column \in ColumnsOf(C, r.table))

(* The two ways to say that nothing dangles.                               *)
LEMMA DanglesAs ==
    ASSUME NEW l, NEW s
    PROVE  NothingDangles(l, s) <=>
             NoneDangles(Visible(l.objects, s), Visible(l.columns, s),
                         Visible(l.files, s), Visible(l.attributes, s))
<1>1. ASSUME NEW O, NEW id
      PROVE  id \in {r.id : r \in {o \in O : o.kind = "table"}} <=> TableIn(O, id)
  BY DEF TableIn
<1>. QED
  BY <1>1 DEF NothingDangles, NoneDangles

(* Nothing dangles in the snapshot a commit creates.                       *)
LEMMA NoneDanglesAfter ==
    ASSUME NEW cs, NEW info \in Info, NEW cat, NEW L, NEW N, ProperChanges(cs, cat, info),
           Agrees(cat, L, cs, info), MadeOf(N, L, cs, info, cat),
           NEW C, NEW F, NEW A, ColumnsAgree(cat, C, A, cs), NoneDangles(L, C, F, A),
           NEW sts, NEW C2, NEW F2, NEW A2,
           C2 = {r \in C : ~ retires_column(cs, r)} \union AddedColumns(cs, info),
           F2 = {r \in F : ~ dropped_table(cs, r.table)} \union AddedFiles(cs, info, sts),
           A2 = {r \in A : ~ retires_attribute(cs, r)} \union AddedAttributes(cs, info)
    PROVE  NoneDangles(N, C2, F2, A2)
<1>1. /\ \A id : TableIn(L, id) /\ ~ dropped_table(cs, id) => TableIn(N, id)
      /\ \A c \in cs : c.op \in AlterOps => ~ dropped_table(cs, c.id) /\ TableIn(N, c.id)
      /\ \A c \in cs : c.op \in WriteOps => TableIn(N, table_id(cs, info, c))
      /\ "table" \in CreatedKinds(cs) => TableIn(N, catalog_id(cs, info, "table"))
  BY TablesAfter
<1>2. \A r \in N : r.kind # "schema" => \E q \in N : q.kind = "schema" /\ q.id = r.schema_id
  BY SchemasAfter
<1>3. ASSUME NEW r \in C2 PROVE TableIn(N, r.table)
  <2>1. CASE r \in C /\ ~ retires_column(cs, r)
    BY <1>1, <2>1 DEF NoneDangles, retires_column
  <2>2. CASE r \in AddedColumns(cs, info)
    <3>1. \/ \E c \in Ops(cs, "add_column") : r.table = c.id
          \/ r.table = catalog_id(cs, info, "table") /\ "table" \in CreatedKinds(cs)
      BY <2>2 DEF AddedColumns, CreatedKinds
    <3>. QED
      BY <1>1, <3>1 DEF Ops, AlterOps
  <2>. QED
    BY <2>1, <2>2
<1>4. ASSUME NEW r \in F2 PROVE TableIn(N, r.table)
  <2>1. CASE r \in F /\ ~ dropped_table(cs, r.table)
    BY <1>1, <2>1 DEF NoneDangles
  <2>2. CASE r \in AddedFiles(cs, info, sts)
    <3>1. \E c \in Ops(cs, "write_files") : r.table = table_id(cs, info, c)
      BY <2>2 DEF AddedFiles
    <3>. QED
      BY <1>1, <3>1 DEF Ops, WriteOps
  <2>. QED
    BY <2>1, <2>2
<1>5. ASSUME NEW r \in A2 PROVE TableIn(N, r.table)
  <2>1. CASE r \in A /\ ~ retires_attribute(cs, r)
    BY <1>1, <2>1 DEF NoneDangles, retires_attribute
  <2>2. CASE r \in AddedAttributes(cs, info)
    <3>1. \E c \in Ops(cs, "set") : r.table = c.id
      BY <2>2 DEF AddedAttributes
    <3>. QED
      BY <1>1, <3>1 DEF Ops, AlterOps
  <2>. QED
    BY <2>1, <2>2
<1>6. ASSUME NEW r \in A2, r.key \in Indexed
      PROVE  r.column \in ColumnsOf(C2, r.table)
  <2>1. \A x \in C : ~ retires_column(cs, x) => x \in C2
    OBVIOUS
  <2>2. \/ r \in A /\ ~ retires_attribute(cs, r) /\ r.column \in ColumnsOf(C, r.table)
        \/ r \in AddedAttributes(cs, info)
    BY <1>6 DEF NoneDangles
  <2>3. \A c \in cs : c.op \in AlterOps => ~ dropped_table(cs, c.id)
    BY <1>1
  <2>. QED
    BY ONLY ProperChanges(cs, cat, info), ColumnsAgree(cat, C, A, cs), info \in Info,
       <1>6, <2>1, <2>2, <2>3, KeysAfter
<1>. QED
  BY <1>2, <1>3, <1>4, <1>5, <1>6 DEF NoneDangles

\* Two sets of rows that differ in ends at most.
Mirrors(X, Q, fields) ==
    /\ \A x \in X : \E q \in Q : \A f \in fields : f # "end" => x[f] = q[f]
    /\ \A q \in Q : \E x \in X : \A f \in fields : f # "end" => x[f] = q[f]

(* An older snapshot shows the same rows, up to their ends.                *)
LEMMA PastMirrors ==
    ASSUME NEW rows, NEW fields, NEW h, NEW k \in Nat, Whole(rows, fields, h),
           {"begin", "end"} \subseteq fields,
           NEW hit, NEW added, WrittenFor(added, fields, k),
           NEW new, new = Retire(rows, k, hit) \union added,
           NEW s \in Nat, s < k
    PROVE  /\ Mirrors(Visible(new, s), Visible(rows, s), fields)
           /\ AsOf(new, s) = AsOf(rows, s)
<1>1. Intervals(rows) /\ \A r \in rows : fields \subseteq DOMAIN r
  BY DEF Whole, Intervals
<1>0. ShownAs(new, rows, s, k, hit)
  <2>1. \A r \in added : r.begin = k
    BY DEF WrittenFor
  <2>. QED
    BY <1>1, <2>1, PastRows
<1>2. /\ \A q \in Visible(new, s) : \E r \in Visible(rows, s) : q = After(r, k, hit)
      /\ \A r \in Visible(rows, s) : After(r, k, hit) \in Visible(new, s)
      /\ AsOf(new, s) = AsOf(rows, s)
  BY <1>0 DEF ShownAs
<1>3. ASSUME NEW r \in Visible(rows, s)
      PROVE  \A f \in fields : f # "end" => After(r, k, hit)[f] = r[f]
  <2>1. fields \subseteq DOMAIN r
    BY <1>1 DEF Visible
  <2>2. \A g \in DOMAIN r : g # "end" => After(r, k, hit)[g] = r[g]
    BY <1>0 DEF ShownAs, KeepsFields
  <2>. QED
    BY <2>1, <2>2
<1>4. ASSUME NEW x \in Visible(new, s)
      PROVE  \E q \in Visible(rows, s) : \A f \in fields : f # "end" => x[f] = q[f]
  <2>1. PICK q \in Visible(rows, s) : x = After(q, k, hit)
    BY <1>2
  <2>. QED
    BY <1>3, <2>1
<1>5. ASSUME NEW q \in Visible(rows, s)
      PROVE  \E x \in Visible(new, s) : \A f \in fields : f # "end" => x[f] = q[f]
  BY <1>2, <1>3
<1>. QED
  BY <1>2, <1>4, <1>5 DEF Mirrors

(* Names that differed still do.                                           *)
LEMMA PastNames ==
    ASSUME NEW rows, NEW h, NEW k \in Nat, Whole(rows, ObjectFields, h),
           NEW hit, NEW added, WrittenFor(added, ObjectFields, k),
           NEW new, new = Retire(rows, k, hit) \union added,
           NEW s \in Nat, s < k, NamesDiffer(Visible(rows, s))
    PROVE  NamesDiffer(Visible(new, s))
<1>1. Intervals(rows) /\ \A r \in rows : ObjectFields \subseteq DOMAIN r
  BY DEF Whole, Intervals, ObjectFields
<1>0. ShownAs(new, rows, s, k, hit)
  <2>1. \A r \in added : r.begin = k
    BY DEF WrittenFor
  <2>. QED
    BY <1>1, <2>1, PastRows
<1>2. \A q \in Visible(new, s) : \E r \in Visible(rows, s) : q = After(r, k, hit)
  BY <1>0 DEF ShownAs
<1>3. ASSUME NEW r \in Visible(rows, s), NEW q, q = After(r, k, hit)
      PROVE  q.kind = r.kind /\ q.id = r.id /\ q.schema_id = r.schema_id /\ q.name = r.name
  <2>1. ObjectFields \subseteq DOMAIN r
    BY <1>1 DEF Visible
  <2>2. \A g \in DOMAIN r : g # "end" => After(r, k, hit)[g] = r[g]
    BY <1>0 DEF ShownAs, KeepsFields
  <2>. QED
    BY <1>3, <2>1, <2>2 DEF ObjectFields
<1>4. ASSUME NEW x \in Visible(new, s), NEW y \in Visible(new, s), x # y,
             x.kind = y.kind \/ {x.kind, y.kind} \subseteq Relation
      PROVE  <<x.schema_id, x.name>> # <<y.schema_id, y.name>> /\ x.id # y.id
  <2>1. PICK q \in Visible(rows, s) : x = After(q, k, hit)
    BY <1>2
  <2>2. PICK r \in Visible(rows, s) : y = After(r, k, hit)
    BY <1>2
  <2>3. q # r
    BY <1>4, <2>1, <2>2
  <2>4. q.kind = r.kind \/ {q.kind, r.kind} \subseteq Relation
    BY <1>3, <1>4, <2>1, <2>2
  <2>5. <<q.schema_id, q.name>> # <<r.schema_id, r.name>> /\ q.id # r.id
    BY <2>3, <2>4 DEF NamesDiffer
  <2>. QED
    BY <1>3, <2>1, <2>2, <2>5
<1>. QED
  BY <1>4 DEF NamesDiffer

(* Nothing comes to dangle in the past.                                    *)
LEMMA MirrorsDangle ==
    ASSUME NEW O, NEW C, NEW F, NEW A, NoneDangles(O, C, F, A),
           NEW O2, NEW C2, NEW F2, NEW A2,
           Mirrors(O2, O, ObjectFields), Mirrors(C2, C, ColumnFields),
           Mirrors(F2, F, FileFields), Mirrors(A2, A, AttributeFields)
    PROVE  NoneDangles(O2, C2, F2, A2)
<1>1. /\ \A x \in O2 : \E q \in O : x.kind = q.kind /\ x.id = q.id /\ x.schema_id = q.schema_id
      /\ \A q \in O : \E x \in O2 : x.kind = q.kind /\ x.id = q.id /\ x.schema_id = q.schema_id
  BY DEF Mirrors, ObjectFields
<1>2. /\ \A x \in C2 : \E q \in C : x.table = q.table
      /\ \A q \in C : \E x \in C2 : x.table = q.table /\ x.column = q.column
  BY DEF Mirrors, ColumnFields
<1>3. \A x \in F2 : \E q \in F : x.table = q.table
  BY DEF Mirrors, FileFields
<1>4. \A x \in A2 : \E q \in A : x.table = q.table /\ x.key = q.key /\ x.column = q.column
  BY DEF Mirrors, AttributeFields
<1>5. \A id : TableIn(O, id) => TableIn(O2, id)
  BY <1>1 DEF TableIn
<1>6. \A id, n : n \in ColumnsOf(C, id) => n \in ColumnsOf(C2, id)
  BY <1>2 DEF ColumnsOf
<1>7. \A r \in O2 : r.kind # "schema" => \E q \in O2 : q.kind = "schema" /\ q.id = r.schema_id
  BY <1>1 DEF NoneDangles
<1>. QED
  BY <1>2, <1>3, <1>4, <1>5, <1>6, <1>7 DEF NoneDangles

(* Columns and keys are the same, too.                                     *)
LEMMA MirrorsColumns ==
    ASSUME NEW C, NEW A, NEW C2, NEW A2, NEW id,
           Mirrors(C2, C, ColumnFields), Mirrors(A2, A, AttributeFields)
    PROVE  ColumnsOf(C2, id) = ColumnsOf(C, id) /\ KeysOf(A2, id) = KeysOf(A, id)
<1>1. /\ \A x \in C2 : \E q \in C : x.table = q.table /\ x.column = q.column
      /\ \A q \in C : \E x \in C2 : x.table = q.table /\ x.column = q.column
  BY DEF Mirrors, ColumnFields
<1>2. /\ \A x \in A2 : \E q \in A : x.table = q.table /\ x.key = q.key /\ x.column = q.column
      /\ \A q \in A : \E x \in A2 : x.table = q.table /\ x.key = q.key /\ x.column = q.column
  BY DEF Mirrors, AttributeFields
<1>3. ColumnsOf(C2, id) = ColumnsOf(C, id)
  BY <1>1 DEF ColumnsOf
<1>4. KeysOf(A2, id) = KeysOf(A, id)
  BY <1>2 DEF KeysOf
<1>. QED
  BY <1>3, <1>4

-----------------------------------------------------------------------------
(* The lake a commit leaves.                                               *)

LiveAfter(new, l, cs, info, cat, sts) ==
    /\ MadeOf(Live(new.objects), Live(l.objects), cs, info, cat)
    /\ Live(new.columns) = {r \in Live(l.columns) : ~ retires_column(cs, r)}
                             \union AddedColumns(cs, info)
    /\ Live(new.attributes) = {r \in Live(l.attributes) : ~ retires_attribute(cs, r)}
                                \union AddedAttributes(cs, info)
    /\ Live(new.files) = {r \in Live(l.files) : ~ dropped_table(cs, r.table)}
                           \union AddedFiles(cs, info, sts)

WholeLake(l, h) ==
    /\ Whole(l.objects, ObjectFields, h) /\ Whole(l.columns, ColumnFields, h)
    /\ Whole(l.attributes, AttributeFields, h) /\ Whole(l.files, FileFields, h)

(* A commit that can take place builds on the head, with proper changes.   *)
LEMMA PersistShape ==
    ASSUME NEW t \in Tx, AtHead(t), NEW k, k = latest[t].id + 1,
           NEW new, new = persist(lake, changes[t], latest[t], catalog[t], stats[t])
    PROVE  /\ k \in Nat /\ k = HeadId + 1 /\ WholeLake(lake, HeadId)
           /\ CommitOf(new, lake, changes[t], latest[t], catalog[t], stats[t], k)
<1>1. HeadId \in Nat /\ latest[t] \in Info /\ latest[t].id = HeadId
  BY BaseFacts
<1>2. WholeLake(lake, HeadId)
  BY DEF AtHead, RowInv, RowsWhole, WholeLake
<1>3. NoneEndsAt(lake.objects, k)
  BY <1>1, <1>2 DEF NoneEndsAt, WholeLake, Whole, Within, NULL
<1>4. RenamesTables(changes[t])
  <2>1. ProperChanges(changes[t], catalog[t], latest[t])
    BY ChangesAreProper
  <2>. QED
    BY <2>1 DEF ProperChanges, Sound, Ops, RenamesTables
<1>5. CommitOf(new, lake, changes[t], latest[t], catalog[t], stats[t], k)
  BY <1>1, <1>3, <1>4, PersistRetiresAndAdds
<1>. QED
  BY <1>1, <1>2, <1>5

(* What is alive afterwards.                                               *)
LEMMA LiveAfterCommit ==
    ASSUME NEW new, NEW l, NEW cs, NEW info \in Info, NEW cat, NEW sts, NEW k \in Nat, NEW h,
           WholeLake(l, h), CommitOf(new, l, cs, info, cat, sts, k)
    PROVE  LiveAfter(new, l, cs, info, cat, sts)
<1>1. /\ Intervals(l.objects) /\ Intervals(l.columns)
      /\ Intervals(l.attributes) /\ Intervals(l.files)
      /\ \A r \in l.objects : ObjectFields \subseteq DOMAIN r
  BY DEF WholeLake, Whole, Intervals, ObjectFields, ColumnFields, AttributeFields, FileFields
<1>2. /\ WrittenFor(AddedObjects(l, cs, info, cat), ObjectFields, k)
      /\ WrittenFor(AddedColumns(cs, info), ColumnFields, k)
      /\ WrittenFor(AddedAttributes(cs, info), AttributeFields, k)
      /\ WrittenFor(AddedFiles(cs, info, sts), FileFields, k)
  BY DEF CommitOf
<1>3. LivesOn(new.objects, l.objects, HitObjects(l.objects, cs), AddedObjects(l, cs, info, cat))
  <2>1. new.objects = Retire(l.objects, k, HitObjects(l.objects, cs)) \union AddedObjects(l, cs, info, cat)
    BY DEF CommitOf
  <2>. QED
    BY <1>1, <1>2, <2>1, LiveRows
<1>4. LivesOn(new.columns, l.columns, HitColumns(l.columns, cs), AddedColumns(cs, info))
  <2>1. new.columns = Retire(l.columns, k, HitColumns(l.columns, cs)) \union AddedColumns(cs, info)
    BY DEF CommitOf
  <2>. QED
    BY <1>1, <1>2, <2>1, LiveRows
<1>5. LivesOn(new.attributes, l.attributes, HitAttributes(l.attributes, cs), AddedAttributes(cs, info))
  <2>1. new.attributes = Retire(l.attributes, k, HitAttributes(l.attributes, cs)) \union AddedAttributes(cs, info)
    BY DEF CommitOf
  <2>. QED
    BY <1>1, <1>2, <2>1, LiveRows
<1>6. LivesOn(new.files, l.files, HitFiles(l.files, cs), AddedFiles(cs, info, sts))
  <2>1. new.files = Retire(attached(l.files, cs), k, HitFiles(l.files, cs))
                      \union AddedFiles(cs, info, sts)
    BY DEF CommitOf
  <2>2. Intervals(attached(l.files, cs))
    BY <1>1 DEF Intervals, attached
  <2>3. LivesOn(new.files, attached(l.files, cs), HitFiles(l.files, cs), AddedFiles(cs, info, sts))
    BY <1>2, <2>1, <2>2, LiveRows
  <2>4. Live(attached(l.files, cs)) \ HitFiles(l.files, cs) = Live(l.files) \ HitFiles(l.files, cs)
    BY DetachedIsDropped DEF Live, attached, HitFiles
  <2>. QED
    BY <2>3, <2>4 DEF LivesOn
<1>7. MadeOf(Live(new.objects), Live(l.objects), cs, info, cat)
  <2>1. Live(new.objects) = (Live(l.objects) \ HitObjects(l.objects, cs)) \union AddedObjects(l, cs, info, cat)
    BY <1>3 DEF LivesOn
  <2>. QED
    BY <1>1, <2>1, LiveObjectsAfter
<1>8. Live(l.columns) \ HitColumns(l.columns, cs) = {r \in Live(l.columns) : ~ retires_column(cs, r)}
  BY DEF Live, HitColumns
<1>9. Live(l.attributes) \ HitAttributes(l.attributes, cs)
        = {r \in Live(l.attributes) : ~ retires_attribute(cs, r)}
  BY DEF Live, HitAttributes
<1>10. Live(l.files) \ HitFiles(l.files, cs) = {r \in Live(l.files) : ~ dropped_table(cs, r.table)}
  BY DEF Live, HitFiles
<1>. QED
  BY <1>4, <1>5, <1>6, <1>7, <1>8, <1>9, <1>10 DEF LiveAfter, LivesOn

(* The rows stay whole.                                                    *)
LEMMA WholeAfterCommit ==
    ASSUME NEW new, NEW l, NEW cs, NEW info \in Info, NEW cat, NEW sts, NEW h \in Nat, NEW k,
           k = h + 1, WholeLake(l, h), CommitOf(new, l, cs, info, cat, sts, k)
    PROVE  WholeLake(new, k)
<1>0. /\ {"begin", "end"} \subseteq ObjectFields /\ {"begin", "end"} \subseteq ColumnFields
      /\ {"begin", "end"} \subseteq AttributeFields /\ {"begin", "end"} \subseteq FileFields
  BY DEF ObjectFields, ColumnFields, AttributeFields, FileFields
<1>1. Whole(new.objects, ObjectFields, k)
  BY <1>0, WholeAfter DEF CommitOf, WholeLake
<1>2. Whole(new.columns, ColumnFields, k)
  BY <1>0, WholeAfter DEF CommitOf, WholeLake
<1>3. Whole(new.attributes, AttributeFields, k)
  BY <1>0, WholeAfter DEF CommitOf, WholeLake
<1>4. Whole(new.files, FileFields, k)
  <2>1. Whole(attached(l.files, cs), FileFields, h)
    BY DEF WholeLake, Whole, attached
  <2>. QED
    BY <1>0, <2>1, WholeAfter DEF CommitOf
<1>. QED
  BY <1>1, <1>2, <1>3, <1>4 DEF WholeLake

-----------------------------------------------------------------------------
(* The invariant after a commit.  new is the lake that transaction t       *)
(* leaves, k its snapshot.                                                 *)

Commits(t, k, new) ==
    /\ k \in Nat /\ HeadId \in Nat /\ k = HeadId + 1 /\ latest[t] \in Info /\ latest[t].id = HeadId
    /\ WholeLake(lake, HeadId) /\ WholeLake(new, k)
    /\ CommitOf(new, lake, changes[t], latest[t], catalog[t], stats[t], k)
    /\ LiveAfter(new, lake, changes[t], latest[t], catalog[t], stats[t])
    /\ ProperChanges(changes[t], catalog[t], latest[t])
    /\ Agrees(catalog[t], Live(lake.objects), changes[t], latest[t])
    /\ ColumnsAgree(catalog[t], Live(lake.columns), Live(lake.attributes), changes[t])

(* What persist writes is such a commit.                                   *)
LEMMA PersistCommits ==
    ASSUME NEW t \in Tx, AtHead(t), NEW k, k = latest[t].id + 1,
           NEW new, new = persist(lake, changes[t], latest[t], catalog[t], stats[t])
    PROVE  Commits(t, k, new)
<1>1. /\ k \in Nat /\ k = HeadId + 1 /\ WholeLake(lake, HeadId)
      /\ CommitOf(new, lake, changes[t], latest[t], catalog[t], stats[t], k)
  BY PersistShape
<1>2. HeadId \in Nat /\ latest[t] \in Info /\ latest[t].id = HeadId
  BY BaseFacts
<1>3. LiveAfter(new, lake, changes[t], latest[t], catalog[t], stats[t])
  BY <1>1, <1>2, LiveAfterCommit
<1>4. WholeLake(new, k)
  BY <1>1, <1>2, WholeAfterCommit
<1>. QED
  BY <1>1, <1>2, <1>3, <1>4, ChangesAreProper, AgreesAtHead DEF Commits

\* The objects of the new lake stem from old ones, or are new.
StemsFrom(x, o) == Same(x, o) /\ (x.kind # "table" => x.name = o.name)

(* Where the rows of objects come from.                                    *)
LEMMA ObjectsStem ==
    ASSUME NEW t \in Tx, AtHead(t), NEW k, NEW new, Commits(t, k, new), NEW x \in new.objects
    PROVE  \/ \E o \in lake.objects : StemsFrom(x, o)
           \/ \E c : IsNew(x, c, changes[t], latest[t], catalog[t])
<1> DEFINE cs == changes[t]
           info == latest[t]
           cat == catalog[t]
           L == Live(lake.objects)
           hit == HitObjects(lake.objects, cs)
           added == AddedObjects(lake, cs, info, cat)
<1>1. \A r \in lake.objects : ObjectFields \subseteq DOMAIN r
  BY DEF Commits, WholeLake, Whole
<1>2. \A r \in lake.objects : {"begin", "end"} \subseteq DOMAIN r
  BY <1>1 DEF ObjectFields
<1>3. k \in Nat /\ x \in Retire(lake.objects, k, hit) \union added
  BY DEF Commits, CommitOf
<1>4. OldOrNew(x, lake.objects, k, hit, added)
  BY <1>2, <1>3, RowsAfter
<1>5. CASE x \in lake.objects
  BY <1>5 DEF StemsFrom, Same
<1>6. ASSUME NEW r \in lake.objects, DOMAIN x = DOMAIN r, \A f \in DOMAIN r : f # "end" => x[f] = r[f]
      PROVE  StemsFrom(x, r)
  BY <1>1, <1>6 DEF StemsFrom, Same, ObjectFields
<1>7. CASE x \in added
  <2>1. WrittenFor(added, ObjectFields, k)
    BY DEF Commits, CommitOf
  <2>2. x.end = NULL /\ x \in new.objects
    BY <1>7, <2>1 DEF WrittenFor
  <2>3. x \in Live(new.objects)
    BY <2>2 DEF Live
  <2>4. MadeOf(Live(new.objects), L, cs, info, cat)
    BY DEF Commits, LiveAfter
  <2>5. \/ IsKept(x, L, cs) \/ (\E r, c : IsCopy(x, r, c, L, cs, info))
        \/ \E c : IsNew(x, c, cs, info, cat)
    BY <2>3, <2>4 DEF MadeOf
  <2>6. CASE IsKept(x, L, cs)
    BY <2>6 DEF IsKept, Live, StemsFrom, Same
  <2>7. ASSUME NEW r, NEW c, IsCopy(x, r, c, L, cs, info)
        PROVE  r \in lake.objects /\ StemsFrom(x, r)
    BY <2>7 DEF IsCopy, Live, StemsFrom, Same, Renames
  <2>. QED
    BY <2>5, <2>6, <2>7
<1>. QED
  BY <1>4, <1>5, <1>6, <1>7 DEF OldOrNew

(* IDs still name one object each.                                         *)
LEMMA IdsAfter ==
    ASSUME NEW t \in Tx, AtHead(t), NEW k, NEW new, Commits(t, k, new)
    PROVE  /\ IdsNameOne(new.objects)
           /\ \A r \in new.objects : r.kind = "schema" => r.schema_id = NoId
<1> DEFINE cs == changes[t]
           info == latest[t]
           cat == catalog[t]
<1>1. /\ IdsNameOne(lake.objects)
      /\ \A r \in lake.objects : r.kind = "schema" => r.schema_id = NoId
  BY DEF AtHead, RowInv, RowsWhole
<1>2. \A r \in lake.objects : KnownId(r.id, info)
  <2>1. \A r \in lake.objects : Dated(r.begin, r.id)
    BY DEF AtHead, IndInv, DbInv, RowsDated
  <2>2. Head \in snapshots /\ Head.id = HeadId
    BY HeadFacts DEF AtHead, IndInv, DbInv
  <2>. QED
    BY <2>1, <2>2 DEF AtHead, Dated, KnownId
<1>3. ASSUME NEW x, NEW c, IsNew(x, c, cs, info, cat)
      PROVE  /\ c \in Ops(cs, "create") /\ x.id = catalog_id(cs, info, c.kind)
             /\ ~ KnownId(x.id, info) /\ x = NewObject(c, cs, info, cat)
             /\ x.kind = "schema" => x.schema_id = NoId
             /\ \A d \in Ops(cs, "create") : c # d => x.id # catalog_id(cs, info, d.kind)
  <2>1. c \in Ops(cs, "create") /\ ProperChanges(cs, cat, info) /\ info \in Info
    BY <1>3 DEF IsNew, Commits
  <2>2. /\ ~ KnownId(catalog_id(cs, info, c.kind), info)
        /\ \A d \in Ops(cs, "create") : c # d =>
              c.kind # d.kind /\ catalog_id(cs, info, c.kind) # catalog_id(cs, info, d.kind)
    BY <2>1, NewIds
  <2>. QED
    BY <1>3, <2>1, <2>2 DEF IsNew
<1>. HIDE DEF cs, info, cat
<1>4. ASSUME NEW x \in new.objects
      PROVE  \/ \E o \in lake.objects : StemsFrom(x, o)
             \/ \E c : IsNew(x, c, cs, info, cat)
  BY ObjectsStem DEF cs, info, cat
<1>5. ASSUME NEW q \in new.objects, NEW r \in new.objects, q.id = r.id
      PROVE  q.kind = r.kind /\ q.schema_id = r.schema_id /\ (q.kind # "table" => q.name = r.name)
  <2>1. ASSUME NEW o \in lake.objects, StemsFrom(q, o), NEW p \in lake.objects, StemsFrom(r, p)
        PROVE  q.kind = r.kind /\ q.schema_id = r.schema_id /\ (q.kind # "table" => q.name = r.name)
    <3>1. o.id = p.id
      BY <1>5, <2>1 DEF StemsFrom, Same
    <3>2. o.kind = p.kind /\ o.schema_id = p.schema_id /\ (o.kind # "table" => o.name = p.name)
      BY <1>1, <3>1 DEF IdsNameOne
    <3>. QED
      BY <2>1, <3>2 DEF StemsFrom, Same
  <2>2. ASSUME NEW o \in lake.objects, StemsFrom(q, o), NEW c, IsNew(r, c, cs, info, cat)
        PROVE  FALSE
    BY <1>2, <1>3, <1>5, <2>2 DEF StemsFrom, Same
  <2>3. ASSUME NEW o \in lake.objects, StemsFrom(r, o), NEW c, IsNew(q, c, cs, info, cat)
        PROVE  FALSE
    BY <1>2, <1>3, <1>5, <2>3 DEF StemsFrom, Same
  <2>4. ASSUME NEW c, IsNew(q, c, cs, info, cat), NEW d, IsNew(r, d, cs, info, cat)
        PROVE  q = r
    <3>1. /\ c \in Ops(cs, "create") /\ d \in Ops(cs, "create")
          /\ q = NewObject(c, cs, info, cat) /\ r = NewObject(d, cs, info, cat)
          /\ r.id = catalog_id(cs, info, d.kind)
      BY <1>3, <2>4
    <3>2. c = d
      BY <1>3, <1>5, <2>4, <3>1
    <3>. QED
      BY <3>1, <3>2
  <2>. QED
    BY <1>4, <2>1, <2>2, <2>3, <2>4
<1>6. ASSUME NEW r \in new.objects, r.kind = "schema"
      PROVE  r.schema_id = NoId
  <2>1. ASSUME NEW o \in lake.objects, StemsFrom(r, o) PROVE r.schema_id = NoId
    BY <1>1, <1>6, <2>1 DEF StemsFrom, Same
  <2>. QED
    BY <1>3, <1>4, <1>6, <2>1
<1>. QED
  BY <1>5, <1>6 DEF IdsNameOne

(* Schema versions stay in order, and separate the rows of the catalog.    *)
LEMMA VersionsAfter ==
    ASSUME NEW t \in Tx, AtHead(t), NEW k, NEW new, Commits(t, k, new),
           NEW n, n = NewSnapshot(changes[t], latest[t])
    PROVE  /\ \A q, r \in snapshots \union {n} : q.id <= r.id => q.schema_version <= r.schema_version
           /\ SchemaDated(new.objects, snapshots \union {n})
           /\ SchemaDated(new.columns, snapshots \union {n})
           /\ SchemaDated(new.attributes, snapshots \union {n})
<1> DEFINE cs == changes[t]
           info == latest[t]
           cat == catalog[t]
           S == snapshots
           h == Head
<1>1. /\ k \in Nat /\ HeadId \in Nat /\ k = HeadId + 1 /\ info = h /\ h.id = HeadId /\ info \in Info
      /\ h \in S /\ \A r \in S : r.id <= h.id
  BY HeadFacts DEF Commits, AtHead, IndInv, DbInv
<1>2. /\ \A r \in S : r.id \in Nat /\ r.schema_version \in Nat
      /\ \A q, r \in S : q.id <= r.id => q.schema_version <= r.schema_version
      /\ SchemaDated(lake.objects, S) /\ SchemaDated(lake.columns, S)
      /\ SchemaDated(lake.attributes, S)
  BY DEF AtHead, IndInv, DbInv, SnapshotsOrdered, RowInv, VersionsOrdered, Info
<1>3. /\ n.id = info.id + 1
      /\ n.schema_version = info.schema_version + (IF changes_schema(cs) THEN 1 ELSE 0)
  BY DEF NewSnapshot
<1>. HIDE DEF cs, info, cat, S, h
<1>4. n.schema_version \in Nat /\ h.schema_version <= n.schema_version
  BY <1>1, <1>2, <1>3
<1>5. Follows(n, h, S)
  BY <1>1, <1>2, <1>3, <1>4 DEF Follows
<1>6. \A q, r \in S \union {n} : q.id <= r.id => q.schema_version <= r.schema_version
  BY <1>1, <1>2, <1>3, <1>5 DEF Follows
<1>7. \/ h.schema_version < n.schema_version
      \/ /\ HitObjects(lake.objects, cs) = {} /\ HitColumns(lake.columns, cs) = {}
         /\ HitAttributes(lake.attributes, cs) = {}
         /\ AddedObjects(lake, cs, info, cat) = {} /\ AddedColumns(cs, info) = {}
         /\ AddedAttributes(cs, info) = {}
  <2>1. CASE changes_schema(cs)
    BY <1>1, <1>2, <1>3, <2>1
  <2>2. CASE ~ changes_schema(cs)
    BY <1>1, <2>2, WritesLeaveCatalog
  <2>. QED
    BY <2>1, <2>2
<1>8. /\ Whole(lake.objects, ObjectFields, h.id) /\ Whole(lake.columns, ColumnFields, h.id)
      /\ Whole(lake.attributes, AttributeFields, h.id)
  BY <1>1 DEF Commits, WholeLake
<1>9. /\ {"begin", "end"} \subseteq ObjectFields /\ {"begin", "end"} \subseteq ColumnFields
      /\ {"begin", "end"} \subseteq AttributeFields
  BY DEF ObjectFields, ColumnFields, AttributeFields
<1>10. k = h.id + 1
  BY <1>1
<1>11. SchemaDated(new.objects, S \union {n})
  <2> DEFINE hit == HitObjects(lake.objects, cs)
             added == AddedObjects(lake, cs, info, cat)
  <2>1. WrittenFor(added, ObjectFields, k) /\ new.objects = Retire(lake.objects, k, hit) \union added
    BY DEF Commits, CommitOf, cs, info, cat
  <2>2. Versioned(h, n, hit, added)
    BY <1>7 DEF Versioned
  <2>. HIDE DEF hit, added
  <2>3. Rewritten(new.objects, lake.objects, ObjectFields, h.id, k, hit, added)
    BY <1>8, <1>9, <2>1 DEF Rewritten
  <2>4. k \in Nat /\ SchemaDated(lake.objects, S)
    BY <1>1, <1>2
  <2>. QED
    BY ONLY <1>5, <1>10, <2>2, <2>3, <2>4, SchemaDatedAfter
<1>12. SchemaDated(new.columns, S \union {n})
  <2> DEFINE hit == HitColumns(lake.columns, cs)
             added == AddedColumns(cs, info)
  <2>1. WrittenFor(added, ColumnFields, k) /\ new.columns = Retire(lake.columns, k, hit) \union added
    BY DEF Commits, CommitOf, cs, info, cat
  <2>2. Versioned(h, n, hit, added)
    BY <1>7 DEF Versioned
  <2>. HIDE DEF hit, added
  <2>3. Rewritten(new.columns, lake.columns, ColumnFields, h.id, k, hit, added)
    BY <1>8, <1>9, <2>1 DEF Rewritten
  <2>4. k \in Nat /\ SchemaDated(lake.columns, S)
    BY <1>1, <1>2
  <2>. QED
    BY ONLY <1>5, <1>10, <2>2, <2>3, <2>4, SchemaDatedAfter
<1>13. SchemaDated(new.attributes, S \union {n})
  <2> DEFINE hit == HitAttributes(lake.attributes, cs)
             added == AddedAttributes(cs, info)
  <2>1. WrittenFor(added, AttributeFields, k) /\ new.attributes = Retire(lake.attributes, k, hit) \union added
    BY DEF Commits, CommitOf, cs, info, cat
  <2>2. Versioned(h, n, hit, added)
    BY <1>7 DEF Versioned
  <2>. HIDE DEF hit, added
  <2>3. Rewritten(new.attributes, lake.attributes, AttributeFields, h.id, k, hit, added)
    BY <1>8, <1>9, <2>1 DEF Rewritten
  <2>4. k \in Nat /\ SchemaDated(lake.attributes, S)
    BY <1>1, <1>2
  <2>. QED
    BY ONLY <1>5, <1>10, <2>2, <2>3, <2>4, SchemaDatedAfter
<1>. QED
  BY <1>6, <1>11, <1>12, <1>13 DEF S

\* The rows of the catalog at snapshot s, as a reader of the new lake sees them.
SeenAsBefore(new, l, s) ==
    /\ Mirrors(Visible(new.objects, s), Visible(l.objects, s), ObjectFields)
    /\ Mirrors(Visible(new.columns, s), Visible(l.columns, s), ColumnFields)
    /\ Mirrors(Visible(new.attributes, s), Visible(l.attributes, s), AttributeFields)
    /\ AsOf(new.objects, s) = AsOf(l.objects, s) /\ AsOf(new.columns, s) = AsOf(l.columns, s)
    /\ AsOf(new.attributes, s) = AsOf(l.attributes, s)

\* The files, without those of the tables that cs hands over to another lake.
FilesAsBefore(new, l, cs, s) ==
    /\ Mirrors(Visible(new.files, s), Visible(attached(l.files, cs), s), FileFields)
    /\ AsOf(new.files, s) = AsOf(attached(l.files, cs), s)

(* The snapshots before a commit show what they showed.                    *)
LEMMA PastAfter ==
    ASSUME NEW t \in Tx, NEW k, NEW new, Commits(t, k, new), NEW s \in Nat, s < k
    PROVE  /\ SeenAsBefore(new, lake, s) /\ FilesAsBefore(new, lake, changes[t], s)
           /\ NamesDiffer(Visible(lake.objects, s)) => NamesDiffer(Visible(new.objects, s))
<1> DEFINE cs == changes[t]
           info == latest[t]
           cat == catalog[t]
           sts == stats[t]
<1>1. k \in Nat /\ WholeLake(lake, HeadId) /\ CommitOf(new, lake, cs, info, cat, sts, k)
  BY DEF Commits
<1>. HIDE DEF cs, info, cat, sts
<1>2. /\ {"begin", "end"} \subseteq ObjectFields /\ {"begin", "end"} \subseteq ColumnFields
      /\ {"begin", "end"} \subseteq AttributeFields /\ {"begin", "end"} \subseteq FileFields
  BY DEF ObjectFields, ColumnFields, AttributeFields, FileFields
<1>3. /\ Mirrors(Visible(new.objects, s), Visible(lake.objects, s), ObjectFields)
      /\ AsOf(new.objects, s) = AsOf(lake.objects, s)
  BY <1>1, <1>2, PastMirrors DEF CommitOf, WholeLake
<1>4. /\ Mirrors(Visible(new.columns, s), Visible(lake.columns, s), ColumnFields)
      /\ AsOf(new.columns, s) = AsOf(lake.columns, s)
  BY <1>1, <1>2, PastMirrors DEF CommitOf, WholeLake
<1>5. /\ Mirrors(Visible(new.attributes, s), Visible(lake.attributes, s), AttributeFields)
      /\ AsOf(new.attributes, s) = AsOf(lake.attributes, s)
  BY <1>1, <1>2, PastMirrors DEF CommitOf, WholeLake
<1>6. FilesAsBefore(new, lake, cs, s)
  <2>1. Whole(attached(lake.files, cs), FileFields, HeadId)
    BY <1>1 DEF WholeLake, Whole, attached
  <2>. QED
    BY <1>1, <1>2, <2>1, PastMirrors DEF CommitOf, FilesAsBefore
<1>7. ASSUME NamesDiffer(Visible(lake.objects, s)) PROVE NamesDiffer(Visible(new.objects, s))
  BY <1>1, <1>7, PastNames DEF CommitOf, WholeLake
<1>. QED
  BY <1>3, <1>4, <1>5, <1>6, <1>7 DEF SeenAsBefore, cs

(* The snapshot a commit creates shows what is alive after it.             *)
LEMMA PresentAfter ==
    ASSUME NEW t \in Tx, NEW k, NEW new, Commits(t, k, new)
    PROVE  /\ Visible(new.objects, k) = Live(new.objects)
           /\ Visible(new.columns, k) = Live(new.columns)
           /\ Visible(new.attributes, k) = Live(new.attributes)
           /\ Visible(new.files, k) = Live(new.files)
BY LiveIsVisible DEF Commits, WholeLake

(* Names are unique and nothing dangles in every snapshot.                 *)
LEMMA ConsistentAfter ==
    ASSUME NEW t \in Tx, AtHead(t), NEW k, NEW new, Commits(t, k, new),
           NEW s \in Ids(snapshots) \union {k}
    PROVE  NamesDiffer(Visible(new.objects, s)) /\ NothingDangles(new, s)
<1>1. CASE s \in Ids(snapshots)
  <2>1. s \in Nat /\ s < k
    <3>1. PICK x \in snapshots : s = x.id
      BY <1>1 DEF Ids
    <3>2. x.id \in Nat /\ x.id <= HeadId
      BY HeadFacts DEF AtHead, IndInv, DbInv, SnapshotsOrdered, Info
    <3>. QED
      BY <3>1, <3>2 DEF Commits
  <2>2. NamesDiffer(Visible(lake.objects, s)) /\ NothingDangles(lake, s)
    BY <1>1 DEF AtHead, RowInv, UniqueNames, NoDanglingRows
  <2>3. /\ NamesDiffer(Visible(new.objects, s)) /\ SeenAsBefore(new, lake, s)
        /\ FilesAsBefore(new, lake, changes[t], s)
    BY <2>1, <2>2, PastAfter
  <2>4. NoneDangles(Visible(lake.objects, s), Visible(lake.columns, s),
                    Visible(attached(lake.files, changes[t]), s), Visible(lake.attributes, s))
    <3>1. NoneDangles(Visible(lake.objects, s), Visible(lake.columns, s),
                      Visible(lake.files, s), Visible(lake.attributes, s))
      BY <2>2, DanglesAs
    <3>2. \A r \in Visible(attached(lake.files, changes[t]), s) : r \in Visible(lake.files, s)
      BY DEF Visible, attached
    <3>. QED
      BY <3>1, <3>2 DEF NoneDangles
  <2>5. NoneDangles(Visible(new.objects, s), Visible(new.columns, s),
                    Visible(new.files, s), Visible(new.attributes, s))
    BY <2>3, <2>4, MirrorsDangle DEF SeenAsBefore, FilesAsBefore
  <2>. QED
    BY <2>3, <2>5, DanglesAs
<1>2. CASE s = k
  <2> DEFINE cs == changes[t]
             info == latest[t]
             cat == catalog[t]
             L == Live(lake.objects)
             N == Live(new.objects)
             C == Live(lake.columns)
             C2 == Live(new.columns)
             A == Live(lake.attributes)
             A2 == Live(new.attributes)
             F == Live(lake.files)
             F2 == Live(new.files)
  <2>1. /\ info \in Info /\ ProperChanges(cs, cat, info) /\ Agrees(cat, L, cs, info)
        /\ MadeOf(N, L, cs, info, cat) /\ ColumnsAgree(cat, C, A, cs)
        /\ C2 = {r \in C : ~ retires_column(cs, r)} \union AddedColumns(cs, info)
        /\ F2 = {r \in F : ~ dropped_table(cs, r.table)} \union AddedFiles(cs, info, stats[t])
        /\ A2 = {r \in A : ~ retires_attribute(cs, r)} \union AddedAttributes(cs, info)
    BY DEF Commits, LiveAfter
  <2>2. NoneDangles(L, C, F, A)
    <3>1. NothingDangles(lake, HeadId)
      BY BaseFacts DEF AtHead, RowInv, NoDanglingRows
    <3>. QED
      BY <3>1, BaseFacts, DanglesAs
  <2>3. Visible(new.objects, k) = N /\ Visible(new.columns, k) = C2
        /\ Visible(new.attributes, k) = A2 /\ Visible(new.files, k) = F2
    BY PresentAfter
  <2>. HIDE DEF cs, info, cat, L, N, C, C2, A, A2, F, F2
  <2>4. NamesDiffer(N)
    BY <2>1, NamesAfter
  <2>5. NoneDangles(N, C2, F2, A2)
    BY <2>1, <2>2, NoneDanglesAfter
  <2>6. NothingDangles(new, k)
    BY <2>3, <2>5, DanglesAs
  <2>. QED
    BY <1>2, <2>3, <2>4, <2>6
<1>. QED
  BY <1>1, <1>2

\* The entry of the log that transaction t is about to add.
Entry(t) == applied_change_set(changes[t], latest[t])

(* What the entry says of each change.                                     *)
LEMMA EntryRecords ==
    ASSUME NEW t \in Tx, NEW c \in changes[t]
    PROVE  /\ c.op \in {"create", "rename"} => Created(c.kind, c.schema, c.name) \in Entry(t)
           /\ c.op = "delete" => About("dropped", c.kind, c.id) \in Entry(t)
           /\ c.op \in AlterOps => About("altered", "table", c.id) \in Entry(t)
<1>1. applied_change(changes[t], latest[t], c) \in Entry(t)
  BY DEF Entry, applied_change_set
<1>. QED
  BY <1>1, AppliedAs

(* An object of an older snapshot is still there or has been dropped.      *)
LEMMA KeptAfter ==
    ASSUME NEW t \in Tx, AtHead(t), NEW k, NEW new, Commits(t, k, new),
           NEW s \in Ids(snapshots), s \in Nat, s < k, NEW x \in Visible(new.objects, s)
    PROVE  \/ \E r \in Live(new.objects) : Same(x, r)
           \/ DroppedSince(x.kind, x.id, s)
           \/ About("dropped", x.kind, x.id) \in Entry(t)
<1> DEFINE cs == changes[t]
           info == latest[t]
           L == Live(lake.objects)
           N == Live(new.objects)
<1>1. SeenAsBefore(new, lake, s)
  BY PastAfter
<1>2. PICK q \in Visible(lake.objects, s) : x.kind = q.kind /\ x.id = q.id /\ x.schema_id = q.schema_id
  BY <1>1 DEF SeenAsBefore, Mirrors, ObjectFields
<1>3. (\E r \in L : Same(q, r)) \/ DroppedSince(q.kind, q.id, s)
  BY DEF AtHead, RowInv, LogExplains, KeptOrDropped
<1>4. MadeOf(N, L, cs, info, catalog[t])
  BY DEF Commits, LiveAfter
<1>5. ASSUME NEW r \in L, Same(q, r)
      PROVE  (\E y \in N : Same(x, y)) \/ About("dropped", x.kind, x.id) \in Entry(t)
  <2>1. CASE dropped(cs, r)
    <3>1. PICK c \in Ops(cs, "delete") : c.kind = r.kind /\ c.id = r.id
      BY <2>1 DEF dropped
    <3>2. About("dropped", c.kind, c.id) \in Entry(t)
      BY EntryRecords DEF Ops
    <3>. QED
      BY <1>2, <1>5, <3>1, <3>2 DEF Same
  <2>2. CASE renamed(cs, r)
    <3>1. PICK c \in Ops(cs, "rename") : Renames(c, r)
      BY <2>2 DEF renamed, Targets, Renames
    <3>2. PICK y \in N : IsCopy(y, r, c, L, cs, info)
      BY <1>4, <3>1 DEF MadeOf
    <3>. QED
      BY <1>2, <1>5, <3>2 DEF IsCopy, Same
  <2>3. CASE ~ dropped(cs, r) /\ ~ renamed(cs, r)
    <3>1. r \in N
      BY <1>4, <2>3 DEF MadeOf, IsKept
    <3>. QED
      BY <1>2, <1>5, <3>1 DEF Same
  <2>. QED
    BY <2>1, <2>2, <2>3
<1>. QED
  BY <1>2, <1>3, <1>5

\* Some commit after s has created an object of this kind and name.
Announced(t, kind, schema, name, s) ==
    CreatedSince(kind, schema, name, s) \/ Created(kind, schema, name) \in Entry(t)

(* An object that is alive was there in the older snapshot, or has been    *)
(* created since.                                                          *)
LEMMA CreatedAfter ==
    ASSUME NEW t \in Tx, AtHead(t), NEW k, NEW new, Commits(t, k, new),
           NEW s \in Ids(snapshots), s \in Nat, s < k, NEW x \in Live(new.objects)
    PROVE  \/ \E q \in Visible(new.objects, s) : Same(q, x) /\ q.name = x.name
           \/ x.kind = "schema" /\ Announced(t, "schema", NoName, x.name, s)
           \/ /\ x.kind # "schema"
              /\ \E q \in Live(new.objects) :
                    q.kind = "schema" /\ q.id = x.schema_id /\ Announced(t, x.kind, q.name, x.name, s)
<1> DEFINE cs == changes[t]
           info == latest[t]
           cat == catalog[t]
           L == Live(lake.objects)
           N == Live(new.objects)
<1>1. /\ info \in Info /\ ProperChanges(cs, cat, info) /\ Agrees(cat, L, cs, info)
      /\ MadeOf(N, L, cs, info, cat)
  BY DEF Commits, LiveAfter
<1>2. SeenAsBefore(new, lake, s)
  BY PastAfter
<1>3. \A c \in cs : c.op \in {"create", "rename"} => Created(c.kind, c.schema, c.name) \in Entry(t)
  BY EntryRecords
<1>4. \A q \in Visible(lake.objects, s) : \E y \in Visible(new.objects, s) :
         y.kind = q.kind /\ y.id = q.id /\ y.schema_id = q.schema_id /\ y.name = q.name
  BY <1>2 DEF SeenAsBefore, Mirrors, ObjectFields
<1>5. ASSUME NEW r \in L
      PROVE  \/ \E q \in Visible(lake.objects, s) : Same(q, r) /\ q.name = r.name
             \/ r.kind = "schema" /\ CreatedSince("schema", NoName, r.name, s)
             \/ /\ r.kind # "schema"
                /\ \E q \in L :
                      q.kind = "schema" /\ q.id = r.schema_id /\ CreatedSince(r.kind, q.name, r.name, s)
  BY DEF AtHead, RowInv, LogExplains, OldOrCreated
<1>. HIDE DEF cs, info, cat, L, N
<1>6. CASE IsKept(x, L, cs)
  <2>1. x \in L /\ ~ dropped(cs, x)
    BY <1>6 DEF IsKept
  <2>2. ASSUME NEW q \in Visible(lake.objects, s), Same(q, x), q.name = x.name
        PROVE  \E y \in Visible(new.objects, s) : Same(y, x) /\ y.name = x.name
    BY <1>4, <2>2 DEF Same
  <2>3. ASSUME x.kind # "schema", NEW q \in L, q.kind = "schema", q.id = x.schema_id,
               CreatedSince(x.kind, q.name, x.name, s)
        PROVE  q \in N /\ Announced(t, x.kind, q.name, x.name, s)
    <3>1. IsKept(q, L, cs)
      BY <1>1, <2>1, <2>3, SchemaStays
    <3>2. q \in N
      BY <1>1, <3>1 DEF MadeOf
    <3>. QED
      BY <2>3, <3>2 DEF Announced
  <2>. QED
    BY <1>5, <2>1, <2>2, <2>3 DEF Announced, N
<1>7. ASSUME NEW r, NEW c, IsCopy(x, r, c, L, cs, info)
      PROVE  /\ x.kind # "schema"
             /\ \E q \in N : q.kind = "schema" /\ q.id = x.schema_id /\ Announced(t, x.kind, q.name, x.name, s)
  <2>1. r \in L /\ c \in Ops(cs, "rename") /\ Renames(c, r) /\ Same(x, r) /\ x.name = c.name
    BY <1>7 DEF IsCopy
  <2>2. /\ c.kind = "table"
        /\ \E z \in L : IsKept(z, L, cs) /\ z.kind = "schema" /\ z.id = r.schema_id /\ z.name = c.schema
    BY <1>1, <2>1, RenamedTable
  <2>3. PICK z \in L : IsKept(z, L, cs) /\ z.kind = "schema" /\ z.id = r.schema_id /\ z.name = c.schema
    BY <2>2
  <2>4. z \in N
    BY <1>1, <2>3 DEF MadeOf
  <2>5. Created("table", z.name, x.name) \in Entry(t) /\ x.kind = "table" /\ x.schema_id = r.schema_id
    BY <1>3, <2>1, <2>2, <2>3 DEF Ops, Same, Renames
  <2>. QED
    BY <2>3, <2>4, <2>5 DEF Announced
<1>8. ASSUME NEW c, IsNew(x, c, cs, info, cat)
      PROVE  \/ x.kind = "schema" /\ Announced(t, "schema", NoName, x.name, s)
             \/ /\ x.kind # "schema"
                /\ \E q \in N : q.kind = "schema" /\ q.id = x.schema_id /\ Announced(t, x.kind, q.name, x.name, s)
  <2>1. /\ c \in Ops(cs, "create") /\ c \in cs /\ c.op = "create" /\ x.kind = c.kind /\ x.name = c.name
        /\ x.schema_id = IF c.kind = "schema" THEN NoId ELSE schema_id(cs, info, cat, c.schema)
    BY <1>8 DEF IsNew, Ops
  <2>2. Created(c.kind, c.schema, c.name) \in Entry(t)
    BY <1>3, <2>1
  <2>3. CASE c.kind = "schema"
    <3>1. c.schema = NoName
      BY <1>1, <2>1, <2>3 DEF ProperChanges, Sound
    <3>. QED
      BY <2>1, <2>2, <2>3, <3>1 DEF Announced
  <2>4. CASE c.kind # "schema"
    <3>1. PICK z \in N : /\ z.kind = "schema" /\ z.name = c.schema
                         /\ z.id = schema_id(cs, info, cat, c.schema)
      BY <1>1, <2>1, <2>4, NewObjectSchema
    <3>. QED
      BY <2>1, <2>2, <2>4, <3>1 DEF Announced
  <2>. QED
    BY <2>3, <2>4
<1>9. \/ IsKept(x, L, cs) \/ (\E r, c : IsCopy(x, r, c, L, cs, info))
      \/ \E c : IsNew(x, c, cs, info, cat)
  BY <1>1 DEF MadeOf, N
<1>. QED
  BY <1>6, <1>7, <1>8, <1>9 DEF N

(* A table that no commit since the older snapshot has altered has the     *)
(* columns and keys it had.                                                *)
LEMMA UnalteredAfter ==
    ASSUME NEW t \in Tx, AtHead(t), NEW k, NEW new, Commits(t, k, new),
           NEW s \in Ids(snapshots), s \in Nat, s < k,
           NEW x \in Visible(new.objects, s), x.kind = "table", ~ AlteredSince(x.id, s),
           About("altered", "table", x.id) \notin Entry(t),
           About("dropped", "table", x.id) \notin Entry(t)
    PROVE  /\ ColumnsOf(Live(new.columns), x.id) = ColumnsOf(Visible(new.columns, s), x.id)
           /\ KeysOf(Live(new.attributes), x.id) = KeysOf(Visible(new.attributes, s), x.id)
<1> DEFINE cs == changes[t]
           info == latest[t]
           C == Live(lake.columns)
           C2 == Live(new.columns)
           A == Live(lake.attributes)
           A2 == Live(new.attributes)
<1>1. SeenAsBefore(new, lake, s)
  BY PastAfter
<1>2. PICK q \in Visible(lake.objects, s) : x.kind = q.kind /\ x.id = q.id
  BY <1>1 DEF SeenAsBefore, Mirrors, ObjectFields
<1>3. /\ ColumnsOf(C, x.id) = ColumnsOf(Visible(lake.columns, s), x.id)
      /\ KeysOf(A, x.id) = KeysOf(Visible(lake.attributes, s), x.id)
  BY <1>2 DEF AtHead, RowInv, LogExplains, SameOrAltered
<1>4. /\ ColumnsOf(Visible(new.columns, s), x.id) = ColumnsOf(Visible(lake.columns, s), x.id)
      /\ KeysOf(Visible(new.attributes, s), x.id) = KeysOf(Visible(lake.attributes, s), x.id)
  BY <1>1, MirrorsColumns DEF SeenAsBefore
<1>5. ~ Alters(cs, x.id)
  <2>1. ASSUME dropped_table(cs, x.id) PROVE FALSE
    <3>1. PICK c \in cs : c.op = "delete" /\ c.kind = "table" /\ c.id = x.id
      BY <2>1 DEF dropped_table, Targets, Ops
    <3>. QED
      BY <3>1, EntryRecords
  <2>2. ASSUME NEW c \in cs, c.op \in AlterOps, c.id = x.id PROVE FALSE
    BY <2>2, EntryRecords
  <2>. QED
    BY <2>1, <2>2 DEF Alters
<1>6. KnownId(x.id, info)
  <2>1. Dated(q.begin, q.id)
    BY DEF AtHead, IndInv, DbInv, RowsDated, Visible
  <2>2. Head \in snapshots /\ Head.id = HeadId
    BY HeadFacts DEF AtHead, IndInv, DbInv
  <2>. QED
    BY <1>2, <2>1, <2>2 DEF AtHead, Dated, KnownId
<1>7. x.id # catalog_id(cs, info, "table") \/ "table" \notin CreatedKinds(cs)
  <2>1. ASSUME "table" \in CreatedKinds(cs) PROVE ~ KnownId(catalog_id(cs, info, "table"), info)
    <3>1. PICK c \in Ops(cs, "create") : c.kind = "table"
      BY <2>1 DEF CreatedKinds
    <3>2. ~ KnownId(catalog_id(cs, info, c.kind), info)
      BY NewIds DEF Commits
    <3>. QED
      BY <3>1, <3>2
  <2>. QED
    BY <1>6, <2>1
<1>8. /\ info \in Info
      /\ C2 = {r \in C : ~ retires_column(cs, r)} \union AddedColumns(cs, info)
      /\ A2 = {r \in A : ~ retires_attribute(cs, r)} \union AddedAttributes(cs, info)
  BY DEF Commits, LiveAfter
<1>. HIDE DEF cs, info, C, C2, A, A2
<1>9. ColumnsOf(C2, x.id) = ColumnsOf(C, x.id) /\ KeysOf(A2, x.id) = KeysOf(A, x.id)
  BY <1>5, <1>7, <1>8, ColumnsUnaltered
<1>. QED
  BY <1>3, <1>4, <1>9 DEF C, C2, A, A2

(* A reader of an older snapshot gets the catalog it got.                  *)
LEMMA CatalogAfter ==
    ASSUME NEW t \in Tx, NEW k, NEW new, Commits(t, k, new), NEW s \in Nat, s < k
    PROVE  CatalogAt(new, s) = CatalogAt(lake, s)
BY PastAfter DEF SeenAsBefore, CatalogAt

(* What PersistOk changes.                                                 *)
LEMMA PersistOkFacts ==
    ASSUME IndInv, RowInv, NEW t \in Tx, PersistOk(t)
    PROVE  \E k, new :
             /\ AtHead(t) /\ Commits(t, k, new) /\ lake' = new /\ HeadId' = k
             /\ snapshots' = snapshots \union {NewSnapshot(changes[t], latest[t])}
             /\ NewSnapshot(changes[t], latest[t]).id = k
             /\ log' = log \union {[id |-> k, tx |-> t, base |-> base[t].id, changes |-> Entry(t)]}
             /\ pc' = [pc EXCEPT ![t] = "committed"] /\ pc[t] = "persist"
             /\ UNCHANGED <<base, latest, catalog, changes>>
<1>1. /\ latest[t] = Head /\ HeadId = latest[t].id /\ HeadId' = HeadId + 1
      /\ snapshots' = snapshots \union {NewSnapshot(changes[t], latest[t])}
  BY CommitsOnHead
<1>2. /\ lake' = persist(lake, changes[t], latest[t], catalog[t], stats[t])
      /\ log' = log \union {[id |-> latest[t].id + 1, tx |-> t, base |-> base[t].id,
                             changes |-> Entry(t)]}
      /\ pc' = [pc EXCEPT ![t] = "committed"] /\ pc[t] = "persist"
      /\ UNCHANGED <<base, latest, catalog, changes>>
  BY DEF PersistOk, EndAttempt, Goto, Entry
<1>3. AtHead(t)
  BY <1>1, <1>2 DEF AtHead
<1>4. PICK k : k = latest[t].id + 1
  OBVIOUS
<1>5. PICK new : new = persist(lake, changes[t], latest[t], catalog[t], stats[t])
  OBVIOUS
<1>6. Commits(t, k, new)
  BY <1>3, <1>4, <1>5, PersistCommits
<1>7. NewSnapshot(changes[t], latest[t]).id = k
  BY <1>4 DEF NewSnapshot
<1>. QED
  BY <1>1, <1>2, <1>3, <1>4, <1>5, <1>6, <1>7

(* A successful commit preserves the invariant.                            *)
LEMMA PersistOkRows ==
    ASSUME IndInv, RowInv, NEW t \in Tx, PersistOk(t)
    PROVE  RowInv'
<1>1. PICK k, new :
         /\ AtHead(t) /\ Commits(t, k, new) /\ lake' = new /\ HeadId' = k
         /\ snapshots' = snapshots \union {NewSnapshot(changes[t], latest[t])}
         /\ NewSnapshot(changes[t], latest[t]).id = k
         /\ log' = log \union {[id |-> k, tx |-> t, base |-> base[t].id, changes |-> Entry(t)]}
         /\ pc' = [pc EXCEPT ![t] = "committed"] /\ pc[t] = "persist"
         /\ UNCHANGED <<base, latest, catalog, changes>>
  BY PersistOkFacts
<1>2. PICK n : n = NewSnapshot(changes[t], latest[t])
  OBVIOUS
<1>3. snapshots' = snapshots \union {n} /\ n.id = k
  BY <1>1, <1>2
<1>4. Ids(snapshots)' = Ids(snapshots) \union {k}
  BY <1>3 DEF Ids
<1>5. /\ k \in Nat /\ HeadId \in Nat /\ k = HeadId + 1
      /\ \A s \in Ids(snapshots) : s \in Nat /\ s < k
  <2>1. k \in Nat /\ HeadId \in Nat /\ k = HeadId + 1
    BY <1>1 DEF Commits
  <2>2. \A x \in snapshots : x.id \in Nat /\ x.id <= HeadId
    BY HeadFacts DEF IndInv, DbInv, SnapshotsOrdered, Info
  <2>. QED
    BY <2>1, <2>2 DEF Ids
<1>6. RowsWhole'
  <2>1. WholeLake(new, k) /\ \A r \in new.objects : r.kind = "schema" => r.schema_id = NoId
    BY <1>1, IdsAfter DEF Commits
  <2>. QED
    BY <1>1, <2>1 DEF RowsWhole, WholeLake
<1>7. VersionsOrdered'
  <2>1. /\ \A q, r \in snapshots \union {n} : q.id <= r.id => q.schema_version <= r.schema_version
        /\ SchemaDated(new.objects, snapshots \union {n})
        /\ SchemaDated(new.columns, snapshots \union {n})
        /\ SchemaDated(new.attributes, snapshots \union {n})
    BY <1>1, <1>2, VersionsAfter
  <2>. QED
    BY <1>1, <1>3, <2>1 DEF VersionsOrdered
<1>8. IdsNameOne(lake.objects)'
  <2>1. IdsNameOne(new.objects)
    BY <1>1, IdsAfter
  <2>. QED
    BY <1>1, <2>1
<1>9. UniqueNames' /\ NoDanglingRows'
  <2>1. \A s \in Ids(snapshots) \union {k} : NamesDiffer(Visible(new.objects, s)) /\ NothingDangles(new, s)
    BY <1>1, ConsistentAfter
  <2>. QED
    BY <1>1, <1>4, <2>1 DEF UniqueNames, NoDanglingRows
<1>10. LogExplains'
  <2>1. PICK e : e = [id |-> k, tx |-> t, base |-> base[t].id, changes |-> Entry(t)]
    OBVIOUS
  <2>2. log' = log \union {e} /\ e.id = k /\ e.changes = Entry(t)
    BY <1>1, <2>1
  <2>3. ASSUME NEW kind, NEW id, NEW s, s < k,
               DroppedSince(kind, id, s) \/ About("dropped", kind, id) \in Entry(t)
        PROVE  DroppedSince(kind, id, s)'
    <3>1. CASE DroppedSince(kind, id, s)
      BY <2>2, <3>1 DEF DroppedSince
    <3>2. CASE About("dropped", kind, id) \in Entry(t)
      <4>1. /\ About("dropped", kind, id).verb = "dropped" /\ About("dropped", kind, id).kind = kind
            /\ About("dropped", kind, id).id = id
        BY DEF About
      <4>. QED
        BY <2>2, <2>3, <3>2, <4>1 DEF DroppedSince
    <3>. QED
      BY <2>3, <3>1, <3>2
  <2>4. ASSUME NEW kind, NEW schema, NEW name, NEW s, s < k, Announced(t, kind, schema, name, s)
        PROVE  CreatedSince(kind, schema, name, s)'
    BY <2>2, <2>4 DEF Announced, CreatedSince
  <2>5. ASSUME NEW id, NEW s, s < k, ~ AlteredSince(id, s)'
        PROVE  /\ ~ AlteredSince(id, s)
               /\ About("altered", "table", id) \notin Entry(t)
               /\ About("dropped", "table", id) \notin Entry(t)
    <3>1. \A v \in {"altered", "dropped"} :
             /\ About(v, "table", id).verb = v /\ About(v, "table", id).kind = "table"
             /\ About(v, "table", id).id = id
      BY DEF About
    <3>. QED
      BY <2>2, <2>5, <3>1 DEF AlteredSince
  <2>6. ASSUME NEW s \in Ids(snapshots)
        PROVE  KeptOrDropped(s)' /\ OldOrCreated(s)' /\ SameOrAltered(s)'
    <3>1. s \in Nat /\ s < k
      BY <1>5
    <3>2. ASSUME NEW q \in Visible(new.objects, s)
          PROVE  (\E r \in Live(new.objects) : Same(q, r)) \/ DroppedSince(q.kind, q.id, s)'
      <4>1. \/ \E r \in Live(new.objects) : Same(q, r)
            \/ DroppedSince(q.kind, q.id, s)
            \/ About("dropped", q.kind, q.id) \in Entry(t)
        BY <1>1, <3>1, KeptAfter
      <4>. QED
        BY <2>3, <3>1, <4>1
    <3>3. ASSUME NEW r \in Live(new.objects)
          PROVE  \/ \E q \in Visible(new.objects, s) : Same(q, r) /\ q.name = r.name
                 \/ r.kind = "schema" /\ CreatedSince("schema", NoName, r.name, s)'
                 \/ /\ r.kind # "schema"
                    /\ \E q \in Live(new.objects) :
                          q.kind = "schema" /\ q.id = r.schema_id /\ CreatedSince(r.kind, q.name, r.name, s)'
      <4>1. \/ \E q \in Visible(new.objects, s) : Same(q, r) /\ q.name = r.name
            \/ r.kind = "schema" /\ Announced(t, "schema", NoName, r.name, s)
            \/ /\ r.kind # "schema"
               /\ \E q \in Live(new.objects) :
                     q.kind = "schema" /\ q.id = r.schema_id /\ Announced(t, r.kind, q.name, r.name, s)
        BY <1>1, <3>1, CreatedAfter
      <4>. QED
        BY <2>4, <3>1, <4>1
    <3>4. ASSUME NEW q \in Visible(new.objects, s), q.kind = "table", ~ AlteredSince(q.id, s)'
          PROVE  /\ ColumnsOf(Live(new.columns), q.id) = ColumnsOf(Visible(new.columns, s), q.id)
                 /\ KeysOf(Live(new.attributes), q.id) = KeysOf(Visible(new.attributes, s), q.id)
      <4>1. /\ ~ AlteredSince(q.id, s)
            /\ About("altered", "table", q.id) \notin Entry(t)
            /\ About("dropped", "table", q.id) \notin Entry(t)
        BY <2>5, <3>1, <3>4
      <4>. QED
        BY <1>1, <3>1, <3>4, <4>1, UnalteredAfter
    <3>5. KeptOrDropped(s)'
      BY <1>1, <3>2 DEF KeptOrDropped
    <3>6. OldOrCreated(s)'
      BY <1>1, <3>3 DEF OldOrCreated
    <3>7. SameOrAltered(s)'
      BY <1>1, <3>4 DEF SameOrAltered
    <3>. QED
      BY <3>5, <3>6, <3>7
  <2>7. KeptOrDropped(k)' /\ OldOrCreated(k)' /\ SameOrAltered(k)'
    <3>1. /\ Visible(new.objects, k) = Live(new.objects)
          /\ Visible(new.columns, k) = Live(new.columns)
          /\ Visible(new.attributes, k) = Live(new.attributes)
      BY <1>1, PresentAfter
    <3>. QED
      BY <1>1, <3>1 DEF KeptOrDropped, OldOrCreated, SameOrAltered, Same
  <2>. QED
    BY <1>4, <2>6, <2>7 DEF LogExplains
<1>11. ASSUME NEW u \in Tx
       PROVE  TxRows(u)'
  <2>1. CASE u = t
    <3>1. pc'[u] = "committed"
      BY <1>1, <2>1 DEF IndInv, TypeOK
    <3>. QED
      BY <3>1 DEF TxRows, SchemasChecked, Committing
  <2>2. CASE u # t
    <3>1. /\ pc'[u] = pc[u] /\ base'[u] = base[u] /\ latest'[u] = latest[u]
          /\ catalog'[u] = catalog[u] /\ changes'[u] = changes[u]
      BY <1>1, <2>2 DEF IndInv, TypeOK
    <3>2. TxRows(u) /\ BaseRetained(u) /\ latest[u] \in Info
      BY DEF RowInv, IndInv, TxInv, TypeOK
    <3>3. ASSUME pc[u] \in {"open"} \union Committing
          PROVE  CatalogAt(new, base[u].id) = CatalogAt(lake, base[u].id)
      <4>1. base[u].id \in Ids(snapshots)
        BY <3>2, <3>3 DEF BaseRetained, Active, Ids
      <4>. QED
        BY <1>1, <1>5, <4>1, CatalogAfter
    <3>4. SchemasChecked(u)'
      <4>1. ASSUME pc[u] \in {"load", "attempt", "persist"} PROVE latest[u].id < k
        <5>1. latest[u].id \in Ids(snapshots)
          BY <3>2, <4>1 DEF BaseRetained, Active, Committing, Ids
        <5>. QED
          BY <1>5, <5>1
      <4>2. latest[u].id \in Nat
        BY <3>2 DEF Info
      <4>3. \A e \in log' : e \in log \/ e.id = k
        BY <1>1
      <4>4. pc[u] \in {"load", "attempt", "persist"} =>
              \A e \in log' : base[u].id < e.id /\ e.id <= latest[u].id => e \in log
        BY <1>5, <4>1, <4>2, <4>3
      <4>5. Schemas(u)' = Schemas(u)
        BY <3>1 DEF Schemas
      <4>. QED
        BY <3>1, <3>2, <4>4, <4>5 DEF TxRows, SchemasChecked
    <3>. QED
      BY <1>1, <3>1, <3>2, <3>3, <3>4 DEF TxRows
  <2>. QED
    BY <2>1, <2>2
<1>12. InlinedWhole'
  <2>1. new.inlined = persist_inlined(lake.inlined, changes[t], latest[t], stats[t])
    BY <1>1 DEF PersistOk, persist
  <2>2. InlinedWhole
    BY DEF RowInv
  <2>. QED
    BY <1>1, <2>1, <2>2 DEF InlinedWhole, persist_inlined
<1>. QED
  BY <1>6, <1>7, <1>8, <1>9, <1>10, <1>11, <1>12 DEF RowInv

-----------------------------------------------------------------------------
(* Expiry.                                                                 *)

\* A retained snapshot shows the same rows of the new lake.
SeenAlike(new, l, s) ==
    /\ Visible(new.objects, s) = Visible(l.objects, s)
    /\ Visible(new.columns, s) = Visible(l.columns, s)
    /\ Visible(new.attributes, s) = Visible(l.attributes, s)
    /\ Visible(new.files, s) = Visible(l.files, s)

(* Expiry takes no row of a retained snapshot: a table a retained snapshot *)
(* shows is not expired, and nothing dangles.                              *)
LEMMA ExpiryKeepsRetained ==
    ASSUME NEW l, NEW ids, NEW s \in ids, NothingDangles(l, s),
           NEW new, new = ExpireRows(l, ids)
    PROVE  /\ SeenAlike(new, l, s)
           /\ \A o \in Visible(l.objects, s) : o.kind = "table" => o.id \notin ExpiredTables(l, ids)
<1> DEFINE expired == ExpiredTables(l, ids)
<1>1. /\ new.objects = {r \in l.objects :
           IF r.kind = "table" THEN r.id \notin expired ELSE ~ Inactive(r, ids)}
      /\ new.columns = {r \in l.columns : r.table \notin expired}
      /\ new.attributes = {r \in l.attributes :
           IF r.key = "tag" THEN ~ Inactive(r, ids) ELSE r.table \notin expired}
      /\ new.files = {r \in l.files : ~ Inactive(r, ids)}
  BY DEF ExpireRows, RetainedObjects, UnreachableFiles
<1>2. \A r : VisibleAt(r, s) => ~ Inactive(r, ids)
  BY DEF VisibleAt, Inactive
<1>3. ASSUME NEW o \in Visible(l.objects, s), o.kind = "table"
      PROVE  o.id \notin expired
  BY <1>2, <1>3 DEF Visible, ExpiredTables
<1>. HIDE DEF expired
<1>4. NoneDangles(Visible(l.objects, s), Visible(l.columns, s),
                  Visible(l.files, s), Visible(l.attributes, s))
  BY DanglesAs
<1>5. /\ \A r \in Visible(l.columns, s) : r.table \notin expired
      /\ \A r \in Visible(l.attributes, s) : r.table \notin expired
  BY <1>3, <1>4 DEF NoneDangles, TableIn
<1>6. Visible(new.objects, s) = Visible(l.objects, s)
  BY <1>1, <1>2, <1>3 DEF Visible
<1>7. Visible(new.columns, s) = Visible(l.columns, s)
  BY <1>1, <1>5 DEF Visible
<1>8. Visible(new.attributes, s) = Visible(l.attributes, s)
  BY <1>1, <1>2, <1>5 DEF Visible
<1>9. Visible(new.files, s) = Visible(l.files, s)
  BY <1>1, <1>2 DEF Visible
<1>. QED
  BY <1>3, <1>6, <1>7, <1>8, <1>9 DEF SeenAlike, expired

(* What expiry does to the lake.                                           *)
LEMMA ExpireFacts ==
    ASSUME IndInv, RowInv, SafeRetention, ExpireSnapshots
    PROVE  \E ids, new :
             /\ ids \subseteq Ids(snapshots) /\ HeadId \in ids /\ HeadId' = HeadId
             /\ snapshots' \subseteq snapshots /\ Ids(snapshots') = ids
             /\ lake' = new /\ new = ExpireRows(lake, ids)
             /\ \A s \in ids : SeenAlike(new, lake, s)
             /\ UNCHANGED <<log, pc, base, latest, failed, catalog, changes, retry>>
<1>1. PICK x \in SUBSET (Ids(snapshots) \ {Head.id}) :
         /\ snapshots' = {s \in snapshots : s.id \notin x}
         /\ lake' = ExpireRows(lake, Ids(snapshots) \ x)
  BY DEF ExpireSnapshots
<1>2. UNCHANGED <<log, pc, base, latest, failed, catalog, changes, retry>>
  BY DEF ExpireSnapshots, txVars
<1>3. PICK ids : ids = Ids(snapshots) \ x
  OBVIOUS
<1>4. PICK new : new = ExpireRows(lake, ids)
  OBVIOUS
<1>5. Head \in snapshots /\ HeadId = Head.id
  BY HeadFacts DEF IndInv, DbInv
<1>6. /\ ids \subseteq Ids(snapshots) /\ HeadId \in ids
      /\ snapshots' \subseteq snapshots /\ Ids(snapshots') = ids
  BY <1>1, <1>3, <1>5 DEF Ids
<1>7. HeadId' = HeadId
  BY ExpireStep
<1>8. ASSUME NEW s \in ids PROVE SeenAlike(new, lake, s)
  <2>1. NothingDangles(lake, s)
    BY <1>6 DEF RowInv, NoDanglingRows
  <2>. QED
    BY <1>4, <2>1, ExpiryKeepsRetained
<1>. QED
  BY <1>1, <1>2, <1>3, <1>4, <1>6, <1>7, <1>8

(* Expiry preserves the invariant.                                         *)
LEMMA ExpireRowsStep ==
    ASSUME IndInv, RowInv, SafeRetention, ExpireSnapshots
    PROVE  RowInv'
<1>1. PICK ids, new :
         /\ ids \subseteq Ids(snapshots) /\ HeadId \in ids /\ HeadId' = HeadId
         /\ snapshots' \subseteq snapshots /\ Ids(snapshots') = ids
         /\ lake' = new /\ new = ExpireRows(lake, ids)
         /\ \A s \in ids : SeenAlike(new, lake, s)
         /\ UNCHANGED <<log, pc, base, latest, failed, catalog, changes, retry>>
  BY ExpireFacts
<1>2. /\ new.objects \subseteq lake.objects /\ new.columns \subseteq lake.columns
      /\ new.attributes \subseteq lake.attributes /\ new.files \subseteq lake.files
      /\ new.inlined \subseteq lake.inlined
  BY <1>1 DEF ExpireRows, RetainedObjects
<1>3. HeadId \in Nat
  BY HeadFacts DEF IndInv, DbInv
<1>4. RowsWhole' /\ InlinedWhole'
  BY <1>1, <1>2 DEF RowInv, RowsWhole, Whole, InlinedWhole
<1>5. VersionsOrdered'
  <2>1. ASSUME NEW k, Separates(k, snapshots) PROVE Separates(k, snapshots)'
    BY <1>1, <2>1 DEF Separates
  <2>2. ASSUME NEW X, NEW Y, SchemaDated(X, snapshots), Y \subseteq X
        PROVE  SchemaDated(Y, snapshots')
    BY <2>1, <2>2 DEF SchemaDated
  <2>3. /\ SchemaDated(new.objects, snapshots') /\ SchemaDated(new.columns, snapshots')
        /\ SchemaDated(new.attributes, snapshots')
    BY <1>2, <2>2 DEF RowInv, VersionsOrdered
  <2>. QED
    BY <1>1, <2>3 DEF RowInv, VersionsOrdered
<1>6. IdsNameOne(lake.objects)'
  BY <1>1, <1>2 DEF RowInv, IdsNameOne
<1>7. UniqueNames'
  BY <1>1 DEF RowInv, UniqueNames, SeenAlike
<1>8. NoDanglingRows'
  <2>1. ASSUME NEW s \in ids PROVE NothingDangles(new, s)
    <3>1. NothingDangles(lake, s) /\ SeenAlike(new, lake, s)
      BY <1>1 DEF RowInv, NoDanglingRows
    <3>. QED
      BY <3>1, DanglesAs DEF SeenAlike
  <2>. QED
    BY <1>1, <2>1 DEF NoDanglingRows
<1>9. /\ Live(new.objects) = Live(lake.objects) /\ Live(new.columns) = Live(lake.columns)
      /\ Live(new.attributes) = Live(lake.attributes)
  <2>1. /\ Visible(lake.objects, HeadId) = Live(lake.objects)
        /\ Visible(lake.columns, HeadId) = Live(lake.columns)
        /\ Visible(lake.attributes, HeadId) = Live(lake.attributes)
    BY <1>3, LiveIsVisible DEF RowInv, RowsWhole
  <2>2. /\ Whole(new.objects, ObjectFields, HeadId) /\ Whole(new.columns, ColumnFields, HeadId)
        /\ Whole(new.attributes, AttributeFields, HeadId)
    BY <1>1, <1>4 DEF RowsWhole
  <2>3. /\ Visible(new.objects, HeadId) = Live(new.objects)
        /\ Visible(new.columns, HeadId) = Live(new.columns)
        /\ Visible(new.attributes, HeadId) = Live(new.attributes)
    BY <1>3, <2>2, LiveIsVisible
  <2>. QED
    BY <1>1, <2>1, <2>3 DEF SeenAlike
<1>10. LogExplains'
  <2>1. /\ \A kind, id, s : DroppedSince(kind, id, s) = DroppedSince(kind, id, s)'
        /\ \A kind, schema, name, s : CreatedSince(kind, schema, name, s) = CreatedSince(kind, schema, name, s)'
        /\ \A id, s : AlteredSince(id, s) = AlteredSince(id, s)'
    BY <1>1 DEF DroppedSince, CreatedSince, AlteredSince
  <2>2. ASSUME NEW s \in ids
        PROVE  KeptOrDropped(s)' /\ OldOrCreated(s)' /\ SameOrAltered(s)'
    <3>1. KeptOrDropped(s) /\ OldOrCreated(s) /\ SameOrAltered(s)
      BY <1>1 DEF RowInv, LogExplains
    <3>2. /\ Visible(new.objects, s) = Visible(lake.objects, s)
          /\ Visible(new.columns, s) = Visible(lake.columns, s)
          /\ Visible(new.attributes, s) = Visible(lake.attributes, s)
      BY <1>1 DEF SeenAlike
    <3>3. KeptOrDropped(s)'
      BY <1>1, <1>9, <2>1, <3>1, <3>2 DEF KeptOrDropped
    <3>4. OldOrCreated(s)'
      BY <1>1, <1>9, <2>1, <3>1, <3>2 DEF OldOrCreated
    <3>5. SameOrAltered(s)'
      BY <1>1, <1>9, <2>1, <3>1, <3>2 DEF SameOrAltered
    <3>. QED
      BY <3>3, <3>4, <3>5
  <2>. QED
    BY <1>1, <2>2 DEF LogExplains
<1>11. ASSUME NEW u \in Tx
       PROVE  TxRows(u)'
  <2>1. TxRows(u) /\ IndInv'
    BY ExpireStep DEF RowInv
  <2>2. ASSUME pc[u] \in {"open"} \union Committing
        PROVE  CatalogAt(new, base[u].id) = CatalogAt(lake, base[u].id)
    <3>1. BaseRetained(u)'
      BY <2>1 DEF IndInv, TxInv
    <3>2. base[u].id \in ids
      BY <1>1, <2>2, <3>1 DEF BaseRetained, Active, Ids
    <3>. QED
      BY <1>1, <3>2 DEF SeenAlike, CatalogAt, AsOf
  <2>3. SchemasChecked(u)'
    BY <1>1, <2>1 DEF TxRows, SchemasChecked, Schemas
  <2>. QED
    BY <1>1, <2>1, <2>2, <2>3 DEF TxRows
<1>. QED
  BY <1>4, <1>5, <1>6, <1>7, <1>8, <1>10, <1>11 DEF RowInv

-----------------------------------------------------------------------------
(* The steps of a transaction that leave the database alone.               *)

(* They disturb no other transaction.                                      *)
LEMMA RowsLocalStep ==
    ASSUME RowInv, NEW t \in Tx, UNCHANGED <<snapshots, lake, log>>,
           \A u \in Tx : u # t => TxSame(u), TxRows(t)'
    PROVE  RowInv'
<1>1. HeadId' = HeadId
  BY DEF HeadId, Head
<1>2. RowsWhole' /\ InlinedWhole' /\ VersionsOrdered' /\ IdsNameOne(lake.objects)'
  BY <1>1 DEF RowInv, RowsWhole, InlinedWhole, VersionsOrdered
<1>3. UniqueNames' /\ NoDanglingRows'
  BY DEF RowInv, UniqueNames, NoDanglingRows
<1>4. LogExplains'
  BY DEF RowInv, LogExplains, KeptOrDropped, OldOrCreated, SameOrAltered, DroppedSince, CreatedSince,
         AlteredSince
<1>5. ASSUME NEW u \in Tx, u # t
      PROVE  TxRows(u)'
  <2>1. TxSame(u) /\ TxRows(u)
    BY <1>5 DEF RowInv
  <2>2. Schemas(u)' = Schemas(u)
    BY <2>1 DEF Schemas, TxSame
  <2>3. SchemasChecked(u)'
    BY <2>1, <2>2 DEF TxSame, TxRows, SchemasChecked
  <2>. QED
    BY <2>1, <2>3 DEF TxSame, TxRows
<1>. QED
  BY <1>2, <1>3, <1>4, <1>5 DEF RowInv

(* Taking the head as the base.                                            *)
LEMMA BeginRows ==
    ASSUME IndInv, RowInv, NEW t \in Tx, Begin(t)
    PROVE  RowInv'
<1>1. UNCHANGED <<snapshots, lake, log>> /\ \A u \in Tx : u # t => TxSame(u)
  BY DEF IndInv, TypeOK, Begin, Goto, TxSame, dbVars
<1>2. pc'[t] = "start"
  BY DEF IndInv, TypeOK, Begin, Goto
<1>3. TxRows(t)'
  BY <1>2 DEF TxRows, SchemasChecked, Committing
<1>. QED
  BY <1>1, <1>3, RowsLocalStep

(* Loading the catalog.                                                    *)
LEMMA LoadCatalogRows ==
    ASSUME IndInv, RowInv, NEW t \in Tx, LoadCatalog(t)
    PROVE  RowInv'
<1>1. UNCHANGED <<snapshots, lake, log>> /\ \A u \in Tx : u # t => TxSame(u)
  BY DEF IndInv, TypeOK, LoadCatalog, Goto, TxSame, dbVars
<1>2. pc'[t] = "open" /\ base'[t] = base[t] /\ catalog'[t] = CatalogAt(lake, base[t].id)
  BY DEF IndInv, TypeOK, LoadCatalog, Goto
<1>3. TxRows(t)'
  BY <1>1, <1>2 DEF TxRows, SchemasChecked, Committing
<1>. QED
  BY <1>1, <1>3, RowsLocalStep

(* The columns and attributes of a catalog are of tables it has.           *)
LEMMA CatalogTables ==
    ASSUME NEW l, NEW b, NEW cat, cat = CatalogAt(l, b), NothingDangles(l, b),
           \A r \in l.objects : ObjectFields \subseteq DOMAIN r,
           \A r \in l.columns : ColumnFields \subseteq DOMAIN r,
           \A r \in l.attributes : AttributeFields \subseteq DOMAIN r
    PROVE  /\ \A r \in cat.columns : HasTable(cat, r.table)
           /\ \A r \in cat.attributes : HasTable(cat, r.table)
<1>1. /\ cat.columns = {[r EXCEPT !.end = NULL] : r \in Visible(l.columns, b)}
      /\ cat.attributes = {[r EXCEPT !.end = NULL] : r \in Visible(l.attributes, b)}
  BY DEF CatalogAt, AsOf
<1>2. /\ \A r \in Visible(l.columns, b) : TableIn(Visible(l.objects, b), r.table)
      /\ \A r \in Visible(l.attributes, b) : TableIn(Visible(l.objects, b), r.table)
  BY DanglesAs DEF NoneDangles
<1>3. \A q \in Visible(l.objects, b) : \E r \in cat.objects : Alike(q, r)
  BY CatalogRows
<1>4. ASSUME NEW id, TableIn(Visible(l.objects, b), id)
      PROVE  HasTable(cat, id)
  BY <1>3, <1>4 DEF TableIn, HasTable, Alike, Same
<1>5. ASSUME NEW r \in cat.columns PROVE HasTable(cat, r.table)
  <2>1. PICK q \in Visible(l.columns, b) : r = [q EXCEPT !.end = NULL]
    BY <1>1
  <2>2. r.table = q.table
    BY <2>1 DEF Visible, ColumnFields
  <2>. QED
    BY <1>2, <1>4, <2>2
<1>6. ASSUME NEW r \in cat.attributes PROVE HasTable(cat, r.table)
  <2>1. PICK q \in Visible(l.attributes, b) : r = [q EXCEPT !.end = NULL]
    BY <1>1
  <2>2. r.table = q.table
    BY <2>1 DEF Visible, AttributeFields
  <2>. QED
    BY <1>2, <1>4, <2>2
<1>. QED
  BY <1>5, <1>6

(* The operations of the transaction API are sound.                        *)
LEMMA CandidatesSound ==
    ASSUME NEW l, NEW cat, NEW c \in Candidates(l, cat),
           \A r \in cat.columns : HasTable(cat, r.table),
           \A r \in cat.attributes : HasTable(cat, r.table)
    PROVE  Sound(c, cat)
<1>1. \A r \in Tables(cat) : r \in cat.objects /\ r.kind = "table"
  BY DEF Tables, Objects
<1>2. \A r \in Tables(cat) : HasTable(cat, r.id)
  BY <1>1 DEF HasTable
<1>3. ASSUME NEW op, NEW kind, NEW id, NEW schema, NEW name, NEW n,
             c = Change(op, kind, id, schema, name, n)
      PROVE  c.op = op /\ c.kind = kind /\ c.id = id /\ c.schema = schema /\ c.n = n
  BY <1>3 DEF Change
<1>4. CASE c \in create_schema
  <2>1. c.op = "create" /\ c.kind = "schema" /\ c.schema = NoName
    BY <1>3, <1>4 DEF create_schema
  <2>. QED
    BY <2>1 DEF Sound, AlterOps, WriteOps, Kind
<1>5. CASE c \in create_table \union create_view \union create_macro
  <2>1. c.op = "create" /\ c.kind \in Relation \union Macro
    BY <1>3, <1>5 DEF create_table, create_view, create_macro, create_in_schema, Relation, Macro
  <2>. QED
    BY <2>1 DEF Sound, AlterOps, WriteOps, Kind, Relation, Macro
<1>6. CASE c \in delete_object(cat)
  <2>1. PICK r \in cat.objects : c.op = "delete" /\ c.kind = r.kind /\ c.id = r.id
    BY <1>3, <1>6 DEF delete_object
  <2>. QED
    BY <2>1 DEF Sound, AlterOps, WriteOps
<1>7. CASE c \in rename_table(cat)
  <2>1. PICK r \in Tables(cat) :
           c.op = "rename" /\ c.kind = "table" /\ c.id = r.id /\ c.schema = SchemaName(cat, r.schema_id)
    BY <1>3, <1>7 DEF rename_table
  <2>. QED
    BY <1>1, <2>1 DEF Sound, AlterOps, WriteOps
<1>8. CASE c \in add_table_column(l, cat)
  <2>1. c.op = "add_column" /\ c.kind = "table" /\ HasTable(cat, c.id)
    BY <1>2, <1>3, <1>8 DEF add_table_column
  <2>. QED
    BY <2>1 DEF Sound, AlterOps, WriteOps
<1>9. CASE c \in remove_table_column(cat)
  <2>1. c.op = "remove_column" /\ c.kind = "table" /\ HasTable(cat, c.id)
    BY <1>3, <1>9 DEF remove_table_column
  <2>. QED
    BY <2>1 DEF Sound, AlterOps, WriteOps
<1>10. CASE c \in add_table_tag(cat)
  <2>1. c.op = "set" /\ c.kind = "tag" /\ HasTable(cat, c.id)
    BY <1>2, <1>3, <1>10 DEF add_table_tag
  <2>. QED
    BY <2>1 DEF Sound, AlterOps, WriteOps, Indexed
<1>11. CASE c \in remove_table_tag(cat)
  <2>1. c.op = "unset" /\ HasTable(cat, c.id)
    BY <1>3, <1>11 DEF remove_table_tag
  <2>. QED
    BY <2>1 DEF Sound, AlterOps, WriteOps
<1>12. CASE c \in update_indexed(cat)
  <2>1. \/ \E r \in cat.columns : c.op = "set" /\ c.id = r.table /\ c.n = r.column
        \/ \E r \in Tables(cat) : c.op = "unset" /\ c.id = r.id
    BY <1>3, <1>12 DEF update_indexed
  <2>2. CASE \E r \in cat.columns : c.op = "set" /\ c.id = r.table /\ c.n = r.column
    <3>1. c.op = "set" /\ HasTable(cat, c.id) /\ c.n \in ColumnsOf(cat.columns, c.id)
      BY <2>2 DEF ColumnsOf
    <3>. QED
      BY <3>1 DEF Sound, AlterOps, WriteOps
  <2>3. CASE \E r \in Tables(cat) : c.op = "unset" /\ c.id = r.id
    <3>1. c.op = "unset" /\ HasTable(cat, c.id)
      BY <1>2, <2>3
    <3>. QED
      BY <3>1 DEF Sound, AlterOps, WriteOps
  <2>. QED
    BY <2>1, <2>2, <2>3
<1>13. CASE c \in write_table_data_files(cat) \union write_table_inline_data(cat)
  <2>1. c.op \in WriteOps /\ c.kind = "table" /\ (c.id = Pending \/ HasTable(cat, c.id))
    BY <1>2, <1>3, <1>13 DEF write_table_data_files, write_table_inline_data, Writable, WriteOps
  <2>. QED
    BY <2>1 DEF Sound, AlterOps, WriteOps
<1>14. CASE c \in delete_table_transferring_file_ownership(cat)
  <2>1. PICK r \in Tables(cat) : c.op = "delete" /\ c.kind = r.kind /\ c.id = r.id
    BY <1>1, <1>3, <1>14 DEF delete_table_transferring_file_ownership
  <2>. QED
    BY <1>1, <2>1 DEF Sound, AlterOps, WriteOps
<1>. QED
  BY <1>4, <1>5, <1>6, <1>7, <1>8, <1>9, <1>10, <1>11, <1>12, <1>13, <1>14 DEF Candidates

(* Calling commit: the change set was validated against the catalog.       *)
LEMMA CommitRows ==
    ASSUME IndInv, RowInv, NEW t \in Tx, Commit(t)
    PROVE  RowInv'
<1>1. PICK cs \in StagedSets(lake, catalog[t]) :
         /\ changes' = [changes EXCEPT ![t] = cs]
         /\ Goto(t, IF cs = {} THEN "committed" ELSE "load")
  BY DEF Commit
<1>2. UNCHANGED <<snapshots, lake, log>> /\ \A u \in Tx : u # t => TxSame(u)
  BY <1>1 DEF IndInv, TypeOK, Commit, Goto, TxSame, dbVars
<1>3. /\ pc[t] = "open" /\ pc'[t] \in {"committed", "load"} /\ changes'[t] = cs
      /\ base'[t] = base[t] /\ latest'[t] = latest[t] /\ catalog'[t] = catalog[t]
  BY <1>1 DEF IndInv, TypeOK, Commit, Goto
<1>4. catalog[t] = CatalogAt(lake, base[t].id)
  BY <1>3 DEF RowInv, TxRows
<1>5. latest[t] = base[t] /\ base[t].id \in Ids(snapshots) /\ base[t].id \in Nat
  BY <1>3 DEF IndInv, TxInv, BaseRetained, Active, Ids, TypeOK, Info
<1>6. /\ \A r \in catalog[t].columns : HasTable(catalog[t], r.table)
      /\ \A r \in catalog[t].attributes : HasTable(catalog[t], r.table)
  <2>1. NothingDangles(lake, base[t].id)
    BY <1>5 DEF RowInv, NoDanglingRows
  <2>2. /\ \A r \in lake.objects : ObjectFields \subseteq DOMAIN r
        /\ \A r \in lake.columns : ColumnFields \subseteq DOMAIN r
        /\ \A r \in lake.attributes : AttributeFields \subseteq DOMAIN r
    BY DEF RowInv, RowsWhole, Whole
  <2>. QED
    BY <1>4, <2>1, <2>2, CatalogTables
<1>7. Accepted(cs, catalog[t]) /\ \A c \in cs : c \in Candidates(lake, catalog[t])
  BY DEF StagedSets
<1>8. \A c \in cs : Sound(c, catalog[t])
  BY <1>6, <1>7, CandidatesSound
<1>9. SchemasChecked(t)'
  <2>1. \A e \in log : ~ (base[t].id < e.id /\ e.id <= latest[t].id)
    BY <1>5 DEF IndInv, DbInv, LogRecorded
  <2>. QED
    BY <1>2, <1>3, <2>1 DEF SchemasChecked
<1>10. TxRows(t)'
  BY <1>2, <1>3, <1>4, <1>7, <1>8, <1>9 DEF TxRows
<1>. QED
  BY <1>2, <1>10, RowsLocalStep

(* Steps of an attempt, and fetching the head for the next one.            *)
LEMMA AdvanceRows ==
    ASSUME IndInv, RowInv, NEW t \in Tx,
           NEW l \in {"attempt", "persist", "refresh", "error", "check"},
           pc[t] \in Committing,
           l \in {"attempt", "persist"} => pc[t] \in {"load", "attempt", "persist"} /\ latest' = latest,
           UNCHANGED <<snapshots, lake, log>>, UNCHANGED <<base, catalog, changes>>,
           \A u \in Tx : u # t => latest'[u] = latest[u],
           Goto(t, l)
    PROVE  RowInv'
<1>1. \A u \in Tx : u # t => TxSame(u)
  BY DEF IndInv, TypeOK, Goto, TxSame
<1>2. pc'[t] = l
  BY DEF IndInv, TypeOK, Goto
<1>3. TxRows(t) /\ Schemas(t)' = Schemas(t)
  BY DEF RowInv, Schemas
<1>4. SchemasChecked(t)'
  <2>1. CASE l \in {"attempt", "persist"}
    BY <1>2, <1>3, <2>1 DEF TxRows, SchemasChecked
  <2>2. CASE l \notin {"attempt", "persist"}
    BY <1>2, <2>2 DEF SchemasChecked
  <2>. QED
    BY <2>1, <2>2
<1>5. TxRows(t)'
  BY <1>2, <1>3, <1>4 DEF TxRows, Committing
<1>. QED
  BY <1>1, <1>5, RowsLocalStep

(* Entries about created and dropped objects read the same on top of any   *)
(* snapshot.                                                               *)
LEMMA AppliedAlike ==
    ASSUME NEW cs, NEW info, NEW other, NEW a \in applied_change_set(cs, info),
           a.verb \in {"created", "dropped"}
    PROVE  a \in applied_change_set(cs, other)
<1>1. PICK c \in cs : a = applied_change(cs, info, c)
  BY DEF applied_change_set
<1>2. c.op \in {"create", "rename", "delete"}
  BY <1>1 DEF applied_change, About
<1>3. applied_change(cs, info, c) = applied_change(cs, other, c)
  BY <1>2 DEF applied_change
<1>. QED
  BY <1>1, <1>3 DEF applied_change_set

(* What passed the check clashes with no committed change about a schema.  *)
LEMMA SchemasCarryOver ==
    ASSUME NEW cs, NEW info, NEW other, NEW theirs, NEW schemas,
           check_conflict(applied_change_set(cs, other), theirs, schemas) = {},
           NEW a \in applied_change_set(cs, info), NEW d \in theirs
    PROVE  ~ SchemaClash(a, d, schemas) /\ ~ SchemaClash(d, a, schemas)
<1> SUFFICES ASSUME SchemaClash(a, d, schemas) \/ SchemaClash(d, a, schemas) PROVE FALSE
  OBVIOUS
<1>1. a.verb \in {"created", "dropped"}
  BY DEF SchemaClash, DropsSchema
<1>2. a \in applied_change_set(cs, other)
  BY <1>1, AppliedAlike
<1>3. Conflicts(a, d, schemas)
  BY DEF Conflicts
<1> DEFINE mine == applied_change_set(cs, other)
           pairs == {q \in mine \X theirs : Conflicts(q[1], q[2], schemas)}
<1>4. <<a, d>> \in mine \X theirs /\ <<a, d>>[1] = a /\ <<a, d>>[2] = d
  BY <1>2
<1>5. <<a, d>> \in pairs
  BY <1>3, <1>4
<1>6. {"conflict" : p \in pairs} \subseteq check_conflict(mine, theirs, schemas)
  BY DEF check_conflict
<1>. HIDE DEF pairs
<1>7. "conflict" \in {"conflict" : p \in pairs}
  BY <1>5
<1>. QED
  BY <1>6, <1>7

(* The conflict check.                                                     *)
LEMMA CheckConflictRows ==
    ASSUME IndInv, RowInv, NEW t \in Tx, CheckConflict(t)
    PROVE  RowInv'
<1>1. UNCHANGED <<snapshots, lake, log>> /\ UNCHANGED <<base, latest, catalog, changes>>
  BY DEF CheckConflict, dbVars
<1>2. PICK l \in {"conflict", "not_found", "load", "exceeded"} :
         pc' = [pc EXCEPT ![t] = l] /\ (l = "load" => CheckErrors(t) = {})
  <2>1. CheckErrors(t) \subseteq {"conflict", "not_found"}
    BY DEF CheckErrors, check_conflict
  <2>2. CASE CheckErrors(t) # {}
    BY <2>1, <2>2 DEF CheckConflict, Goto
  <2>3. CASE CheckErrors(t) = {}
    BY <2>3 DEF CheckConflict, Goto
  <2>. QED
    BY <2>2, <2>3
<1>3. pc[t] = "check" /\ pc'[t] = l /\ \A u \in Tx : u # t => TxSame(u)
  BY <1>1, <1>2 DEF IndInv, TypeOK, CheckConflict, TxSame
<1>4. TxRows(t) /\ pc[t] \in Active /\ pc[t] \in Committing /\ Schemas(t)' = Schemas(t)
  BY <1>1, <1>3 DEF RowInv, Active, Committing, Schemas
<1>5. ASSUME l = "load", NEW e \in log, base[t].id < e.id, e.id <= latest[t].id,
             NEW c \in applied_change_set(changes[t], latest[t]), NEW d \in e.changes
      PROVE  ~ SchemaClash(c, d, Schemas(t)) /\ ~ SchemaClash(d, c, Schemas(t))
  <2>1. PICK r \in ChangesMade(t) : r.id = e.id /\ r.changes = e.changes
    BY <1>4, <1>5, CheckIsComplete
  <2>2. check_conflict(applied_change_set(changes[t], failed[t]), e.changes, Schemas(t)) = {}
    BY <1>2, <1>5, <2>1 DEF CheckErrors
  <2>. QED
    BY <2>2, SchemasCarryOver
<1>6. SchemasChecked(t)'
  BY <1>1, <1>3, <1>4, <1>5 DEF SchemasChecked
<1>7. TxRows(t)'
  BY <1>1, <1>3, <1>4, <1>6 DEF TxRows, Committing
<1>. QED
  BY <1>1, <1>3, <1>7, RowsLocalStep

-----------------------------------------------------------------------------
(* Every step preserves the invariant.                                     *)

(* The lake the transactions find satisfies it.                            *)
LEMMA InitRows == Init => RowInv
<1> SUFFICES ASSUME Init PROVE RowInv
  OBVIOUS
<1>1. IndInv
  BY InitEstablishes
<1>2. snapshots = {InitialSnapshot} /\ lake = InitialLake /\ log = {} /\ pc = [t \in Tx |-> "idle"]
  BY DEF Init
<1>3. HeadId = InitialSnapshot.id /\ HeadId \in Nat
  BY <1>1, <1>2, HeadFacts, InitialSnapshotAssumption DEF IndInv, DbInv, Info
<1>4. Ids(snapshots) = {HeadId}
  BY <1>2, <1>3 DEF Ids
<1>5. RowsWhole
  <2>1. ASSUME NEW r, r.begin \in 0 .. InitialSnapshot.id, r.end \in {NULL} \union 0 .. InitialSnapshot.id
        PROVE  Within(r, HeadId)
    BY <1>3, <2>1 DEF Within
  <2>2. Whole(lake.objects, ObjectFields, HeadId)
    <3> SUFFICES ASSUME NEW r \in InitialLake.objects
                 PROVE  ObjectFields \subseteq DOMAIN r /\ Within(r, HeadId)
      BY <1>2 DEF Whole
    <3>. QED
      BY <2>1, InitialLakeAssumption, InitialCatalogAssumption DEF ObjectFields
  <2>3. Whole(lake.columns, ColumnFields, HeadId)
    <3> SUFFICES ASSUME NEW r \in InitialLake.columns
                 PROVE  ColumnFields \subseteq DOMAIN r /\ Within(r, HeadId)
      BY <1>2 DEF Whole
    <3>. QED
      BY <2>1, InitialLakeAssumption, InitialCatalogAssumption DEF ColumnFields
  <2>4. Whole(lake.attributes, AttributeFields, HeadId)
    <3> SUFFICES ASSUME NEW r \in InitialLake.attributes
                 PROVE  AttributeFields \subseteq DOMAIN r /\ Within(r, HeadId)
      BY <1>2 DEF Whole
    <3>. QED
      BY <2>1, InitialLakeAssumption, InitialCatalogAssumption DEF AttributeFields
  <2>5. Whole(lake.files, FileFields, HeadId)
    <3> SUFFICES ASSUME NEW r \in InitialLake.files
                 PROVE  FileFields \subseteq DOMAIN r /\ Within(r, HeadId)
      BY <1>2 DEF Whole
    <3>. QED
      BY <2>1, InitialLakeAssumption, InitialCatalogAssumption DEF FileFields
  <2>. QED
    BY <1>2, <2>2, <2>3, <2>4, <2>5, InitialCatalogAssumption DEF RowsWhole
<1>6. InlinedWhole
  BY <1>2, InitialCatalogAssumption DEF InlinedWhole
<1>7. VersionsOrdered
  <2>1. /\ \A q, r \in snapshots : q.id <= r.id => q.schema_version <= r.schema_version
        /\ \A q, r \in snapshots : q.id = HeadId /\ r.id = HeadId
    BY <1>2, <1>3, InitialSnapshotAssumption DEF Info
  <2>2. ASSUME NEW r, Within(r, HeadId)
        PROVE  Separates(r.begin, snapshots) /\ (r.end # NULL => Separates(r.end, snapshots))
    BY <1>3, <2>1, <2>2 DEF Within, Separates
  <2>. QED
    BY <1>5, <2>1, <2>2 DEF VersionsOrdered, SchemaDated, RowsWhole, Whole
<1>8. IdsNameOne(lake.objects) /\ UniqueNames /\ NoDanglingRows
  BY <1>2, <1>3, <1>4, InitialCatalogAssumption DEF UniqueNames, NoDanglingRows
<1>9. LogExplains
  <2>1. /\ Visible(lake.objects, HeadId) = Live(lake.objects)
        /\ Visible(lake.columns, HeadId) = Live(lake.columns)
        /\ Visible(lake.attributes, HeadId) = Live(lake.attributes)
    BY <1>3, <1>5, LiveIsVisible DEF RowsWhole
  <2>2. KeptOrDropped(HeadId) /\ OldOrCreated(HeadId) /\ SameOrAltered(HeadId)
    BY <2>1 DEF KeptOrDropped, OldOrCreated, SameOrAltered, Same
  <2>. QED
    BY <1>4, <2>2 DEF LogExplains
<1>10. \A t \in Tx : TxRows(t)
  BY <1>2 DEF TxRows, SchemasChecked, Committing
<1>. QED
  BY <1>5, <1>6, <1>7, <1>8, <1>9, <1>10 DEF RowInv

(* So does every step.                                                     *)
LEMMA NextPreservesRows ==
    ASSUME IndInv, RowInv, SafeRetention, [Next]_vars
    PROVE  RowInv'
<1>1. CASE ExpireSnapshots
  BY <1>1, ExpireRowsStep
<1>2. ASSUME NEW t \in Tx, Step(t)
      PROVE  RowInv'
  <2>1. CASE Begin(t)
    BY <2>1, BeginRows
  <2>2. CASE LoadCatalog(t)
    BY <2>2, LoadCatalogRows
  <2>3. CASE Commit(t)
    BY <2>3, CommitRows
  <2>4. CASE LoadStats(t)
    <3>1. /\ pc[t] = "load" /\ Goto(t, "attempt") /\ latest' = latest
          /\ UNCHANGED <<snapshots, lake, log>> /\ UNCHANGED <<base, catalog, changes>>
      BY <2>4 DEF LoadStats
    <3>. QED
      BY <3>1, AdvanceRows DEF Committing
  <2>5. CASE BeginPersist(t)
    <3>1. /\ pc[t] = "attempt" /\ Goto(t, "persist") /\ latest' = latest
          /\ UNCHANGED <<snapshots, lake, log>> /\ UNCHANGED <<base, catalog, changes>>
      BY <2>5 DEF BeginPersist, dbVars
    <3>. QED
      BY <3>1, AdvanceRows DEF Committing
  <2>6. CASE PersistOk(t)
    BY <2>6, PersistOkRows
  <2>7. CASE PersistRetry(t)
    <3>1. /\ pc[t] = "persist" /\ Goto(t, "refresh") /\ latest' = latest
          /\ UNCHANGED <<snapshots, lake, log>> /\ UNCHANGED <<base, catalog, changes>>
      BY <2>7 DEF PersistRetry, EndAttempt, dbVars
    <3>. QED
      BY <3>1, AdvanceRows DEF Committing
  <2>8. CASE PersistError(t)
    <3>1. /\ pc[t] = "persist" /\ Goto(t, "error") /\ latest' = latest
          /\ UNCHANGED <<snapshots, lake, log>> /\ UNCHANGED <<base, catalog, changes>>
      BY <2>8 DEF PersistError, EndAttempt, dbVars
    <3>. QED
      BY <3>1, AdvanceRows DEF Committing
  <2>9. CASE Refresh(t)
    <3>1. /\ pc[t] = "refresh" /\ Goto(t, "check")
          /\ UNCHANGED <<snapshots, lake, log>> /\ UNCHANGED <<base, catalog, changes>>
          /\ \A u \in Tx : u # t => latest'[u] = latest[u]
      BY <2>9 DEF Refresh, dbVars, IndInv, TypeOK
    <3>. QED
      BY <3>1, AdvanceRows DEF Committing
  <2>10. CASE CheckConflict(t)
    BY <2>10, CheckConflictRows
  <2>. QED
    BY <1>2, <2>1, <2>2, <2>3, <2>4, <2>5, <2>6, <2>7, <2>8, <2>9, <2>10 DEF Step
<1>3. CASE UNCHANGED vars
  <2>1. UNCHANGED <<snapshots, lake, log>> /\ UNCHANGED <<pc, base, latest, catalog, changes>>
    BY <1>3 DEF vars, dbVars, txVars
  <2>2. HeadId' = HeadId
    BY <2>1 DEF HeadId, Head
  <2>3. RowsWhole' /\ InlinedWhole' /\ VersionsOrdered' /\ IdsNameOne(lake.objects)'
    BY <2>1, <2>2 DEF RowInv, RowsWhole, InlinedWhole, VersionsOrdered
  <2>4. UniqueNames' /\ NoDanglingRows'
    BY <2>1 DEF RowInv, UniqueNames, NoDanglingRows
  <2>5. LogExplains'
    BY <2>1 DEF RowInv, LogExplains, KeptOrDropped, OldOrCreated, SameOrAltered, DroppedSince,
                CreatedSince, AlteredSince
  <2>6. \A u \in Tx : TxRows(u)'
    BY <2>1 DEF RowInv, TxRows, SchemasChecked, Schemas
  <2>. QED
    BY <2>3, <2>4, <2>5, <2>6 DEF RowInv
<1>. QED
  BY <1>1, <1>2, <1>3 DEF Next

-----------------------------------------------------------------------------
(* Every state of the protocol satisfies the invariant.                    *)
THEOREM RowInvariance ==
    ASSUME SafeRetention
    PROVE  Spec => [](IndInv /\ RowInv)
<1>1. Init => IndInv /\ RowInv
  BY InitEstablishes, InitRows
<1>2. IndInv /\ RowInv /\ [Next]_vars => (IndInv /\ RowInv)'
  BY NextPreserves, NextPreservesRows
<1>. QED
  BY <1>1, <1>2, PTL DEF Spec

(* In every retained snapshot the names of tables and views, of schemas    *)
(* and of macros are unique: two transactions that create the same name,   *)
(* or rename to it, cannot both commit (check_conflict).                   *)
THEOREM NamesAreUnique ==
    ASSUME SafeRetention
    PROVE  Spec => []UniqueNames
<1>1. IndInv /\ RowInv => UniqueNames
  BY DEF RowInv
<1>. QED
  BY <1>1, RowInvariance, PTL

(* In every retained snapshot objects are in schemas it has, columns, tags *)
(* and files are of tables it has, and keys name columns it has: no commit *)
(* writes to what another has dropped, and no expiry takes one row of a    *)
(* snapshot without the rows that depend on it.                            *)
THEOREM NothingEverDangles ==
    ASSUME SafeRetention
    PROVE  Spec => []NoDanglingRows
<1>1. IndInv /\ RowInv => NoDanglingRows
  BY DEF RowInv
<1>. QED
  BY <1>1, RowInvariance, PTL

(* Snapshots of one schema version see the same rows of the catalog.       *)
LEMMA OneVersionOneView ==
    ASSUME NEW S, S \subseteq Info, NEW rows, NEW fields, NEW h, Whole(rows, fields, h),
           SchemaDated(rows, S), NEW q \in S, NEW r \in S, q.schema_version = r.schema_version
    PROVE  Visible(rows, q.id) = Visible(rows, r.id)
<1>1. ASSUME NEW x \in rows PROVE VisibleAt(x, q.id) <=> VisibleAt(x, r.id)
  <2>1. /\ q.id \in Nat /\ r.id \in Nat
        /\ ~ (q.schema_version < r.schema_version) /\ ~ (r.schema_version < q.schema_version)
    BY DEF Info
  <2>2. x.begin \in Nat /\ (x.end = NULL \/ x.end \in Nat)
    BY DEF Whole, Within
  <2>3. ~ (q.id < x.begin /\ x.begin <= r.id) /\ ~ (r.id < x.begin /\ x.begin <= q.id)
    BY <2>1 DEF SchemaDated, Separates
  <2>4. x.end # NULL =>
           ~ (q.id < x.end /\ x.end <= r.id) /\ ~ (r.id < x.end /\ x.end <= q.id)
    BY <2>1 DEF SchemaDated, Separates
  <2>. QED
    BY <2>1, <2>2, <2>3, <2>4 DEF VisibleAt
<1>. QED
  BY <1>1 DEF Visible

(* The catalog cache may be keyed by the schema version: retained          *)
(* snapshots with the same version have the same catalog                   *)
(* (caches/catalog.rs).                                                    *)
THEOREM VersionsDetermineCatalogs ==
    ASSUME SafeRetention
    PROVE  Spec => []SchemaVersionDeterminesCatalog
<1>1. IndInv /\ RowInv => SchemaVersionDeterminesCatalog
  <2> SUFFICES ASSUME IndInv, RowInv, NEW q \in snapshots, NEW r \in snapshots,
                      q.schema_version = r.schema_version
               PROVE  CatalogAt(lake, q.id) = CatalogAt(lake, r.id)
    BY DEF SchemaVersionDeterminesCatalog
  <2>1. snapshots \subseteq Info
    BY DEF IndInv, TypeOK
  <2>2. Visible(lake.objects, q.id) = Visible(lake.objects, r.id)
    BY <2>1, OneVersionOneView DEF RowInv, RowsWhole, VersionsOrdered
  <2>3. Visible(lake.columns, q.id) = Visible(lake.columns, r.id)
    BY <2>1, OneVersionOneView DEF RowInv, RowsWhole, VersionsOrdered
  <2>4. Visible(lake.attributes, q.id) = Visible(lake.attributes, r.id)
    BY <2>1, OneVersionOneView DEF RowInv, RowsWhole, VersionsOrdered
  <2>. QED
    BY <2>2, <2>3, <2>4 DEF CatalogAt, AsOf
<1>. QED
  BY <1>1, RowInvariance, PTL

-----------------------------------------------------------------------------
(* Time travel.                                                            *)

\* The two lakes have the same tables in snapshot s.
SameTables(new, l, s) ==
    \A id : TableIn(Visible(new.objects, s), id) <=> TableIn(Visible(l.objects, s), id)

\* The inlined rows of those tables are the same.
SameInlined(new, l, s) ==
    /\ \A r \in AsOf(new.inlined, s) : TableIn(Visible(l.objects, s), r.table) => r \in AsOf(l.inlined, s)
    /\ \A r \in AsOf(l.inlined, s) : TableIn(Visible(l.objects, s), r.table) => r \in AsOf(new.inlined, s)

(* Lakes that agree on these show the same inlined data.                   *)
LEMMA SameInlinedData ==
    ASSUME NEW new, NEW l, NEW s, SameTables(new, l, s), SameInlined(new, l, s)
    PROVE  DataAt(new.inlined, new, s) = DataAt(l.inlined, l, s)
<1>1. \A r : r \in DataAt(new.inlined, new, s) <=>
         r \in AsOf(new.inlined, s) /\ TableIn(Visible(new.objects, s), r.table)
  BY DEF DataAt, TableIn
<1>2. \A r : r \in DataAt(l.inlined, l, s) <=>
         r \in AsOf(l.inlined, s) /\ TableIn(Visible(l.objects, s), r.table)
  BY DEF DataAt, TableIn
<1>3. \A r : r \in DataAt(new.inlined, new, s) <=> r \in DataAt(l.inlined, l, s)
  BY <1>1, <1>2 DEF SameTables, SameInlined
<1>. QED
  BY <1>3

(* The same files of the same tables are the same data.                    *)
LEMMA SameFileData ==
    ASSUME NEW new, NEW l, NEW files, NEW s, SameTables(new, l, s),
           AsOf(new.files, s) = AsOf(files, s)
    PROVE  DataAt(new.files, new, s) = DataAt(files, l, s)
<1>1. \A r : r \in DataAt(new.files, new, s) <=>
         r \in AsOf(files, s) /\ TableIn(Visible(new.objects, s), r.table)
  BY DEF DataAt, TableIn
<1>2. \A r : r \in DataAt(files, l, s) <=>
         r \in AsOf(files, s) /\ TableIn(Visible(l.objects, s), r.table)
  BY DEF DataAt, TableIn
<1>3. \A r : r \in DataAt(new.files, new, s) <=> r \in DataAt(files, l, s)
  BY <1>1, <1>2 DEF SameTables
<1>. QED
  BY <1>3

\* What a commit of cs leaves of the data of snapshot s.
DataKept(new, l, cs, s) ==
    /\ CatalogAt(new, s) = CatalogAt(l, s)
    /\ DataAt(new.inlined, new, s) = DataAt(l.inlined, l, s)
    /\ DataAt(new.files, new, s) = {r \in DataAt(l.files, l, s) : ~ detached_table(cs, r.table)}

(* A commit changes nothing older snapshots show, but the files of the     *)
(* tables it hands over to another lake.                                   *)
LEMMA CommitKeepsData ==
    ASSUME NEW t \in Tx, NEW k, NEW new, Commits(t, k, new), NEW s \in Nat, s < k,
           new.inlined = persist_inlined(lake.inlined, changes[t], latest[t], stats[t]),
           k = latest[t].id + 1
    PROVE  DataKept(new, lake, changes[t], s)
<1> DEFINE cs == changes[t]
           kept == attached(lake.files, cs)
<1>1. SeenAsBefore(new, lake, s) /\ FilesAsBefore(new, lake, cs, s)
  BY PastAfter
<1>2. SameTables(new, lake, s)
  BY <1>1 DEF SeenAsBefore, Mirrors, SameTables, TableIn, ObjectFields
<1>3. k \in Nat
  BY DEF Commits
<1>4. Visible(new.inlined, s) = Visible(lake.inlined, s)
  <2>1. \A r \in new.inlined : r \in lake.inlined \/ r.begin = k
    BY DEF persist_inlined
  <2>2. \A r \in lake.inlined : r \in new.inlined
    BY DEF persist_inlined
  <2>. QED
    BY <1>3, <2>1, <2>2 DEF Visible, VisibleAt
<1>5. SameInlined(new, lake, s)
  BY <1>4 DEF SameInlined, AsOf
<1>6. DataAt(new.inlined, new, s) = DataAt(lake.inlined, lake, s)
  BY <1>2, <1>5, SameInlinedData
<1>7. DataAt(new.files, new, s) = DataAt(kept, lake, s)
  BY <1>1, <1>2, SameFileData DEF FilesAsBefore
<1>8. \A r \in lake.files : [r EXCEPT !.end = NULL].table = r.table
  BY DEF Commits, WholeLake, Whole, FileFields
<1>9. \A r : r \in AsOf(kept, s) <=> r \in AsOf(lake.files, s) /\ ~ detached_table(cs, r.table)
  BY <1>8 DEF AsOf, Visible, attached
<1>10. DataAt(kept, lake, s) = {r \in DataAt(lake.files, lake, s) : ~ detached_table(cs, r.table)}
  BY <1>9 DEF DataAt
<1>. QED
  BY <1>6, <1>7, <1>10, CatalogAfter DEF DataKept

(* Expiry changes nothing that retained snapshots show.                    *)
LEMMA ExpiryKeepsData ==
    ASSUME NEW l, NEW ids, NEW s \in ids, NothingDangles(l, s),
           \A r \in l.inlined : {"table", "begin", "end"} \subseteq DOMAIN r,
           NEW new, new = ExpireRows(l, ids)
    PROVE  DataKept(new, l, {}, s)
<1>1. /\ SeenAlike(new, l, s)
      /\ \A o \in Visible(l.objects, s) : o.kind = "table" => o.id \notin ExpiredTables(l, ids)
  BY ExpiryKeepsRetained
<1>2. SameTables(new, l, s)
  BY <1>1 DEF SeenAlike, SameTables
<1>3. \A id : TableIn(Visible(l.objects, s), id) => id \notin ExpiredTables(l, ids)
  BY <1>1 DEF TableIn
<1>4. new.inlined = {r \in l.inlined : r.table \notin ExpiredTables(l, ids)}
  BY DEF ExpireRows
<1>5. \A r \in AsOf(new.inlined, s) : r \in AsOf(l.inlined, s)
  BY <1>4 DEF AsOf, Visible
<1>6. ASSUME NEW r \in AsOf(l.inlined, s), TableIn(Visible(l.objects, s), r.table)
      PROVE  r \in AsOf(new.inlined, s)
  <2>1. PICK q \in Visible(l.inlined, s) : r = [q EXCEPT !.end = NULL]
    BY DEF AsOf
  <2>2. r.table = q.table
    BY <2>1 DEF Visible
  <2>3. q \in Visible(new.inlined, s)
    BY <1>3, <1>4, <1>6, <2>2 DEF Visible
  <2>. QED
    BY <2>1, <2>3 DEF AsOf
<1>7. SameInlined(new, l, s)
  BY <1>5, <1>6 DEF SameInlined
<1>8. DataAt(new.inlined, new, s) = DataAt(l.inlined, l, s)
  BY <1>2, <1>7, SameInlinedData
<1>9. DataAt(new.files, new, s) = DataAt(l.files, l, s)
  BY <1>1, <1>2, SameFileData DEF SeenAlike, AsOf
<1>10. CatalogAt(new, s) = CatalogAt(l, s)
  BY <1>1 DEF SeenAlike, CatalogAt, AsOf
<1>11. \A r : ~ detached_table({}, r.table)
  BY DEF detached_table, Ops
<1>. QED
  BY <1>8, <1>9, <1>10, <1>11 DEF DataKept

\* The transactions that are committed by the step.
JustCommitted(t) == pc[t] = "persist" /\ pc'[t] = "committed"

\* What a step leaves of what snapshot s shows.
SnapshotKept(s) ==
    /\ CatalogAt(lake', s) = CatalogAt(lake, s)
    /\ DataAt(lake'.inlined, lake', s) = DataAt(lake.inlined, lake, s)
    /\ DataAt(lake'.files, lake', s) =
          {r \in DataAt(lake.files, lake, s) :
             ~ \E t \in Tx : JustCommitted(t) /\ detached_table(changes[t], r.table)}

(* What a retained snapshot shows never changes, but for moved files.      *)
LEMMA StepsKeepSnapshots ==
    ASSUME IndInv, RowInv, SafeRetention, [Next]_vars,
           NEW s \in Ids(snapshots), s \in Ids(snapshots')
    PROVE  SnapshotKept(s)
<1>1. ASSUME lake' = lake, \A t \in Tx : ~ JustCommitted(t) PROVE SnapshotKept(s)
  BY <1>1 DEF SnapshotKept
<1>2. CASE ExpireSnapshots
  <2>1. PICK ids, new : /\ Ids(snapshots') = ids /\ lake' = new /\ new = ExpireRows(lake, ids)
    BY <1>2, ExpireFacts
  <2>2. NothingDangles(lake, s) /\ \A r \in lake.inlined : {"table", "begin", "end"} \subseteq DOMAIN r
    BY DEF RowInv, NoDanglingRows, InlinedWhole
  <2>3. DataKept(lake', lake, {}, s)
    BY <2>1, <2>2, ExpiryKeepsData
  <2>4. \A t \in Tx : ~ JustCommitted(t)
    BY <1>2 DEF ExpireSnapshots, JustCommitted, txVars
  <2>5. \A r : ~ detached_table({}, r.table)
    BY DEF detached_table, Ops
  <2>. QED
    BY <2>3, <2>4, <2>5 DEF SnapshotKept, DataKept
<1>3. ASSUME NEW t \in Tx, PersistOk(t) PROVE SnapshotKept(s)
  <2>1. PICK k, new : Commits(t, k, new) /\ lake' = new
    BY <1>3, PersistOkFacts
  <2>2. k = latest[t].id + 1 /\ s \in Nat /\ s < k
    <3>1. \A x \in snapshots : x.id \in Nat /\ x.id <= HeadId
      BY HeadFacts DEF IndInv, DbInv, SnapshotsOrdered, Info
    <3>. QED
      BY <2>1, <3>1 DEF Commits, Ids
  <2>3. new.inlined = persist_inlined(lake.inlined, changes[t], latest[t], stats[t])
    BY <1>3, <2>1 DEF PersistOk, persist
  <2>4. DataKept(lake', lake, changes[t], s)
    BY <2>1, <2>2, <2>3, CommitKeepsData
  <2>5. \A u \in Tx : JustCommitted(u) <=> u = t
    BY <1>3 DEF PersistOk, EndAttempt, Goto, JustCommitted, IndInv, TypeOK
  <2>6. \A r : (\E u \in Tx : JustCommitted(u) /\ detached_table(changes[u], r.table))
                 <=> detached_table(changes[t], r.table)
    BY <2>5
  <2>. QED
    BY <2>4, <2>6 DEF SnapshotKept, DataKept
<1>4. ASSUME NEW t \in Tx, Step(t), ~ PersistOk(t)
      PROVE  lake' = lake /\ \A u \in Tx : ~ JustCommitted(u)
  <2>1. lake' = lake
    BY <1>4 DEF Step, Begin, LoadCatalog, Commit, LoadStats, BeginPersist, PersistRetry,
                PersistError, Refresh, CheckConflict, dbVars
  <2>2. \E l : pc' = [pc EXCEPT ![t] = l] /\ ~ (pc[t] = "persist" /\ l = "committed")
    BY <1>4 DEF Step, Begin, LoadCatalog, Commit, LoadStats, BeginPersist, PersistRetry,
                PersistError, Refresh, CheckConflict, EndAttempt, Goto
  <2>3. pc \in [Tx -> UNION {Finished, Active, {"idle"}}]
    BY DEF IndInv, TypeOK
  <2>. QED
    BY <2>1, <2>2, <2>3 DEF JustCommitted
<1>5. UNCHANGED vars => lake' = lake /\ \A u \in Tx : ~ JustCommitted(u)
  BY DEF vars, dbVars, txVars, JustCommitted
<1>. QED
  BY <1>1, <1>2, <1>3, <1>4, <1>5 DEF Next

(* Time travel: the catalog and the data a reader of a retained snapshot   *)
(* gets are the same before and after any commit and any expiry, but for   *)
(* the files of the tables that a move hands over to another lake          *)
(* (transaction_changes.rs, detached_tables).                              *)
THEOREM TimeTravelIsStable ==
    ASSUME SafeRetention
    PROVE  Spec => TimeTravelStable
<1>1. IndInv /\ RowInv /\ [Next]_vars =>
         [\A s \in Ids(snapshots) \intersect Ids(snapshots') : SnapshotKept(s)]_vars
  BY StepsKeepSnapshots
<1>2. [\A s \in Ids(snapshots) \intersect Ids(snapshots') : SnapshotKept(s)]_vars =>
         [\A s \in Ids(snapshots) \intersect Ids(snapshots') :
             /\ CatalogAt(lake', s) = CatalogAt(lake, s)
             /\ DataAt(lake'.inlined, lake', s) = DataAt(lake.inlined, lake, s)
             /\ DataAt(lake'.files, lake', s) =
                   {r \in DataAt(lake.files, lake, s) :
                      ~ \E t \in Tx : /\ pc[t] = "persist" /\ pc'[t] = "committed"
                                      /\ detached_table(changes[t], r.table)}]_vars
  BY DEF SnapshotKept, JustCommitted
<1>. QED
  BY <1>1, <1>2, RowInvariance, PTL DEF Spec, TimeTravelStable

=============================================================================
