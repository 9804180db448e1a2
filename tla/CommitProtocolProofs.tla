------------------------ MODULE CommitProtocolProofs ------------------------
(***************************************************************************)
(* The commit protocol implements LinearHistory, for any number of         *)
(* transactions, any retry bound and any menu of changes, provided that    *)
(* snapshot expiry spares what open transactions need.                     *)
(***************************************************************************)
EXTENDS CommitProperties, FiniteSetTheorems, TLAPS

-----------------------------------------------------------------------------
(* The inductive invariant: a part about the database and one about each   *)
(* transaction.                                                            *)

\* Snapshot IDs are unique, have a maximum, and order the ID counters.
SnapshotsOrdered ==
    /\ snapshots \subseteq Info
    /\ \E s \in snapshots : \A r \in snapshots : r.id <= s.id
    /\ \A q, r \in snapshots :
          /\ q.id = r.id => q = r
          /\ q.id <= r.id => q.next_catalog_id <= r.next_catalog_id

\* A retained commit has its row of changes; the IDs in it are below the
\* counter of every snapshot that follows.
LogRecorded ==
    \A e \in log :
        /\ e.id \in Nat /\ e.id <= HeadId
        /\ e.id \in Ids(snapshots) =>
              \E r \in snapshot_changes : r.id = e.id /\ r.changes = e.changes
        /\ \A d \in e.changes :
              /\ d.id \in Int
              /\ \A s \in snapshots : e.id <= s.id => d.id < s.next_catalog_id

\* A row visible in a snapshot has an ID below the counter of that snapshot.
Dated(begin, id) ==
    /\ begin \in Nat /\ begin <= HeadId
    /\ id \in Int
    /\ \A s \in snapshots : begin <= s.id => id < s.next_catalog_id

RowsDated ==
    /\ \A r \in lake.objects : {"id", "begin", "end"} \subseteq DOMAIN r /\ Dated(r.begin, r.id)
    /\ \A r \in lake.columns : {"table", "begin", "end"} \subseteq DOMAIN r /\ Dated(r.begin, r.table)
    /\ \A r \in lake.attributes : {"table", "begin", "end"} \subseteq DOMAIN r /\ Dated(r.begin, r.table)

\* No snapshot from the base of an active transaction on is missing.
BaseRetained(t) ==
    pc[t] \in Active =>
        /\ base[t] \in snapshots /\ latest[t] \in snapshots
        /\ base[t].id <= latest[t].id
        /\ \A i \in base[t].id .. HeadId : i \in Ids(snapshots)
        /\ pc[t] \in {"start", "open"} => latest[t] = base[t]

KnownId(id, info) == id \in Int /\ id < info.next_catalog_id

KnownCatalog(cat, info) ==
    /\ \A r \in cat.objects : KnownId(r.id, info)
    /\ \A r \in cat.columns : KnownId(r.table, info)
    /\ \A r \in cat.attributes : KnownId(r.table, info)

KnownChange(c, info) ==
    /\ KnownId(c.id, info)
    /\ c.op = "create" => c.kind \in Kind
    /\ c.op = "write_files" => c.n \in Nat

KnownChanges(cs, info) ==
    /\ \A c \in cs : KnownChange(c, info)
    /\ \A c \in cs : c.id = Pending => "table" \in CreatedKinds(cs)

Compatible(cs, info, e) ==
    \A c \in applied_change_set(cs, info), d \in e.changes : ~ NameClash(c, d) /\ ~ IdClash(c, d)

\* Everything committed since the base is compatible with the next attempt.
Checked(t) ==
    pc[t] \in {"load", "attempt", "persist"} =>
        \A e \in log : base[t].id < e.id /\ e.id <= latest[t].id =>
            Compatible(changes[t], latest[t], e)

DbInv == SnapshotsOrdered /\ LogRecorded /\ RowsDated

TxInv(t) ==
    /\ BaseRetained(t)
    /\ pc[t] = "open" => KnownCatalog(catalog[t], base[t])
    /\ pc[t] \in Committing => KnownChanges(changes[t], base[t])
    /\ Checked(t)

IndInv ==
    /\ TypeOK
    /\ DOMAIN catalog = Tx /\ DOMAIN changes = Tx
    /\ DbInv
    /\ \A t \in Tx : TxInv(t)

-----------------------------------------------------------------------------
(* Facts about the operators.                                              *)

(* load_latest returns the snapshot with the largest ID, if there is one.  *)
LEMMA NewestIsMaximum ==
    ASSUME NEW rows, \E s \in rows : \A r \in rows : r.id <= s.id
    PROVE  Newest(rows) \in rows /\ \A r \in rows : r.id <= Newest(rows).id
BY Zenon DEF Newest

(* A change set draws finitely many IDs from the counter (CommitState).    *)
LEMMA NumberedFinite ==
    ASSUME NEW cs, \A c \in cs : c.op = "create" => c.kind \in Kind
    PROVE  IsFiniteSet(Numbered(cs)) /\ Cardinality(Numbered(cs)) \in Nat
<1> DEFINE relations == {"schema", "table", "view"}
           macros == {"scalar_macro", "table_macro"}
<1>1. IsFiniteSet({} \union {"schema"} \union {"table"} \union {"view"})
  BY FS_EmptySet, FS_AddElement, Zenon
<1>2. IsFiniteSet({} \union {"scalar_macro"} \union {"table_macro"})
  BY FS_EmptySet, FS_AddElement, Zenon
<1>3. IsFiniteSet({} \union {"partitioning"} \union {"sort"})
  BY FS_EmptySet, FS_AddElement, Zenon
<1>4. /\ {} \union {"schema"} \union {"table"} \union {"view"} = relations
      /\ {} \union {"scalar_macro"} \union {"table_macro"} = macros
      /\ {} \union {"partitioning"} \union {"sort"} = Indexed
  BY Zenon DEF Indexed
<1>5. Numbered(cs) \subseteq relations \union macros \union Indexed
  BY DEF Numbered, CreatedKinds, Indexed, Ops, Kind, Relation, Macro
<1>. HIDE DEF relations, macros
<1>6. IsFiniteSet(relations) /\ IsFiniteSet(macros) /\ IsFiniteSet(Indexed)
  BY <1>1, <1>2, <1>3, <1>4, Zenon
<1>7. IsFiniteSet(relations \union macros \union Indexed)
  BY <1>6, FS_Union, Zenon
<1>. QED
  BY <1>5, <1>7, FS_Subset, FS_CardinalityType

(* The ID of a created object is at or above the counter of the snapshot   *)
(* an attempt builds on and below the counter it leaves (CommitState).     *)
LEMMA CatalogIdBelowNext ==
    ASSUME NEW cs, NEW info \in Info, NEW kind \in CreatedKinds(cs),
           \A c \in cs : c.op = "create" => c.kind \in Kind
    PROVE  /\ catalog_id(cs, info, kind) \in Int
           /\ catalog_id(cs, info, kind) >= info.next_catalog_id
           /\ catalog_id(cs, info, kind)
                < info.next_catalog_id + Cardinality(Numbered(cs))
<1> DEFINE below == {k \in Numbered(cs) : Rank[k] < Rank[kind]}
<1>1. IsFiniteSet(Numbered(cs)) /\ Cardinality(Numbered(cs)) \in Nat
  BY NumberedFinite
<1>2. kind \in Numbered(cs) /\ kind \in Kind
  BY DEF Numbered, CreatedKinds, Ops
<1>3. Rank[kind] \in Nat
  BY <1>2 DEF Kind, Relation, Macro, Rank
<1>4. below \in SUBSET Numbered(cs) /\ below # Numbered(cs)
  BY <1>2, <1>3
<1>. HIDE DEF below
<1>5. Cardinality(below) \in Nat /\ Cardinality(below) < Cardinality(Numbered(cs))
  <2>1. /\ IsFiniteSet(below) /\ Cardinality(below) <= Cardinality(Numbered(cs))
        /\ (Cardinality(Numbered(cs)) = Cardinality(below) => Numbered(cs) = below)
    BY <1>1, <1>4, FS_Subset
  <2>2. Cardinality(below) \in Nat
    BY <2>1, FS_CardinalityType
  <2>. QED
    BY <2>1, <2>2, <1>1, <1>4
<1>6. catalog_id(cs, info, kind) = info.next_catalog_id + Cardinality(below)
  BY DEF catalog_id, below
<1>7. info.next_catalog_id \in Nat
  BY DEF Info
<1>. QED
  BY <1>1, <1>5, <1>6, <1>7

(* Every operation of the transaction API names an object of the catalog   *)
(* the transaction holds, or one the transaction creates itself.           *)
LEMMA CandidatesKnown ==
    ASSUME NEW l, NEW cat, NEW info \in Info, KnownCatalog(cat, info),
           NEW c \in Candidates(l, cat)
    PROVE  KnownChange(c, info)
<1>1. info.next_catalog_id \in Nat
  BY DEF Info
<1>2. KnownId(NoId, info) /\ KnownId(Pending, info)
  BY <1>1 DEF KnownId, NoId, Pending
<1>3. \A r \in Tables(cat) : r \in cat.objects
  BY DEF Tables, Objects
<1>4. ASSUME NEW op, NEW kind, NEW id, NEW schema, NEW name, NEW n,
             c = Change(op, kind, id, schema, name, n), KnownId(id, info),
             op = "create" => kind \in Kind, op = "write_files" => n \in Nat
      PROVE  KnownChange(c, info)
  BY <1>4 DEF KnownChange, Change
<1>5. CASE c \in create_schema
  BY <1>2, <1>4, <1>5 DEF create_schema, Kind
<1>6. CASE c \in create_table \union create_view \union create_macro
  BY <1>2, <1>4, <1>6
  DEF create_table, create_view, create_macro, create_in_schema, Kind, Relation, Macro
<1>7. CASE c \in delete_object(cat)
  BY <1>4, <1>7 DEF delete_object, KnownCatalog
<1>8. CASE c \in rename_table(cat)
  BY <1>3, <1>4, <1>8 DEF rename_table, KnownCatalog
<1>9. CASE c \in add_table_column(l, cat)
  BY <1>3, <1>4, <1>9 DEF add_table_column, KnownCatalog
<1>10. CASE c \in remove_table_column(cat)
  BY <1>4, <1>10 DEF remove_table_column, KnownCatalog
<1>11. CASE c \in add_table_tag(cat)
  BY <1>3, <1>4, <1>11 DEF add_table_tag, KnownCatalog
<1>12. CASE c \in remove_table_tag(cat)
  BY <1>4, <1>12 DEF remove_table_tag, KnownCatalog
<1>13. CASE c \in update_indexed(cat)
  BY <1>3, <1>4, <1>13 DEF update_indexed, KnownCatalog
<1>14. \A id \in Writable(cat) : KnownId(id, info)
  BY <1>2, <1>3 DEF Writable, KnownCatalog
<1>15. CASE c \in write_table_data_files(cat)
  BY <1>4, <1>14, <1>15, FileCountsAssumption DEF write_table_data_files
<1>16. CASE c \in write_table_inline_data(cat)
  BY <1>4, <1>14, <1>16 DEF write_table_inline_data
<1>17. CASE c \in delete_table_transferring_file_ownership(cat)
  BY <1>3, <1>4, <1>17 DEF delete_table_transferring_file_ownership, KnownCatalog
<1>. QED
  BY <1>5, <1>6, <1>7, <1>8, <1>9, <1>10, <1>11, <1>12, <1>13, <1>15, <1>16, <1>17
  DEF Candidates

(* The change set of a transaction is about objects of its base snapshot   *)
(* and about the table it creates, if it creates one.                      *)
LEMMA StagedSetsKnown ==
    ASSUME NEW l, NEW cat, NEW info \in Info, KnownCatalog(cat, info),
           NEW cs \in StagedSets(l, cat)
    PROVE  KnownChanges(cs, info)
<1>1. \A c \in cs : c \in Candidates(l, cat)
  BY DEF StagedSets
<1>2. Accepted(cs, cat)
  BY DEF StagedSets
<1>3. \A c \in cs : c.id = Pending => "table" \in CreatedKinds(cs)
  BY <1>2 DEF Accepted
<1>. QED
  BY <1>1, <1>3, CandidatesKnown DEF KnownChanges

(* The counter never decreases, so what is known stays known.              *)
LEMMA KnownMonotone ==
    ASSUME NEW cs, NEW old \in Info, NEW new \in Info,
           old.next_catalog_id <= new.next_catalog_id, KnownChanges(cs, old)
    PROVE  KnownChanges(cs, new)
BY DEF KnownChanges, KnownChange, KnownId, Info

(* The row finalize_commit inserts is the successor of the snapshot the    *)
(* attempt builds on, and its counters have not gone back.                 *)
LEMMA NewSnapshotFacts ==
    ASSUME NEW cs, NEW info \in Info, KnownChanges(cs, info)
    PROVE  /\ NewSnapshot(cs, info) \in Info
           /\ NewSnapshot(cs, info).id = info.id + 1
           /\ NewSnapshot(cs, info).next_catalog_id
                = info.next_catalog_id + Cardinality(Numbered(cs))
           /\ Cardinality(Numbered(cs)) \in Nat
<1>1. Cardinality(Numbered(cs)) \in Nat
  BY NumberedFinite DEF KnownChanges, KnownChange
<1>2. FileCount(cs) \in Nat
  <2>1. CASE Ops(cs, "write_files") = {}
    BY <2>1 DEF FileCount
  <2>2. CASE Ops(cs, "write_files") # {}
    <3> DEFINE w == CHOOSE c \in Ops(cs, "write_files") : TRUE
    <3>1. w \in Ops(cs, "write_files")
      BY <2>2
    <3>2. w.n \in Nat
      BY <3>1 DEF Ops, KnownChanges, KnownChange
    <3>. QED
      BY <2>2, <3>2 DEF FileCount
  <2>. QED
    BY <2>1, <2>2
<1>3. file_ids(cs) \in Nat
  BY <1>2 DEF file_ids
<1>. QED
  BY <1>1, <1>3 DEF NewSnapshot, Info

(* The IDs recorded in ducklake_snapshot_changes are below the counter of  *)
(* the snapshot they are recorded for.                                     *)
LEMMA AppliedIdsBelowNext ==
    ASSUME NEW cs, NEW info \in Info, KnownChanges(cs, info),
           NEW a \in applied_change_set(cs, info)
    PROVE  KnownId(a.id, NewSnapshot(cs, info))
<1>1. PICK c \in cs : a = applied_change(cs, info, c)
  BY DEF applied_change_set
<1>2. KnownChange(c, info) /\ (c.id = Pending => "table" \in CreatedKinds(cs))
  BY DEF KnownChanges
<1>3. \A d \in cs : d.op = "create" => d.kind \in Kind
  BY DEF KnownChanges, KnownChange
<1>4. /\ NewSnapshot(cs, info).next_catalog_id
           = info.next_catalog_id + Cardinality(Numbered(cs))
      /\ Cardinality(Numbered(cs)) \in Nat /\ info.next_catalog_id \in Nat
  BY NewSnapshotFacts DEF Info
<1>5. KnownId(c.id, NewSnapshot(cs, info)) /\ KnownId(NoId, NewSnapshot(cs, info))
  BY <1>2, <1>4 DEF KnownChange, KnownId, NoId
<1>6. KnownId(table_id(cs, info, c), NewSnapshot(cs, info))
  BY <1>2, <1>3, <1>4, <1>5, CatalogIdBelowNext DEF table_id, KnownId
<1>7. a.id \in {NoId, c.id, table_id(cs, info, c)}
  BY <1>1 DEF applied_change, Created, About
<1>. QED
  BY <1>5, <1>6, <1>7

(* Described on top of another snapshot a change reads the same, except    *)
(* that an insert into a table of the transaction itself carries the ID    *)
(* the table would get there.                                              *)
LEMMA AppliedOnAnotherSnapshot ==
    ASSUME NEW cs, NEW info \in Info, NEW other \in Info,
           KnownChanges(cs, info),
           NEW a \in applied_change_set(cs, info)
    PROVE  \/ a \in applied_change_set(cs, other)
           \/ /\ a.verb # "created"
              /\ a.id \in Int /\ a.id >= info.next_catalog_id
<1>1. PICK c \in cs : a = applied_change(cs, info, c)
  BY DEF applied_change_set
<1>2. CASE c.op \in WriteOps /\ c.id = Pending
  <2>1. "table" \in CreatedKinds(cs) /\ \A d \in cs : d.op = "create" => d.kind \in Kind
    BY <1>2 DEF KnownChanges, KnownChange
  <2>2. /\ catalog_id(cs, info, "table") \in Int
        /\ catalog_id(cs, info, "table") >= info.next_catalog_id
    BY <2>1, CatalogIdBelowNext
  <2>3. a.verb # "created" /\ a.id = catalog_id(cs, info, "table")
    BY <1>1, <1>2 DEF applied_change, About, WriteOps, table_id
  <2>. QED
    BY <2>2, <2>3
<1>3. CASE ~ (c.op \in WriteOps /\ c.id = Pending)
  <2>1. applied_change(cs, info, c) = applied_change(cs, other, c)
    BY <1>3 DEF applied_change, table_id, WriteOps
  <2>. QED
    BY <1>1, <2>1 DEF applied_change_set
<1>. QED
  BY <1>2, <1>3

(* What passed the conflict check with the IDs of the failed attempt also  *)
(* holds with the IDs of the next one: those are newer than anything the   *)
(* committed changes can mention.                                          *)
LEMMA CheckCarriesOver ==
    ASSUME NEW cs, NEW info \in Info, NEW other \in Info,
           KnownChanges(cs, info), NEW e, NEW schemas,
           \A d \in e.changes : d.id \in Int /\ d.id < info.next_catalog_id,
           check_conflict(applied_change_set(cs, other), e.changes, schemas) = {}
    PROVE  Compatible(cs, info, e)
<1>1. \A a \in applied_change_set(cs, other), d \in e.changes :
         ~ Conflicts(a, d, schemas)
  <2> SUFFICES ASSUME NEW a \in applied_change_set(cs, other), NEW d \in e.changes,
                      Conflicts(a, d, schemas)
               PROVE  FALSE
    OBVIOUS
  <2> DEFINE mine == applied_change_set(cs, other)
             pairs == {q \in mine \X e.changes : Conflicts(q[1], q[2], schemas)}
  <2>1. <<a, d>> \in mine \X e.changes /\ <<a, d>>[1] = a /\ <<a, d>>[2] = d
    OBVIOUS
  <2>2. <<a, d>> \in pairs
    BY <2>1
  <2>3. {"conflict" : p \in pairs} \subseteq check_conflict(mine, e.changes, schemas)
    BY DEF check_conflict
  <2>. HIDE DEF pairs
  <2>4. "conflict" \in {"conflict" : p \in pairs}
    BY <2>2
  <2>. QED
    BY <2>3, <2>4
<1>2. SUFFICES ASSUME NEW a \in applied_change_set(cs, info), NEW d \in e.changes
               PROVE  ~ NameClash(a, d) /\ ~ IdClash(a, d)
  BY DEF Compatible
<1>3. CASE a \in applied_change_set(cs, other)
  BY <1>1, <1>3 DEF Conflicts
<1>4. CASE a.verb # "created" /\ a.id \in Int /\ a.id >= info.next_catalog_id
  <2>1. info.next_catalog_id \in Nat /\ d.id \in Int /\ d.id < info.next_catalog_id
    BY DEF Info
  <2>2. a.id # d.id
    BY <1>4, <2>1
  <2>. QED
    BY <1>4, <2>2 DEF NameClash, IdClash
<1>. QED
  BY <1>3, <1>4, AppliedOnAnotherSnapshot

-----------------------------------------------------------------------------
(* The rows a commit leaves: the IDs are known and a row that did not      *)
(* begin with the commit began before it under the same ID.                *)
Continues(begin, id, old, cs, info) ==
    /\ begin \in Nat
    /\ KnownId(id, NewSnapshot(cs, info))
    /\ begin = info.id + 1 \/ <<begin, id>> \in old

ObjectKeys(rows) == {<<r.begin, r.id>> : r \in rows}
TableKeys(rows) == {<<r.begin, r.table>> : r \in rows}

(* Schemas, tables, views and macros: retired, copied or created.          *)
LEMMA ObjectsContinue ==
    ASSUME NEW rows, NEW cs, NEW info \in Info, NEW cat, KnownChanges(cs, info),
           \A r \in rows : /\ {"id", "begin", "end"} \subseteq DOMAIN r
                           /\ r.begin \in Nat /\ KnownId(r.id, info),
           NEW q \in persist_objects(rows, cs, info, cat)
    PROVE  /\ {"id", "begin", "end"} \subseteq DOMAIN q
           /\ Continues(q.begin, q.id, ObjectKeys(rows), cs, info)
<1> DEFINE retired == Retire(rows, info.id + 1, {r \in rows : dropped(cs, r) \/ renamed(cs, r)})
<1>1. info.id \in Nat /\ info.next_catalog_id \in Nat
  BY DEF Info
<1>2. /\ NewSnapshot(cs, info).next_catalog_id
           = info.next_catalog_id + Cardinality(Numbered(cs))
      /\ Cardinality(Numbered(cs)) \in Nat
  BY NewSnapshotFacts
<1>3. \A r \in rows : KnownId(r.id, NewSnapshot(cs, info))
  BY <1>1, <1>2 DEF KnownId
<1>4. \A p \in retired : \E r \in rows :
         /\ DOMAIN p = DOMAIN r /\ p.id = r.id /\ p.begin = r.begin
  BY DEF Retire
<1>5. CASE q \in retired
  BY <1>3, <1>4, <1>5 DEF Continues, ObjectKeys
<1>. HIDE DEF retired
<1>6. CASE q \in renamed_copies(cs, info.id + 1, retired)
  <2>1. PICK rc \in retired \X Ops(cs, "rename") :
           q = [rc[1] EXCEPT !.name = rc[2].name, !.begin = info.id + 1, !.end = NULL]
    BY <1>6 DEF renamed_copies
  <2>2. rc[1] \in retired
    BY <2>1
  <2>3. PICK r \in rows : DOMAIN rc[1] = DOMAIN r /\ rc[1].id = r.id
    BY <1>4, <2>2
  <2>4. {"id", "begin", "end"} \subseteq DOMAIN q /\ q.id = r.id /\ q.begin = info.id + 1
    BY <2>1, <2>3
  <2>. QED
    BY <1>1, <1>3, <2>4 DEF Continues
<1>7. CASE q \in new_objects(cs, info, cat)
  <2>1. PICK c \in Ops(cs, "create") :
           /\ {"id", "begin", "end"} \subseteq DOMAIN q
           /\ q.id = catalog_id(cs, info, c.kind) /\ q.begin = info.id + 1
    BY <1>7 DEF new_objects
  <2>2. c.kind \in CreatedKinds(cs) /\ \A d \in cs : d.op = "create" => d.kind \in Kind
    BY DEF CreatedKinds, KnownChanges, KnownChange
  <2>3. /\ catalog_id(cs, info, c.kind) \in Int
        /\ catalog_id(cs, info, c.kind) < info.next_catalog_id + Cardinality(Numbered(cs))
    BY <2>2, CatalogIdBelowNext
  <2>. QED
    BY <1>1, <1>2, <2>1, <2>3 DEF Continues, KnownId
<1>. QED
  BY <1>5, <1>6, <1>7 DEF persist_objects, retired

(* Columns: retired, added, or the first column of a created table.        *)
LEMMA ColumnsContinue ==
    ASSUME NEW rows, NEW cs, NEW info \in Info, KnownChanges(cs, info),
           \A r \in rows : /\ {"table", "begin", "end"} \subseteq DOMAIN r
                           /\ r.begin \in Nat /\ KnownId(r.table, info),
           NEW q \in persist_columns(rows, cs, info)
    PROVE  /\ {"table", "begin", "end"} \subseteq DOMAIN q
           /\ Continues(q.begin, q.table, TableKeys(rows), cs, info)
<1> DEFINE retired == Retire(rows, info.id + 1, {r \in rows : retires_column(cs, r)})
<1>1. info.id \in Nat /\ info.next_catalog_id \in Nat
  BY DEF Info
<1>2. /\ NewSnapshot(cs, info).next_catalog_id
           = info.next_catalog_id + Cardinality(Numbered(cs))
      /\ Cardinality(Numbered(cs)) \in Nat
  BY NewSnapshotFacts
<1>3. \A r \in rows : KnownId(r.table, NewSnapshot(cs, info))
  BY <1>1, <1>2 DEF KnownId
<1>4. \A p \in retired : \E r \in rows :
         /\ DOMAIN p = DOMAIN r /\ p.table = r.table /\ p.begin = r.begin
  BY DEF Retire
<1>5. CASE q \in retired
  BY <1>3, <1>4, <1>5 DEF Continues, TableKeys
<1>. HIDE DEF retired
<1>6. CASE \E c \in Ops(cs, "add_column") :
             q = [table |-> c.id, column |-> c.n, begin |-> info.id + 1, end |-> NULL]
  <2>1. PICK c \in Ops(cs, "add_column") :
           q = [table |-> c.id, column |-> c.n, begin |-> info.id + 1, end |-> NULL]
    BY <1>6
  <2>2. KnownId(c.id, NewSnapshot(cs, info))
    BY <1>1, <1>2 DEF Ops, KnownChanges, KnownChange, KnownId
  <2>. QED
    BY <1>1, <2>1, <2>2 DEF Continues
<1>7. CASE \E c \in {d \in Ops(cs, "create") : d.kind = "table"} :
             q = [table |-> catalog_id(cs, info, "table"), column |-> 1,
                  begin |-> info.id + 1, end |-> NULL]
  <2>1. "table" \in CreatedKinds(cs) /\ \A d \in cs : d.op = "create" => d.kind \in Kind
    BY <1>7 DEF CreatedKinds, KnownChanges, KnownChange
  <2>2. KnownId(catalog_id(cs, info, "table"), NewSnapshot(cs, info))
    BY <1>2, <2>1, CatalogIdBelowNext DEF KnownId
  <2>. QED
    BY <1>1, <1>7, <2>2 DEF Continues
<1>. QED
  BY <1>5, <1>6, <1>7 DEF persist_columns, retired

(* Tags, partitionings and sort orders: retired or set.                    *)
LEMMA AttributesContinue ==
    ASSUME NEW rows, NEW cs, NEW info \in Info, KnownChanges(cs, info),
           \A r \in rows : /\ {"table", "begin", "end"} \subseteq DOMAIN r
                           /\ r.begin \in Nat /\ KnownId(r.table, info),
           NEW q \in persist_attributes(rows, cs, info)
    PROVE  /\ {"table", "begin", "end"} \subseteq DOMAIN q
           /\ Continues(q.begin, q.table, TableKeys(rows), cs, info)
<1> DEFINE retired == Retire(rows, info.id + 1, {r \in rows : retires_attribute(cs, r)})
<1>1. info.id \in Nat /\ info.next_catalog_id \in Nat
  BY DEF Info
<1>2. /\ NewSnapshot(cs, info).next_catalog_id
           = info.next_catalog_id + Cardinality(Numbered(cs))
      /\ Cardinality(Numbered(cs)) \in Nat
  BY NewSnapshotFacts
<1>3. \A r \in rows : KnownId(r.table, NewSnapshot(cs, info))
  BY <1>1, <1>2 DEF KnownId
<1>4. \A p \in retired : \E r \in rows :
         /\ DOMAIN p = DOMAIN r /\ p.table = r.table /\ p.begin = r.begin
  BY DEF Retire
<1>5. CASE q \in retired
  BY <1>3, <1>4, <1>5 DEF Continues, TableKeys
<1>. HIDE DEF retired
<1>6. CASE q \notin retired
  <2>1. PICK c \in Ops(cs, "set") :
           /\ {"table", "begin", "end"} \subseteq DOMAIN q
           /\ q.table = c.id /\ q.begin = info.id + 1
    BY <1>6 DEF persist_attributes, retired
  <2>2. KnownId(c.id, NewSnapshot(cs, info))
    BY <1>1, <1>2 DEF Ops, KnownChanges, KnownChange, KnownId
  <2>. QED
    BY <1>1, <2>1, <2>2 DEF Continues
<1>. QED
  BY <1>5, <1>6

-----------------------------------------------------------------------------
(* The invariant is inductive.                                             *)

(* The head is a snapshot and no snapshot is newer.                        *)
LEMMA HeadFacts ==
    ASSUME SnapshotsOrdered
    PROVE  /\ Head \in snapshots /\ Head \in Info /\ HeadId = Head.id /\ HeadId \in Nat
           /\ \A r \in snapshots : r.id <= HeadId
<1>1. Head \in snapshots /\ \A r \in snapshots : r.id <= Head.id
  BY NewestIsMaximum DEF Head, SnapshotsOrdered
<1>2. Head \in Info
  BY <1>1 DEF SnapshotsOrdered
<1>. QED
  BY <1>1, <1>2 DEF HeadId, Info

(* The transactions start on a consistent lake.                            *)
LEMMA InitEstablishes == Init => IndInv
<1> SUFFICES ASSUME Init PROVE IndInv
  OBVIOUS
<1>1. TypeOK /\ DOMAIN catalog = Tx /\ DOMAIN changes = Tx
  BY InitialSnapshotAssumption, MaxRetryAssumption DEF Init, TypeOK, Active, Finished
<1>2. SnapshotsOrdered
  BY InitialSnapshotAssumption DEF Init, SnapshotsOrdered, Info
<1>3. Head = InitialSnapshot /\ HeadId = InitialSnapshot.id
  BY <1>2, HeadFacts DEF Init, HeadId
<1>4. LogRecorded
  BY DEF Init, LogRecorded
<1>5. RowsDated
  <2>1. snapshots = {InitialSnapshot} /\ lake = InitialLake
    BY DEF Init
  <2>2. InitialSnapshot.id \in Nat /\ InitialSnapshot.next_catalog_id \in Nat
    BY InitialSnapshotAssumption DEF Info
  <2>3. ASSUME NEW b \in 0 .. InitialSnapshot.id,
               NEW i \in 0 .. InitialSnapshot.next_catalog_id - 1
        PROVE  Dated(b, i)
    BY <1>3, <2>1, <2>2 DEF Dated
  <2>. QED
    BY <2>1, <2>3, InitialLakeAssumption DEF RowsDated
<1>6. \A t \in Tx : TxInv(t)
  BY DEF Init, TxInv, BaseRetained, Checked, Active, Committing
<1>. QED
  BY <1>1, <1>2, <1>4, <1>5, <1>6 DEF IndInv, DbInv

TxSame(u) ==
    /\ pc'[u] = pc[u] /\ base'[u] = base[u] /\ latest'[u] = latest[u]
    /\ catalog'[u] = catalog[u] /\ changes'[u] = changes[u]

(* A step of one transaction that leaves the database alone disturbs no    *)
(* other transaction.                                                      *)
LEMMA LocalStep ==
    ASSUME IndInv, NEW t \in Tx,
           UNCHANGED <<snapshots, snapshot_changes, lake, log>>,
           TypeOK', DOMAIN catalog' = Tx, DOMAIN changes' = Tx,
           \A u \in Tx : u # t => TxSame(u),
           TxInv(t)'
    PROVE  IndInv'
<1>1. HeadId' = HeadId
  BY DEF HeadId, Head
<1>2. SnapshotsOrdered'
  BY DEF IndInv, DbInv, SnapshotsOrdered
<1>3. LogRecorded'
  BY <1>1 DEF IndInv, DbInv, LogRecorded
<1>4. RowsDated'
  BY <1>1 DEF IndInv, DbInv, RowsDated, Dated
<1>5. ASSUME NEW u \in Tx, u # t
      PROVE  TxInv(u)'
  <2>1. TxSame(u) /\ TxInv(u)
    BY <1>5 DEF IndInv
  <2>2. BaseRetained(u)'
    BY <1>1, <2>1 DEF TxInv, TxSame, BaseRetained
  <2>3. Checked(u)'
    BY <2>1 DEF TxInv, TxSame, Checked
  <2>4. (pc[u] = "open" => KnownCatalog(catalog[u], base[u]))'
    BY <2>1 DEF TxInv, TxSame
  <2>5. (pc[u] \in Committing => KnownChanges(changes[u], base[u]))'
    BY <2>1 DEF TxInv, TxSame
  <2>. QED
    BY <2>2, <2>3, <2>4, <2>5 DEF TxInv
<1>. QED
  BY <1>2, <1>3, <1>4, <1>5 DEF IndInv, DbInv

(* Taking the head as the base.                                            *)
LEMMA BeginStep ==
    ASSUME IndInv, NEW t \in Tx, Begin(t)
    PROVE  IndInv'
<1>1. /\ Head \in snapshots /\ Head \in Info /\ HeadId = Head.id /\ HeadId \in Nat
      /\ \A r \in snapshots : r.id <= HeadId
  BY HeadFacts DEF IndInv, DbInv
<1>2. UNCHANGED <<snapshots, snapshot_changes, lake, log>> /\ HeadId' = HeadId
  BY DEF Begin, dbVars, HeadId, Head
<1>3. TypeOK' /\ DOMAIN catalog' = Tx /\ DOMAIN changes' = Tx
  BY <1>1, MaxRetryAssumption DEF IndInv, TypeOK, Begin, Goto, dbVars, Active, Finished
<1>4. \A u \in Tx : u # t => TxSame(u)
  BY DEF IndInv, TypeOK, Begin, Goto, TxSame
<1>5. base'[t] = Head /\ latest'[t] = Head /\ pc'[t] = "start"
  BY DEF IndInv, TypeOK, Begin, Goto
<1>6. TxInv(t)'
  <2>1. BaseRetained(t)'
    BY <1>1, <1>2, <1>5 DEF BaseRetained, Ids
  <2>. QED
    BY <1>5, <2>1 DEF TxInv, Checked, Committing
<1>. QED
  BY <1>2, <1>3, <1>4, <1>6, LocalStep

(* Loading the catalog of the base.                                        *)
LEMMA LoadCatalogStep ==
    ASSUME IndInv, NEW t \in Tx, LoadCatalog(t)
    PROVE  IndInv'
<1>1. UNCHANGED <<snapshots, snapshot_changes, lake, log>> /\ HeadId' = HeadId
  BY DEF LoadCatalog, dbVars, HeadId, Head
<1>2. TypeOK' /\ DOMAIN catalog' = Tx /\ DOMAIN changes' = Tx
  BY DEF IndInv, TypeOK, LoadCatalog, Goto, dbVars, Active, Finished
<1>3. \A u \in Tx : u # t => TxSame(u)
  BY DEF IndInv, TypeOK, LoadCatalog, Goto, TxSame
<1>4. /\ pc[t] = "start" /\ pc'[t] = "open" /\ base'[t] = base[t] /\ latest'[t] = latest[t]
      /\ catalog'[t] = CatalogAt(lake, base[t].id)
  BY DEF IndInv, TypeOK, LoadCatalog, Goto
<1>5. BaseRetained(t) /\ pc[t] \in Active
  BY <1>4 DEF IndInv, TxInv, Active
<1>6. BaseRetained(t)'
  BY <1>1, <1>4, <1>5 DEF BaseRetained
<1>7. KnownCatalog(CatalogAt(lake, base[t].id), base[t])
  <2>1. base[t] \in snapshots
    BY <1>5 DEF BaseRetained
  <2>2. \A r \in lake.objects : {"id", "begin", "end"} \subseteq DOMAIN r /\ Dated(r.begin, r.id)
    BY DEF IndInv, DbInv, RowsDated
  <2>3. \A r \in lake.columns : {"table", "begin", "end"} \subseteq DOMAIN r /\ Dated(r.begin, r.table)
    BY DEF IndInv, DbInv, RowsDated
  <2>4. \A r \in lake.attributes : {"table", "begin", "end"} \subseteq DOMAIN r /\ Dated(r.begin, r.table)
    BY DEF IndInv, DbInv, RowsDated
  <2>5. \A q \in AsOf(lake.objects, base[t].id) : KnownId(q.id, base[t])
    BY <2>1, <2>2 DEF AsOf, Visible, VisibleAt, Dated, KnownId
  <2>6. \A q \in AsOf(lake.columns, base[t].id) : KnownId(q.table, base[t])
    BY <2>1, <2>3 DEF AsOf, Visible, VisibleAt, Dated, KnownId
  <2>7. \A q \in AsOf(lake.attributes, base[t].id) : KnownId(q.table, base[t])
    BY <2>1, <2>4 DEF AsOf, Visible, VisibleAt, Dated, KnownId
  <2>. QED
    BY <2>5, <2>6, <2>7 DEF KnownCatalog, CatalogAt
<1>8. TxInv(t)'
  BY <1>4, <1>6, <1>7 DEF TxInv, Checked, Committing
<1>. QED
  BY <1>1, <1>2, <1>3, <1>8, LocalStep

(* Calling commit.  The first attempt builds on the base itself, so there  *)
(* is nothing to be compatible with.                                       *)
LEMMA CommitStep ==
    ASSUME IndInv, NEW t \in Tx, Commit(t)
    PROVE  IndInv'
<1>0. PICK cs \in StagedSets(lake, catalog[t]) :
         /\ changes' = [changes EXCEPT ![t] = cs]
         /\ Goto(t, IF cs = {} THEN "committed" ELSE "load")
  BY DEF Commit
<1>1. UNCHANGED <<snapshots, snapshot_changes, lake, log>> /\ HeadId' = HeadId
  BY DEF Commit, dbVars, HeadId, Head
<1>2. TypeOK' /\ DOMAIN catalog' = Tx /\ DOMAIN changes' = Tx
  BY <1>0, MaxRetryAssumption
  DEF IndInv, TypeOK, Commit, Goto, dbVars, Active, Finished, Committing
<1>3. \A u \in Tx : u # t => TxSame(u)
  BY <1>0 DEF IndInv, TypeOK, Commit, Goto, TxSame
<1>4. /\ pc[t] = "open" /\ pc'[t] \in {"committed", "load"}
      /\ base'[t] = base[t] /\ latest'[t] = latest[t] /\ changes'[t] = cs
  BY <1>0 DEF IndInv, TypeOK, Commit, Goto
<1>5. BaseRetained(t) /\ pc[t] \in Active /\ KnownCatalog(catalog[t], base[t])
  BY <1>4 DEF IndInv, TxInv, Active
<1>6. BaseRetained(t)'
  BY <1>1, <1>4, <1>5 DEF BaseRetained
<1>7. KnownChanges(cs, base[t])
  BY <1>5, StagedSetsKnown DEF IndInv, TypeOK
<1>8. Checked(t)'
  <2>1. latest[t] = base[t] /\ base[t].id \in Nat
    BY <1>4, <1>5 DEF BaseRetained, IndInv, TypeOK, Info
  <2>2. \A e \in log : ~ (base'[t].id < e.id /\ e.id <= latest'[t].id)
    BY <1>4, <2>1 DEF IndInv, DbInv, LogRecorded
  <2>. QED
    BY <1>1, <2>2 DEF Checked
<1>9. TxInv(t)'
  BY <1>4, <1>6, <1>7, <1>8 DEF TxInv
<1>. QED
  BY <1>1, <1>2, <1>3, <1>9, LocalStep

(* Steps of an attempt that change neither the database nor what the       *)
(* attempt builds on: reading statistics, taking the lock, rolling back.   *)
LEMMA AdvanceStep ==
    ASSUME IndInv, NEW t \in Tx, NEW l \in {"attempt", "persist", "refresh", "error"},
           pc[t] \in {"load", "attempt", "persist"},
           UNCHANGED <<snapshots, snapshot_changes, lake, log>>,
           UNCHANGED <<base, latest, failed, catalog, changes, retry>>,
           Goto(t, l)
    PROVE  IndInv'
<1>1. HeadId' = HeadId
  BY DEF HeadId, Head
<1>2. TypeOK' /\ DOMAIN catalog' = Tx /\ DOMAIN changes' = Tx
  BY MaxRetryAssumption DEF IndInv, TypeOK, Goto, Active, Finished, Committing
<1>3. \A u \in Tx : u # t => TxSame(u)
  BY DEF IndInv, TypeOK, Goto, TxSame
<1>4. pc'[t] = l /\ pc[t] \in Active /\ pc[t] \in Committing
  BY DEF IndInv, TypeOK, Goto, Active, Committing
<1>5. BaseRetained(t) /\ KnownChanges(changes[t], base[t]) /\ Checked(t)
  BY <1>4 DEF IndInv, TxInv
<1>6. BaseRetained(t)'
  BY <1>1, <1>4, <1>5 DEF BaseRetained
<1>7. Checked(t)'
  BY <1>4, <1>5 DEF Checked
<1>8. TxInv(t)'
  BY <1>4, <1>5, <1>6, <1>7 DEF TxInv
<1>. QED
  BY <1>2, <1>3, <1>8, LocalStep

(* Fetching the head for the next attempt.                                 *)
LEMMA RefreshStep ==
    ASSUME IndInv, NEW t \in Tx, Refresh(t)
    PROVE  IndInv'
<1>1. /\ Head \in snapshots /\ Head \in Info /\ HeadId = Head.id /\ HeadId \in Nat
      /\ \A r \in snapshots : r.id <= HeadId
  BY HeadFacts DEF IndInv, DbInv
<1>2. UNCHANGED <<snapshots, snapshot_changes, lake, log>> /\ HeadId' = HeadId
  BY DEF Refresh, dbVars, HeadId, Head
<1>3. TypeOK' /\ DOMAIN catalog' = Tx /\ DOMAIN changes' = Tx
  BY <1>1 DEF IndInv, TypeOK, Refresh, Goto, dbVars, Active, Finished, Committing
<1>4. \A u \in Tx : u # t => TxSame(u)
  BY DEF IndInv, TypeOK, Refresh, Goto, TxSame
<1>5. /\ base'[t] = base[t] /\ latest'[t] = Head /\ changes'[t] = changes[t]
      /\ pc[t] = "refresh" /\ pc'[t] = "check"
  BY DEF IndInv, TypeOK, Refresh, Goto
<1>6. BaseRetained(t) /\ pc[t] \in Active /\ KnownChanges(changes[t], base[t])
  BY <1>5 DEF IndInv, TxInv, Active, Committing
<1>7. BaseRetained(t)'
  BY <1>1, <1>2, <1>5, <1>6 DEF BaseRetained
<1>8. TxInv(t)'
  BY <1>5, <1>6, <1>7 DEF TxInv, Checked
<1>. QED
  BY <1>2, <1>3, <1>4, <1>8, LocalStep

(* The range query of the check misses no commit, because no snapshot      *)
(* between the base and the head has been expired.                         *)
LEMMA CheckIsComplete ==
    ASSUME IndInv, NEW t \in Tx, pc[t] \in Active,
           NEW e \in log, base[t].id < e.id, e.id <= latest[t].id
    PROVE  \E r \in ChangesMade(t) : r.id = e.id /\ r.changes = e.changes
<1>1. BaseRetained(t)
  BY DEF IndInv, TxInv
<1>2. /\ base[t].id \in Nat /\ latest[t].id \in Nat /\ e.id \in Nat
      /\ HeadId \in Nat /\ e.id <= HeadId
  BY HeadFacts DEF IndInv, TypeOK, Info, DbInv, LogRecorded
<1>3. e.id \in base[t].id .. HeadId
  BY <1>2
<1>4. e.id \in Ids(snapshots)
  BY <1>1, <1>3 DEF BaseRetained
<1>5. PICK r \in snapshot_changes : r.id = e.id /\ r.changes = e.changes
  BY <1>4 DEF IndInv, DbInv, LogRecorded
<1>. QED
  BY <1>5 DEF ChangesMade

(* The conflict check.                                                     *)
LEMMA CheckConflictStep ==
    ASSUME IndInv, NEW t \in Tx, CheckConflict(t)
    PROVE  IndInv'
<1>1. /\ UNCHANGED <<snapshots, snapshot_changes, lake, log>>
      /\ UNCHANGED <<base, latest, failed, catalog, changes>> /\ HeadId' = HeadId
  BY DEF CheckConflict, dbVars, HeadId, Head
<1>2. pc[t] = "check" /\ retry[t] \in Nat /\ retry[t] <= MaxRetry
  BY DEF CheckConflict, IndInv, TypeOK
<1>3. PICK l \in {"conflict", "not_found", "load", "exceeded"} :
         /\ pc' = [pc EXCEPT ![t] = l]
         /\ l = "load" =>
               /\ CheckErrors(t) = {} /\ retry[t] < MaxRetry
               /\ retry' = [retry EXCEPT ![t] = retry[t] + 1]
         /\ l = "exceeded" => retry' = [retry EXCEPT ![t] = retry[t] + 1]
         /\ l \in {"conflict", "not_found"} => retry' = retry
  <2>1. CheckErrors(t) \subseteq {"conflict", "not_found"}
    BY DEF CheckErrors, check_conflict
  <2>2. CASE CheckErrors(t) # {}
    BY <2>1, <2>2 DEF CheckConflict, Goto
  <2>3. CASE CheckErrors(t) = {}
    BY <2>3 DEF CheckConflict, Goto
  <2>. QED
    BY <2>2, <2>3
<1>4. TypeOK' /\ DOMAIN catalog' = Tx /\ DOMAIN changes' = Tx
  <2>1. retry' \in [Tx -> Nat]
    BY <1>2, <1>3 DEF IndInv, TypeOK
  <2>2. pc' \in [Tx -> {"idle"} \union Active \union Finished]
    BY <1>3 DEF IndInv, TypeOK, Active, Committing, Finished
  <2>3. \A u \in Tx : retry'[u] <= IF pc'[u] = "exceeded" THEN MaxRetry + 1 ELSE MaxRetry
    <3> SUFFICES ASSUME NEW u \in Tx
                 PROVE  retry'[u] <= IF pc'[u] = "exceeded" THEN MaxRetry + 1 ELSE MaxRetry
      OBVIOUS
    <3>1. CASE u # t
      BY <1>3, <3>1 DEF IndInv, TypeOK
    <3>2. CASE u = t
      <4>1. pc'[t] = l /\ retry'[t] = IF l \in {"load", "exceeded"} THEN retry[t] + 1 ELSE retry[t]
        BY <1>3 DEF IndInv, TypeOK
      <4>. QED
        BY <1>2, <1>3, <3>2, <4>1, MaxRetryAssumption
    <3>. QED
      BY <3>1, <3>2
  <2>. QED
    BY <1>1, <2>1, <2>2, <2>3 DEF IndInv, TypeOK
<1>5. \A u \in Tx : u # t => TxSame(u)
  BY <1>1, <1>3 DEF IndInv, TypeOK, TxSame
<1>6. pc'[t] = l /\ pc[t] \in Active /\ pc[t] \in Committing
  BY <1>2, <1>3 DEF IndInv, TypeOK, Active, Committing
<1>7. BaseRetained(t) /\ KnownChanges(changes[t], base[t])
  BY <1>6 DEF IndInv, TxInv
<1>8. BaseRetained(t)'
  BY <1>1, <1>6, <1>7 DEF BaseRetained
<1>9. Checked(t)'
  <2>1. CASE l # "load"
    BY <1>6, <2>1 DEF Checked
  <2>2. CASE l = "load"
    <3>1. SUFFICES ASSUME NEW e \in log, base[t].id < e.id, e.id <= latest[t].id
                   PROVE  Compatible(changes[t], latest[t], e)
      BY <1>1 DEF Checked
    <3>2. PICK r \in ChangesMade(t) : r.id = e.id /\ r.changes = e.changes
      BY <1>6, <3>1, CheckIsComplete
    <3>3. check_conflict(applied_change_set(changes[t], failed[t]), e.changes, Schemas(t)) = {}
      BY <1>3, <2>2, <3>2 DEF CheckErrors
    <3>4. /\ latest[t] \in snapshots /\ base[t] \in snapshots
          /\ latest[t] \in Info /\ base[t] \in Info /\ failed[t] \in Info
          /\ base[t].next_catalog_id <= latest[t].next_catalog_id
      BY <1>6, <1>7 DEF BaseRetained, IndInv, TypeOK, DbInv, SnapshotsOrdered
    <3>5. KnownChanges(changes[t], latest[t])
      BY <1>7, <3>4, KnownMonotone
    <3>6. \A d \in e.changes : d.id \in Int /\ d.id < latest[t].next_catalog_id
      BY <3>1, <3>4 DEF IndInv, DbInv, LogRecorded
    <3>. QED
      BY <3>3, <3>4, <3>5, <3>6, CheckCarriesOver
  <2>. QED
    BY <2>1, <2>2
<1>10. TxInv(t)'
  BY <1>1, <1>6, <1>7, <1>8, <1>9 DEF TxInv
<1>. QED
  BY <1>1, <1>4, <1>5, <1>10, LocalStep

(* A commit succeeds only on top of the head.                              *)
LEMMA CommitsOnHead ==
    ASSUME IndInv, NEW t \in Tx, PersistOk(t)
    PROVE  /\ latest[t] = Head /\ latest[t] \in Info /\ latest[t] \in snapshots
           /\ HeadId = latest[t].id
           /\ KnownChanges(changes[t], latest[t])
           /\ snapshots' = snapshots \union {NewSnapshot(changes[t], latest[t])}
           /\ HeadId' = HeadId + 1
<1>1. pc[t] = "persist" /\ Outcome(t) = "ok"
  BY DEF PersistOk
<1>2. latest[t].id + 1 \notin Ids(snapshots)
  BY <1>1 DEF Outcome, SnapshotKeyTaken
<1>3. BaseRetained(t) /\ KnownChanges(changes[t], base[t]) /\ pc[t] \in Active
  BY <1>1 DEF IndInv, TxInv, Committing, Active
<1>4. /\ Head \in snapshots /\ HeadId = Head.id /\ HeadId \in Nat
      /\ \A r \in snapshots : r.id <= HeadId
  BY HeadFacts DEF IndInv, DbInv
<1>5. /\ latest[t] \in Info /\ base[t] \in Info
      /\ latest[t] \in snapshots /\ base[t] \in snapshots
      /\ base[t].id \in Nat /\ latest[t].id \in Nat /\ base[t].id <= latest[t].id
  BY <1>3 DEF BaseRetained, IndInv, TypeOK, Info
<1>6. latest[t].id = HeadId
  <2>1. latest[t].id <= HeadId
    BY <1>4, <1>5
  <2>2. ~ (latest[t].id + 1 \in base[t].id .. HeadId)
    BY <1>2, <1>3 DEF BaseRetained
  <2>. QED
    BY <1>4, <1>5, <2>1, <2>2
<1>7. latest[t] = Head
  BY <1>4, <1>5, <1>6 DEF IndInv, DbInv, SnapshotsOrdered
<1>8. KnownChanges(changes[t], latest[t])
  <2>1. base[t].next_catalog_id <= latest[t].next_catalog_id
    BY <1>5 DEF IndInv, DbInv, SnapshotsOrdered
  <2>. QED
    BY <1>3, <1>5, <2>1, KnownMonotone
<1>9. snapshots' = snapshots \union {NewSnapshot(changes[t], latest[t])}
  BY DEF PersistOk
<1>10. HeadId' = HeadId + 1
  <2> DEFINE new == NewSnapshot(changes[t], latest[t])
  <2>1. new.id = HeadId + 1
    BY <1>5, <1>6, <1>8, NewSnapshotFacts
  <2>. HIDE DEF new
  <2>2. \A r \in snapshots' : r.id <= new.id
    <3>1. \A r \in snapshots : r.id \in Nat
      BY DEF IndInv, TypeOK, Info
    <3>. QED
      BY <1>4, <1>9, <2>1, <3>1 DEF new
  <2>3. new \in snapshots'
    BY <1>9 DEF new
  <2>4. Newest(snapshots') \in snapshots' /\ \A r \in snapshots' : r.id <= Newest(snapshots').id
    BY <2>2, <2>3, NewestIsMaximum
  <2>5. Newest(snapshots').id \in Int
    <3>1. \A r \in snapshots : r.id \in Int
      BY DEF IndInv, TypeOK, Info
    <3>. QED
      BY <1>4, <1>9, <2>1, <2>4, <3>1 DEF new
  <2>6. Newest(snapshots').id = new.id
    BY <1>4, <2>1, <2>2, <2>3, <2>4, <2>5
  <2>. QED
    BY <2>1, <2>6 DEF HeadId, Head
<1>. QED
  BY <1>5, <1>6, <1>7, <1>8, <1>9, <1>10

(* A successful commit.                                                    *)
LEMMA PersistOkStep ==
    ASSUME IndInv, NEW t \in Tx, PersistOk(t)
    PROVE  IndInv'
<1> DEFINE info == latest[t]
           cs == changes[t]
           new == NewSnapshot(cs, info)
           entry == [id |-> info.id + 1, tx |-> t, base |-> base[t].id,
                     changes |-> applied_change_set(cs, info)]
           row == [id |-> info.id + 1, changes |-> applied_change_set(cs, info)]
<1>1. /\ info = Head /\ info \in Info /\ info \in snapshots /\ HeadId = info.id
      /\ KnownChanges(cs, info) /\ snapshots' = snapshots \union {new}
      /\ HeadId' = HeadId + 1
  BY CommitsOnHead
<1>2. /\ log' = log \union {entry} /\ snapshot_changes' = snapshot_changes \union {row}
      /\ lake' = persist(lake, cs, info, catalog[t], stats[t])
      /\ pc' = [pc EXCEPT ![t] = "committed"] /\ pc[t] = "persist"
      /\ UNCHANGED <<base, latest, failed, catalog, changes, retry>>
  BY DEF PersistOk, EndAttempt, Goto
<1>3. /\ new \in Info /\ new.id = info.id + 1
      /\ new.next_catalog_id = info.next_catalog_id + Cardinality(Numbered(cs))
      /\ Cardinality(Numbered(cs)) \in Nat
  BY <1>1, NewSnapshotFacts
<1>4. /\ info.id \in Nat /\ info.next_catalog_id \in Nat /\ new.next_catalog_id \in Nat
      /\ new.id = HeadId + 1 /\ new.next_catalog_id >= info.next_catalog_id
  BY <1>1, <1>3 DEF Info
<1>5. \A r \in snapshots : /\ r \in Info /\ r.id \in Nat /\ r.next_catalog_id \in Nat
                           /\ r.id <= HeadId /\ r.next_catalog_id <= info.next_catalog_id
  <2>1. \A r \in snapshots : r.id <= HeadId
    BY HeadFacts DEF IndInv, DbInv
  <2>. QED
    BY <1>1, <2>1 DEF IndInv, DbInv, SnapshotsOrdered, Info
<1>. HIDE DEF new, entry, row
<1>6. TypeOK' /\ DOMAIN catalog' = Tx /\ DOMAIN changes' = Tx
  BY <1>1, <1>2, <1>3 DEF IndInv, TypeOK, Finished
<1>7. SnapshotsOrdered'
  <2>1. snapshots' \subseteq Info
    BY <1>1, <1>3, <1>5
  <2>2. new \in snapshots' /\ \A r \in snapshots' : r.id <= new.id
    BY <1>1, <1>4, <1>5
  <2>3. ASSUME NEW q \in snapshots', NEW r \in snapshots'
        PROVE  /\ q.id = r.id => q = r
               /\ q.id <= r.id => q.next_catalog_id <= r.next_catalog_id
    <3>1. CASE q \in snapshots /\ r \in snapshots
      BY <3>1 DEF IndInv, DbInv, SnapshotsOrdered
    <3>2. CASE q \in snapshots /\ r = new
      BY <1>1, <1>4, <1>5, <3>2
    <3>3. CASE q = new /\ r \in snapshots
      BY <1>1, <1>4, <1>5, <3>3
    <3>4. CASE q = new /\ r = new
      BY <1>3, <3>4 DEF Info
    <3>. QED
      BY <1>1, <3>1, <3>2, <3>3, <3>4
  <2>. QED
    BY <2>1, <2>2, <2>3 DEF SnapshotsOrdered
<1>8. LogRecorded'
  <2>1. ASSUME NEW e \in log
        PROVE  /\ e.id \in Nat /\ e.id <= HeadId'
               /\ e.id \in Ids(snapshots') =>
                    \E r \in snapshot_changes' : r.id = e.id /\ r.changes = e.changes
               /\ \A d \in e.changes :
                    /\ d.id \in Int
                    /\ \A s \in snapshots' : e.id <= s.id => d.id < s.next_catalog_id
    <3>1. e.id \in Nat /\ e.id <= HeadId
      BY DEF IndInv, DbInv, LogRecorded
    <3>2. e.id \in Ids(snapshots') => e.id \in Ids(snapshots)
      BY <1>1, <1>4, <3>1 DEF Ids
    <3>3. \A d \in e.changes : d.id \in Int /\ d.id < info.next_catalog_id
      BY <1>1, <3>1 DEF IndInv, DbInv, LogRecorded
    <3>4. \A d \in e.changes : d.id < new.next_catalog_id
      BY <1>3, <1>4, <3>3
    <3>. QED
      BY <1>1, <1>2, <1>4, <3>1, <3>2, <3>3, <3>4 DEF IndInv, DbInv, LogRecorded
  <2>2. /\ entry.id = HeadId + 1 /\ row.id = entry.id /\ row.changes = entry.changes
        /\ entry.changes = applied_change_set(cs, info)
    BY <1>1 DEF entry, row
  <2>3. \A d \in entry.changes : d.id \in Int /\ d.id < new.next_catalog_id
    BY <1>1, <2>2, AppliedIdsBelowNext DEF KnownId, new
  <2>4. \A s \in snapshots' : entry.id <= s.id => s = new
    BY <1>1, <1>4, <1>5, <2>2
  <2>5. /\ entry.id \in Nat /\ entry.id <= HeadId'
        /\ entry.id \in Ids(snapshots') =>
             \E r \in snapshot_changes' : r.id = entry.id /\ r.changes = entry.changes
        /\ \A d \in entry.changes :
             /\ d.id \in Int
             /\ \A s \in snapshots' : entry.id <= s.id => d.id < s.next_catalog_id
    BY <1>1, <1>2, <1>4, <2>2, <2>3, <2>4
  <2>. QED
    BY <1>2, <2>1, <2>5 DEF LogRecorded
<1>9. RowsDated'
  <2>1. ASSUME NEW b, NEW i, NEW old, Continues(b, i, old, cs, info),
               \A k \in old : \E x, y : k = <<x, y>> /\ Dated(x, y)
        PROVE  Dated(b, i)'
    <3>1. b \in Nat /\ i \in Int /\ i < new.next_catalog_id
      BY <2>1 DEF Continues, KnownId, new
    <3>2. CASE b = info.id + 1
      <4>1. \A s \in snapshots' : b <= s.id => s = new
        BY <1>1, <1>4, <1>5, <3>2
      <4>. QED
        BY <1>1, <1>4, <3>1, <3>2, <4>1 DEF Dated
    <3>3. CASE <<b, i>> \in old
      <4>1. Dated(b, i)
        BY <2>1, <3>3
      <4>2. b <= HeadId' /\ \A s \in snapshots' : b <= s.id => i < s.next_catalog_id
        BY <1>1, <1>4, <3>1, <4>1 DEF Dated
      <4>. QED
        BY <3>1, <4>2 DEF Dated
    <3>. QED
      BY <2>1, <3>2, <3>3 DEF Continues
  <2>2. ASSUME NEW b, NEW i, Dated(b, i)
        PROVE  b \in Nat /\ KnownId(i, info)
    BY <1>1, <2>2 DEF Dated, KnownId
  <2>3. ASSUME NEW q \in lake'.objects
        PROVE  {"id", "begin", "end"} \subseteq DOMAIN q /\ Dated(q.begin, q.id)'
    <3>1. \A r \in lake.objects : {"id", "begin", "end"} \subseteq DOMAIN r /\ Dated(r.begin, r.id)
      BY DEF IndInv, DbInv, RowsDated
    <3>2. q \in persist_objects(lake.objects, cs, info, catalog[t])
      BY <1>2 DEF persist
    <3>3. {"id", "begin", "end"} \subseteq DOMAIN q
          /\ Continues(q.begin, q.id, ObjectKeys(lake.objects), cs, info)
      BY <1>1, <2>2, <3>1, <3>2, ObjectsContinue
    <3>4. \A k \in ObjectKeys(lake.objects) : \E x, y : k = <<x, y>> /\ Dated(x, y)
      BY <3>1 DEF ObjectKeys
    <3>. QED
      BY <2>1, <3>3, <3>4
  <2>4. ASSUME NEW q \in lake'.columns
        PROVE  {"table", "begin", "end"} \subseteq DOMAIN q /\ Dated(q.begin, q.table)'
    <3>1. \A r \in lake.columns : {"table", "begin", "end"} \subseteq DOMAIN r /\ Dated(r.begin, r.table)
      BY DEF IndInv, DbInv, RowsDated
    <3>2. q \in persist_columns(lake.columns, cs, info)
      BY <1>2 DEF persist
    <3>3. {"table", "begin", "end"} \subseteq DOMAIN q
          /\ Continues(q.begin, q.table, TableKeys(lake.columns), cs, info)
      BY <1>1, <2>2, <3>1, <3>2, ColumnsContinue
    <3>4. \A k \in TableKeys(lake.columns) : \E x, y : k = <<x, y>> /\ Dated(x, y)
      BY <3>1 DEF TableKeys
    <3>. QED
      BY <2>1, <3>3, <3>4
  <2>5. ASSUME NEW q \in lake'.attributes
        PROVE  {"table", "begin", "end"} \subseteq DOMAIN q /\ Dated(q.begin, q.table)'
    <3>1. \A r \in lake.attributes : {"table", "begin", "end"} \subseteq DOMAIN r /\ Dated(r.begin, r.table)
      BY DEF IndInv, DbInv, RowsDated
    <3>2. q \in persist_attributes(lake.attributes, cs, info)
      BY <1>2 DEF persist
    <3>3. {"table", "begin", "end"} \subseteq DOMAIN q
          /\ Continues(q.begin, q.table, TableKeys(lake.attributes), cs, info)
      BY <1>1, <2>2, <3>1, <3>2, AttributesContinue
    <3>4. \A k \in TableKeys(lake.attributes) : \E x, y : k = <<x, y>> /\ Dated(x, y)
      BY <3>1 DEF TableKeys
    <3>. QED
      BY <2>1, <3>3, <3>4
  <2>. QED
    BY <2>3, <2>4, <2>5 DEF RowsDated
<1>10. ASSUME NEW u \in Tx
       PROVE  TxInv(u)'
  <2>1. CASE u = t
    <3>1. pc'[t] = "committed"
      BY <1>2 DEF IndInv, TypeOK
    <3>. QED
      BY <2>1, <3>1 DEF TxInv, BaseRetained, Checked, Active, Committing
  <2>2. CASE u # t
    <3>1. pc'[u] = pc[u] /\ TxInv(u)
      BY <1>2, <2>2 DEF IndInv, TypeOK
    <3>2. BaseRetained(u)'
      <4>1. SUFFICES ASSUME pc[u] \in Active
                     PROVE  \A i \in base[u].id .. HeadId' : i \in Ids(snapshots')
        BY <1>1, <1>2, <3>1 DEF TxInv, BaseRetained
      <4>2. ASSUME NEW i \in base[u].id .. HeadId'
            PROVE  i \in Ids(snapshots')
        <5>1. base[u].id \in Nat /\ HeadId \in Nat
          BY <1>1, <1>4 DEF IndInv, TypeOK, Info
        <5>2. CASE i = HeadId + 1
          BY <1>1, <1>4, <5>2 DEF Ids
        <5>3. CASE i # HeadId + 1
          <6>1. i \in base[u].id .. HeadId
            BY <1>1, <4>2, <5>1, <5>3
          <6>2. i \in Ids(snapshots)
            BY <3>1, <4>1, <6>1 DEF TxInv, BaseRetained
          <6>. QED
            BY <1>1, <6>2 DEF Ids
        <5>. QED
          BY <5>2, <5>3
      <4>. QED
        BY <4>2
    <3>3. Checked(u)'
      <4>1. SUFFICES ASSUME pc[u] \in {"load", "attempt", "persist"},
                            NEW e \in log', base[u].id < e.id, e.id <= latest[u].id
                     PROVE  Compatible(changes[u], latest[u], e)
        BY <1>2, <3>1 DEF Checked
      <4>2. latest[u] \in snapshots
        BY <3>1, <4>1 DEF TxInv, BaseRetained, Active, Committing
      <4>3. e # entry
        <5>1. entry.id = HeadId + 1
          BY <1>1 DEF entry
        <5>. QED
          BY <1>1, <1>4, <1>5, <4>1, <4>2, <5>1
      <4>4. e \in log
        BY <1>2, <4>3
      <4>. QED
        BY <3>1, <4>1, <4>4 DEF TxInv, Checked
    <3>4. (pc[u] = "open" => KnownCatalog(catalog[u], base[u]))'
      BY <1>2, <3>1 DEF TxInv
    <3>5. (pc[u] \in Committing => KnownChanges(changes[u], base[u]))'
      BY <1>2, <3>1 DEF TxInv
    <3>. QED
      BY <3>2, <3>3, <3>4, <3>5 DEF TxInv
  <2>. QED
    BY <2>1, <2>2
<1>. QED
  BY <1>6, <1>7, <1>8, <1>9, <1>10 DEF IndInv, DbInv

(* Expiry keeps the head and, by SafeRetention, every snapshot from the    *)
(* base of an open transaction on.                                         *)
LEMMA ExpireStep ==
    ASSUME IndInv, SafeRetention, ExpireSnapshots
    PROVE  IndInv' /\ HeadId' = HeadId
<1>1. PICK ids \in SUBSET (Ids(snapshots) \ {Head.id}) :
         /\ Spares(ids)
         /\ snapshots' = {s \in snapshots : s.id \notin ids}
         /\ snapshot_changes' = {r \in snapshot_changes : r.id \notin ids}
         /\ lake' = ExpireRows(lake, Ids(snapshots) \ ids)
  BY DEF ExpireSnapshots
<1>2. UNCHANGED <<log, pc, base, latest, failed, catalog, changes, retry>>
  BY DEF ExpireSnapshots, txVars
<1>3. /\ Head \in snapshots /\ HeadId = Head.id /\ HeadId \in Nat
      /\ \A r \in snapshots : r.id <= HeadId
  BY HeadFacts DEF IndInv, DbInv
<1>4. Head \in snapshots' /\ snapshots' \subseteq snapshots
  BY <1>1, <1>3
<1>5. HeadId' = HeadId
  <2>1. \A r \in snapshots' : r.id <= Head.id
    BY <1>3, <1>4
  <2>2. Newest(snapshots') \in snapshots' /\ \A r \in snapshots' : r.id <= Newest(snapshots').id
    BY <1>4, <2>1, NewestIsMaximum
  <2>3. Newest(snapshots').id \in Nat
    BY <1>4, <2>2 DEF IndInv, TypeOK, Info
  <2>4. Newest(snapshots').id = Head.id
    BY <1>3, <1>4, <2>1, <2>2, <2>3
  <2>. QED
    BY <2>4 DEF HeadId, Head
<1>6. TypeOK' /\ DOMAIN catalog' = Tx /\ DOMAIN changes' = Tx
  BY <1>2, <1>4 DEF IndInv, TypeOK
<1>7. SnapshotsOrdered'
  <2>1. \A r \in snapshots' : r.id <= Head.id
    BY <1>3, <1>4
  <2>. QED
    BY <1>4, <2>1 DEF IndInv, DbInv, SnapshotsOrdered
<1>8. LogRecorded'
  <2>1. ASSUME NEW e \in log, e.id \in Ids(snapshots')
        PROVE  \E r \in snapshot_changes' : r.id = e.id /\ r.changes = e.changes
    <3>1. e.id \in Ids(snapshots) /\ e.id \notin ids
      BY <1>1, <2>1 DEF Ids
    <3>. QED
      BY <1>1, <3>1 DEF IndInv, DbInv, LogRecorded
  <2>. QED
    BY <1>2, <1>4, <1>5, <2>1 DEF IndInv, DbInv, LogRecorded
<1>9. RowsDated'
  <2>1. /\ lake'.objects \subseteq lake.objects
        /\ lake'.columns \subseteq lake.columns
        /\ lake'.attributes \subseteq lake.attributes
    BY <1>1 DEF ExpireRows, RetainedObjects
  <2>2. \A b, i : Dated(b, i) => Dated(b, i)'
    BY <1>4, <1>5 DEF Dated
  <2>. QED
    BY <2>1, <2>2 DEF IndInv, DbInv, RowsDated
<1>10. ASSUME NEW u \in Tx
       PROVE  TxInv(u)'
  <2>1. TxInv(u)
    BY DEF IndInv
  <2>2. BaseRetained(u)'
    <3>1. SUFFICES ASSUME pc[u] \in Active
                   PROVE  /\ base[u] \in snapshots' /\ latest[u] \in snapshots'
                          /\ \A i \in base[u].id .. HeadId : i \in Ids(snapshots')
      BY <1>2, <1>5, <2>1 DEF TxInv, BaseRetained
    <3>2. /\ base[u] \in snapshots /\ latest[u] \in snapshots /\ base[u].id <= latest[u].id
          /\ \A i \in base[u].id .. HeadId : i \in Ids(snapshots)
          /\ base[u].id \in Nat /\ latest[u].id \in Nat
      BY <2>1, <3>1 DEF TxInv, BaseRetained, IndInv, TypeOK, Info
    <3>3. \A i \in ids : i < base[u].id
      BY <1>1, <3>1 DEF Spares
    <3>4. \A i \in Int : base[u].id <= i => i \notin ids
      BY <3>2, <3>3
    <3>5. base[u] \in snapshots' /\ latest[u] \in snapshots'
      BY <1>1, <3>2, <3>4
    <3>6. ASSUME NEW i \in base[u].id .. HeadId
          PROVE  i \in Ids(snapshots')
      <4>1. i \in Ids(snapshots) /\ i \notin ids
        BY <1>3, <3>2, <3>4
      <4>. QED
        BY <1>1, <4>1 DEF Ids
    <3>. QED
      BY <3>5, <3>6
  <2>3. Checked(u)'
    BY <1>2, <2>1 DEF TxInv, Checked
  <2>4. (pc[u] = "open" => KnownCatalog(catalog[u], base[u]))'
    BY <1>2, <2>1 DEF TxInv
  <2>5. (pc[u] \in Committing => KnownChanges(changes[u], base[u]))'
    BY <1>2, <2>1 DEF TxInv
  <2>. QED
    BY <2>2, <2>3, <2>4, <2>5 DEF TxInv
<1>. QED
  BY <1>5, <1>6, <1>7, <1>8, <1>9, <1>10 DEF IndInv, DbInv

(* Every step of the protocol preserves the invariant.                     *)
LEMMA NextPreserves ==
    ASSUME IndInv, SafeRetention, [Next]_vars
    PROVE  IndInv'
<1>1. CASE ExpireSnapshots
  BY <1>1, ExpireStep
<1>2. ASSUME NEW t \in Tx, Step(t)
      PROVE  IndInv'
  <2>1. CASE Begin(t)
    BY <2>1, BeginStep
  <2>2. CASE LoadCatalog(t)
    BY <2>2, LoadCatalogStep
  <2>3. CASE Commit(t)
    BY <2>3, CommitStep
  <2>4. CASE LoadStats(t)
    BY <2>4, AdvanceStep DEF LoadStats
  <2>5. CASE BeginPersist(t)
    BY <2>5, AdvanceStep DEF BeginPersist, dbVars
  <2>6. CASE PersistOk(t)
    BY <2>6, PersistOkStep
  <2>7. CASE PersistRetry(t)
    BY <2>7, AdvanceStep DEF PersistRetry, EndAttempt, dbVars
  <2>8. CASE PersistError(t)
    BY <2>8, AdvanceStep DEF PersistError, EndAttempt, dbVars
  <2>9. CASE Refresh(t)
    BY <2>9, RefreshStep
  <2>10. CASE CheckConflict(t)
    BY <2>10, CheckConflictStep
  <2>. QED
    BY <1>2, <2>1, <2>2, <2>3, <2>4, <2>5, <2>6, <2>7, <2>8, <2>9, <2>10 DEF Step
<1>3. CASE UNCHANGED vars
  <2>1. /\ UNCHANGED <<snapshots, snapshot_changes, lake, log>>
        /\ UNCHANGED <<pc, base, latest, failed, catalog, changes, retry>>
    BY <1>3 DEF vars, dbVars, txVars
  <2>2. HeadId' = HeadId
    BY <2>1 DEF HeadId, Head
  <2>3. TypeOK' /\ DOMAIN catalog' = Tx /\ DOMAIN changes' = Tx
    BY <2>1 DEF IndInv, TypeOK
  <2>4. DbInv'
    BY <2>1, <2>2 DEF IndInv, DbInv, SnapshotsOrdered, LogRecorded, RowsDated, Dated
  <2>5. \A u \in Tx : TxInv(u)'
    BY <2>1, <2>2 DEF IndInv, TxInv, BaseRetained, Checked
  <2>. QED
    BY <2>3, <2>4, <2>5 DEF IndInv
<1>. QED
  BY <1>1, <1>2, <1>3 DEF Next

-----------------------------------------------------------------------------
(* Every state of the protocol satisfies the inductive invariant.          *)
THEOREM Invariance ==
    ASSUME SafeRetention
    PROVE  Spec => []IndInv
<1>1. Init => IndInv
  BY InitEstablishes
<1>2. IndInv /\ [Next]_vars => IndInv'
  BY NextPreserves
<1>. QED
  BY <1>1, <1>2, PTL DEF Spec

(* Snapshots are rows of counters and commit makes at most MaxRetry + 1    *)
(* attempts (the loop of Transaction::commit).                             *)
THEOREM TypeCorrect ==
    ASSUME SafeRetention
    PROVE  Spec => []TypeOK
<1>1. IndInv => TypeOK
  BY DEF IndInv
<1>. QED
  BY <1>1, Invariance, PTL

(* The query of get_snapshot_changes returns every commit since the base   *)
(* of the transaction that checks.                                         *)
THEOREM CheckIsNeverBlind ==
    ASSUME SafeRetention
    PROVE  Spec => []CheckSeesAllChanges
<1>1. IndInv => CheckSeesAllChanges
  <2> SUFFICES ASSUME IndInv, NEW t \in Tx, pc[t] = "check",
                      NEW e \in log, base[t].id < e.id, e.id <= latest[t].id
               PROVE  \E r \in ChangesMade(t) : r.id = e.id
    BY DEF CheckSeesAllChanges
  <2>1. pc[t] \in Active
    BY DEF Active, Committing
  <2>. QED
    BY <2>1, CheckIsComplete
<1>. QED
  BY <1>1, Invariance, PTL

(* The commit protocol implements a linear history: every commit extends   *)
(* the head and is compatible with all the commits since its base.         *)
THEOREM CommitsImplementLinearHistory ==
    ASSUME SafeRetention
    PROVE  Spec => CommitsAreLinear
<1>1. Init => History!Init
  <2> SUFFICES ASSUME Init PROVE log = {} /\ HeadId \in Nat
    BY DEF History!Init
  <2>. QED
    BY InitEstablishes, HeadFacts DEF Init, IndInv, DbInv
<1>2. IndInv /\ [Next]_vars => [History!Append]_<<log, HeadId>>
  <2> SUFFICES ASSUME IndInv, [Next]_vars
               PROVE  [History!Append]_<<log, HeadId>>
    OBVIOUS
  <2>1. CASE ExpireSnapshots
    <3>1. HeadId' = HeadId
      BY <2>1, ExpireStep
    <3>. QED
      BY <2>1, <3>1 DEF ExpireSnapshots
  <2>2. ASSUME NEW t \in Tx, PersistOk(t)
        PROVE  History!Append
    <3> DEFINE entry == [id |-> latest[t].id + 1, tx |-> t, base |-> base[t].id,
                         changes |-> applied_change_set(changes[t], latest[t])]
    <3>1. HeadId = latest[t].id /\ HeadId' = HeadId + 1 /\ latest[t] \in Info
      BY <2>2, CommitsOnHead
    <3>2. log' = log \union {entry} /\ pc[t] = "persist"
      BY <2>2 DEF PersistOk
    <3>3. base[t].id <= HeadId /\ Checked(t)
      BY <3>1, <3>2 DEF IndInv, TxInv, BaseRetained, Active, Committing
    <3>4. \A f \in log : entry.base < f.id => History!Compatible(entry, f)
      <4>0. \A a, d : /\ History!NameClash(a, d) <=> NameClash(a, d)
                      /\ History!IdClash(a, d) <=> IdClash(a, d)
        BY DEF NameClash, IdClash, Relation, Macro, InsertVerb, DeleteVerb,
               History!NameClash, History!IdClash, History!Relation, History!Macro,
               History!InsertVerb, History!DeleteVerb
      <4>1. SUFFICES ASSUME NEW f \in log, base[t].id < f.id
                     PROVE  Compatible(changes[t], latest[t], f)
        BY <4>0 DEF History!Compatible, Compatible
      <4>2. f.id <= latest[t].id
        BY <3>1 DEF IndInv, DbInv, LogRecorded
      <4>. QED
        BY <3>2, <3>3, <4>1, <4>2 DEF Checked
    <3>5. entry \in log' /\ entry.id = HeadId + 1 /\ entry.base <= HeadId /\ HeadId' = entry.id
      BY <3>1, <3>2, <3>3
    <3>. HIDE DEF entry
    <3>. QED
      BY <3>2, <3>4, <3>5 DEF History!Append
  <2>3. ASSUME NEW t \in Tx, Step(t), ~ PersistOk(t)
        PROVE  UNCHANGED <<log, HeadId>>
    <3>1. UNCHANGED <<log, snapshots>>
      BY <2>3 DEF Step, Begin, LoadCatalog, Commit, LoadStats, BeginPersist,
                  PersistRetry, PersistError, Refresh, CheckConflict, dbVars
    <3>. QED
      BY <3>1 DEF HeadId, Head
  <2>4. CASE UNCHANGED vars
    BY <2>4 DEF vars, dbVars, HeadId, Head
  <2>. QED
    BY <2>1, <2>2, <2>3, <2>4 DEF Next
<1>. QED
  BY <1>1, <1>2, Invariance, PTL DEF Spec, CommitsAreLinear, History!Spec

-----------------------------------------------------------------------------
(* Why a commit is retried, and when it gives up: a retry means that       *)
(* somebody else has committed.  The inductive invariant, on top of the    *)
(* one above.                                                              *)

\* File IDs and versions of inlined data tables are used up to the head.
UsedBelowHead ==
    /\ \A r \in lake.files :
          {"id", "end"} \subseteq DOMAIN r /\ r.id \in Int /\ r.id < Head.next_file_id
    /\ \A i \in lake.inline : i.schema_version \in Int /\ i.schema_version <= Head.schema_version

\* Every snapshot after the first was committed by somebody.
Committed(i) == \E e \in log : e.id = i
LogNumbered ==
    /\ IsFiniteSet(log) /\ InitialSnapshot.id <= HeadId
    /\ \A i \in InitialSnapshot.id + 1 .. HeadId : Committed(i)

\* One change of a set writes files: its count is the number of file IDs drawn.
OneWrite(cs) == \A c, d \in Ops(cs, "write_files") : c = d

\* Every attempt but the first builds on a later snapshot than the one before.
Attempts(t) ==
    /\ pc[t] \in {"idle", "start", "open"} => retry[t] = 0
    /\ pc[t] \in {"load", "attempt", "persist", "refresh"} => base[t].id + retry[t] <= latest[t].id
    /\ pc[t] = "check" => base[t].id + retry[t] < latest[t].id
    /\ pc[t] = "exceeded" => base[t].id + MaxRetry < latest[t].id

RetryHolds(t) ==
    /\ InitialSnapshot.id <= base[t].id /\ latest[t].id <= HeadId
    /\ pc[t] \in Committing => OneWrite(changes[t])
    /\ Attempts(t)
    /\ pc[t] = "refresh" => latest[t].id < HeadId

RetryInv == UsedBelowHead /\ LogNumbered /\ \A t \in Tx : RetryHolds(t)

-----------------------------------------------------------------------------
(* What a transaction that is retried has run into.                        *)

(* The numbers an invariant is about.                                      *)
LEMMA Numbers ==
    ASSUME IndInv
    PROVE  /\ Head \in Info /\ Head \in snapshots /\ HeadId = Head.id /\ HeadId \in Nat
           /\ InitialSnapshot.id \in Nat /\ MaxRetry \in Nat
           /\ \A t \in Tx : /\ base[t] \in Info /\ latest[t] \in Info /\ retry[t] \in Nat
                            /\ base[t].id \in Nat /\ latest[t].id \in Nat
<1>1. /\ Head \in Info /\ Head \in snapshots /\ HeadId = Head.id /\ HeadId \in Nat
  BY HeadFacts DEF IndInv, DbInv
<1>. QED
  BY <1>1, InitialSnapshotAssumption, MaxRetryAssumption DEF IndInv, TypeOK, Info

(* An attempt on the head finds no ID taken: the counters of the head are  *)
(* above everything in use.                                                *)
LEMMA HeadFindsNothingTaken ==
    ASSUME IndInv, UsedBelowHead, NEW t \in Tx, pc[t] = "persist", latest[t] = Head
    PROVE  /\ ~ SchemaKeyTaken(t) /\ ~ FileKeyTaken(t)
           /\ ~ InlineTableExists(t) /\ ~ SnapshotKeyTaken(t)
<1>1. /\ Head \in Info /\ Head \in snapshots /\ HeadId = Head.id /\ HeadId \in Nat
      /\ \A r \in snapshots : r.id <= HeadId
  BY HeadFacts DEF IndInv, DbInv
<1>2. ~ SnapshotKeyTaken(t)
  <2>1. \A r \in snapshots : r.id \in Nat
    BY DEF IndInv, TypeOK, Info
  <2>. QED
    BY <1>1, <2>1 DEF SnapshotKeyTaken, Ids
<1>3. ~ SchemaKeyTaken(t)
  <2> SUFFICES ASSUME "schema" \in CreatedKinds(changes[t]), NEW r \in lake.objects
               PROVE  r.id # catalog_id(changes[t], latest[t], "schema")
    BY DEF SchemaKeyTaken
  <2>1. r.id \in Int /\ r.id < Head.next_catalog_id
    BY <1>1 DEF IndInv, DbInv, RowsDated, Dated
  <2>2. KnownChanges(changes[t], base[t])
    BY DEF IndInv, TxInv, Committing
  <2>3. catalog_id(changes[t], Head, "schema") \in Int
        /\ catalog_id(changes[t], Head, "schema") >= Head.next_catalog_id
    BY <1>1, <2>2, CatalogIdBelowNext DEF KnownChanges, KnownChange
  <2>4. Head.next_catalog_id \in Int
    BY <1>1 DEF Info
  <2>. QED
    BY <2>1, <2>3, <2>4
<1>4. ~ FileKeyTaken(t)
  <2>1. Head.next_file_id \in Int
    BY <1>1 DEF Info
  <2>. QED
    BY <2>1 DEF FileKeyTaken, UsedBelowHead
<1>5. ~ InlineTableExists(t)
  <2> SUFFICES ASSUME NEW i \in lake.inline, NEW n \in new_inline(changes[t], Head, catalog[t])
               PROVE  i.schema_version # n.schema_version
    BY DEF InlineTableExists
  <2>1. Head.schema_version \in Int
    BY <1>1 DEF Info
  <2>2. \A c \in changes[t] :
           c.op \in {"rename", "add_column", "remove_column", "set", "unset", "create"} =>
              changes_schema(changes[t])
    BY DEF changes_schema, WriteOps
  <2>3. changes_schema(changes[t])
    BY <2>2 DEF new_inline, table_refs_with_schema_changes, Ops
  <2>4. n.schema_version = NewSnapshot(changes[t], Head).schema_version
    BY DEF new_inline
  <2>5. NewSnapshot(changes[t], Head).schema_version = Head.schema_version + 1
    BY <2>3 DEF NewSnapshot
  <2>. QED
    BY <2>1, <2>4, <2>5 DEF UsedBelowHead
<1>. QED
  BY <1>2, <1>3, <1>4, <1>5

(* Whatever is retried has been overtaken.                                 *)
LEMMA RetryIsOvertaken ==
    ASSUME IndInv, UsedBelowHead, NEW t \in Tx, PersistRetry(t)
    PROVE  latest[t].id < HeadId
<1>1. pc[t] = "persist" /\ Outcome(t) \in {"unique", "exists"}
  BY DEF PersistRetry, Retryable
<1>2. SchemaKeyTaken(t) \/ FileKeyTaken(t) \/ InlineTableExists(t) \/ SnapshotKeyTaken(t)
  BY <1>1 DEF Outcome
<1>3. latest[t] # Head
  BY <1>1, <1>2, HeadFindsNothingTaken
<1>4. latest[t] \in snapshots
  BY <1>1 DEF IndInv, TxInv, BaseRetained, Active, Committing
<1>5. Head \in snapshots /\ HeadId = Head.id /\ HeadId \in Nat /\ latest[t].id <= HeadId
  BY <1>4, HeadFacts DEF IndInv, DbInv
<1>6. latest[t].id # HeadId
  BY <1>3, <1>4, <1>5 DEF IndInv, DbInv, SnapshotsOrdered
<1>. QED
  BY <1>5, <1>6, Numbers

-----------------------------------------------------------------------------
(* The invariant is inductive.                                             *)

(* No ID is in use above the counters of the first snapshot.               *)
LEMMA RetryInit == Init => RetryInv
<1> SUFFICES ASSUME Init PROVE RetryInv
  OBVIOUS
<1>1. IndInv
  BY InitEstablishes
<1>2. snapshots = {InitialSnapshot} /\ lake = InitialLake /\ log = {}
  BY DEF Init
<1>3. Head = InitialSnapshot /\ HeadId = InitialSnapshot.id /\ InitialSnapshot.id \in Nat
  BY <1>1, <1>2, Numbers
<1>4. InitialSnapshot.next_file_id \in Nat /\ InitialSnapshot.schema_version \in Nat
  BY InitialSnapshotAssumption DEF Info
<1>5. UsedBelowHead
  BY <1>2, <1>3, <1>4, InitialLakeAssumption DEF UsedBelowHead
<1>6. LogNumbered
  BY <1>2, <1>3, FS_EmptySet DEF LogNumbered
<1>7. \A t \in Tx : RetryHolds(t)
  BY <1>3 DEF Init, RetryHolds, Attempts, Committing
<1>. QED
  BY <1>5, <1>6, <1>7 DEF RetryInv

RetrySame(u) ==
    /\ pc'[u] = pc[u] /\ base'[u] = base[u] /\ latest'[u] = latest[u]
    /\ changes'[u] = changes[u] /\ retry'[u] = retry[u]

(* A transaction that does nothing while the head stays or advances.       *)
LEMMA RetryUndisturbed ==
    ASSUME IndInv, RetryInv, NEW u \in Tx, RetrySame(u), HeadId' \in Nat, HeadId <= HeadId'
    PROVE  RetryHolds(u)'
<1>1. RetryHolds(u)
  BY DEF RetryInv
<1>2. latest[u].id <= HeadId' /\ (latest[u].id < HeadId => latest[u].id < HeadId')
  BY <1>1, Numbers DEF RetryHolds
<1>. QED
  BY <1>1, <1>2 DEF RetryHolds, Attempts, RetrySame

(* A step of one transaction that leaves the database alone.               *)
LEMMA RetryLocalStep ==
    ASSUME IndInv, RetryInv, NEW t \in Tx, UNCHANGED <<snapshots, lake, log>>,
           \A u \in Tx : u # t => RetrySame(u),
           HeadId' = HeadId => RetryHolds(t)'
    PROVE  RetryInv'
<1>1. HeadId' = HeadId /\ Head' = Head
  BY DEF HeadId, Head
<1>2. UsedBelowHead' /\ LogNumbered'
  BY <1>1 DEF RetryInv, UsedBelowHead, LogNumbered, Committed
<1>3. HeadId \in Nat /\ HeadId <= HeadId
  BY Numbers
<1>4. \A u \in Tx : u # t => RetryHolds(u)'
  BY <1>1, <1>3, RetryUndisturbed
<1>. QED
  BY <1>1, <1>2, <1>4 DEF RetryInv

(* The snapshot a commit inserts is the new head.                          *)
LEMMA HeadAfterCommit ==
    ASSUME IndInv, IndInv', NEW t \in Tx, PersistOk(t)
    PROVE  Head' = NewSnapshot(changes[t], latest[t])
<1>1. PICK new : new = NewSnapshot(changes[t], latest[t])
  OBVIOUS
<1>2. /\ latest[t] = Head /\ Head \in Info /\ HeadId = Head.id /\ HeadId \in Nat
      /\ KnownChanges(changes[t], latest[t])
      /\ snapshots' = snapshots \union {new} /\ HeadId' = HeadId + 1
  BY <1>1, CommitsOnHead, Numbers
<1>3. new \in Info /\ new.id = HeadId + 1
  BY <1>1, <1>2, NewSnapshotFacts
<1>4. SnapshotsOrdered'
  BY DEF IndInv, DbInv
<1>5. Head' \in snapshots' /\ HeadId' = Head'.id
  <2>1. Newest(snapshots') \in snapshots'
    BY <1>4, NewestIsMaximum DEF SnapshotsOrdered
  <2>. QED
    BY <2>1 DEF Head, HeadId
<1>6. Head' = new
  BY <1>2, <1>3, <1>4, <1>5 DEF SnapshotsOrdered
<1>. QED
  BY <1>1, <1>6

(* A commit that succeeds uses the counters of the head, and moves them.   *)
LEMMA RetryPersistOk ==
    ASSUME IndInv, IndInv', RetryInv, NEW t \in Tx, PersistOk(t)
    PROVE  RetryInv'
<1>1. PICK new : new = NewSnapshot(changes[t], latest[t])
  OBVIOUS
<1>2. /\ latest[t] = Head /\ Head \in Info /\ HeadId = Head.id /\ HeadId \in Nat
      /\ KnownChanges(changes[t], latest[t])
      /\ snapshots' = snapshots \union {new} /\ HeadId' = HeadId + 1
  BY <1>1, CommitsOnHead, Numbers
<1>3. pc[t] = "persist" /\ OneWrite(changes[t])
  BY DEF PersistOk, RetryInv, RetryHolds, Committing
<1>4. new \in Info /\ new.id = HeadId + 1
  BY <1>1, <1>2, NewSnapshotFacts
<1>5. Head' = new
  BY <1>1, HeadAfterCommit
<1>6. lake' = persist(lake, changes[t], Head, catalog[t], stats[t])
  BY <1>2 DEF PersistOk
<1>7. UsedBelowHead'
  <2>1. new.next_file_id = Head.next_file_id + file_ids(changes[t])
    BY <1>1, <1>2 DEF NewSnapshot
  <2>2. new.schema_version >= Head.schema_version /\ new.schema_version \in Int
    BY <1>1, <1>2 DEF NewSnapshot, Info
  <2>3. ASSUME NEW c \in Ops(changes[t], "write_files")
        PROVE  c.n \in Nat /\ FileCount(changes[t]) = c.n
    <3>1. c.n \in Nat
      BY <1>2 DEF Ops, KnownChanges, KnownChange
    <3>2. (CHOOSE d \in Ops(changes[t], "write_files") : TRUE) = c
      BY <1>3 DEF OneWrite
    <3>. QED
      BY <3>1, <3>2 DEF FileCount
  <2>4. FileCount(changes[t]) \in Nat
    BY <2>3 DEF FileCount
  <2>5. file_ids(changes[t]) \in Nat /\ FileCount(changes[t]) <= file_ids(changes[t])
    BY <2>4 DEF file_ids
  <2>6. Head.next_file_id \in Nat /\ Head.schema_version \in Nat
    BY <1>2 DEF Info
  <2>7. ASSUME NEW r \in lake'.files
        PROVE  {"id", "end"} \subseteq DOMAIN r /\ r.id \in Int /\ r.id < new.next_file_id
    <3>1. lake'.files = persist_files(lake.files, changes[t], Head, stats[t])
      BY <1>6 DEF persist
    <3>2. CASE \E c \in Ops(changes[t], "write_files") : \E i \in 0 .. c.n - 1 :
                  {"id", "end"} \subseteq DOMAIN r /\ r.id = Head.next_file_id + i
      <4>1. PICK c \in Ops(changes[t], "write_files") : \E i \in 0 .. c.n - 1 :
               {"id", "end"} \subseteq DOMAIN r /\ r.id = Head.next_file_id + i
        BY <3>2
      <4>2. c.n \in Nat /\ FileCount(changes[t]) = c.n
        BY <2>3
      <4>. QED
        BY <2>1, <2>5, <2>6, <4>1, <4>2
    <3>3. CASE \E q \in lake.files : DOMAIN r = DOMAIN q /\ r.id = q.id
      <4>1. {"id", "end"} \subseteq DOMAIN r /\ r.id \in Int /\ r.id < Head.next_file_id
        BY <3>3 DEF RetryInv, UsedBelowHead
      <4>. QED
        BY <2>1, <2>5, <2>6, <4>1
    <3>4. \A q \in lake.files : /\ DOMAIN [q EXCEPT !.end = Head.id + 1] = DOMAIN q
                              /\ [q EXCEPT !.end = Head.id + 1].id = q.id
      BY DEF RetryInv, UsedBelowHead
    <3>5. ASSUME NEW hit, r \in Retire(attached(lake.files, changes[t]), Head.id + 1, hit)
          PROVE  \E q \in lake.files : DOMAIN r = DOMAIN q /\ r.id = q.id
      BY <3>4, <3>5 DEF Retire, attached
    <3>6. CASE r \in Retire(attached(lake.files, changes[t]), Head.id + 1,
                             {q \in lake.files : dropped_table(changes[t], q.table)})
      BY <3>3, <3>5, <3>6
    <3>. QED
      BY <3>1, <3>2, <3>6 DEF persist_files
  <2>8. ASSUME NEW i \in lake'.inline
        PROVE  i.schema_version \in Int /\ i.schema_version <= new.schema_version
    <3>1. lake'.inline = lake.inline \union new_inline(changes[t], Head, catalog[t])
      BY <1>6 DEF persist
    <3>2. \A n \in new_inline(changes[t], Head, catalog[t]) : n.schema_version = new.schema_version
      BY <1>1, <1>2 DEF new_inline
    <3>3. CASE i \in lake.inline
      <4>1. i.schema_version \in Int /\ i.schema_version <= Head.schema_version
        BY <3>3 DEF RetryInv, UsedBelowHead
      <4>. QED
        BY <2>2, <2>6, <4>1
    <3>4. CASE i.schema_version = new.schema_version
      BY <2>2, <3>4
    <3>. QED
      BY <3>1, <3>2, <3>3, <3>4
  <2>. QED
    BY <1>5, <2>7, <2>8 DEF UsedBelowHead
<1>8. LogNumbered'
  <2> DEFINE entry == [id |-> latest[t].id + 1, tx |-> t, base |-> base[t].id,
                       changes |-> applied_change_set(changes[t], latest[t])]
  <2>0. log' = log \union {entry} /\ entry.id = HeadId + 1
    BY <1>2 DEF PersistOk
  <2>1. PICK e : log' = log \union {e} /\ e.id = HeadId + 1
    BY <2>0
  <2>2. IsFiniteSet(log')
    <3>1. IsFiniteSet(log \union {e})
      BY FS_AddElement DEF RetryInv, LogNumbered
    <3>. QED
      BY <2>1, <3>1
  <2>3. ASSUME NEW i \in InitialSnapshot.id + 1 .. HeadId + 1
        PROVE  Committed(i)'
    <3>1. CASE i = HeadId + 1
      BY <2>1, <3>1 DEF Committed
    <3>2. CASE i # HeadId + 1
      <4>1. i \in InitialSnapshot.id + 1 .. HeadId
        BY <1>2, <3>2, Numbers
      <4>2. Committed(i)
        BY <4>1 DEF RetryInv, LogNumbered
      <4>. QED
        BY <2>1, <4>2 DEF Committed
    <3>. QED
      BY <3>1, <3>2
  <2>. QED
    BY <1>2, <2>2, <2>3, Numbers DEF RetryInv, LogNumbered
<1>9. ASSUME NEW u \in Tx
      PROVE  RetryHolds(u)'
  <2>1. HeadId' \in Nat /\ HeadId <= HeadId'
    BY <1>2
  <2>2. CASE u # t
    <3>1. RetrySame(u)
      BY <2>2 DEF PersistOk, EndAttempt, Goto, RetrySame, IndInv, TypeOK
    <3>. QED
      BY <2>1, <3>1, RetryUndisturbed
  <2>3. CASE u = t
    <3>1. pc'[t] = "committed" /\ base'[t] = base[t] /\ latest'[t] = latest[t]
      BY DEF PersistOk, EndAttempt, Goto, IndInv, TypeOK
    <3>2. InitialSnapshot.id <= base[t].id /\ latest[t].id <= HeadId'
      BY <1>2, Numbers DEF RetryInv, RetryHolds
    <3>. QED
      BY <2>3, <3>1, <3>2 DEF RetryHolds, Attempts, Committing
  <2>. QED
    BY <2>2, <2>3
<1>. QED
  BY <1>7, <1>8, <1>9 DEF RetryInv

(* Expiry removes rows and keeps the head.                                 *)
LEMMA RetryExpire ==
    ASSUME IndInv, IndInv', RetryInv, SafeRetention, ExpireSnapshots
    PROVE  RetryInv'
<1>1. PICK kept : lake' = ExpireRows(lake, kept)
  BY DEF ExpireSnapshots
<1>2. snapshots' \subseteq snapshots /\ UNCHANGED <<log, pc, base, latest, changes, retry>>
  BY DEF ExpireSnapshots, txVars
<1>3. HeadId' = HeadId
  BY ExpireStep
<1>4. Head' = Head
  <2>1. SnapshotsOrdered' /\ SnapshotsOrdered
    BY DEF IndInv, DbInv
  <2>2. Newest(snapshots') \in snapshots'
    BY <2>1, NewestIsMaximum DEF SnapshotsOrdered
  <2>3. Head' \in snapshots /\ Head \in snapshots /\ Head'.id = Head.id
    BY <1>2, <1>3, <2>2, Numbers DEF Head, HeadId
  <2>. QED
    BY <2>1, <2>3 DEF SnapshotsOrdered
<1>5. UsedBelowHead'
  <2>1. lake'.files \subseteq lake.files /\ lake'.inline \subseteq lake.inline
    BY <1>1 DEF ExpireRows
  <2>. QED
    BY <1>4, <2>1 DEF RetryInv, UsedBelowHead
<1>6. LogNumbered'
  BY <1>2, <1>3 DEF RetryInv, LogNumbered, Committed
<1>7. \A u \in Tx : RetryHolds(u)'
  BY <1>2, <1>3 DEF RetryInv, RetryHolds, Attempts
<1>. QED
  BY <1>5, <1>6, <1>7 DEF RetryInv

(* Every step preserves the invariant.                                     *)
LEMMA RetryNext ==
    ASSUME IndInv, IndInv', RetryInv, SafeRetention, [Next]_vars
    PROVE  RetryInv'
<1>1. ASSUME NEW t \in Tx, Step(t), ~ PersistOk(t)
      PROVE  RetryInv'
  <2>0. /\ pc \in [Tx -> {"idle"} \union Active \union Finished]
        /\ base \in [Tx -> Info] /\ latest \in [Tx -> Info] /\ retry \in [Tx -> Nat]
        /\ DOMAIN changes = Tx
    BY DEF IndInv, TypeOK
  <2>1. RetryHolds(t)
    BY DEF RetryInv
  <2>2. /\ HeadId \in Nat /\ HeadId = Head.id /\ Head \in Info
        /\ InitialSnapshot.id \in Nat /\ MaxRetry \in Nat /\ retry[t] \in Nat
        /\ base[t].id \in Nat /\ latest[t].id \in Nat
    BY Numbers
  <2>3. CASE Begin(t)
    <3>1. UNCHANGED <<snapshots, lake, log>> /\ \A u \in Tx : u # t => RetrySame(u)
      BY <2>0, <2>3 DEF Begin, Goto, dbVars, RetrySame
    <3>2. pc'[t] = "start" /\ base'[t] = Head /\ latest'[t] = Head /\ retry'[t] = 0
      BY <2>0, <2>1, <2>3 DEF Begin, Goto, RetryHolds, Attempts
    <3>3. InitialSnapshot.id <= Head.id
      BY <2>2 DEF RetryInv, LogNumbered
    <3>. QED
      BY <2>2, <3>1, <3>2, <3>3, RetryLocalStep DEF RetryHolds, Attempts, Committing
  <2>4. CASE LoadCatalog(t)
    <3>1. UNCHANGED <<snapshots, lake, log>> /\ \A u \in Tx : u # t => RetrySame(u)
      BY <2>0, <2>4 DEF LoadCatalog, Goto, dbVars, RetrySame
    <3>2. /\ pc[t] = "start" /\ pc'[t] = "open" /\ base'[t] = base[t] /\ latest'[t] = latest[t]
          /\ retry'[t] = retry[t]
      BY <2>0, <2>4 DEF LoadCatalog, Goto
    <3>3. HeadId' = HeadId => RetryHolds(t)'
      BY <2>1, <3>2 DEF RetryHolds, Attempts, Committing
    <3>. QED
      BY <3>1, <3>3, RetryLocalStep
  <2>5. CASE Commit(t)
    <3>1. UNCHANGED <<snapshots, lake, log>> /\ \A u \in Tx : u # t => RetrySame(u)
      BY <2>0, <2>5 DEF Commit, Goto, dbVars, RetrySame
    <3>2. PICK cs \in StagedSets(lake, catalog[t]) :
             changes'[t] = cs /\ pc'[t] \in {"committed", "load"}
      BY <2>0, <2>5 DEF Commit, Goto
    <3>3. pc[t] = "open" /\ base'[t] = base[t] /\ latest'[t] = latest[t] /\ retry'[t] = retry[t]
      BY <2>5 DEF Commit
    <3>4. OneWrite(cs)
      <4>1. Accepted(cs, catalog[t])
        BY DEF StagedSets
      <4>2. \A c, d \in cs : c # d /\ c.op = d.op => c.op \notin WriteOps
        BY <4>1 DEF Accepted
      <4>. QED
        BY <4>2 DEF OneWrite, Ops, WriteOps
    <3>5. latest[t] = base[t] /\ retry[t] = 0
      BY <2>1, <3>3 DEF IndInv, TxInv, BaseRetained, Active, RetryHolds, Attempts
    <3>6. HeadId' = HeadId => RetryHolds(t)'
      BY <2>1, <2>2, <3>2, <3>3, <3>4, <3>5 DEF RetryHolds, Attempts
    <3>. QED
      BY <3>1, <3>6, RetryLocalStep
  <2>6. ASSUME NEW l \in {"attempt", "persist", "refresh", "error"}, Goto(t, l),
               pc[t] \in {"load", "attempt", "persist"},
               UNCHANGED <<snapshots, lake, log>>, UNCHANGED <<base, latest, changes, retry>>,
               l = "refresh" => latest[t].id < HeadId
        PROVE  RetryInv'
    <3>1. \A u \in Tx : u # t => RetrySame(u)
      BY <2>0, <2>6 DEF Goto, RetrySame
    <3>2. pc'[t] = l
      BY <2>0, <2>6 DEF Goto
    <3>3. HeadId' = HeadId => RetryHolds(t)'
      BY <2>1, <2>6, <3>2 DEF RetryHolds, Attempts, Committing
    <3>. QED
      BY <2>6, <3>1, <3>3, RetryLocalStep
  <2>7. CASE LoadStats(t)
    BY <2>6, <2>7 DEF LoadStats
  <2>8. CASE BeginPersist(t)
    BY <2>6, <2>8 DEF BeginPersist, dbVars
  <2>9. CASE PersistRetry(t)
    <3>1. latest[t].id < HeadId
      BY <2>9, RetryIsOvertaken DEF RetryInv
    <3>. QED
      BY <2>6, <2>9, <3>1 DEF PersistRetry, EndAttempt, dbVars
  <2>10. CASE PersistError(t)
    BY <2>6, <2>10 DEF PersistError, EndAttempt, dbVars
  <2>11. CASE Refresh(t)
    <3>1. UNCHANGED <<snapshots, lake, log>> /\ \A u \in Tx : u # t => RetrySame(u)
      BY <2>0, <2>11 DEF Refresh, Goto, dbVars, RetrySame
    <3>2. /\ pc[t] = "refresh" /\ pc'[t] = "check" /\ base'[t] = base[t] /\ latest'[t] = Head
          /\ retry'[t] = retry[t] /\ changes'[t] = changes[t]
      BY <2>0, <2>11 DEF Refresh, Goto
    <3>3. base[t].id + retry[t] < Head.id
      BY <2>1, <2>2, <3>2 DEF RetryHolds, Attempts
    <3>4. HeadId' = HeadId => RetryHolds(t)'
      BY <2>1, <2>2, <3>2, <3>3 DEF RetryHolds, Attempts, Committing
    <3>. QED
      BY <3>1, <3>4, RetryLocalStep
  <2>12. CASE CheckConflict(t)
    <3>1. UNCHANGED <<snapshots, lake, log>> /\ \A u \in Tx : u # t => RetrySame(u)
      BY <2>0, <2>12 DEF CheckConflict, Goto, dbVars, RetrySame
    <3>2. /\ pc[t] = "check" /\ base'[t] = base[t] /\ latest'[t] = latest[t]
          /\ changes'[t] = changes[t]
      BY <2>12 DEF CheckConflict
    <3>3. \/ pc'[t] \in {"conflict", "not_found"}
          \/ retry'[t] = retry[t] + 1 /\ pc'[t] = IF retry[t] < MaxRetry THEN "load" ELSE "exceeded"
      <4>1. CheckErrors(t) \subseteq {"conflict", "not_found"}
        BY DEF CheckErrors, check_conflict
      <4>. QED
        BY <2>0, <2>12, <4>1 DEF CheckConflict, Goto
    <3>4. CASE pc'[t] \in {"conflict", "not_found"}
      <4>1. HeadId' = HeadId => RetryHolds(t)'
        BY <2>1, <3>2, <3>4 DEF RetryHolds, Attempts, Committing
      <4>. QED
        BY <3>1, <4>1, RetryLocalStep
    <3>5. CASE retry'[t] = retry[t] + 1 /\ pc'[t] = IF retry[t] < MaxRetry THEN "load" ELSE "exceeded"
      <4>1. base[t].id + retry[t] < latest[t].id
        BY <2>1, <3>2 DEF RetryHolds, Attempts
      <4>2. base[t].id + (retry[t] + 1) <= latest[t].id
        BY <2>2, <4>1
      <4>3. retry[t] >= MaxRetry => base[t].id + MaxRetry < latest[t].id
        BY <2>2, <4>1
      <4>4. pc'[t] = "load" \/ (pc'[t] = "exceeded" /\ retry[t] >= MaxRetry)
        BY <2>2, <3>5
      <4>5. Attempts(t)'
        BY <3>2, <3>5, <4>2, <4>3, <4>4 DEF Attempts
      <4>6. HeadId' = HeadId => RetryHolds(t)'
        BY <2>1, <3>2, <4>4, <4>5 DEF RetryHolds, Committing
      <4>. QED
        BY <3>1, <4>6, RetryLocalStep
    <3>. QED
      BY <3>3, <3>4, <3>5
  <2>. QED
    BY <1>1, <2>3, <2>4, <2>5, <2>7, <2>8, <2>9, <2>10, <2>11, <2>12 DEF Step
<1>2. CASE UNCHANGED vars
  <2>1. UNCHANGED <<snapshots, lake, log, pc, base, latest, changes, retry>>
    BY <1>2 DEF vars, dbVars, txVars
  <2>2. Head' = Head /\ HeadId' = HeadId
    BY <2>1 DEF Head, HeadId
  <2>. QED
    BY <2>1, <2>2 DEF RetryInv, UsedBelowHead, LogNumbered, Committed, RetryHolds, Attempts
<1>. QED
  BY <1>1, <1>2, RetryPersistOk, RetryExpire DEF Next

-----------------------------------------------------------------------------
(* The theorems.                                                           *)

(* Both invariants hold in every behaviour.                                *)
THEOREM RetryInvariance ==
    ASSUME SafeRetention
    PROVE  Spec => [](IndInv /\ RetryInv)
<1>1. Init => RetryInv
  BY RetryInit
<1>2. IndInv /\ IndInv' /\ RetryInv /\ [Next]_vars => RetryInv'
  BY RetryNext
<1>. QED
  BY <1>1, <1>2, Invariance, PTL DEF Spec

(* A commit is retried only if another snapshot has been committed on top  *)
(* of the one it was built on, whichever key was taken.                    *)
THEOREM RetriesAreRaces ==
    ASSUME SafeRetention
    PROVE  Spec => []RetryMeansNewerSnapshot
<1>1. RetryInv => RetryMeansNewerSnapshot
  BY DEF RetryInv, RetryHolds, RetryMeansNewerSnapshot
<1>. QED
  BY <1>1, RetryInvariance, PTL

(* A transaction gives up only after MaxRetry + 1 others have committed    *)
(* since it began.                                                         *)
THEOREM GivingUpMeansContention ==
    ASSUME SafeRetention
    PROVE  Spec => []ExceededMeansContention
<1>1. IndInv /\ RetryInv => ExceededMeansContention
  <2> SUFFICES ASSUME IndInv, RetryInv, NEW t \in Tx, pc[t] = "exceeded"
               PROVE  Cardinality({e \in log : e.id > base[t].id}) > MaxRetry
    BY DEF ExceededMeansContention
  <2> DEFINE later == {e \in log : e.id > base[t].id}
             ids == {e.id : e \in later}
             b == base[t].id
  <2>1. /\ b \in Nat /\ MaxRetry \in Nat /\ HeadId \in Nat /\ InitialSnapshot.id \in Nat
        /\ InitialSnapshot.id <= b /\ b + MaxRetry < HeadId
    BY Numbers DEF RetryInv, RetryHolds, Attempts
  <2>2. b + 1 .. HeadId \subseteq ids
    <3>1. ASSUME NEW i \in b + 1 .. HeadId
          PROVE  i \in ids
      <4>1. i \in InitialSnapshot.id + 1 .. HeadId /\ i > b
        BY <2>1
      <4>2. Committed(i)
        BY <4>1 DEF RetryInv, LogNumbered
      <4>. QED
        BY <4>1, <4>2 DEF Committed
    <3>. QED
      BY <3>1
  <2>3. IsFiniteSet(later)
    BY FS_Subset DEF RetryInv, LogNumbered
  <2>. HIDE DEF later
  <2>4. IsFiniteSet(ids) /\ Cardinality(ids) <= Cardinality(later)
    <3> DEFINE f == [e \in later |-> e.id]
    <3>1. f \in Surjection(later, ids)
      BY DEF Surjection
    <3>. QED
      BY <2>3, <3>1, FS_Surjection, Zenon
  <2>. HIDE DEF ids
  <2>5. Cardinality(b + 1 .. HeadId) <= Cardinality(ids)
    BY <2>2, <2>4, FS_Subset
  <2>6. Cardinality(b + 1 .. HeadId) = HeadId - b
    BY <2>1, FS_Interval
  <2>7. Cardinality(ids) \in Nat /\ Cardinality(later) \in Nat
    BY <2>3, <2>4, FS_CardinalityType
  <2>8. Cardinality(later) > MaxRetry
    BY <2>1, <2>4, <2>5, <2>6, <2>7
  <2>. QED
    BY <2>8 DEF later
<1>. QED
  BY <1>1, RetryInvariance, PTL

=============================================================================
