-------------------------- MODULE CommitDataProofs --------------------------
(***************************************************************************)
(* The data of the lake: row IDs, statistics and inlined data tables, for  *)
(* any number of transactions, any menu of changes without renames or      *)
(* without writes of no files, and any retry bound.                        *)
(***************************************************************************)
EXTENDS CommitRowsProofs

-----------------------------------------------------------------------------
(* Column IDs, and what a change set never holds.                          *)

ColumnsNumbered ==
    \A r \in lake.columns : r.column \in Nat /\ HasLastColumn(lake.columns, r.table)

\* Columns are added one per table, and none is added and removed.
AddsNew(cs) ==
    \A c \in Ops(cs, "add_column") :
        /\ c.n \in Nat
        /\ \A d \in Ops(cs, "add_column") : d.id = c.id => d.n = c.n
        /\ \A d \in Ops(cs, "remove_column") : d.id = c.id => d.n # c.n

NoRenames == <<"rename", "table">> \notin Enabled
WritesHaveRows == 0 \notin FileCounts

NoneRenamed(cs) == Ops(cs, "rename") = {}
SomeWritten(cs) == \A c \in cs : c.op \in WriteOps => c.n \in Nat /\ c.n > 0

Staged(cs) ==
    /\ cs # {} /\ AddsNew(cs)
    /\ NoRenames => NoneRenamed(cs)
    /\ WritesHaveRows => SomeWritten(cs)

TxStaged(t) == pc[t] \in Committing => Staged(changes[t])
StagedInv == ColumnsNumbered /\ \A t \in Tx : TxStaged(t)

\* The statistics sts are those of the lake for every table that a commit on
\* top of h may write: the live ones and the one it creates.
MayBeWritten(l, h, table) == table \in Int /\ (h.next_catalog_id <= table \/ TableIn(Live(l.objects), table))
Agree(sts, l, h) ==
    \A table : MayBeWritten(l, h, table) =>
        \A s : s.table = table => (s \in sts <=> s \in l.stats)

\* A row has at least one row ID.
Ranged(r) ==
    {"row_id_start", "rows"} \subseteq DOMAIN r /\ r.row_id_start \in Nat /\ r.rows \in Nat /\ r.rows > 0

\* One row of statistics per table, with a usable counter.
StatsSingle(S) ==
    \A s \in S : s.next_row_id \in Nat /\ \A q \in S : q.table = s.table => q = s

StatsWhole ==
    /\ StatsSingle(lake.stats)
    /\ \A s \in lake.stats : KnownId(s.table, Head)
    /\ \A r \in lake.files \union lake.inlined : Ranged(r)
    /\ \A r \in lake.inlined : "id" \notin DOMAIN r
    /\ \A s \in snapshots : s.next_file_id <= Head.next_file_id

\* No entry of the cache is newer than the head; one for the head is current.
CacheCurrent ==
    \A e \in table_stats_cache :
        /\ \E q \in Info : e.key = StatsKey(q) /\ q.schema_version <= Head.schema_version
                           /\ q.next_file_id <= Head.next_file_id
        /\ e.key = StatsKey(Head) => Agree(e.stats, lake, Head)

TxStats(t) ==
    pc[t] \in {"attempt", "persist"} /\ requires_table_stats(changes[t]) /\ latest[t] = Head =>
        Agree(stats[t], lake, Head)

StatsInv ==
    /\ StatsWhole /\ RowIdsDisjoint /\ StatsCoverRows /\ CacheCurrent
    /\ DOMAIN stats = Tx /\ \A t \in Tx : TxStats(t)

-----------------------------------------------------------------------------
(* What can be staged.                                                     *)

(* load_next_column_id is above every column ID the table has had.         *)
LEMMA NextColumnIsNew ==
    ASSUME NEW l, NEW id, HasLastColumn(l.columns, id),
           \A n \in ColumnsOf(l.columns, id) : n \in Nat
    PROVE  /\ NextColumn(l, id) \in Nat
           /\ \A n \in ColumnsOf(l.columns, id) : n < NextColumn(l, id)
<1> DEFINE S == ColumnsOf(l.columns, id)
<1>1. \E m \in S : \A n \in S : n <= m
  BY DEF HasLastColumn
<1>2. NextColumn(l, id) = 1 + (CHOOSE m \in S : \A n \in S : n <= m)
  BY DEF NextColumn
<1>. HIDE DEF S
<1>3. PICK m \in S : m = (CHOOSE x \in S : \A n \in S : n <= x) /\ \A n \in S : n <= m
  BY <1>1
<1>4. NextColumn(l, id) = 1 + m
  BY <1>2, <1>3
<1>5. \A n \in S : n \in Nat
  BY DEF S
<1>. QED
  BY <1>3, <1>4, <1>5 DEF S

(* The arguments of the operations a user may call.                        *)
LEMMA CandidateArguments ==
    ASSUME NEW l, NEW cat, NEW c \in Candidates(l, cat)
    PROVE  /\ <<c.op, c.kind>> \in Enabled
           /\ c.op = "rename" => c.kind = "table"
           /\ c.op = "add_column" => c.n = NextColumn(l, c.id) /\ ColumnsOf(l.columns, c.id) # {}
           /\ c.op = "remove_column" => c.n \in ColumnsOf(cat.columns, c.id)
           /\ c.op = "write_files" => c.n \in FileCounts
           /\ c.op = "write_inline" => c.n \in 1 .. MaxRows
<1>1. ASSUME NEW op, NEW kind, NEW id, NEW schema, NEW name, NEW n,
             c = Change(op, kind, id, schema, name, n)
      PROVE  c.op = op /\ c.kind = kind /\ c.id = id /\ c.n = n
  BY <1>1 DEF Change
<1>2. <<c.op, c.kind>> \in Enabled
  BY DEF Candidates
<1>3. CASE c \in UNION {create_schema, create_table, create_view, create_macro, delete_object(cat),
                        delete_table_transferring_file_ownership(cat),
                        add_table_tag(cat), remove_table_tag(cat), update_indexed(cat)}
  <2>1. c.op \in {"create", "delete", "set", "unset"}
    BY <1>1, <1>3 DEF create_schema, create_table, create_view, create_macro, create_in_schema,
                      delete_object, delete_table_transferring_file_ownership,
                      add_table_tag, remove_table_tag, update_indexed
  <2>. QED
    BY <1>2, <2>1
<1>4. CASE c \in rename_table(cat)
  <2>1. c.op = "rename" /\ c.kind = "table"
    BY <1>1, <1>4 DEF rename_table
  <2>. QED
    BY <1>2, <2>1
<1>5. CASE c \in add_table_column(l, cat)
  <2>1. c.op = "add_column" /\ c.n = NextColumn(l, c.id) /\ ColumnsOf(l.columns, c.id) # {}
    BY <1>1, <1>5 DEF add_table_column
  <2>. QED
    BY <1>2, <2>1
<1>6. CASE c \in remove_table_column(cat)
  <2>1. PICK r \in cat.columns : c.op = "remove_column" /\ c.id = r.table /\ c.n = r.column
    BY <1>1, <1>6 DEF remove_table_column
  <2>2. c.n \in ColumnsOf(cat.columns, c.id)
    BY <2>1 DEF ColumnsOf
  <2>. QED
    BY <1>2, <2>1, <2>2
<1>7. CASE c \in write_table_data_files(cat)
  <2>1. c.op = "write_files" /\ c.n \in FileCounts
    BY <1>1, <1>7 DEF write_table_data_files
  <2>. QED
    BY <1>2, <2>1
<1>8. CASE c \in write_table_inline_data(cat)
  <2>1. c.op = "write_inline" /\ c.n \in 1 .. MaxRows
    BY <1>1, <1>8 DEF write_table_inline_data
  <2>. QED
    BY <1>2, <2>1
<1>. QED
  BY <1>3, <1>4, <1>5, <1>6, <1>7, <1>8 DEF Candidates

(* The columns of a catalog are columns of the lake.                       *)
LEMMA CatalogColumns ==
    ASSUME NEW l, NEW b, NEW cat, cat = CatalogAt(l, b), NEW id,
           \A r \in l.columns : ColumnFields \subseteq DOMAIN r
    PROVE  ColumnsOf(cat.columns, id) \subseteq ColumnsOf(l.columns, id)
<1>1. cat.columns = {[r EXCEPT !.end = NULL] : r \in Visible(l.columns, b)}
  BY DEF CatalogAt, AsOf
<1>2. ASSUME NEW n \in ColumnsOf(cat.columns, id) PROVE n \in ColumnsOf(l.columns, id)
  <2>1. PICK q \in cat.columns : q.table = id /\ q.column = n
    BY DEF ColumnsOf
  <2>2. PICK r \in Visible(l.columns, b) : q = [r EXCEPT !.end = NULL]
    BY <1>1
  <2>3. r \in l.columns /\ r.table = q.table /\ r.column = q.column
    BY <2>2 DEF Visible, ColumnFields
  <2>. QED
    BY <2>1, <2>3 DEF ColumnsOf
<1>. QED
  BY <1>2

(* A set the API accepts has these properties.                             *)
LEMMA StagedSetsStaged ==
    ASSUME NEW l, NEW b, NEW cat, cat = CatalogAt(l, b), NEW cs \in StagedSets(l, cat), cs # {},
           \A r \in l.columns : ColumnFields \subseteq DOMAIN r,
           \A r \in l.columns : r.column \in Nat /\ HasLastColumn(l.columns, r.table)
    PROVE  Staged(cs)
<1>1. \A c \in cs : c \in Candidates(l, cat)
  BY DEF StagedSets
<1>2. AddsNew(cs)
  <2> SUFFICES ASSUME NEW c \in Ops(cs, "add_column")
               PROVE  /\ c.n \in Nat
                      /\ \A d \in Ops(cs, "add_column") : d.id = c.id => d.n = c.n
                      /\ \A d \in Ops(cs, "remove_column") : d.id = c.id => d.n # c.n
    BY DEF AddsNew
  <2>1. /\ \A d \in Ops(cs, "add_column") : d \in Candidates(l, cat) /\ d.op = "add_column"
        /\ \A d \in Ops(cs, "remove_column") : d \in Candidates(l, cat) /\ d.op = "remove_column"
    BY <1>1 DEF Ops
  <2>2. \A d \in Ops(cs, "add_column") : d.n = NextColumn(l, d.id) /\ ColumnsOf(l.columns, d.id) # {}
    BY <2>1, CandidateArguments
  <2>3. HasLastColumn(l.columns, c.id) /\ \A n \in ColumnsOf(l.columns, c.id) : n \in Nat
    <3>1. PICK r \in l.columns : r.table = c.id
      BY <2>2 DEF ColumnsOf
    <3>. QED
      BY <3>1 DEF ColumnsOf
  <2>4. NextColumn(l, c.id) \in Nat /\ \A n \in ColumnsOf(l.columns, c.id) : n < NextColumn(l, c.id)
    BY <2>3, NextColumnIsNew
  <2>5. ASSUME NEW d \in Ops(cs, "remove_column"), d.id = c.id PROVE d.n # c.n
    <3>1. d.n \in ColumnsOf(l.columns, c.id)
      BY <2>1, <2>5, CandidateArguments, CatalogColumns
    <3>. QED
      BY <2>2, <2>3, <2>4, <3>1
  <2>. QED
    BY <2>2, <2>4, <2>5
<1>3. ASSUME NoRenames PROVE NoneRenamed(cs)
  <2>1. \A c \in Ops(cs, "rename") : c \in Candidates(l, cat) /\ c.op = "rename"
    BY <1>1 DEF Ops
  <2>2. \A c \in Ops(cs, "rename") : <<c.op, c.kind>> \in Enabled /\ c.op = "rename" /\ c.kind = "table"
    BY <2>1, CandidateArguments
  <2>. QED
    BY <1>3, <2>2 DEF NoRenames, NoneRenamed
<1>4. ASSUME WritesHaveRows PROVE SomeWritten(cs)
  <2> SUFFICES ASSUME NEW c \in cs, c.op \in WriteOps PROVE c.n \in Nat /\ c.n > 0
    BY DEF SomeWritten
  <2>1. c.op = "write_files" => c.n \in FileCounts
    BY <1>1, CandidateArguments
  <2>2. c.op = "write_inline" => c.n \in 1 .. MaxRows
    BY <1>1, CandidateArguments
  <2>3. CASE c.op = "write_files"
    <3>1. c.n \in Nat /\ c.n # 0
      BY <1>4, <2>1, <2>3, FileCountsAssumption DEF WritesHaveRows
    <3>. QED
      BY <3>1
  <2>4. CASE c.op = "write_inline"
    BY <2>2, <2>4, MaxRowsAssumption
  <2>. QED
    BY <2>3, <2>4 DEF WriteOps
<1>. QED
  BY <1>2, <1>3, <1>4 DEF Staged

-----------------------------------------------------------------------------
(* Column IDs stay numbered.                                               *)

(* Retiring a row leaves its table and column alone.                       *)
LEMMA ColumnsAfterCommit ==
    ASSUME NEW rows, NEW k, NEW hit, NEW added, NEW id,
           \A r \in rows : ColumnFields \subseteq DOMAIN r
    PROVE  ColumnsOf(Retire(rows, k, hit) \union added, id) = ColumnsOf(rows, id) \union ColumnsOf(added, id)
<1>1. \A r \in rows : [r EXCEPT !.end = k].table = r.table /\ [r EXCEPT !.end = k].column = r.column
  BY DEF ColumnFields
<1>2. /\ \A q \in Retire(rows, k, hit) : \E r \in rows : q.table = r.table /\ q.column = r.column
      /\ \A r \in rows : \E q \in Retire(rows, k, hit) : q.table = r.table /\ q.column = r.column
  BY <1>1 DEF Retire
<1>3. ColumnsOf(Retire(rows, k, hit), id) = ColumnsOf(rows, id)
  BY <1>2 DEF ColumnsOf
<1>4. ColumnsOf(Retire(rows, k, hit) \union added, id)
        = ColumnsOf(Retire(rows, k, hit), id) \union ColumnsOf(added, id)
  BY DEF ColumnsOf
<1>. QED
  BY <1>3, <1>4

(* One more column, or none, on top of the ones a table has had.           *)
LEMMA LastColumnAfter ==
    ASSUME NEW S, NEW A, \A n \in S : n \in Nat, \A n \in A : n \in Nat,
           S = {} \/ \E m \in S : \A n \in S : n <= m,
           \A m, n \in A : m = n, S \union A # {}
    PROVE  \E m \in S \union A : \A n \in S \union A : n <= m
<1>1. CASE A = {}
  BY <1>1
<1>2. ASSUME NEW a \in A PROVE \E m \in S \union A : \A n \in S \union A : n <= m
  <2>0. a \in Nat /\ A = {a}
    OBVIOUS
  <2>1. CASE S = {}
    BY <2>0, <2>1
  <2>2. ASSUME NEW m \in S, \A n \in S : n <= m PROVE \E x \in S \union A : \A n \in S \union A : n <= x
    <3>1. m \in Nat
      OBVIOUS
    <3>2. CASE a <= m
      BY <2>0, <2>2, <3>1, <3>2
    <3>3. CASE m < a
      <4>1. \A n \in S : n <= a
        BY <2>0, <2>2, <3>1, <3>3
      <4>. QED
        BY <2>0, <4>1
    <3>. QED
      BY <2>0, <3>1, <3>2, <3>3
  <2>. QED
    BY <2>1, <2>2
<1>. QED
  BY <1>1, <1>2

(* The columns a commit adds to one table have one ID.                     *)
LEMMA AddedColumnsOf ==
    ASSUME NEW cs, NEW info \in Info, NEW cat, ProperChanges(cs, cat, info), AddsNew(cs), NEW id
    PROVE  /\ \A n \in ColumnsOf(AddedColumns(cs, info), id) : n \in Nat
           /\ \A m, n \in ColumnsOf(AddedColumns(cs, info), id) : m = n
<1>1. \A c \in Ops(cs, "add_column") : KnownId(c.id, info)
  BY DEF Ops, ProperChanges, KnownChanges, KnownChange
<1>2. ASSUME NEW c \in Ops(cs, "create"), c.kind = "table"
      PROVE  ~ KnownId(catalog_id(cs, info, "table"), info)
  BY <1>2, NewIds
<1>3. \A r \in AddedColumns(cs, info) :
         \/ \E c \in Ops(cs, "add_column") : r.table = c.id /\ r.column = c.n
         \/ /\ \E c \in Ops(cs, "create") : c.kind = "table"
            /\ r.table = catalog_id(cs, info, "table") /\ r.column = 1
  BY DEF AddedColumns
<1>4. ASSUME NEW m \in ColumnsOf(AddedColumns(cs, info), id)
      PROVE  \/ \E c \in Ops(cs, "add_column") : id = c.id /\ m = c.n
             \/ ~ KnownId(id, info) /\ m = 1
  <2>1. PICK r \in AddedColumns(cs, info) : r.table = id /\ r.column = m
    BY DEF ColumnsOf
  <2>. QED
    BY <1>2, <1>3, <2>1
<1>5. \A n \in ColumnsOf(AddedColumns(cs, info), id) : n \in Nat
  BY <1>4 DEF AddsNew
<1>6. \A m, n \in ColumnsOf(AddedColumns(cs, info), id) : m = n
  BY <1>1, <1>4 DEF AddsNew
<1>. QED
  BY <1>5, <1>6

(* A commit numbers the columns it adds.                                   *)
LEMMA ColumnsNumberedAfter ==
    ASSUME NEW t \in Tx, NEW k, NEW new, Commits(t, k, new), ColumnsNumbered, AddsNew(changes[t]),
           NEW r \in new.columns
    PROVE  r.column \in Nat /\ HasLastColumn(new.columns, r.table)
<1> DEFINE added == AddedColumns(changes[t], latest[t])
<1>1. new.columns = Retire(lake.columns, k, HitColumns(lake.columns, changes[t])) \union added
  BY DEF Commits, CommitOf
<1>2. \A q \in lake.columns : ColumnFields \subseteq DOMAIN q
  BY DEF Commits, WholeLake, Whole
<1>3. /\ latest[t] \in Info /\ ProperChanges(changes[t], catalog[t], latest[t])
  BY DEF Commits
<1>4. /\ \A n \in ColumnsOf(added, r.table) : n \in Nat
      /\ \A m, n \in ColumnsOf(added, r.table) : m = n
  BY <1>3, AddedColumnsOf
<1>. HIDE DEF added
<1>5. PICK S : S = ColumnsOf(lake.columns, r.table)
  OBVIOUS
<1>6. PICK A : A = ColumnsOf(added, r.table)
  OBVIOUS
<1>7. ColumnsOf(new.columns, r.table) = S \union A
  BY <1>1, <1>2, <1>5, <1>6, ColumnsAfterCommit
<1>8. /\ \A n \in S : n \in Nat
      /\ S = {} \/ \E m \in S : \A n \in S : n <= m
  <2>1. ASSUME NEW n \in S
        PROVE  n \in Nat /\ \E m \in S : \A x \in S : x <= m
    <3>1. PICK q \in lake.columns : q.table = r.table /\ q.column = n
      BY <1>5 DEF ColumnsOf
    <3>2. n \in Nat /\ HasLastColumn(lake.columns, r.table)
      BY <3>1 DEF ColumnsNumbered
    <3>. QED
      BY <1>5, <3>2 DEF HasLastColumn
  <2>. QED
    BY <2>1
<1>9. r.column \in S \union A
  <2>1. r.column \in ColumnsOf(new.columns, r.table)
    BY DEF ColumnsOf
  <2>. QED
    BY <1>7, <2>1
<1>10. \E m \in S \union A : \A n \in S \union A : n <= m
  BY <1>4, <1>6, <1>8, <1>9, LastColumnAfter
<1>. QED
  BY <1>4, <1>6, <1>7, <1>8, <1>9, <1>10 DEF HasLastColumn

-----------------------------------------------------------------------------
(* The change set of a commit is the one that was staged.                  *)

(* A change set is fixed when commit is called.                            *)
LEMMA ChangesAreFixed ==
    ASSUME IndInv, [Next]_vars, NEW u \in Tx, pc'[u] \in Committing
    PROVE  (pc[u] \in Committing /\ changes'[u] = changes[u]) \/ Commit(u)
<1>1. pc \in [Tx -> {"idle"} \union Active \union Finished] /\ DOMAIN changes = Tx
  BY DEF IndInv, TypeOK
<1>2. CASE UNCHANGED vars
  BY <1>2 DEF vars, txVars
<1>3. CASE ExpireSnapshots
  BY <1>3 DEF ExpireSnapshots, txVars
<1>4. ASSUME NEW t \in Tx, Step(t)
      PROVE  (pc[u] \in Committing /\ changes'[u] = changes[u]) \/ Commit(u)
  <2>1. CASE u # t
    <3>1. pc'[u] = pc[u] /\ changes'[u] = changes[u]
      BY <1>1, <1>4, <2>1 DEF Step, Begin, LoadCatalog, Commit, LoadStats, BeginPersist, PersistOk,
                              PersistRetry, PersistError, Refresh, CheckConflict, EndAttempt, Goto
    <3>. QED
      BY <3>1
  <2>2. CASE u = t
    <3>1. CASE Commit(t)
      BY <2>2, <3>1
    <3>2. CASE Begin(t)
      BY <1>1, <2>2, <3>2 DEF Begin, Goto, Committing
    <3>3. CASE LoadCatalog(t)
      BY <1>1, <2>2, <3>3 DEF LoadCatalog, Goto, Committing
    <3>4. CASE LoadStats(t) \/ BeginPersist(t) \/ PersistOk(t) \/ PersistRetry(t) \/ PersistError(t)
               \/ Refresh(t) \/ CheckConflict(t)
      BY <2>2, <3>4 DEF LoadStats, BeginPersist, PersistOk, PersistRetry, PersistError, Refresh,
                        CheckConflict, Committing
    <3>. QED
      BY <1>4, <3>1, <3>2, <3>3, <3>4 DEF Step
  <2>. QED
    BY <2>1, <2>2
<1>. QED
  BY <1>2, <1>3, <1>4 DEF Next

(* The lake and the snapshots change when a commit succeeds, and when      *)
(* snapshots expire.                                                       *)
LEMMA LakeSteps ==
    ASSUME [Next]_vars
    PROVE  \/ UNCHANGED <<snapshots, lake>>
           \/ ExpireSnapshots
           \/ \E t \in Tx : PersistOk(t)
<1>1. CASE UNCHANGED vars
  BY <1>1 DEF vars, dbVars
<1>2. ASSUME NEW t \in Tx, Step(t), ~ PersistOk(t) PROVE UNCHANGED <<snapshots, lake>>
  BY <1>2 DEF Step, Begin, LoadCatalog, Commit, LoadStats, BeginPersist, PersistRetry, PersistError,
              Refresh, CheckConflict, dbVars
<1>. QED
  BY <1>1, <1>2 DEF Next

(* What holds of a lake at first.                                          *)
LEMMA StagedInit == Init => StagedInv
<1> SUFFICES ASSUME Init PROVE StagedInv
  OBVIOUS
<1>1. ColumnsNumbered
  BY InitialDataAssumption DEF Init, ColumnsNumbered
<1>2. \A t \in Tx : TxStaged(t)
  BY DEF Init, TxStaged, Committing
<1>. QED
  BY <1>1, <1>2 DEF StagedInv

(* Every step preserves the invariant.                                     *)
LEMMA StagedNext ==
    ASSUME IndInv, RowInv, StagedInv, SafeRetention, [Next]_vars
    PROVE  StagedInv'
<1>1. ASSUME NEW u \in Tx PROVE TxStaged(u)'
  <2>1. CASE pc[u] \in Committing /\ changes'[u] = changes[u]
    BY <2>1 DEF StagedInv, TxStaged
  <2>2. CASE Commit(u)
    <3>1. PICK cs \in StagedSets(lake, catalog[u]) :
             changes'[u] = cs /\ (cs = {} => pc'[u] = "committed")
      BY <2>2 DEF Commit, Goto, IndInv, TypeOK
    <3>2. catalog[u] = CatalogAt(lake, base[u].id)
      BY <2>2 DEF Commit, RowInv, TxRows
    <3>3. \A r \in lake.columns : ColumnFields \subseteq DOMAIN r
      BY DEF RowInv, RowsWhole, Whole
    <3>4. \A r \in lake.columns : r.column \in Nat /\ HasLastColumn(lake.columns, r.table)
      BY DEF StagedInv, ColumnsNumbered
    <3>5. cs # {} => Staged(cs)
      BY <3>2, <3>3, <3>4, StagedSetsStaged
    <3>. QED
      BY <3>1, <3>5 DEF TxStaged, Committing
  <2>3. CASE pc'[u] \notin Committing
    BY <2>3 DEF TxStaged
  <2>. QED
    BY <2>1, <2>2, <2>3, ChangesAreFixed
<1>2. ColumnsNumbered'
  <2>1. CASE UNCHANGED <<snapshots, lake>>
    BY <2>1 DEF StagedInv, ColumnsNumbered
  <2>2. CASE ExpireSnapshots
    <3>1. PICK kept : lake' = ExpireRows(lake, kept)
      BY <2>2 DEF ExpireSnapshots
    <3>2. PICK gone : lake'.columns = {r \in lake.columns : r.table \notin gone}
      BY <3>1 DEF ExpireRows
    <3>3. ASSUME NEW id, id \notin gone PROVE ColumnsOf(lake'.columns, id) = ColumnsOf(lake.columns, id)
      BY <3>2, <3>3 DEF ColumnsOf
    <3>4. ASSUME NEW r \in lake'.columns PROVE r.column \in Nat /\ HasLastColumn(lake'.columns, r.table)
      <4>1. r \in lake.columns /\ r.table \notin gone
        BY <3>2
      <4>2. r.column \in Nat /\ HasLastColumn(lake.columns, r.table)
        BY <4>1 DEF StagedInv, ColumnsNumbered
      <4>3. ColumnsOf(lake'.columns, r.table) = ColumnsOf(lake.columns, r.table)
        BY <3>3, <4>1
      <4>. QED
        BY <4>2, <4>3 DEF HasLastColumn
    <3>. QED
      BY <3>4 DEF ColumnsNumbered
  <2>3. ASSUME NEW t \in Tx, PersistOk(t) PROVE ColumnsNumbered'
    <3>1. PICK k, new : Commits(t, k, new) /\ lake' = new
      BY <2>3, PersistOkFacts
    <3>2. AddsNew(changes[t])
      BY <2>3 DEF PersistOk, StagedInv, TxStaged, Staged, Committing
    <3>3. \A r \in new.columns : r.column \in Nat /\ HasLastColumn(new.columns, r.table)
      BY <3>1, <3>2, ColumnsNumberedAfter DEF StagedInv
    <3>. QED
      BY <3>1, <3>3 DEF ColumnsNumbered
  <2>. QED
    BY <2>1, <2>2, <2>3, LakeSteps
<1>. QED
  BY <1>1, <1>2 DEF StagedInv

-----------------------------------------------------------------------------
(* Inlined data tables.                                                    *)

(* A table that a change set alters is not one it deletes.                 *)
LEMMA AlteredIsNotDropped ==
    ASSUME NEW cs, NEW info, NEW cat, ProperChanges(cs, cat, info),
           NEW c \in cs, c.op \in AlterOps \union WriteOps
    PROVE  ~ dropped_table(cs, c.id)
<1> SUFFICES ASSUME dropped_table(cs, c.id) PROVE FALSE
  OBVIOUS
<1>1. PICK d \in Ops(cs, "delete") : d.kind = "table" /\ d.id = c.id
  BY DEF dropped_table, Targets
<1>2. d.op = "delete" /\ c # d
  BY DEF Ops, AlterOps, WriteOps
<1>3. ~ Affects(c, "table", c.id)
  BY <1>1, <1>2 DEF ProperChanges, Accepted
<1>4. c.kind = "table" \/ c.op \in {"set", "unset"}
  BY DEF ProperChanges, Sound, AlterOps
<1>. QED
  BY <1>3, <1>4 DEF Affects

(* The columns that live on after a commit.                                *)
LEMMA LiveColumnsAfter ==
    ASSUME NEW cs, NEW info, NEW C, NEW C2, NEW id,
           C2 = {r \in C : ~ retires_column(cs, r)} \union AddedColumns(cs, info)
    PROVE  \A n : n \in ColumnsOf(C2, id) <=>
              \/ n \in ColumnsOf(AddedColumns(cs, info), id)
              \/ /\ n \in ColumnsOf(C, id) /\ ~ dropped_table(cs, id)
                 /\ \A c \in Ops(cs, "remove_column") : ~ (c.id = id /\ c.n = n)
<1> DEFINE K == {r \in C : ~ retires_column(cs, r)}
           A == AddedColumns(cs, info)
<1>1. ASSUME NEW n
      PROVE  n \in ColumnsOf(K, id) <=>
                /\ n \in ColumnsOf(C, id) /\ ~ dropped_table(cs, id)
                /\ \A c \in Ops(cs, "remove_column") : ~ (c.id = id /\ c.n = n)
  <2>1. ASSUME NEW r \in C, r.table = id, r.column = n
        PROVE  r \in K <=> /\ ~ dropped_table(cs, id)
                           /\ \A c \in Ops(cs, "remove_column") : ~ (c.id = id /\ c.n = n)
    BY <2>1 DEF retires_column
  <2>2. n \in ColumnsOf(K, id) <=> \E r \in K : r.table = id /\ r.column = n
    BY DEF ColumnsOf
  <2>3. n \in ColumnsOf(C, id) <=> \E r \in C : r.table = id /\ r.column = n
    BY DEF ColumnsOf
  <2>4. K \subseteq C
    OBVIOUS
  <2>. HIDE DEF K
  <2>. QED
    BY <2>1, <2>2, <2>3, <2>4
<1>2. ColumnsOf(C2, id) = ColumnsOf(K, id) \union ColumnsOf(A, id)
  BY DEF ColumnsOf
<1>. QED
  BY <1>1, <1>2

(* An inlined data table that a commit creates has the columns its table   *)
(* then has, although they were taken from the transaction's catalog.      *)
LEMMA NewInlineMatches ==
    ASSUME IndInv, NEW t \in Tx, NEW k, NEW new, Commits(t, k, new), latest[t] = Head,
           AddsNew(changes[t]), NoneRenamed(changes[t]),
           NEW i \in new_inline(changes[t], latest[t], catalog[t])
    PROVE  i.columns = ColumnsOf(Live(new.columns), i.table)
<1> DEFINE cs == changes[t]
           info == latest[t]
           cat == catalog[t]
           C == Live(lake.columns)
<1>1. /\ ProperChanges(cs, cat, info) /\ info \in Info
      /\ ColumnsAgree(cat, C, Live(lake.attributes), cs)
      /\ Live(new.columns) = {r \in C : ~ retires_column(cs, r)} \union AddedColumns(cs, info)
  BY DEF Commits, LiveAfter
<1>2. \A c \in cs : KnownId(c.id, info)
  BY <1>1 DEF ProperChanges, KnownChanges, KnownChange
<1>3. \A r \in C : KnownId(r.table, info)
  <2>1. HeadId = Head.id /\ Head \in snapshots
    BY Numbers
  <2>2. \A r \in lake.columns : r.table \in Int /\ r.table < Head.next_catalog_id
    BY <2>1 DEF IndInv, DbInv, RowsDated, Dated
  <2>. QED
    BY <2>2 DEF KnownId, Live
<1>4. ASSUME NEW n, NEW id
      PROVE  n \in ColumnsOf(AddedColumns(cs, info), id) <=>
                \/ \E c \in Ops(cs, "add_column") : c.id = id /\ c.n = n
                \/ /\ \E c \in Ops(cs, "create") : c.kind = "table"
                   /\ id = catalog_id(cs, info, "table") /\ n = 1
  <2> DEFINE added == {[table |-> c.id, column |-> c.n, begin |-> info.id + 1, end |-> NULL] :
                         c \in Ops(cs, "add_column")}
             first == {[table |-> catalog_id(cs, info, "table"), column |-> 1,
                        begin |-> info.id + 1, end |-> NULL] :
                         c \in {d \in Ops(cs, "create") : d.kind = "table"}}
  <2>1. AddedColumns(cs, info) = added \union first
    BY DEF AddedColumns
  <2>2. (\E r \in added : r.table = id /\ r.column = n)
          <=> \E c \in Ops(cs, "add_column") : c.id = id /\ c.n = n
    <3> DEFINE Row(c) == [table |-> c.id, column |-> c.n, begin |-> info.id + 1, end |-> NULL]
    <3>1. \A c : Row(c).table = c.id /\ Row(c).column = c.n
      OBVIOUS
    <3>2. added = {Row(c) : c \in Ops(cs, "add_column")}
      OBVIOUS
    <3>. HIDE DEF Row, added
    <3>. QED
      BY <3>1, <3>2
  <2>3. (\E r \in first : r.table = id /\ r.column = n)
          <=> /\ \E c \in Ops(cs, "create") : c.kind = "table"
              /\ id = catalog_id(cs, info, "table") /\ n = 1
    <3> DEFINE row == [table |-> catalog_id(cs, info, "table"), column |-> 1,
                       begin |-> info.id + 1, end |-> NULL]
    <3>1. row.table = catalog_id(cs, info, "table") /\ row.column = 1
      OBVIOUS
    <3>2. \A r : r \in first <=> r = row /\ \E c \in Ops(cs, "create") : c.kind = "table"
      OBVIOUS
    <3>. HIDE DEF row, first
    <3>. QED
      BY <3>1, <3>2
  <2>. HIDE DEF added, first
  <2>. QED
    BY <2>1, <2>2, <2>3 DEF ColumnsOf
<1>5. (\E c \in Ops(cs, "create") : c.kind = "table") => ~ KnownId(catalog_id(cs, info, "table"), info)
  BY <1>1, NewIds
<1>6. CASE \E c \in Ops(cs, "create") : c.kind = "table" /\ i.table = catalog_id(cs, info, "table")
                                        /\ i.columns = {1}
  <2>1. ~ KnownId(i.table, info) /\ i.table = catalog_id(cs, info, "table")
        /\ \E c \in Ops(cs, "create") : c.kind = "table"
    BY <1>5, <1>6
  <2>2. ColumnsOf(C, i.table) = {}
    BY <1>3, <2>1 DEF ColumnsOf
  <2>3. \A c \in Ops(cs, "add_column") : c.id # i.table
    BY <1>2, <2>1 DEF Ops
  <2>4. ASSUME NEW n PROVE n \in ColumnsOf(Live(new.columns), i.table) <=> n = 1
    BY <1>1, <1>4, <2>1, <2>2, <2>3, LiveColumnsAfter
  <2>. QED
    BY <1>6, <2>4
<1>7. ASSUME NEW c \in cs, c.op \in AlterOps, i.table = c.id, i.columns = tx_columns(cs, cat, c.id)
      PROVE  i.columns = ColumnsOf(Live(new.columns), i.table)
  <2>1. ColumnsOf(C, c.id) = ColumnsOf(cat.columns, c.id)
    BY <1>1, <1>7 DEF ColumnsAgree
  <2>2. ~ dropped_table(cs, c.id)
    BY <1>1, <1>7, AlteredIsNotDropped
  <2>3. KnownId(c.id, info)
    BY <1>2
  <2>4. ASSUME NEW n
        PROVE  n \in ColumnsOf(AddedColumns(cs, info), c.id) <=>
                  \E d \in Ops(cs, "add_column") : d.id = c.id /\ d.n = n
    BY <1>4, <1>5, <2>3
  <2>5. ASSUME NEW n
        PROVE  n \in tx_columns(cs, cat, c.id) <=>
                  /\ \/ n \in ColumnsOf(cat.columns, c.id)
                     \/ \E d \in Ops(cs, "add_column") : d.id = c.id /\ d.n = n
                  /\ \A d \in Ops(cs, "remove_column") : ~ (d.id = c.id /\ d.n = n)
    BY DEF tx_columns
  <2>6. \A d \in Ops(cs, "add_column"), e \in Ops(cs, "remove_column") : d.id = e.id => d.n # e.n
    BY DEF AddsNew
  <2>7. ASSUME NEW n
        PROVE  n \in tx_columns(cs, cat, c.id) <=> n \in ColumnsOf(Live(new.columns), c.id)
    <3>1. n \in ColumnsOf(Live(new.columns), c.id) <=>
            \/ n \in ColumnsOf(AddedColumns(cs, info), c.id)
            \/ /\ n \in ColumnsOf(C, c.id) /\ ~ dropped_table(cs, c.id)
               /\ \A d \in Ops(cs, "remove_column") : ~ (d.id = c.id /\ d.n = n)
      BY <1>1, LiveColumnsAfter
    <3>. QED
      BY <2>1, <2>2, <2>4, <2>5, <2>6, <3>1
  <2>8. tx_columns(cs, cat, c.id) = ColumnsOf(Live(new.columns), c.id)
    <3>1. tx_columns(cs, cat, c.id) \subseteq ColumnsOf(Live(new.columns), c.id)
      BY <2>7
    <3>2. ColumnsOf(Live(new.columns), c.id) \subseteq tx_columns(cs, cat, c.id)
      BY <2>7
    <3>. QED
      BY <3>1, <3>2
  <2>. QED
    BY <1>7, <2>8
<1>8. ASSUME NEW id \in table_refs_with_schema_changes(cs)
      PROVE  \E c \in cs : c.op \in AlterOps /\ c.id = id
  <2>1. \A c \in cs : c.op # "rename"
    BY DEF NoneRenamed, Ops
  <2>. QED
    BY <2>1 DEF table_refs_with_schema_changes, AlterOps
<1>9. \/ \E id \in table_refs_with_schema_changes(cs) : i.table = id /\ i.columns = tx_columns(cs, cat, id)
      \/ \E c \in Ops(cs, "create") : c.kind = "table" /\ i.table = catalog_id(cs, info, "table")
                                      /\ i.columns = {1}
  BY DEF new_inline
<1>. QED
  BY <1>6, <1>7, <1>8, <1>9

(* Creating an inlined data table takes a new schema version.              *)
LEMMA NewInlineVersion ==
    ASSUME NEW cs, NEW info \in Info, NEW cat, NEW i \in new_inline(cs, info, cat)
    PROVE  changes_schema(cs) /\ i.schema_version = NewSnapshot(cs, info).schema_version
<1>1. \A c \in cs :
         c.op \in {"rename", "add_column", "remove_column", "set", "unset", "create"} => changes_schema(cs)
  BY DEF changes_schema, WriteOps
<1>2. changes_schema(cs)
  BY <1>1 DEF new_inline, table_refs_with_schema_changes, Ops
<1>3. i.schema_version = NewSnapshot(cs, info).schema_version
  BY DEF new_inline
<1>. QED
  BY <1>2, <1>3

(* A commit leaves the inlined data tables matching.                       *)
LEMMA InlineAfterCommit ==
    ASSUME IndInv, RowInv, RetryInv, StagedInv, NoRenames, InlineTablesMatchSchema,
           NEW t \in Tx, PersistOk(t)
    PROVE  InlineTablesMatchSchema'
<1>1. PICK k, new :
         /\ AtHead(t) /\ Commits(t, k, new) /\ lake' = new
         /\ snapshots' = snapshots \union {NewSnapshot(changes[t], latest[t])}
         /\ NewSnapshot(changes[t], latest[t]).id = k
  BY PersistOkFacts
<1>2. PICK n : n = NewSnapshot(changes[t], latest[t])
  OBVIOUS
<1>3. snapshots' = snapshots \union {n} /\ n.id = k
  BY <1>1, <1>2
<1>4. latest[t] = Head /\ Head \in Info /\ Head \in snapshots /\ HeadId = Head.id /\ HeadId \in Nat
      /\ k = HeadId + 1 /\ WholeLake(lake, HeadId)
  BY <1>1, Numbers DEF AtHead, Commits
<1>5. AddsNew(changes[t]) /\ NoneRenamed(changes[t])
  BY DEF PersistOk, StagedInv, TxStaged, Staged, Committing
<1>6. new.inline = lake.inline \union new_inline(changes[t], Head, catalog[t])
  <2>1. new = persist(lake, changes[t], Head, catalog[t], stats[t])
    BY <1>1, <1>4 DEF PersistOk
  <2>. QED
    BY <2>1 DEF persist
<1>7. ASSUME NEW s \in snapshots
      PROVE  /\ s.id \in Nat /\ s.id < k
             /\ s.schema_version \in Nat /\ s.schema_version <= Head.schema_version
  <2>1. s.id <= HeadId /\ s \in Info
    BY HeadFacts DEF IndInv, DbInv, TypeOK
  <2>2. s.schema_version <= Head.schema_version
    BY <1>4, <2>1 DEF RowInv, VersionsOrdered
  <2>. QED
    BY <1>4, <2>1, <2>2 DEF Info
<1>8. Head.schema_version \in Nat
  BY <1>4 DEF Info
<1>9. ASSUME NEW i \in new_inline(changes[t], Head, catalog[t])
      PROVE  i.schema_version = Head.schema_version + 1 /\ i.columns = ColumnsOf(Visible(new.columns, k), i.table)
  <2>1. i.schema_version = Head.schema_version + 1
    <3>1. Head \in Info
      BY <1>4
    <3>2. changes_schema(changes[t]) /\ i.schema_version = NewSnapshot(changes[t], Head).schema_version
      BY <3>1, NewInlineVersion
    <3>. QED
      BY <3>2 DEF NewSnapshot
  <2>2. i.columns = ColumnsOf(Live(new.columns), i.table)
    BY <1>1, <1>4, <1>5, NewInlineMatches
  <2>3. Visible(new.columns, k) = Live(new.columns)
    BY <1>1, PresentAfter
  <2>. QED
    BY <2>1, <2>2, <2>3
<1>10. ASSUME NEW s \in snapshots, NEW i \in new.inline, i.schema_version = s.schema_version
       PROVE  i.columns = ColumnsOf(Visible(new.columns, s.id), i.table)
  <2>1. i \in lake.inline
    <3>1. s.schema_version # Head.schema_version + 1
      BY <1>7, <1>8
    <3>2. i \notin new_inline(changes[t], Head, catalog[t])
      BY <1>9, <1>10, <3>1
    <3>. QED
      BY <1>6, <3>2
  <2>2. i.columns = ColumnsOf(Visible(lake.columns, s.id), i.table)
    BY <1>10, <2>1 DEF InlineTablesMatchSchema, InlineMatches
  <2>3. SeenAsBefore(new, lake, s.id)
    BY <1>1, <1>7, PastAfter
  <2>4. ColumnsOf(Visible(new.columns, s.id), i.table) = ColumnsOf(Visible(lake.columns, s.id), i.table)
    <3>1. /\ Mirrors(Visible(new.columns, s.id), Visible(lake.columns, s.id), ColumnFields)
          /\ Mirrors(Visible(new.attributes, s.id), Visible(lake.attributes, s.id), AttributeFields)
      BY <2>3 DEF SeenAsBefore
    <3>. QED
      BY <3>1, MirrorsColumns
  <2>. QED
    BY <2>2, <2>4
<1>11. ASSUME NEW i \in new.inline, i.schema_version = n.schema_version
       PROVE  i.columns = ColumnsOf(Visible(new.columns, n.id), i.table)
  <2>1. CASE i \in new_inline(changes[t], Head, catalog[t])
    BY <1>3, <1>9, <2>1
  <2>2. CASE i \in lake.inline
    <3>1. i.schema_version \in Int /\ i.schema_version <= Head.schema_version
      BY <2>2 DEF RetryInv, UsedBelowHead
    <3>2. ~ changes_schema(changes[t]) /\ n.schema_version = Head.schema_version
      BY <1>2, <1>4, <1>8, <1>11, <3>1 DEF NewSnapshot
    <3>3. Live(new.columns) = Live(lake.columns)
      <4>1. HitColumns(lake.columns, changes[t]) = {} /\ AddedColumns(changes[t], latest[t]) = {}
        BY <1>4, <3>2, WritesLeaveCatalog
      <4>2. Live(new.columns) = {r \in Live(lake.columns) : ~ retires_column(changes[t], r)}
                                  \union AddedColumns(changes[t], latest[t])
        BY <1>1 DEF Commits, LiveAfter
      <4>. QED
        BY <4>1, <4>2 DEF HitColumns, Live
    <3>4. Visible(new.columns, k) = Live(new.columns) /\ Visible(lake.columns, HeadId) = Live(lake.columns)
      BY <1>1, <1>4, PresentAfter, LiveIsVisible DEF WholeLake
    <3>5. i.columns = ColumnsOf(Visible(lake.columns, Head.id), i.table)
      BY <1>4, <1>11, <2>2, <3>2 DEF InlineTablesMatchSchema, InlineMatches
    <3>. QED
      BY <1>3, <1>4, <3>3, <3>4, <3>5
  <2>. QED
    BY <1>6, <2>1, <2>2
<1>12. \A s \in snapshots \union {n} : InlineMatches(new, s)
  BY <1>10, <1>11 DEF InlineMatches
<1>. QED
  BY <1>1, <1>3, <1>12 DEF InlineTablesMatchSchema

(* Every step does.                                                        *)
LEMMA InlineNext ==
    ASSUME IndInv, RowInv, RetryInv, StagedInv, SafeRetention, NoRenames, InlineTablesMatchSchema, [Next]_vars
    PROVE  InlineTablesMatchSchema'
<1>1. CASE UNCHANGED <<snapshots, lake>>
  BY <1>1 DEF InlineTablesMatchSchema, InlineMatches
<1>2. CASE ExpireSnapshots
  <2>1. PICK ids, new :
           /\ snapshots' \subseteq snapshots /\ Ids(snapshots') = ids
           /\ lake' = new /\ new = ExpireRows(lake, ids)
           /\ \A s \in ids : SeenAlike(new, lake, s)
    BY <1>2, ExpireFacts
  <2>2. new.inline \subseteq lake.inline
    BY <2>1 DEF ExpireRows
  <2>3. ASSUME NEW s \in snapshots' PROVE InlineMatches(new, s)
    <3>1. s \in snapshots /\ Visible(new.columns, s.id) = Visible(lake.columns, s.id)
      BY <2>1 DEF Ids, SeenAlike
    <3>2. InlineMatches(lake, s)
      BY <3>1 DEF InlineTablesMatchSchema
    <3>. QED
      BY <2>2, <3>1, <3>2 DEF InlineMatches
  <2>. QED
    BY <2>1, <2>3 DEF InlineTablesMatchSchema
<1>. QED
  BY <1>1, <1>2, InlineAfterCommit, LakeSteps

-----------------------------------------------------------------------------
(* The theorems about inlined data tables and column IDs.                  *)

(* All invariants together.                                                *)
THEOREM StagedInvariance ==
    ASSUME SafeRetention
    PROVE  Spec => [](IndInv /\ RowInv /\ RetryInv /\ StagedInv)
<1>1. Init => StagedInv
  BY StagedInit
<1>2. IndInv /\ RowInv /\ StagedInv /\ [Next]_vars => StagedInv'
  BY StagedNext
<1>. QED
  BY <1>1, <1>2, RowInvariance, RetryInvariance, PTL DEF Spec

(* An inlined data table has the columns its table has in every snapshot   *)
(* of its schema version, if no table is renamed.                          *)
THEOREM InlineTablesMatch ==
    ASSUME SafeRetention, NoRenames
    PROVE  Spec => []InlineTablesMatchSchema
<1>1. Init => InlineTablesMatchSchema
  BY InitialDataAssumption DEF Init, InlineTablesMatchSchema
<1>2. /\ IndInv /\ RowInv /\ RetryInv /\ StagedInv /\ InlineTablesMatchSchema /\ [Next]_vars
      => InlineTablesMatchSchema'
  BY InlineNext
<1>. QED
  BY <1>1, <1>2, StagedInvariance, PTL DEF Spec

-----------------------------------------------------------------------------
(* What a commit reports as persisted is there.                            *)

(* Each change takes effect on the rows that live on, except that a rename *)
(* may find its table gone.                                                *)
LEMMA ChangesLive ==
    ASSUME IndInv, NEW t \in Tx, NEW k, NEW new, Commits(t, k, new), AddsNew(changes[t]),
           NEW c \in changes[t], c.op # "rename"
    PROVE  TookEffect(c, k, new)
<1> DEFINE cs == changes[t]
           info == latest[t]
           cat == catalog[t]
           L == Live(lake.objects)
           N == Live(new.objects)
<1>1. /\ ProperChanges(cs, cat, info) /\ info \in Info /\ k = info.id + 1
      /\ Agrees(cat, L, cs, info) /\ MadeOf(N, L, cs, info, cat)
      /\ Live(new.columns) = {r \in Live(lake.columns) : ~ retires_column(cs, r)}
                               \union AddedColumns(cs, info)
      /\ Live(new.attributes) = {r \in Live(lake.attributes) : ~ retires_attribute(cs, r)}
                                  \union AddedAttributes(cs, info)
  BY DEF Commits, LiveAfter
<1>2. /\ Visible(new.objects, k) = N
      /\ Visible(new.columns, k) = Live(new.columns)
      /\ Visible(new.attributes, k) = Live(new.attributes)
  BY PresentAfter
<1>3. Sound(c, cat) /\ \A d \in cs : KnownId(d.id, info)
  BY <1>1 DEF ProperChanges, KnownChanges, KnownChange
<1>4. \A d \in Ops(cs, "create") : ~ KnownId(catalog_id(cs, info, d.kind), info)
  BY <1>1, NewIds
<1>. HIDE DEF cs, info, cat, L, N
<1>5. CASE c.op = "create"
  <2>1. c \in Ops(cs, "create")
    BY <1>5 DEF Ops, cs
  <2>2. PICK x \in N : IsNew(x, c, cs, info, cat)
    BY <1>1, <2>1 DEF MadeOf
  <2>3. x.kind = c.kind /\ x.name = c.name /\ x.begin = k
    BY <1>1, <2>2 DEF IsNew, NewObject
  <2>. QED
    BY <1>2, <1>5, <2>3 DEF TookEffect
<1>6. CASE c.op = "delete"
  <2>1. c \in Ops(cs, "delete")
    BY <1>6 DEF Ops, cs
  <2>2. PICK q \in cat.objects : q.kind = c.kind /\ q.id = c.id
    BY <1>3, <1>6 DEF Sound
  <2>3. ASSUME NEW x \in N, x.id = c.id PROVE FALSE
    <3>1. CASE IsKept(x, L, cs)
      <4>1. x.kind = c.kind
        BY <1>1, <2>2, <2>3, <3>1 DEF Agrees, IdsNameOne, IsKept
      <4>. QED
        BY <2>1, <2>3, <3>1, <4>1 DEF IsKept, dropped
    <3>2. ASSUME NEW r, NEW d, IsCopy(x, r, d, L, cs, info) PROVE FALSE
      <4>1. r \in L /\ d \in Ops(cs, "rename") /\ r.kind = "table" /\ r.id = d.id /\ r.id = c.id
        BY <2>3, <3>2 DEF IsCopy, Renames, Same
      <4>2. c.kind = "table"
        BY <1>1, <2>2, <4>1 DEF Agrees, IdsNameOne
      <4>3. d \in cs /\ d # c /\ d.kind = "table"
        BY <1>1, <1>6, <4>1 DEF Ops, ProperChanges, Sound
      <4>4. ~ Affects(d, c.kind, c.id)
        BY <1>1, <2>1, <4>3 DEF ProperChanges, Accepted
      <4>. QED
        BY <4>1, <4>2, <4>3, <4>4 DEF Affects
    <3>3. ASSUME NEW d, IsNew(x, d, cs, info, cat) PROVE FALSE
      BY <1>3, <1>4, <2>3, <3>3 DEF IsNew, cs
    <3>. QED
      BY <1>1, <3>1, <3>2, <3>3 DEF MadeOf
  <2>. QED
    BY <1>2, <1>6, <2>3 DEF TookEffect
<1>7. CASE c.op = "add_column"
  <2> DEFINE row == [table |-> c.id, column |-> c.n, begin |-> info.id + 1, end |-> NULL]
  <2>1. c \in Ops(cs, "add_column")
    BY <1>7 DEF Ops, cs
  <2>2. row \in AddedColumns(cs, info)
    BY <2>1 DEF AddedColumns
  <2>3. row.table = c.id /\ row.column = c.n
    OBVIOUS
  <2>. HIDE DEF row
  <2>. QED
    BY <1>1, <1>2, <1>7, <2>2, <2>3 DEF TookEffect
<1>8. CASE c.op = "remove_column"
  <2>1. c \in Ops(cs, "remove_column")
    BY <1>8 DEF Ops, cs
  <2>2. ASSUME NEW r \in AddedColumns(cs, info), r.table = c.id PROVE r.column # c.n
    <3>1. \/ \E d \in Ops(cs, "add_column") : r.table = d.id /\ r.column = d.n
          \/ \E d \in Ops(cs, "create") : d.kind = "table" /\ r.table = catalog_id(cs, info, "table")
      BY DEF AddedColumns
    <3>2. \A d \in Ops(cs, "create") : d.kind = "table" => catalog_id(cs, info, "table") # c.id
      BY <1>3, <1>4 DEF cs
    <3>3. \A d \in Ops(cs, "add_column") : d.id = c.id => d.n # c.n
      BY <2>1 DEF AddsNew, cs
    <3>. QED
      BY <2>2, <3>1, <3>2, <3>3
  <2>3. ASSUME NEW r, ~ retires_column(cs, r), r.table = c.id PROVE r.column # c.n
    BY <2>1, <2>3 DEF retires_column
  <2>. QED
    BY <1>1, <1>2, <1>8, <2>2, <2>3 DEF TookEffect
<1>9. CASE c.op = "set"
  <2> DEFINE row == [table |-> c.id, key |-> c.kind,
                     id |-> IF c.kind \in Indexed THEN catalog_id(cs, info, c.kind) ELSE NoId,
                     column |-> c.n, begin |-> info.id + 1, end |-> NULL]
  <2>1. c \in Ops(cs, "set")
    BY <1>9 DEF Ops, cs
  <2>2. row \in AddedAttributes(cs, info)
    BY <2>1 DEF AddedAttributes
  <2>3. row.table = c.id /\ row.begin = k
    BY <1>1
  <2>. HIDE DEF row
  <2>. QED
    BY <1>1, <1>2, <1>9, <2>2, <2>3 DEF TookEffect
<1>10. CASE c.op = "unset"
  <2>1. c \in Ops(cs, "unset")
    BY <1>10 DEF Ops, cs
  <2>2. ASSUME NEW r \in AddedAttributes(cs, info), r.table = c.id PROVE r.key # c.kind
    <3>1. PICK d \in Ops(cs, "set") : r.table = d.id /\ r.key = d.kind
      BY DEF AddedAttributes
    <3>2. <<d.kind, d.id>> # <<c.kind, c.id>>
      BY <1>1, <2>1, <3>1 DEF ProperChanges, Accepted
    <3>. QED
      BY <2>2, <3>1, <3>2
  <2>3. ASSUME NEW r, ~ retires_attribute(cs, r), r.table = c.id PROVE r.key # c.kind
    BY <2>1, <2>3 DEF retires_attribute
  <2>. QED
    BY <1>1, <1>2, <1>10, <2>2, <2>3 DEF TookEffect
<1>11. CASE c.op \in WriteOps
  <2>1. TableIn(N, table_id(cs, info, c))
    BY <1>1, <1>11, TablesAfter DEF cs
  <2>2. c.id = Pending \/ \E r \in N : r.id = c.id
    BY <2>1 DEF TableIn, table_id
  <2>. QED
    BY <1>2, <1>11, <2>2 DEF TookEffect, WriteOps
<1>. QED
  BY <1>3, <1>5, <1>6, <1>7, <1>8, <1>9, <1>10, <1>11 DEF Sound, AlterOps

(* Only a successful attempt ends as committed.                            *)
LEMMA CommittedByPersisting ==
    ASSUME IndInv, [Next]_vars, NEW t \in Tx, pc[t] = "persist", pc'[t] = "committed"
    PROVE  PersistOk(t)
<1>1. pc' # pc /\ DOMAIN pc = Tx
  BY DEF IndInv, TypeOK
<1>2. PICK u \in Tx : Step(u)
  BY <1>1 DEF Next, vars, txVars, ExpireSnapshots
<1>3. u = t
  BY <1>1, <1>2 DEF Step, Begin, LoadCatalog, Commit, LoadStats, BeginPersist, PersistOk, PersistRetry,
                    PersistError, Refresh, CheckConflict, EndAttempt, Goto
<1>. QED
  BY <1>1, <1>2, <1>3 DEF Step, Begin, LoadCatalog, Commit, LoadStats, BeginPersist, PersistRetry,
                          PersistError, Refresh, CheckConflict, EndAttempt, Goto

(* Every change of a committed transaction is visible in its snapshot.     *)
LEMMA EffectsNext ==
    ASSUME IndInv, RowInv, StagedInv, NoRenames, [Next]_vars,
           NEW t \in Tx, pc[t] = "persist", pc'[t] = "committed", NEW c \in changes[t]
    PROVE  TookEffect(c, latest[t].id + 1, lake')
<1>1. PersistOk(t)
  BY CommittedByPersisting
<1>2. PICK k, new : Commits(t, k, new) /\ lake' = new
  BY <1>1, PersistOkFacts
<1>3. k = latest[t].id + 1
  BY <1>2 DEF Commits
<1>4. AddsNew(changes[t]) /\ c.op # "rename"
  BY DEF StagedInv, TxStaged, Staged, Committing, NoneRenamed, Ops
<1>. QED
  BY <1>2, <1>3, <1>4, ChangesLive

(* What Transaction::commit reports as persisted is there, although it was *)
(* validated in the catalog of the base and landed on the head, if no      *)
(* table is renamed.                                                       *)
THEOREM CommitsTakeEffect ==
    ASSUME SafeRetention, NoRenames
    PROVE  Spec => CommittedChangesTakeEffect
<1>1. IndInv /\ RowInv /\ StagedInv /\ [Next]_vars =>
         [\A t \in Tx : pc[t] = "persist" /\ pc'[t] = "committed" =>
             \A c \in changes[t] : TookEffect(c, latest[t].id + 1, lake')]_vars
  BY EffectsNext
<1>. QED
  BY <1>1, StagedInvariance, PTL DEF Spec, CommittedChangesTakeEffect

-----------------------------------------------------------------------------
(* Row IDs and statistics: what one commit writes.  sts are the statistics *)
(* the attempt has read.                                                   *)

NextRow(sts, table) == StatsOf(sts, table).next_row_id

\* At most one change of each sort writes data, and every write has rows.
ProperWrites(cs, cat, info) == ProperChanges(cs, cat, info) /\ SomeWritten(cs)

\* A row a commit writes: it lies between the row IDs used before and the ones
\* the commit leaves to the next.
Placed(r, cs, info, sts) ==
    /\ \E c \in cs : c.op \in WriteOps /\ r.table = table_id(cs, info, c)
    /\ {"row_id_start", "rows"} \subseteq DOMAIN r /\ r.rows \in Nat /\ r.rows > 0
    /\ \E off \in Nat :
          /\ r.row_id_start = NextRow(sts, r.table) + off
          /\ off + r.rows <= RowsWritten(cs, info, r.table)

AddedInlined(cs, info, sts) ==
    {[table |-> table_id(cs, info, c),
      row_id_start |-> NextRow(sts, table_id(cs, info, c)) + RowsBefore(cs, c),
      rows |-> c.n,
      begin |-> info.id + 1,
      end |-> NULL] : c \in Ops(cs, "write_inline")}

(* Distinct references are references to distinct tables.                  *)
LEMMA TableIdsDiffer ==
    ASSUME NEW cs, NEW info \in Info, NEW cat, ProperChanges(cs, cat, info),
           NEW c \in cs, NEW d \in cs
    PROVE  table_id(cs, info, c) = table_id(cs, info, d) <=> c.id = d.id
<1>1. KnownId(c.id, info) /\ KnownId(d.id, info)
  BY DEF ProperChanges, KnownChanges, KnownChange
<1>2. ASSUME NEW e \in cs, e.id = Pending
      PROVE  ~ KnownId(catalog_id(cs, info, "table"), info)
  <2>1. "table" \in CreatedKinds(cs)
    BY <1>2 DEF ProperChanges, KnownChanges
  <2>2. PICK x \in Ops(cs, "create") : x.kind = "table"
    BY <2>1 DEF CreatedKinds
  <2>3. ~ KnownId(catalog_id(cs, info, x.kind), info)
    BY NewIds
  <2>. QED
    BY <2>2, <2>3
<1>. QED
  BY <1>1, <1>2 DEF table_id

(* One change of each sort writes data.                                    *)
LEMMA WritesAreSingle ==
    ASSUME NEW cs, NEW info, NEW cat, ProperChanges(cs, cat, info),
           NEW op \in WriteOps, NEW c \in Ops(cs, op), NEW d \in Ops(cs, op)
    PROVE  c = d
BY DEF ProperChanges, Accepted, Ops

(* How many rows of a table are written.                                   *)
LEMMA RowsCounted ==
    ASSUME NEW cs, NEW info \in Info, NEW cat, ProperWrites(cs, cat, info), NEW c \in cs
    PROVE  /\ c.op = "write_files" => /\ FileCount(cs) = c.n /\ c.n \in Nat /\ c.n > 0
                                      /\ RowsWritten(cs, info, table_id(cs, info, c)) \in Nat
                                      /\ c.n <= RowsWritten(cs, info, table_id(cs, info, c))
           /\ c.op = "write_inline" => /\ RowsBefore(cs, c) \in Nat /\ c.n \in Nat /\ c.n > 0
                                       /\ RowsWritten(cs, info, table_id(cs, info, c)) = RowsBefore(cs, c) + c.n
<1> DEFINE T == table_id(cs, info, c)
           writes == {d \in cs : d.op \in WriteOps /\ table_id(cs, info, d) = T}
           count(op) == IF Ops(writes, op) = {} THEN 0 ELSE (CHOOSE d \in Ops(writes, op) : TRUE).n
<1>0. ProperChanges(cs, cat, info) /\ SomeWritten(cs)
  BY DEF ProperWrites
<1>1. RowsWritten(cs, info, T) = count("write_files") + count("write_inline")
  BY DEF RowsWritten
<1>2. \A op \in WriteOps : Ops(writes, op) \subseteq Ops(cs, op)
  BY DEF Ops
<1>3. \A op \in WriteOps : \A d \in Ops(cs, op) : d \in cs /\ d.n \in Nat /\ d.n > 0
  BY <1>0 DEF Ops, SomeWritten
<1>4. ASSUME NEW op \in WriteOps, NEW d \in Ops(cs, op), table_id(cs, info, d) = T
      PROVE  count(op) = d.n
  <2>1. d \in Ops(writes, op)
    BY <1>4 DEF Ops
  <2>2. PICK e \in Ops(writes, op) : e = (CHOOSE x \in Ops(writes, op) : TRUE)
    BY <2>1
  <2>3. e \in Ops(cs, op)
    BY <1>2
  <2>4. e = d
    BY <1>0, <2>3, WritesAreSingle
  <2>. QED
    BY <2>1, <2>2, <2>4
<1>5. ASSUME NEW op \in WriteOps, \A d \in Ops(cs, op) : table_id(cs, info, d) # T
      PROVE  count(op) = 0
  BY <1>5 DEF Ops
<1>6. "write_files" \in WriteOps /\ "write_inline" \in WriteOps
  BY DEF WriteOps
<1>. HIDE DEF count
<1>7. \A op \in WriteOps : count(op) \in Nat
  BY <1>3, <1>4, <1>5
<1>8. ASSUME NEW d \in Ops(cs, "write_files") PROVE FileCount(cs) = d.n
  <2>1. PICK e \in Ops(cs, "write_files") : e = (CHOOSE x \in Ops(cs, "write_files") : TRUE)
    OBVIOUS
  <2>2. e = d
    BY <1>0, <1>6, WritesAreSingle
  <2>. QED
    BY <2>1, <2>2 DEF FileCount
<1>9. ASSUME c.op = "write_files"
      PROVE  /\ FileCount(cs) = c.n /\ c.n \in Nat /\ c.n > 0
             /\ RowsWritten(cs, info, T) \in Nat /\ c.n <= RowsWritten(cs, info, T)
  <2>1. c \in Ops(cs, "write_files")
    BY <1>9 DEF Ops
  <2>2. count("write_files") = c.n /\ FileCount(cs) = c.n /\ c.n \in Nat /\ c.n > 0
    BY <1>3, <1>4, <1>6, <1>8, <2>1
  <2>. QED
    BY <1>1, <1>6, <1>7, <2>2
<1>10. ASSUME c.op = "write_inline"
       PROVE  /\ RowsBefore(cs, c) \in Nat /\ c.n \in Nat /\ c.n > 0
              /\ RowsWritten(cs, info, T) = RowsBefore(cs, c) + c.n
  <2>1. c \in Ops(cs, "write_inline")
    BY <1>10 DEF Ops
  <2>2. count("write_inline") = c.n /\ c.n \in Nat /\ c.n > 0
    BY <1>3, <1>4, <1>6, <2>1
  <2>3. \A d \in Ops(cs, "write_files") : table_id(cs, info, d) = T <=> d.id = c.id
    BY <1>0, <1>3, <1>6, TableIdsDiffer
  <2>4. count("write_files") = RowsBefore(cs, c)
    <3>1. CASE \E d \in Ops(cs, "write_files") : d.id = c.id
      <4>1. PICK d \in Ops(cs, "write_files") : d.id = c.id
        BY <3>1
      <4>2. count("write_files") = d.n /\ FileCount(cs) = d.n
        BY <1>4, <1>6, <1>8, <2>3, <4>1
      <4>. QED
        BY <3>1, <4>2 DEF RowsBefore
    <3>2. CASE ~ \E d \in Ops(cs, "write_files") : d.id = c.id
      BY <1>5, <1>6, <2>3, <3>2 DEF RowsBefore
    <3>. QED
      BY <3>1, <3>2
  <2>5. count("write_files") \in Nat
    BY <1>6, <1>7
  <2>. QED
    BY <1>1, <2>2, <2>4, <2>5
<1>. QED
  BY <1>9, <1>10 DEF T

\* The i-th file of change c, and the rows change c inlines.
FileRow(r, c, i, cs, info, sts) ==
    /\ c \in Ops(cs, "write_files") /\ i \in Nat /\ i < c.n
    /\ DOMAIN r = {"id", "table", "row_id_start", "rows", "begin", "end"}
    /\ r.table = table_id(cs, info, c) /\ r.rows = 1
    /\ r.row_id_start = NextRow(sts, table_id(cs, info, c)) + i
    /\ r = [id |-> info.next_file_id + i,
            table |-> table_id(cs, info, c),
            row_id_start |-> StatsOf(sts, table_id(cs, info, c)).next_row_id + i,
            rows |-> 1,
            begin |-> info.id + 1,
            end |-> NULL]
InlinedRow(r, c, cs, info, sts) ==
    /\ c \in Ops(cs, "write_inline")
    /\ DOMAIN r = {"table", "row_id_start", "rows", "begin", "end"}
    /\ r.table = table_id(cs, info, c) /\ r.rows = c.n
    /\ r.row_id_start = NextRow(sts, table_id(cs, info, c)) + RowsBefore(cs, c)
    /\ r = [table |-> table_id(cs, info, c),
            row_id_start |-> NextRow(sts, table_id(cs, info, c)) + RowsBefore(cs, c),
            rows |-> c.n,
            begin |-> info.id + 1,
            end |-> NULL]

(* The new rows, by the change that writes them.                           *)
LEMMA AddedRowsAre ==
    ASSUME NEW cs, NEW info \in Info, NEW cat, ProperWrites(cs, cat, info), NEW sts
    PROVE  /\ \A r \in AddedFiles(cs, info, sts) : \E c, i : FileRow(r, c, i, cs, info, sts)
           /\ \A r \in AddedInlined(cs, info, sts) : \E c : InlinedRow(r, c, cs, info, sts)
<1>1. ASSUME NEW r \in AddedFiles(cs, info, sts) PROVE \E c, i : FileRow(r, c, i, cs, info, sts)
  <2>1. PICK c \in Ops(cs, "write_files") : \E i \in 0 .. c.n - 1 :
           r = [id |-> info.next_file_id + i,
                table |-> table_id(cs, info, c),
                row_id_start |-> StatsOf(sts, table_id(cs, info, c)).next_row_id + i,
                rows |-> 1,
                begin |-> info.id + 1,
                end |-> NULL]
    BY DEF AddedFiles
  <2>2. c.n \in Nat
    BY DEF ProperWrites, SomeWritten, Ops, WriteOps
  <2>3. PICK i \in 0 .. c.n - 1 :
           r = [id |-> info.next_file_id + i,
                table |-> table_id(cs, info, c),
                row_id_start |-> StatsOf(sts, table_id(cs, info, c)).next_row_id + i,
                rows |-> 1,
                begin |-> info.id + 1,
                end |-> NULL]
    BY <2>1
  <2>4. i \in Nat /\ i < c.n
    BY <2>2
  <2>5. /\ DOMAIN r = {"id", "table", "row_id_start", "rows", "begin", "end"}
        /\ r.table = table_id(cs, info, c) /\ r.rows = 1
        /\ r.row_id_start = NextRow(sts, table_id(cs, info, c)) + i
    BY <2>3 DEF NextRow
  <2>6. FileRow(r, c, i, cs, info, sts)
    BY <2>3, <2>4, <2>5 DEF FileRow
  <2>. QED
    BY <2>6
<1>2. ASSUME NEW r \in AddedInlined(cs, info, sts) PROVE \E c : InlinedRow(r, c, cs, info, sts)
  <2>1. PICK c \in Ops(cs, "write_inline") :
           r = [table |-> table_id(cs, info, c),
                row_id_start |-> NextRow(sts, table_id(cs, info, c)) + RowsBefore(cs, c),
                rows |-> c.n,
                begin |-> info.id + 1,
                end |-> NULL]
    BY DEF AddedInlined
  <2>2. InlinedRow(r, c, cs, info, sts)
    BY <2>1 DEF InlinedRow
  <2>. QED
    BY <2>2
<1>. QED
  BY <1>1, <1>2

(* They continue where the statistics leave off.                           *)
LEMMA AddedRowsPlaced ==
    ASSUME NEW cs, NEW info \in Info, NEW cat, ProperWrites(cs, cat, info), NEW sts,
           NEW r \in AddedFiles(cs, info, sts) \union AddedInlined(cs, info, sts)
    PROVE  Placed(r, cs, info, sts)
<1>1. ASSUME NEW c, NEW i, FileRow(r, c, i, cs, info, sts) PROVE Placed(r, cs, info, sts)
  <2>1. c \in cs /\ c.op = "write_files" /\ c.op \in WriteOps /\ i \in Nat /\ i < c.n
    BY <1>1 DEF FileRow, Ops, WriteOps
  <2>2. c.n \in Nat /\ RowsWritten(cs, info, table_id(cs, info, c)) \in Nat
        /\ c.n <= RowsWritten(cs, info, table_id(cs, info, c))
    BY <2>1, RowsCounted
  <2>3. /\ r.table = table_id(cs, info, c) /\ r.rows = 1 /\ {"row_id_start", "rows"} \subseteq DOMAIN r
        /\ r.row_id_start = NextRow(sts, r.table) + i
    BY <1>1 DEF FileRow
  <2>4. i + r.rows <= RowsWritten(cs, info, r.table)
    BY <2>1, <2>2, <2>3
  <2>. QED
    BY <2>1, <2>3, <2>4 DEF Placed
<1>2. ASSUME NEW c, InlinedRow(r, c, cs, info, sts) PROVE Placed(r, cs, info, sts)
  <2>1. c \in cs /\ c.op = "write_inline" /\ c.op \in WriteOps
    BY <1>2 DEF InlinedRow, Ops, WriteOps
  <2>2. RowsBefore(cs, c) \in Nat /\ c.n \in Nat /\ c.n > 0
        /\ RowsWritten(cs, info, table_id(cs, info, c)) = RowsBefore(cs, c) + c.n
    BY <2>1, RowsCounted
  <2>3. /\ r.table = table_id(cs, info, c) /\ r.rows = c.n /\ {"row_id_start", "rows"} \subseteq DOMAIN r
        /\ r.row_id_start = NextRow(sts, r.table) + RowsBefore(cs, c)
    BY <1>2 DEF InlinedRow
  <2>4. RowsBefore(cs, c) + r.rows <= RowsWritten(cs, info, r.table)
    BY <2>2, <2>3
  <2>. QED
    BY <2>1, <2>2, <2>3, <2>4 DEF Placed
<1>. QED
  BY <1>1, <1>2, AddedRowsAre

(* They do not overlap: the files of a set come one after another, and the *)
(* inlined rows after them.                                                *)
LEMMA AddedRowsDisjoint ==
    ASSUME NEW cs, NEW info \in Info, NEW cat, ProperWrites(cs, cat, info), NEW sts,
           \A c \in cs : c.op \in WriteOps => NextRow(sts, table_id(cs, info, c)) \in Nat
    PROVE  RangesDisjoint(AddedFiles(cs, info, sts) \union AddedInlined(cs, info, sts))
<1> DEFINE F == AddedFiles(cs, info, sts)
           I == AddedInlined(cs, info, sts)
<1>0. ProperChanges(cs, cat, info) /\ "write_files" \in WriteOps /\ "write_inline" \in WriteOps
  BY DEF ProperWrites, WriteOps
<1>1. ASSUME NEW q \in F, NEW r \in F, q # r, q.row_id_start <= r.row_id_start
      PROVE  q.row_id_start + q.rows <= r.row_id_start
  <2>1. PICK c, i : FileRow(q, c, i, cs, info, sts)
    BY AddedRowsAre
  <2>2. PICK d, j : FileRow(r, d, j, cs, info, sts)
    BY AddedRowsAre
  <2>3. c \in Ops(cs, "write_files") /\ d \in Ops(cs, "write_files")
    BY <2>1, <2>2 DEF FileRow
  <2>4. c = d
    BY <1>0, <2>3, WritesAreSingle
  <2>5. i # j
    BY <1>1, <2>1, <2>2, <2>4 DEF FileRow
  <2>6. PICK m : m = NextRow(sts, table_id(cs, info, c))
    OBVIOUS
  <2>7. m \in Nat
    BY <1>0, <2>3, <2>6 DEF Ops
  <2>8. q.row_id_start = m + i /\ r.row_id_start = m + j /\ q.rows = 1 /\ i \in Nat /\ j \in Nat
    BY <2>1, <2>2, <2>4, <2>6 DEF FileRow
  <2>. QED
    BY <1>1, <2>5, <2>7, <2>8
<1>2. ASSUME NEW q \in F, NEW r \in I, q.table = r.table
      PROVE  q.row_id_start + q.rows <= r.row_id_start /\ ~ (r.row_id_start <= q.row_id_start)
  <2>1. PICK c, i : FileRow(q, c, i, cs, info, sts)
    BY AddedRowsAre
  <2>2. PICK d : InlinedRow(r, d, cs, info, sts)
    BY AddedRowsAre
  <2>3. /\ c \in Ops(cs, "write_files") /\ c \in cs /\ c.op = "write_files" /\ d \in cs
        /\ d.op = "write_inline"
    BY <2>1, <2>2 DEF FileRow, InlinedRow, Ops
  <2>4. table_id(cs, info, c) = table_id(cs, info, d)
    BY <1>2, <2>1, <2>2 DEF FileRow, InlinedRow
  <2>5. c.id = d.id
    BY <1>0, <2>3, <2>4, TableIdsDiffer
  <2>6. RowsBefore(cs, d) = FileCount(cs) /\ FileCount(cs) = c.n /\ c.n \in Nat
    BY <2>3, <2>5, RowsCounted DEF RowsBefore
  <2>7. PICK m : m = NextRow(sts, table_id(cs, info, c))
    OBVIOUS
  <2>8. m \in Nat
    BY <1>0, <2>3, <2>7
  <2>9. /\ q.row_id_start = m + i /\ r.row_id_start = m + c.n /\ q.rows = 1 /\ i \in Nat /\ i < c.n
    BY <2>1, <2>2, <2>4, <2>6, <2>7 DEF FileRow, InlinedRow
  <2>. QED
    BY <2>6, <2>8, <2>9
<1>3. ASSUME NEW q \in I, NEW r \in I PROVE q = r
  <2>1. PICK c : InlinedRow(q, c, cs, info, sts)
    BY AddedRowsAre
  <2>2. PICK d : InlinedRow(r, d, cs, info, sts)
    BY AddedRowsAre
  <2>3. c = d
    BY <1>0, <2>1, <2>2, WritesAreSingle DEF InlinedRow
  <2>. QED
    BY <2>1, <2>2, <2>3 DEF InlinedRow
<1>. HIDE DEF F, I
<1>4. RangesDisjoint(F \union I)
  BY <1>1, <1>2, <1>3 DEF RangesDisjoint
<1>. QED
  BY <1>4 DEF F, I

\* The attempt has read the statistics of the tables it writes as they are.
ReadsCurrent(sts, S, cs, info) ==
    \A c \in cs : c.op \in WriteOps =>
        \A s : s.table = table_id(cs, info, c) => (s \in sts <=> s \in S)

Writes(cs, info, table) == \E c \in cs : c.op \in WriteOps /\ table_id(cs, info, c) = table

(* What a writer finds: the row of its table, or that there is none.       *)
LEMMA StatsRead ==
    ASSUME NEW cs, NEW info, NEW sts, NEW S, ReadsCurrent(sts, S, cs, info), StatsSingle(S),
           NEW table, Writes(cs, info, table)
    PROVE  /\ (\E s \in sts : s.table = table) <=> \E s \in S : s.table = table
           /\ NextRow(sts, table) \in Nat
           /\ \A s \in S : s.table = table => NextRow(sts, table) = s.next_row_id
<1>1. \A s : s.table = table => (s \in sts <=> s \in S)
  BY DEF ReadsCurrent, Writes
<1>2. CASE \E s \in S : s.table = table
  <2>1. \E s \in sts : s.table = table
    BY <1>1, <1>2
  <2>2. PICK r \in sts : r.table = table /\ r = StatsOf(sts, table)
    BY <2>1 DEF StatsOf
  <2>3. r \in S
    BY <1>1, <2>2
  <2>. QED
    BY <1>2, <2>1, <2>2, <2>3 DEF NextRow, StatsSingle
<1>3. CASE ~ \E s \in S : s.table = table
  <2>1. ~ \E s \in sts : s.table = table
    BY <1>1, <1>3
  <2>2. NextRow(sts, table) = 0
    BY <2>1 DEF NextRow, StatsOf
  <2>. QED
    BY <1>3, <2>1, <2>2
<1>. QED
  BY <1>2, <1>3

NewStat(cs, info, sts, table) ==
    [table |-> table,
     next_row_id |-> StatsOf(sts, table).next_row_id + RowsWritten(cs, info, table),
     record_count |-> StatsOf(sts, table).record_count + RowsWritten(cs, info, table)]

(* persist_statistics: the rows of written tables are replaced or          *)
(* inserted, the others stay.                                              *)
LEMMA StatsAfter ==
    ASSUME NEW cs, NEW info, NEW sts, NEW S, ReadsCurrent(sts, S, cs, info), StatsSingle(S),
           NEW N, N = persist_statistics(S, cs, info, sts)
    PROVE  /\ \A s \in N : \/ s \in S /\ ~ Writes(cs, info, s.table)
                           \/ Writes(cs, info, s.table) /\ s = NewStat(cs, info, sts, s.table)
           /\ \A s \in S : ~ Writes(cs, info, s.table) => s \in N
           /\ \A table : Writes(cs, info, table) => NewStat(cs, info, sts, table) \in N
<1> DEFINE W == written_tables(cs, info)
           updated == {x \in W : \E r \in sts : r.table = x}
           Fresh == new_stats(cs, info, sts)
<1>1. \A x : x \in W <=> Writes(cs, info, x)
  BY DEF written_tables, Writes
<1>2. \A x : x \in W => ((\E r \in sts : r.table = x) <=> \E r \in S : r.table = x)
  BY <1>1, StatsRead
<1>3. N = {r \in S : r.table \notin updated}
            \union {r \in Fresh : r.table \in updated => \E old \in S : old.table = r.table}
  BY DEF persist_statistics
<1>4. \A x : NewStat(cs, info, sts, x).table = x
  BY DEF NewStat
<1>5. Fresh = {NewStat(cs, info, sts, x) : x \in W}
  BY DEF new_stats, NewStat
<1>6. \A x : x \in updated <=> x \in W /\ \E r \in S : r.table = x
  BY <1>2
<1>. HIDE DEF W, updated, Fresh
<1>7. ASSUME NEW x \in W PROVE NewStat(cs, info, sts, x) \in N
  <2>1. NewStat(cs, info, sts, x) \in Fresh /\ NewStat(cs, info, sts, x).table = x
    BY <1>4, <1>5
  <2>. QED
    BY <1>3, <1>6, <2>1
<1>8. ASSUME NEW s \in N
      PROVE  \/ s \in S /\ s.table \notin W
             \/ s.table \in W /\ s = NewStat(cs, info, sts, s.table)
  <2>1. CASE s \in S /\ s.table \notin updated
    BY <1>6, <2>1
  <2>2. CASE s \in Fresh
    BY <1>4, <1>5, <2>2
  <2>. QED
    BY <1>3, <2>1, <2>2
<1>9. \A s \in S : s.table \notin W => s \in N
  BY <1>3, <1>6
<1>. QED
  BY <1>1, <1>7, <1>8, <1>9

\* x is row r, perhaps retired.
Stems(x, r) ==
    x.table = r.table /\ x.row_id_start = r.row_id_start /\ x.rows = r.rows /\ DOMAIN x = DOMAIN r

\* The rows of files F and inlined rows I.
WholeData(F, I) ==
    /\ \A r \in F : {"id", "table", "end", "row_id_start", "rows"} \subseteq DOMAIN r
    /\ \A r \in I : "id" \notin DOMAIN r
    /\ \A r \in F \union I : Ranged(r)

\* Distinct old rows stay distinct rows of the same range.
OldRowsStay(X, Y) ==
    /\ \A x \in X : \E r \in Y : Stems(x, r)
    /\ \A x, y \in X : x # y => \E q, r \in Y : q # r /\ Stems(x, q) /\ Stems(y, r)

(* Retiring files changes no range.                                        *)
LEMMA RetiredRowsStay ==
    ASSUME NEW F, NEW I, WholeData(F, I), NEW k, NEW hit
    PROVE  OldRowsStay(Retire(F, k, hit) \union I, F \union I)
<1> DEFINE R(r) == IF r.end = NULL /\ r \in hit THEN [r EXCEPT !.end = k] ELSE r
<1>1. Retire(F, k, hit) = {R(r) : r \in F}
  BY DEF Retire
<1>2. ASSUME NEW r \in F PROVE Stems(R(r), r) /\ "id" \in DOMAIN R(r)
  <2>1. {"id", "table", "end", "row_id_start", "rows"} \subseteq DOMAIN r
    BY DEF WholeData
  <2>2. CASE r.end = NULL /\ r \in hit
    BY <2>1, <2>2 DEF Stems
  <2>3. CASE ~ (r.end = NULL /\ r \in hit)
    BY <2>1, <2>3 DEF Stems
  <2>. QED
    BY <2>2, <2>3
<1>3. \A r \in I : Stems(r, r) /\ "id" \notin DOMAIN r
  BY DEF Stems, WholeData
<1>4. \A r \in F : "id" \in DOMAIN r
  BY DEF WholeData
<1>. HIDE DEF R
<1>5. ASSUME NEW x \in Retire(F, k, hit) \union I PROVE \E r \in F \union I : Stems(x, r)
  BY <1>1, <1>2, <1>3
<1>6. ASSUME NEW x \in Retire(F, k, hit) \union I, NEW y \in Retire(F, k, hit) \union I, x # y
      PROVE  \E q, r \in F \union I : q # r /\ Stems(x, q) /\ Stems(y, r)
  <2>1. CASE x \in Retire(F, k, hit) /\ y \in Retire(F, k, hit)
    <3>1. PICK q \in F : x = R(q)
      BY <1>1, <2>1
    <3>2. PICK r \in F : y = R(r)
      BY <1>1, <2>1
    <3>. QED
      BY <1>2, <1>6, <3>1, <3>2
  <2>2. CASE x \in Retire(F, k, hit) /\ y \in I
    <3>1. PICK q \in F : x = R(q)
      BY <1>1, <2>2
    <3>. QED
      BY <1>2, <1>3, <1>4, <2>2, <3>1
  <2>3. CASE x \in I /\ y \in Retire(F, k, hit)
    <3>1. PICK r \in F : y = R(r)
      BY <1>1, <2>3
    <3>. QED
      BY <1>2, <1>3, <1>4, <2>3, <3>1
  <2>4. CASE x \in I /\ y \in I
    BY <1>3, <1>6, <2>4
  <2>. QED
    BY <2>1, <2>2, <2>3, <2>4
<1>. QED
  BY <1>5, <1>6 DEF OldRowsStay

(* Rows written after everything the statistics cover do not overlap with  *)
(* what was there, and the new statistics cover them.                      *)
LEMMA RangesAfter ==
    ASSUME NEW cs, NEW info, NEW sts, NEW S, ReadsCurrent(sts, S, cs, info), StatsSingle(S),
           NEW N, N = persist_statistics(S, cs, info, sts),
           \A table : Writes(cs, info, table) => RowsWritten(cs, info, table) \in Nat,
           NEW Y, \A r \in Y : Ranged(r), RangesDisjoint(Y), CoversRows(S, Y),
           NEW X, OldRowsStay(X, Y),
           NEW A, RangesDisjoint(A), \A r \in A : Placed(r, cs, info, sts)
    PROVE  /\ \A r \in X \union A : Ranged(r)
           /\ RangesDisjoint(X \union A) /\ CoversRows(N, X \union A)
<1>1. ASSUME NEW r \in A
      PROVE  /\ Ranged(r) /\ Writes(cs, info, r.table) /\ NextRow(sts, r.table) \in Nat
             /\ NextRow(sts, r.table) <= r.row_id_start
             /\ RowsWritten(cs, info, r.table) \in Nat
             /\ r.row_id_start + r.rows <= NextRow(sts, r.table) + RowsWritten(cs, info, r.table)
  <2>1. Placed(r, cs, info, sts)
    OBVIOUS
  <2>2. Writes(cs, info, r.table)
    BY <2>1 DEF Placed, Writes
  <2>3. NextRow(sts, r.table) \in Nat /\ RowsWritten(cs, info, r.table) \in Nat
    BY <2>2, StatsRead
  <2>4. PICK off \in Nat : /\ r.row_id_start = NextRow(sts, r.table) + off
                           /\ off + r.rows <= RowsWritten(cs, info, r.table)
    BY <2>1 DEF Placed
  <2>5. {"row_id_start", "rows"} \subseteq DOMAIN r /\ r.rows \in Nat /\ r.rows > 0
    BY <2>1 DEF Placed
  <2>. QED
    BY <2>2, <2>3, <2>4, <2>5 DEF Ranged
<1>2. ASSUME NEW x \in X
      PROVE  /\ Ranged(x)
             /\ \E s \in S : s.table = x.table /\ x.row_id_start + x.rows <= s.next_row_id
  <2>1. PICK r \in Y : Stems(x, r)
    BY DEF OldRowsStay
  <2>. QED
    BY <2>1 DEF Stems, Ranged, CoversRows
<1>3. ASSUME NEW x \in X, NEW a \in A, x.table = a.table
      PROVE  x.row_id_start + x.rows <= a.row_id_start /\ ~ (a.row_id_start <= x.row_id_start)
  <2>1. PICK s \in S : s.table = x.table /\ x.row_id_start + x.rows <= s.next_row_id
    BY <1>2
  <2>2. NextRow(sts, a.table) = s.next_row_id
    BY <1>1, <1>3, <2>1, StatsRead
  <2>3. x.row_id_start \in Nat /\ x.rows \in Nat /\ x.rows > 0 /\ a.row_id_start \in Nat
    BY <1>1, <1>2 DEF Ranged
  <2>. QED
    BY <1>1, <2>1, <2>2, <2>3
<1>4. ASSUME NEW x \in X, NEW y \in X, x # y, x.table = y.table, x.row_id_start <= y.row_id_start
      PROVE  x.row_id_start + x.rows <= y.row_id_start
  <2>1. PICK q, r \in Y : q # r /\ Stems(x, q) /\ Stems(y, r)
    BY <1>4 DEF OldRowsStay
  <2>. QED
    BY <1>4, <2>1 DEF Stems, RangesDisjoint
<1>5. RangesDisjoint(X \union A)
  BY <1>3, <1>4 DEF RangesDisjoint
<1>6. /\ \A s \in S : ~ Writes(cs, info, s.table) => s \in N
      /\ \A table : Writes(cs, info, table) => NewStat(cs, info, sts, table) \in N
  BY StatsAfter
<1>7. \A table : /\ NewStat(cs, info, sts, table).table = table
                 /\ NewStat(cs, info, sts, table).next_row_id
                      = NextRow(sts, table) + RowsWritten(cs, info, table)
  BY DEF NewStat, NextRow
<1>8. ASSUME NEW a \in A
      PROVE  \E s \in N : s.table = a.table /\ a.row_id_start + a.rows <= s.next_row_id
  BY <1>1, <1>6, <1>7
<1>9. ASSUME NEW x \in X
      PROVE  \E s \in N : s.table = x.table /\ x.row_id_start + x.rows <= s.next_row_id
  <2>1. PICK s \in S : s.table = x.table /\ x.row_id_start + x.rows <= s.next_row_id
    BY <1>2
  <2>2. CASE ~ Writes(cs, info, x.table)
    BY <1>6, <2>1, <2>2
  <2>3. CASE Writes(cs, info, x.table)
    <3>1. NextRow(sts, x.table) \in Nat /\ NextRow(sts, x.table) = s.next_row_id
      BY <2>1, <2>3, StatsRead
    <3>2. RowsWritten(cs, info, x.table) \in Nat
      BY <2>3
    <3>3. x.row_id_start + x.rows <= NewStat(cs, info, sts, x.table).next_row_id
      BY <1>2, <1>7, <2>1, <3>1, <3>2 DEF Ranged
    <3>. QED
      BY <1>6, <1>7, <2>3, <3>3
  <2>. QED
    BY <2>2, <2>3
<1>. QED
  BY <1>1, <1>2, <1>5, <1>8, <1>9 DEF CoversRows

(* The statistics stay single.                                             *)
LEMMA StatsSingleAfter ==
    ASSUME NEW cs, NEW info, NEW sts, NEW S, ReadsCurrent(sts, S, cs, info), StatsSingle(S),
           NEW N, N = persist_statistics(S, cs, info, sts),
           \A table : Writes(cs, info, table) => RowsWritten(cs, info, table) \in Nat
    PROVE  /\ StatsSingle(N)
           /\ \A s \in N : (\E q \in S : q.table = s.table) \/ Writes(cs, info, s.table)
<1>1. \A s \in N : \/ s \in S /\ ~ Writes(cs, info, s.table)
                   \/ Writes(cs, info, s.table) /\ s = NewStat(cs, info, sts, s.table)
  BY StatsAfter
<1>2. \A table : NewStat(cs, info, sts, table).next_row_id = NextRow(sts, table) + RowsWritten(cs, info, table)
  BY DEF NewStat, NextRow
<1>3. \A table : Writes(cs, info, table) => NewStat(cs, info, sts, table).next_row_id \in Nat
  BY <1>2, StatsRead
<1>4. ASSUME NEW s \in N PROVE s.next_row_id \in Nat
  BY <1>1, <1>3 DEF StatsSingle
<1>5. ASSUME NEW s \in N, NEW q \in N, q.table = s.table PROVE q = s
  BY <1>1, <1>5 DEF StatsSingle
<1>. QED
  BY <1>1, <1>4, <1>5 DEF StatsSingle

-----------------------------------------------------------------------------
(* The invariant about statistics after a commit.                          *)

(* Whatever a commit writes is a live table or the one it creates.         *)
LEMMA WrittenIsWritable ==
    ASSUME NEW t \in Tx, NEW k, NEW new, Commits(t, k, new), latest[t] = Head,
           NEW c \in changes[t], c.op \in WriteOps
    PROVE  MayBeWritten(lake, Head, table_id(changes[t], latest[t], c))
<1> DEFINE cs == changes[t]
           info == latest[t]
           cat == catalog[t]
<1>1. /\ ProperChanges(cs, cat, info) /\ info \in Info /\ TablesAgree(cat, Live(lake.objects), cs)
      /\ \A r \in Live(lake.objects) : KnownId(r.id, info)
  BY DEF Commits, Agrees, WholeObjects
<1>2. CASE c.id = Pending
  <2>1. "table" \in CreatedKinds(cs)
    BY <1>1, <1>2 DEF ProperChanges, KnownChanges
  <2>2. PICK x \in Ops(cs, "create") : x.kind = "table"
    BY <2>1 DEF CreatedKinds
  <2>3. catalog_id(cs, info, x.kind) \in Int /\ catalog_id(cs, info, x.kind) >= info.next_catalog_id
    BY <1>1, NewIds
  <2>4. table_id(cs, info, c) = catalog_id(cs, info, "table") /\ info.next_catalog_id \in Int
    BY <1>1, <1>2 DEF table_id, Info
  <2>. QED
    BY <2>2, <2>3, <2>4 DEF MayBeWritten
<1>3. CASE c.id # Pending
  <2>1. HasTable(cat, c.id)
    BY <1>1, <1>3 DEF ProperChanges, Sound
  <2>2. PICK q \in cat.objects : q.kind = "table" /\ q.id = c.id
    BY <2>1 DEF HasTable
  <2>3. PICK r \in Live(lake.objects) : Same(q, r)
    BY <1>1, <1>3, <2>2 DEF TablesAgree
  <2>4. TableIn(Live(lake.objects), c.id) /\ c.id \in Int
    BY <1>1, <2>2, <2>3 DEF TableIn, Same, KnownId
  <2>. QED
    BY <1>3, <2>4 DEF MayBeWritten, table_id
<1>. QED
  BY <1>2, <1>3

(* So its statistics are current.                                          *)
LEMMA ReadsCurrentAtHead ==
    ASSUME NEW t \in Tx, NEW k, NEW new, Commits(t, k, new), AtHead(t), TxStats(t)
    PROVE  ReadsCurrent(stats[t], lake.stats, changes[t], Head)
<1>0. latest[t] = Head /\ pc[t] = "persist"
  BY DEF AtHead
<1> SUFFICES ASSUME NEW c \in changes[t], c.op \in WriteOps,
                    NEW s, s.table = table_id(changes[t], Head, c)
             PROVE  s \in stats[t] <=> s \in lake.stats
  BY DEF ReadsCurrent
<1>1. MayBeWritten(lake, Head, table_id(changes[t], Head, c))
  BY <1>0, WrittenIsWritable
<1>2. Agree(stats[t], lake, Head)
  BY <1>0 DEF TxStats, requires_table_stats
<1>. QED
  BY <1>1, <1>2 DEF Agree

(* Every commit that writes something moves the key of the statistics.     *)
LEMMA KeyMoves ==
    ASSUME NEW cs, NEW info \in Info, NEW cat, ProperWrites(cs, cat, info), cs # {},
           NEW n, n = NewSnapshot(cs, info)
    PROVE  /\ n.schema_version \in Nat /\ n.next_file_id \in Nat
           /\ info.schema_version <= n.schema_version /\ info.next_file_id <= n.next_file_id
           /\ info.schema_version < n.schema_version \/ info.next_file_id < n.next_file_id
<1>1. info.schema_version \in Nat /\ info.next_file_id \in Nat
  BY DEF Info
<1>2. FileCount(cs) \in Nat /\ (Ops(cs, "write_files") # {} => FileCount(cs) > 0)
  <2>1. CASE Ops(cs, "write_files") = {}
    BY <2>1 DEF FileCount
  <2>2. ASSUME NEW c \in Ops(cs, "write_files") PROVE FileCount(cs) \in Nat /\ FileCount(cs) > 0
    <3>1. c \in cs /\ c.op = "write_files"
      BY DEF Ops
    <3>2. FileCount(cs) = c.n /\ c.n \in Nat /\ c.n > 0
      BY <3>1, RowsCounted
    <3>. QED
      BY <3>2
  <2>. QED
    BY <2>1, <2>2
<1>3. file_ids(cs) \in Nat
  BY <1>2 DEF file_ids
<1>4. ~ changes_schema(cs) => file_ids(cs) > 0
  <2> SUFFICES ASSUME ~ changes_schema(cs) PROVE file_ids(cs) > 0
    OBVIOUS
  <2>1. PICK c \in cs : c.op \in WriteOps
    BY DEF changes_schema
  <2>2. CASE Ops(cs, "write_files") # {}
    BY <1>2, <2>2 DEF file_ids
  <2>3. CASE Ops(cs, "write_files") = {}
    <3>1. Ops(cs, "write_inline") # {}
      BY <2>1, <2>3 DEF Ops, WriteOps
    <3>2. contains_inline_data_writes_and_no_file_writes(cs)
      BY <2>3, <3>1 DEF contains_inline_data_writes_and_no_file_writes
    <3>. QED
      BY <1>2, <3>2 DEF file_ids
  <2>. QED
    BY <2>2, <2>3
<1>5. /\ n.schema_version = info.schema_version + (IF changes_schema(cs) THEN 1 ELSE 0)
      /\ n.next_file_id = info.next_file_id + file_ids(cs)
  BY DEF NewSnapshot
<1>. QED
  BY <1>1, <1>3, <1>4, <1>5

(* A written table has an ID below the counter the commit leaves.          *)
LEMMA WrittenIsKnown ==
    ASSUME NEW cs, NEW info \in Info, KnownChanges(cs, info), NEW c \in cs, c.op \in WriteOps
    PROVE  KnownId(table_id(cs, info, c), NewSnapshot(cs, info))
<1>1. applied_change(cs, info, c) \in applied_change_set(cs, info)
  BY DEF applied_change_set
<1>2. applied_change(cs, info, c).id = table_id(cs, info, c)
  BY DEF applied_change, About, WriteOps
<1>. QED
  BY <1>1, <1>2, AppliedIdsBelowNext

(* The rows and the statistics after a commit.                             *)
LEMMA DataAfterCommit ==
    ASSUME NEW t \in Tx, NEW k, NEW new, Commits(t, k, new), AtHead(t), TxStats(t),
           StatsWhole, RowIdsDisjoint, StatsCoverRows, SomeWritten(changes[t]),
           new = persist(lake, changes[t], Head, catalog[t], stats[t])
    PROVE  /\ StatsSingle(new.stats)
           /\ \A s \in new.stats : KnownId(s.table, Head) \/ Writes(changes[t], Head, s.table)
           /\ \A r \in new.files \union new.inlined : Ranged(r)
           /\ \A r \in new.inlined : "id" \notin DOMAIN r
           /\ RangesDisjoint(new.files \union new.inlined)
           /\ CoversRows(new.stats, new.files \union new.inlined)
<1> DEFINE cs == changes[t]
           sts == stats[t]
           hit == HitFiles(lake.files, cs)
           kept == attached(lake.files, cs)
           X == Retire(kept, k, hit) \union lake.inlined
           F == AddedFiles(cs, Head, sts)
           I == AddedInlined(cs, Head, sts)
           S == lake.stats
<1>1. latest[t] = Head /\ Head \in Info /\ ProperWrites(cs, catalog[t], Head)
  BY DEF AtHead, Commits, ProperWrites
<1>2. ReadsCurrent(sts, S, cs, Head)
  BY ReadsCurrentAtHead
<1>3. StatsSingle(S) /\ \A s \in S : KnownId(s.table, Head)
  BY DEF StatsWhole
<1>4. new.files = Retire(kept, k, hit) \union F
  BY <1>1 DEF Commits, CommitOf
<1>5. new.inlined = lake.inlined \union I
  BY DEF persist, persist_inlined, AddedInlined, NextRow
<1>6. new.stats = persist_statistics(S, cs, Head, sts)
  BY DEF persist
<1>7. WholeData(kept, lake.inlined) /\ kept \subseteq lake.files
  <2>1. \A r \in lake.files : {"id", "table", "end"} \subseteq DOMAIN r
    BY DEF Commits, WholeLake, Whole, FileFields
  <2>2. \A r \in lake.files \union lake.inlined : Ranged(r)
    BY DEF StatsWhole
  <2>3. \A r \in lake.inlined : "id" \notin DOMAIN r
    BY DEF StatsWhole
  <2>4. \A r \in lake.files : {"row_id_start", "rows"} \subseteq DOMAIN r
    BY <2>2 DEF Ranged
  <2>. QED
    BY <2>1, <2>2, <2>3, <2>4 DEF WholeData, attached
<1>8. OldRowsStay(X, lake.files \union lake.inlined)
  <2>1. OldRowsStay(X, kept \union lake.inlined)
    BY <1>7, RetiredRowsStay
  <2>. HIDE DEF X, kept
  <2>. QED
    BY <1>7, <2>1 DEF OldRowsStay
<1>9. ASSUME NEW c \in cs, c.op \in WriteOps
      PROVE  /\ NextRow(sts, table_id(cs, Head, c)) \in Nat
             /\ RowsWritten(cs, Head, table_id(cs, Head, c)) \in Nat
  <2>1. Writes(cs, Head, table_id(cs, Head, c))
    BY <1>9 DEF Writes
  <2>2. NextRow(sts, table_id(cs, Head, c)) \in Nat
    BY <1>2, <1>3, <2>1, StatsRead
  <2>3. CASE c.op = "write_files"
    BY <1>1, <2>2, <2>3, RowsCounted
  <2>4. CASE c.op = "write_inline"
    <3>1. RowsBefore(cs, c) \in Nat /\ c.n \in Nat
          /\ RowsWritten(cs, Head, table_id(cs, Head, c)) = RowsBefore(cs, c) + c.n
      BY <1>1, <2>4, RowsCounted
    <3>. QED
      BY <2>2, <3>1
  <2>. QED
    BY <1>9, <2>3, <2>4 DEF WriteOps
<1>10. \A table : Writes(cs, Head, table) => RowsWritten(cs, Head, table) \in Nat
  BY <1>9 DEF Writes
<1>11. RangesDisjoint(F \union I)
  BY <1>1, <1>9, AddedRowsDisjoint
<1>12. \A r \in F \union I : Placed(r, cs, Head, sts)
  BY <1>1, AddedRowsPlaced
<1>13. \A r \in I : "id" \notin DOMAIN r
  <2>1. \A r \in I : \E c : InlinedRow(r, c, cs, Head, sts)
    BY <1>1, AddedRowsAre
  <2>. QED
    BY <2>1 DEF InlinedRow
<1>14. /\ \A r \in lake.files \union lake.inlined : Ranged(r)
       /\ RangesDisjoint(lake.files \union lake.inlined)
       /\ CoversRows(S, lake.files \union lake.inlined)
       /\ \A r \in lake.inlined : "id" \notin DOMAIN r
  BY DEF StatsWhole, RowIdsDisjoint, StatsCoverRows
<1>. HIDE DEF cs, sts, F, I, S, X
<1>15. /\ \A r \in X \union (F \union I) : Ranged(r)
       /\ RangesDisjoint(X \union (F \union I)) /\ CoversRows(new.stats, X \union (F \union I))
  BY ONLY <1>2, <1>3, <1>6, <1>8, <1>10, <1>11, <1>12, <1>14, RangesAfter
<1>16. new.files \union new.inlined = X \union (F \union I)
  BY <1>4, <1>5 DEF X
<1>17. /\ StatsSingle(new.stats)
       /\ \A s \in new.stats : (\E q \in S : q.table = s.table) \/ Writes(cs, Head, s.table)
  BY ONLY <1>2, <1>3, <1>6, <1>10, StatsSingleAfter
<1>18. \A s \in new.stats : KnownId(s.table, Head) \/ Writes(cs, Head, s.table)
  BY <1>3, <1>17
<1>19. \A r \in new.inlined : "id" \notin DOMAIN r
  BY <1>5, <1>13, <1>14
<1>. QED
  BY <1>15, <1>16, <1>17, <1>18, <1>19 DEF cs

(* A commit preserves the invariant: afterwards no cached entry and no     *)
(* attempt that has read statistics is for the head.                       *)
LEMMA StatsAfterCommit ==
    ASSUME IndInv, IndInv', RowInv, RetryInv, StagedInv, StatsInv, WritesHaveRows, NEW t \in Tx, PersistOk(t)
    PROVE  StatsInv'
<1>1. PICK k, new :
         /\ AtHead(t) /\ Commits(t, k, new) /\ lake' = new
         /\ snapshots' = snapshots \union {NewSnapshot(changes[t], latest[t])}
         /\ NewSnapshot(changes[t], latest[t]).id = k
         /\ pc' = [pc EXCEPT ![t] = "committed"] /\ UNCHANGED <<latest, changes>>
  BY PersistOkFacts
<1>2. PICK n : n = NewSnapshot(changes[t], latest[t])
  OBVIOUS
<1>3. Head' = n /\ snapshots' = snapshots \union {n} /\ n.id = k
  BY <1>1, <1>2, HeadAfterCommit
<1>4. /\ latest[t] = Head /\ Head \in Info /\ Head \in snapshots /\ HeadId = Head.id /\ HeadId \in Nat
      /\ k = HeadId + 1
  BY <1>1, Numbers DEF AtHead, Commits
<1>5. Staged(changes[t])
  BY DEF PersistOk, StagedInv, TxStaged, Committing
<1>6. changes[t] # {} /\ SomeWritten(changes[t]) /\ ProperWrites(changes[t], catalog[t], Head)
  BY <1>1, <1>4, <1>5 DEF Staged, ProperWrites, Commits
<1>7. KnownChanges(changes[t], Head)
  BY <1>6 DEF ProperWrites, ProperChanges
<1>8. new = persist(lake, changes[t], Head, catalog[t], stats[t])
  BY <1>1, <1>4 DEF PersistOk
<1>9. /\ StatsSingle(new.stats)
      /\ \A s \in new.stats : KnownId(s.table, Head) \/ Writes(changes[t], Head, s.table)
      /\ \A r \in new.files \union new.inlined : Ranged(r)
      /\ \A r \in new.inlined : "id" \notin DOMAIN r
      /\ RangesDisjoint(new.files \union new.inlined)
      /\ CoversRows(new.stats, new.files \union new.inlined)
  BY <1>1, <1>6, <1>8, DataAfterCommit DEF StatsInv
<1>10. /\ n.schema_version \in Nat /\ n.next_file_id \in Nat
       /\ Head.schema_version <= n.schema_version /\ Head.next_file_id <= n.next_file_id
       /\ Head.schema_version < n.schema_version \/ Head.next_file_id < n.next_file_id
  BY <1>2, <1>4, <1>6, KeyMoves
<1>11. \A q \in Info : q.schema_version \in Nat /\ q.next_file_id \in Nat /\ q.next_catalog_id \in Nat
  BY DEF Info
<1>12. n \in Info /\ n.next_catalog_id >= Head.next_catalog_id
  <2>1. /\ n \in Info /\ n.next_catalog_id = Head.next_catalog_id + Cardinality(Numbered(changes[t]))
        /\ Cardinality(Numbered(changes[t])) \in Nat
    BY <1>2, <1>4, <1>7, NewSnapshotFacts
  <2>. QED
    BY <1>4, <1>11, <2>1
<1>13. StatsWhole'
  <2>1. ASSUME NEW s \in new.stats PROVE KnownId(s.table, n)
    <3>1. CASE KnownId(s.table, Head)
      BY <1>4, <1>11, <1>12, <3>1 DEF KnownId
    <3>2. CASE Writes(changes[t], Head, s.table)
      BY <1>2, <1>4, <1>7, <3>2, WrittenIsKnown DEF Writes
    <3>. QED
      BY <1>9, <3>1, <3>2
  <2>2. ASSUME NEW s \in snapshots \union {n} PROVE s.next_file_id <= n.next_file_id
    <3>1. CASE s = n
      BY <1>10, <3>1
    <3>2. CASE s \in snapshots
      <4>1. s.next_file_id <= Head.next_file_id /\ s \in Info
        BY <3>2 DEF StatsInv, StatsWhole, IndInv, TypeOK
      <4>. QED
        BY <1>4, <1>10, <1>11, <4>1
    <3>. QED
      BY <3>1, <3>2
  <2>. QED
    BY <1>1, <1>3, <1>9, <2>1, <2>2 DEF StatsWhole
<1>14. RowIdsDisjoint' /\ StatsCoverRows'
  BY <1>1, <1>9 DEF RowIdsDisjoint, StatsCoverRows
<1>15. CacheCurrent'
  <2>1. table_stats_cache' = table_stats_cache
    BY DEF PersistOk
  <2>2. ASSUME NEW e \in table_stats_cache
        PROVE  /\ \E q \in Info : e.key = StatsKey(q) /\ q.schema_version <= n.schema_version
                                  /\ q.next_file_id <= n.next_file_id
               /\ e.key # StatsKey(n)
    <3>1. PICK q \in Info : e.key = StatsKey(q) /\ q.schema_version <= Head.schema_version
                            /\ q.next_file_id <= Head.next_file_id
      BY DEF StatsInv, CacheCurrent
    <3>2. q.schema_version \in Nat /\ q.next_file_id \in Nat /\ Head.schema_version \in Nat
          /\ Head.next_file_id \in Nat
      BY <1>4, <1>11
    <3>3. q.schema_version <= n.schema_version /\ q.next_file_id <= n.next_file_id
      BY <1>10, <3>1, <3>2
    <3>4. q.schema_version # n.schema_version \/ q.next_file_id # n.next_file_id
      BY <1>10, <3>1, <3>2
    <3>. QED
      BY <3>1, <3>3, <3>4 DEF StatsKey
  <2>. QED
    BY <1>3, <2>1, <2>2 DEF CacheCurrent
<1>16. ASSUME NEW u \in Tx PROVE TxStats(u)'
  <2>1. CASE u = t
    <3>1. pc'[t] = "committed"
      BY <1>1 DEF IndInv, TypeOK
    <3>. QED
      BY <2>1, <3>1 DEF TxStats
  <2>2. CASE u # t
    <3>1. latest'[u] = latest[u] /\ latest[u].id <= HeadId /\ latest[u].id \in Nat
      BY <1>1, Numbers DEF RetryInv, RetryHolds
    <3>2. latest[u] # n
      BY <1>3, <1>4, <3>1
    <3>. QED
      BY <1>3, <3>1, <3>2 DEF TxStats
  <2>. QED
    BY <2>1, <2>2
<1>17. DOMAIN stats' = Tx
  BY DEF PersistOk, EndAttempt, StatsInv
<1>. QED
  BY <1>13, <1>14, <1>15, <1>16, <1>17 DEF StatsInv

(* What holds of the rows at first.                                        *)
LEMMA StatsInit == Init => StatsInv
<1> SUFFICES ASSUME Init PROVE StatsInv
  OBVIOUS
<1>1. Head = InitialSnapshot /\ snapshots = {InitialSnapshot} /\ InitialSnapshot \in Info
  <2>1. snapshots = {InitialSnapshot} /\ InitialSnapshot \in Info
    BY InitialSnapshotAssumption DEF Init
  <2>2. InitialSnapshot.id \in Nat /\ InitialSnapshot.next_file_id \in Nat
    BY <2>1 DEF Info
  <2>. QED
    BY <2>1, <2>2 DEF Head, Newest
<1>2. InitialSnapshot.next_file_id \in Nat /\ InitialSnapshot.next_catalog_id \in Nat
  BY <1>1 DEF Info
<1>3. lake = InitialLake
  BY DEF Init
<1>4. StatsSingle(lake.stats)
  BY <1>3, InitialDataAssumption DEF StatsSingle
<1>5. \A s \in lake.stats : KnownId(s.table, Head)
  <2>1. \A s \in lake.stats : s.table \in 0 .. Head.next_catalog_id - 1
    BY <1>1, <1>3, InitialDataAssumption
  <2>. QED
    BY <1>1, <1>2, <2>1 DEF KnownId
<1>6. \A r \in lake.files \union lake.inlined : Ranged(r)
  BY <1>3, InitialDataAssumption DEF Ranged
<1>7. /\ \A r \in lake.inlined : "id" \notin DOMAIN r
      /\ \A s \in snapshots : s.next_file_id <= Head.next_file_id
  BY <1>1, <1>2, <1>3, InitialDataAssumption
<1>8. RowIdsDisjoint /\ StatsCoverRows
  BY <1>3, InitialDataAssumption DEF RowIdsDisjoint, StatsCoverRows
<1>9. CacheCurrent
  BY DEF Init, CacheCurrent
<1>10. DOMAIN stats = Tx /\ \A t \in Tx : TxStats(t)
  BY DEF Init, TxStats
<1>. QED
  BY <1>4, <1>5, <1>6, <1>7, <1>8, <1>9, <1>10 DEF StatsInv, StatsWhole

(* Expiry leaves the statistics of every table that still has rows.        *)
LEMMA StatsExpire ==
    ASSUME IndInv, IndInv', RowInv, StatsInv, SafeRetention, ExpireSnapshots
    PROVE  StatsInv'
<1>1. PICK ids, new :
         /\ ids \subseteq Ids(snapshots) /\ HeadId \in ids /\ HeadId' = HeadId
         /\ snapshots' \subseteq snapshots /\ lake' = new /\ new = ExpireRows(lake, ids)
         /\ UNCHANGED <<pc, latest, changes>>
  BY ExpireFacts
<1>2. UNCHANGED <<stats, table_stats_cache>>
  BY DEF ExpireSnapshots, txVars
<1>3. Head' = Head
  <2>1. SnapshotsOrdered' /\ SnapshotsOrdered
    BY DEF IndInv, DbInv
  <2>2. Newest(snapshots') \in snapshots'
    BY <2>1, NewestIsMaximum DEF SnapshotsOrdered
  <2>3. Head' \in snapshots /\ Head \in snapshots /\ Head'.id = Head.id
    BY <1>1, <2>2, Numbers DEF Head, HeadId
  <2>. QED
    BY <2>1, <2>3 DEF SnapshotsOrdered
<1>4. PICK gone : gone = ExpiredTables(lake, ids)
  OBVIOUS
<1>5. /\ new.files = {r \in lake.files : ~ Inactive(r, ids)}
      /\ new.inlined = {r \in lake.inlined : r.table \notin gone}
      /\ new.stats = {r \in lake.stats : r.table \notin gone}
      /\ new.objects \subseteq lake.objects
      /\ \A r \in new.objects : r.kind = "table" => r.id \notin gone
  BY <1>1, <1>4 DEF ExpireRows, RetainedObjects, UnreachableFiles
<1>6. HeadId \in Nat /\ HeadId = Head.id /\ Head \in Info
  BY Numbers
<1>7. ASSUME NEW r \in new.files PROVE r.table \notin gone
  <2>1. r \in lake.files /\ ~ Inactive(r, ids)
    BY <1>5
  <2>2. Visible(lake.files, HeadId) = Live(lake.files)
    BY <1>6, LiveIsVisible DEF RowInv, RowsWhole
  <2>3. PICK s \in ids : r \in Visible(lake.files, s)
    <3>1. CASE r.end = NULL
      BY <1>1, <2>1, <2>2, <3>1 DEF Live
    <3>2. CASE r.end # NULL
      BY <2>1, <3>2 DEF Inactive, Visible, VisibleAt
    <3>. QED
      BY <3>1, <3>2
  <2>4. NothingDangles(lake, s)
    BY <1>1, <2>3 DEF RowInv, NoDanglingRows
  <2>5. TableIn(Visible(lake.objects, s), r.table)
    BY <2>3, <2>4, DanglesAs DEF NoneDangles
  <2>6. \A o \in Visible(lake.objects, s) : o.kind = "table" => o.id \notin ExpiredTables(lake, ids)
    BY <1>1, <2>4, ExpiryKeepsRetained
  <2>. QED
    BY <1>4, <2>5, <2>6 DEF TableIn
<1>8. \A r \in new.files \union new.inlined : r \in lake.files \union lake.inlined /\ r.table \notin gone
  BY <1>5, <1>7
<1>9. StatsWhole'
  <2>1. new.stats \subseteq lake.stats /\ new.inlined \subseteq lake.inlined
    BY <1>5
  <2>2. StatsSingle(new.stats)
    BY <2>1 DEF StatsInv, StatsWhole, StatsSingle
  <2>. QED
    BY <1>1, <1>3, <1>8, <2>1, <2>2 DEF StatsInv, StatsWhole
<1>10. RowIdsDisjoint'
  <2>1. RangesDisjoint(lake.files \union lake.inlined)
    BY DEF StatsInv, RowIdsDisjoint
  <2>2. RangesDisjoint(new.files \union new.inlined)
    BY <1>8, <2>1 DEF RangesDisjoint
  <2>. QED
    BY <1>1, <2>2 DEF RowIdsDisjoint
<1>11. StatsCoverRows'
  <2>1. CoversRows(lake.stats, lake.files \union lake.inlined)
    BY DEF StatsInv, StatsCoverRows
  <2>2. CoversRows(new.stats, new.files \union new.inlined)
    BY <1>5, <1>8, <2>1 DEF CoversRows
  <2>. QED
    BY <1>1, <2>2 DEF StatsCoverRows
<1>12. ASSUME NEW sts, Agree(sts, lake, Head) PROVE Agree(sts, new, Head)
  <2>1. ASSUME NEW table, MayBeWritten(new, Head, table), NEW s, s.table = table
        PROVE  s \in sts <=> s \in new.stats
    <3>1. MayBeWritten(lake, Head, table)
      BY <1>5, <2>1 DEF MayBeWritten, TableIn, Live
    <3>2. s \in sts <=> s \in lake.stats
      BY <1>12, <2>1, <3>1 DEF Agree
    <3>3. CASE Head.next_catalog_id <= table
      <4>1. s \notin lake.stats
        <5>1. Head.next_catalog_id \in Nat
          BY <1>6 DEF Info
        <5>. QED
          BY <2>1, <3>3, <5>1 DEF StatsInv, StatsWhole, KnownId
      <4>. QED
        BY <1>5, <3>2, <4>1
    <3>4. CASE TableIn(Live(new.objects), table)
      <4>1. table \notin gone
        BY <1>5, <3>4 DEF TableIn, Live
      <4>. QED
        BY <1>5, <2>1, <3>2, <4>1
    <3>. QED
      BY <2>1, <3>3, <3>4 DEF MayBeWritten
  <2>. QED
    BY <2>1 DEF Agree
<1>13. CacheCurrent'
  BY <1>1, <1>2, <1>3, <1>12 DEF StatsInv, CacheCurrent
<1>14. \A t \in Tx : TxStats(t)'
  BY <1>1, <1>2, <1>3, <1>12 DEF StatsInv, TxStats
<1>. QED
  BY <1>2, <1>9, <1>10, <1>11, <1>13, <1>14 DEF StatsInv

\* A transaction whose attempt, if it has read statistics, stays as it is.
StatsSame(u) ==
    /\ pc'[u] \in {"attempt", "persist"} => pc[u] \in {"attempt", "persist"}
    /\ latest'[u] = latest[u] /\ changes'[u] = changes[u] /\ stats'[u] = stats[u]

(* A step that leaves the rows and the cache alone.                        *)
LEMMA StatsLocalStep ==
    ASSUME StatsInv, UNCHANGED <<snapshots, lake, table_stats_cache>>, DOMAIN stats' = Tx,
           \A u \in Tx : pc'[u] \in {"attempt", "persist"} => StatsSame(u)
    PROVE  StatsInv'
<1>1. Head' = Head
  BY DEF Head
<1>2. StatsWhole' /\ RowIdsDisjoint' /\ StatsCoverRows' /\ CacheCurrent'
  BY <1>1 DEF StatsInv, StatsWhole, RowIdsDisjoint, StatsCoverRows, CacheCurrent
<1>3. \A u \in Tx : TxStats(u)'
  BY <1>1 DEF StatsInv, TxStats, StatsSame
<1>. QED
  BY <1>2, <1>3 DEF StatsInv

(* An attempt on the head reads current statistics, from the database or   *)
(* from the cache.                                                         *)
LEMMA StatsLoaded ==
    ASSUME IndInv, RowInv, StatsInv, NEW t \in Tx, LoadStats(t)
    PROVE  StatsInv'
<1>1. /\ UNCHANGED <<snapshots, lake, latest, changes>>
      /\ pc[t] = "load" /\ pc' = [pc EXCEPT ![t] = "attempt"] /\ DOMAIN pc = Tx /\ DOMAIN stats = Tx
  BY DEF LoadStats, Goto, IndInv, TypeOK, StatsInv
<1>2. Head' = Head
  BY <1>1 DEF Head
<1>3. StatsWhole' /\ RowIdsDisjoint' /\ StatsCoverRows'
  BY <1>1, <1>2 DEF StatsInv, StatsWhole, RowIdsDisjoint, StatsCoverRows
<1>4. ASSUME NEW u \in Tx, u # t, stats'[u] = stats[u] PROVE TxStats(u)'
  BY <1>1, <1>2, <1>4 DEF StatsInv, TxStats
<1>5. CASE ~ requires_table_stats(changes[t])
  <2>1. table_stats_cache' = table_stats_cache /\ stats' = [stats EXCEPT ![t] = {}]
    BY <1>5 DEF LoadStats
  <2>2. CacheCurrent'
    BY <1>1, <1>2, <2>1 DEF StatsInv, CacheCurrent
  <2>3. TxStats(t)'
    BY <1>1, <1>5 DEF TxStats
  <2>4. DOMAIN stats' = Tx /\ \A u \in Tx : u # t => stats'[u] = stats[u]
    BY <1>1, <2>1
  <2>. QED
    BY <1>3, <1>4, <2>2, <2>3, <2>4 DEF StatsInv
<1>6. CASE requires_table_stats(changes[t])
  <2>1. PICK entry :
           /\ entry \in table_stats_cache \/ entry = [key |-> StatsKey(latest[t]), stats |-> lake.stats]
           /\ entry.key = StatsKey(latest[t])
           /\ stats' = [stats EXCEPT ![t] = entry.stats]
           /\ table_stats_cache' = table_stats_cache \union {entry}
    BY <1>6 DEF LoadStats
  <2>2. /\ latest[t] \in snapshots /\ Head \in snapshots /\ latest[t] \in Info
        /\ latest[t].id <= Head.id
    <3>1. latest[t] \in snapshots /\ Head \in snapshots /\ snapshots \subseteq Info
      BY <1>1, Numbers DEF IndInv, TypeOK, TxInv, BaseRetained, Active, Committing
    <3>2. SnapshotsOrdered
      BY DEF IndInv, DbInv
    <3>3. Newest(snapshots) \in snapshots /\ \A r \in snapshots : r.id <= Newest(snapshots).id
      BY <3>2, NewestIsMaximum DEF SnapshotsOrdered
    <3>. QED
      BY <3>1, <3>3 DEF Head
  <2>3. /\ latest[t].schema_version <= Head.schema_version
        /\ latest[t].next_file_id <= Head.next_file_id
    BY <2>2 DEF RowInv, VersionsOrdered, StatsInv, StatsWhole
  <2>4. entry.key = StatsKey(Head) => Agree(entry.stats, lake, Head)
    <3>1. CASE entry \in table_stats_cache
      BY <3>1 DEF StatsInv, CacheCurrent
    <3>2. CASE entry = [key |-> StatsKey(latest[t]), stats |-> lake.stats]
      BY <3>2 DEF Agree
    <3>. QED
      BY <2>1, <3>1, <3>2
  <2>5. CacheCurrent'
    <3>1. ASSUME NEW e \in table_stats_cache'
          PROVE  /\ \E q \in Info : e.key = StatsKey(q) /\ q.schema_version <= Head.schema_version
                                    /\ q.next_file_id <= Head.next_file_id
                 /\ e.key = StatsKey(Head) => Agree(e.stats, lake, Head)
      <4>1. CASE e \in table_stats_cache
        BY <4>1 DEF StatsInv, CacheCurrent
      <4>2. CASE e = entry
        BY <2>1, <2>2, <2>3, <2>4, <4>2
      <4>. QED
        BY <2>1, <4>1, <4>2
    <3>. QED
      BY <1>1, <1>2, <3>1 DEF CacheCurrent
  <2>6. TxStats(t)'
    <3>1. stats'[t] = entry.stats /\ latest'[t] = latest[t]
      BY <1>1, <2>1
    <3>2. latest[t] = Head => Agree(entry.stats, lake, Head)
      BY <2>1, <2>4
    <3>. QED
      BY <1>1, <1>2, <3>1, <3>2 DEF TxStats
  <2>7. DOMAIN stats' = Tx /\ \A u \in Tx : u # t => stats'[u] = stats[u]
    BY <1>1, <2>1
  <2>. QED
    BY <1>3, <1>4, <2>5, <2>6, <2>7 DEF StatsInv
<1>. QED
  BY <1>5, <1>6

(* Every step preserves the invariant.                                     *)
LEMMA StatsNext ==
    ASSUME IndInv, IndInv', RowInv, RetryInv, StagedInv, StatsInv, SafeRetention, WritesHaveRows,
           [Next]_vars
    PROVE  StatsInv'
<1>1. /\ DOMAIN pc = Tx /\ DOMAIN stats = Tx /\ DOMAIN latest = Tx /\ DOMAIN changes = Tx
      /\ pc \in [Tx -> {"idle"} \union Active \union Finished]
  BY DEF IndInv, TypeOK, StatsInv
<1>2. CASE UNCHANGED vars
  BY <1>1, <1>2, StatsLocalStep DEF vars, dbVars, txVars, StatsSame
<1>3. CASE ExpireSnapshots
  BY <1>3, StatsExpire
<1>4. ASSUME NEW t \in Tx, Step(t) PROVE StatsInv'
  <2>1. CASE PersistOk(t)
    BY <2>1, StatsAfterCommit
  <2>2. CASE LoadStats(t)
    BY <2>2, StatsLoaded
  <2>3. CASE BeginPersist(t)
    BY <1>1, <2>3, StatsLocalStep DEF BeginPersist, Goto, dbVars, StatsSame
  <2>4. CASE Begin(t) \/ LoadCatalog(t) \/ Commit(t) \/ PersistRetry(t) \/ PersistError(t)
             \/ Refresh(t) \/ CheckConflict(t)
    <3>1. UNCHANGED <<snapshots, lake, table_stats_cache>> /\ DOMAIN stats' = Tx
      BY <1>1, <2>4 DEF Begin, LoadCatalog, Commit, PersistRetry, PersistError, Refresh, CheckConflict,
                        EndAttempt, dbVars
    <3>2. pc'[t] \notin {"attempt", "persist"}
      <4>1. CASE CheckConflict(t) /\ CheckErrors(t) # {}
        <5>1. CheckErrors(t) \subseteq {"conflict", "not_found"}
          BY DEF CheckErrors, check_conflict
        <5>. QED
          BY <1>1, <4>1, <5>1 DEF CheckConflict, Goto
      <4>2. CASE CheckConflict(t) /\ CheckErrors(t) = {}
        BY <1>1, <4>2 DEF CheckConflict, Goto
      <4>3. CASE ~ CheckConflict(t)
        BY <1>1, <2>4, <4>3 DEF Begin, LoadCatalog, Commit, PersistRetry, PersistError, Refresh,
                                EndAttempt, Goto
      <4>. QED
        BY <4>1, <4>2, <4>3
    <3>3. ASSUME NEW u \in Tx, u # t PROVE StatsSame(u)
      BY <1>1, <2>4, <3>3 DEF Begin, LoadCatalog, Commit, PersistRetry, PersistError, Refresh,
                              CheckConflict, EndAttempt, Goto, StatsSame
    <3>. QED
      BY <3>1, <3>2, <3>3, StatsLocalStep
  <2>. QED
    BY <1>4, <2>1, <2>2, <2>3, <2>4 DEF Step
<1>. QED
  BY <1>2, <1>3, <1>4 DEF Next

-----------------------------------------------------------------------------
(* The theorems about row IDs and statistics.                              *)

(* The inductive invariant, if every write of files has a file.            *)
THEOREM StatsInvariance ==
    ASSUME SafeRetention, WritesHaveRows
    PROVE  Spec => []StatsInv
<1>1. Init => StatsInv
  BY StatsInit
<1>2. /\ IndInv /\ IndInv' /\ RowInv /\ RetryInv /\ StagedInv /\ StatsInv /\ [Next]_vars
      => StatsInv'
  BY StatsNext
<1>. QED
  BY <1>1, <1>2, StagedInvariance, PTL DEF Spec

(* No two data files, and no two ranges of inlined rows, of one table      *)
(* share a row ID, whichever commits raced and whichever statistics were   *)
(* cached (caches/table_stats.rs, transaction/executors/data.rs).          *)
THEOREM RowIdsAreDisjoint ==
    ASSUME SafeRetention, WritesHaveRows
    PROVE  Spec => []RowIdsDisjoint
<1>1. StatsInv => RowIdsDisjoint
  BY DEF StatsInv
<1>. QED
  BY <1>1, StatsInvariance, PTL

(* The next row ID of a table is above every row ID the table has in use.  *)
THEOREM StatisticsCoverRows ==
    ASSUME SafeRetention, WritesHaveRows
    PROVE  Spec => []StatsCoverRows
<1>1. StatsInv => StatsCoverRows
  BY DEF StatsInv
<1>. QED
  BY <1>1, StatsInvariance, PTL

=============================================================================
