--------------------------- MODULE ReadPathProofs ---------------------------
(***************************************************************************)
(* What a connection reads is what was committed, for any number of tasks, *)
(* snapshots and calls: scans and cached catalogs are exact, a connection  *)
(* sees its own commits, and pinned handles stay pinned.                   *)
(***************************************************************************)
EXTENDS ReadPath, WellFoundedInduction, TLAPS

-----------------------------------------------------------------------------
(* The inductive invariant.  First the database: what its rows are, when   *)
(* they were written, and what they say of the history.                    *)

Ends == Nat \union {NULL}
Names == {"a", "b", "x", "y", "z"}
Field == [id : Nat, name : Names]
TableRow == [id : Nat, name : Names, begin : Nat, end : Ends]
ColumnRow == [table : {Scanned}, id : Nat, name : Names, begin : Nat, end : Ends]
FileRow == [file : Nat, begin : Nat, end : Ends]
InlineTable == [table : {Scanned}, version : Nat, columns : SUBSET Field]
InlineRow == [row : Nat, version : Nat, columns : SUBSET Nat, begin : Nat, end : Ends]
VersionRow == [table : Nat, begin : Nat, version : Nat]

RowsTyped ==
    /\ tables \subseteq TableRow /\ columns \subseteq ColumnRow
    /\ files \subseteq FileRow /\ deletes \subseteq FileRow
    /\ inlineTables \subseteq InlineTable /\ inlineRows \subseteq InlineRow
    /\ schemaVersions \subseteq VersionRow

Hist == DOMAIN history
V(s) == history[s].version

\* Snapshots are numbered from 1 and their schema versions never fall; the
\* head is retained.
SnapshotsNumbered ==
    /\ HeadId \in DOMAIN snapshots /\ HeadId \in Nat
    /\ DOMAIN snapshots \subseteq Hist /\ Hist = 1 .. HeadId
    /\ \A s \in Hist : V(s) \in Nat
    /\ \A s \in DOMAIN snapshots : snapshots[s] = V(s)
    /\ \A r, s \in Hist : r <= s => V(r) <= V(s)

\* A snapshot that begins a schema version.
Starts(k) == k \in Hist /\ \A s \in Hist : s < k => V(s) < V(k)

\* Rows begin and end in snapshots that were committed; those of tables and
\* columns only in snapshots with a new schema version.
Dated(rows) == \A r \in rows : r.begin \in Hist /\ (r.end = NULL \/ r.end \in Hist)
SchemaDated(rows) == \A r \in rows : Starts(r.begin) /\ (r.end = NULL \/ Starts(r.end))
RowsDated ==
    /\ SchemaDated(tables) /\ SchemaDated(columns)
    /\ Dated(files) /\ Dated(deletes) /\ Dated(inlineRows)

TableVisible(s) == \E r \in Visible(tables, s) : r.id = Scanned

\* Columns are visible with their table only.
ColumnsInTable == \A s \in Hist : Visible(columns, s) # {} => TableVisible(s)

\* Every inlined data table has the columns its table had in the snapshots of
\* its schema version, and every inlined row has a table with its columns.
InlineHolds ==
    /\ \A i \in inlineTables :
          /\ \E r \in schemaVersions : r.table = Scanned /\ r.version = i.version
          /\ \A b \in Hist : V(b) = i.version =>
                HasTable(CatalogOf(b)) /\ SchemaOf(CatalogOf(b)) = i.columns
    /\ \A r \in schemaVersions : r.begin \in Hist /\ V(r.begin) = r.version
    /\ \A x \in inlineRows : \E i \in inlineTables :
          i.version = x.version /\ x.columns = ColumnIds(i.columns)
    /\ TableIsLive => \E i \in inlineTables : \A j \in inlineTables : j.version <= i.version

\* Retained snapshots can still be read as they were committed.
HistoryHolds ==
    \A s \in DOMAIN snapshots :
        /\ history[s].catalog = CatalogOf(s)
        /\ HasTable(CatalogOf(s)) => history[s].contents = ContentsAt(s)

DatabaseHolds ==
    /\ RowsTyped /\ SnapshotsNumbered /\ RowsDated /\ ColumnsInTable
    /\ InlineHolds /\ HistoryHolds

-----------------------------------------------------------------------------
(* The caches, the handle and the tasks.                                   *)

InfoRecord == [id : Nat, version : Nat]
InfoOk(i) == i \in InfoRecord /\ i.id \in Hist /\ i.version = V(i.id)

\* A catalog of schema version v is that of the retained snapshots and of the
\* inlined data tables with this schema version.
CatalogIs(c, v) ==
    /\ \A s \in DOMAIN snapshots : V(s) = v => c = CatalogOf(s)
    /\ \A i \in inlineTables : i.version = v => HasTable(c) /\ SchemaOf(c) = i.columns

CatalogsHold ==
    /\ DOMAIN catalogs = Held
    /\ \A v \in DOMAIN catalogs :
          /\ catalogs[v] = [bound |-> catalogs[v].bound, loaded |-> catalogs[v].loaded]
          /\ catalogs[v].bound \in Hist /\ V(catalogs[v].bound) = v
          /\ \A c \in catalogs[v].loaded : CatalogIs(c, v)

HeadHolds == InfoOk(current) /\ acked \in Nat /\ acked <= current.id

ViewHolds ==
    /\ view \in [mode : {"ReadOnly", "TimeTravel"}, pinned : SUBSET InfoRecord, asked : Ends]
    /\ \A i \in view.pinned : InfoOk(i) /\ i.id \in DOMAIN snapshots
    /\ view.asked # NULL => {i.id : i \in view.pinned} = {view.asked}

Read == [row : Nat, values : SUBSET Nat]
ScanPc == {"catalog", "fetch", "schemas", "ok", "not_found"}
ScanState == [pc : ScanPc, snapshot : InfoRecord,
              asked : Ends, floor : Nat, fetched : SUBSET Queries, files : SUBSET Nat,
              deletes : SUBSET Nat, inline : SUBSET InlineTable, resolved : SUBSET InfoRecord,
              rows : SUBSET Read]
TaskState ==
    {Idle} \union [pc : {"insert"}, info : InfoRecord, floor : Nat]
    \union [pc : {"record"}, info : InfoRecord] \union ScanState

\* What the queries of a scan return for a snapshot.
FilesAt(s) == {f.file : f \in Visible(files, s)}
DeletedAt(s) == {d.file : d \in Visible(deletes, s)}
InlinedAt(s) == {[row |-> x.row, version |-> x.version, columns |-> x.columns]
                    : x \in Visible(inlineRows, s)}

\* The inlined rows of snapshot s when the tables `left` are still to be read.
RowsBut(s, left) ==
    {[row |-> x.row, values |-> x.columns \intersect ColumnIds(SchemaOf(CatalogOf(s)))]
        : x \in {y \in InlinedAt(s) : \A i \in left : i.version # y.version}}

\* A scan reads a retained snapshot, not older than what was acknowledged
\* before it started, and the one its handle is pinned to.
ScanOpen(k) ==
    /\ InfoOk(k.snapshot) /\ k.snapshot.id \in DOMAIN snapshots
    /\ \A r \in k.resolved : InfoOk(r)
    /\ k.floor <= k.snapshot.id
    /\ k.asked # NULL => k.snapshot.id = k.asked

\* What it has fetched belongs to the snapshot.
ScanReads(k) ==
    /\ Loaded(k.snapshot) /\ HasTable(CatalogOf(k.snapshot.id))
    /\ "files" \in k.fetched => k.files = FilesAt(k.snapshot.id)
    /\ "deletes" \in k.fetched => k.deletes = DeletedAt(k.snapshot.id)
    /\ IF "inline" \in k.fetched
       THEN k.inline \subseteq inlineTables /\ k.rows = RowsBut(k.snapshot.id, k.inline)
       ELSE k.rows = {}

TaskHolds(k) ==
    /\ k.pc \in {"insert", "record"} => InfoOk(k.info)
    /\ k.pc = "insert" => k.info.id \in DOMAIN snapshots /\ k.floor <= k.info.id
    /\ k.pc \in ScanPc => ScanOpen(k)
    /\ k.pc = "catalog" => k.fetched = {} /\ k.rows = {}
    /\ k.pc \in {"fetch", "schemas", "ok"} => ScanReads(k)
    /\ k.pc \in {"schemas", "ok"} => k.fetched = Queries
    /\ k.pc = "ok" => k.inline = {}
    /\ k.pc = "not_found" => ~ HasTable(CatalogOf(k.snapshot.id))

IndInv ==
    /\ DatabaseHolds /\ HeadHolds /\ ViewHolds /\ CatalogsHold
    /\ task \in [Tasks -> TaskState]
    /\ \A t \in Tasks : TaskHolds(task[t])

-----------------------------------------------------------------------------
(* Largest and smallest elements.                                          *)

\* The element no other one exceeds is the largest.
LEMMA MaxIs ==
    ASSUME NEW S \in SUBSET Int, NEW m \in S, \A x \in S : x <= m
    PROVE  Max(S) = m
  <1> DEFINE P(x) == x \in S /\ \A y \in S : x >= y
  <1>1. P(m)
    OBVIOUS
  <1>2. \A x : P(x) => x = m
    <2> SUFFICES ASSUME NEW x, P(x) PROVE x = m
      OBVIOUS
    <2>1. x \in Int /\ m \in Int /\ x >= m /\ x <= m
      OBVIOUS
    <2> QED BY <2>1
  <1>3. Max(S) = CHOOSE x \in S : \A y \in S : x >= y
    BY DEF Max
  <1>4. P(Max(S))
    BY <1>1, <1>3
  <1> QED BY <1>2, <1>4

\* A set of natural numbers that is not empty has a smallest element.
LEMMA MinExists ==
    ASSUME NEW S \in SUBSET Nat, S # {}
    PROVE  Min(S) \in S /\ \A y \in S : Min(S) <= y
  <1>1. IsWellFoundedOn(OpToRel(<, Nat), Nat)
    BY NatLessThanWellFounded
  <1>2. PICK x \in S : \A y \in S : ~ (<<y, x>> \in OpToRel(<, Nat))
    BY <1>1, WFMin
  <1>3. \A y \in S : x <= y
    <2> SUFFICES ASSUME NEW y \in S PROVE x <= y
      OBVIOUS
    <2>1. <<y, x>> \notin OpToRel(<, Nat)
      BY <1>2
    <2>2. ~ (y < x)
      BY <2>1 DEF OpToRel
    <2>3. x \in Nat /\ y \in Nat
      OBVIOUS
    <2> QED BY <2>2, <2>3
  <1>4. Min(S) = CHOOSE z \in S : \A y \in S : z =< y
    BY DEF Min
  <1> QED BY <1>3, <1>4

\* A bounded set of natural numbers that is not empty has a largest element.
LEMMA MaxExists ==
    ASSUME NEW n \in Nat, NEW S \in SUBSET (0 .. n), S # {}
    PROVE  Max(S) \in S
  <1> DEFINE T == {n - x : x \in S}
  <1>1. T \in SUBSET Nat /\ T # {}
    <2>1. \A x \in S : x \in Int /\ 0 <= x /\ x <= n
      OBVIOUS
    <2>2. \A x \in S : n - x \in Nat
      BY <2>1
    <2> QED BY <2>2
  <1>2. Min(T) \in T /\ \A y \in T : Min(T) <= y
    <2> HIDE DEF T
    <2> QED BY <1>1, MinExists
  <1>3. PICK m \in S : Min(T) = n - m
    BY <1>2
  <1>4. \A x \in S : x <= m
    <2> SUFFICES ASSUME NEW x \in S PROVE x <= m
      OBVIOUS
    <2>1. n - m <= n - x
      BY <1>2, <1>3
    <2>2. x \in Int /\ m \in Int
      OBVIOUS
    <2> QED BY <2>1, <2>2
  <1>5. S \in SUBSET Int
    OBVIOUS
  <1> QED BY <1>4, <1>5, MaxIs

-----------------------------------------------------------------------------
(* What a commit does to versioned rows: it ends rows that are alive and   *)
(* adds rows that begin with it.  Readers of older snapshots see no        *)
(* difference.                                                             *)

Continues(old, new, k) ==
    /\ \A r \in new : \/ r \in old
                      \/ \E q \in old : q.end = NULL /\ r = [q EXCEPT !.end = k]
                      \/ r.begin = k /\ r.end = NULL
    /\ \A q \in old : q \in new \/ (q.end = NULL /\ [q EXCEPT !.end = k] \in new)

\* The tables a reader of an older snapshot sees are the same.
LEMMA TablesContinue ==
    ASSUME NEW old \in SUBSET TableRow, NEW new \in SUBSET TableRow, NEW k \in Nat,
           Continues(old, new, k), NEW s \in Nat, s < k
    PROVE  {[id |-> r.id, name |-> r.name] : r \in Visible(new, s)}
             = {[id |-> r.id, name |-> r.name] : r \in Visible(old, s)}
  <1> DEFINE A == {[id |-> r.id, name |-> r.name] : r \in Visible(new, s)}
             B == {[id |-> r.id, name |-> r.name] : r \in Visible(old, s)}
  <1>1. \A r \in Visible(new, s) : \E q \in Visible(old, s) :
            q.id = r.id /\ q.name = r.name
    <2> SUFFICES ASSUME NEW r \in Visible(new, s)
                 PROVE  \E q \in Visible(old, s) : q.id = r.id /\ q.name = r.name
      OBVIOUS
    <2>1. r \in new /\ r.begin <= s /\ (r.end = NULL \/ s < r.end)
      BY DEF Visible, VisibleAt
    <2>2. CASE r \in old
      BY <2>1, <2>2 DEF Visible, VisibleAt
    <2>3. ASSUME NEW q \in old, q.end = NULL, r = [q EXCEPT !.end = k]
          PROVE  \E p \in Visible(old, s) : p.id = r.id /\ p.name = r.name
      <3>1. q.id = r.id /\ q.name = r.name /\ q.begin = r.begin
        BY <2>3 DEF TableRow
      <3>2. q \in Visible(old, s)
        BY <2>1, <2>3, <3>1 DEF Visible, VisibleAt
      <3> QED BY <3>1, <3>2
    <2>4. ~ (r.begin = k)
      BY <2>1
    <2> QED BY <2>1, <2>2, <2>3, <2>4 DEF Continues
  <1>2. \A q \in Visible(old, s) : \E r \in Visible(new, s) :
            q.id = r.id /\ q.name = r.name
    <2> SUFFICES ASSUME NEW q \in Visible(old, s)
                 PROVE  \E r \in Visible(new, s) : q.id = r.id /\ q.name = r.name
      OBVIOUS
    <2>1. q \in old /\ q.begin <= s /\ (q.end = NULL \/ s < q.end)
      BY DEF Visible, VisibleAt
    <2>2. CASE q \in new
      BY <2>1, <2>2 DEF Visible, VisibleAt
    <2>3. CASE q.end = NULL /\ [q EXCEPT !.end = k] \in new
      <3> DEFINE r == [q EXCEPT !.end = k]
      <3>1. q.id = r.id /\ q.name = r.name /\ r.begin = q.begin /\ r.end = k
        BY <2>1 DEF TableRow
      <3>2. r \in Visible(new, s)
        BY <2>1, <2>3, <3>1 DEF Visible, VisibleAt
      <3> QED BY <3>1, <3>2
    <2> QED BY <2>1, <2>2, <2>3 DEF Continues
  <1>3. A \subseteq B
    BY <1>1
  <1>4. B \subseteq A
    BY <1>2
  <1> QED BY <1>3, <1>4

\* The columns a reader of an older snapshot sees are the same.
LEMMA ColumnsContinue ==
    ASSUME NEW old \in SUBSET ColumnRow, NEW new \in SUBSET ColumnRow, NEW k \in Nat,
           Continues(old, new, k), NEW s \in Nat, s < k
    PROVE  {[table |-> r.table, id |-> r.id, name |-> r.name] : r \in Visible(new, s)}
             = {[table |-> r.table, id |-> r.id, name |-> r.name] : r \in Visible(old, s)}
  <1> DEFINE A == {[table |-> r.table, id |-> r.id, name |-> r.name] : r \in Visible(new, s)}
             B == {[table |-> r.table, id |-> r.id, name |-> r.name] : r \in Visible(old, s)}
  <1>1. \A r \in Visible(new, s) : \E q \in Visible(old, s) :
            q.table = r.table /\ q.id = r.id /\ q.name = r.name
    <2> SUFFICES ASSUME NEW r \in Visible(new, s)
                 PROVE  \E q \in Visible(old, s) : q.table = r.table /\ q.id = r.id /\ q.name = r.name
      OBVIOUS
    <2>1. r \in new /\ r.begin <= s /\ (r.end = NULL \/ s < r.end)
      BY DEF Visible, VisibleAt
    <2>2. CASE r \in old
      BY <2>1, <2>2 DEF Visible, VisibleAt
    <2>3. ASSUME NEW q \in old, q.end = NULL, r = [q EXCEPT !.end = k]
          PROVE  \E p \in Visible(old, s) : p.table = r.table /\ p.id = r.id /\ p.name = r.name
      <3>1. q.table = r.table /\ q.id = r.id /\ q.name = r.name /\ q.begin = r.begin
        BY <2>3 DEF ColumnRow
      <3>2. q \in Visible(old, s)
        BY <2>1, <2>3, <3>1 DEF Visible, VisibleAt
      <3> QED BY <3>1, <3>2
    <2>4. ~ (r.begin = k)
      BY <2>1
    <2> QED BY <2>1, <2>2, <2>3, <2>4 DEF Continues
  <1>2. \A q \in Visible(old, s) : \E r \in Visible(new, s) :
            q.table = r.table /\ q.id = r.id /\ q.name = r.name
    <2> SUFFICES ASSUME NEW q \in Visible(old, s)
                 PROVE  \E r \in Visible(new, s) : q.table = r.table /\ q.id = r.id /\ q.name = r.name
      OBVIOUS
    <2>1. q \in old /\ q.begin <= s /\ (q.end = NULL \/ s < q.end)
      BY DEF Visible, VisibleAt
    <2>2. CASE q \in new
      BY <2>1, <2>2 DEF Visible, VisibleAt
    <2>3. CASE q.end = NULL /\ [q EXCEPT !.end = k] \in new
      <3> DEFINE r == [q EXCEPT !.end = k]
      <3>1. q.table = r.table /\ q.id = r.id /\ q.name = r.name /\ r.begin = q.begin /\ r.end = k
        BY <2>1 DEF ColumnRow
      <3>2. r \in Visible(new, s)
        BY <2>1, <2>3, <3>1 DEF Visible, VisibleAt
      <3> QED BY <3>1, <3>2
    <2> QED BY <2>1, <2>2, <2>3 DEF Continues
  <1>3. A \subseteq B
    BY <1>1
  <1>4. B \subseteq A
    BY <1>2
  <1> QED BY <1>3, <1>4

FileNames(rows, s) == {f.file : f \in Visible(rows, s)}

\* The files a reader of an older snapshot sees are the same.
LEMMA FilesContinue ==
    ASSUME NEW old \in SUBSET FileRow, NEW new \in SUBSET FileRow, NEW k \in Nat,
           Continues(old, new, k), NEW s \in Nat, s < k
    PROVE  FileNames(new, s) = FileNames(old, s)
  <1>1. \A r \in Visible(new, s) : \E q \in Visible(old, s) :
            q.file = r.file
    <2> SUFFICES ASSUME NEW r \in Visible(new, s)
                 PROVE  \E q \in Visible(old, s) : q.file = r.file
      OBVIOUS
    <2>1. r \in new /\ r.begin <= s /\ (r.end = NULL \/ s < r.end)
      BY DEF Visible, VisibleAt
    <2>2. CASE r \in old
      BY <2>1, <2>2 DEF Visible, VisibleAt
    <2>3. ASSUME NEW q \in old, q.end = NULL, r = [q EXCEPT !.end = k]
          PROVE  \E p \in Visible(old, s) : p.file = r.file
      <3>1. q.file = r.file /\ q.begin = r.begin
        BY <2>3 DEF FileRow
      <3>2. q \in Visible(old, s)
        BY <2>1, <2>3, <3>1 DEF Visible, VisibleAt
      <3> QED BY <3>1, <3>2
    <2>4. ~ (r.begin = k)
      BY <2>1
    <2> QED BY <2>1, <2>2, <2>3, <2>4 DEF Continues
  <1>2. \A q \in Visible(old, s) : \E r \in Visible(new, s) :
            q.file = r.file
    <2> SUFFICES ASSUME NEW q \in Visible(old, s)
                 PROVE  \E r \in Visible(new, s) : q.file = r.file
      OBVIOUS
    <2>1. q \in old /\ q.begin <= s /\ (q.end = NULL \/ s < q.end)
      BY DEF Visible, VisibleAt
    <2>2. CASE q \in new
      BY <2>1, <2>2 DEF Visible, VisibleAt
    <2>3. CASE q.end = NULL /\ [q EXCEPT !.end = k] \in new
      <3> DEFINE r == [q EXCEPT !.end = k]
      <3>1. q.file = r.file /\ r.begin = q.begin /\ r.end = k
        BY <2>1 DEF FileRow
      <3>2. r \in Visible(new, s)
        BY <2>1, <2>3, <3>1 DEF Visible, VisibleAt
      <3> QED BY <3>1, <3>2
    <2> QED BY <2>1, <2>2, <2>3 DEF Continues
  <1> QED BY <1>1, <1>2 DEF FileNames

Replaced(old, gone, added, new, k) ==
    new = {IF r \in gone THEN [r EXCEPT !.end = k] ELSE r : r \in old} \union added

\* Ending rows that are alive and adding new ones continues the rows.
LEMMA RetireContinues ==
    ASSUME NEW old, NEW gone, NEW added, NEW k \in Nat, gone \subseteq Live(old),
           \A r \in added : r.begin = k /\ r.end = NULL,
           NEW new, Replaced(old, gone, added, new, k)
    PROVE  Continues(old, new, k)
  BY DEF Continues, Live, Replaced

\* Adding rows continues the rows.
LEMMA AddContinues ==
    ASSUME NEW old, NEW added, NEW k \in Nat, \A r \in added : r.begin = k /\ r.end = NULL
    PROVE  Continues(old, old \union added, k)
  BY DEF Continues

\* Rows that begin and end where a schema version begins are the same for all
\* snapshots of one schema version.
LEMMA SameRows ==
    ASSUME NEW n \in Nat, NEW f, \A s \in 1 .. n : f[s].version \in Nat,
           \A r, s \in 1 .. n : r <= s => f[r].version <= f[s].version,
           NEW rows,
           \A r \in rows :
              /\ r.begin \in 1 .. n
              /\ \A s \in 1 .. n : s < r.begin => f[s].version < f[r.begin].version
              /\ \/ r.end = NULL
                 \/ /\ r.end \in 1 .. n
                    /\ \A s \in 1 .. n : s < r.end => f[s].version < f[r.end].version,
           NEW a \in 1 .. n, NEW b \in 1 .. n, f[a].version = f[b].version
    PROVE  Visible(rows, a) = Visible(rows, b)
  <1>1. ASSUME NEW k \in 1 .. n, \A s \in 1 .. n : s < k => f[s].version < f[k].version
        PROVE  k <= a <=> k <= b
    <2>1. ASSUME k <= a, ~ (k <= b) PROVE FALSE
      <3>1. f[k].version <= f[a].version /\ f[b].version < f[k].version
        BY <1>1, <2>1
      <3>2. f[k].version \in Nat /\ f[a].version \in Nat
        OBVIOUS
      <3> QED BY <3>1, <3>2
    <2>2. ASSUME k <= b, ~ (k <= a) PROVE FALSE
      <3>1. f[k].version <= f[b].version /\ f[a].version < f[k].version
        BY <1>1, <2>2
      <3>2. f[k].version \in Nat /\ f[a].version \in Nat
        OBVIOUS
      <3> QED BY <3>1, <3>2
    <2> QED BY <2>1, <2>2
  <1>2. ASSUME NEW r \in rows PROVE VisibleAt(r, a) <=> VisibleAt(r, b)
    <2>1. r.begin <= a <=> r.begin <= b
      BY <1>1
    <2>2. CASE r.end = NULL
      BY <2>1, <2>2 DEF VisibleAt
    <2>3. CASE r.end # NULL
      <3>1. r.end \in 1 .. n /\ (r.end <= a <=> r.end <= b)
        BY <1>1, <2>3
      <3>2. a < r.end <=> b < r.end
        BY <3>1
      <3> QED BY <2>1, <3>2 DEF VisibleAt
    <2> QED BY <2>2, <2>3
  <1> QED BY <1>2 DEF Visible

\* The catalog is that of its schema version.
LEMMA SameVersion ==
    ASSUME SnapshotsNumbered, RowsDated, NEW a \in Hist, NEW b \in Hist, V(a) = V(b)
    PROVE  CatalogOf(a) = CatalogOf(b)
  <1>1. HeadId \in Nat /\ Hist = 1 .. HeadId
    BY DEF SnapshotsNumbered
  <1> DEFINE n == HeadId
             f == history
  <1>2. n \in Nat /\ a \in 1 .. n /\ b \in 1 .. n /\ f[a].version = f[b].version
    BY <1>1 DEF V
  <1>3. /\ \A s \in 1 .. n : f[s].version \in Nat
        /\ \A r, s \in 1 .. n : r <= s => f[r].version <= f[s].version
    BY <1>1 DEF SnapshotsNumbered, V
  <1>4. ASSUME NEW rows, SchemaDated(rows) PROVE Visible(rows, a) = Visible(rows, b)
    <2>1. \A r \in rows :
              /\ r.begin \in 1 .. n
              /\ \A s \in 1 .. n : s < r.begin => f[s].version < f[r.begin].version
              /\ \/ r.end = NULL
                 \/ /\ r.end \in 1 .. n
                    /\ \A s \in 1 .. n : s < r.end => f[s].version < f[r.end].version
      BY <1>1, <1>4 DEF SchemaDated, Starts, V
    <2> HIDE DEF n, f
    <2> QED BY <1>2, <1>3, <2>1, SameRows
  <1>5. Visible(tables, a) = Visible(tables, b) /\ Visible(columns, a) = Visible(columns, b)
    BY <1>4 DEF RowsDated
  <1> QED BY <1>5 DEF CatalogOf

\* The numbers of a commit: one more snapshot, at the head.
LEMMA CommitNumbers ==
    ASSUME SnapshotsNumbered, NEW new, NEW version, Commit(new, version)
    PROVE  /\ new = New /\ new \in Nat /\ new = HeadId + 1 /\ new \notin Hist
           /\ HeadId' = new /\ Hist' = Hist \union {new}
           /\ DOMAIN snapshots' = DOMAIN snapshots \union {new}
           /\ \A s \in Hist : V(s)' = V(s) /\ history'[s] = history[s]
           /\ V(new)' = version
           /\ version \in Nat /\ NextVersion = V(HeadId) + 1
           /\ SnapshotsNumbered'
  <1>1. /\ new = HeadId + 1 /\ HeadId \in Nat /\ HeadId \in DOMAIN snapshots /\ HeadId \in Hist
        /\ Hist = 1 .. HeadId /\ DOMAIN snapshots \subseteq 1 .. HeadId
        /\ snapshots[HeadId] = V(HeadId) /\ V(HeadId) \in Nat
    BY DEF Commit, New, SnapshotsNumbered
  <1>2. new \in Nat /\ new = New /\ new \notin Hist /\ new \notin DOMAIN snapshots
    BY <1>1 DEF New
  <1>3. /\ version \in Nat /\ V(HeadId) <= version
        /\ NextVersion = V(HeadId) + 1
    BY <1>1 DEF Commit, NextVersion
  <1>4. /\ DOMAIN snapshots' = DOMAIN snapshots \union {new}
        /\ \A s \in DOMAIN snapshots : snapshots'[s] = snapshots[s]
        /\ snapshots'[new] = version
    BY <1>2 DEF Commit, Append
  <1>5. /\ DOMAIN history' = DOMAIN history \union {new}
        /\ \A s \in DOMAIN history : history'[s] = history[s]
        /\ history'[new].version = version
    BY <1>2 DEF Commit, Append, Hist
  <1>6. HeadId' = new
    <2>1. DOMAIN snapshots' \in SUBSET Int /\ new \in DOMAIN snapshots'
          /\ \A x \in DOMAIN snapshots' : x <= new
      BY <1>1, <1>2, <1>4
    <2> DEFINE S == DOMAIN snapshots'
    <2>2. Max(S) = new
      <3> HIDE DEF S
      <3>1. S \in SUBSET Int /\ new \in S /\ \A x \in S : x <= new
        BY <2>1 DEF S
      <3> QED BY <3>1, MaxIs
    <2> QED BY <2>2 DEF HeadId
  <1>7. Hist' = Hist \union {new} /\ \A s \in Hist : V(s)' = V(s) /\ history'[s] = history[s]
    BY <1>5 DEF Hist, V
  <1>8. V(new)' = version
    BY <1>5 DEF V
  <1>9. SnapshotsNumbered'
    <2>1. HeadId' \in DOMAIN snapshots' /\ HeadId' \in Nat
      BY <1>2, <1>4, <1>6
    <2>2. Hist' = 1 .. HeadId'
      BY <1>1, <1>6, <1>7
    <2>3. DOMAIN snapshots' \subseteq Hist'
      BY <1>1, <1>4, <1>7
    <2>4. \A s \in Hist' : V(s)' \in Nat
      BY <1>3, <1>7, <1>8 DEF SnapshotsNumbered
    <2>5. \A s \in DOMAIN snapshots' : snapshots'[s] = V(s)'
      BY <1>1, <1>4, <1>7, <1>8 DEF SnapshotsNumbered
    <2>6. \A r, s \in Hist' : r <= s => V(r)' <= V(s)'
      <3> SUFFICES ASSUME NEW r \in Hist', NEW s \in Hist', r <= s PROVE V(r)' <= V(s)'
        OBVIOUS
      <3>1. CASE r \in Hist /\ s \in Hist
        BY <1>7, <3>1 DEF SnapshotsNumbered
      <3>2. CASE s = new /\ r \in Hist
        <4>1. V(r) <= V(HeadId) /\ V(r) \in Nat
          BY <1>1, <3>2 DEF SnapshotsNumbered
        <4> QED BY <1>1, <1>3, <1>7, <1>8, <3>2, <4>1
      <3>3. CASE s = new /\ r = new
        BY <1>3, <1>8, <3>3
      <3>4. CASE r = new /\ s \in Hist
        BY <1>1, <1>2, <3>4
      <3> QED BY <1>7, <3>1, <3>2, <3>3, <3>4
    <2> QED BY <2>1, <2>2, <2>3, <2>4, <2>5, <2>6 DEF SnapshotsNumbered
  <1> QED BY <1>1, <1>2, <1>3, <1>4, <1>6, <1>7, <1>8, <1>9

-----------------------------------------------------------------------------
(* What the changes of a commit with ID k do to the rows.                  *)

\* Files are added and their deletions replaced; a row is inlined into a table
\* that exists.
DataChanged(k) ==
    /\ RowsTyped'
    /\ Continues(files, files', k) /\ Continues(deletes, deletes', k)
    /\ inlineRows \subseteq inlineRows'
    /\ \A x \in inlineRows' \ inlineRows :
          /\ x.begin = k /\ x.end = NULL
          /\ \E i \in inlineTables : i.version = x.version /\ x.columns = ColumnIds(i.columns)
    /\ UNCHANGED <<tables, columns, inlineTables, schemaVersions>>

\* Tables and columns change; a new inlined data table has the columns that the
\* table has now.
SchemaChanged(k) ==
    /\ RowsTyped'
    /\ Continues(tables, tables', k) /\ Continues(columns, columns', k)
    /\ Continues(files, files', k) /\ Continues(deletes, deletes', k)
    /\ inlineRows' = inlineRows
    /\ inlineTables \subseteq inlineTables' /\ schemaVersions \subseteq schemaVersions'
    /\ \A r \in schemaVersions' \ schemaVersions : r.begin = k /\ r.version = NextVersion
    /\ Visible(columns', k) # {} => \E r \in Visible(tables', k) : r.id = Scanned
    /\ \A i \in inlineTables' \ inlineTables :
          /\ i.version = NextVersion
          /\ \E r \in schemaVersions' : r.table = Scanned /\ r.version = i.version
          /\ \E r \in Visible(tables', k) : r.id = Scanned
          /\ i.columns = {[id |-> c.id, name |-> c.name] : c \in Visible(columns', k)}
    /\ TableIsLive' => \E i \in inlineTables' : \A j \in inlineTables' : j.version <= i.version

\* Adding a data file.
LEMMA WriteFileRows ==
    ASSUME DatabaseHolds, NEW k \in Nat, k = New, WriteFile
    PROVE  DataChanged(k)
  <1> DEFINE added == {[file |-> k, begin |-> k, end |-> NULL]}
  <1>1. files' = files \union added /\ added \in SUBSET FileRow
    BY DEF WriteFile, FileRow, Ends
  <1>2. Continues(files, files', k)
    <2>1. \A r \in added : r.begin = k /\ r.end = NULL
      OBVIOUS
    <2> HIDE DEF added
    <2> QED BY <1>1, <2>1, AddContinues
  <1>3. UNCHANGED <<tables, columns, deletes, inlineTables, inlineRows, schemaVersions>>
    BY DEF WriteFile
  <1>4. RowsTyped'
    BY <1>1, <1>3 DEF RowsTyped, DatabaseHolds
  <1>5. Continues(deletes, deletes', k)
    BY <1>3 DEF Continues
  <1> QED BY <1>2, <1>3, <1>4, <1>5 DEF DataChanged

\* Ending rows keeps their types.
LEMMA RetireTyped ==
    ASSUME NEW k \in Nat, k = New, NEW rows, NEW gone,
           NEW Row \in {TableRow, ColumnRow, FileRow}, rows \in SUBSET Row
    PROVE  Retire(rows, gone) \in SUBSET Row
  <1>1. ASSUME NEW r \in rows PROVE [r EXCEPT !.end = k] \in Row
    <2>1. CASE Row = TableRow
      BY <1>1, <2>1 DEF TableRow, Ends
    <2>2. CASE Row = ColumnRow
      BY <1>1, <2>2 DEF ColumnRow, Ends
    <2>3. CASE Row = FileRow
      BY <1>1, <2>3 DEF FileRow, Ends
    <2> QED BY <2>1, <2>2, <2>3
  <1> QED BY <1>1 DEF Retire

\* Deleting rows of a file.
LEMMA DeleteRowsRows ==
    ASSUME DatabaseHolds, NEW k \in Nat, k = New, DeleteRows
    PROVE  DataChanged(k)
  <1>1. PICK f \in Live(files) :
          deletes' = Retire(deletes, {d \in Live(deletes) : d.file = f.file})
                        \union {[file |-> f.file, begin |-> k, end |-> NULL]}
    BY DEF DeleteRows
  <1> DEFINE added == {[file |-> f.file, begin |-> k, end |-> NULL]}
             gone == {d \in Live(deletes) : d.file = f.file}
  <1>2. added \in SUBSET FileRow
    <2>1. f.file \in Nat
      BY DEF DatabaseHolds, RowsTyped, FileRow, Live
    <2> QED BY <2>1 DEF FileRow, Ends
  <1>3. deletes \in SUBSET FileRow
    BY DEF DatabaseHolds, RowsTyped
  <1>4. Retire(deletes, gone) \in SUBSET FileRow
    BY <1>3, RetireTyped
  <1>5. deletes' \in SUBSET FileRow
    BY <1>1, <1>2, <1>4
  <1>6. Continues(deletes, deletes', k)
    <2>1. gone \subseteq Live(deletes) /\ \A r \in added : r.begin = k /\ r.end = NULL
      OBVIOUS
    <2>2. Replaced(deletes, gone, added, deletes', k)
      BY <1>1 DEF Retire, Replaced
    <2> HIDE DEF gone, added
    <2> QED BY <2>1, <2>2, RetireContinues
  <1>7. UNCHANGED <<tables, columns, files, inlineTables, inlineRows, schemaVersions>>
    BY DEF DeleteRows
  <1>8. RowsTyped'
    BY <1>5, <1>7 DEF RowsTyped, DatabaseHolds
  <1>9. Continues(files, files', k)
    BY <1>7 DEF Continues
  <1> QED BY <1>6, <1>7, <1>8, <1>9 DEF DataChanged

\* Inlined rows go to the newest inlined data table.
LEMMA WriteInlineRows ==
    ASSUME DatabaseHolds, NEW k \in Nat, k = New, WriteInline
    PROVE  DataChanged(k)
  <1>1. PICK i \in inlineTables : i = LatestInlineTable
    <2>1. TableIsLive
      BY DEF WriteInline
    <2>2. \A j \in inlineTables : j.table = Scanned
      BY DEF DatabaseHolds, RowsTyped, InlineTable
    <2>3. PICK j \in inlineTables : j.table = Scanned /\ \A l \in inlineTables :
              l.table = Scanned => l.version <= j.version
      BY <2>1, <2>2 DEF DatabaseHolds, InlineHolds
    <2>4. LatestInlineTable \in inlineTables
      BY <2>3 DEF LatestInlineTable
    <2> QED BY <2>4
  <1> DEFINE x == [row |-> k, version |-> i.version, columns |-> ColumnIds(i.columns),
                   begin |-> k, end |-> NULL]
  <1>2. inlineRows' = inlineRows \union {x}
    BY <1>1 DEF WriteInline
  <1>3. x \in InlineRow
    <2>1. i.version \in Nat /\ i.columns \in SUBSET Field
      BY DEF DatabaseHolds, RowsTyped, InlineTable
    <2>2. ColumnIds(i.columns) \in SUBSET Nat
      BY <2>1 DEF ColumnIds, Field
    <2> QED BY <2>1, <2>2 DEF InlineRow, Ends
  <1>4. UNCHANGED <<tables, columns, files, deletes, inlineTables, schemaVersions>>
    BY DEF WriteInline
  <1>5. RowsTyped'
    BY <1>2, <1>3, <1>4 DEF RowsTyped, DatabaseHolds
  <1>6. Continues(files, files', k) /\ Continues(deletes, deletes', k)
    BY <1>4 DEF Continues
  <1>7. \A y \in inlineRows' \ inlineRows :
          /\ y.begin = k /\ y.end = NULL
          /\ \E j \in inlineTables : j.version = y.version /\ y.columns = ColumnIds(j.columns)
    BY <1>2
  <1> QED BY <1>2, <1>4, <1>5, <1>6, <1>7 DEF DataChanged

Older(rows, k) ==
    \A r \in rows : /\ "end" \in DOMAIN r
                    /\ r.begin \in Nat /\ r.begin < k
                    /\ r.end = NULL \/ (r.end \in Nat /\ r.end < k)

\* After a commit with ID k, its readers see the rows that are alive.
LEMMA VisibleAfter ==
    ASSUME NEW k \in Nat, NEW rows, Older(rows, k),
           NEW gone, gone \subseteq Live(rows), NEW added,
           \A r \in added : r.begin = k /\ r.end = NULL,
           NEW new, Replaced(rows, gone, added, new, k)
    PROVE  Visible(new, k) = (Live(rows) \ gone) \union added
  <1> DEFINE retired == {IF r \in gone THEN [r EXCEPT !.end = k] ELSE r : r \in rows}
  <1>1. \A r \in rows : r \in gone => [r EXCEPT !.end = k].end = k
    BY DEF Older
  <1>2. \A r \in rows : VisibleAt(r, k) <=> r.end = NULL
    BY DEF VisibleAt, NULL, Older
  <1>3. \A r \in added : VisibleAt(r, k)
    BY DEF VisibleAt, NULL
  <1>4. ASSUME NEW r \in gone PROVE ~ VisibleAt([r EXCEPT !.end = k], k)
    <2>1. r \in rows
      BY DEF Live
    <2>2. [r EXCEPT !.end = k].end = k
      BY <1>1, <2>1
    <2> QED BY <2>2 DEF VisibleAt, NULL
  <1> new = retired \union added
    BY DEF Replaced
  <1>5. ASSUME NEW q \in Visible(new, k)
        PROVE  q \in (Live(rows) \ gone) \union added
    <2>1. VisibleAt(q, k) /\ (q \in retired \/ q \in added)
      BY DEF Visible
    <2>2. CASE q \in retired
      <3>1. PICK r \in rows : q = IF r \in gone THEN [r EXCEPT !.end = k] ELSE r
        BY <2>2
      <3>2. r \notin gone
        BY <1>4, <2>1, <3>1
      <3> QED BY <1>2, <2>1, <3>1, <3>2 DEF Live
    <2> QED BY <2>1, <2>2
  <1>6. ASSUME NEW q \in (Live(rows) \ gone) \union added
        PROVE  q \in Visible(new, k)
    <2>1. CASE q \in added
      BY <1>3, <2>1 DEF Visible
    <2>2. CASE q \in Live(rows) \ gone
      <3>1. q \in rows /\ q.end = NULL /\ q \notin gone
        BY <2>2 DEF Live
      <3>2. q \in retired
        BY <3>1
      <3> QED BY <1>2, <3>1, <3>2 DEF Visible
    <2> QED BY <2>1, <2>2
  <1> QED BY <1>5, <1>6

\* Rows of tables and columns are dated, and their types are known.
LEMMA SchemaRows ==
    ASSUME DatabaseHolds, NEW k \in Nat, k = New
    PROVE  /\ HeadId \in Nat /\ k = HeadId + 1
           /\ Older(tables, k) /\ Older(columns, k)
           /\ tables \in SUBSET TableRow /\ columns \in SUBSET ColumnRow
           /\ ColumnsNow = Live(columns)
           /\ NextVersion \in Nat /\ NextVersion = V(HeadId) + 1
           /\ \A i \in inlineTables : i.version < NextVersion /\ i.version \in Nat
  <1>1. /\ HeadId \in Nat /\ k = HeadId + 1 /\ Hist = 1 .. HeadId
        /\ HeadId \in Hist /\ V(HeadId) \in Nat /\ snapshots[HeadId] = V(HeadId)
    BY DEF DatabaseHolds, SnapshotsNumbered, New
  <1>3. tables \in SUBSET TableRow /\ columns \in SUBSET ColumnRow
    BY DEF DatabaseHolds, RowsTyped
  <1>2. Older(tables, k) /\ Older(columns, k)
    <2>1. \A r \in tables \union columns :
                 r.begin \in 1 .. HeadId /\ (r.end = NULL \/ r.end \in 1 .. HeadId)
      BY <1>1 DEF DatabaseHolds, RowsDated, SchemaDated, Starts
    <2>2. \A r \in tables \union columns : "end" \in DOMAIN r
      BY <1>3 DEF TableRow, ColumnRow
    <2> QED BY <1>1, <2>1, <2>2 DEF Older
  <1>4. ColumnsNow = Live(columns)
    BY <1>3 DEF ColumnsNow, Live, ColumnRow
  <1>5. NextVersion \in Nat /\ NextVersion = V(HeadId) + 1
    BY <1>1 DEF NextVersion
  <1>6. ASSUME NEW i \in inlineTables PROVE i.version < NextVersion /\ i.version \in Nat
    <2>1. PICK r \in schemaVersions : r.version = i.version
      BY DEF DatabaseHolds, InlineHolds
    <2>2. r.begin \in Hist /\ V(r.begin) = i.version
      BY <2>1 DEF DatabaseHolds, InlineHolds
    <2>3. V(r.begin) <= V(HeadId) /\ V(r.begin) \in Nat
      BY <1>1, <2>2 DEF DatabaseHolds, SnapshotsNumbered
    <2> QED BY <1>1, <1>5, <2>2, <2>3
  <1> QED BY <1>1, <1>2, <1>3, <1>4, <1>5, <1>6

\* The new inlined data table is the newest, and has a schema version.
LEMMA NewInlineRows ==
    ASSUME DatabaseHolds, NEW k \in Nat, k = New, NEW cols \in SUBSET ColumnRow,
           NewInlineTable(cols)
    PROVE  /\ inlineTables' \in SUBSET InlineTable /\ schemaVersions' \in SUBSET VersionRow
           /\ inlineTables \subseteq inlineTables' /\ schemaVersions \subseteq schemaVersions'
           /\ \A r \in schemaVersions' \ schemaVersions : r.begin = k /\ r.version = NextVersion
           /\ \A i \in inlineTables' \ inlineTables :
                 /\ i.version = NextVersion
                 /\ \E r \in schemaVersions' : r.table = Scanned /\ r.version = i.version
                 /\ i.columns = {[id |-> c.id, name |-> c.name] : c \in cols}
           /\ \E i \in inlineTables' : \A j \in inlineTables' : j.version <= i.version
  <1> DEFINE fields == {[id |-> c.id, name |-> c.name] : c \in cols}
             i == [table |-> Scanned, version |-> NextVersion, columns |-> fields]
             r == [table |-> Scanned, begin |-> k, version |-> NextVersion]
  <1>1. inlineTables' = inlineTables \union {i} /\ schemaVersions' = schemaVersions \union {r}
    BY DEF NewInlineTable
  <1>2. NextVersion \in Nat /\ \A j \in inlineTables : j.version < NextVersion /\ j.version \in Nat
    BY SchemaRows
  <1>3. fields \in SUBSET Field
    BY DEF Field, ColumnRow
  <1>4. i \in InlineTable /\ r \in VersionRow
    BY <1>2, <1>3 DEF InlineTable, VersionRow, Scanned
  <1>5. inlineTables \in SUBSET InlineTable /\ schemaVersions \in SUBSET VersionRow
    BY DEF DatabaseHolds, RowsTyped
  <1>6. i.version = NextVersion /\ i.columns = fields /\ r.begin = k /\ r.version = NextVersion
        /\ r.table = Scanned
    OBVIOUS
  <1>7. \A j \in inlineTables' : j.version <= i.version
    BY <1>1, <1>2, <1>6
  <1> HIDE DEF i, r
  <1>8. \A j \in inlineTables' \ inlineTables :
                 /\ j.version = NextVersion
                 /\ \E q \in schemaVersions' : q.table = Scanned /\ q.version = j.version
                 /\ j.columns = fields
    BY <1>1, <1>6
  <1> QED BY <1>1, <1>4, <1>5, <1>6, <1>7, <1>8

\* Adding a column.
LEMMA AddColumnRows ==
    ASSUME DatabaseHolds, NEW k \in Nat, k = New, AddColumn
    PROVE  SchemaChanged(k)
  <1> DEFINE c == [table |-> Scanned, id |-> 2, name |-> "y", begin |-> k, end |-> NULL]
             added == {c}
             cols == Live(columns) \union added
  <1>1. /\ HeadId \in Nat /\ k = HeadId + 1
        /\ Older(tables, k) /\ Older(columns, k)
        /\ tables \in SUBSET TableRow /\ columns \in SUBSET ColumnRow
        /\ ColumnsNow = Live(columns)
    BY SchemaRows
  <1>2. columns' = columns \union added /\ NewInlineTable(cols)
    BY <1>1 DEF AddColumn
  <1>3. UNCHANGED <<tables, files, deletes, inlineRows>>
    BY DEF AddColumn
  <1>4. c \in ColumnRow
    BY DEF ColumnRow, Ends, Names
  <1>5. \A r \in added : r.begin = k /\ r.end = NULL
    OBVIOUS
  <1>6. cols \in SUBSET ColumnRow /\ columns' \in SUBSET ColumnRow
    BY <1>1, <1>2, <1>4 DEF Live
  <1> HIDE DEF added
  <1>7. Visible(columns', k) = cols
    <2> DEFINE gone == {}
    <2>1. Replaced(columns, gone, added, columns', k)
      BY <1>2 DEF Replaced
    <2>2. gone \subseteq Live(columns)
      OBVIOUS
    <2> HIDE DEF gone
    <2>5. Visible(columns', k) = (Live(columns) \ gone) \union added
      BY <1>1, <1>5, <2>1, <2>2, VisibleAfter
    <2> QED BY <2>5 DEF gone
  <1>8. Continues(columns, columns', k)
    BY <1>2, <1>5, AddContinues
  <1>9. Continues(tables, tables', k) /\ Continues(files, files', k)
        /\ Continues(deletes, deletes', k)
    BY <1>3 DEF Continues
  <1>10. \E r \in Visible(tables', k) : r.id = Scanned
    <2>1. PICK r \in tables : r.end = NULL /\ r.id = Scanned
      BY DEF AddColumn, TableIsLive, Live
    <2>2. r.begin <= k
      BY <1>1 DEF Older
    <2> QED BY <1>3, <2>1, <2>2 DEF Visible, VisibleAt
  <1> HIDE DEF cols
  <1>11. /\ inlineTables' \in SUBSET InlineTable /\ schemaVersions' \in SUBSET VersionRow
         /\ inlineTables \subseteq inlineTables' /\ schemaVersions \subseteq schemaVersions'
         /\ \A r \in schemaVersions' \ schemaVersions : r.begin = k /\ r.version = NextVersion
         /\ \A i \in inlineTables' \ inlineTables :
                 /\ i.version = NextVersion
                 /\ \E r \in schemaVersions' : r.table = Scanned /\ r.version = i.version
                 /\ i.columns = {[id |-> d.id, name |-> d.name] : d \in cols}
         /\ \E i \in inlineTables' : \A j \in inlineTables' : j.version <= i.version
    BY <1>2, <1>6, NewInlineRows
  <1>12. RowsTyped'
    BY <1>3, <1>6, <1>11 DEF RowsTyped, DatabaseHolds
  <1> QED BY <1>3, <1>7, <1>8, <1>9, <1>10, <1>11, <1>12 DEF SchemaChanged

\* Renaming a column.
LEMMA RenameColumnRows ==
    ASSUME DatabaseHolds, NEW k \in Nat, k = New, RenameColumn
    PROVE  SchemaChanged(k)
  <1>1. /\ HeadId \in Nat /\ k = HeadId + 1
        /\ Older(tables, k) /\ Older(columns, k)
        /\ tables \in SUBSET TableRow /\ columns \in SUBSET ColumnRow
        /\ ColumnsNow = Live(columns)
    BY SchemaRows
  <1>2. PICK old \in ColumnsNow :
          /\ columns' = Retire(columns, {old})
                \union {[old EXCEPT !.name = IF old.name = "x" THEN "z" ELSE "x", !.begin = k]}
          /\ NewInlineTable((ColumnsNow \ {old})
                \union {[old EXCEPT !.name = IF old.name = "x" THEN "z" ELSE "x", !.begin = k]})
    BY DEF RenameColumn
  <1> DEFINE c == [old EXCEPT !.name = IF old.name = "x" THEN "z" ELSE "x", !.begin = k]
             added == {c}
             gone == {old}
             cols == (Live(columns) \ gone) \union added
  <1>3. UNCHANGED <<tables, files, deletes, inlineRows>>
    BY DEF RenameColumn
  <1>4. old \in ColumnRow /\ old.end = NULL /\ old \in columns
    BY <1>1 DEF Live
  <1>5. c \in ColumnRow /\ c.begin = k /\ c.end = NULL
    BY <1>4 DEF ColumnRow, Ends, Names
  <1>6. cols \in SUBSET ColumnRow
    BY <1>1, <1>5 DEF Live
  <1>7. columns' \in SUBSET ColumnRow
    <2>1. Retire(columns, {old}) \in SUBSET ColumnRow
      BY <1>1, RetireTyped
    <2> HIDE DEF c
    <2>2. columns' = Retire(columns, {old}) \union {c}
      BY <1>2 DEF c
    <2> QED BY <1>5, <2>1, <2>2
  <1>8. NewInlineTable(cols)
    BY <1>1, <1>2
  <1>9. Replaced(columns, gone, added, columns', k)
    BY <1>2 DEF Retire, Replaced
  <1>10. gone \subseteq Live(columns) /\ \A r \in added : r.begin = k /\ r.end = NULL
    BY <1>1, <1>5
  <1> HIDE DEF c, added, gone
  <1>11. Visible(columns', k) = cols
    BY <1>1, <1>9, <1>10, VisibleAfter
  <1>12. Continues(columns, columns', k)
    BY <1>9, <1>10, RetireContinues
  <1>13. Continues(tables, tables', k) /\ Continues(files, files', k)
         /\ Continues(deletes, deletes', k)
    BY <1>3 DEF Continues
  <1>14. \E r \in Visible(tables', k) : r.id = Scanned
    <2>1. PICK r \in tables : r.end = NULL /\ r.id = Scanned
      BY DEF RenameColumn, TableIsLive, Live
    <2>2. r.begin <= k
      BY <1>1 DEF Older
    <2> QED BY <1>3, <2>1, <2>2 DEF Visible, VisibleAt
  <1> HIDE DEF cols
  <1>15. /\ inlineTables' \in SUBSET InlineTable /\ schemaVersions' \in SUBSET VersionRow
         /\ inlineTables \subseteq inlineTables' /\ schemaVersions \subseteq schemaVersions'
         /\ \A r \in schemaVersions' \ schemaVersions : r.begin = k /\ r.version = NextVersion
         /\ \A i \in inlineTables' \ inlineTables :
                 /\ i.version = NextVersion
                 /\ \E r \in schemaVersions' : r.table = Scanned /\ r.version = i.version
                 /\ i.columns = {[id |-> d.id, name |-> d.name] : d \in cols}
         /\ \E i \in inlineTables' : \A j \in inlineTables' : j.version <= i.version
    BY <1>6, <1>8, NewInlineRows
  <1>16. RowsTyped'
    BY <1>3, <1>7, <1>15 DEF RowsTyped, DatabaseHolds
  <1> QED BY <1>3, <1>11, <1>12, <1>13, <1>14, <1>15, <1>16 DEF SchemaChanged

\* A table with columns that are alive is alive.
LEMMA ColumnsHaveTable ==
    ASSUME DatabaseHolds, Live(columns) # {}
    PROVE  TableIsLive
  <1>1. PICK c \in columns : c.end = NULL
    BY DEF Live
  <1>2. HeadId \in Nat /\ HeadId \in Hist /\ Hist = 1 .. HeadId
    BY DEF DatabaseHolds, SnapshotsNumbered
  <1>3. c.begin \in 1 .. HeadId
    BY <1>2 DEF DatabaseHolds, RowsDated, SchemaDated, Starts
  <1>4. c \in Visible(columns, HeadId)
    BY <1>1, <1>2, <1>3 DEF Visible, VisibleAt
  <1>5. PICK r \in Visible(tables, HeadId) : r.id = Scanned
    BY <1>2, <1>4 DEF DatabaseHolds, ColumnsInTable, TableVisible
  <1>6. r \in tables /\ (r.end = NULL \/ HeadId < r.end)
    BY DEF Visible, VisibleAt
  <1>7. r.end = NULL \/ r.end \in 1 .. HeadId
    BY <1>2, <1>6 DEF DatabaseHolds, RowsDated, SchemaDated, Starts
  <1>8. r.end = NULL
    BY <1>2, <1>6, <1>7
  <1> QED BY <1>5, <1>6, <1>8 DEF TableIsLive, Live

\* Dropping the table.
LEMMA DropTableRows ==
    ASSUME DatabaseHolds, NEW k \in Nat, k = New, DropTable
    PROVE  SchemaChanged(k)
  <1>1. /\ HeadId \in Nat /\ k = HeadId + 1
        /\ Older(tables, k) /\ Older(columns, k)
        /\ tables \in SUBSET TableRow /\ columns \in SUBSET ColumnRow
        /\ ColumnsNow = Live(columns)
    BY SchemaRows
  <1> DEFINE gone == {r \in Live(tables) : r.id = Scanned}
             none == {}
             live == Live(columns)
  <1>2. /\ tables' = Retire(tables, gone) /\ columns' = Retire(columns, Live(columns))
        /\ files' = Retire(files, Live(files)) /\ deletes' = Retire(deletes, Live(deletes))
        /\ UNCHANGED <<inlineTables, inlineRows, schemaVersions>>
    BY <1>1 DEF DropTable
  <1>3. files \in SUBSET FileRow /\ deletes \in SUBSET FileRow
    BY DEF DatabaseHolds, RowsTyped
  <1>4. /\ tables' \in SUBSET TableRow /\ columns' \in SUBSET ColumnRow
        /\ files' \in SUBSET FileRow /\ deletes' \in SUBSET FileRow
    BY <1>1, <1>2, <1>3, RetireTyped
  <1>5. RowsTyped'
    BY <1>2, <1>4 DEF RowsTyped, DatabaseHolds
  <1>6. \A r \in none : r.begin = k /\ r.end = NULL
    OBVIOUS
  <1>7. /\ Replaced(tables, gone, none, tables', k)
        /\ Replaced(columns, live, none, columns', k)
        /\ Replaced(files, Live(files), none, files', k)
        /\ Replaced(deletes, Live(deletes), none, deletes', k)
    BY <1>2 DEF Replaced, Retire
  <1>8. gone \subseteq Live(tables) /\ live \subseteq Live(columns)
    OBVIOUS
  <1>9. ~ TableIsLive'
    <2> SUFFICES ASSUME NEW r \in tables', r.end = NULL, r.id = Scanned PROVE FALSE
      BY DEF TableIsLive, Live
    <2>1. PICK q \in tables : r = IF q \in gone THEN [q EXCEPT !.end = k] ELSE q
      BY <1>2 DEF Retire
    <2>2. CASE q \in gone
      <3>1. r.end = k
        BY <1>1, <2>1, <2>2 DEF TableRow
      <3> QED BY <3>1 DEF NULL
    <2>3. CASE q \notin gone
      BY <2>1, <2>3 DEF Live
    <2> QED BY <2>2, <2>3
  <1> HIDE DEF gone, none, live
  <1>10. Continues(tables, tables', k) /\ Continues(columns, columns', k)
    BY <1>6, <1>7, <1>8, RetireContinues
  <1>11. Continues(files, files', k) /\ Continues(deletes, deletes', k)
    BY <1>6, <1>7, RetireContinues
  <1>12. Visible(columns', k) = {}
    <2>1. Visible(columns', k) = (Live(columns) \ live) \union none
      BY <1>1, <1>6, <1>7, <1>8, VisibleAfter
    <2> QED BY <2>1 DEF live, none
  <1> QED BY <1>2, <1>5, <1>9, <1>10, <1>11, <1>12 DEF SchemaChanged

\* Changes of another table leave the scanned table alone.
LEMMA OtherKeepsTable ==
    ASSUME DatabaseHolds, NEW k \in Nat, k = New, UNCHANGED <<columns, inlineTables>>,
           \A r \in tables : r.id = Scanned => r \in tables',
           \A r \in tables' : r.id = Scanned => r \in tables
    PROVE  /\ Visible(columns', k) # {} => \E r \in Visible(tables', k) : r.id = Scanned
           /\ TableIsLive' => \E i \in inlineTables' : \A j \in inlineTables' : j.version <= i.version
  <1>1. Older(tables, k) /\ Older(columns, k)
    BY SchemaRows
  <1>2. ASSUME Visible(columns', k) # {}
        PROVE  \E r \in Visible(tables', k) : r.id = Scanned
    <2>1. PICK c \in columns : VisibleAt(c, k)
      BY <1>2 DEF Visible
    <2>2. c.end = NULL
      BY <1>1, <2>1 DEF Older, VisibleAt
    <2>3. TableIsLive
      BY <2>2, ColumnsHaveTable DEF Live
    <2>4. PICK r \in tables : r.end = NULL /\ r.id = Scanned
      BY <2>3 DEF TableIsLive, Live
    <2>5. r \in tables' /\ r.begin <= k
      BY <1>1, <2>4 DEF Older
    <2> QED BY <2>4, <2>5 DEF Visible, VisibleAt
  <1>3. TableIsLive' => TableIsLive
    BY DEF TableIsLive, Live
  <1>4. TableIsLive => \E i \in inlineTables : \A j \in inlineTables : j.version <= i.version
    BY DEF DatabaseHolds, InlineHolds
  <1> QED BY <1>2, <1>3, <1>4

\* Creating another table.
LEMMA CreateOtherRows ==
    ASSUME DatabaseHolds, NEW k \in Nat, k = New, CreateOther
    PROVE  SchemaChanged(k)
  <1> DEFINE table == [id |-> Other, name |-> "b", begin |-> k, end |-> NULL]
             added == {table}
             row == [table |-> Other, begin |-> k, version |-> NextVersion]
  <1>1. /\ tables' = tables \union added /\ schemaVersions' = schemaVersions \union {row}
        /\ UNCHANGED <<columns, files, deletes, inlineTables, inlineRows>>
    BY DEF CreateOther
  <1>2. table \in TableRow /\ table.id # Scanned
    BY DEF TableRow, Ends, Names, Other, Scanned
  <1>3. row \in VersionRow /\ row.begin = k /\ row.version = NextVersion
    <2>1. NextVersion \in Nat
      BY SchemaRows
    <2> QED BY <2>1 DEF VersionRow, Other
  <1>4. \A r \in added : r.begin = k /\ r.end = NULL
    OBVIOUS
  <1>5. RowsTyped'
    <2> HIDE DEF table, row
    <2> QED BY <1>1, <1>2, <1>3 DEF RowsTyped, DatabaseHolds
  <1>6. Continues(tables, tables', k)
    <2> HIDE DEF added
    <2> QED BY <1>1, <1>4, AddContinues
  <1>7. Continues(columns, columns', k) /\ Continues(files, files', k)
        /\ Continues(deletes, deletes', k)
    BY <1>1 DEF Continues
  <1> HIDE DEF table, row
  <1>8. /\ \A r \in tables : r.id = Scanned => r \in tables'
        /\ \A r \in tables' : r.id = Scanned => r \in tables
    BY <1>1, <1>2
  <1>9. /\ Visible(columns', k) # {} => \E r \in Visible(tables', k) : r.id = Scanned
        /\ TableIsLive' => \E i \in inlineTables' : \A j \in inlineTables' : j.version <= i.version
    BY <1>1, <1>8, OtherKeepsTable
  <1> QED BY <1>1, <1>3, <1>5, <1>6, <1>7, <1>9 DEF SchemaChanged

\* Dropping another table.
LEMMA DropOtherRows ==
    ASSUME DatabaseHolds, NEW k \in Nat, k = New, DropOther
    PROVE  SchemaChanged(k)
  <1>1. PICK r \in Live(tables) : r.id = Other /\ tables' = Retire(tables, {r})
    BY DEF DropOther
  <1>2. UNCHANGED <<columns, files, deletes, inlineTables, inlineRows, schemaVersions>>
    BY DEF DropOther
  <1> DEFINE none == {}
             gone == {r}
  <1>3. tables \in SUBSET TableRow
    BY SchemaRows
  <1>4. tables' \in SUBSET TableRow
    BY <1>1, <1>3, RetireTyped
  <1>5. RowsTyped'
    BY <1>2, <1>4 DEF RowsTyped, DatabaseHolds
  <1>6. Replaced(tables, gone, none, tables', k)
    BY <1>1 DEF Replaced, Retire
  <1>7. gone \subseteq Live(tables) /\ \A q \in none : q.begin = k /\ q.end = NULL
    OBVIOUS
  <1>8. Continues(tables, tables', k)
    <2> HIDE DEF gone, none
    <2> QED BY <1>6, <1>7, RetireContinues
  <1>9. Continues(columns, columns', k) /\ Continues(files, files', k)
        /\ Continues(deletes, deletes', k)
    BY <1>2 DEF Continues
  <1>10. \A q \in tables : q.id = Scanned => q \in tables'
    BY <1>1 DEF Retire, Other, Scanned
  <1>11. \A q \in tables' : q.id = Scanned => q \in tables
    <2> SUFFICES ASSUME NEW q \in tables', q.id = Scanned PROVE q \in tables
      OBVIOUS
    <2>1. PICK p \in tables : q = IF p \in {r} THEN [p EXCEPT !.end = k] ELSE p
      BY <1>1 DEF Retire
    <2>2. CASE p = r
      <3>1. q.id = r.id
        BY <1>3, <2>1, <2>2 DEF TableRow
      <3> QED BY <1>1, <3>1 DEF Other, Scanned
    <2> QED BY <2>1, <2>2
  <1>12. /\ Visible(columns', k) # {} => \E q \in Visible(tables', k) : q.id = Scanned
         /\ TableIsLive' => \E i \in inlineTables' : \A j \in inlineTables' : j.version <= i.version
    BY <1>2, <1>10, <1>11, OtherKeepsTable
  <1> QED BY <1>2, <1>5, <1>8, <1>9, <1>12 DEF SchemaChanged

-----------------------------------------------------------------------------
(* Commits keep the database in order.                                     *)

\* A commit changes data, or it has a new schema version.
LEMMA CommitChange ==
    ASSUME DatabaseHolds, NEW new, NEW version, Commit(new, version)
    PROVE  \/ DataChanged(new) /\ version = V(HeadId)
           \/ SchemaChanged(new) /\ version = NextVersion
  <1>1. SnapshotsNumbered
    BY DEF DatabaseHolds
  <1>2. new = New /\ new \in Nat /\ snapshots[HeadId] = V(HeadId)
    BY <1>1, CommitNumbers DEF SnapshotsNumbered
  <1>3. CASE version = snapshots[HeadId] /\ DataChange
    BY <1>2, <1>3, WriteFileRows, DeleteRowsRows, WriteInlineRows DEF DataChange
  <1>4. CASE version = NextVersion /\ SchemaChange
    BY <1>2, <1>4, AddColumnRows, RenameColumnRows, DropTableRows, CreateOtherRows, DropOtherRows
       DEF SchemaChange
  <1> QED BY <1>3, <1>4 DEF Commit

\* Readers of older snapshots see what they saw before.
LEMMA OldSnapshots ==
    ASSUME DatabaseHolds, NEW k \in Nat, k = New, DataChanged(k) \/ SchemaChanged(k),
           NEW s \in Hist
    PROVE  /\ CatalogOf(s)' = CatalogOf(s)
           /\ FilesAt(s)' = FilesAt(s) /\ DeletedAt(s)' = DeletedAt(s)
           /\ InlinedAt(s)' = InlinedAt(s)
  <1>1. s \in Nat /\ s < k
    BY DEF DatabaseHolds, SnapshotsNumbered, New
  <1>2. /\ Continues(tables, tables', k) /\ Continues(columns, columns', k)
        /\ Continues(files, files', k) /\ Continues(deletes, deletes', k)
    BY DEF DataChanged, SchemaChanged, Continues
  <1>3. /\ tables \in SUBSET TableRow /\ columns \in SUBSET ColumnRow
        /\ files \in SUBSET FileRow /\ deletes \in SUBSET FileRow
    BY DEF DatabaseHolds, RowsTyped
  <1>4. /\ tables' \in SUBSET TableRow /\ columns' \in SUBSET ColumnRow
        /\ files' \in SUBSET FileRow /\ deletes' \in SUBSET FileRow
    BY DEF DataChanged, SchemaChanged, RowsTyped
  <1>5. {[id |-> r.id, name |-> r.name] : r \in Visible(tables', s)}
             = {[id |-> r.id, name |-> r.name] : r \in Visible(tables, s)}
    BY <1>1, <1>2, <1>3, <1>4, TablesContinue
  <1>6. {[table |-> r.table, id |-> r.id, name |-> r.name] : r \in Visible(columns', s)}
             = {[table |-> r.table, id |-> r.id, name |-> r.name] : r \in Visible(columns, s)}
    BY <1>1, <1>2, <1>3, <1>4, ColumnsContinue
  <1>7. CatalogOf(s)' = CatalogOf(s)
    BY <1>5, <1>6 DEF CatalogOf
  <1>8. FileNames(files', s) = FileNames(files, s) /\ FileNames(deletes', s) = FileNames(deletes, s)
    BY <1>1, <1>2, <1>3, <1>4, FilesContinue
  <1>9. FilesAt(s)' = FilesAt(s) /\ DeletedAt(s)' = DeletedAt(s)
    BY <1>8 DEF FilesAt, DeletedAt, FileNames
  <1>10. inlineRows \subseteq inlineRows' /\ \A x \in inlineRows' \ inlineRows : x.begin = k
    BY DEF DataChanged, SchemaChanged
  <1>11. Visible(inlineRows', s) = Visible(inlineRows, s)
    <2>1. \A x \in inlineRows' \ inlineRows : ~ VisibleAt(x, s)
      BY <1>1, <1>10 DEF VisibleAt
    <2> QED BY <1>10, <2>1 DEF Visible
  <1>12. InlinedAt(s)' = InlinedAt(s)
    BY <1>11 DEF InlinedAt
  <1> QED BY <1>7, <1>9, <1>12

\* The next reader of the head would see the catalog of the head.
LEMMA HeadCatalog ==
    ASSUME DatabaseHolds, NEW k \in Nat, k = New
    PROVE  CatalogOf(k) = CatalogOf(HeadId)
  <1>1. HeadId \in Nat /\ k = HeadId + 1 /\ Older(tables, k) /\ Older(columns, k)
    BY SchemaRows
  <1>2. \A r \in tables \union columns : VisibleAt(r, k) <=> r.end = NULL
    BY <1>1 DEF Older, VisibleAt, NULL
  <1>3. \A r \in tables \union columns : VisibleAt(r, HeadId) <=> r.end = NULL
    BY <1>1 DEF Older, VisibleAt, NULL
  <1>4. Visible(tables, k) = Visible(tables, HeadId) /\ Visible(columns, k) = Visible(columns, HeadId)
    BY <1>2, <1>3 DEF Visible
  <1> QED BY <1>4 DEF CatalogOf

Contents(present, deleted, rows, ids) ==
    [files |-> {[file |-> f, deleted |-> f \in deleted] : f \in present},
     rows |-> {[row |-> x.row, values |-> x.columns \intersect ids] : x \in rows}]

\* The contents of a snapshot are what the queries of a scan return.
LEMMA ContentsAre ==
    ASSUME NEW s
    PROVE  /\ ContentsAt(s) = Contents(FilesAt(s), DeletedAt(s), InlinedAt(s),
                                       ColumnIds(SchemaOf(CatalogOf(s))))
           /\ ContentsAt(s)' = Contents(FilesAt(s)', DeletedAt(s)', InlinedAt(s)',
                                        ColumnIds(SchemaOf(CatalogOf(s)))')
  <1>1. ASSUME NEW fs, NEW ds, NEW rs, NEW ids
        PROVE  [files |-> {[file |-> f.file, deleted |-> \E d \in ds : d.file = f.file] : f \in fs},
                rows |-> {[row |-> r.row, values |-> r.columns \intersect ids] : r \in rs}]
               = Contents({f.file : f \in fs}, {d.file : d \in ds},
                          {[row |-> x.row, version |-> x.version, columns |-> x.columns] : x \in rs},
                          ids)
    <2> DEFINE present == {f.file : f \in fs}
               deleted == {d.file : d \in ds}
               rows == {[row |-> x.row, version |-> x.version, columns |-> x.columns] : x \in rs}
    <2>1. {[file |-> f.file, deleted |-> \E d \in ds : d.file = f.file] : f \in fs}
            = {[file |-> f, deleted |-> f \in deleted] : f \in present}
      <3>1. \A x : (\E d \in ds : d.file = x) <=> (x \in deleted)
        BY Zenon
      <3>2. {[file |-> f.file, deleted |-> \E d \in ds : d.file = f.file] : f \in fs}
              = {[file |-> f.file, deleted |-> f.file \in deleted] : f \in fs}
        <4> HIDE DEF deleted
        <4>1. ASSUME NEW x PROVE (\E d \in ds : d.file = x) = (x \in deleted)
          <5>1. CASE x \in deleted
            <6>1. \E d \in ds : d.file = x
              BY <3>1, <5>1
            <6> QED BY <5>1, <6>1
          <5>2. CASE x \notin deleted
            <6>1. ~ \E d \in ds : d.file = x
              BY <3>1, <5>2
            <6>2. (\E d \in ds : d.file = x) = FALSE
              BY <6>1
            <6>3. (x \in deleted) = FALSE
              BY <5>2
            <6> QED BY <6>2, <6>3
          <5> QED BY <5>1, <5>2
        <4> QED BY <4>1, Zenon
      <3>3. {[file |-> f.file, deleted |-> f.file \in deleted] : f \in fs}
              = {[file |-> f, deleted |-> f \in deleted] : f \in present}
        <4> HIDE DEF deleted
        <4> QED BY Zenon
      <3> QED BY <3>2, <3>3
    <2>2. {[row |-> r.row, values |-> r.columns \intersect ids] : r \in rs}
            = {[row |-> x.row, values |-> x.columns \intersect ids] : x \in rows}
      <3> DEFINE A == {[row |-> r.row, values |-> r.columns \intersect ids] : r \in rs}
                 B == {[row |-> x.row, values |-> x.columns \intersect ids] : x \in rows}
      <3>1. ASSUME NEW r \in rs
            PROVE  [row |-> r.row, values |-> r.columns \intersect ids] \in B
        <4> DEFINE x == [row |-> r.row, version |-> r.version, columns |-> r.columns]
        <4>1. x \in rows /\ x.row = r.row /\ x.columns = r.columns
          OBVIOUS
        <4> HIDE DEF x, rows
        <4> QED BY <4>1
      <3>2. ASSUME NEW x \in rows
            PROVE  [row |-> x.row, values |-> x.columns \intersect ids] \in A
        <4>1. PICK r \in rs : x = [row |-> r.row, version |-> r.version, columns |-> r.columns]
          OBVIOUS
        <4>2. x.row = r.row /\ x.columns = r.columns
          BY <4>1
        <4> QED BY <4>2
      <3>3. A \subseteq B
        BY <3>1, Zenon
      <3>4. B \subseteq A
        BY <3>2, Zenon
      <3> QED BY <3>3, <3>4
    <2> QED BY <2>1, <2>2 DEF Contents
  <1> QED BY <1>1 DEF ContentsAt, FilesAt, DeletedAt, InlinedAt

\* Rows stay dated.
LEMMA CommitDates ==
    ASSUME DatabaseHolds, NEW new, NEW version, Commit(new, version)
    PROVE  RowsDated'
  <1>1. /\ new = New /\ new \in Nat /\ new = HeadId + 1 /\ Hist' = Hist \union {new}
        /\ \A s \in Hist : V(s)' = V(s)
        /\ V(new)' = version /\ NextVersion = V(HeadId) + 1
    BY CommitNumbers DEF DatabaseHolds
  <1>2. /\ Hist = 1 .. HeadId /\ HeadId \in Nat /\ HeadId \in Hist
        /\ \A s \in Hist : V(s) \in Nat /\ V(s) <= V(HeadId)
    BY DEF DatabaseHolds, SnapshotsNumbered
  <1>3. \A j \in Hist : Starts(j) => Starts(j)'
    <2> SUFFICES ASSUME NEW j \in Hist, Starts(j) PROVE Starts(j)'
      OBVIOUS
    <2>1. j \in Hist'
      BY <1>1
    <2>2. ASSUME NEW s \in Hist', s < j PROVE V(s)' < V(j)'
      <3>1. s \in Hist
        BY <1>1, <1>2, <2>2
      <3>2. V(s) < V(j)
        BY <2>2, <3>1 DEF Starts
      <3> QED BY <1>1, <3>1, <3>2
    <2> QED BY <2>1, <2>2 DEF Starts
  <1>4. \A j : j \in Hist => j \in Hist'
    BY <1>1
  <1>5. /\ \A r \in tables : Starts(r.begin) /\ (r.end = NULL \/ Starts(r.end))
        /\ \A r \in columns : Starts(r.begin) /\ (r.end = NULL \/ Starts(r.end))
    BY DEF DatabaseHolds, RowsDated, SchemaDated
  <1>6. \A j : Starts(j) => j \in Hist
    BY DEF Starts
  <1>7. ASSUME NEW old, NEW rows, Continues(old, rows, new),
               \A r \in old : "begin" \in DOMAIN r /\ "end" \in DOMAIN r,
               \A r \in old : r.begin \in Hist /\ (r.end = NULL \/ r.end \in Hist)
        PROVE  \A r \in rows : r.begin \in Hist' /\ (r.end = NULL \/ r.end \in Hist')
    <2> SUFFICES ASSUME NEW r \in rows
                 PROVE  r.begin \in Hist' /\ (r.end = NULL \/ r.end \in Hist')
      OBVIOUS
    <2>1. CASE r \in old
      BY <1>4, <1>7, <2>1
    <2>2. ASSUME NEW q \in old, r = [q EXCEPT !.end = new]
          PROVE  r.begin \in Hist' /\ r.end \in Hist'
      <3>1. r.begin = q.begin /\ r.end = new
        BY <1>7, <2>2
      <3> QED BY <1>1, <1>7, <3>1
    <2>3. CASE r.begin = new /\ r.end = NULL
      BY <1>1, <2>3
    <2> QED BY <1>7, <2>1, <2>2, <2>3 DEF Continues
  <1>8. /\ \A r \in files : "begin" \in DOMAIN r /\ "end" \in DOMAIN r
        /\ \A r \in deletes : "begin" \in DOMAIN r /\ "end" \in DOMAIN r
        /\ \A r \in tables : "begin" \in DOMAIN r /\ "end" \in DOMAIN r
        /\ \A r \in columns : "begin" \in DOMAIN r /\ "end" \in DOMAIN r
    BY DEF DatabaseHolds, RowsTyped, FileRow, TableRow, ColumnRow
  <1>9. DataChanged(new) \/ (SchemaChanged(new) /\ version = NextVersion)
    BY CommitChange
  <1>10. Dated(files)' /\ Dated(deletes)'
    <2>1. Continues(files, files', new) /\ Continues(deletes, deletes', new)
      BY <1>9 DEF DataChanged, SchemaChanged
    <2>2. Dated(files) /\ Dated(deletes)
      BY DEF DatabaseHolds, RowsDated
    <2>3. \A r \in files' : r.begin \in Hist' /\ (r.end = NULL \/ r.end \in Hist')
      BY <1>7, <1>8, <2>1, <2>2 DEF Dated
    <2>4. \A r \in deletes' : r.begin \in Hist' /\ (r.end = NULL \/ r.end \in Hist')
      BY <1>7, <1>8, <2>1, <2>2 DEF Dated
    <2> QED BY <2>3, <2>4 DEF Dated
  <1>11. Dated(inlineRows)'
    <2>1. Dated(inlineRows)
      BY DEF DatabaseHolds, RowsDated
    <2>2. \A x \in inlineRows' \ inlineRows : x.begin = new /\ x.end = NULL
      BY <1>9 DEF DataChanged, SchemaChanged
    <2> QED BY <1>1, <2>1, <2>2 DEF Dated
  <1>12. CASE DataChanged(new)
    <2>1. tables' = tables /\ columns' = columns
      BY <1>12 DEF DataChanged
    <2>2. SchemaDated(tables)' /\ SchemaDated(columns)'
      BY <1>3, <1>5, <1>6, <2>1 DEF SchemaDated
    <2> QED BY <1>10, <1>11, <2>2 DEF RowsDated
  <1>13. CASE SchemaChanged(new) /\ version = NextVersion
    <2>1. Starts(new)'
      <3>1. \A s \in Hist : V(s)' < V(new)'
        BY <1>1, <1>2, <1>13
      <3> QED BY <1>1, <3>1 DEF Starts
    <2>2. ASSUME NEW old, NEW rows, Continues(old, rows, new),
                 \A r \in old : "begin" \in DOMAIN r /\ "end" \in DOMAIN r,
                 \A r \in old : Starts(r.begin) /\ (r.end = NULL \/ Starts(r.end))
          PROVE  \A r \in rows : Starts(r.begin)' /\ (r.end = NULL \/ Starts(r.end)')
      <3> SUFFICES ASSUME NEW r \in rows
                   PROVE  Starts(r.begin)' /\ (r.end = NULL \/ Starts(r.end)')
        OBVIOUS
      <3>1. CASE r \in old
        BY <1>3, <1>6, <2>2, <3>1
      <3>2. ASSUME NEW q \in old, r = [q EXCEPT !.end = new]
            PROVE  Starts(r.begin)' /\ Starts(r.end)'
        <4>1. r.begin = q.begin /\ r.end = new
          BY <2>2, <3>2
        <4>2. Starts(q.begin)'
          BY <1>3, <1>6, <2>2
        <4> QED BY <2>1, <4>1, <4>2
      <3>3. CASE r.begin = new /\ r.end = NULL
        BY <2>1, <3>3
      <3> QED BY <2>2, <3>1, <3>2, <3>3 DEF Continues
    <2>3. Continues(tables, tables', new) /\ Continues(columns, columns', new)
      BY <1>13 DEF SchemaChanged
    <2>4. \A r \in tables' : Starts(r.begin)' /\ (r.end = NULL \/ Starts(r.end)')
      BY <1>5, <1>8, <2>2, <2>3
    <2>5. \A r \in columns' : Starts(r.begin)' /\ (r.end = NULL \/ Starts(r.end)')
      BY <1>5, <1>8, <2>2, <2>3
    <2> QED BY <1>10, <1>11, <2>4, <2>5 DEF RowsDated, SchemaDated
  <1> QED BY <1>9, <1>12, <1>13

\* A catalog has the scanned table if a row of the table is visible.
LEMMA HasTableIs ==
    ASSUME NEW s
    PROVE  /\ HasTable(CatalogOf(s)) <=> TableVisible(s)
           /\ HasTable(CatalogOf(s)') <=> TableVisible(s)'
  <1>1. ASSUME NEW rows
        PROVE  (\E t \in {[id |-> r.id, name |-> r.name] : r \in rows} : t.id = Scanned)
                 <=> \E r \in rows : r.id = Scanned
    <2>1. ASSUME NEW r \in rows, r.id = Scanned
          PROVE  \E t \in {[id |-> q.id, name |-> q.name] : q \in rows} : t.id = Scanned
      <3>1. [id |-> r.id, name |-> r.name].id = Scanned
        BY <2>1
      <3> QED BY <3>1, Zenon
    <2> QED BY <2>1
  <1>2. CatalogOf(s).tables = {[id |-> r.id, name |-> r.name] : r \in Visible(tables, s)}
    BY DEF CatalogOf
  <1>3. CatalogOf(s)'.tables = {[id |-> r.id, name |-> r.name] : r \in Visible(tables', s)}
    BY DEF CatalogOf
  <1> QED BY <1>1, <1>2, <1>3, Zenon DEF HasTable, TableVisible

\* Columns are visible with their table.
LEMMA CommitColumns ==
    ASSUME DatabaseHolds, NEW new, NEW version, Commit(new, version)
    PROVE  ColumnsInTable'
  <1>1. new = New /\ new \in Nat /\ Hist' = Hist \union {new}
    BY CommitNumbers DEF DatabaseHolds
  <1>2. DataChanged(new) \/ SchemaChanged(new)
    BY CommitChange
  <1>3. ASSUME NEW s \in Hist, Visible(columns', s) # {} PROVE TableVisible(s)'
    <2>1. CatalogOf(s)' = CatalogOf(s)
      BY <1>1, <1>2, OldSnapshots
    <2>2. CatalogOf(s)'.columns # {}
      BY <1>3 DEF CatalogOf
    <2>3. Visible(columns, s) # {}
      BY <2>1, <2>2 DEF CatalogOf
    <2>4. TableVisible(s)
      BY <2>3 DEF DatabaseHolds, ColumnsInTable
    <2> QED BY <2>1, <2>4, HasTableIs
  <1>4. ASSUME Visible(columns', new) # {} PROVE TableVisible(new)'
    <2>1. CASE DataChanged(new)
      <3>1. UNCHANGED <<tables, columns, inlineTables>>
        BY <2>1 DEF DataChanged
      <3>2. /\ \A r \in tables : r.id = Scanned => r \in tables'
            /\ \A r \in tables' : r.id = Scanned => r \in tables
        BY <3>1
      <3> QED BY <1>1, <1>4, <3>1, <3>2, OtherKeepsTable DEF TableVisible
    <2>2. CASE SchemaChanged(new)
      BY <1>4, <2>2 DEF SchemaChanged, TableVisible
    <2> QED BY <1>2, <2>1, <2>2
  <1> QED BY <1>1, <1>3, <1>4 DEF ColumnsInTable

\* The schema of a catalog consists of the visible columns.
LEMMA SchemaIs ==
    ASSUME NEW s, RowsTyped'
    PROVE  SchemaOf(CatalogOf(s)') = {[id |-> c.id, name |-> c.name] : c \in Visible(columns', s)}
  <1>1. PICK rows : rows = Visible(columns', s)
    OBVIOUS
  <1>2. rows \in SUBSET ColumnRow
    BY <1>1 DEF RowsTyped, Visible
  <1> DEFINE cols == {[table |-> r.table, id |-> r.id, name |-> r.name] : r \in rows}
             A == {[id |-> c.id, name |-> c.name] : c \in {d \in cols : d.table = Scanned}}
             B == {[id |-> c.id, name |-> c.name] : c \in rows}
  <1>3. A \subseteq B
    <2> SUFFICES ASSUME NEW c \in cols PROVE [id |-> c.id, name |-> c.name] \in B
      OBVIOUS
    <2>1. PICK r \in rows : c = [table |-> r.table, id |-> r.id, name |-> r.name]
      OBVIOUS
    <2>2. c.id = r.id /\ c.name = r.name
      BY <2>1
    <2> QED BY <2>2
  <1>4. B \subseteq A
    <2> SUFFICES ASSUME NEW r \in rows PROVE [id |-> r.id, name |-> r.name] \in A
      OBVIOUS
    <2> DEFINE c == [table |-> r.table, id |-> r.id, name |-> r.name]
    <2>1. c \in cols /\ c.table = r.table /\ c.id = r.id /\ c.name = r.name
      OBVIOUS
    <2>2. r.table = Scanned
      BY <1>2 DEF ColumnRow
    <2> HIDE DEF c, cols
    <2> QED BY <2>1, <2>2
  <1>5. A = B
    BY <1>3, <1>4
  <1>6. CatalogOf(s)'.columns = cols
    BY <1>1 DEF CatalogOf
  <1>7. SchemaOf(CatalogOf(s)') = A
    BY <1>6, Zenon DEF SchemaOf
  <1> QED BY <1>1, <1>5, <1>7

\* Inlined data tables fit their schema versions.
LEMMA CommitInline ==
    ASSUME DatabaseHolds, NEW new, NEW version, Commit(new, version)
    PROVE  /\ InlineHolds'
           /\ \A i \in inlineTables' \ inlineTables : \A b \in Hist : V(b) # i.version
           /\ inlineTables \subseteq inlineTables'
  <1>1. /\ new = New /\ new \in Nat /\ Hist' = Hist \union {new} /\ new \notin Hist
        /\ \A s \in Hist : V(s)' = V(s)
        /\ V(new)' = version /\ NextVersion = V(HeadId) + 1
    BY CommitNumbers DEF DatabaseHolds
  <1>2. /\ HeadId \in Hist /\ V(HeadId) \in Nat
        /\ \A s \in Hist : V(s) \in Nat /\ V(s) <= V(HeadId)
    BY DEF DatabaseHolds, SnapshotsNumbered
  <1>3. \/ DataChanged(new) /\ version = V(HeadId)
        \/ SchemaChanged(new) /\ version = NextVersion
    BY CommitChange
  <1>4. \A s \in Hist : CatalogOf(s)' = CatalogOf(s)
    BY <1>1, <1>3, OldSnapshots
  <1>5. /\ \A i \in inlineTables :
            /\ \E r \in schemaVersions : r.table = Scanned /\ r.version = i.version
            /\ \A b \in Hist : V(b) = i.version =>
                  HasTable(CatalogOf(b)) /\ SchemaOf(CatalogOf(b)) = i.columns
        /\ \A r \in schemaVersions : r.begin \in Hist /\ V(r.begin) = r.version
        /\ \A x \in inlineRows : \E i \in inlineTables :
              i.version = x.version /\ x.columns = ColumnIds(i.columns)
        /\ TableIsLive => \E i \in inlineTables : \A j \in inlineTables : j.version <= i.version
    BY DEF DatabaseHolds, InlineHolds
  <1>6. \A i \in inlineTables : i.version < NextVersion
    BY <1>1, SchemaRows
  <1>7. inlineTables \subseteq inlineTables' /\ schemaVersions \subseteq schemaVersions'
    BY <1>3 DEF DataChanged, SchemaChanged
  <1>8. \A r \in schemaVersions' : r.begin \in Hist' /\ V(r.begin)' = r.version
    <2>1. \A r \in schemaVersions' \ schemaVersions : r.begin = new /\ r.version = version
      BY <1>3 DEF DataChanged, SchemaChanged
    <2> QED BY <1>1, <1>5, <2>1
  <1>9. \A x \in inlineRows' : \E i \in inlineTables' :
              i.version = x.version /\ x.columns = ColumnIds(i.columns)
    <2>1. \A x \in inlineRows' \ inlineRows : \E i \in inlineTables :
              i.version = x.version /\ x.columns = ColumnIds(i.columns)
      BY <1>3 DEF DataChanged, SchemaChanged
    <2> QED BY <1>5, <1>7, <2>1
  <1>10. TableIsLive' => \E i \in inlineTables' : \A j \in inlineTables' : j.version <= i.version
    <2>1. CASE DataChanged(new)
      <3>1. tables' = tables /\ inlineTables' = inlineTables
        BY <2>1 DEF DataChanged
      <3> QED BY <1>5, <3>1 DEF TableIsLive
    <2>2. CASE SchemaChanged(new)
      BY <2>2 DEF SchemaChanged
    <2> QED BY <1>3, <2>1, <2>2
  <1>11. \A i \in inlineTables' \ inlineTables : \A b \in Hist : V(b) # i.version
    <2>1. \A i \in inlineTables' \ inlineTables : i.version = NextVersion
      BY <1>3 DEF DataChanged, SchemaChanged
    <2> QED BY <1>1, <1>2, <2>1
  <1>12. \A i \in inlineTables' :
            \E r \in schemaVersions' : r.table = Scanned /\ r.version = i.version
    <2>1. \A i \in inlineTables' \ inlineTables :
            \E r \in schemaVersions' : r.table = Scanned /\ r.version = i.version
      BY <1>3 DEF DataChanged, SchemaChanged
    <2> QED BY <1>5, <1>7, <2>1
  <1>13. ASSUME NEW i \in inlineTables', NEW b \in Hist', V(b)' = i.version
         PROVE  HasTable(CatalogOf(b)') /\ SchemaOf(CatalogOf(b)') = i.columns
    <2>1. CASE b \in Hist
      <3>1. i \in inlineTables
        BY <1>1, <1>11, <1>13, <2>1
      <3> QED BY <1>1, <1>4, <1>5, <1>13, <2>1, <3>1
    <2>2. CASE b = new /\ DataChanged(new) /\ version = V(HeadId)
      <3>1. tables' = tables /\ columns' = columns /\ inlineTables' = inlineTables
        BY <2>2 DEF DataChanged
      <3>2. CatalogOf(new)' = CatalogOf(new)
        BY <3>1 DEF CatalogOf
      <3>3. CatalogOf(new) = CatalogOf(HeadId)
        BY <1>1, HeadCatalog
      <3>4. V(HeadId) = i.version
        BY <1>1, <1>13, <2>2
      <3> QED BY <1>2, <1>5, <2>2, <3>1, <3>2, <3>3, <3>4
    <2>3. CASE b = new /\ SchemaChanged(new) /\ version = NextVersion
      <3>1. i \notin inlineTables
        BY <1>1, <1>2, <1>6, <1>13, <2>3
      <3>2. /\ RowsTyped'
            /\ \E r \in Visible(tables', new) : r.id = Scanned
            /\ i.columns = {[id |-> c.id, name |-> c.name] : c \in Visible(columns', new)}
        BY <2>3, <3>1 DEF SchemaChanged
      <3>3. HasTable(CatalogOf(new)')
        BY <3>2, HasTableIs DEF TableVisible
      <3>4. SchemaOf(CatalogOf(new)') = i.columns
        BY <3>2, SchemaIs
      <3> QED BY <2>3, <3>3, <3>4
    <2> QED BY <1>1, <1>3, <2>1, <2>2, <2>3
  <1>14. InlineHolds'
    BY <1>8, <1>9, <1>10, <1>12, <1>13 DEF InlineHolds
  <1> QED BY <1>7, <1>11, <1>14

\* The contents of a snapshot follow from what can be read of it.
LEMMA ContentsKept ==
    ASSUME NEW s, CatalogOf(s)' = CatalogOf(s), FilesAt(s)' = FilesAt(s),
           DeletedAt(s)' = DeletedAt(s), InlinedAt(s)' = InlinedAt(s)
    PROVE  ContentsAt(s)' = ContentsAt(s)
  <1>1. ColumnIds(SchemaOf(CatalogOf(s)))' = ColumnIds(SchemaOf(CatalogOf(s)))
    BY DEF ColumnIds, SchemaOf
  <1> QED BY <1>1, ContentsAre

\* What a change of the database leaves to those who read snapshots, catalogs
\* and inlined data tables.
Survives ==
    /\ Hist \subseteq Hist' /\ \A s \in Hist : V(s)' = V(s) /\ history'[s] = history[s]
    /\ \A s \in DOMAIN snapshots \intersect DOMAIN snapshots' :
          /\ CatalogOf(s)' = CatalogOf(s)
          /\ FilesAt(s)' = FilesAt(s) /\ DeletedAt(s)' = DeletedAt(s)
          /\ HasTable(CatalogOf(s)) =>
                InlinedAt(s)' = InlinedAt(s) /\ inlineTables \subseteq inlineTables'
    /\ \A s \in DOMAIN snapshots' \ DOMAIN snapshots :
          \/ V(s)' = V(HeadId) /\ CatalogOf(s)' = CatalogOf(HeadId)
          \/ \A b \in Hist : V(b) # V(s)'
    /\ \A i \in inlineTables' \ inlineTables : \A b \in Hist : V(b) # i.version

\* A commit keeps the database in order, and all snapshots.
LEMMA CommitKeeps ==
    ASSUME DatabaseHolds, NEW new, NEW version, Commit(new, version)
    PROVE  /\ DatabaseHolds' /\ Survives /\ DOMAIN snapshots \subseteq DOMAIN snapshots'
           /\ InfoOk(Info(new, version))'
  <1>1. /\ new = New /\ new \in Nat /\ new \notin Hist
        /\ Hist' = Hist \union {new} /\ DOMAIN snapshots' = DOMAIN snapshots \union {new}
        /\ \A s \in Hist : V(s)' = V(s) /\ history'[s] = history[s]
        /\ V(new)' = version /\ version \in Nat /\ NextVersion = V(HeadId) + 1
        /\ SnapshotsNumbered'
    BY CommitNumbers DEF DatabaseHolds
  <1>2. /\ HeadId \in Hist /\ V(HeadId) \in Nat /\ DOMAIN snapshots \subseteq Hist
        /\ \A s \in Hist : V(s) \in Nat /\ V(s) <= V(HeadId)
    BY DEF DatabaseHolds, SnapshotsNumbered
  <1>3. \/ DataChanged(new) /\ version = V(HeadId)
        \/ SchemaChanged(new) /\ version = NextVersion
    BY CommitChange
  <1>4. RowsTyped'
    BY <1>3 DEF DataChanged, SchemaChanged
  <1>5. \A s \in Hist : /\ CatalogOf(s)' = CatalogOf(s)
                        /\ FilesAt(s)' = FilesAt(s) /\ DeletedAt(s)' = DeletedAt(s)
                        /\ InlinedAt(s)' = InlinedAt(s)
    BY <1>1, <1>3, OldSnapshots
  <1>6. /\ history'[new].catalog = CatalogOf(new)' /\ history'[new].contents = ContentsAt(new)'
    BY <1>1 DEF Commit, Append, Hist
  <1>7. HistoryHolds'
    <2> SUFFICES ASSUME NEW s \in DOMAIN snapshots'
                 PROVE  /\ history'[s].catalog = CatalogOf(s)'
                        /\ HasTable(CatalogOf(s)') => history'[s].contents = ContentsAt(s)'
      BY DEF HistoryHolds
    <2>1. CASE s \in DOMAIN snapshots
      <3>1. CatalogOf(s)' = CatalogOf(s) /\ ContentsAt(s)' = ContentsAt(s)
        BY <1>2, <1>5, <2>1, ContentsKept
      <3>2. history'[s] = history[s]
        BY <1>1, <1>2, <2>1
      <3>3. /\ history[s].catalog = CatalogOf(s)
            /\ HasTable(CatalogOf(s)) => history[s].contents = ContentsAt(s)
        BY <2>1 DEF DatabaseHolds, HistoryHolds
      <3> QED BY <3>1, <3>2, <3>3
    <2>2. CASE s = new
      BY <1>6, <2>2
    <2> QED BY <1>1, <2>1, <2>2
  <1>8. DatabaseHolds'
    BY <1>1, <1>4, <1>7, CommitDates, CommitColumns, CommitInline DEF DatabaseHolds
  <1>9. \/ V(new)' = V(HeadId) /\ CatalogOf(new)' = CatalogOf(HeadId)
        \/ \A b \in Hist : V(b) # V(new)'
    <2>1. CASE DataChanged(new) /\ version = V(HeadId)
      <3>1. tables' = tables /\ columns' = columns
        BY <2>1 DEF DataChanged
      <3>2. CatalogOf(new)' = CatalogOf(new)
        BY <3>1 DEF CatalogOf
      <3> QED BY <1>1, <2>1, <3>2, HeadCatalog
    <2>2. CASE version = NextVersion
      BY <1>1, <1>2, <2>2
    <2> QED BY <1>3, <2>1, <2>2
  <1>10. /\ inlineTables \subseteq inlineTables'
         /\ \A i \in inlineTables' \ inlineTables : \A b \in Hist : V(b) # i.version
    BY CommitInline
  <1>11. Survives
    <2>1. \A s \in DOMAIN snapshots' \ DOMAIN snapshots :
            \/ V(s)' = V(HeadId) /\ CatalogOf(s)' = CatalogOf(HeadId)
            \/ \A b \in Hist : V(b) # V(s)'
      BY <1>1, <1>9
    <2> QED BY <1>1, <1>2, <1>5, <1>10, <2>1 DEF Survives
  <1>12. InfoOk(Info(new, version))'
    BY <1>1 DEF InfoOk, Info, InfoRecord
  <1> QED BY <1>1, <1>8, <1>11, <1>12

-----------------------------------------------------------------------------
(* So does expiry.                                                         *)

\* The schema of a catalog depends on the columns only.
LEMMA SameColumns ==
    ASSUME NEW s, columns' = columns
    PROVE  SchemaOf(CatalogOf(s)') = SchemaOf(CatalogOf(s))
  <1>1. CatalogOf(s)'.columns = CatalogOf(s).columns
    BY DEF CatalogOf
  <1> QED BY <1>1 DEF SchemaOf

\* Expiry keeps the database in order, and the snapshots that are in use.
LEMMA ExpireKeeps ==
    ASSUME DatabaseHolds, ExpireSnapshots
    PROVE  /\ DatabaseHolds' /\ Survives
           /\ \A s \in InUse : s \in DOMAIN snapshots => s \in DOMAIN snapshots'
  <1>1. PICK ids \in SUBSET (DOMAIN snapshots \ (InUse \union {HeadId})) :
          LET kept == DOMAIN snapshots \ ids
              gone == {x \in {Scanned, Other} :
                         \A r \in tables : r.id = x => Inactive(r, kept)}
          IN  /\ snapshots' = [s \in kept |-> snapshots[s]]
              /\ tables' = {r \in tables : r.id \notin gone}
              /\ columns' = {r \in columns : r.table \notin gone}
              /\ inlineTables' = {r \in inlineTables : r.table \notin gone}
              /\ inlineRows' = IF Scanned \in gone THEN {} ELSE inlineRows
              /\ schemaVersions' = {r \in schemaVersions : r.table \notin gone}
              /\ files' = {r \in files : ~ Inactive(r, kept)}
              /\ deletes' = {r \in deletes : ~ Inactive(r, kept)}
    BY DEF ExpireSnapshots
  <1> DEFINE kept == DOMAIN snapshots \ ids
             gone == {x \in {Scanned, Other} : \A r \in tables : r.id = x => Inactive(r, kept)}
  <1>2. /\ snapshots' = [s \in kept |-> snapshots[s]]
        /\ tables' = {r \in tables : r.id \notin gone}
        /\ columns' = {r \in columns : r.table \notin gone}
        /\ inlineTables' = {r \in inlineTables : r.table \notin gone}
        /\ inlineRows' = IF Scanned \in gone THEN {} ELSE inlineRows
        /\ schemaVersions' = {r \in schemaVersions : r.table \notin gone}
        /\ files' = {r \in files : ~ Inactive(r, kept)}
        /\ deletes' = {r \in deletes : ~ Inactive(r, kept)}
    BY <1>1
  <1>3. history' = history
    BY DEF ExpireSnapshots
  <1>4. \A x \in gone : \A r \in tables : r.id = x => Inactive(r, kept)
    OBVIOUS
  <1>5. kept \subseteq DOMAIN snapshots /\ \A s \in InUse : s \in DOMAIN snapshots => s \in kept
    OBVIOUS
  <1>6. HeadId \in kept /\ DOMAIN snapshots' = kept /\ \A s \in kept : snapshots'[s] = snapshots[s]
    BY <1>2 DEF DatabaseHolds, SnapshotsNumbered
  <1> HIDE DEF kept, gone
  <1>7. \A r, s : s \in kept /\ VisibleAt(r, s) => ~ Inactive(r, kept)
    BY DEF VisibleAt, Inactive
  <1>8. HeadId' = HeadId
    <2> DEFINE S == DOMAIN snapshots'
               m == HeadId
    <2>1. S \in SUBSET Int /\ m \in S /\ \A x \in S : x <= m
      BY <1>5, <1>6 DEF DatabaseHolds, SnapshotsNumbered
    <2>2. Max(S) = m
      <3> HIDE DEF S, m
      <3> QED BY <2>1, MaxIs
    <2>3. HeadId' = Max(S)
      BY DEF HeadId
    <2> QED BY <2>2, <2>3
  <1>9. SnapshotsNumbered'
    BY <1>3, <1>5, <1>6, <1>8 DEF DatabaseHolds, SnapshotsNumbered, Hist, V
  <1>10. RowsTyped'
    BY <1>2 DEF DatabaseHolds, RowsTyped
  <1>11. RowsDated'
    <2>1. \A j : Starts(j) <=> Starts(j)'
      BY <1>3 DEF Starts, Hist, V
    <2>2. Hist' = Hist
      BY <1>3 DEF Hist
    <2>3. /\ tables' \subseteq tables /\ columns' \subseteq columns /\ files' \subseteq files
          /\ deletes' \subseteq deletes /\ inlineRows' \subseteq inlineRows
      BY <1>2
    <2>4. /\ \A r \in tables : Starts(r.begin) /\ (r.end = NULL \/ Starts(r.end))
          /\ \A r \in columns : Starts(r.begin) /\ (r.end = NULL \/ Starts(r.end))
      BY DEF DatabaseHolds, RowsDated, SchemaDated
    <2>5. SchemaDated(tables)' /\ SchemaDated(columns)'
      BY <2>1, <2>3, <2>4 DEF SchemaDated
    <2>6. Dated(files)' /\ Dated(deletes)' /\ Dated(inlineRows)'
      BY <2>2, <2>3 DEF DatabaseHolds, RowsDated, Dated
    <2> QED BY <2>5, <2>6 DEF RowsDated
  <1>12. /\ \A c \in columns : c.table = Scanned
         /\ \A i \in inlineTables : i.table = Scanned
    BY DEF DatabaseHolds, RowsTyped, ColumnRow, InlineTable
  <1>13. ASSUME Scanned \in gone
         PROVE  /\ ColumnsInTable' /\ InlineHolds'
                /\ \A s \in kept : Visible(columns', s) = Visible(columns, s)
                /\ \A s \in kept : HasTable(CatalogOf(s)) =>
                      inlineRows' = inlineRows /\ inlineTables' = inlineTables
    <2>1. columns' = {} /\ inlineTables' = {} /\ inlineRows' = {}
      BY <1>2, <1>12, <1>13
    <2>2. \A s \in kept : ~ TableVisible(s)
      BY <1>4, <1>7, <1>13 DEF TableVisible, Visible
    <2>3. ColumnsInTable'
      BY <2>1 DEF ColumnsInTable, Visible
    <2>4. ~ TableIsLive'
      BY <1>2, <1>13 DEF TableIsLive, Live
    <2>5. \A r \in schemaVersions' : r.begin \in Hist' /\ V(r.begin)' = r.version
      BY <1>2, <1>3 DEF DatabaseHolds, InlineHolds, Hist, V
    <2>6. InlineHolds'
      BY <2>1, <2>4, <2>5 DEF InlineHolds
    <2>7. \A s \in kept : Visible(columns, s) = {}
      BY <1>5, <2>2 DEF DatabaseHolds, SnapshotsNumbered, ColumnsInTable
    <2>8. \A s \in kept : Visible(columns', s) = Visible(columns, s)
      BY <2>1, <2>7 DEF Visible
    <2>9. \A s \in kept : ~ HasTable(CatalogOf(s))
      BY <2>2, HasTableIs
    <2> QED BY <2>3, <2>6, <2>8, <2>9
  <1>14. ASSUME Scanned \notin gone
         PROVE  /\ ColumnsInTable' /\ InlineHolds'
                /\ \A s \in kept : Visible(columns', s) = Visible(columns, s)
                /\ \A s \in kept : HasTable(CatalogOf(s)) =>
                      inlineRows' = inlineRows /\ inlineTables' = inlineTables
    <2>1. /\ columns' = columns /\ inlineTables' = inlineTables /\ inlineRows' = inlineRows
          /\ \A r \in tables : r.id = Scanned => r \in tables'
          /\ tables' \subseteq tables
      BY <1>2, <1>12, <1>14
    <2>2. \A s : TableVisible(s) => TableVisible(s)'
      BY <2>1 DEF TableVisible, Visible
    <2>3. ColumnsInTable'
      BY <1>3, <2>1, <2>2 DEF DatabaseHolds, ColumnsInTable, Hist
    <2>4. TableIsLive' => TableIsLive
      BY <2>1 DEF TableIsLive, Live
    <2>5. /\ \A i \in inlineTables :
              /\ \E r \in schemaVersions : r.table = Scanned /\ r.version = i.version
              /\ \A b \in Hist : V(b) = i.version =>
                    HasTable(CatalogOf(b)) /\ SchemaOf(CatalogOf(b)) = i.columns
          /\ \A r \in schemaVersions : r.begin \in Hist /\ V(r.begin) = r.version
          /\ \A x \in inlineRows : \E i \in inlineTables :
                i.version = x.version /\ x.columns = ColumnIds(i.columns)
          /\ TableIsLive => \E i \in inlineTables : \A j \in inlineTables : j.version <= i.version
      BY DEF DatabaseHolds, InlineHolds
    <2>6. Hist' = Hist /\ \A b : V(b)' = V(b)
      BY <1>3 DEF Hist, V
    <2>7. ASSUME NEW i \in inlineTables', NEW b \in Hist', V(b)' = i.version
          PROVE  HasTable(CatalogOf(b)') /\ SchemaOf(CatalogOf(b)') = i.columns
      <3>1. HasTable(CatalogOf(b)) /\ SchemaOf(CatalogOf(b)) = i.columns
        BY <2>1, <2>5, <2>6, <2>7
      <3>2. HasTable(CatalogOf(b)')
        BY <2>2, <3>1, HasTableIs
      <3>3. SchemaOf(CatalogOf(b)') = SchemaOf(CatalogOf(b))
        BY <2>1, SameColumns
      <3> QED BY <3>1, <3>2, <3>3
    <2>8. /\ \A i \in inlineTables' :
                \E r \in schemaVersions' : r.table = Scanned /\ r.version = i.version
          /\ \A r \in schemaVersions' : r.begin \in Hist' /\ V(r.begin)' = r.version
      BY <1>2, <1>14, <2>1, <2>5, <2>6
    <2>9. \A x \in inlineRows' : \E i \in inlineTables' :
                i.version = x.version /\ x.columns = ColumnIds(i.columns)
      BY <2>1, <2>5
    <2>10. TableIsLive' => \E i \in inlineTables' : \A j \in inlineTables' : j.version <= i.version
      BY <2>1, <2>4, <2>5
    <2>11. InlineHolds'
      BY <2>7, <2>8, <2>9, <2>10 DEF InlineHolds
    <2> QED BY <2>1, <2>3, <2>11
  <1>15. /\ ColumnsInTable' /\ InlineHolds'
         /\ \A s \in kept : Visible(columns', s) = Visible(columns, s)
         /\ \A s \in kept : HasTable(CatalogOf(s)) =>
               inlineRows' = inlineRows /\ inlineTables' = inlineTables
    BY <1>13, <1>14
  <1>16. ASSUME NEW s \in kept
         PROVE  /\ CatalogOf(s)' = CatalogOf(s)
                /\ FilesAt(s)' = FilesAt(s) /\ DeletedAt(s)' = DeletedAt(s)
    <2>1. Visible(tables', s) = Visible(tables, s)
      BY <1>2, <1>4, <1>7 DEF Visible
    <2>2. Visible(files', s) = Visible(files, s) /\ Visible(deletes', s) = Visible(deletes, s)
      BY <1>2, <1>7 DEF Visible
    <2>3. Visible(columns', s) = Visible(columns, s)
      BY <1>15
    <2> QED BY <2>1, <2>2, <2>3 DEF CatalogOf, FilesAt, DeletedAt
  <1>17. ASSUME NEW s \in kept, HasTable(CatalogOf(s))
         PROVE  InlinedAt(s)' = InlinedAt(s) /\ inlineTables' = inlineTables
    BY <1>15, <1>17 DEF InlinedAt
  <1>18. HistoryHolds'
    <2> SUFFICES ASSUME NEW s \in kept
                 PROVE  /\ history'[s].catalog = CatalogOf(s)'
                        /\ HasTable(CatalogOf(s)') => history'[s].contents = ContentsAt(s)'
      BY <1>6 DEF HistoryHolds
    <2>1. /\ history[s].catalog = CatalogOf(s)
          /\ HasTable(CatalogOf(s)) => history[s].contents = ContentsAt(s)
      BY <1>5 DEF DatabaseHolds, HistoryHolds
    <2>2. CatalogOf(s)' = CatalogOf(s)
      BY <1>16
    <2>3. HasTable(CatalogOf(s)) => ContentsAt(s)' = ContentsAt(s)
      BY <1>16, <1>17, ContentsKept
    <2> QED BY <1>3, <2>1, <2>2, <2>3
  <1>19. DatabaseHolds'
    BY <1>9, <1>10, <1>11, <1>15, <1>18 DEF DatabaseHolds
  <1>20. Survives
    <2>1. Hist \subseteq Hist' /\ \A s \in Hist : V(s)' = V(s) /\ history'[s] = history[s]
      BY <1>3 DEF Hist, V
    <2>2. DOMAIN snapshots' \ DOMAIN snapshots = {} /\ inlineTables' \ inlineTables = {}
      BY <1>2, <1>5, <1>6
    <2>3. DOMAIN snapshots \intersect DOMAIN snapshots' = kept
      BY <1>5, <1>6
    <2> QED BY <1>16, <1>17, <2>1, <2>2, <2>3 DEF Survives
  <1> QED BY <1>5, <1>6, <1>19, <1>20

-----------------------------------------------------------------------------
(* What was read survives what happens to the database.                    *)

\* A step that leaves the database alone.
LEMMA Untouched ==
    ASSUME DatabaseHolds, UNCHANGED <<database, history>>
    PROVE  /\ DatabaseHolds' /\ Survives /\ DOMAIN snapshots' = DOMAIN snapshots
           /\ inlineTables' = inlineTables
           /\ \A s : CatalogOf(s)' = CatalogOf(s) /\ V(s)' = V(s)
           /\ \A i : InfoOk(i)' <=> InfoOk(i)
  <1>1. /\ snapshots' = snapshots /\ tables' = tables /\ columns' = columns /\ files' = files
        /\ deletes' = deletes /\ inlineTables' = inlineTables /\ inlineRows' = inlineRows
        /\ schemaVersions' = schemaVersions /\ history' = history
    BY DEF database
  <1>2. \A s : /\ CatalogOf(s)' = CatalogOf(s) /\ V(s)' = V(s) /\ FilesAt(s)' = FilesAt(s)
               /\ DeletedAt(s)' = DeletedAt(s) /\ InlinedAt(s)' = InlinedAt(s)
               /\ ContentsAt(s)' = ContentsAt(s)
    BY <1>1 DEF CatalogOf, V, FilesAt, DeletedAt, InlinedAt, ContentsAt
  <1>3. Hist' = Hist /\ HeadId' = HeadId
    BY <1>1 DEF Hist, HeadId
  <1>4. Survives
    BY <1>1, <1>2, <1>3 DEF Survives
  <1>5. RowsTyped' /\ SnapshotsNumbered' /\ ColumnsInTable'
    BY <1>1, <1>2, <1>3 DEF DatabaseHolds, RowsTyped, SnapshotsNumbered, ColumnsInTable, TableVisible
  <1>6. RowsDated'
    <2>1. \A j : Starts(j)' <=> Starts(j)
      BY <1>2, <1>3 DEF Starts
    <2> QED BY <1>1, <1>3, <2>1 DEF DatabaseHolds, RowsDated, SchemaDated, Dated
  <1>7. InlineHolds'
    BY <1>1, <1>2, <1>3 DEF DatabaseHolds, InlineHolds, TableIsLive
  <1>8. HistoryHolds'
    BY <1>1, <1>2 DEF DatabaseHolds, HistoryHolds
  <1>9. \A i : InfoOk(i)' <=> InfoOk(i)
    BY <1>2, <1>3 DEF InfoOk
  <1> QED BY <1>1, <1>2, <1>4, <1>5, <1>6, <1>7, <1>8, <1>9 DEF DatabaseHolds

\* What a connection knows of a snapshot stays true.
LEMMA InfoSurvives ==
    ASSUME Survives, NEW i, InfoOk(i)
    PROVE  InfoOk(i)'
  BY DEF Survives, InfoOk

\* A cached catalog stays that of its schema version.
LEMMA CatalogSurvives ==
    ASSUME DatabaseHolds, Survives, NEW v, NEW b \in Hist, V(b) = v, NEW c, CatalogIs(c, v)
    PROVE  CatalogIs(c, v)'
  <1>1. ASSUME NEW s \in DOMAIN snapshots', V(s)' = v PROVE c = CatalogOf(s)'
    <2>1. CASE s \in DOMAIN snapshots
      <3>1. s \in Hist
        BY <2>1 DEF DatabaseHolds, SnapshotsNumbered
      <3>2. V(s) = v
        BY <1>1, <3>1 DEF Survives
      <3>3. c = CatalogOf(s)
        BY <2>1, <3>2 DEF CatalogIs
      <3> QED BY <2>1, <3>3 DEF Survives
    <2>2. CASE s \notin DOMAIN snapshots
      <3>1. V(s)' = V(HeadId) /\ CatalogOf(s)' = CatalogOf(HeadId)
        BY <1>1, <2>2 DEF Survives
      <3>2. HeadId \in DOMAIN snapshots
        BY DEF DatabaseHolds, SnapshotsNumbered
      <3> QED BY <1>1, <3>1, <3>2 DEF CatalogIs
    <2> QED BY <2>1, <2>2
  <1>2. ASSUME NEW i \in inlineTables', i.version = v PROVE HasTable(c) /\ SchemaOf(c) = i.columns
    <2>1. i \in inlineTables
      BY <1>2 DEF Survives
    <2> QED BY <1>2, <2>1 DEF CatalogIs
  <1> QED BY <1>1, <1>2 DEF CatalogIs

\* A task that keeps its snapshot and its catalog goes on.
LEMMA TaskSurvives ==
    ASSUME DatabaseHolds, Survives, NEW k \in TaskState, TaskHolds(k),
           k.pc = "insert" => k.info.id \in DOMAIN snapshots',
           k.pc \in ScanPc => k.snapshot.id \in DOMAIN snapshots',
           k.pc \in ScanPc => (Loaded(k.snapshot) => Loaded(k.snapshot)')
    PROVE  TaskHolds(k)'
  <1>1. /\ k.pc \in {"insert", "record"} => InfoOk(k.info)'
        /\ k.pc = "insert" => k.info.id \in DOMAIN snapshots' /\ k.floor <= k.info.id
    BY InfoSurvives DEF TaskHolds
  <1>2. k.pc \in ScanPc => ScanOpen(k)'
    <2> SUFFICES ASSUME k.pc \in ScanPc PROVE ScanOpen(k)'
      OBVIOUS
    <2>1. ScanOpen(k)
      BY DEF TaskHolds
    <2>2. InfoOk(k.snapshot)' /\ \A r \in k.resolved : InfoOk(r)'
      BY <2>1, InfoSurvives DEF ScanOpen
    <2> QED BY <2>1, <2>2 DEF ScanOpen
  <1>3. ASSUME k.pc \in ScanPc, NEW s, s = k.snapshot.id
        PROVE  /\ s \in DOMAIN snapshots \intersect DOMAIN snapshots'
               /\ CatalogOf(s)' = CatalogOf(s)
               /\ FilesAt(s)' = FilesAt(s) /\ DeletedAt(s)' = DeletedAt(s)
               /\ HasTable(CatalogOf(s)) =>
                     InlinedAt(s)' = InlinedAt(s) /\ inlineTables \subseteq inlineTables'
    BY <1>3 DEF TaskHolds, ScanOpen, Survives
  <1>4. k.pc \in {"fetch", "schemas", "ok"} => ScanReads(k)'
    <2> SUFFICES ASSUME k.pc \in {"fetch", "schemas", "ok"} PROVE ScanReads(k)'
      OBVIOUS
    <2>1. k.pc \in ScanPc /\ ScanReads(k)
      BY DEF TaskHolds, ScanPc
    <2>2. PICK s : s = k.snapshot.id
      OBVIOUS
    <2>3. HasTable(CatalogOf(s)) /\ Loaded(k.snapshot)
      BY <2>1, <2>2 DEF ScanReads
    <2>4. /\ CatalogOf(s)' = CatalogOf(s)
          /\ FilesAt(s)' = FilesAt(s) /\ DeletedAt(s)' = DeletedAt(s)
          /\ InlinedAt(s)' = InlinedAt(s) /\ inlineTables \subseteq inlineTables'
      BY <1>3, <2>1, <2>2, <2>3
    <2>5. \A left : RowsBut(s, left)' = RowsBut(s, left)
      BY <2>4 DEF RowsBut
    <2>6. Loaded(k.snapshot)'
      BY <2>1, <2>3
    <2>7. HasTable(CatalogOf(s)')
      BY <2>3, <2>4
    <2> QED BY <2>1, <2>2, <2>4, <2>5, <2>6, <2>7 DEF ScanReads
  <1>5. k.pc = "not_found" => ~ HasTable(CatalogOf(k.snapshot.id)')
    <2> SUFFICES ASSUME k.pc = "not_found" PROVE ~ HasTable(CatalogOf(k.snapshot.id)')
      OBVIOUS
    <2>1. k.pc \in ScanPc /\ ~ HasTable(CatalogOf(k.snapshot.id))
      BY DEF TaskHolds, ScanPc
    <2>2. CatalogOf(k.snapshot.id)' = CatalogOf(k.snapshot.id)
      BY <1>3, <2>1
    <2> QED BY <2>1, <2>2
  <1>6. /\ k.pc \in {"schemas", "ok"} => k.fetched = Queries
        /\ k.pc = "ok" => k.inline = {}
        /\ k.pc = "catalog" => k.fetched = {} /\ k.rows = {}
    BY DEF TaskHolds
  <1> QED BY <1>1, <1>2, <1>4, <1>5, <1>6 DEF TaskHolds

\* So does a handle.
LEMMA ViewSurvives ==
    ASSUME Survives, ViewHolds, view' = view,
           \A i \in view.pinned : i.id \in DOMAIN snapshots'
    PROVE  ViewHolds'
  BY InfoSurvives DEF ViewHolds

\* So does the cached head.
LEMMA HeadSurvives ==
    ASSUME Survives, HeadHolds, UNCHANGED <<current, acked>>
    PROVE  HeadHolds'
  BY InfoSurvives DEF HeadHolds

\* So do the cached catalogs.
LEMMA CatalogsSurvive ==
    ASSUME DatabaseHolds, Survives, CatalogsHold, catalogs' = catalogs, Held' = Held
    PROVE  CatalogsHold'
  <1>1. \A v \in DOMAIN catalogs :
          /\ catalogs[v] = [bound |-> catalogs[v].bound, loaded |-> catalogs[v].loaded]
          /\ catalogs[v].bound \in Hist /\ V(catalogs[v].bound) = v
          /\ \A c \in catalogs[v].loaded : CatalogIs(c, v)
    BY DEF CatalogsHold
  <1>2. \A v \in DOMAIN catalogs : \A c \in catalogs[v].loaded : CatalogIs(c, v)'
    BY <1>1, CatalogSurvives
  <1>3. \A v \in DOMAIN catalogs : catalogs[v].bound \in Hist' /\ V(catalogs[v].bound)' = v
    BY <1>1 DEF Survives
  <1>4. DOMAIN catalogs' = Held'
    BY DEF CatalogsHold
  <1> QED BY <1>1, <1>2, <1>3, <1>4 DEF CatalogsHold

-----------------------------------------------------------------------------
(* Who holds on to a catalog.                                              *)

SnapOf(k) == IF k.pc \in ScanPc THEN {k.snapshot} \union k.resolved ELSE {}
Tasked == task \in [Tasks -> TaskState]
Holders == {current} \union Pins \union UNION {SnapOf(task[t]) : t \in Tasks}

\* The schema versions that are held are those of the holders.
LEMMA HeldIs ==
    ASSUME Tasked
    PROVE  Held = {i.version : i \in Holders}
  <1>1. ASSUME NEW t \in Tasks PROVE SnapshotsOf(t) = SnapOf(task[t])
    <2> DEFINE k == task[t]
    <2>1. k \in TaskState
      BY DEF Tasked
    <2>2. k.pc \in {"idle", "insert", "record"} \union ScanPc
      BY <2>1 DEF TaskState, ScanState, Idle
    <2>3. CASE k.pc \in ScanPc
      <3>1. k.pc # "idle" /\ k.pc \notin {"insert", "record"}
        BY <2>3 DEF ScanPc
      <3> QED BY <2>3, <3>1 DEF SnapshotsOf, SnapOf
    <2>4. CASE k.pc = "idle"
      <3>1. k.pc \notin ScanPc
        BY <2>4 DEF ScanPc
      <3> QED BY <2>4, <3>1 DEF SnapshotsOf, SnapOf
    <2>5. CASE k.pc \in {"insert", "record"}
      <3>1. k.pc \notin ScanPc /\ k.pc # "idle"
        BY <2>5 DEF ScanPc
      <3> QED BY <2>5, <3>1 DEF SnapshotsOf, SnapOf
    <2> QED BY <2>2, <2>3, <2>4, <2>5
  <1>2. UNION {SnapshotsOf(t) : t \in Tasks} = UNION {SnapOf(task[t]) : t \in Tasks}
    BY <1>1
  <1> QED BY <1>2, Zenon DEF Held, Holders

\* The same after a step.
LEMMA HeldIsNext ==
    ASSUME Tasked'
    PROVE  Held' = {i.version : i \in Holders'}
  <1>1. ASSUME NEW t \in Tasks PROVE SnapshotsOf(t)' = SnapOf(task'[t])
    <2> DEFINE k == task'[t]
    <2>1. k \in TaskState
      BY DEF Tasked
    <2>2. k.pc \in {"idle", "insert", "record"} \union ScanPc
      BY <2>1 DEF TaskState, ScanState, Idle
    <2>3. CASE k.pc \in ScanPc
      <3>1. k.pc # "idle" /\ k.pc \notin {"insert", "record"}
        BY <2>3 DEF ScanPc
      <3> QED BY <2>3, <3>1 DEF SnapshotsOf, SnapOf
    <2>4. CASE k.pc = "idle"
      <3>1. k.pc \notin ScanPc
        BY <2>4 DEF ScanPc
      <3> QED BY <2>4, <3>1 DEF SnapshotsOf, SnapOf
    <2>5. CASE k.pc \in {"insert", "record"}
      <3>1. k.pc \notin ScanPc /\ k.pc # "idle"
        BY <2>5 DEF ScanPc
      <3> QED BY <2>5, <3>1 DEF SnapshotsOf, SnapOf
    <2> QED BY <2>2, <2>3, <2>4, <2>5
  <1>2. UNION {SnapshotsOf(t)' : t \in Tasks} = UNION {SnapOf(task'[t]) : t \in Tasks}
    BY <1>1
  <1>3. Held' = {i.version : i \in {current'} \union Pins' \union UNION {SnapshotsOf(t)' : t \in Tasks}}
    BY DEF Held
  <1>4. Holders' = {current'} \union Pins' \union UNION {SnapOf(task'[t]) : t \in Tasks}
    BY DEF Holders
  <1> QED BY <1>2, <1>3, <1>4

\* A step in which nobody gets another snapshot.
LEMMA HeldSame ==
    ASSUME Tasked, Tasked', Holders' = Holders
    PROVE  Held' = Held
  BY HeldIs, HeldIsNext

\* A step in which somebody may get hold of the snapshot `info`.
LEMMA HeldGrows ==
    ASSUME Tasked, Tasked', NEW info, Holders' \subseteq Holders \union {info}
    PROVE  Held' \subseteq Held \union {info.version}
  BY HeldIs, HeldIsNext

\* The snapshots of the other tasks stay.
LEMMA HoldersStep ==
    ASSUME Tasked, NEW t \in Tasks, NEW k, task'[t] = k,
           \A u \in Tasks \ {t} : task'[u] = task[u], NEW info,
           current' = current \/ current' = info, Pins' = Pins,
           SnapOf(k) \subseteq SnapOf(task[t]) \union Pins \union {info}
    PROVE  Holders' \subseteq Holders \union {info}
  <1>1. task'[t] = k /\ \A u \in Tasks \ {t} : task'[u] = task[u]
    OBVIOUS
  <1>2. ASSUME NEW u \in Tasks PROVE SnapOf(task'[u]) \subseteq Holders \union {info}
    <2>1. CASE u = t
      BY <1>1, <2>1 DEF Holders
    <2>2. CASE u # t
      <3>1. SnapOf(task'[u]) = SnapOf(task[u])
        BY <1>1, <2>2
      <3> QED BY <3>1 DEF Holders
    <2> QED BY <2>1, <2>2
  <1>3. Holders' = {current'} \union Pins' \union UNION {SnapOf(task'[u]) : u \in Tasks}
    BY DEF Holders
  <1>4. current \in Holders /\ Pins \subseteq Holders
    BY DEF Holders
  <1> QED BY <1>2, <1>3, <1>4

\* A task that keeps its snapshots changes nothing for the others.
LEMMA HoldersSame ==
    ASSUME Tasked, NEW t \in Tasks, NEW k, task'[t] = k,
           \A u \in Tasks \ {t} : task'[u] = task[u],
           current' = current, Pins' = Pins, SnapOf(k) = SnapOf(task[t])
    PROVE  Holders' = Holders
  <1>1. \A u \in Tasks : SnapOf(task'[u]) = SnapOf(task[u])
    BY DEF Tasked
  <1>2. UNION {SnapOf(task'[u]) : u \in Tasks} = UNION {SnapOf(task[u]) : u \in Tasks}
    BY <1>1
  <1>3. Holders' = {current'} \union Pins' \union UNION {SnapOf(task'[u]) : u \in Tasks}
    BY DEF Holders
  <1> QED BY <1>2, <1>3 DEF Holders

\* Sharing a catalog: those that are there are kept, a new one is bound to a
\* snapshot of its schema version.
LEMMA ShareHolds ==
    ASSUME DatabaseHolds, UNCHANGED <<database, history>>, CatalogsHold, Tasked, Tasked', NEW info,
           InfoOk(info), Share(info), Holders' \subseteq Holders \union {info}
    PROVE  /\ CatalogsHold'
           /\ \A i \in Holders \intersect Holders' : Loaded(i) => Loaded(i)'
  <1>1. Held' \subseteq Held \union {info.version}
    BY HeldGrows
  <1>2. /\ DOMAIN catalogs' = Held'
        /\ \A v \in Held' : catalogs'[v] = IF v \in DOMAIN catalogs THEN catalogs[v]
                                           ELSE [bound |-> info.id, loaded |-> {}]
    BY DEF Share
  <1>3. /\ \A s : CatalogOf(s)' = CatalogOf(s) /\ V(s)' = V(s)
        /\ DOMAIN snapshots' = DOMAIN snapshots /\ inlineTables' = inlineTables
        /\ Hist' = Hist
    BY Untouched DEF Hist
  <1>4. \A c, v : CatalogIs(c, v)' <=> CatalogIs(c, v)
    BY <1>3 DEF CatalogIs
  <1>5. DOMAIN catalogs = Held
    BY DEF CatalogsHold
  <1>6. ASSUME NEW v \in Held', NEW e, e = catalogs'[v]
        PROVE  /\ e = [bound |-> e.bound, loaded |-> e.loaded]
               /\ e.bound \in Hist /\ V(e.bound) = v
               /\ \A c \in e.loaded : CatalogIs(c, v)
    <2>1. CASE v \in DOMAIN catalogs
      <3>1. e = catalogs[v]
        BY <1>2, <1>6, <2>1
      <3> QED BY <2>1, <3>1 DEF CatalogsHold
    <2>2. CASE v \notin DOMAIN catalogs
      <3>1. e = [bound |-> info.id, loaded |-> {}]
        BY <1>2, <1>6, <2>2
      <3>2. v = info.version
        BY <1>1, <1>5, <2>2
      <3> QED BY <3>1, <3>2 DEF InfoOk
    <2> QED BY <2>1, <2>2
  <1>7. CatalogsHold'
    <2>1. ASSUME NEW v \in DOMAIN catalogs'
          PROVE  /\ catalogs'[v] = [bound |-> catalogs'[v].bound, loaded |-> catalogs'[v].loaded]
                 /\ catalogs'[v].bound \in Hist' /\ history'[catalogs'[v].bound].version = v
                 /\ \A c \in catalogs'[v].loaded : CatalogIs(c, v)'
      <3>1. PICK e : e = catalogs'[v]
        OBVIOUS
      <3>2. /\ e = [bound |-> e.bound, loaded |-> e.loaded]
            /\ e.bound \in Hist /\ V(e.bound) = v
            /\ \A c \in e.loaded : CatalogIs(c, v)
        BY <1>2, <1>6, <2>1, <3>1
      <3>3. history'[e.bound].version = v /\ e.bound \in Hist'
        BY <1>3, <3>2 DEF V
      <3>4. \A c \in e.loaded : CatalogIs(c, v)'
        BY <1>4, <3>2
      <3> QED BY <3>1, <3>2, <3>3, <3>4
    <2> QED BY <1>2, <2>1 DEF CatalogsHold, V
  <1>8. ASSUME NEW i \in Holders \intersect Holders', Loaded(i) PROVE Loaded(i)'
    <2>1. i.version \in Held /\ i.version \in Held'
      BY HeldIs, HeldIsNext
    <2>2. catalogs'[i.version] = catalogs[i.version]
      BY <1>2, <1>5, <2>1
    <2> QED BY <1>8, <2>2 DEF Loaded
  <1> QED BY <1>7, <1>8

-----------------------------------------------------------------------------
(* Steps of a task that leave the database alone.                          *)

\* The snapshots of a task are among those that are held.
LEMMA SnapOfHolders ==
    ASSUME NEW t \in Tasks
    PROVE  SnapOf(task[t]) \subseteq Holders /\ SnapOf(task'[t]) \subseteq Holders'
  <1>1. Holders' = {current'} \union Pins' \union UNION {SnapOf(task'[u]) : u \in Tasks}
    BY DEF Holders
  <1> QED BY <1>1 DEF Holders

\* A step of task t that keeps to what it has been told.
LEMMA TaskStep ==
    ASSUME IndInv, UNCHANGED <<database, history>>, NEW t \in Tasks, NEW k \in TaskState,
           task' = [task EXCEPT ![t] = k], view' = view, HeadHolds', CatalogsHold', TaskHolds(k)',
           \A i \in Holders \intersect Holders' : Loaded(i) => Loaded(i)'
    PROVE  IndInv'
  <1>1. DatabaseHolds' /\ Survives /\ DOMAIN snapshots' = DOMAIN snapshots
    BY Untouched DEF IndInv
  <1>2. ViewHolds'
    BY <1>1, ViewSurvives DEF IndInv, ViewHolds
  <1>3. /\ task'[t] = k /\ \A u \in Tasks \ {t} : task'[u] = task[u]
        /\ task' \in [Tasks -> TaskState] /\ task \in [Tasks -> TaskState]
    BY DEF IndInv
  <1>4. ASSUME NEW u \in Tasks PROVE TaskHolds(task[u])'
    <2>1. CASE u = t
      BY <1>3, <2>1
    <2>2. CASE u # t
      <3>1. PICK j \in TaskState : j = task[u] /\ j = task'[u]
        BY <1>3, <2>2
      <3>2. TaskHolds(j)
        BY <3>1 DEF IndInv
      <3>3. j.pc \in ScanPc => (Loaded(j.snapshot) => Loaded(j.snapshot)')
        <4> SUFFICES ASSUME j.pc \in ScanPc PROVE Loaded(j.snapshot) => Loaded(j.snapshot)'
          OBVIOUS
        <4>1. j.snapshot \in SnapOf(j)
          BY DEF SnapOf
        <4>2. j.snapshot \in Holders /\ j.snapshot \in Holders'
          BY <3>1, <4>1, SnapOfHolders
        <4> QED BY <4>2
      <3>4. /\ j.pc = "insert" => j.info.id \in DOMAIN snapshots'
            /\ j.pc \in ScanPc => j.snapshot.id \in DOMAIN snapshots'
        BY <1>1, <3>2 DEF TaskHolds, ScanOpen
      <3>5. TaskHolds(j)'
        BY <1>1, <3>2, <3>3, <3>4, TaskSurvives DEF IndInv
      <3> QED BY <3>1, <3>5
    <2> QED BY <2>1, <2>2
  <1> QED BY <1>1, <1>2, <1>3, <1>4 DEF IndInv

\* A step that does not touch the caches.
LEMMA QuietStep ==
    ASSUME IndInv, UNCHANGED <<database, history, cache, view, acked>>, NEW t \in Tasks,
           NEW k \in TaskState, task' = [task EXCEPT ![t] = k], TaskHolds(k)', Holders' = Holders
    PROVE  IndInv'
  <1>1. UNCHANGED <<database, history>> /\ current' = current /\ catalogs' = catalogs
        /\ view' = view /\ acked' = acked
    BY DEF cache
  <1>2. Survives
    BY <1>1, Untouched DEF IndInv
  <1>3. HeadHolds'
    BY <1>1, <1>2, HeadSurvives DEF IndInv
  <1>4. Tasked /\ Tasked'
    BY DEF IndInv, Tasked
  <1>5. Held' = Held
    BY <1>4, HeldSame
  <1>6. CatalogsHold'
    BY <1>1, <1>2, <1>5, CatalogsSurvive DEF IndInv
  <1>7. \A i : Loaded(i) => Loaded(i)'
    BY <1>1 DEF Loaded
  <1> QED BY <1>1, <1>3, <1>6, <1>7, TaskStep

\* A step that shares the catalog of the snapshot `info`.
LEMMA ShareStep ==
    ASSUME IndInv, UNCHANGED <<database, history, view>>, NEW t \in Tasks, NEW k \in TaskState,
           task' = [task EXCEPT ![t] = k], NEW info, InfoOk(info), Share(info),
           current' \in {current, info}, HeadHolds',
           SnapOf(k) \subseteq SnapOf(task[t]) \union Pins \union {info},
           (\A i \in Holders \intersect Holders' : Loaded(i) => Loaded(i)') => TaskHolds(k)'
    PROVE  IndInv'
  <1>1. UNCHANGED <<database, history>> /\ view' = view /\ Pins' = Pins
    BY DEF Pins
  <1>2. Tasked /\ Tasked'
    BY DEF IndInv, Tasked
  <1>3. Holders' \subseteq Holders \union {info}
    <2>1. task'[t] = k /\ \A u \in Tasks \ {t} : task'[u] = task[u]
      BY <1>2 DEF Tasked
    <2> QED BY <1>1, <1>2, <2>1, HoldersStep
  <1>4. /\ CatalogsHold'
        /\ \A i \in Holders \intersect Holders' : Loaded(i) => Loaded(i)'
    BY <1>1, <1>2, <1>3, ShareHolds DEF IndInv
  <1> QED BY <1>1, <1>4, TaskStep

\* Asking for the head.
LEMMA QueryHeadStep ==
    ASSUME IndInv, NEW t \in Tasks, QueryHead(t)
    PROVE  IndInv'
  <1> DEFINE k == [pc |-> "insert", info |-> Info(HeadId, snapshots[HeadId]), floor |-> acked]
  <1>1. /\ HeadId \in DOMAIN snapshots /\ HeadId \in Nat /\ HeadId \in Hist
        /\ Hist = 1 .. HeadId /\ snapshots[HeadId] = V(HeadId) /\ V(HeadId) \in Nat
    BY DEF IndInv, DatabaseHolds, SnapshotsNumbered
  <1>2. InfoOk(Info(HeadId, snapshots[HeadId]))
    BY <1>1 DEF InfoOk, Info, InfoRecord
  <1>3. acked \in Nat /\ acked <= HeadId
    BY <1>1 DEF IndInv, HeadHolds, InfoOk, InfoRecord
  <1>4. PICK j : j = k
    OBVIOUS
  <1>5. /\ j \in TaskState /\ j.pc = "insert" /\ InfoOk(j.info) /\ j.info.id \in DOMAIN snapshots
        /\ j.floor <= j.info.id
    BY <1>1, <1>2, <1>3, <1>4 DEF TaskState, InfoOk, Info
  <1>6. task' = [task EXCEPT ![t] = j] /\ UNCHANGED <<database, history, cache, view, acked>>
        /\ task[t].pc = "idle"
    BY <1>4 DEF QueryHead, Become
  <1> HIDE DEF k
  <1>7. UNCHANGED <<database, history>>
    BY <1>6
  <1>8. InfoOk(j.info)' /\ DOMAIN snapshots' = DOMAIN snapshots
    BY <1>5, <1>7, Untouched DEF IndInv
  <1>9. TaskHolds(j)'
    BY <1>5, <1>8 DEF TaskHolds, ScanPc
  <1>10. Holders' = Holders
    <2>1. SnapOf(j) = {} /\ SnapOf(task[t]) = {}
      BY <1>5, <1>6 DEF SnapOf, ScanPc
    <2>2. task'[t] = j /\ (\A u \in Tasks \ {t} : task'[u] = task[u]) /\ Tasked
      BY <1>6 DEF IndInv, Tasked
    <2>3. current' = current /\ Pins' = Pins
      BY <1>6 DEF cache, Pins
    <2> QED BY <2>1, <2>2, <2>3, HoldersSame
  <1> QED BY <1>5, <1>6, <1>9, <1>10, QuietStep

\* The cached head moves forward only.
LEMMA NewerHolds ==
    ASSUME IndInv, UNCHANGED <<database, history>>, NEW info, InfoOk(info),
           current' = Newer(info), acked' = acked \/ (acked' = info.id /\ acked < info.id)
    PROVE  HeadHolds' /\ (current' = current \/ current' = info)
  <1>1. InfoOk(current) /\ acked \in Nat /\ acked <= current.id
    BY DEF IndInv, HeadHolds
  <1>2. current.id \in Nat /\ info.id \in Nat
    BY <1>1 DEF InfoOk, InfoRecord
  <1>3. \A i : InfoOk(i)' <=> InfoOk(i)
    BY Untouched DEF IndInv
  <1>4. PICK c : c = current'
    OBVIOUS
  <1>5. c = IF info.id > current.id THEN info ELSE current
    BY <1>4 DEF Newer
  <1>6. InfoOk(c)' /\ acked' \in Nat /\ acked' <= c.id
    BY <1>1, <1>2, <1>3, <1>5
  <1>7. InfoOk(current)'
    BY <1>4, <1>6
  <1> QED BY <1>4, <1>5, <1>6, <1>7 DEF HeadHolds

\* The head has been read: the scan starts.
LEMMA InsertHeadStep ==
    ASSUME IndInv, NEW t \in Tasks, InsertHead(t)
    PROVE  IndInv'
  <1>1. PICK j \in TaskState : j = task[t]
    BY DEF IndInv
  <1>2. /\ j.pc = "insert" /\ TaskHolds(j)
        /\ UNCHANGED <<database, history, view, acked>>
    BY <1>1 DEF InsertHead, IndInv
  <1>3. PICK info : info = j.info
    OBVIOUS
  <1>4. InfoOk(info) /\ info.id \in DOMAIN snapshots /\ j.floor <= info.id /\ j.floor \in Nat
    <2>1. j.floor \in Nat
      BY <1>2 DEF TaskState, ScanState, ScanPc, Idle
    <2> QED BY <1>2, <1>3, <2>1 DEF TaskHolds
  <1>5. PICK k : k = Scan(info, NULL, j.floor)
    OBVIOUS
  <1>6. /\ task' = [task EXCEPT ![t] = k] /\ current' = Newer(info) /\ Share(info)
    BY <1>1, <1>3, <1>5 DEF InsertHead, Become
  <1>7. UNCHANGED <<database, history>> /\ acked' = acked
    BY <1>2
  <1>8. HeadHolds' /\ (current' = current \/ current' = info)
    BY <1>4, <1>6, <1>7, NewerHolds
  <1>9. /\ k.pc = "catalog" /\ k.snapshot = info /\ k.resolved = {} /\ k.asked = NULL
        /\ k.floor = j.floor /\ k.fetched = {} /\ k.rows = {}
    BY <1>5 DEF Scan
  <1>10. k \in TaskState
    <2>1. k \in ScanState
      BY <1>4, <1>5 DEF Scan, ScanState, ScanPc, Ends, InfoOk
    <2> QED BY <2>1 DEF TaskState
  <1>11. SnapOf(k) = {info}
    BY <1>9 DEF SnapOf, ScanPc
  <1>12. TaskHolds(k)'
    <2>1. InfoOk(info)' /\ DOMAIN snapshots' = DOMAIN snapshots
      BY <1>4, <1>7, Untouched DEF IndInv
    <2>2. ScanOpen(k)'
      BY <1>4, <1>9, <2>1 DEF ScanOpen
    <2> QED BY <1>9, <2>2 DEF TaskHolds
  <1> QED BY <1>2, <1>4, <1>6, <1>8, <1>10, <1>11, <1>12, ShareStep

\* A scan of a pinned handle starts.
LEMMA ScanViewStep ==
    ASSUME IndInv, NEW t \in Tasks, ScanView(t)
    PROVE  IndInv'
  <1>1. PICK info \in view.pinned : task' = [task EXCEPT ![t] = Scan(info, view.asked, 0)]
    BY DEF ScanView, Become
  <1>2. UNCHANGED <<database, history, cache, view, acked>> /\ task[t].pc = "idle"
    BY DEF ScanView
  <1>3. PICK asked : asked = view.asked
    OBVIOUS
  <1>4. /\ InfoOk(info) /\ info.id \in DOMAIN snapshots /\ asked \in Ends
        /\ asked # NULL => info.id = asked
    BY <1>3 DEF IndInv, ViewHolds
  <1>5. PICK k : k = Scan(info, asked, 0)
    OBVIOUS
  <1>6. /\ k.pc = "catalog" /\ k.snapshot = info /\ k.resolved = {} /\ k.asked = asked /\ k.floor = 0
        /\ k.fetched = {} /\ k.rows = {}
    BY <1>5 DEF Scan
  <1>7. k \in TaskState
    <2>1. k \in ScanState
      BY <1>4, <1>5 DEF Scan, ScanState, ScanPc, InfoOk
    <2> QED BY <2>1 DEF TaskState
  <1>8. task' = [task EXCEPT ![t] = k]
    BY <1>1, <1>3, <1>5
  <1>9. UNCHANGED <<database, history>>
    BY <1>2
  <1>10. TaskHolds(k)'
    <2>1. InfoOk(info)' /\ DOMAIN snapshots' = DOMAIN snapshots
      BY <1>4, <1>9, Untouched DEF IndInv
    <2>2. 0 <= info.id
      BY <1>4 DEF InfoOk, InfoRecord
    <2>3. ScanOpen(k)'
      BY <1>4, <1>6, <2>1, <2>2 DEF ScanOpen
    <2> QED BY <1>6, <2>3 DEF TaskHolds
  <1>11. Holders' = Holders
    <2>1. SnapOf(k) = {info} /\ SnapOf(task[t]) = {}
      BY <1>2, <1>6 DEF SnapOf, ScanPc
    <2>2. task'[t] = k /\ (\A u \in Tasks \ {t} : task'[u] = task[u]) /\ Tasked
      BY <1>8 DEF IndInv, Tasked
    <2>3. current' = current /\ Pins' = Pins
      BY <1>2 DEF cache, Pins
    <2>4. info \in Pins /\ info \in Holders
      BY DEF Pins, Holders
    <2>5. Holders' \subseteq Holders \union {info}
      BY <2>1, <2>2, <2>3, HoldersStep
    <2>6. Holders' = {current'} \union Pins' \union UNION {SnapOf(task'[u]) : u \in Tasks}
      BY DEF Holders
    <2>7. Holders \subseteq Holders'
      BY <2>1, <2>2, <2>3, <2>6 DEF Holders
    <2> QED BY <2>4, <2>5, <2>7
  <1> QED BY <1>2, <1>7, <1>8, <1>10, <1>11, QuietStep

\* A commit of this connection is recorded.
LEMMA RecordCommitStep ==
    ASSUME IndInv, NEW t \in Tasks, RecordCommit(t)
    PROVE  IndInv'
  <1>1. PICK j \in TaskState : j = task[t]
    BY DEF IndInv
  <1>2. j.pc = "record" /\ TaskHolds(j) /\ UNCHANGED <<database, history, view>>
    BY <1>1 DEF RecordCommit, IndInv
  <1>3. PICK info : info = j.info
    OBVIOUS
  <1>4. InfoOk(info) /\ info.id \in Nat /\ acked \in Nat
    BY <1>2, <1>3 DEF TaskHolds, InfoOk, InfoRecord, IndInv, HeadHolds
  <1>5. PICK k : k = Idle
    OBVIOUS
  <1>6. /\ task' = [task EXCEPT ![t] = k] /\ current' = Newer(info) /\ Share(info)
        /\ acked' = Max({acked, info.id})
    BY <1>1, <1>3, <1>5 DEF RecordCommit, Become
  <1>7. UNCHANGED <<database, history>>
    BY <1>2
  <1>8. acked' = acked \/ (acked' = info.id /\ acked < info.id)
    <2>1. PICK a : a = acked
      OBVIOUS
    <2>2. {a, info.id} \in SUBSET Int
      BY <1>4, <2>1
    <2>3. CASE a < info.id
      <3>1. Max({a, info.id}) = info.id
        BY <1>4, <2>1, <2>2, <2>3, MaxIs
      <3> QED BY <1>6, <2>1, <2>3, <3>1
    <2>4. CASE info.id <= a
      <3>1. Max({a, info.id}) = a
        BY <1>4, <2>1, <2>2, <2>4, MaxIs
      <3> QED BY <1>6, <2>1, <3>1
    <2> QED BY <1>4, <2>1, <2>3, <2>4
  <1>9. HeadHolds' /\ (current' = current \/ current' = info)
    BY <1>4, <1>6, <1>7, <1>8, NewerHolds
  <1>10. k \in TaskState /\ SnapOf(k) = {}
    BY <1>5 DEF TaskState, SnapOf, ScanPc, Idle
  <1>11. TaskHolds(k)'
    BY <1>5 DEF TaskHolds, Idle, ScanPc
  <1> QED BY <1>2, <1>4, <1>6, <1>9, <1>10, <1>11, ShareStep

\* A scan is over.
LEMMA ReleaseStep ==
    ASSUME IndInv, NEW t \in Tasks, Release(t)
    PROVE  IndInv'
  <1>1. PICK k : k = Idle
    OBVIOUS
  <1>2. PICK info : info = current
    OBVIOUS
  <1>3. /\ UNCHANGED <<database, history, view, current, acked>>
        /\ task' = [task EXCEPT ![t] = k] /\ Share(info)
    BY <1>1, <1>2 DEF Release, Become
  <1>4. InfoOk(info)
    BY <1>2 DEF IndInv, HeadHolds
  <1>5. UNCHANGED <<database, history>>
    BY <1>3
  <1>6. HeadHolds'
    BY <1>3, <1>5, Untouched, HeadSurvives DEF IndInv
  <1>7. k \in TaskState /\ SnapOf(k) = {}
    BY <1>1 DEF TaskState, SnapOf, ScanPc, Idle
  <1>8. TaskHolds(k)'
    BY <1>1 DEF TaskHolds, Idle, ScanPc
  <1> QED BY <1>3, <1>4, <1>6, <1>7, <1>8, ShareStep

\* A catalog that is held fits its schema version.
LEMMA HeldCatalog ==
    ASSUME IndInv, NEW i \in Holders, Loaded(i)
    PROVE  /\ CatalogIs(CatalogFor(i), i.version)
           /\ InfoOk(i) /\ i.id \in DOMAIN snapshots => CatalogFor(i) = CatalogOf(i.id)
  <1>1. i.version \in Held
    BY HeldIs DEF IndInv, Tasked
  <1>2. CatalogFor(i) \in catalogs[i.version].loaded
    BY DEF Loaded, CatalogFor
  <1>3. CatalogIs(CatalogFor(i), i.version)
    BY <1>1, <1>2 DEF IndInv, CatalogsHold
  <1> QED BY <1>3 DEF CatalogIs, InfoOk

\* The table is looked up in the catalog of the snapshot.
LEMMA LookUpTableStep ==
    ASSUME IndInv, NEW t \in Tasks, LookUpTable(t)
    PROVE  IndInv'
  <1>1. PICK j \in TaskState : j = task[t]
    BY DEF IndInv
  <1>2. /\ j.pc = "catalog" /\ TaskHolds(j) /\ Loaded(j.snapshot)
        /\ UNCHANGED <<database, history, cache, view, acked>>
    BY <1>1 DEF LookUpTable, IndInv
  <1>3. j \in ScanState
    BY <1>2 DEF TaskState, Idle
  <1>4. j.snapshot \in Holders /\ SnapOf(j) = {j.snapshot} \union j.resolved
    BY <1>1, <1>2, SnapOfHolders DEF SnapOf, ScanPc
  <1>5. ScanOpen(j) /\ j.fetched = {} /\ j.rows = {}
    BY <1>2 DEF TaskHolds, ScanPc
  <1>6. CatalogFor(j.snapshot) = CatalogOf(j.snapshot.id)
    BY <1>2, <1>4, <1>5, HeldCatalog DEF ScanOpen
  <1>7. PICK pc \in {"fetch", "not_found"} :
          /\ task' = [task EXCEPT ![t] = [j EXCEPT !.pc = pc]]
          /\ pc = "fetch" <=> HasTable(CatalogOf(j.snapshot.id))
    BY <1>1, <1>6 DEF LookUpTable, Become, Done
  <1>8. PICK k : k = [j EXCEPT !.pc = pc]
    OBVIOUS
  <1>9. /\ k.pc = pc /\ k.snapshot = j.snapshot /\ k.resolved = j.resolved /\ k.floor = j.floor
        /\ k.asked = j.asked /\ k.fetched = {} /\ k.rows = {} /\ k \in ScanState
    BY <1>3, <1>5, <1>8 DEF ScanState, ScanPc
  <1>10. k \in TaskState /\ SnapOf(k) = SnapOf(j)
    BY <1>4, <1>9 DEF TaskState, SnapOf, ScanPc
  <1>11. UNCHANGED <<database, history>> /\ catalogs' = catalogs
    BY <1>2 DEF cache
  <1>12. /\ DOMAIN snapshots' = DOMAIN snapshots /\ Survives
         /\ \A s : CatalogOf(s)' = CatalogOf(s)
    BY <1>11, Untouched DEF IndInv
  <1>13. TaskHolds(k)'
    <2>1. InfoOk(k.snapshot)' /\ \A r \in k.resolved : InfoOk(r)'
      BY <1>5, <1>9, <1>12, InfoSurvives DEF ScanOpen
    <2>2. ScanOpen(k)'
      BY <1>5, <1>9, <1>12, <2>1 DEF ScanOpen
    <2>3. Loaded(k.snapshot)'
      BY <1>2, <1>9, <1>11 DEF Loaded
    <2>4. HasTable(CatalogOf(k.snapshot.id)') <=> pc = "fetch"
      BY <1>7, <1>9, <1>12
    <2>5. pc = "fetch" => ScanReads(k)'
      BY <1>9, <2>3, <2>4 DEF ScanReads
    <2> QED BY <1>9, <2>2, <2>4, <2>5 DEF TaskHolds
  <1>14. Holders' = Holders
    <2>1. task'[t] = k /\ (\A u \in Tasks \ {t} : task'[u] = task[u]) /\ Tasked
      BY <1>7, <1>8 DEF IndInv, Tasked
    <2>2. current' = current /\ Pins' = Pins
      BY <1>2 DEF cache, Pins
    <2> QED BY <1>1, <1>10, <2>1, <2>2, HoldersSame
  <1>15. task' = [task EXCEPT ![t] = k]
    BY <1>7, <1>8
  <1> QED BY <1>2, <1>10, <1>13, <1>14, <1>15, QuietStep

\* What holds of every step of a scan that reads the database.
LEMMA ScanStep ==
    ASSUME IndInv, NEW t \in Tasks, NEW j \in ScanState, j = task[t],
           UNCHANGED <<database, history, cache, view, acked>>, NEW k \in ScanState,
           task' = [task EXCEPT ![t] = k], j.pc \in {"fetch", "schemas"},
           k.pc \in {"fetch", "schemas", "ok"},
           k.snapshot = j.snapshot, k.resolved = j.resolved, k.floor = j.floor, k.asked = j.asked,
           ScanReads(k), k.pc # "fetch" => k.fetched = Queries, k.pc = "ok" => k.inline = {}
    PROVE  IndInv'
  <1>1. UNCHANGED <<database, history>> /\ catalogs' = catalogs
    BY DEF cache
  <1>2. /\ DOMAIN snapshots' = DOMAIN snapshots /\ Survives /\ \A i : InfoOk(i)' <=> InfoOk(i)
        /\ DatabaseHolds
    BY <1>1, Untouched DEF IndInv
  <1>3. ScanOpen(k)
    <2>1. ScanOpen(j)
      BY DEF IndInv, TaskHolds, ScanPc
    <2> QED BY <2>1 DEF ScanOpen
  <1>4. k \in TaskState /\ SnapOf(k) = SnapOf(j)
    BY DEF TaskState, SnapOf, ScanPc
  <1>5. TaskHolds(k)
    BY <1>3 DEF TaskHolds
  <1>6. TaskHolds(k)'
    <2>1. k.pc \in ScanPc => (Loaded(k.snapshot) => Loaded(k.snapshot)')
      BY <1>1 DEF Loaded
    <2>2. /\ k.pc = "insert" => k.info.id \in DOMAIN snapshots'
          /\ k.pc \in ScanPc => k.snapshot.id \in DOMAIN snapshots'
      BY <1>2, <1>3 DEF ScanOpen
    <2> QED BY <1>2, <1>4, <1>5, <2>1, <2>2, TaskSurvives
  <1>7. Holders' = Holders
    <2>1. task'[t] = k /\ (\A u \in Tasks \ {t} : task'[u] = task[u]) /\ Tasked
      BY DEF IndInv, Tasked
    <2>2. current' = current /\ Pins' = Pins
      BY DEF cache, Pins
    <2> QED BY <1>4, <2>1, <2>2, HoldersSame
  <1> QED BY <1>4, <1>6, <1>7, QuietStep

\* Every inlined row is in one of the inlined data tables.
LEMMA NothingInlinedElsewhere ==
    ASSUME DatabaseHolds, NEW s
    PROVE  RowsBut(s, inlineTables) = {}
  <1>1. \A x \in inlineRows : \E i \in inlineTables : i.version = x.version
    BY DEF DatabaseHolds, InlineHolds
  <1>2. \A y \in InlinedAt(s) : \E i \in inlineTables : i.version = y.version
    BY <1>1 DEF InlinedAt, Visible
  <1> QED BY <1>2 DEF RowsBut

\* A query of a scan.
LEMMA FetchStep ==
    ASSUME IndInv, NEW t \in Tasks, NEW q \in Queries, Fetch(t, q)
    PROVE  IndInv'
  <1>1. PICK j \in TaskState : j = task[t]
    BY DEF IndInv
  <1>2. /\ j.pc = "fetch" /\ q \notin j.fetched /\ TaskHolds(j)
        /\ UNCHANGED <<database, history, cache, view, acked>>
    BY <1>1 DEF Fetch, IndInv
  <1>3. j \in ScanState /\ ScanReads(j)
    BY <1>2 DEF TaskState, Idle, TaskHolds
  <1>4. PICK s : s = j.snapshot.id
    OBVIOUS
  <1>5. PICK got : got = CASE q = "files" -> {f.file : f \in Visible(files, s)}
                           [] q = "deletes" -> {d.file : d \in Visible(deletes, s)}
                           [] OTHER -> {i \in inlineTables : i.table = Scanned}
    OBVIOUS
  <1>6. PICK after : after = [j EXCEPT ![q] = got, !.fetched = @ \union {q}]
    OBVIOUS
  <1>7. PICK k : k = [after EXCEPT !.pc = IF after.fetched = Queries THEN "schemas" ELSE "fetch"]
    OBVIOUS
  <1>8. task' = [task EXCEPT ![t] = k]
    BY <1>1, <1>4, <1>5, <1>6, <1>7 DEF Fetch, Become
  <1>9. /\ RowsTyped /\ \A i \in inlineTables : i.table = Scanned
    BY DEF IndInv, DatabaseHolds, RowsTyped, InlineTable
  <1>10. FilesAt(s) \in SUBSET Nat /\ DeletedAt(s) \in SUBSET Nat
    BY <1>9 DEF RowsTyped, FileRow, FilesAt, DeletedAt, Visible
  <1>11. CASE q = "files"
    <2>1. got = FilesAt(s)
      BY <1>5, <1>11 DEF FilesAt
    <2>2. after = [j EXCEPT !.files = got, !.fetched = j.fetched \union {q}]
      BY <1>3, <1>6, <1>11 DEF ScanState
    <2>3. /\ k \in ScanState /\ k.pc \in {"fetch", "schemas"}
          /\ k.pc # "fetch" => k.fetched = Queries
          /\ k.snapshot = j.snapshot /\ k.resolved = j.resolved /\ k.floor = j.floor
          /\ k.asked = j.asked /\ k.files = got /\ k.fetched = j.fetched \union {"files"}
          /\ k.deletes = j.deletes /\ k.inline = j.inline /\ k.rows = j.rows
      BY <1>3, <1>7, <1>10, <1>11, <2>1, <2>2 DEF ScanState, ScanPc
    <2>4. ScanReads(k)
      BY <1>3, <1>4, <2>1, <2>3 DEF ScanReads
    <2> QED BY <1>1, <1>2, <1>3, <1>8, <2>3, <2>4, ScanStep
  <1>12. CASE q = "deletes"
    <2>1. got = DeletedAt(s)
      BY <1>5, <1>12 DEF DeletedAt
    <2>2. after = [j EXCEPT !.deletes = got, !.fetched = j.fetched \union {q}]
      BY <1>3, <1>6, <1>12 DEF ScanState
    <2>3. /\ k \in ScanState /\ k.pc \in {"fetch", "schemas"}
          /\ k.pc # "fetch" => k.fetched = Queries
          /\ k.snapshot = j.snapshot /\ k.resolved = j.resolved /\ k.floor = j.floor
          /\ k.asked = j.asked /\ k.deletes = got /\ k.fetched = j.fetched \union {"deletes"}
          /\ k.files = j.files /\ k.inline = j.inline /\ k.rows = j.rows
      BY <1>3, <1>7, <1>10, <1>12, <2>1, <2>2 DEF ScanState, ScanPc
    <2>4. ScanReads(k)
      BY <1>3, <1>4, <2>1, <2>3 DEF ScanReads
    <2> QED BY <1>1, <1>2, <1>3, <1>8, <2>3, <2>4, ScanStep
  <1>13. CASE q = "inline"
    <2>1. got = inlineTables /\ inlineTables \in SUBSET InlineTable
      BY <1>5, <1>9, <1>13 DEF RowsTyped
    <2>2. after = [j EXCEPT !.inline = got, !.fetched = j.fetched \union {q}]
      BY <1>3, <1>6, <1>13 DEF ScanState
    <2>3. /\ k \in ScanState /\ k.pc \in {"fetch", "schemas"}
          /\ k.pc # "fetch" => k.fetched = Queries
          /\ k.snapshot = j.snapshot /\ k.resolved = j.resolved /\ k.floor = j.floor
          /\ k.asked = j.asked /\ k.inline = got /\ k.fetched = j.fetched \union {"inline"}
          /\ k.files = j.files /\ k.deletes = j.deletes /\ k.rows = j.rows
      BY <1>3, <1>7, <1>13, <2>1, <2>2 DEF ScanState, ScanPc
    <2>4. RowsBut(s, inlineTables) = {} /\ j.rows = {}
      BY <1>2, <1>3, <1>13, NothingInlinedElsewhere DEF IndInv, ScanReads
    <2>5. ScanReads(k)
      BY <1>3, <1>4, <2>1, <2>3, <2>4 DEF ScanReads
    <2> QED BY <1>1, <1>2, <1>3, <1>8, <2>3, <2>5, ScanStep
  <1> QED BY <1>11, <1>12, <1>13 DEF Queries

\* Everything has been read.
LEMMA ScanDoneStep ==
    ASSUME IndInv, NEW t \in Tasks, ScanDone(t)
    PROVE  IndInv'
  <1>1. PICK j \in TaskState : j = task[t]
    BY DEF IndInv
  <1>2. /\ j.pc = "schemas" /\ j.inline = {} /\ TaskHolds(j)
        /\ UNCHANGED <<database, history, cache, view, acked>>
    BY <1>1 DEF ScanDone, IndInv
  <1>3. j \in ScanState /\ ScanReads(j) /\ j.fetched = Queries
    BY <1>2 DEF TaskState, Idle, TaskHolds
  <1>4. PICK k : k = [j EXCEPT !.pc = "ok"]
    OBVIOUS
  <1>5. task' = [task EXCEPT ![t] = k]
    BY <1>1, <1>4 DEF ScanDone, Done, Become
  <1>6. /\ k \in ScanState /\ k.pc = "ok"
        /\ k.snapshot = j.snapshot /\ k.resolved = j.resolved /\ k.floor = j.floor
        /\ k.asked = j.asked /\ k.inline = j.inline /\ k.fetched = j.fetched
        /\ k.files = j.files /\ k.deletes = j.deletes /\ k.rows = j.rows
    BY <1>3, <1>4 DEF ScanState, ScanPc
  <1>7. ScanReads(k)
    BY <1>3, <1>6 DEF ScanReads
  <1> QED BY <1>1, <1>2, <1>3, <1>5, <1>6, <1>7, ScanStep

\* A schema version has one inlined data table.
LEMMA OneInlineTable ==
    ASSUME DatabaseHolds, NEW i \in inlineTables, NEW j \in inlineTables, i.version = j.version
    PROVE  i = j
  <1>1. PICK r \in schemaVersions : r.version = i.version
    BY DEF DatabaseHolds, InlineHolds
  <1>2. r.begin \in Hist /\ V(r.begin) = i.version
    BY <1>1 DEF DatabaseHolds, InlineHolds
  <1>3. i.columns = SchemaOf(CatalogOf(r.begin)) /\ j.columns = SchemaOf(CatalogOf(r.begin))
    BY <1>2 DEF DatabaseHolds, InlineHolds
  <1>4. i \in InlineTable /\ j \in InlineTable
    BY DEF DatabaseHolds, RowsTyped
  <1> QED BY <1>3, <1>4 DEF InlineTable

\* The snapshot that stands for a schema version has that schema version.
LEMMA InfoForHolds ==
    ASSUME IndInv, NEW i \in inlineTables
    PROVE  /\ InfoFor(i.version) # {}
           /\ \A info \in InfoFor(i.version) : InfoOk(info) /\ info.version = i.version
  <1>1. PICK v : v = i.version
    OBVIOUS
  <1> DEFINE live == {s \in DOMAIN snapshots : snapshots[s] = v}
             begins == {r.begin : r \in {r \in schemaVersions : r.version = v}}
  <1>2. InfoFor(v) = IF current.version = v THEN {current}
                     ELSE IF live # {} THEN {Info(Max(live), v)}
                     ELSE IF begins # {} THEN {Info(Min(begins), v)} ELSE {}
    BY DEF InfoFor
  <1>3. begins # {}
    BY <1>1 DEF IndInv, DatabaseHolds, InlineHolds
  <1>4. v \in Nat
    BY <1>1 DEF IndInv, DatabaseHolds, RowsTyped, InlineTable
  <1>5. /\ HeadId \in Nat /\ Hist = 1 .. HeadId /\ DOMAIN snapshots \subseteq Hist
        /\ \A s \in DOMAIN snapshots : snapshots[s] = V(s)
    BY DEF IndInv, DatabaseHolds, SnapshotsNumbered
  <1>6. \A s \in Hist : V(s) = v => InfoOk(Info(s, v)) /\ Info(s, v).version = v
    BY <1>4, <1>5 DEF InfoOk, Info, InfoRecord
  <1>7. InfoOk(current)
    BY DEF IndInv, HeadHolds
  <1>8. ASSUME live # {} PROVE Max(live) \in Hist /\ V(Max(live)) = v
    <2>1. live \in SUBSET (0 .. HeadId)
      BY <1>5
    <2>2. PICK n \in Nat : n = HeadId
      BY <1>5
    <2> HIDE DEF live
    <2>3. Max(live) \in live
      BY <1>8, <2>1, <2>2, MaxExists
    <2> QED BY <1>5, <2>3 DEF live
  <1>9. Min(begins) \in Hist /\ V(Min(begins)) = v
    <2>1. \A b \in begins : b \in Hist /\ V(b) = v
      BY DEF IndInv, DatabaseHolds, InlineHolds
    <2>2. begins \in SUBSET Nat
      BY <1>5, <2>1
    <2> HIDE DEF begins
    <2>3. Min(begins) \in begins
      BY <1>3, <2>2, MinExists
    <2> QED BY <2>1, <2>3
  <1> HIDE DEF live, begins
  <1>10. InfoFor(v) # {} /\ \A info \in InfoFor(v) : InfoOk(info) /\ info.version = v
    BY <1>2, <1>3, <1>6, <1>7, <1>8, <1>9
  <1> QED BY <1>1, <1>10

\* A snapshot with the schema version of an inlined data table is found.
LEMMA ResolveSchemaStep ==
    ASSUME IndInv, NEW t \in Tasks, ResolveSchema(t)
    PROVE  IndInv'
  <1>1. PICK j \in TaskState : j = task[t]
    BY DEF IndInv
  <1>2. /\ j.pc = "schemas" /\ TaskHolds(j)
        /\ UNCHANGED <<database, history, acked>>
    BY <1>1 DEF ResolveSchema, IndInv
  <1>3. j \in ScanState /\ ScanReads(j) /\ j.fetched = Queries /\ ScanOpen(j)
    BY <1>2 DEF TaskState, Idle, TaskHolds, ScanPc
  <1>4. j.inline \subseteq inlineTables
    BY <1>3 DEF ScanReads, Queries
  <1>5. PICK i \in j.inline :
          IF InfoFor(i.version) = {}
          THEN /\ Done(t, "error")
               /\ UNCHANGED <<current, view>> /\ Share(current)
          ELSE \E info \in InfoFor(i.version) :
               /\ Become(t, [task[t] EXCEPT !.resolved = @ \union {info}])
               /\ UNCHANGED <<current, view>> /\ Share(info)
    BY <1>1 DEF ResolveSchema, Unresolved
  <1>6. /\ InfoFor(i.version) # {}
        /\ \A info \in InfoFor(i.version) : InfoOk(info)
    BY <1>4, InfoForHolds
  <1>7. PICK info \in InfoFor(i.version) :
          /\ Become(t, [task[t] EXCEPT !.resolved = @ \union {info}])
          /\ UNCHANGED <<current, view>> /\ Share(info)
    BY <1>5, <1>6
  <1>8. PICK k : k = [j EXCEPT !.resolved = j.resolved \union {info}]
    OBVIOUS
  <1>9. task' = [task EXCEPT ![t] = k]
    BY <1>1, <1>7, <1>8 DEF Become
  <1>10. InfoOk(info)
    BY <1>6
  <1>11. /\ k \in ScanState /\ k.pc = "schemas"
         /\ k.snapshot = j.snapshot /\ k.resolved = j.resolved \union {info} /\ k.floor = j.floor
         /\ k.asked = j.asked /\ k.inline = j.inline /\ k.fetched = j.fetched
         /\ k.files = j.files /\ k.deletes = j.deletes /\ k.rows = j.rows
    BY <1>2, <1>3, <1>8, <1>10 DEF ScanState, ScanPc, InfoOk
  <1>12. k \in TaskState /\ SnapOf(k) = SnapOf(j) \union {info} /\ k.snapshot \in SnapOf(j)
    BY <1>2, <1>11 DEF TaskState, SnapOf, ScanPc
  <1>13. TaskHolds(k)
    <2>1. ScanOpen(k)
      BY <1>3, <1>10, <1>11 DEF ScanOpen
    <2>2. ScanReads(k)
      BY <1>3, <1>11 DEF ScanReads
    <2> QED BY <1>3, <1>11, <2>1, <2>2 DEF TaskHolds
  <1>14. UNCHANGED <<database, history>> /\ UNCHANGED <<current, acked>>
    BY <1>2, <1>7
  <1>15. /\ DOMAIN snapshots' = DOMAIN snapshots /\ Survives /\ DatabaseHolds
    BY <1>14, Untouched DEF IndInv
  <1>16. HeadHolds'
    BY <1>14, <1>15, HeadSurvives DEF IndInv
  <1>17. ASSUME \A h \in Holders \intersect Holders' : Loaded(h) => Loaded(h)'
         PROVE  TaskHolds(k)'
    <2>1. task'[t] = k
      BY <1>9 DEF IndInv
    <2>2. k.snapshot \in Holders /\ k.snapshot \in Holders'
      BY <1>1, <1>12, <2>1, SnapOfHolders
    <2>3. k.pc \in ScanPc => (Loaded(k.snapshot) => Loaded(k.snapshot)')
      BY <1>17, <2>2
    <2>4. /\ k.pc = "insert" => k.info.id \in DOMAIN snapshots'
          /\ k.pc \in ScanPc => k.snapshot.id \in DOMAIN snapshots'
      BY <1>3, <1>11, <1>15 DEF ScanOpen
    <2> QED BY <1>12, <1>13, <1>15, <2>3, <2>4, TaskSurvives
  <1>18. SnapOf(k) \subseteq SnapOf(task[t]) \union Pins \union {info}
    BY <1>1, <1>12
  <1>19. UNCHANGED <<database, history, view>> /\ current' \in {current, info} /\ Share(info)
    BY <1>2, <1>7
  <1> QED BY <1>9, <1>10, <1>12, <1>16, <1>17, <1>18, <1>19, ShareStep

\* The rows of an inlined data table are read, with its columns.
LEMMA ReadInlinedStep ==
    ASSUME IndInv, NEW t \in Tasks, ReadInlined(t)
    PROVE  IndInv'
  <1>1. PICK j \in TaskState : j = task[t]
    BY DEF IndInv
  <1>2. /\ j.pc = "schemas" /\ TaskHolds(j)
        /\ UNCHANGED <<database, history, cache, view, acked>>
    BY <1>1 DEF ReadInlined, IndInv
  <1>3. j \in ScanState /\ ScanReads(j) /\ j.fetched = Queries /\ ScanOpen(j)
    BY <1>2 DEF TaskState, Idle, TaskHolds, ScanPc
  <1>4. PICK s : s = j.snapshot.id
    OBVIOUS
  <1>5. j.inline \subseteq inlineTables /\ j.rows = RowsBut(s, j.inline) /\ Loaded(j.snapshot)
    BY <1>3, <1>4 DEF ScanReads, Queries
  <1>6. PICK i \in j.inline : \E r \in {r \in j.resolved : r.version = i.version} :
          /\ Loaded(r)
          /\ LET schema == SchemaOf(CatalogFor(r))
                 target == ColumnIds(SchemaOf(CatalogFor(j.snapshot)))
                 seen == {x \in Visible(inlineRows, s) : x.version = i.version}
             IN  IF HasTable(CatalogFor(r)) /\ schema \subseteq i.columns
                 THEN Become(t, [j EXCEPT !.inline = j.inline \ {i},
                         !.rows = j.rows \union {[row |-> x.row,
                            values |-> x.columns \intersect ColumnIds(schema) \intersect target]
                               : x \in seen}])
                 ELSE Done(t, "error")
    BY <1>1, <1>4 DEF ReadInlined
  <1>7. PICK r \in j.resolved :
          /\ r.version = i.version
          /\ Loaded(r)
          /\ LET schema == SchemaOf(CatalogFor(r))
                 target == ColumnIds(SchemaOf(CatalogFor(j.snapshot)))
                 seen == {x \in Visible(inlineRows, s) : x.version = i.version}
             IN  IF HasTable(CatalogFor(r)) /\ schema \subseteq i.columns
                 THEN Become(t, [j EXCEPT !.inline = j.inline \ {i},
                         !.rows = j.rows \union {[row |-> x.row,
                            values |-> x.columns \intersect ColumnIds(schema) \intersect target]
                               : x \in seen}])
                 ELSE Done(t, "error")
    BY <1>6
  <1>8. SnapOf(j) \subseteq Holders /\ r \in SnapOf(j) /\ j.snapshot \in SnapOf(j)
    BY <1>1, <1>2, SnapOfHolders DEF SnapOf, ScanPc
  <1>9. HasTable(CatalogFor(r)) /\ SchemaOf(CatalogFor(r)) = i.columns
    <2>1. CatalogIs(CatalogFor(r), r.version)
      BY <1>7, <1>8, HeldCatalog
    <2> QED BY <1>5, <1>7, <2>1 DEF CatalogIs
  <1>10. CatalogFor(j.snapshot) = CatalogOf(s)
    BY <1>3, <1>4, <1>5, <1>8, HeldCatalog DEF ScanOpen
  <1>11. PICK ids : ids = ColumnIds(SchemaOf(CatalogOf(s)))
    OBVIOUS
  <1> DEFINE seen == {x \in Visible(inlineRows, s) : x.version = i.version}
             added == {[row |-> x.row,
                        values |-> x.columns \intersect ColumnIds(i.columns) \intersect ids]
                          : x \in seen}
  <1>12. Become(t, [j EXCEPT !.inline = j.inline \ {i}, !.rows = j.rows \union added])
    BY <1>7, <1>9, <1>10, <1>11
  <1>13. PICK k : k = [j EXCEPT !.inline = j.inline \ {i}, !.rows = j.rows \union added]
    OBVIOUS
  <1>14. task' = [task EXCEPT ![t] = k]
    BY <1>12, <1>13 DEF Become
  <1>15. \A x \in seen : x.columns = ColumnIds(i.columns) /\ x \in inlineRows
    <2> SUFFICES ASSUME NEW x \in seen PROVE x.columns = ColumnIds(i.columns) /\ x \in inlineRows
      OBVIOUS
    <2>1. x \in inlineRows /\ x.version = i.version
      BY DEF Visible
    <2>2. PICK h \in inlineTables : h.version = x.version /\ x.columns = ColumnIds(h.columns)
      BY <2>1 DEF IndInv, DatabaseHolds, InlineHolds
    <2>3. h = i
      BY <1>5, <2>1, <2>2, OneInlineTable DEF IndInv
    <2> QED BY <2>1, <2>2, <2>3
  <1>16. j.rows \union added = RowsBut(s, j.inline \ {i})
    <2> DEFINE now(y) == [row |-> y.row, values |-> y.columns \intersect ids]
               done == {y \in InlinedAt(s) : \A h \in j.inline : h.version # y.version}
               next == {y \in InlinedAt(s) : \A h \in j.inline \ {i} : h.version # y.version}
               mine == {y \in InlinedAt(s) : y.version = i.version}
    <2>1. j.rows = {now(y) : y \in done}
      BY <1>5, <1>11 DEF RowsBut
    <2>2. RowsBut(s, j.inline \ {i}) = {now(y) : y \in next}
      BY <1>11 DEF RowsBut
    <2>3. next = done \union mine
      <3>1. \A h \in j.inline \ {i} : h.version # i.version
        BY <1>5, OneInlineTable DEF IndInv
      <3> QED BY <3>1
    <2>4. added = {now(y) : y \in mine}
      <3>1. ASSUME NEW x \in seen
            PROVE  [row |-> x.row,
                    values |-> x.columns \intersect ColumnIds(i.columns) \intersect ids]
                      \in {now(y) : y \in mine}
        <4> DEFINE y == [row |-> x.row, version |-> x.version, columns |-> x.columns]
        <4>1. y \in InlinedAt(s) /\ y.version = i.version
          BY DEF InlinedAt
        <4>2. y.row = x.row /\ y.columns = x.columns
          OBVIOUS
        <4>3. x.columns \intersect ColumnIds(i.columns) = x.columns
          BY <1>15
        <4> HIDE DEF y, seen
        <4>4. y \in mine
          BY <4>1
        <4> HIDE DEF mine
        <4> QED BY <4>2, <4>3, <4>4
      <3>2. ASSUME NEW y \in mine PROVE now(y) \in added
        <4>1. PICK x \in Visible(inlineRows, s) :
                y = [row |-> x.row, version |-> x.version, columns |-> x.columns]
          BY DEF InlinedAt
        <4>2. y.row = x.row /\ y.columns = x.columns /\ x.version = i.version
          BY <4>1
        <4>3. x \in seen
          BY <4>2
        <4>4. x.columns \intersect ColumnIds(i.columns) = x.columns
          BY <1>15, <4>3
        <4> HIDE DEF seen
        <4> QED BY <4>2, <4>3, <4>4
      <3> HIDE DEF mine, seen
      <3> QED BY <3>1, <3>2
    <2> HIDE DEF added, done, next, mine
    <2> QED BY <2>1, <2>2, <2>3, <2>4
  <1>17. added \in SUBSET Read
    <2>1. \A x \in seen : x.row \in Nat /\ x.columns \in SUBSET Nat
      BY <1>15 DEF IndInv, DatabaseHolds, RowsTyped, InlineRow
    <2> HIDE DEF seen
    <2> QED BY <2>1 DEF Read
  <1> HIDE DEF added, seen
  <1>18. /\ k \in ScanState /\ k.pc = "schemas"
         /\ k.snapshot = j.snapshot /\ k.resolved = j.resolved /\ k.floor = j.floor
         /\ k.asked = j.asked /\ k.inline = j.inline \ {i} /\ k.fetched = j.fetched
         /\ k.files = j.files /\ k.deletes = j.deletes /\ k.rows = j.rows \union added
    BY <1>2, <1>3, <1>13, <1>17 DEF ScanState
  <1>19. ScanReads(k)
    <2>1. k.inline \subseteq inlineTables /\ k.rows = RowsBut(s, k.inline)
      BY <1>5, <1>16, <1>18
    <2> QED BY <1>3, <1>4, <1>18, <2>1 DEF ScanReads, Queries
  <1> QED BY <1>1, <1>2, <1>3, <1>14, <1>18, <1>19, ScanStep

\* A catalog is loaded, at the snapshot it is bound to.
LEMMA LoadCatalogStep ==
    ASSUME IndInv, NEW t \in Tasks, LoadCatalog(t)
    PROVE  IndInv'
  <1>1. UNCHANGED <<database, history>> /\ UNCHANGED <<current, acked>> /\ view' = view /\ task' = task
    BY DEF LoadCatalog
  <1>2. PICK v \in {i.version : i \in SnapshotsOf(t)} :
          /\ catalogs[v].loaded = {}
          /\ catalogs' = [catalogs EXCEPT ![v].loaded = {CatalogOf(catalogs[v].bound)}]
    BY DEF LoadCatalog
  <1>3. /\ DatabaseHolds' /\ Survives /\ DOMAIN snapshots' = DOMAIN snapshots
        /\ inlineTables' = inlineTables
        /\ \A s : CatalogOf(s)' = CatalogOf(s) /\ V(s)' = V(s)
        /\ Hist' = Hist
    BY <1>1, Untouched DEF IndInv, Hist
  <1>4. HeadHolds' /\ ViewHolds'
    BY <1>1, <1>3, HeadSurvives, ViewSurvives DEF IndInv, ViewHolds
  <1>5. Held' = Held
    BY <1>1 DEF Held, Pins, SnapshotsOf
  <1>6. /\ DOMAIN catalogs = Held
        /\ \A w \in DOMAIN catalogs :
              /\ catalogs[w] = [bound |-> catalogs[w].bound, loaded |-> catalogs[w].loaded]
              /\ catalogs[w].bound \in Hist /\ V(catalogs[w].bound) = w
              /\ \A c \in catalogs[w].loaded : CatalogIs(c, w)
    BY DEF IndInv, CatalogsHold
  <1>7. v \in DOMAIN catalogs
    BY <1>6 DEF Held
  <1>8. PICK b : b = catalogs[v].bound
    OBVIOUS
  <1>9. b \in Hist /\ V(b) = v
    BY <1>6, <1>7, <1>8
  <1>10. CatalogIs(CatalogOf(b), v)
    <2>1. ASSUME NEW s \in DOMAIN snapshots, V(s) = v PROVE CatalogOf(b) = CatalogOf(s)
      <3>1. s \in Hist
        BY DEF IndInv, DatabaseHolds, SnapshotsNumbered
      <3> QED BY <1>9, <2>1, <3>1, SameVersion DEF IndInv, DatabaseHolds
    <2>2. ASSUME NEW i \in inlineTables, i.version = v
          PROVE  HasTable(CatalogOf(b)) /\ SchemaOf(CatalogOf(b)) = i.columns
      BY <1>9, <2>2 DEF IndInv, DatabaseHolds, InlineHolds
    <2> QED BY <2>1, <2>2 DEF CatalogIs
  <1>11. \A c, w : CatalogIs(c, w)' <=> CatalogIs(c, w)
    BY <1>3 DEF CatalogIs
  <1>12. /\ DOMAIN catalogs' = DOMAIN catalogs
         /\ catalogs'[v] = [bound |-> b, loaded |-> {CatalogOf(b)}]
         /\ \A w \in DOMAIN catalogs \ {v} : catalogs'[w] = catalogs[w]
    <2>1. PICK e : e = catalogs[v] /\ e = [bound |-> e.bound, loaded |-> e.loaded]
      BY <1>6, <1>7
    <2>2. catalogs' = [catalogs EXCEPT ![v] = [e EXCEPT !.loaded = {CatalogOf(b)}]]
      BY <1>2, <1>8, <2>1
    <2>3. [e EXCEPT !.loaded = {CatalogOf(b)}] = [bound |-> e.bound, loaded |-> {CatalogOf(b)}]
      BY <2>1
    <2> QED BY <1>7, <1>8, <2>1, <2>2, <2>3
  <1>13. CatalogsHold'
    <2>1. ASSUME NEW w \in DOMAIN catalogs', NEW e, e = catalogs'[w]
          PROVE  /\ e = [bound |-> e.bound, loaded |-> e.loaded]
                 /\ e.bound \in Hist /\ V(e.bound) = w
                 /\ \A c \in e.loaded : CatalogIs(c, w)
      <3>1. CASE w = v
        <4>1. e = [bound |-> b, loaded |-> {CatalogOf(b)}]
          BY <1>12, <2>1, <3>1
        <4> QED BY <1>9, <1>10, <3>1, <4>1
      <3>2. CASE w # v
        <4>1. e = catalogs[w] /\ w \in DOMAIN catalogs
          BY <1>12, <2>1, <3>2
        <4> QED BY <1>6, <4>1
      <3> QED BY <3>1, <3>2
    <2>2. ASSUME NEW w \in DOMAIN catalogs'
          PROVE  /\ catalogs'[w] = [bound |-> catalogs'[w].bound, loaded |-> catalogs'[w].loaded]
                 /\ catalogs'[w].bound \in Hist' /\ history'[catalogs'[w].bound].version = w
                 /\ \A c \in catalogs'[w].loaded : CatalogIs(c, w)'
      <3>1. PICK e : e = catalogs'[w]
        OBVIOUS
      <3>2. /\ e = [bound |-> e.bound, loaded |-> e.loaded]
            /\ e.bound \in Hist /\ V(e.bound) = w
            /\ \A c \in e.loaded : CatalogIs(c, w)
        BY <2>1, <2>2, <3>1
      <3>3. history'[e.bound].version = w /\ e.bound \in Hist'
        BY <1>3, <3>2 DEF V
      <3>4. \A c \in e.loaded : CatalogIs(c, w)'
        BY <1>11, <3>2
      <3> QED BY <3>1, <3>2, <3>3, <3>4
    <2>3. DOMAIN catalogs' = Held'
      BY <1>5, <1>6, <1>12
    <2> QED BY <2>2, <2>3 DEF CatalogsHold, V
  <1>14. ASSUME NEW u \in Tasks PROVE TaskHolds(task[u])'
    <2>1. PICK k \in TaskState : k = task[u] /\ k = task'[u]
      BY <1>1 DEF IndInv
    <2>2. TaskHolds(k)
      BY <2>1 DEF IndInv
    <2>3. k.pc \in ScanPc => (Loaded(k.snapshot) => Loaded(k.snapshot)')
      <3> SUFFICES ASSUME k.pc \in ScanPc, Loaded(k.snapshot) PROVE Loaded(k.snapshot)'
        OBVIOUS
      <3>1. k.snapshot \in Holders
        BY <2>1, SnapOfHolders DEF SnapOf
      <3>2. k.snapshot.version \in DOMAIN catalogs
        BY <1>6, <3>1, HeldIs DEF IndInv, Tasked
      <3>3. k.snapshot.version # v
        BY <1>2 DEF Loaded
      <3> QED BY <1>12, <3>2, <3>3 DEF Loaded
    <2>4. /\ k.pc = "insert" => k.info.id \in DOMAIN snapshots'
          /\ k.pc \in ScanPc => k.snapshot.id \in DOMAIN snapshots'
      BY <1>3, <2>2 DEF TaskHolds, ScanOpen
    <2>5. TaskHolds(k)'
      BY <1>3, <2>2, <2>3, <2>4, TaskSurvives DEF IndInv
    <2> QED BY <2>1, <2>5
  <1> QED BY <1>1, <1>3, <1>4, <1>13, <1>14 DEF IndInv

-----------------------------------------------------------------------------
(* Handles, and steps that change the database.                            *)

\* A handle is derived.
LEMMA ViewStep ==
    ASSUME IndInv, UNCHANGED <<database, history>>, UNCHANGED <<current, task, acked>>, ViewHolds',
           NEW info, InfoOk(info), Share(info), Pins' \subseteq Pins \union {info}
    PROVE  IndInv'
  <1>1. /\ DatabaseHolds' /\ Survives /\ DOMAIN snapshots' = DOMAIN snapshots
    BY Untouched DEF IndInv
  <1>2. HeadHolds'
    BY <1>1, HeadSurvives DEF IndInv
  <1>3. Tasked /\ Tasked'
    BY DEF IndInv, Tasked
  <1>4. Holders' \subseteq Holders \union {info}
    <2>1. Holders' = {current} \union Pins' \union UNION {SnapOf(task[t]) : t \in Tasks}
      BY DEF Holders
    <2> QED BY <2>1 DEF Holders
  <1>5. /\ CatalogsHold'
        /\ \A i \in Holders \intersect Holders' : Loaded(i) => Loaded(i)'
    BY <1>3, <1>4, ShareHolds DEF IndInv
  <1>6. ASSUME NEW u \in Tasks PROVE TaskHolds(task[u])'
    <2>1. PICK k \in TaskState : k = task[u] /\ k = task'[u]
      BY DEF IndInv
    <2>2. TaskHolds(k)
      BY <2>1 DEF IndInv
    <2>3. k.pc \in ScanPc => (Loaded(k.snapshot) => Loaded(k.snapshot)')
      <3> SUFFICES ASSUME k.pc \in ScanPc PROVE Loaded(k.snapshot) => Loaded(k.snapshot)'
        OBVIOUS
      <3>1. k.snapshot \in SnapOf(k)
        BY DEF SnapOf
      <3>2. k.snapshot \in Holders /\ k.snapshot \in Holders'
        BY <2>1, <3>1, SnapOfHolders
      <3> QED BY <1>5, <3>2
    <2>4. /\ k.pc = "insert" => k.info.id \in DOMAIN snapshots'
          /\ k.pc \in ScanPc => k.snapshot.id \in DOMAIN snapshots'
      BY <1>1, <2>2 DEF TaskHolds, ScanOpen
    <2>5. TaskHolds(k)'
      BY <1>1, <2>2, <2>3, <2>4, TaskSurvives DEF IndInv
    <2> QED BY <2>1, <2>5
  <1> QED BY <1>1, <1>2, <1>3, <1>5, <1>6 DEF IndInv, Tasked

\* A handle for a snapshot.
LEMMA AtSnapshotStep ==
    ASSUME IndInv, AtSnapshot
    PROVE  IndInv'
  <1>1. PICK s \in DOMAIN snapshots :
          /\ view' = [mode |-> "TimeTravel", pinned |-> {Info(s, snapshots[s])}, asked |-> s]
          /\ UNCHANGED <<current, task>>
          /\ Share(Info(s, snapshots[s]))
    BY DEF AtSnapshot
  <1>2. UNCHANGED <<database, history>> /\ UNCHANGED <<current, task, acked>>
    BY <1>1 DEF AtSnapshot
  <1>3. PICK info : info = Info(s, snapshots[s])
    OBVIOUS
  <1>4. s \in Hist /\ s \in Nat /\ snapshots[s] = V(s) /\ V(s) \in Nat
    BY DEF IndInv, DatabaseHolds, SnapshotsNumbered
  <1>5. InfoOk(info) /\ info.id = s
    BY <1>3, <1>4 DEF InfoOk, Info, InfoRecord
  <1>6. /\ DOMAIN snapshots' = DOMAIN snapshots /\ InfoOk(info)'
    BY <1>2, <1>5, Untouched DEF IndInv
  <1>7. view' = [mode |-> "TimeTravel", pinned |-> {info}, asked |-> s]
    BY <1>1, <1>3
  <1>8. ViewHolds'
    <2>1. view'.pinned = {info} /\ view'.asked = s
          /\ view' \in [mode : {"ReadOnly", "TimeTravel"}, pinned : SUBSET InfoRecord, asked : Ends]
      BY <1>4, <1>5, <1>7 DEF InfoOk, Ends
    <2>2. \A i \in view'.pinned : i = info
      BY <2>1
    <2>3. \A i \in view'.pinned : InfoOk(i)' /\ i.id \in DOMAIN snapshots'
      BY <1>5, <1>6, <2>2
    <2>4. {i.id : i \in view'.pinned} = {s}
      BY <1>5, <2>1
    <2> QED BY <2>1, <2>3, <2>4 DEF ViewHolds
  <1>9. Pins' \subseteq Pins \union {info}
    BY <1>7 DEF Pins
  <1>10. Share(info)
    BY <1>1, <1>3
  <1> QED BY <1>2, <1>5, <1>8, <1>9, <1>10, ViewStep

\* A read-only handle.
LEMMA ReadonlyStep ==
    ASSUME IndInv, Readonly
    PROVE  IndInv'
  <1>1. PICK handle \in {view, [mode |-> "ReadWrite", pinned |-> {}, asked |-> NULL]} :
          view' = ReadonlyMode(handle)
    BY DEF Readonly
  <1>2. UNCHANGED <<database, history>> /\ UNCHANGED <<current, task, acked>> /\ Share(current)
    BY DEF Readonly
  <1>3. PICK info : info = current
    OBVIOUS
  <1>4. InfoOk(info) /\ Share(info)
    BY <1>2, <1>3 DEF IndInv, HeadHolds
  <1>5. /\ DOMAIN snapshots' = DOMAIN snapshots /\ \A i : InfoOk(i)' <=> InfoOk(i)
    BY <1>2, Untouched DEF IndInv
  <1>6. /\ view \in [mode : {"ReadOnly", "TimeTravel"}, pinned : SUBSET InfoRecord, asked : Ends]
        /\ \A i \in view.pinned : InfoOk(i) /\ i.id \in DOMAIN snapshots
        /\ view.asked # NULL => {i.id : i \in view.pinned} = {view.asked}
    BY DEF IndInv, ViewHolds
  <1>7. /\ view' \in [mode : {"ReadOnly", "TimeTravel"}, pinned : SUBSET InfoRecord, asked : Ends]
        /\ \/ view'.pinned = view.pinned /\ view'.asked = view.asked
           \/ view'.pinned = {} /\ view'.asked = NULL
    <2>1. CASE handle = view
      <3>1. CASE view.mode = "TimeTravel"
        BY <1>1, <1>6, <2>1, <3>1 DEF ReadonlyMode
      <3>2. CASE view.mode # "TimeTravel"
        <4>1. view' = [view EXCEPT !.mode = "ReadOnly"]
          BY <1>1, <2>1, <3>2 DEF ReadonlyMode
        <4> QED BY <1>6, <4>1
      <3> QED BY <3>1, <3>2
    <2>2. CASE handle = [mode |-> "ReadWrite", pinned |-> {}, asked |-> NULL]
      <3>1. view' = [mode |-> "ReadOnly", pinned |-> {}, asked |-> NULL]
        BY <1>1, <2>2 DEF ReadonlyMode
      <3> QED BY <3>1 DEF Ends
    <2> QED BY <2>1, <2>2
  <1>8. ViewHolds'
    <2>1. CASE view'.pinned = view.pinned /\ view'.asked = view.asked
      BY <1>5, <1>6, <1>7, <2>1 DEF ViewHolds
    <2>2. CASE view'.pinned = {} /\ view'.asked = NULL
      BY <1>7, <2>2 DEF ViewHolds
    <2> QED BY <1>7, <2>1, <2>2
  <1>9. Pins' \subseteq Pins \union {info}
    BY <1>7 DEF Pins
  <1> QED BY <1>2, <1>4, <1>8, <1>9, ViewStep

\* The database changes, and the snapshots in use are kept.
LEMMA DatabaseStep ==
    ASSUME IndInv, DatabaseHolds', Survives, UNCHANGED <<cache, view, acked>>, Tasked',
           Holders' = Holders, \A i \in view.pinned : i.id \in DOMAIN snapshots',
           \A u \in Tasks :
              \/ TaskHolds(task[u])'
              \/ /\ task'[u] = task[u]
                 /\ task[u].pc = "insert" => task[u].info.id \in DOMAIN snapshots'
                 /\ task[u].pc \in ScanPc => task[u].snapshot.id \in DOMAIN snapshots'
    PROVE  IndInv'
  <1>1. UNCHANGED <<current, acked>> /\ catalogs' = catalogs /\ view' = view
    BY DEF cache
  <1>2. HeadHolds' /\ ViewHolds'
    BY <1>1, HeadSurvives, ViewSurvives DEF IndInv
  <1>3. Held' = Held
    BY HeldSame DEF IndInv, Tasked
  <1>4. CatalogsHold'
    BY <1>1, <1>3, CatalogsSurvive DEF IndInv
  <1>5. ASSUME NEW u \in Tasks PROVE TaskHolds(task[u])'
    <2>1. CASE TaskHolds(task[u])'
      BY <2>1
    <2>2. CASE ~ TaskHolds(task[u])'
      <3>1. PICK k \in TaskState : k = task[u] /\ k = task'[u]
        BY <2>2 DEF IndInv
      <3>2. TaskHolds(k)
        BY <3>1 DEF IndInv
      <3>3. k.pc \in ScanPc => (Loaded(k.snapshot) => Loaded(k.snapshot)')
        BY <1>1 DEF Loaded
      <3>4. /\ k.pc = "insert" => k.info.id \in DOMAIN snapshots'
            /\ k.pc \in ScanPc => k.snapshot.id \in DOMAIN snapshots'
        BY <2>2, <3>1
      <3>5. TaskHolds(k)'
        BY <3>2, <3>3, <3>4, TaskSurvives DEF IndInv
      <3> QED BY <3>1, <3>5
    <2> QED BY <2>1, <2>2
  <1> QED BY <1>2, <1>4, <1>5 DEF IndInv, Tasked

\* Another connection commits.
LEMMA ForeignCommitStep ==
    ASSUME IndInv, ForeignCommit
    PROVE  IndInv'
  <1>1. PICK new \in Ids, version \in Ids : Commit(new, version)
    BY DEF ForeignCommit
  <1>2. UNCHANGED <<cache, view, acked>> /\ task' = task
    BY DEF ForeignCommit
  <1>3. DatabaseHolds' /\ Survives /\ DOMAIN snapshots \subseteq DOMAIN snapshots'
    BY <1>1, CommitKeeps DEF IndInv
  <1>4. Tasked'
    BY <1>2 DEF IndInv, Tasked
  <1>5. Holders' = Holders
    BY <1>2 DEF Holders, Pins, cache
  <1>6. \A i \in view.pinned : i.id \in DOMAIN snapshots'
    BY <1>3 DEF IndInv, ViewHolds
  <1>7. \A u \in Tasks :
            /\ task'[u] = task[u]
            /\ task[u].pc = "insert" => task[u].info.id \in DOMAIN snapshots'
            /\ task[u].pc \in ScanPc => task[u].snapshot.id \in DOMAIN snapshots'
    BY <1>2, <1>3 DEF IndInv, TaskHolds, ScanOpen
  <1> QED BY <1>2, <1>3, <1>4, <1>5, <1>6, <1>7, DatabaseStep

\* This connection commits.
LEMMA OwnCommitStep ==
    ASSUME IndInv, NEW t \in Tasks, OwnCommit(t)
    PROVE  IndInv'
  <1>1. PICK new \in Ids, version \in Ids :
          /\ Commit(new, version)
          /\ Become(t, [pc |-> "record", info |-> Info(new, version)])
    BY DEF OwnCommit
  <1>2. UNCHANGED <<cache, view, acked>> /\ task[t].pc = "idle"
    BY DEF OwnCommit
  <1>3. /\ DatabaseHolds' /\ Survives /\ DOMAIN snapshots \subseteq DOMAIN snapshots'
        /\ InfoOk(Info(new, version))'
    BY <1>1, CommitKeeps DEF IndInv
  <1>4. PICK k : k = [pc |-> "record", info |-> Info(new, version)]
    OBVIOUS
  <1>5. task' = [task EXCEPT ![t] = k]
    BY <1>1, <1>4 DEF Become
  <1>6. k.pc = "record" /\ InfoOk(k.info)'
    BY <1>3, <1>4
  <1>7. k \in TaskState
    BY <1>3, <1>4 DEF TaskState, InfoOk
  <1>8. TaskHolds(k)'
    BY <1>6 DEF TaskHolds, ScanPc
  <1>9. task'[t] = k /\ (\A u \in Tasks \ {t} : task'[u] = task[u]) /\ Tasked /\ Tasked'
    BY <1>5, <1>7 DEF IndInv, Tasked
  <1>10. Holders' = Holders
    <2>1. SnapOf(k) = {} /\ SnapOf(task[t]) = {}
      BY <1>2, <1>6 DEF SnapOf, ScanPc
    <2>2. current' = current /\ Pins' = Pins
      BY <1>2 DEF cache, Pins
    <2> QED BY <1>9, <2>1, <2>2, HoldersSame
  <1>11. \A i \in view.pinned : i.id \in DOMAIN snapshots'
    BY <1>3 DEF IndInv, ViewHolds
  <1>12. ASSUME NEW u \in Tasks
         PROVE  \/ TaskHolds(task[u])'
                \/ /\ task'[u] = task[u]
                   /\ task[u].pc = "insert" => task[u].info.id \in DOMAIN snapshots'
                   /\ task[u].pc \in ScanPc => task[u].snapshot.id \in DOMAIN snapshots'
    <2>1. CASE u = t
      BY <1>8, <1>9, <2>1
    <2>2. CASE u # t
      BY <1>3, <1>9, <2>2 DEF IndInv, TaskHolds, ScanOpen
    <2> QED BY <2>1, <2>2
  <1> QED BY <1>2, <1>3, <1>9, <1>10, <1>11, <1>12, DatabaseStep

\* Snapshots expire.
LEMMA ExpireStep ==
    ASSUME IndInv, ExpireSnapshots
    PROVE  IndInv'
  <1>1. /\ DatabaseHolds' /\ Survives
        /\ \A s \in InUse : s \in DOMAIN snapshots => s \in DOMAIN snapshots'
    BY ExpireKeeps DEF IndInv
  <1>2. UNCHANGED <<cache, view, acked>> /\ task' = task
    BY DEF ExpireSnapshots
  <1>3. Tasked'
    BY <1>2 DEF IndInv, Tasked
  <1>4. Holders' = Holders
    BY <1>2 DEF Holders, Pins, cache
  <1>5. \A i \in view.pinned : i.id \in DOMAIN snapshots'
    <2>1. \A i \in view.pinned : i.id \in InUse
      BY DEF InUse, Pins
    <2> QED BY <1>1, <2>1 DEF IndInv, ViewHolds
  <1>6. ASSUME NEW u \in Tasks
        PROVE  /\ task[u].pc = "insert" => task[u].info.id \in DOMAIN snapshots'
               /\ task[u].pc \in ScanPc => task[u].snapshot.id \in DOMAIN snapshots'
    <2> DEFINE used(x) == CASE task[x].pc \in {"idle", "record"} -> {}
                            [] task[x].pc = "insert" -> {task[x].info}
                            [] OTHER -> {task[x].snapshot}
    <2>1. \A i \in used(u) : i.id \in InUse
      BY DEF InUse
    <2>2. TaskHolds(task[u])
      BY DEF IndInv
    <2>3. ASSUME task[u].pc = "insert" PROVE task[u].info.id \in DOMAIN snapshots'
      <3>1. used(u) = {task[u].info}
        BY <2>3
      <3>2. task[u].info.id \in DOMAIN snapshots
        BY <2>2, <2>3 DEF TaskHolds
      <3> QED BY <1>1, <2>1, <3>1, <3>2
    <2>4. ASSUME task[u].pc \in ScanPc PROVE task[u].snapshot.id \in DOMAIN snapshots'
      <3>1. used(u) = {task[u].snapshot}
        BY <2>4 DEF ScanPc
      <3>2. task[u].snapshot.id \in DOMAIN snapshots
        BY <2>2, <2>4 DEF TaskHolds, ScanOpen
      <3> QED BY <1>1, <2>1, <3>1, <3>2
    <2> QED BY <2>3, <2>4
  <1> QED BY <1>1, <1>2, <1>3, <1>4, <1>5, <1>6, DatabaseStep

-----------------------------------------------------------------------------
(* The invariant and the theorems.                                         *)

\* In the initial database: one snapshot with one table of one column.
LEMMA InitDatabase ==
    ASSUME Init
    PROVE  DatabaseHolds /\ V(1) = 1 /\ Hist = {1} /\ DOMAIN snapshots = {1}
  <1>1. DOMAIN snapshots = {1} /\ snapshots[1] = 1
    BY DEF Init
  <1>2. HeadId = 1
    <2>1. Max({1}) = 1
      BY MaxIs
    <2> QED BY <1>1, <2>1 DEF HeadId
  <1>3. Hist = {1} /\ V(1) = 1 /\ history[1].catalog = CatalogOf(1)
        /\ history[1].contents = ContentsAt(1)
    BY DEF Init, Hist, V
  <1>4. RowsTyped
    BY DEF Init, RowsTyped, TableRow, ColumnRow, FileRow, InlineTable, InlineRow, VersionRow,
           Ends, Names, Field, Scanned
  <1>5. SnapshotsNumbered
    BY <1>1, <1>2, <1>3 DEF SnapshotsNumbered
  <1>6. RowsDated
    <2>1. Starts(1)
      BY <1>3 DEF Starts
    <2> QED BY <1>3, <2>1 DEF Init, RowsDated, SchemaDated, Dated
  <1>7. TableVisible(1)
    <2> DEFINE r == [id |-> Scanned, name |-> "a", begin |-> 1, end |-> NULL]
    <2>1. r \in tables /\ r.begin <= 1 /\ r.end = NULL /\ r.id = Scanned
      BY DEF Init
    <2>2. r \in Visible(tables, 1)
      BY <2>1 DEF Visible, VisibleAt
    <2> QED BY <2>1, <2>2 DEF TableVisible
  <1>8. ColumnsInTable
    BY <1>3, <1>7 DEF ColumnsInTable
  <1>9. SchemaOf(CatalogOf(1)) = {[id |-> 1, name |-> "x"]}
    <2>1. Visible(columns, 1) = columns
      BY DEF Init, Visible, VisibleAt
    <2>2. CatalogOf(1).columns = {[table |-> r.table, id |-> r.id, name |-> r.name] : r \in columns}
      BY <2>1 DEF CatalogOf
    <2>3. CatalogOf(1).columns = {[table |-> 1, id |-> 1, name |-> "x"]}
      BY <2>2 DEF Init, Scanned
    <2>4. {c \in CatalogOf(1).columns : c.table = 1} = {[table |-> 1, id |-> 1, name |-> "x"]}
      BY <2>3
    <2>5. SchemaOf(CatalogOf(1)) = {[id |-> c.id, name |-> c.name]
                                      : c \in {[table |-> 1, id |-> 1, name |-> "x"]}}
      BY <2>4, Zenon DEF SchemaOf, Scanned
    <2> QED BY <2>5
  <1>10. HasTable(CatalogOf(1))
    BY <1>7, HasTableIs
  <1>11. InlineHolds
    BY <1>3, <1>9, <1>10 DEF Init, InlineHolds
  <1>12. HistoryHolds
    BY <1>1, <1>3 DEF HistoryHolds
  <1> QED BY <1>1, <1>3, <1>4, <1>5, <1>6, <1>8, <1>11, <1>12 DEF DatabaseHolds

\* The invariant holds initially.
LEMMA InitHolds ==
    ASSUME Init
    PROVE  IndInv
  <1>1. DatabaseHolds /\ V(1) = 1 /\ Hist = {1}
    BY InitDatabase
  <1>2. current = Info(1, 1) /\ acked = 1 /\ \A t \in Tasks : task[t] = Idle
    BY DEF Init
  <1>3. HeadHolds
    BY <1>1, <1>2 DEF HeadHolds, InfoOk, InfoRecord, Info
  <1>4. view.pinned = {} /\ ViewHolds
    BY DEF Init, ViewHolds, Ends
  <1>5. task \in [Tasks -> TaskState]
    BY DEF Init, TaskState
  <1>6. \A t \in Tasks : TaskHolds(task[t])
    BY <1>2 DEF TaskHolds, Idle, ScanPc
  <1>7. Holders = {current}
    <2>1. \A t \in Tasks : SnapOf(task[t]) = {}
      BY <1>2 DEF SnapOf, Idle, ScanPc
    <2> QED BY <1>4, <2>1 DEF Holders, Pins
  <1>8. Held = {1}
    <2>1. Held = {i.version : i \in Holders}
      BY <1>5, HeldIs DEF Tasked
    <2> QED BY <1>2, <1>7, <2>1 DEF Info
  <1>9. CatalogsHold
    BY <1>1, <1>8 DEF Init, CatalogsHold
  <1> QED BY <1>1, <1>3, <1>4, <1>5, <1>6, <1>9 DEF IndInv

\* A stuttering step.
LEMMA StutterHolds ==
    ASSUME IndInv, UNCHANGED vars
    PROVE  IndInv'
  <1>1. /\ UNCHANGED <<database, history>> /\ UNCHANGED <<cache, view, acked>>
        /\ task' = task
    BY DEF vars
  <1>2. DatabaseHolds' /\ Survives /\ DOMAIN snapshots' = DOMAIN snapshots
    BY <1>1, Untouched DEF IndInv
  <1>3. Tasked'
    BY <1>1 DEF IndInv, Tasked
  <1>4. Holders' = Holders
    BY <1>1 DEF Holders, Pins, cache
  <1>5. \A i \in view.pinned : i.id \in DOMAIN snapshots'
    BY <1>2 DEF IndInv, ViewHolds
  <1>6. \A u \in Tasks :
            /\ task'[u] = task[u]
            /\ task[u].pc = "insert" => task[u].info.id \in DOMAIN snapshots'
            /\ task[u].pc \in ScanPc => task[u].snapshot.id \in DOMAIN snapshots'
    BY <1>1, <1>2 DEF IndInv, TaskHolds, ScanOpen
  <1> QED BY <1>1, <1>2, <1>3, <1>4, <1>5, <1>6, DatabaseStep

\* Every step of the connection and of others keeps the invariant.
LEMMA NextHolds ==
    ASSUME IndInv, [Next]_vars
    PROVE  IndInv'
  <1>1. CASE ForeignCommit
    BY <1>1, ForeignCommitStep
  <1>2. CASE AtSnapshot
    BY <1>2, AtSnapshotStep
  <1>3. CASE Readonly
    BY <1>3, ReadonlyStep
  <1>4. CASE ExpireSnapshots
    BY <1>4, ExpireStep
  <1>5. ASSUME NEW t \in Tasks, Step(t) PROVE IndInv'
    <2>1. CASE QueryHead(t)
      BY <2>1, QueryHeadStep
    <2>2. CASE InsertHead(t)
      BY <2>2, InsertHeadStep
    <2>3. CASE ScanView(t)
      BY <2>3, ScanViewStep
    <2>4. CASE OwnCommit(t)
      BY <2>4, OwnCommitStep
    <2>5. CASE RecordCommit(t)
      BY <2>5, RecordCommitStep
    <2>6. CASE LoadCatalog(t)
      BY <2>6, LoadCatalogStep
    <2>7. CASE LookUpTable(t)
      BY <2>7, LookUpTableStep
    <2>8. ASSUME NEW q \in Queries, Fetch(t, q) PROVE IndInv'
      BY <2>8, FetchStep
    <2>9. CASE ResolveSchema(t)
      BY <2>9, ResolveSchemaStep
    <2>10. CASE ReadInlined(t)
      BY <2>10, ReadInlinedStep
    <2>11. CASE ScanDone(t)
      BY <2>11, ScanDoneStep
    <2>12. CASE Release(t)
      BY <2>12, ReleaseStep
    <2> QED BY <1>5, <2>1, <2>2, <2>3, <2>4, <2>5, <2>6, <2>7, <2>8, <2>9, <2>10, <2>11, <2>12
            DEF Step
  <1>6. CASE UNCHANGED vars
    BY <1>6, StutterHolds
  <1> QED BY <1>1, <1>2, <1>3, <1>4, <1>5, <1>6 DEF Next

\* The invariant of the read path: retained snapshots read as they were
\* committed, cached catalogs fit every snapshot that shares them, and what a
\* scan has fetched belongs to the snapshot it resolved.
THEOREM Invariance == Spec => []IndInv
  <1>1. Init => IndInv
    BY InitHolds
  <1>2. IndInv /\ [Next]_vars => IndInv'
    BY NextHolds
  <1> QED BY <1>1, <1>2, PTL DEF Spec

\* Tasks with a snapshot are those that scan.
LEMMA Scanning ==
    ASSUME IndInv, NEW t \in Tasks, task[t].pc \notin {"idle", "insert", "record"}
    PROVE  task[t].pc \in ScanPc /\ ScanOpen(task[t])
  <1>1. task[t] \in TaskState
    BY DEF IndInv
  <1>2. task[t].pc \in ScanPc
    BY <1>1 DEF TaskState, ScanState, Idle
  <1> QED BY <1>2 DEF IndInv, TaskHolds

\* A scan returns the table as it was committed in the snapshot that the scan
\* has resolved, whatever commits and expires between its queries (scan/mod.rs,
\* caches/snapshot.rs get_for_schema_version).
THEOREM ScansExact == Spec => []ScansAreExact
  <1>1. ASSUME IndInv PROVE ScansAreExact
    <2> SUFFICES ASSUME NEW t \in Tasks
                 PROVE  /\ task[t].pc = "ok" =>
                             [files |-> {[file |-> f, deleted |-> f \in task[t].deletes]
                                           : f \in task[t].files},
                              rows |-> task[t].rows] = history[task[t].snapshot.id].contents
                        /\ task[t].pc = "not_found" =>
                             ~ HasTable(history[task[t].snapshot.id].catalog)
                        /\ task[t].pc # "error"
      BY DEF ScansAreExact
    <2> DEFINE s == task[t].snapshot.id
    <2>1. task[t].pc # "error"
      <3>1. task[t].pc = "error" => task[t].pc \in ScanPc
        BY <1>1, Scanning
      <3> QED BY <3>1 DEF ScanPc
    <2>2. ASSUME task[t].pc = "not_found"
          PROVE  ~ HasTable(history[s].catalog)
      <3>1. s \in DOMAIN snapshots /\ ~ HasTable(CatalogOf(s))
        BY <1>1, <2>2 DEF IndInv, TaskHolds, ScanPc, ScanOpen
      <3> QED BY <1>1, <3>1 DEF IndInv, DatabaseHolds, HistoryHolds
    <2>3. ASSUME task[t].pc = "ok"
          PROVE  [files |-> {[file |-> f, deleted |-> f \in task[t].deletes] : f \in task[t].files},
                  rows |-> task[t].rows] = history[s].contents
      <3>1. /\ s \in DOMAIN snapshots /\ HasTable(CatalogOf(s))
            /\ task[t].fetched = Queries /\ task[t].inline = {} /\ ScanReads(task[t])
        BY <1>1, <2>3 DEF IndInv, TaskHolds, ScanPc, ScanOpen, ScanReads
      <3>2. /\ task[t].files = FilesAt(s) /\ task[t].deletes = DeletedAt(s)
            /\ task[t].rows = RowsBut(s, {})
        BY <3>1 DEF ScanReads, Queries
      <3>3. history[s].contents = ContentsAt(s)
        BY <1>1, <3>1 DEF IndInv, DatabaseHolds, HistoryHolds
      <3>4. RowsBut(s, {}) = {[row |-> x.row, values |-> x.columns
                                  \intersect ColumnIds(SchemaOf(CatalogOf(s)))] : x \in InlinedAt(s)}
        <4>1. {y \in InlinedAt(s) : \A i \in {} : i.version # y.version} = InlinedAt(s)
          OBVIOUS
        <4> QED BY <4>1 DEF RowsBut
      <3>5. ContentsAt(s) = [files |-> {[file |-> f, deleted |-> f \in DeletedAt(s)] : f \in FilesAt(s)},
                             rows |-> RowsBut(s, {})]
        <4>1. ContentsAt(s) = Contents(FilesAt(s), DeletedAt(s), InlinedAt(s),
                                       ColumnIds(SchemaOf(CatalogOf(s))))
          BY ContentsAre
        <4> QED BY <3>4, <4>1, Zenon DEF Contents
      <3> QED BY <3>2, <3>3, <3>5, Zenon
    <2> QED BY <2>1, <2>2, <2>3
  <1> QED BY <1>1, Invariance, PTL

\* A cached catalog is the one of every retained snapshot that shares it
\* (caches/catalog.rs: one lazily loaded catalog per schema version).
THEOREM CatalogsExact == Spec => []CatalogsAreExact
  <1>1. ASSUME IndInv PROVE CatalogsAreExact
    <2> SUFFICES ASSUME NEW i \in {current} \union Pins \union {task[t].snapshot : t \in
                            {t \in Tasks : task[t].pc \notin {"idle", "insert", "record"}}},
                        i.id \in DOMAIN snapshots, Loaded(i)
                 PROVE  CatalogFor(i) = history[i.id].catalog
      BY DEF CatalogsAreExact
    <2>1. i \in Holders /\ InfoOk(i)
      <3>1. CASE i = current
        BY <1>1, <3>1 DEF Holders, IndInv, HeadHolds
      <3>2. CASE i \in Pins
        BY <1>1, <3>2 DEF Holders, Pins, IndInv, ViewHolds
      <3>3. ASSUME NEW t \in Tasks, task[t].pc \notin {"idle", "insert", "record"},
                   i = task[t].snapshot
            PROVE  i \in Holders /\ InfoOk(i)
        <4>1. task[t].pc \in ScanPc /\ InfoOk(i)
          BY <1>1, <3>3, Scanning DEF ScanOpen
        <4>2. i \in SnapOf(task[t])
          BY <3>3, <4>1 DEF SnapOf
        <4> QED BY <4>1, <4>2, SnapOfHolders
      <3> QED BY <3>1, <3>2, <3>3
    <2>2. CatalogFor(i) = CatalogOf(i.id)
      BY <1>1, <2>1, HeldCatalog
    <2> QED BY <1>1, <2>2 DEF IndInv, DatabaseHolds, HistoryHolds
  <1> QED BY <1>1, Invariance, PTL

\* The connection sees what it has committed, even if an older lookup of the
\* head comes in late (caches/snapshot.rs insert_snapshot).
THEOREM OwnCommitsSeen == Spec => []OwnCommitsVisible
  <1>1. ASSUME IndInv PROVE OwnCommitsVisible
    <2>1. current.id \in Nat /\ acked \in Nat /\ acked <= current.id
      BY <1>1 DEF IndInv, HeadHolds, InfoOk, InfoRecord
    <2>2. ASSUME NEW t \in Tasks, task[t].pc \notin {"idle", "insert", "record"}
          PROVE  task[t].snapshot.id >= task[t].floor
      <3>1. task[t].pc \in ScanPc /\ task[t].floor <= task[t].snapshot.id
        BY <1>1, <2>2, Scanning DEF ScanOpen
      <3> QED BY <3>1
    <2> QED BY <2>1, <2>2 DEF OwnCommitsVisible
  <1> QED BY <1>1, Invariance, PTL

\* A handle for a snapshot, and every read-only handle made from it, read that
\* snapshot (ducklake.rs at_snapshot_id, readonly).
THEOREM PinsHold == Spec => []PinnedReadsPinned
  <1>1. ASSUME IndInv PROVE PinnedReadsPinned
    <2>1. view.asked # NULL => {i.id : i \in view.pinned} = {view.asked}
      BY <1>1 DEF IndInv, ViewHolds
    <2>2. ASSUME NEW t \in Tasks, task[t].pc \notin {"idle", "insert", "record"}
          PROVE  task[t].asked # NULL => task[t].snapshot.id = task[t].asked
      BY <1>1, <2>2, Scanning DEF ScanOpen
    <2> QED BY <2>1, <2>2 DEF PinnedReadsPinned
  <1> QED BY <1>1, Invariance, PTL

=============================================================================
