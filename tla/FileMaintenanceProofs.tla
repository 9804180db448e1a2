----------------------- MODULE FileMaintenanceProofs -----------------------
(***************************************************************************)
(* No maintenance job deletes an object that the catalog still refers to   *)
(* or that a writer is about to commit, for any number of writers, files,  *)
(* snapshots and crashes, and any retention.                               *)
(***************************************************************************)
EXTENDS FileMaintenance, TLAPS

-----------------------------------------------------------------------------
(* The inductive invariant: the tables, the writers, and what each of the  *)
(* running jobs has read.                                                  *)

Ends == Nat \union {NULL}
TableRow == [id : Nat, begin : Nat, end : Ends]
FileRow == [file : Nat, table : Nat, begin : Nat, end : Ends]

WriterState ==
    {Idle} \union [pc : {"uploaded"}, file : Nat, table : Nat]
CleanupState ==
    {Idle} \union [pc : {"deleting"}, ids : SUBSET Nat, todo : SUBSET Nat]
OrphansState ==
    {Idle}
    \union [pc : {"files"}, all : BOOLEAN, old : SUBSET Nat, catalog : SUBSET Nat]
    \union [pc : {"scheduled"}, all : BOOLEAN, old : SUBSET Nat, catalog : SUBSET Nat,
            rows : SUBSET FileRow]
    \union [pc : {"list"}, all : BOOLEAN, old : SUBSET Nat, referenced : SUBSET Nat]
    \union [pc : {"deleting"}, all : BOOLEAN, todo : SUBSET Nat]
WipeState == [pc : {"idle", "deleting", "broken", "gone"}]

Typed ==
    /\ snapshots \subseteq 0 .. MaxSnapshots
    /\ tables \subseteq TableRow /\ files \subseteq FileRow
    /\ scheduled \in [DOMAIN scheduled -> Ages]
    /\ store \in [DOMAIN store -> Ages]
    /\ named \in 0 .. MaxFiles
    /\ writer \in [Writers -> WriterState]
    /\ cleanup \in CleanupState /\ orphans \in OrphansState /\ wipe \in WipeState

\* A lake that is not being deleted has a newest snapshot.
HasHead == Open => \E s \in snapshots : \A r \in snapshots : r <= s

\* Every upload has its own name, every file has one row, in one table.
FilesNamed ==
    /\ DOMAIN store \subseteq 1 .. named
    /\ FilesOf(files) \subseteq 1 .. named /\ DOMAIN scheduled \subseteq 1 .. named
    /\ \A q, r \in files : q.file = r.file => q = r
    /\ FilesOf(files) \intersect DOMAIN scheduled = {}

Uploads == {writer[w].file : w \in {v \in Writers : writer[v].pc = "uploaded"}}

\* What a writer has uploaded is there, is young, and nobody knows of it.
UploadsSafe ==
    /\ \A f \in Uploads :
          f \in DOMAIN store /\ store[f] <= Lease /\ f \notin FilesOf(files) \union DOMAIN scheduled
    /\ \A v, w \in Writers :
          /\ writer[v].pc = "uploaded" /\ writer[w].pc = "uploaded"
          /\ writer[v].file = writer[w].file
          => v = w

\* cleanup_old_files: what it deletes is scheduled; what it has deleted is gone.
CleanupHolds ==
    cleanup.pc = "deleting" =>
        /\ cleanup.ids \subseteq DOMAIN scheduled
        /\ cleanup.todo \subseteq cleanup.ids
        /\ (cleanup.ids \ cleanup.todo) \intersect DOMAIN store = {}

\* delete_orphaned_files: a file that is old enough to be deleted is nobody's
\* upload, and what refers to it was or will be read.
OrphansHold ==
    /\ Exclusive => Uploads = {}
    /\ orphans.pc \in {"files", "scheduled", "list"} =>
          orphans.old \subseteq 1 .. named /\ orphans.old \intersect Uploads = {}
    /\ orphans.pc = "scheduled" =>
          orphans.old \intersect FilesOf(files) \subseteq FilesOf(orphans.rows)
    /\ orphans.pc = "list" =>
          orphans.old \intersect (FilesOf(files) \union DOMAIN scheduled)
              \subseteq orphans.referenced
    /\ orphans.pc = "deleting" =>
          /\ orphans.todo \subseteq 1 .. named
          /\ orphans.todo \intersect
                (FilesOf(files) \union DOMAIN scheduled \union Uploads) = {}

IndInv ==
    /\ Typed /\ HasHead /\ FilesNamed
    /\ Open => FilesAvailable /\ UploadsSafe /\ CleanupHolds /\ OrphansHold

-----------------------------------------------------------------------------
(* Facts about the operators.                                              *)

(* The newest snapshot is one of the retained ones.                        *)
LEMMA HeadIsNewest ==
    ASSUME IndInv, Open
    PROVE  /\ HeadSnapshot \in snapshots /\ HeadSnapshot \in 0 .. MaxSnapshots
           /\ \A r \in snapshots : r <= HeadSnapshot
<1>1. \E s \in snapshots : \A r \in snapshots : s >= r
  BY DEF IndInv, HasHead, Typed
<1>2. HeadSnapshot \in snapshots /\ \A r \in snapshots : HeadSnapshot >= r
  BY <1>1, Zenon DEF HeadSnapshot, Max
<1>. QED
  BY <1>2 DEF IndInv, Typed

(* Ages stay capped when time passes, and no age goes back.                *)
LEMMA AgedFacts ==
    ASSUME NEW ages, ages \in [DOMAIN ages -> Ages]
    PROVE  /\ DOMAIN Aged(ages) = DOMAIN ages
           /\ Aged(ages) \in [DOMAIN ages -> Ages]
           /\ \A f \in DOMAIN ages : Aged(ages)[f] <= ages[f] + 1
<1>1. Retention \in Nat
  BY FileMaintenanceAssumption
<1>2. ASSUME NEW x \in Int, NEW y \in Int
      PROVE  Min({x, y}) \in {x, y} /\ Min({x, y}) <= x /\ Min({x, y}) <= y
  <2>1. \E m \in {x, y} : \A n \in {x, y} : m <= n
    BY <1>2
  <2>2. Min({x, y}) \in {x, y} /\ \A n \in {x, y} : Min({x, y}) <= n
    BY <2>1, Zenon DEF Min
  <2>. QED
    BY <2>2
<1>3. ASSUME NEW f \in DOMAIN ages
      PROVE  /\ Min({ages[f] + 1, Retention + 1}) \in Ages
             /\ Min({ages[f] + 1, Retention + 1}) <= ages[f] + 1
  <2>1. ages[f] \in Ages
    OBVIOUS
  <2>2. ages[f] + 1 \in Int /\ ages[f] + 1 >= 0 /\ Retention + 1 \in Int
    BY <1>1, <2>1 DEF Ages
  <2>. QED
    BY <1>1, <1>2, <2>2 DEF Ages
<1>. QED
  BY <1>3 DEF Aged

\* The file rows of a lake after table t is dropped in snapshot new.
Retired(rows, t, new) ==
    {r \in rows : r.table # t} \union RetireRows({r \in rows : r.table = t}, new)

(* Dropping a table ends the rows of its files and loses none of them.     *)
LEMMA RetiredFiles ==
    ASSUME NEW rows, rows \subseteq FileRow, NEW t, NEW new \in Nat,
           \A q, r \in rows : q.file = r.file => q = r
    PROVE  /\ Retired(rows, t, new) \subseteq FileRow
           /\ FilesOf(Retired(rows, t, new)) = FilesOf(rows)
           /\ \A q, r \in Retired(rows, t, new) : q.file = r.file => q = r
<1> DEFINE retired(r) == IF r.table # t THEN r
                         ELSE IF r.end = NULL THEN [r EXCEPT !.end = new] ELSE r
           after == Retired(rows, t, new)
<1>1. after = {retired(r) : r \in rows}
  BY DEF Retired, RetireRows
<1>2. \A r \in rows : retired(r) \in FileRow /\ retired(r).file = r.file
  BY DEF FileRow, Ends
<1>. HIDE DEF retired, after
<1>3. after \subseteq FileRow
  BY <1>1, <1>2
<1>4. FilesOf(after) = FilesOf(rows)
  <2>1. ASSUME NEW f \in FilesOf(rows)
        PROVE  f \in FilesOf(after)
    <3>1. PICK r \in rows : f = r.file
      BY DEF FilesOf
    <3>2. retired(r) \in after
      BY <1>1
    <3>. QED
      BY <1>2, <3>1, <3>2 DEF FilesOf
  <2>2. ASSUME NEW f \in FilesOf(after)
        PROVE  f \in FilesOf(rows)
    BY <1>1, <1>2 DEF FilesOf
  <2>. QED
    BY <2>1, <2>2
<1>5. ASSUME NEW q \in after, NEW r \in after, q.file = r.file
      PROVE  q = r
  <2>1. PICK x \in rows : q = retired(x)
    BY <1>1
  <2>2. PICK y \in rows : r = retired(y)
    BY <1>1
  <2>3. x = y
    BY <1>2, <1>5, <2>1, <2>2
  <2>. QED
    BY <2>1, <2>2, <2>3
<1>. QED
  BY <1>3, <1>4, <1>5 DEF after

-----------------------------------------------------------------------------
(* The invariant holds initially, and every step preserves it.             *)

(* The bounds are numbers, and a writer commits before its upload is old. *)
LEMMA ConstantFacts ==
    /\ MaxFiles \in Nat /\ MaxSnapshots \in Nat
    /\ Retention \in Nat /\ Lease \in Nat /\ Lease <= Retention
BY FileMaintenanceAssumption

(* An empty lake: no file, no job.                                         *)
LEMMA InitEstablishes == Init => IndInv
<1> SUFFICES ASSUME Init PROVE IndInv
  OBVIOUS
<1>1. Idle.pc = "idle"
  BY DEF Idle
<1>2. Typed
  BY ConstantFacts
  DEF Init, Typed, WriterState, CleanupState, OrphansState, WipeState, Idle, Ages
<1>3. HasHead /\ FilesNamed
  BY ConstantFacts DEF Init, HasHead, FilesNamed, FilesOf
<1>4. Uploads = {}
  BY <1>1 DEF Init, Uploads
<1>5. FilesAvailable /\ UploadsSafe
  BY <1>1, <1>4 DEF Init, FilesAvailable, UploadsSafe, FilesOf
<1>6. CleanupHolds /\ OrphansHold
  BY <1>1, <1>4 DEF Init, CleanupHolds, OrphansHold, Exclusive
<1>. QED
  BY <1>2, <1>3, <1>5, <1>6 DEF IndInv

(* A step of a job that only reads or stops has to be looked at for what   *)
(* the jobs hold.                                                          *)
LEMMA JobStep ==
    ASSUME IndInv, Open, UNCHANGED <<database, store, named, writer, wipe>>,
           cleanup' \in CleanupState, orphans' \in OrphansState,
           CleanupHolds', OrphansHold'
    PROVE  IndInv'
<1>1. Typed'
  BY DEF IndInv, Typed, database
<1>2. (HasHead /\ FilesNamed)'
  BY DEF IndInv, HasHead, FilesNamed, FilesOf, Open, database
<1>3. (FilesAvailable /\ UploadsSafe)'
  BY DEF IndInv, FilesAvailable, UploadsSafe, Uploads, FilesOf, Open, database
<1>. QED
  BY <1>1, <1>2, <1>3 DEF IndInv

(* A writer uploads an object under a name of its own.                     *)
LEMMA UploadStep ==
    ASSUME IndInv, NEW w \in Writers, Upload(w)
    PROVE  IndInv'
<1>0. Open /\ ~ Exclusive /\ named < MaxFiles /\ writer[w].pc = "idle"
  BY DEF Upload
<1>1. PICK t \in LiveTables \union {named + 1} :
         writer' = [writer EXCEPT ![w] = [pc |-> "uploaded", file |-> named + 1, table |-> t]]
  BY DEF Upload
<1>2. /\ named' = named + 1 /\ store' = With(store, {named + 1}, 0)
      /\ UNCHANGED <<snapshots, tables, files, scheduled, cleanup, orphans, wipe>>
  BY DEF Upload, database, jobs
<1>3. named \in 0 .. MaxFiles /\ t \in Nat
  BY ConstantFacts DEF IndInv, Typed, LiveTables, Visible, TableRow
<1>4. DOMAIN store' = DOMAIN store \union {named + 1} /\ store'[named + 1] = 0
      /\ \A f \in DOMAIN store : f # named + 1 => store'[f] = store[f]
  BY <1>2 DEF With
<1>5. named + 1 \notin DOMAIN store /\ named + 1 \notin FilesOf(files) \union DOMAIN scheduled
  BY <1>3 DEF IndInv, FilesNamed
<1>6. Uploads' = Uploads \union {named + 1}
  BY <1>0, <1>1 DEF IndInv, Typed, Uploads
<1>7. Typed'
  <2>1. writer' \in [Writers -> WriterState]
    BY <1>1, <1>3 DEF IndInv, Typed, WriterState
  <2>2. store' \in [DOMAIN store' -> Ages]
    BY <1>2, <1>4, ConstantFacts DEF IndInv, Typed, With, Ages
  <2>3. named' \in 0 .. MaxFiles
    BY <1>0, <1>2, <1>3, ConstantFacts
  <2>. QED
    BY <1>2, <2>1, <2>2, <2>3 DEF IndInv, Typed
<1>8. HasHead'
  BY <1>2 DEF IndInv, HasHead, Open
<1>9. FilesNamed'
  <2>1. \A f : f \in 1 .. named => f \in 1 .. named'
    BY <1>2, <1>3
  <2>2. named + 1 \in 1 .. named'
    BY <1>2, <1>3
  <2>. QED
    BY <1>2, <1>4, <2>1, <2>2 DEF IndInv, FilesNamed, FilesOf
<1>10. FilesAvailable'
  BY <1>0, <1>2, <1>4 DEF IndInv, FilesAvailable, FilesOf, Open
<1>11. UploadsSafe'
  <2>1. \A f \in Uploads' :
          /\ f \in DOMAIN store' /\ store'[f] <= Lease
          /\ f \notin FilesOf(files) \union DOMAIN scheduled
    BY <1>0, <1>4, <1>5, <1>6, ConstantFacts DEF IndInv, UploadsSafe
  <2>2. \A v \in Writers : writer[v].pc = "uploaded" => writer[v].file # named + 1
    BY <1>0, <1>5 DEF IndInv, UploadsSafe, Uploads
  <2>3. (\A u, v \in Writers :
            writer[u].pc = "uploaded" /\ writer[v].pc = "uploaded"
            /\ writer[u].file = writer[v].file => u = v)'
    BY <1>0, <1>1, <2>2 DEF IndInv, Typed, UploadsSafe
  <2>. QED
    BY <1>2, <2>1, <2>3 DEF UploadsSafe, FilesOf
<1>12. CleanupHolds'
  BY <1>0, <1>2, <1>4, <1>5 DEF IndInv, CleanupHolds
<1>13. OrphansHold'
  <2>1. ~ Exclusive'
    BY <1>0, <1>2 DEF Exclusive
  <2>2. \A f : f \in 1 .. named => f \in 1 .. named' /\ f # named + 1
    BY <1>2, <1>3
  <2>. QED
    BY <1>0, <1>2, <1>6, <2>1, <2>2 DEF IndInv, OrphansHold, FilesOf
<1>. QED
  BY <1>7, <1>8, <1>9, <1>10, <1>11, <1>12, <1>13 DEF IndInv

(* A writer that stops, with or without a commit: its upload is an object  *)
(* nobody waits for.                                                       *)
LEMMA WriterStops ==
    ASSUME IndInv, NEW w \in Writers, Open, writer[w].pc = "uploaded",
           writer' = [writer EXCEPT ![w] = Idle],
           UNCHANGED <<store, named, jobs>>
    PROVE  /\ Uploads' = Uploads \ {writer[w].file}
           /\ writer' \in [Writers -> WriterState]
           /\ writer[w].file \in Uploads
<1>1. Idle.pc = "idle"
  BY DEF Idle
<1>2. writer' \in [Writers -> WriterState] /\ writer[w].file \in Uploads
  BY DEF IndInv, Typed, WriterState, Uploads
<1>3. \A v \in Writers : v # w => writer'[v] = writer[v]
  BY DEF IndInv, Typed
<1>4. writer'[w].pc = "idle"
  BY <1>1 DEF IndInv, Typed
<1>5. ASSUME NEW f \in Uploads'
      PROVE  f \in Uploads /\ f # writer[w].file
  <2>1. PICK v \in Writers : writer'[v].pc = "uploaded" /\ f = writer'[v].file
    BY DEF Uploads
  <2>2. v # w /\ writer[v].pc = "uploaded" /\ f = writer[v].file
    BY <1>3, <1>4, <2>1
  <2>. QED
    BY <2>2 DEF IndInv, UploadsSafe, Uploads
<1>6. ASSUME NEW f \in Uploads, f # writer[w].file
      PROVE  f \in Uploads'
  BY <1>3, <1>6 DEF Uploads
<1>. QED
  BY <1>2, <1>5, <1>6

(* A writer crashes: the catalog does not change.                          *)
LEMMA WriterLeaves ==
    ASSUME IndInv, NEW w \in Writers, Open, writer[w].pc = "uploaded",
           writer' = [writer EXCEPT ![w] = Idle],
           UNCHANGED <<database, store, named, jobs>>
    PROVE  IndInv'
<1>1. UNCHANGED <<snapshots, tables, files, scheduled, store, named, cleanup, orphans, wipe>>
  BY DEF database, jobs
<1>2. Uploads' = Uploads \ {writer[w].file} /\ writer' \in [Writers -> WriterState]
  BY WriterStops
<1>3. Idle.pc = "idle"
  BY DEF Idle
<1>4. Typed'
  BY <1>1, <1>2 DEF IndInv, Typed
<1>5. (HasHead /\ FilesNamed /\ FilesAvailable /\ CleanupHolds)'
  BY <1>1 DEF IndInv, HasHead, FilesNamed, FilesAvailable, CleanupHolds, FilesOf, Open
<1>6. UploadsSafe'
  <2>1. (\A u, v \in Writers :
            writer[u].pc = "uploaded" /\ writer[v].pc = "uploaded"
            /\ writer[u].file = writer[v].file => u = v)'
    BY <1>3 DEF IndInv, Typed, UploadsSafe
  <2>. QED
    BY <1>1, <1>2, <2>1 DEF IndInv, UploadsSafe, FilesOf
<1>7. OrphansHold'
  BY <1>1, <1>2 DEF IndInv, OrphansHold, FilesOf, Exclusive
<1>. QED
  BY <1>4, <1>5, <1>6, <1>7 DEF IndInv

(* A commit refers to an object that is there: no job took it for an       *)
(* orphan, because it was too young or nobody was writing.                 *)
LEMMA CommitFileStep ==
    ASSUME IndInv, NEW w \in Writers, CommitFile(w)
    PROVE  IndInv'
<1> DEFINE new == HeadSnapshot + 1
           t == writer[w].table
           f == writer[w].file
           row == [file |-> f, table |-> t, begin |-> new, end |-> NULL]
<1>0. /\ Open /\ writer[w].pc = "uploaded" /\ writer' = [writer EXCEPT ![w] = Idle]
      /\ UNCHANGED <<store, named, cleanup, orphans, wipe>>
  BY DEF CommitFile, jobs
<1>1. CASE UNCHANGED database
  BY <1>0, <1>1, WriterLeaves DEF jobs
<1>2. CASE ~ UNCHANGED database
  <2>1. /\ HeadSnapshot # MaxSnapshots
        /\ snapshots' = snapshots \union {new}
        /\ tables' = tables \union
              (IF t = f THEN {[id |-> t, begin |-> new, end |-> NULL]} ELSE {})
        /\ files' = files \union {row}
        /\ scheduled' = scheduled
    BY <1>2 DEF CommitFile
  <2>2. HeadSnapshot \in 0 .. MaxSnapshots /\ \A r \in snapshots : r <= HeadSnapshot
    BY <1>0, HeadIsNewest
  <2>3. new \in 0 .. MaxSnapshots /\ \A r \in snapshots : r <= new
    BY <2>1, <2>2, ConstantFacts DEF IndInv, Typed
  <2>4. /\ Uploads' = Uploads \ {f} /\ writer' \in [Writers -> WriterState] /\ f \in Uploads
    BY <1>0, WriterStops DEF jobs
  <2>5. /\ f \in DOMAIN store /\ f \notin FilesOf(files) \union DOMAIN scheduled
        /\ f \in 1 .. named
    BY <1>0, <2>4 DEF IndInv, UploadsSafe, FilesNamed
  <2>6. f \in Nat /\ t \in Nat
    <3>1. writer[w] \in WriterState /\ writer[w] # Idle
      BY <1>0 DEF IndInv, Typed, Idle
    <3>. QED
      BY <3>1 DEF WriterState
  <2>7. row \in FileRow /\ row.file = f
    BY <2>3, <2>6 DEF FileRow, Ends
  <2>. HIDE DEF row, f, t, new
  <2>8. FilesOf(files') = FilesOf(files) \union {f}
    BY <2>1, <2>7 DEF FilesOf
  <2>9. Typed'
    <3>1. tables' \subseteq TableRow
      BY <2>1, <2>3, <2>6 DEF IndInv, Typed, TableRow, Ends
    <3>2. files' \subseteq FileRow
      BY <2>1, <2>7 DEF IndInv, Typed
    <3>3. snapshots' \subseteq 0 .. MaxSnapshots
      BY <2>1, <2>3 DEF IndInv, Typed
    <3>. QED
      BY <1>0, <2>1, <2>4, <3>1, <3>2, <3>3 DEF IndInv, Typed
  <2>10. HasHead'
    BY <1>0, <2>1, <2>3 DEF HasHead, Open
  <2>11. FilesNamed'
    <3>1. \A q, r \in files' : q.file = r.file => q = r
      BY <2>1, <2>5, <2>7 DEF IndInv, FilesNamed, FilesOf
    <3>. QED
      BY <1>0, <2>1, <2>5, <2>8, <3>1 DEF IndInv, FilesNamed, FilesOf
  <2>12. FilesAvailable'
    BY <1>0, <2>5, <2>8 DEF IndInv, FilesAvailable, Open, FilesOf
  <2>13. UploadsSafe'
    <3>1. Idle.pc = "idle"
      BY DEF Idle
    <3>2. (\A u, v \in Writers :
              writer[u].pc = "uploaded" /\ writer[v].pc = "uploaded"
              /\ writer[u].file = writer[v].file => u = v)'
      BY <1>0, <3>1 DEF IndInv, Typed, UploadsSafe
    <3>. QED
      BY <1>0, <2>1, <2>4, <2>8, <3>2 DEF IndInv, UploadsSafe, FilesOf
  <2>14. CleanupHolds'
    BY <1>0, <2>1 DEF IndInv, CleanupHolds
  <2>15. OrphansHold'
    <3>1. ~ Exclusive
      BY <1>0, <2>4 DEF IndInv, OrphansHold
    <3>2. ~ Exclusive'
      BY <1>0, <3>1 DEF Exclusive
    <3>3. /\ orphans.pc \in {"files", "scheduled", "list"} => f \notin orphans.old
          /\ orphans.pc = "deleting" => f \notin orphans.todo
      BY <1>0, <2>4 DEF IndInv, OrphansHold
    <3>4. FilesOf(orphans'.rows) = FilesOf(orphans.rows)
      BY <1>0
    <3>. QED
      BY <1>0, <2>1, <2>4, <2>8, <3>2, <3>3, <3>4 DEF IndInv, OrphansHold, FilesOf
  <2>. QED
    BY <2>9, <2>10, <2>11, <2>12, <2>13, <2>14, <2>15 DEF IndInv
<1>. QED
  BY <1>1, <1>2

(* Dropping a table retires its rows; its files stay.                      *)
LEMMA DropTableStep ==
    ASSUME IndInv, NEW t, DropTable(t)
    PROVE  IndInv'
<1> DEFINE new == HeadSnapshot + 1
<1>0. /\ Open /\ HeadSnapshot < MaxSnapshots
      /\ UNCHANGED <<scheduled, store, named, writer, cleanup, orphans, wipe>>
  BY DEF DropTable, jobs
<1>1. /\ snapshots' = snapshots \union {new}
      /\ tables' = {r \in tables : r.id # t}
                      \union RetireRows({r \in tables : r.id = t}, new)
      /\ files' = {r \in files : r.table # t}
                      \union RetireRows({r \in files : r.table = t}, new)
  BY DEF DropTable
<1>2. HeadSnapshot \in 0 .. MaxSnapshots /\ \A r \in snapshots : r <= HeadSnapshot
  BY <1>0, HeadIsNewest
<1>3. new \in 0 .. MaxSnapshots /\ new \in Nat /\ \A r \in snapshots : r <= new
  BY <1>0, <1>2, ConstantFacts DEF IndInv, Typed
<1>. HIDE DEF new
<1>4. /\ files' \subseteq FileRow /\ FilesOf(files') = FilesOf(files)
      /\ \A q, r \in files' : q.file = r.file => q = r
  <2>1. files \subseteq FileRow /\ \A q, r \in files : q.file = r.file => q = r
    BY DEF IndInv, Typed, FilesNamed
  <2>2. files' = Retired(files, t, new)
    BY <1>1 DEF Retired
  <2>. QED
    BY <1>3, <2>1, <2>2, RetiredFiles
<1>5. tables' \subseteq TableRow
  BY <1>1, <1>3 DEF IndInv, Typed, RetireRows, TableRow, Ends
<1>6. Uploads' = Uploads /\ Exclusive' = Exclusive
  BY <1>0 DEF Uploads, Exclusive
<1>7. Typed'
  BY <1>0, <1>1, <1>3, <1>4, <1>5 DEF IndInv, Typed
<1>8. HasHead'
  BY <1>0, <1>1, <1>3 DEF HasHead, Open
<1>9. (FilesNamed /\ FilesAvailable)'
  BY <1>0, <1>4 DEF IndInv, FilesNamed, FilesAvailable, Open, FilesOf
<1>10. UploadsSafe'
  BY <1>0, <1>4, <1>6 DEF IndInv, UploadsSafe, FilesOf
<1>11. (CleanupHolds /\ OrphansHold)'
  BY <1>0, <1>4, <1>6 DEF IndInv, CleanupHolds, OrphansHold, FilesOf
<1>. QED
  BY <1>7, <1>8, <1>9, <1>10, <1>11 DEF IndInv

(* Time passes; a writer commits before its object is too old.             *)
LEMMA TickStep ==
    ASSUME IndInv, Tick
    PROVE  IndInv'
<1>0. /\ Open /\ store' = Aged(store) /\ scheduled' = Aged(scheduled)
      /\ \A w \in Writers : writer[w].pc = "uploaded" => store[writer[w].file] < Lease
      /\ UNCHANGED <<snapshots, tables, files, named, writer, cleanup, orphans, wipe>>
  BY DEF Tick, jobs
<1>1. /\ DOMAIN store' = DOMAIN store /\ store' \in [DOMAIN store -> Ages]
      /\ \A f \in DOMAIN store : store'[f] <= store[f] + 1
  BY <1>0, AgedFacts DEF IndInv, Typed
<1>2. DOMAIN scheduled' = DOMAIN scheduled /\ scheduled' \in [DOMAIN scheduled -> Ages]
  BY <1>0, AgedFacts DEF IndInv, Typed
<1>3. Uploads' = Uploads /\ Exclusive' = Exclusive
  BY <1>0 DEF Uploads, Exclusive
<1>4. Typed'
  BY <1>0, <1>1, <1>2 DEF IndInv, Typed
<1>5. (HasHead /\ FilesNamed /\ FilesAvailable)'
  BY <1>0, <1>1, <1>2 DEF IndInv, HasHead, FilesNamed, FilesAvailable, Open, FilesOf
<1>6. UploadsSafe'
  <2>1. ASSUME NEW f \in Uploads
        PROVE  f \in DOMAIN store /\ store'[f] <= Lease
    <3>1. f \in DOMAIN store /\ store[f] < Lease
      BY <1>0 DEF IndInv, UploadsSafe, Uploads
    <3>2. store[f] \in Int /\ store'[f] \in Int /\ store'[f] <= store[f] + 1
      BY <1>1, <3>1 DEF IndInv, Typed, Ages
    <3>. QED
      BY <3>1, <3>2, ConstantFacts
  <2>. QED
    BY <1>0, <1>1, <1>2, <1>3, <2>1 DEF IndInv, UploadsSafe, FilesOf
<1>7. (CleanupHolds /\ OrphansHold)'
  BY <1>0, <1>1, <1>2, <1>3 DEF IndInv, CleanupHolds, OrphansHold, FilesOf
<1>. QED
  BY <1>4, <1>5, <1>6, <1>7 DEF IndInv

(* Expiry moves files from the catalog to the schedule: what refers to a   *)
(* file before still does after, in one of the two.                        *)
LEMMA ExpireStep ==
    ASSUME IndInv, Open, NEW retained \in SUBSET snapshots, HeadSnapshot \in retained,
           Expire(retained)
    PROVE  IndInv'
<1> DEFINE marked == FilesOf(MarkedFiles(retained))
<1>0. /\ snapshots' = retained /\ files' = UnmarkedFiles(retained)
      /\ scheduled' = With(scheduled, marked, 0)
      /\ tables' \subseteq tables
      /\ UNCHANGED <<store, named, writer, cleanup, orphans, wipe>>
  BY DEF Expire, jobs
<1>1. files' \subseteq files /\ FilesOf(files) = FilesOf(files') \union marked
  BY <1>0 DEF UnmarkedFiles, MarkedFiles, FilesOf
<1>2. marked \intersect FilesOf(files') = {}
  BY <1>0 DEF IndInv, FilesNamed, UnmarkedFiles, MarkedFiles, FilesOf
<1>. HIDE DEF marked
<1>3. /\ DOMAIN scheduled' = DOMAIN scheduled \union marked
      /\ scheduled' \in [DOMAIN scheduled' -> Ages]
  BY <1>0, ConstantFacts DEF IndInv, Typed, With, Ages
<1>4. Uploads' = Uploads /\ Exclusive' = Exclusive
  BY <1>0 DEF Uploads, Exclusive
<1>5. Typed'
  BY <1>0, <1>1, <1>3 DEF IndInv, Typed
<1>6. HasHead'
  BY <1>0, HeadIsNewest DEF HasHead, Open
<1>7. FilesNamed'
  <2>1. \A q, r \in files' : q.file = r.file => q = r
    BY <1>1 DEF IndInv, FilesNamed
  <2>. QED
    BY <1>0, <1>1, <1>2, <1>3, <2>1 DEF IndInv, FilesNamed, FilesOf
<1>8. FilesAvailable'
  BY <1>0, <1>1 DEF IndInv, FilesAvailable, Open, FilesOf
<1>9. UploadsSafe'
  BY <1>0, <1>1, <1>3, <1>4 DEF IndInv, UploadsSafe, FilesOf
<1>10. CleanupHolds'
  BY <1>0, <1>3 DEF IndInv, CleanupHolds
<1>11. OrphansHold'
  BY <1>0, <1>1, <1>3, <1>4 DEF IndInv, OrphansHold, FilesOf
<1>. QED
  BY <1>5, <1>6, <1>7, <1>8, <1>9, <1>10, <1>11 DEF IndInv

(* cleanup_old_files selects scheduled files.                              *)
LEMMA CleanupSelectStep ==
    ASSUME IndInv, NEW all \in BOOLEAN, CleanupSelect(all)
    PROVE  IndInv'
<1> DEFINE ids == CleanupFilter(all)
<1>1. /\ Open /\ cleanup' = [pc |-> "deleting", ids |-> ids, todo |-> ids]
      /\ UNCHANGED <<database, store, named, writer, orphans, wipe>>
  BY DEF CleanupSelect
<1>2. ids \subseteq DOMAIN scheduled /\ DOMAIN scheduled \subseteq Nat
  BY DEF CleanupFilter, Older, IndInv, FilesNamed, Typed
<1>. HIDE DEF ids
<1>3. cleanup' \in CleanupState /\ orphans' \in OrphansState
  BY <1>1, <1>2 DEF CleanupState, IndInv, Typed
<1>4. CleanupHolds'
  BY <1>1, <1>2 DEF CleanupHolds, database
<1>5. OrphansHold'
  BY <1>1 DEF IndInv, OrphansHold, Exclusive, Uploads, FilesOf, database
<1>. QED
  BY <1>1, <1>3, <1>4, <1>5, JobStep

(* An object that is neither referred to nor about to be can go.           *)
LEMMA ObjectGoes ==
    ASSUME IndInv, Open, NEW f, f \notin FilesOf(files) \union Uploads,
           store' = Without(store, {f}), UNCHANGED <<database, named, writer, wipe>>,
           cleanup' \in CleanupState, orphans' \in OrphansState,
           CleanupHolds', OrphansHold'
    PROVE  IndInv'
<1>1. DOMAIN store' = DOMAIN store \ {f} /\ \A x \in DOMAIN store' : store'[x] = store[x]
  BY DEF Without
<1>2. store' \in [DOMAIN store' -> Ages]
  BY <1>1 DEF IndInv, Typed, Without
<1>3. Typed'
  BY <1>2 DEF IndInv, Typed, database
<1>4. (HasHead /\ FilesNamed)'
  BY <1>1 DEF IndInv, HasHead, FilesNamed, FilesOf, Open, database
<1>5. FilesAvailable'
  BY <1>1 DEF IndInv, FilesAvailable, FilesOf, Open, database
<1>6. Uploads' = Uploads
  BY DEF Uploads
<1>7. UploadsSafe'
  BY <1>1, <1>6 DEF IndInv, UploadsSafe, FilesOf, database
<1>. QED
  BY <1>3, <1>4, <1>5, <1>7 DEF IndInv

(* cleanup_old_files deletes the object of a file that is scheduled, hence *)
(* in no table any more.                                                   *)
LEMMA CleanupDeleteStep ==
    ASSUME IndInv, CleanupDelete
    PROVE  IndInv'
<1>1. PICK f \in cleanup.todo :
         /\ store' = Without(store, {f})
         /\ cleanup' = [cleanup EXCEPT !.todo = @ \ {f}]
  BY DEF CleanupDelete, DeleteObject
<1>2. /\ Open /\ cleanup.pc = "deleting"
      /\ UNCHANGED <<database, named, writer, orphans, wipe>>
  BY DEF CleanupDelete
<1>3. /\ cleanup \in [pc : {"deleting"}, ids : SUBSET Nat, todo : SUBSET Nat]
  <2>1. cleanup # Idle
    BY <1>2 DEF Idle
  <2>. QED
    BY <2>1 DEF IndInv, Typed, CleanupState
<1>4. cleanup' = [pc |-> "deleting", ids |-> cleanup.ids, todo |-> cleanup.todo \ {f}]
  BY <1>1, <1>2, <1>3
<1>5. f \notin FilesOf(files) \union Uploads
  BY <1>2 DEF IndInv, CleanupHolds, FilesNamed, UploadsSafe
<1>6. cleanup' \in CleanupState /\ orphans' \in OrphansState
  BY <1>2, <1>3, <1>4 DEF CleanupState, IndInv, Typed
<1>7. CleanupHolds'
  <2>1. DOMAIN store' = DOMAIN store \ {f}
    BY <1>1 DEF Without
  <2>. QED
    BY <1>2, <1>4, <2>1 DEF IndInv, CleanupHolds, database
<1>8. OrphansHold'
  BY <1>2 DEF IndInv, OrphansHold, Exclusive, Uploads, FilesOf, database
<1>. QED
  BY <1>1, <1>2, <1>5, <1>6, <1>7, <1>8, ObjectGoes

(* The rows of scheduled files go when their objects are gone.             *)
LEMMA CleanupRowsStep ==
    ASSUME IndInv, CleanupRows
    PROVE  IndInv'
<1>0. /\ Open /\ cleanup.pc = "deleting" /\ cleanup.todo = {}
      /\ scheduled' = Without(scheduled, cleanup.ids) /\ cleanup' = Idle
      /\ UNCHANGED <<snapshots, tables, files, store, named, writer, orphans, wipe>>
  BY DEF CleanupRows, CleanupRowsReady
<1>1. DOMAIN scheduled' \subseteq DOMAIN scheduled /\ scheduled' \in [DOMAIN scheduled' -> Ages]
  BY <1>0 DEF Without, IndInv, Typed
<1>2. Uploads' = Uploads /\ Exclusive' = Exclusive
  BY <1>0 DEF Uploads, Exclusive
<1>3. Typed'
  BY <1>0, <1>1 DEF IndInv, Typed, CleanupState
<1>4. (HasHead /\ FilesNamed /\ FilesAvailable)'
  BY <1>0, <1>1 DEF IndInv, HasHead, FilesNamed, FilesAvailable, FilesOf, Open
<1>5. UploadsSafe'
  BY <1>0, <1>1, <1>2 DEF IndInv, UploadsSafe, FilesOf
<1>6. CleanupHolds'
  BY <1>0 DEF CleanupHolds, Idle
<1>7. OrphansHold'
  BY <1>0, <1>1, <1>2 DEF IndInv, OrphansHold, FilesOf
<1>. QED
  BY <1>3, <1>4, <1>5, <1>6, <1>7 DEF IndInv

(* delete_orphaned_files takes its threshold: an object older than that is *)
(* not the upload of a running writer.                                     *)
LEMMA OrphansStartStep ==
    ASSUME IndInv, NEW all \in BOOLEAN, OrphansStart(all)
    PROVE  IndInv'
<1> DEFINE old == DOMAIN store \ (IF all THEN {} ELSE Young)
<1>1. /\ Open
      /\ all => \A w \in Writers : writer[w].pc = "idle"
      /\ orphans' = [pc |-> "files", all |-> all, old |-> old, catalog |-> LiveTables]
      /\ UNCHANGED <<database, store, named, writer, cleanup, wipe>>
  BY DEF OrphansStart
<1>2. LiveTables \in SUBSET Nat
  BY DEF LiveTables, Visible, IndInv, Typed, TableRow
<1>3. old \subseteq 1 .. named /\ old \in SUBSET Nat
  BY DEF IndInv, FilesNamed, Typed
<1>4. all => Uploads = {}
  BY <1>1 DEF Uploads
<1>5. old \intersect Uploads = {}
  <2>1. \A f \in Uploads : f \in DOMAIN store /\ ~ (store[f] > Retention)
    <3>1. \A f \in Uploads : f \in DOMAIN store /\ store[f] <= Lease /\ store[f] \in Int
      BY <1>1 DEF IndInv, UploadsSafe, Typed, Ages
    <3>. QED
      BY <3>1, ConstantFacts
  <2>2. Uploads \subseteq Young
    BY <2>1 DEF Young, Older
  <2>. QED
    BY <1>4, <2>2
<1>. HIDE DEF old
<1>6. cleanup' \in CleanupState /\ orphans' \in OrphansState
  BY <1>1, <1>2, <1>3 DEF OrphansState, IndInv, Typed
<1>7. CleanupHolds'
  BY <1>1 DEF IndInv, CleanupHolds, database
<1>8. Uploads' = Uploads
  BY <1>1 DEF Uploads
<1>9. OrphansHold'
  BY <1>1, <1>3, <1>4, <1>5, <1>8 DEF OrphansHold, Exclusive
<1>. QED
  BY <1>1, <1>6, <1>7, <1>9, JobStep

(* What the run of delete_orphaned_files looks like in its phases.         *)
LEMMA OrphansPhases ==
    ASSUME IndInv
    PROVE  /\ orphans.pc = "files" =>
                 orphans \in [pc : {"files"}, all : BOOLEAN, old : SUBSET Nat,
                              catalog : SUBSET Nat]
           /\ orphans.pc = "scheduled" =>
                 orphans \in [pc : {"scheduled"}, all : BOOLEAN, old : SUBSET Nat,
                              catalog : SUBSET Nat, rows : SUBSET FileRow]
           /\ orphans.pc = "list" =>
                 orphans \in [pc : {"list"}, all : BOOLEAN, old : SUBSET Nat,
                              referenced : SUBSET Nat]
           /\ orphans.pc = "deleting" =>
                 orphans \in [pc : {"deleting"}, all : BOOLEAN, todo : SUBSET Nat]
BY DEF IndInv, Typed, OrphansState, Idle

(* The two queries and the listing of delete_orphaned_files: every old     *)
(* file that a table or the schedule refers to is found, also when expiry  *)
(* moves it from one to the other in between.                              *)
LEMMA OrphansReadStep ==
    ASSUME IndInv, QueryTableFiles \/ QueryScheduled \/ ListStore
    PROVE  IndInv'
<1>1. Open /\ UNCHANGED <<database, store, named, writer, cleanup, wipe>>
  BY DEF QueryTableFiles, QueryScheduled, ListStore
<1>2. UNCHANGED <<files, scheduled>> /\ Uploads' = Uploads
  BY <1>1 DEF database, Uploads
<1>3. cleanup' \in CleanupState /\ CleanupHolds'
  BY <1>1 DEF IndInv, Typed, CleanupHolds, database
<1>4. DOMAIN scheduled \subseteq Nat /\ FilesOf(files) \subseteq Nat /\ DOMAIN store \subseteq 1 .. named
  BY DEF IndInv, FilesNamed, Typed
<1>5. CASE QueryTableFiles
  <2>1. /\ orphans.pc = "files"
        /\ orphans' = [pc |-> "scheduled", all |-> orphans.all, old |-> orphans.old,
                       catalog |-> orphans.catalog, rows |-> files]
    BY <1>5 DEF QueryTableFiles
  <2>2. orphans' \in OrphansState
    BY <2>1, OrphansPhases DEF OrphansState, IndInv, Typed
  <2>3. OrphansHold'
    BY <1>1, <1>2, <2>1 DEF IndInv, OrphansHold, Exclusive, FilesOf
  <2>. QED
    BY <1>1, <1>3, <2>2, <2>3, JobStep
<1>6. CASE QueryScheduled
  <2>1. /\ orphans.pc = "scheduled"
        /\ orphans' = [pc |-> "list", all |-> orphans.all, old |-> orphans.old,
                       referenced |-> FilesOf(orphans.rows) \union DOMAIN scheduled]
    BY <1>6 DEF QueryScheduled, Referenced
  <2>2. FilesOf(orphans.rows) \subseteq Nat
    BY <2>1, OrphansPhases DEF FilesOf, FileRow
  <2>3. orphans' \in OrphansState
    BY <1>4, <2>1, <2>2, OrphansPhases DEF OrphansState
  <2>4. OrphansHold'
    <3>1. orphans.old \intersect (FilesOf(files) \union DOMAIN scheduled)
              \subseteq FilesOf(orphans.rows) \union DOMAIN scheduled
      BY <1>1, <2>1 DEF IndInv, OrphansHold
    <3>. QED
      BY <1>1, <1>2, <2>1, <3>1 DEF IndInv, OrphansHold, Exclusive, FilesOf
  <2>. QED
    BY <1>1, <1>3, <2>3, <2>4, JobStep
<1>7. CASE ListStore
  <2>1. /\ orphans.pc = "list"
        /\ orphans' = [pc |-> "deleting", all |-> orphans.all,
                       todo |-> (DOMAIN store \intersect orphans.old) \ orphans.referenced]
    BY <1>7 DEF ListStore
  <2>2. orphans' \in OrphansState
    BY <1>4, <2>1, OrphansPhases DEF OrphansState
  <2>3. OrphansHold'
    BY <1>1, <1>2, <1>4, <2>1 DEF IndInv, OrphansHold, Exclusive, FilesOf
  <2>. QED
    BY <1>1, <1>3, <2>2, <2>3, JobStep
<1>. QED
  BY <1>5, <1>6, <1>7

(* A job ends, is given up or panics.                                      *)
LEMMA JobEndsStep ==
    ASSUME IndInv, OrphansPanic \/ OrphansDone \/ JobCrash
    PROVE  IndInv'
<1>1. Open /\ UNCHANGED <<database, store, named, writer, wipe>>
  BY DEF OrphansPanic, OrphansDone, JobCrash
<1>2. cleanup' \in {cleanup, Idle} /\ orphans' \in {orphans, Idle}
  BY DEF OrphansPanic, OrphansDone, JobCrash
<1>3. Idle.pc = "idle"
  BY DEF Idle
<1>4. cleanup' \in CleanupState /\ orphans' \in OrphansState
  BY <1>2 DEF IndInv, Typed, CleanupState, OrphansState
<1>5. CleanupHolds'
  BY <1>1, <1>2, <1>3 DEF IndInv, CleanupHolds, database
<1>6. OrphansHold'
  BY <1>1, <1>2, <1>3 DEF IndInv, OrphansHold, Exclusive, Uploads, FilesOf, database
<1>. QED
  BY <1>1, <1>4, <1>5, <1>6, JobStep

(* delete_orphaned_files deletes an object nothing refers to.              *)
LEMMA OrphansDeleteStep ==
    ASSUME IndInv, OrphansDelete
    PROVE  IndInv'
<1>1. PICK f \in orphans.todo :
         /\ store' = Without(store, {f})
         /\ orphans' = [orphans EXCEPT !.todo = @ \ {f}]
  BY DEF OrphansDelete, DeleteObject
<1>2. /\ Open /\ orphans.pc = "deleting"
      /\ UNCHANGED <<database, named, writer, cleanup, wipe>>
  BY DEF OrphansDelete
<1>3. orphans \in [pc : {"deleting"}, all : BOOLEAN, todo : SUBSET Nat]
  BY <1>2, OrphansPhases
<1>4. orphans' = [pc |-> "deleting", all |-> orphans.all, todo |-> orphans.todo \ {f}]
  BY <1>1, <1>2, <1>3
<1>5. f \notin FilesOf(files) \union Uploads
  BY <1>2 DEF IndInv, OrphansHold
<1>6. cleanup' \in CleanupState /\ orphans' \in OrphansState
  BY <1>2, <1>3, <1>4 DEF OrphansState, IndInv, Typed
<1>7. CleanupHolds'
  <2>1. DOMAIN store' = DOMAIN store \ {f}
    BY <1>1 DEF Without
  <2>. QED
    BY <1>2, <2>1 DEF IndInv, CleanupHolds, database
<1>8. OrphansHold'
  BY <1>2, <1>4 DEF IndInv, OrphansHold, Exclusive, Uploads, FilesOf, database
<1>. QED
  BY <1>1, <1>2, <1>5, <1>6, <1>7, <1>8, ObjectGoes

(* Ducklake::delete: nothing is promised any more once it has begun.       *)
LEMMA WipeStep ==
    ASSUME IndInv, Wipe
    PROVE  IndInv'
<1>1. ~ Open' /\ wipe' \in WipeState
  BY DEF Wipe, WipeStart, WipeDelete, WipeCatalog, WipeCrash, WipeAgain, Open, WipeState,
         jobs, IndInv, Typed
<1>2. UNCHANGED <<named, writer, cleanup, orphans>>
  BY DEF Wipe, WipeStart, WipeDelete, WipeCatalog, WipeCrash, WipeAgain, jobs
<1>3. /\ store' \in [DOMAIN store' -> Ages] /\ DOMAIN store' \subseteq DOMAIN store
  BY DEF Wipe, WipeStart, WipeDelete, WipeCatalog, WipeCrash, WipeAgain, DeleteObject, Without,
         IndInv, Typed
<1>4. \/ UNCHANGED <<snapshots, tables, files, scheduled>>
      \/ snapshots' = {} /\ tables' = {} /\ files' = {} /\ scheduled' = <<>>
  BY DEF Wipe, WipeStart, WipeDelete, WipeCatalog, WipeCrash, WipeAgain, database
<1>5. Typed'
  <2>1. scheduled' \in [DOMAIN scheduled' -> Ages]
    <3>1. CASE scheduled' = scheduled
      BY <3>1 DEF IndInv, Typed
    <3>2. CASE scheduled' = <<>>
      <4>1. <<>> \in [{} -> Ages] /\ DOMAIN <<>> = {}
        OBVIOUS
      <4>. QED
        BY <3>2, <4>1
    <3>. QED
      BY <1>4, <3>1, <3>2
  <2>2. /\ snapshots' \subseteq 0 .. MaxSnapshots
        /\ tables' \subseteq TableRow /\ files' \subseteq FileRow
    BY <1>4 DEF IndInv, Typed
  <2>. QED
    BY <1>1, <1>2, <1>3, <2>1, <2>2 DEF IndInv, Typed
<1>6. (HasHead /\ FilesNamed)'
  BY <1>1, <1>2, <1>3, <1>4 DEF IndInv, HasHead, FilesNamed, FilesOf
<1>. QED
  BY <1>1, <1>5, <1>6 DEF IndInv

(* One lemma per operation, put together.                                  *)
LEMMA NextPreserves ==
    ASSUME IndInv, [Next]_vars
    PROVE  IndInv'
<1>1. ASSUME NEW w \in Writers, Upload(w) \/ CommitFile(w) \/ WriterCrash(w)
      PROVE  IndInv'
  BY <1>1, UploadStep, CommitFileStep, WriterLeaves DEF WriterCrash
<1>2. ASSUME NEW t \in LiveTables, DropTable(t)
      PROVE  IndInv'
  BY <1>2, DropTableStep
<1>3. CASE Tick
  BY <1>3, TickStep
<1>4. CASE ExpireSnapshots
  <2>1. PICK s \in snapshots \ {HeadSnapshot} : Expire(snapshots \ {s})
    BY <1>4 DEF ExpireSnapshots
  <2>2. Open /\ HeadSnapshot \in snapshots \ {s}
    BY <1>4, <2>1, HeadIsNewest DEF ExpireSnapshots
  <2>. QED
    BY <2>1, <2>2, ExpireStep
<1>5. CASE ExpireAll
  <2>1. Open /\ HeadSnapshot \in snapshots /\ Expire({HeadSnapshot})
    BY <1>5, HeadIsNewest DEF ExpireAll
  <2>. QED
    BY <2>1, ExpireStep
<1>6. CASE CleanupRun
  BY <1>6, CleanupSelectStep, CleanupDeleteStep, CleanupRowsStep DEF CleanupRun
<1>7. ASSUME NEW all \in BOOLEAN, OrphansStart(all)
      PROVE  IndInv'
  BY <1>7, OrphansStartStep
<1>8. CASE OrphansRun
  BY <1>8, OrphansReadStep, OrphansDeleteStep, JobEndsStep DEF OrphansRun
<1>9. CASE JobCrash
  BY <1>9, JobEndsStep
<1>10. CASE Wipe
  BY <1>10, WipeStep
<1>11. CASE UNCHANGED vars
  <2>1. UNCHANGED <<database, store, named, writer, wipe, cleanup, orphans>>
    BY <1>11 DEF vars, jobs
  <2>2. (Typed /\ HasHead /\ FilesNamed)'
    BY <2>1 DEF IndInv, Typed, HasHead, FilesNamed, FilesOf, Open, database
  <2>3. Open' => (FilesAvailable /\ UploadsSafe)'
    BY <2>1 DEF IndInv, FilesAvailable, UploadsSafe, Uploads, FilesOf, Open, database
  <2>4. Open' => (CleanupHolds /\ OrphansHold)'
    BY <2>1 DEF IndInv, CleanupHolds, OrphansHold, Exclusive, Uploads, FilesOf, Open, database
  <2>. QED
    BY <2>2, <2>3, <2>4 DEF IndInv
<1>. QED
  BY <1>1, <1>2, <1>3, <1>4, <1>5, <1>6, <1>7, <1>8, <1>9, <1>10, <1>11 DEF Next

-----------------------------------------------------------------------------
(* The results.                                                            *)

(* The invariant of data files and the jobs that delete them: whatever a   *)
(* running job may still delete is scheduled, or is an old file nobody     *)
(* refers to and nobody is about to commit.                                *)
THEOREM Invariance == Spec => []IndInv
<1>1. Init => IndInv
  BY InitEstablishes
<1>2. IndInv /\ [Next]_vars => IndInv'
  BY NextPreserves
<1>. QED
  BY <1>1, <1>2, PTL DEF Spec

(* Rows and objects are files that were uploaded, ages are capped, and no  *)
(* file is both in a table and scheduled for deletion.                     *)
THEOREM TypeCorrect == Spec => []TypeOK
<1>1. IndInv => TypeOK
  BY DEF IndInv, Typed, FilesNamed, TypeOK
<1>. QED
  BY <1>1, Invariance, PTL

(* No job deletes the object of a file that some retained snapshot can     *)
(* still read: cleanup_old_files and delete_orphaned_files are safe next   *)
(* to any writers, expiry and crashes.                                     *)
THEOREM FilesStayAvailable == Spec => []FilesAvailable
<1>1. IndInv => FilesAvailable
  BY DEF IndInv, FilesAvailable
<1>. QED
  BY <1>1, Invariance, PTL

(* delete_orphaned_files never deletes the object of a scheduled file,     *)
(* also when expiry schedules it between its two queries.                  *)
THEOREM ScheduledSpared == Spec => OrphansSpareScheduled
<1>1. ASSUME IndInv, OrphansDelete
      PROVE  \A f \in DOMAIN store \ DOMAIN store' : f \notin DOMAIN scheduled
  <2>1. Open /\ orphans.pc = "deleting"
    BY <1>1 DEF OrphansDelete
  <2>2. PICK g \in orphans.todo : store' = Without(store, {g})
    BY <1>1 DEF OrphansDelete, DeleteObject
  <2>3. g \notin DOMAIN scheduled
    BY <1>1, <2>1 DEF IndInv, OrphansHold
  <2>. QED
    BY <2>2, <2>3 DEF Without
<1>2. IndInv /\ [Next]_vars =>
         [OrphansDelete => \A f \in DOMAIN store \ DOMAIN store' : f \notin DOMAIN scheduled]_vars
  BY <1>1
<1>. QED
  BY <1>2, Invariance, PTL DEF Spec, OrphansSpareScheduled

(* cleanup_old_files drops the row of a scheduled file only when its       *)
(* object is gone: a crash in between never loses track of an object.      *)
THEOREM CleanupIsTracked == Spec => CleanupKeepsTrack
<1> DEFINE Tracked == Open => \A f \in DOMAIN scheduled \ DOMAIN scheduled' : f \notin DOMAIN store
<1>1. ASSUME IndInv, CleanupRows
      PROVE  Tracked
  <2>1. /\ Open /\ cleanup.pc = "deleting" /\ cleanup.todo = {}
        /\ scheduled' = Without(scheduled, cleanup.ids)
    BY <1>1 DEF CleanupRows, CleanupRowsReady
  <2>2. cleanup.ids \intersect DOMAIN store = {}
    BY <1>1, <2>1 DEF IndInv, CleanupHolds
  <2>. QED
    BY <2>1, <2>2 DEF Without
<1>2. ASSUME IndInv, Tick
      PROVE  Tracked
  BY <1>2, AgedFacts DEF Tick, IndInv, Typed
<1>3. ASSUME ExpireSnapshots \/ ExpireAll
      PROVE  Tracked
  BY <1>3 DEF ExpireSnapshots, ExpireAll, Expire, With
<1>4. ASSUME IndInv, Next, Open, ~ CleanupRows, ~ Tick, ~ ExpireSnapshots, ~ ExpireAll
      PROVE  UNCHANGED scheduled
  BY <1>4
  DEF Next, Upload, CommitFile, WriterCrash, DropTable, CleanupRun, CleanupSelect, CleanupDelete,
      OrphansStart, OrphansRun, QueryTableFiles, QueryScheduled, OrphansPanic, ListStore,
      OrphansDelete, OrphansDone, JobCrash, Wipe, WipeStart, WipeDelete, WipeCatalog, WipeCrash,
      WipeAgain, Open, database
<1>5. IndInv /\ [Next]_vars => [Tracked]_vars
  BY <1>1, <1>2, <1>3, <1>4
<1>. QED
  BY <1>5, Invariance, PTL DEF Spec, CleanupKeepsTrack

=============================================================================
