--------------------------- MODULE TableTransfer ---------------------------
(***************************************************************************)
(* Copying and moving tables between two DuckLakes (transfer.rs).          *)
(*                                                                         *)
(* A transfer scans the tables in the source, creates them in the target   *)
(* in one transaction and, for a move, drops them in the source in another *)
(* transaction, which forgets the rows of their files.  A copied file is a *)
(* new object below the data path of the target; a moved file stays where  *)
(* it is, below the data path of the source.  Other clients write and drop *)
(* tables of the source and create tables in the target meanwhile.         *)
(*                                                                         *)
(* The caller passes handles of tables.  A handle of a lake at an earlier  *)
(* snapshot (at_snapshot_id) is a handle of the same catalog and scans     *)
(* that snapshot; the drop always concerns the tables of the head.         *)
(*                                                                         *)
(* A commit is one step with the outcome of the conflict check: that this  *)
(* is what Transaction::commit does is the subject of CommitProtocol.      *)
(***************************************************************************)
EXTENDS Naturals, FiniteSets, Sequences

CONSTANTS
    Names,        \* names of tables, the same in both lakes
    MaxWrites,    \* bound: number of writes to the source
    MaxDrops,     \* bound: number of tables others drop in the source
    MaxJobs,      \* bound: number of transfers
    PinnedHandles \* whether callers pass handles of earlier snapshots

ASSUME TransferAssumption ==
    /\ MaxWrites \in Nat /\ MaxDrops \in Nat /\ MaxJobs \in Nat
    /\ PinnedHandles \in BOOLEAN

VARIABLES
    source,   \* head, oldest snapshot, data of live tables, rows of dropped tables
    target,
    store,    \* objects: [write, home]
    writes,   \* number of writes so far; a write is identified by its number
    dropped,  \* writes to tables that another client dropped in the source
    exposed,  \* ghost: writes a move may lose, see OnlyExposedLost
    job,      \* the transfer that runs
    jobs,     \* number of transfers so far
    past      \* the data of the source as committed at every snapshot

vars == <<source, target, store, writes, dropped, exposed, job, jobs, past>>

Lakes == {"source", "target"}
\* A piece of data: a write, inlined in the catalog or in a file below the data
\* path of the lake `home`.
Chunk == [write : 1 .. MaxWrites, kind : {"file", "inline"}, home : Lakes]
Files(chunks) == {c \in chunks : c.kind = "file"}
Tables(lake) == DOMAIN lake.data
Contents(lake) == UNION {lake.data[n] : n \in Tables(lake)}
Writes(chunks) == {c.write : c \in chunks}

Merged(f, g) == [x \in DOMAIN f \union DOMAIN g |-> IF x \in DOMAIN g THEN g[x] ELSE f[x]]
Dropping(f, S) == [x \in DOMAIN f \ S |-> f[x]]

Lake(data) == [head |-> 0, oldest |-> 0, data |-> data, retired |-> {}]
NoJob == [pc |-> "idle"]

Init ==
    /\ source = Lake([n \in Names |-> {}])
    /\ target = Lake(<<>>)
    /\ store = {} /\ writes = 0 /\ dropped = {} /\ exposed = {}
    /\ job = NoJob /\ jobs = 0
    /\ past = <<source.data>>

-----------------------------------------------------------------------------
(* Other clients.                                                          *)

SourceCommit(data, retired) ==
    /\ source' = [source EXCEPT !.head = @ + 1, !.data = data, !.retired = retired]
    /\ past' = Append(past, data)

\* The head has been compared: what is written from now on goes unnoticed.
Unnoticed(n) == job.pc \in {"drop", "drop_commit"} /\ n \in job.names

Write(n, kind) ==
    /\ writes < MaxWrites
    /\ n \in Tables(source)
    /\ writes' = writes + 1
    /\ LET c == [write |-> writes + 1, kind |-> kind, home |-> "source"] IN
       /\ SourceCommit([source.data EXCEPT ![n] = @ \union {c}], source.retired)
       /\ store' = store \union Files({c})
    /\ exposed' = exposed \union {w \in {writes + 1} : Unnoticed(n)}
    /\ UNCHANGED <<target, dropped, job, jobs>>

\* The rows of a dropped table are kept until its snapshots expire.
DropTable(n) ==
    /\ Cardinality(dropped) < MaxDrops
    /\ n \in Tables(source) /\ source.data[n] # {}
    /\ SourceCommit(Dropping(source.data, {n}), source.retired \union source.data[n])
    /\ dropped' = dropped \union Writes(source.data[n])
    /\ UNCHANGED <<target, store, writes, exposed, job, jobs>>

CreateInTarget(n) ==
    /\ n \notin Tables(target) /\ jobs < MaxJobs
    /\ target' = [target EXCEPT !.head = @ + 1, !.data = Merged(@, [m \in {n} |-> {}])]
    /\ UNCHANGED <<source, store, writes, dropped, exposed, job, jobs, past>>

-----------------------------------------------------------------------------
(* transfer_tables                                                         *)

\* The files a transfer has copied so far are too young to be deleted.
Copied == IF job.pc = "copy" THEN job.copied ELSE {}

Finish == job' = NoJob

\* The snapshots handles may be pinned to: those that have not expired.
Pins(names) ==
    UNION {[S -> source.oldest .. source.head] : S \in IF PinnedHandles THEN SUBSET names ELSE {{}}}

\* What the source holds of table n and a handle pinned to snapshot s hides.
Hidden(n, s) ==
    IF n \in Tables(source) THEN Writes(source.data[n] \ past[s + 1][n]) ELSE {}

\* An empty list returns at once.  Tables of another catalog, a lake onto
\* itself, two encryption settings and, for a move, one table twice are refused
\* before anything is read.  A move remembers the head of the source.  Some
\* handles are pinned: that they are of this catalog is all that is checked.
Start(move, names, pins) ==
    /\ job.pc = "idle" /\ jobs < MaxJobs
    /\ names # {} /\ names \ DOMAIN pins \subseteq Tables(source)
    /\ \A n \in DOMAIN pins : n \in DOMAIN past[pins[n] + 1]
    /\ job' = [pc |-> "scan", move |-> move, names |-> names, pins |-> pins, scan |-> <<>>,
               head |-> source.head]
    /\ jobs' = jobs + 1
    /\ exposed' = exposed \union
          UNION {IF move THEN Hidden(n, pins[n]) ELSE {} : n \in DOMAIN pins}
    /\ UNCHANGED <<source, target, store, writes, dropped, past>>

\* transfer_info: each table at the snapshot of its handle, which for a handle
\* that is not pinned is the head at its turn.
SnapshotOf(n) == IF n \in DOMAIN job.pins THEN job.pins[n] ELSE source.head

\* The rows of the table in that snapshot, except those that expiry or the drop
\* of an earlier move has deleted.
RowsAt(n, s) == past[s + 1][n] \intersect (Contents(source) \union source.retired)

Scan(n) ==
    /\ job.pc = "scan" /\ n \in job.names \ DOMAIN job.scan
    /\ n \in DOMAIN past[SnapshotOf(n) + 1]
    /\ job' = [job EXCEPT !.scan = Merged(@, [m \in {n} |-> RowsAt(n, SnapshotOf(n))])]
    /\ UNCHANGED <<source, target, store, writes, dropped, exposed, jobs, past>>

\* The table was dropped; for a pinned handle, its snapshot has expired, too,
\* and the catalog was not in the cache.
ScanNotFound(n) ==
    /\ job.pc = "scan" /\ n \in job.names \ DOMAIN job.scan
    /\ n \notin Tables(source)
    /\ n \in DOMAIN job.pins => job.pins[n] < source.oldest
    /\ Finish
    /\ UNCHANGED <<source, target, store, writes, dropped, exposed, jobs, past>>

\* All tables are scanned, and the target transaction starts; a name that is
\* taken is refused.  (So is one name for two tables, before: a table keeps its
\* name here.)
TargetBegin ==
    /\ job.pc = "scan" /\ DOMAIN job.scan = job.names
    /\ IF job.names \intersect Tables(target) = {}
       THEN job' = [pc |-> "copy", move |-> job.move, names |-> job.names, pins |-> job.pins,
                    scan |-> job.scan, head |-> job.head, copied |-> {}]
       ELSE Finish
    /\ UNCHANGED <<source, target, store, writes, dropped, exposed, jobs, past>>

FilesToCopy == IF job.move THEN {} ELSE Files(UNION {job.scan[n] : n \in job.names})
At(home, c) == IF c.kind = "file" THEN [c EXCEPT !.home = home] ELSE c

\* copy_transfer_file: the object must still be there.
CopyFile(c) ==
    /\ job.pc = "copy" /\ c \in FilesToCopy /\ At("target", c) \notin job.copied
    /\ c \in store
    /\ store' = store \union {At("target", c)}
    /\ job' = [job EXCEPT !.copied = @ \union {At("target", c)}]
    /\ UNCHANGED <<source, target, writes, dropped, exposed, jobs, past>>

CopyFails(c) ==
    /\ job.pc = "copy" /\ c \in FilesToCopy /\ At("target", c) \notin job.copied
    /\ c \notin store
    /\ Finish
    /\ UNCHANGED <<source, target, store, writes, dropped, exposed, jobs, past>>

Transferred(n) ==
    IF job.move THEN job.scan[n] ELSE {At("target", c) : c \in job.scan[n]}

\* The table was created by another client since the transaction began.
TargetConflict == job.names \intersect Tables(target) # {}

AfterTarget ==
    IF job.move
    THEN [pc |-> "check", move |-> TRUE, names |-> job.names, pins |-> job.pins, head |-> job.head]
    ELSE NoJob

\* Mutant: the commit does not wait for the copies.
CopiesNotAwaited == TRUE

CopiesDone == {At("target", c) : c \in FilesToCopy} \subseteq job.copied

TargetCommit ==
    /\ job.pc = "copy" /\ CopiesDone
    /\ IF TargetConflict
       THEN Finish /\ UNCHANGED target
       ELSE /\ target' = [target EXCEPT !.head = @ + 1,
                             !.data = Merged(@, [n \in job.names |-> Transferred(n)])]
            /\ job' = AfterTarget
    /\ UNCHANGED <<source, store, writes, dropped, exposed, jobs, past>>

\* "reject the drop if any concurrent writer advanced the source snapshot"
\* Mutant: the head is not compared.
HeadUnchangedAssumed == TRUE
\* Mutant: the tables need only exist.
HeadNotBehind == job.names \subseteq Tables(source)

HeadUnchanged == source.head = job.head

CheckHead ==
    /\ job.pc = "check"
    /\ job' = IF HeadUnchanged THEN [job EXCEPT !.pc = "drop"] ELSE NoJob
    /\ UNCHANGED <<source, target, store, writes, dropped, exposed, jobs, past>>

\* A second transaction, on the head of that moment, finds the tables by name.
SourceBegin ==
    /\ job.pc = "drop"
    /\ job' = IF job.names \subseteq Tables(source) THEN [job EXCEPT !.pc = "drop_commit"] ELSE NoJob
    /\ UNCHANGED <<source, target, store, writes, dropped, exposed, jobs, past>>

\* Dropping a table conflicts with dropping it elsewhere, not with writing to
\* it.  The rows of all files of the tables are deleted (detached_tables); the
\* inlined rows stay until their snapshots expire.
RetiredByMove(names) ==
    source.retired \union UNION {source.data[n] \ Files(source.data[n]) : n \in names}

DropSources ==
    /\ job.pc = "drop_commit"
    /\ IF job.names \subseteq Tables(source)
       THEN SourceCommit(Dropping(source.data, job.names), RetiredByMove(job.names))
       ELSE UNCHANGED <<source, past>>
    /\ Finish
    /\ UNCHANGED <<target, store, writes, dropped, exposed, jobs>>

\* The process dies: whatever was committed stays.
Crash ==
    /\ job.pc # "idle"
    /\ Finish
    /\ UNCHANGED <<source, target, store, writes, dropped, exposed, jobs, past>>

-----------------------------------------------------------------------------
(* Maintenance of a lake, see FileMaintenance.                             *)

Here(lake, home) == {c \in store : c.home = home} \ (Contents(lake) \union lake.retired)

\* delete_orphaned_files: what lies below the data path of a lake and is not
\* mentioned in its catalog.
DeleteOrphans(name) ==
    LET orphans == Here(IF name = "source" THEN source ELSE target, name) \ Copied IN
    /\ orphans # {}
    /\ store' = store \ orphans
    /\ UNCHANGED <<source, target, writes, dropped, exposed, job, jobs, past>>

\* expire_snapshots, of all snapshots but the head, and cleanup_old_files: the
\* files of dropped tables.
CleanUp ==
    /\ source.retired # {}
    /\ source' = [source EXCEPT !.retired = {}, !.oldest = source.head]
    /\ store' = store \ source.retired
    /\ UNCHANGED <<target, writes, dropped, exposed, job, jobs, past>>

-----------------------------------------------------------------------------
Transfer ==
    \/ \E move \in BOOLEAN, names \in SUBSET Names :
          \E pins \in Pins(names) : Start(move, names, pins)
    \/ \E n \in Names : Scan(n) \/ ScanNotFound(n)
    \/ TargetBegin \/ TargetCommit
    \/ \E c \in Chunk : CopyFile(c) \/ CopyFails(c)
    \/ CheckHead \/ SourceBegin \/ DropSources
    \/ Crash

Next ==
    \/ \E n \in Names, kind \in {"file", "inline"} : Write(n, kind)
    \/ \E n \in Names : DropTable(n) \/ CreateInTarget(n)
    \/ Transfer
    \/ \E l \in Lakes : DeleteOrphans(l)
    \/ CleanUp

Spec == Init /\ [][Next]_vars

-----------------------------------------------------------------------------
(* Lakes hold chunks of data, and the job is between two of its steps.     *)
TypeOK ==
    /\ \A l \in {source, target} :
          Tables(l) \subseteq Names /\ Contents(l) \subseteq Chunk /\ l.retired \subseteq Chunk
    /\ store \subseteq Files(Chunk)
    /\ Len(past) = source.head + 1 /\ past[source.head + 1] = source.data
    /\ job.pc \in {"idle", "scan", "copy", "check", "drop", "drop_commit"}

(* "if the source changed since the transfer began, the source drop is     *)
(* rejected with TableChangedDuringTransfer": what was written to the      *)
(* source is in one of the lakes, unless a client dropped its table.  It   *)
(* is not so: the head is compared before the transaction that drops the   *)
(* tables begins, and dropping a table does not conflict with writing.     *)
NoWriteLost ==
    \A w \in 1 .. writes :
        w \in dropped \union Writes(Contents(source)) \union Writes(Contents(target))

(* Wherever a transfer fails, crashes or meets other clients and jobs, a   *)
(* write gets lost in two ways only: it was committed after the move had   *)
(* compared the head, or the caller moved its table through a handle of a  *)
(* snapshot that is older than the write.                                  *)
OnlyExposedLost ==
    \A w \in 1 .. writes :
        w \in dropped \union exposed \union Writes(Contents(source)) \union Writes(Contents(target))

\* The snapshot the handle of table n showed when the move began.
ShownAtStart(n) == IF n \in DOMAIN job.pins THEN job.pins[n] ELSE job.head

(* A move drops the sources only if the target has, for all tables of the  *)
(* batch, exactly what their handles showed when the move began: the       *)
(* snapshot the handle is pinned to or else the head, although each table  *)
(* was scanned later and at a snapshot of its own.                         *)
MoveIsConsistent ==
    [][DropSources /\ source' # source =>
          \A n \in job.names :
              n \in Tables(target) /\ target.data[n] = past[ShownAtStart(n) + 1][n]]_vars

(* The files a lake keeps below its own data path are there: a copied      *)
(* table survives whatever happens to the source.                          *)
OwnFilesReadable ==
    /\ \A c \in Files(Contents(source)) : c.home = "source" => c \in store
    /\ \A c \in Files(Contents(target)) : c.home = "target" => c \in store

(* "source maintenance cannot delete files now owned by this DuckLake":    *)
(* the files of a table that was moved and is not in the source any more   *)
(* are readable.                                                           *)
MovedFilesReadable ==
    \A c \in Files(Contents(target)) :
        c \in store \/ c \in Contents(source) \/ c.write \in dropped
=============================================================================
