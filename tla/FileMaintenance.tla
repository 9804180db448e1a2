-------------------------- MODULE FileMaintenance --------------------------
(***************************************************************************)
(* Data files and the object store that holds them: writers, expiry, and   *)
(* the jobs that delete objects (maintenance/, delete.rs).                 *)
(*                                                                         *)
(* A writer uploads an object and then commits the row that refers to it;  *)
(* it may crash in between.  Expiry moves the rows of unreachable files to *)
(* ducklake_files_scheduled_for_deletion.  cleanup_old_files deletes the   *)
(* objects of scheduled files, and then their rows; delete_orphaned_files  *)
(* deletes objects the catalog does not mention.  Both spare what is       *)
(* younger than delete_older_than (Retention), and either may stop         *)
(* anywhere.  Times are ages, counted up to "older than Retention".        *)
(***************************************************************************)
EXTENDS LakeRows, FiniteSets, FiniteSetsExt

CONSTANTS
    Writers,        \* processes that write data files
    MaxFiles,       \* bound: number of files written
    MaxSnapshots,   \* bound: newest snapshot ID
    MaxCrashes,     \* bound: number of jobs and writers that crash
    Retention,      \* delete_older_than
    Lease           \* how old an object is at most when its writer commits

ASSUME FileMaintenanceAssumption ==
    /\ {MaxFiles, MaxSnapshots, MaxCrashes, Retention, Lease} \subseteq Nat
    /\ Lease <= Retention

VARIABLES
    snapshots,  \* IDs in ducklake_snapshot
    tables,     \* rows of ducklake_table
    files,      \* rows of ducklake_data_file and ducklake_delete_file
    scheduled,  \* ducklake_files_scheduled_for_deletion: file -> age
    store,      \* the object store: file -> age
    named,      \* number of file names handed out: every upload has its own
    writer,     \* what every writer has uploaded and not committed yet
    cleanup,    \* the run of cleanup_old_files
    orphans,    \* the run of delete_orphaned_files
    wipe,       \* the run of Ducklake::delete
    crashes

database == <<snapshots, tables, files, scheduled>>
jobs == <<cleanup, orphans, wipe>>
vars == <<database, store, named, writer, jobs, crashes>>

Ages == 0 .. Retention + 1
Older(ages) == {f \in DOMAIN ages : ages[f] > Retention}
Without(f, S) == [x \in DOMAIN f \ S |-> f[x]]
With(f, S, v) == [x \in DOMAIN f \union S |-> IF x \in S THEN v ELSE f[x]]
Aged(ages) == [f \in DOMAIN ages |-> Min({ages[f] + 1, Retention + 1})]

Idle == [pc |-> "idle"]
HeadSnapshot == Max(snapshots)
FilesOf(rows) == {r.file : r \in rows}

Init ==
    /\ snapshots = {0}
    /\ tables = {} /\ files = {}
    /\ scheduled = <<>> /\ store = <<>>
    /\ named = 0
    /\ writer = [w \in Writers |-> Idle]
    /\ cleanup = Idle /\ orphans = Idle /\ wipe = Idle
    /\ crashes = 0

-----------------------------------------------------------------------------
(* Writers, and time.                                                      *)

\* Deleting all orphans takes no account of age: nobody may be writing then.
Exclusive == orphans.pc # "idle" /\ orphans.all
Open == wipe.pc = "idle"

LiveTables == {r.id : r \in Visible(tables, HeadSnapshot)}

\* A file is written to a table, or for a new table that is created with it.
Upload(w) ==
    /\ Open /\ ~ Exclusive /\ named < MaxFiles
    /\ writer[w].pc = "idle"
    /\ \E t \in LiveTables \union {named + 1} :
          writer' = [writer EXCEPT ![w] = [pc |-> "uploaded", file |-> named + 1, table |-> t]]
    /\ named' = named + 1
    /\ store' = With(store, {named + 1}, 0)
    /\ UNCHANGED <<database, jobs, crashes>>

\* If the table was dropped the commit fails and leaves the object behind.
CommitFile(w) ==
    /\ Open
    /\ writer[w].pc = "uploaded"
    /\ LET new == HeadSnapshot + 1
           t == writer[w].table
           creates == t = writer[w].file
       IN  IF HeadSnapshot = MaxSnapshots \/ ~ (creates \/ t \in LiveTables)
           THEN UNCHANGED database
           ELSE /\ snapshots' = snapshots \union {new}
                /\ tables' = tables \union
                      (IF creates THEN {[id |-> t, begin |-> new, end |-> NULL]} ELSE {})
                /\ files' = files \union
                      {[file |-> writer[w].file, table |-> t, begin |-> new, end |-> NULL]}
                /\ UNCHANGED scheduled
    /\ writer' = [writer EXCEPT ![w] = Idle]
    /\ UNCHANGED <<store, named, jobs, crashes>>

WriterCrash(w) ==
    /\ Open /\ crashes < MaxCrashes
    /\ writer[w].pc = "uploaded"
    /\ writer' = [writer EXCEPT ![w] = Idle]
    /\ crashes' = crashes + 1
    /\ UNCHANGED <<database, store, named, jobs>>

RetireRows(rows, new) ==
    {IF r.end = NULL THEN [r EXCEPT !.end = new] ELSE r : r \in rows}

DropTable(t) ==
    /\ Open /\ HeadSnapshot < MaxSnapshots
    /\ LET new == HeadSnapshot + 1 IN
       /\ snapshots' = snapshots \union {new}
       /\ tables' = {r \in tables : r.id # t}
             \union RetireRows({r \in tables : r.id = t}, new)
       /\ files' = {r \in files : r.table # t}
             \union RetireRows({r \in files : r.table = t}, new)
    /\ UNCHANGED <<scheduled, store, named, writer, jobs, crashes>>

\* A writer commits before its object is older than the lease.
Tick ==
    /\ Open
    /\ \A w \in Writers : writer[w].pc = "uploaded" => store[writer[w].file] < Lease
    /\ store' = Aged(store)
    /\ scheduled' = Aged(scheduled)
    /\ <<store, scheduled>>' # <<store, scheduled>>
    /\ UNCHANGED <<snapshots, tables, files, named, writer, jobs, crashes>>

-----------------------------------------------------------------------------
(* expire_snapshots: in one database transaction.                          *)

\* Tables none of whose rows can be reached any more: find_expired_tables.
GoneTables(retained) == {r \in tables : Inactive(r, retained)}

\* mark_data_files_for_deletion: files no retained snapshot shows.
\* Mutant: the tables are deleted first, and their files are not found any more.
MarkedFilesOfTables(retained) ==
    {r \in files : Inactive(r, retained) /\ r.table \notin {t.id : t \in GoneTables(retained)}}

MarkedFiles(retained) == {r \in files : Inactive(r, retained)}

UnmarkedFiles(retained) == files \ MarkedFiles(retained)

Expire(retained) ==
    /\ files' = UnmarkedFiles(retained)
    /\ scheduled' = With(scheduled, FilesOf(MarkedFiles(retained)), 0)
    /\ snapshots' = retained
    /\ tables' = tables \ GoneTables(retained)
    /\ UNCHANGED <<store, named, writer, jobs, crashes>>

\* Any version but the newest may be expired, by age or by its ID.
ExpireSnapshots ==
    Open /\ \E s \in snapshots \ {HeadSnapshot} : Expire(snapshots \ {s})

ExpireAll ==
    /\ Open /\ snapshots # {HeadSnapshot}
    /\ Expire({HeadSnapshot})

-----------------------------------------------------------------------------
(* delete_objects: one object after the other; an object that is gone      *)
(* already is passed over.                                                 *)

\* Mutant: an object that is gone is an error.
DeleteObjectOrFail(todo, f) ==
    f \in todo \intersect DOMAIN store /\ store' = Without(store, {f})

DeleteObject(todo, f) == f \in todo /\ store' = Without(store, {f})

-----------------------------------------------------------------------------
(* cleanup_old_files                                                       *)

\* The filter is the age of the schedule, or none (cleanup_all_old_files).
CleanupFilter(all) == IF all THEN DOMAIN scheduled ELSE Older(scheduled)

\* A dry run ends here.
CleanupSelect(all) ==
    /\ Open /\ cleanup.pc = "idle"
    /\ CleanupFilter(all) # {}
    /\ cleanup' = [pc |-> "deleting", ids |-> CleanupFilter(all), todo |-> CleanupFilter(all)]
    /\ UNCHANGED <<database, store, named, writer, orphans, wipe, crashes>>

CleanupDelete ==
    /\ Open /\ cleanup.pc = "deleting"
    /\ \E f \in cleanup.todo :
          /\ DeleteObject(cleanup.todo, f)
          /\ cleanup' = [cleanup EXCEPT !.todo = @ \ {f}]
    /\ UNCHANGED <<database, named, writer, orphans, wipe, crashes>>

\* The rows go once all objects are gone.
\* Mutant: they go while objects are left.
CleanupRowsReadyEarly == cleanup.todo # cleanup.ids

CleanupRowsReady == cleanup.todo = {}

CleanupRows ==
    /\ Open /\ cleanup.pc = "deleting"
    /\ CleanupRowsReady
    /\ scheduled' = Without(scheduled, cleanup.ids)
    /\ cleanup' = Idle
    /\ UNCHANGED <<snapshots, tables, files, store, named, writer, orphans, wipe, crashes>>

-----------------------------------------------------------------------------
(* delete_orphaned_files                                                   *)

\* The threshold is taken and the catalog of the head is loaded.  What is too
\* young by then, or is uploaded later, is spared.
\* Mutant: age does not matter.
YoungNone == {}

Young == DOMAIN store \ Older(store)

OrphansStart(all) ==
    /\ Open /\ orphans.pc = "idle"
    /\ all => \A w \in Writers : writer[w].pc = "idle"
    /\ DOMAIN store # {}
    /\ orphans' = [pc |-> "files", all |-> all,
                   old |-> DOMAIN store \ (IF all THEN {} ELSE Young),
                   catalog |-> LiveTables]
    /\ UNCHANGED <<database, store, named, writer, cleanup, wipe, crashes>>

QueryTableFiles ==
    /\ Open /\ orphans.pc = "files"
    /\ orphans' = [pc |-> "scheduled", all |-> orphans.all, old |-> orphans.old,
                   catalog |-> orphans.catalog, rows |-> files]
    /\ UNCHANGED <<database, store, named, writer, cleanup, wipe, crashes>>

\* The path of a file is resolved through its table: catalog.table(id).unwrap().
Unresolved == {r \in orphans.rows : r.table \notin orphans.catalog}

\* Mutant: files scheduled for deletion are not referenced.
ReferencedByTables == FilesOf(orphans.rows)

Referenced == FilesOf(orphans.rows) \union DOMAIN scheduled

QueryScheduled ==
    /\ Open /\ orphans.pc = "scheduled"
    /\ Unresolved = {}
    /\ orphans' = [pc |-> "list", all |-> orphans.all, old |-> orphans.old,
                   referenced |-> Referenced]
    /\ UNCHANGED <<database, store, named, writer, cleanup, wipe, crashes>>

\* A file of a table that the loaded catalog does not have: the process panics.
OrphansPanic ==
    /\ Open /\ orphans.pc = "scheduled"
    /\ Unresolved # {}
    /\ orphans' = Idle
    /\ UNCHANGED <<database, store, named, writer, cleanup, wipe, crashes>>

ListStore ==
    /\ Open /\ orphans.pc = "list"
    /\ orphans' = [pc |-> "deleting", all |-> orphans.all,
                   todo |-> (DOMAIN store \intersect orphans.old) \ orphans.referenced]
    /\ UNCHANGED <<database, store, named, writer, cleanup, wipe, crashes>>

OrphansDelete ==
    /\ Open /\ orphans.pc = "deleting"
    /\ \E f \in orphans.todo :
          /\ DeleteObject(orphans.todo, f)
          /\ orphans' = [orphans EXCEPT !.todo = @ \ {f}]
    /\ UNCHANGED <<database, named, writer, cleanup, wipe, crashes>>

OrphansDone ==
    /\ Open /\ orphans.pc = "deleting" /\ orphans.todo = {}
    /\ orphans' = Idle
    /\ UNCHANGED <<database, store, named, writer, cleanup, wipe, crashes>>

JobCrash ==
    /\ Open /\ crashes < MaxCrashes
    /\ crashes' = crashes + 1
    /\ \/ cleanup.pc # "idle" /\ cleanup' = Idle /\ UNCHANGED orphans
       \/ orphans.pc # "idle" /\ orphans' = Idle /\ UNCHANGED cleanup
    /\ UNCHANGED <<database, store, named, writer, wipe>>

-----------------------------------------------------------------------------
(* Ducklake::delete: all objects, then all tables of the catalog, with no  *)
(* other connection at work.                                               *)

WipeStart ==
    /\ Open /\ cleanup.pc = "idle" /\ orphans.pc = "idle"
    /\ \A w \in Writers : writer[w].pc = "idle"
    /\ wipe' = [pc |-> "deleting"]
    /\ UNCHANGED <<database, store, named, writer, cleanup, orphans, crashes>>

WipeDelete ==
    /\ wipe.pc = "deleting"
    /\ \E f \in DOMAIN store : DeleteObject(DOMAIN store, f)
    /\ UNCHANGED <<database, named, writer, jobs, crashes>>

WipeReady == DOMAIN store = {}

WipeCatalog ==
    /\ wipe.pc = "deleting"
    /\ WipeReady
    /\ snapshots' = {} /\ tables' = {} /\ files' = {} /\ scheduled' = <<>>
    /\ wipe' = [pc |-> "gone"]
    /\ UNCHANGED <<store, named, writer, cleanup, orphans, crashes>>

\* A crash half-way leaves the lake to be deleted again.
WipeCrash ==
    /\ wipe.pc = "deleting" /\ crashes < MaxCrashes
    /\ crashes' = crashes + 1
    /\ wipe' = [pc |-> "broken"]
    /\ UNCHANGED <<database, store, named, writer, cleanup, orphans>>

WipeAgain ==
    /\ wipe.pc = "broken"
    /\ wipe' = [pc |-> "deleting"]
    /\ UNCHANGED <<database, store, named, writer, cleanup, orphans, crashes>>

-----------------------------------------------------------------------------
CleanupRun == (\E all \in BOOLEAN : CleanupSelect(all)) \/ CleanupDelete \/ CleanupRows
OrphansRun == \/ QueryTableFiles \/ QueryScheduled \/ OrphansPanic
              \/ ListStore \/ OrphansDelete \/ OrphansDone
Wipe == WipeStart \/ WipeDelete \/ WipeCatalog \/ WipeCrash \/ WipeAgain

Next ==
    \/ \E w \in Writers : Upload(w) \/ CommitFile(w) \/ WriterCrash(w)
    \/ Open /\ \E t \in LiveTables : DropTable(t)
    \/ Tick
    \/ ExpireSnapshots \/ ExpireAll
    \/ CleanupRun
    \/ \E all \in BOOLEAN : OrphansStart(all)
    \/ OrphansRun
    \/ JobCrash
    \/ Wipe

Spec == Init /\ [][Next]_vars

(* Time passes, a started job goes on unless it crashes, and the jobs that *)
(* spare young files are started again and again.                          *)
JobsRun ==
    /\ WF_vars(Tick)
    /\ \A w \in Writers : WF_vars(CommitFile(w))
    /\ WF_vars(CleanupSelect(FALSE) \/ CleanupDelete \/ CleanupRows)
    /\ WF_vars(OrphansStart(FALSE) \/ OrphansRun)

(* Snapshots are expired from time to time as well.                        *)
FairSpec == Spec /\ JobsRun /\ WF_vars(ExpireAll)

\* Nobody has to expire snapshots.
UnexpiredSpec == Spec /\ JobsRun

-----------------------------------------------------------------------------
(* Rows and objects are files, ages are capped, and every file row names   *)
(* an uploaded file.                                                       *)
TypeOK ==
    /\ snapshots \subseteq 0 .. MaxSnapshots
    /\ DOMAIN store \subseteq 1 .. named /\ named <= MaxFiles
    /\ \A f \in DOMAIN store : store[f] \in Ages
    /\ \A f \in DOMAIN scheduled : scheduled[f] \in Ages
    /\ FilesOf(files) \union DOMAIN scheduled \subseteq 1 .. named
    /\ FilesOf(files) \intersect DOMAIN scheduled = {}

(* No job deletes the object of a file that some retained snapshot can     *)
(* still read, however it interleaves with writers, expiry and other jobs. *)
FilesAvailable ==
    Open => FilesOf(files) \subseteq DOMAIN store

(* Readers of an expired snapshot have delete_older_than to finish: only   *)
(* cleanup deletes the object of a scheduled file, and the orphan job      *)
(* never touches it, not even when expiry runs between its two queries.    *)
OrphansSpareScheduled ==
    [][OrphansDelete =>
          \A f \in DOMAIN store \ DOMAIN store' : f \notin DOMAIN scheduled]_vars

(* The row of a scheduled file goes only after its object, so that a crash *)
(* between the two never leaves an object cleanup_old_files cannot find.   *)
CleanupKeepsTrack ==
    [][Open => \A f \in DOMAIN scheduled \ DOMAIN scheduled' : f \notin DOMAIN store]_vars

(* A scheduled file is deleted in the end, crashes of the job included.    *)
ScheduledGoAway ==
    \A f \in 1 .. MaxFiles :
        f \in DOMAIN scheduled ~> f \notin DOMAIN scheduled \union DOMAIN store \/ ~ Open

(* Files that the catalog does not mention and no writer is about to       *)
(* commit are deleted in the end.                                          *)
Orphan(f) ==
    /\ f \in DOMAIN store
    /\ f \notin FilesOf(files) \union DOMAIN scheduled
    /\ \A w \in Writers : writer[w].pc = "idle" \/ writer[w].file # f

OrphansGoAway ==
    \A f \in 1 .. MaxFiles : Orphan(f) ~> f \notin DOMAIN store \/ ~ Open
=============================================================================
