-------------------------- MODULE CommitProperties --------------------------
(***************************************************************************)
(* What the commit protocol promises.                                      *)
(***************************************************************************)
EXTENDS CommitProtocol

HeadId == Head.id

(* Snapshots are rows of counters, and the loop of commit makes at most    *)
(* max_retry_count + 1 attempts (transaction/mod.rs).                      *)
TypeOK ==
    /\ snapshots # {} /\ snapshots \subseteq Info
    /\ pc \in [Tx -> {"idle"} \union Active \union Finished]
    /\ base \in [Tx -> Info] /\ latest \in [Tx -> Info] /\ failed \in [Tx -> Info]
    /\ retry \in [Tx -> Nat]
    /\ \A t \in Tx : retry[t] <= IF pc[t] = "exceeded" THEN MaxRetry + 1 ELSE MaxRetry

(* A commit whose insert hits a taken primary key, or whose inline table   *)
(* exists, lost a race: "another snapshot has been committed in the        *)
(* meantime".  Without it a retry could fail for ever on IDs of its own.   *)
RetryMeansNewerSnapshot ==
    \A t \in Tx : pc[t] = "refresh" => latest[t].id < HeadId

(* RetriesExceeded is only returned to a transaction that MaxRetry + 1     *)
(* other commits overtook.                                                 *)
ExceededMeansContention ==
    \A t \in Tx : pc[t] = "exceeded" =>
        Cardinality({e \in log : e.id > base[t].id}) > MaxRetry

(* The commits form a linear history: each is the successor of the head    *)
(* and nothing committed between a transaction's base and its own snapshot *)
(* clashes with what it wrote.                                             *)
History == INSTANCE LinearHistory WITH head <- HeadId

CommitsAreLinear == History!Spec

\* Which of the rows of l a scan of some table of snapshot s returns.
DataAt(rows, l, s) ==
    {r \in AsOf(rows, s) : \E o \in Visible(l.objects, s) : o.kind = "table" /\ o.id = r.table}

(* Time travel: the catalog of a retained snapshot never changes, whatever *)
(* is committed or expired after it, nor does its data, files and inlined  *)
(* rows, with the one exception that move_tables documents: the files of   *)
(* the tables it moves, and of no others, are gone from every snapshot.    *)
TimeTravelStable ==
    [][\A s \in Ids(snapshots) \intersect Ids(snapshots') :
          /\ CatalogAt(lake', s) = CatalogAt(lake, s)
          /\ DataAt(lake'.inlined, lake', s) = DataAt(lake.inlined, lake, s)
          /\ DataAt(lake'.files, lake', s) =
                {r \in DataAt(lake.files, lake, s) :
                   ~ \E t \in Tx : /\ pc[t] = "persist" /\ pc'[t] = "committed"
                                   /\ detached_table(changes[t], r.table)}]_vars

(* The catalog cache is keyed by schema version: retained snapshots of one *)
(* schema version have the same catalog (caches/catalog.rs).               *)
SchemaVersionDeterminesCatalog ==
    \A q, r \in snapshots :
        q.schema_version = r.schema_version => CatalogAt(lake, q.id) = CatalogAt(lake, r.id)

(* In every retained snapshot no two tables or views share a name, nor two *)
(* schemas, nor two macros of one type.                                    *)
UniqueNames ==
    \A s \in Ids(snapshots) : NamesDiffer(Visible(lake.objects, s))

(* In every retained snapshot each table, view and macro is in a schema of *)
(* that snapshot, and each column, tag and data file is of a table of it.  *)
NoDanglingRows == \A s \in Ids(snapshots) : NothingDangles(lake, s)

(* The row IDs of a table are handed out once, whether the rows went to    *)
(* files or were inlined (write_table_data, write_table_inline_data).      *)
RowIdsDisjoint == RangesDisjoint(lake.files \union lake.inlined)

(* next_row_id of the statistics that persist_statistics leaves behind is  *)
(* above every row ID in use: the next writer starts from there.           *)
StatsCoverRows == CoversRows(lake.stats, lake.files \union lake.inlined)

\* Whether change c is visible in snapshot s.
TookEffect(c, s, l) ==
    LET objects == Visible(l.objects, s) IN
    CASE c.op = "create" -> \E r \in objects : r.kind = c.kind /\ r.name = c.name /\ r.begin = s
      [] c.op = "delete" -> \A r \in objects : r.id # c.id
      [] c.op = "rename" -> \E r \in objects : r.id = c.id /\ r.name = c.name
      [] c.op = "add_column" -> \E r \in Visible(l.columns, s) : r.table = c.id /\ r.column = c.n
      [] c.op = "remove_column" -> \A r \in Visible(l.columns, s) : r.table = c.id => r.column # c.n
      [] c.op = "set" -> \E r \in Visible(l.attributes, s) : r.table = c.id /\ r.begin = s
      [] c.op = "unset" -> \A r \in Visible(l.attributes, s) : r.table = c.id => r.key # c.kind
      [] OTHER -> c.id = Pending \/ \E r \in objects : r.id = c.id

(* What Transaction::commit reports as persisted is there: every change of *)
(* a committed transaction is visible in the snapshot it created.          *)
CommittedChangesTakeEffect ==
    [][\A t \in Tx : pc[t] = "persist" /\ pc'[t] = "committed" =>
          \A c \in changes[t] : TookEffect(c, latest[t].id + 1, lake')]_vars

(* An inlined data table has the columns of its table in the catalog of    *)
(* its schema version, which is what scans select from it.                 *)
InlineTablesMatchSchema == \A s \in snapshots : InlineMatches(lake, s)

(* A commit is only refused for a reason: something committed since the    *)
(* transaction started conflicts with what it would have written.          *)
RefusalsAreJustified ==
    \A t \in Tx : pc[t] \in {"conflict", "not_found", "error"} =>
        \E e \in log : e.id > base[t].id /\
            \E c \in applied_change_set(changes[t], latest[t]), d \in e.changes :
                Conflicts(c, d, Schemas(t))

(* get_snapshot_changes returns "all changes between the transaction       *)
(* snapshot and the new latest snapshot".                                  *)
CheckSeesAllChanges ==
    \A t \in Tx : pc[t] = "check" =>
        \A e \in log : base[t].id < e.id /\ e.id <= latest[t].id =>
            \E r \in ChangesMade(t) : r.id = e.id

(* Transaction::commit returns: whatever the other transactions do, its    *)
(* retry loop ends with success or with an error.                          *)
CommitReturns == \A t \in Tx : pc[t] \in Committing ~> pc[t] \in Finished

=============================================================================
