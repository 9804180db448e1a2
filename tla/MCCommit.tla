------------------------------ MODULE MCCommit ------------------------------
(***************************************************************************)
(* Instances of the commit protocol.  The lake starts with the schemas     *)
(* main and s and a table a of one file: what one commit on top of         *)
(* init_catalog leaves, its predecessor having been expired.               *)
(***************************************************************************)
EXTENDS CommitProperties, TLC

CONSTANTS t1, t2, t3

MCInitialSnapshot ==
    [id |-> 1, schema_version |-> 1, next_catalog_id |-> 3, next_file_id |-> 1]

Object(kind, id, schema, name, begin) ==
    [kind |-> kind, id |-> id, schema_id |-> schema, name |-> name, begin |-> begin, end |-> NULL]

MCInitialLake ==
    [objects |-> {Object("schema", 0, NoId, "main", 0), Object("schema", 1, NoId, "s", 1),
                  Object("table", 2, 0, "a", 1)},
     columns |-> {[table |-> 2, column |-> 1, begin |-> 1, end |-> NULL]},
     attributes |-> {},
     files   |-> {[id |-> 0, table |-> 2, row_id_start |-> 0, rows |-> 1, begin |-> 1, end |-> NULL]},
     inlined |-> {},
     inline  |-> {[table |-> 2, schema_version |-> 1, columns |-> {1}]},
     stats   |-> {[table |-> 2, next_row_id |-> 1, record_count |-> 1]},
     scheduled |-> {}]

\* What the transactions of a run may do.
TableOps == {<<o, "table">> : o \in {"rename", "add_column", "remove_column",
                                     "write_files", "write_inline"}}
Everything ==
    {<<o, k>> : o \in {"create", "delete"}, k \in Kind}
      \union TableOps
      \union {<<o, k>> : o \in {"set", "unset"}, k \in {"tag"} \union Indexed}

\* Two changes at a time; renames have a run of their own.
PairMenu ==
    ({<<o, k>> : o \in {"create", "delete"}, k \in Kind \ {"table_macro"}}
       \union TableOps \union {<<"set", "partitioning">>, <<"set", "tag">>})
      \ {<<"rename", "table">>}

\* Writers of one table, and whoever drops or changes it.
WriteMenu ==
    {<<"write_files", "table">>, <<"write_inline", "table">>, <<"create", "table">>,
     <<"delete", "table">>, <<"add_column", "table">>}

RenameMenu == {<<"rename", "table">>, <<"delete", "table">>}

RenameColumnMenu == {<<"rename", "table">>, <<"add_column", "table">>}

SchemaMenu ==
    {<<"create", "schema">>, <<"delete", "schema">>, <<"create", "table">>}

InlineMenu == {<<"write_inline", "table">>, <<"write_files", "table">>}

DropMenu == InlineMenu \union {<<"delete", "table">>}

Symmetry == Permutations(Tx)
=============================================================================
