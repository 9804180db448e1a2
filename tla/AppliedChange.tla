---------------------------- MODULE AppliedChange ----------------------------
(***************************************************************************)
(* The entries of ducklake_snapshot_changes and the conflict matrix a      *)
(* retrying commit consults (transaction/changes/applied_change.rs).       *)
(*                                                                         *)
(* The twenty variants of the Rust enum are written [verb, kind]: for      *)
(* example CreatedTable is <<"created", "table">> and DroppedScalarMacro   *)
(* is <<"dropped", "scalar_macro">>.  "created" entries carry a qualified  *)
(* name, all the others carry the ID of the object they are about.         *)
(* Macro names are compared up to case, so a macro name stands for its     *)
(* case class.                                                             *)
(***************************************************************************)
EXTENDS Integers

Macro    == {"scalar_macro", "table_macro"}
Relation == {"table", "view"}
Kind     == {"schema"} \union Relation \union Macro

InsertVerb  == {"inserted", "inlined_insert"}
DeleteVerb  == {"deleted", "inlined_delete"}
\* Written by other DuckLake clients; no rule of the matrix mentions them.
RewriteVerb == {"inline_flush", "merge_adjacent", "rewrite_delete"}
Verb == {"created", "dropped", "altered", "compacted"}
          \union InsertVerb \union DeleteVerb \union RewriteVerb

NoId   == -1
NoName == "-"

Created(kind, schema, name) ==
    [verb |-> "created", kind |-> kind, id |-> NoId, schema |-> schema, name |-> name]

About(verb, kind, id) ==
    [verb |-> verb, kind |-> kind, id |-> id, schema |-> NoName, name |-> NoName]

-----------------------------------------------------------------------------
\* Mutant: a table and a view of one name do not clash.
NameClashWithinKind(lhs, rhs) ==
    /\ lhs.verb = "created" /\ rhs.verb = "created"
    /\ lhs.kind = rhs.kind
    /\ lhs.schema = rhs.schema /\ lhs.name = rhs.name

(* Two objects of one name: same kind, or a table and a view.              *)
NameClash(lhs, rhs) ==
    /\ lhs.verb = "created" /\ rhs.verb = "created"
    /\ lhs.kind = rhs.kind \/ {lhs.kind, rhs.kind} \subseteq Relation
    /\ lhs.schema = rhs.schema /\ lhs.name = rhs.name

\* Mutant: inserting into a table that was dropped is no conflict.
IdClashIgnoresDrop(lhs, rhs) ==
    /\ lhs.id = rhs.id
    /\ \/ lhs.verb = "dropped" /\ rhs.verb = "dropped" /\ lhs.kind = rhs.kind
       \/ lhs.verb = "altered" /\ rhs.verb \in {"altered", "dropped"}
       \/ lhs.verb \in InsertVerb /\ rhs.verb = "altered"

(* Two changes about one object that do not commute.  The rule is not      *)
(* symmetric: dropping or compacting a table tolerates what inserting into *)
(* it or altering it does not.                                             *)
IdClash(lhs, rhs) ==
    /\ lhs.id = rhs.id
    /\ \/ /\ lhs.verb = "dropped" /\ rhs.verb = "dropped"
          /\ lhs.kind = rhs.kind \/ {lhs.kind, rhs.kind} \subseteq Macro
       \/ /\ lhs.verb = "altered" /\ rhs.verb \in {"altered", "dropped"}
          /\ lhs.kind = rhs.kind /\ lhs.kind \in Relation
       \/ /\ lhs.kind = "table" /\ rhs.kind = "table"
          /\ \/ lhs.verb \in InsertVerb /\ rhs.verb \in {"dropped", "altered"}
             \/ lhs.verb \in DeleteVerb
                  /\ rhs.verb \in {"dropped", "altered", "deleted", "compacted"}
             \/ lhs.verb = "compacted"
                  /\ rhs.verb \in {"dropped", "deleted", "inlined_delete"}

(* A schema is dropped while an object is created in some schema, on       *)
(* whichever side.  The dropped ID is looked up in the catalog of the      *)
(* transaction that checks.                                                *)
DropsSchema(drop, create) ==
    /\ drop.verb = "dropped" /\ drop.kind = "schema"
    /\ create.verb = "created" /\ create.kind # "schema"

SchemaClash(drop, create, schemas) ==
    /\ DropsSchema(drop, create)
    /\ \E s \in schemas : s.id = drop.id /\ s.name = create.schema

SchemaUnknown(drop, create, schemas) ==
    /\ DropsSchema(drop, create)
    /\ \A s \in schemas : s.id # drop.id

\* Mutant: only my own dropped schemas are compared with created objects.
ConflictsOneWay(lhs, rhs, schemas) ==
    \/ NameClash(lhs, rhs)
    \/ IdClash(lhs, rhs)
    \/ SchemaClash(lhs, rhs, schemas)

Conflicts(lhs, rhs, schemas) ==
    \/ NameClash(lhs, rhs)
    \/ IdClash(lhs, rhs)
    \/ SchemaClash(lhs, rhs, schemas)
    \/ SchemaClash(rhs, lhs, schemas)

(* The errors check_conflict can raise for the changes `mine` of a         *)
(* transaction against the committed changes `theirs`: a                   *)
(* TransactionConflict, or the EntityNotFound of a schema lookup.  The     *)
(* loop stops at the first error, in an order that is not modelled.        *)
check_conflict(mine, theirs, schemas) ==
    {"conflict" : p \in {q \in mine \X theirs : Conflicts(q[1], q[2], schemas)}}
      \union
    {"not_found" : p \in {q \in mine \X theirs :
                            \/ SchemaUnknown(q[1], q[2], schemas)
                            \/ SchemaUnknown(q[2], q[1], schemas)}}

=============================================================================
