---------------------------- MODULE LinearHistory ----------------------------
(***************************************************************************)
(* What committing promises: the snapshots of a lake form one line.  A     *)
(* commit appends the successor of the head, never inserts below it, and   *)
(* is compatible with every commit it did not start from.                  *)
(***************************************************************************)
EXTENDS AppliedChange

VARIABLES
    log,  \* the commits: [id, tx, base, changes]
    head  \* the ID of the newest snapshot

Compatible(e, f) ==
    \A c \in e.changes, d \in f.changes : ~ NameClash(c, d) /\ ~ IdClash(c, d)

Init == log = {} /\ head \in Nat

Append ==
    \E e \in log' :
        /\ e.id = head + 1
        /\ e.base <= head
        /\ \A f \in log : e.base < f.id => Compatible(e, f)
        /\ log' = log \union {e}
        /\ head' = e.id

Spec == Init /\ [][Append]_<<log, head>>

=============================================================================
