----------------------------- MODULE MCReadPath -----------------------------
(* ReadPath for TLC: tasks are interchangeable.                            *)
EXTENDS ReadPath, TLC

Symmetry == Permutations(Tasks)
=============================================================================
