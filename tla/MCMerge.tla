------------------------------ MODULE MCMerge ------------------------------
(* Two branches and one received ref over three paths. *)
EXTENDS Merge

SameSpelling == [p \in Paths |-> p]
=============================================================================
