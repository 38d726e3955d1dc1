-------------------------- MODULE MCReadOnlyTree --------------------------
(***************************************************************************)
(* Small instances of ReadOnlyTree: one claim with two pods, one inline    *)
(* volume, and two commits that differ in each way entries can: a file     *)
(* that changes, one that goes, one that turns into a directory.           *)
(***************************************************************************)
EXTENDS ReadOnlyTree, TLC

CONSTANTS c1, i1, t1, t2, t3

MCOwner == t1 :> c1 @@ t2 :> c1 @@ t3 :> i1

MCContent ==
    << << "text 1", "text", "text" >>, << "text 2", "absent", "directory" >> >>

Symmetry == Permutations({t1, t2})

=============================================================================
