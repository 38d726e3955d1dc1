-------------------------- MODULE MCDemandedPull --------------------------
(***************************************************************************)
(* Small instances of DemandedPull. Volumes are interchangeable where      *)
(* their attributes are.                                                   *)
(***************************************************************************)
EXTENDS DemandedPull, TLC

Symmetry == Permutations(Volumes)

=============================================================================
