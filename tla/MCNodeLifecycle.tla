-------------------------- MODULE MCNodeLifecycle --------------------------
(***************************************************************************)
(* Small instances of NodeLifecycle: one volume whose calls meet its own   *)
(* watcher and the sweep, and two that meet over their repository. The     *)
(* actions treat the volumes alike, so the runs that check no liveness may *)
(* permute them.                                                           *)
(***************************************************************************)
EXTENDS NodeLifecycle, TLC

Symmetry == Permutations(Volumes)

=============================================================================
