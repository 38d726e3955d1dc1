------------------------- MODULE MCWriteableVolume -------------------------
(***************************************************************************)
(* Small instances of WriteableVolume. The changes that touch the same     *)
(* lines are chosen so that a rebase conflicts in some behaviours and      *)
(* works in others: a write overlaps one foreign change and not the other, *)
(* or the other pod's write. The two writes of one volume are alike when   *)
(* each meets its own foreign change, and so are two pods whose writes     *)
(* overlap each other: the runs that check no liveness permute them.       *)
(***************************************************************************)
EXTENDS WriteableVolume, TLC

CONSTANTS w1, w2, f1, f2

MCOverlaps == { {w1, f1} }

MCTwoOverlaps == { {w1, f1}, {w2, f2} }

MCPodOverlaps == { {w1, w2} }

Symmetry == Permutations(Volumes) \cup Permutations(Writes)

\* The two pairs of overlapping changes, exchanged.
PairSymmetry == { w1 :> w2 @@ w2 :> w1 @@ f1 :> f2 @@ f2 :> f1 }

=============================================================================
