---------------------------- MODULE MCSplitLoop ----------------------------
(***************************************************************************)
(* Constants for the model checking of SplitLoop: a grid on which the leave *)
(* distance reaches the neighbours of a row or a column, not the diagonal.  *)
(***************************************************************************)
EXTENDS SplitLoop, TLC

CONSTANTS Xs, Zs

MCPos == [x : Xs, z : Zs]
Symmetry == Permutations(Peer)

============================================================================
