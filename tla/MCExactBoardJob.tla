--------------------------- MODULE MCExactBoardJob ---------------------------
(* Instances of ExactBoardJob for TLC.                                      *)
EXTENDS ExactBoardJob, TLC

MCSymmetry == Permutations(Runner)
=============================================================================
