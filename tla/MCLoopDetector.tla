--------------------------- MODULE MCLoopDetector ---------------------------
(***************************************************************************)
(* Instances of LoopDetector for TLC.                                      *)
(***************************************************************************)
EXTENDS LoopDetector, TLC

Symmetry == Permutations(Hashes) \cup Permutations(Slots)

=============================================================================
