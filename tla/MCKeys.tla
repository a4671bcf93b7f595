------------------------------- MODULE MCKeys -------------------------------
(* Keys in two blocks.                                                     *)
EXTENDS Keys, TLC

CONSTANTS b1, b2, s1, s2

TwoBlocks == {b1, b2}
TwoSessions == {s1, s2}
Symmetry == Permutations(TwoBlocks) \cup Permutations(TwoSessions)
=============================================================================
