----------------------------- MODULE MCTmpRename -----------------------------
(* Model values and symmetry for TmpRename.                                *)
EXTENDS TmpRename, TLC

CONSTANTS w1, w2, w3, d1, d2

MCWriters == {w1, w2, w3}
MCData    == {d1, d2}
MCSymmetry == Permutations(MCWriters) \cup Permutations(MCData)
=============================================================================
