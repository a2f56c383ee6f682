--------------------------- MODULE MCProjectState ---------------------------
(* Model values and symmetry for ProjectState.                             *)
EXTENDS ProjectState, TLC

CONSTANTS h1, h2

MCHandlers == {h1, h2}
MCSymmetry == Permutations(MCHandlers)
=============================================================================
