---------------------------- MODULE MCMainInstance ----------------------------
(* Model values and symmetry for MainInstance.                             *)
EXTENDS MainInstance, TLC

CONSTANTS h1, h2

MCHandlers == {h1, h2}
HandlerSymmetry == Permutations(MCHandlers)
=============================================================================
