----------------------------- MODULE MCSandboxes -----------------------------
(* Model values and symmetry for Sandboxes.                                *)
EXTENDS Sandboxes, TLC

CONSTANTS h1, h2, e1, e2

MCHandlers == {h1, h2}
MCTwoIds   == {e1, e2}
\* Each experiment about a function of its own.
MCFunctionOf == [i \in MCTwoIds |-> i]

HandlerSymmetry == Permutations(MCHandlers)
=============================================================================
