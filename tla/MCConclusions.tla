---------------------------- MODULE MCConclusions ----------------------------
(* Model values, symmetry and update sets for Conclusions.                 *)
EXTENDS Conclusions, TLC

CONSTANTS h1, h2, f1, f2

MCHandlers == {h1, h2}
MCOneHandler == {h1}
MCFunctions == {f1, f2}
MCOneFunction == {f1}
MCSymmetry == Permutations(MCHandlers) \cup Permutations(MCFunctions)

\* Updates that meet in every way the fields interact: verdicts with and
\* without evidence, and evidence without a verdict.
SomeUpdates ==
  {[status |-> "verified", specs |-> {1}, evidence |-> FALSE],
   [status |-> "verified", specs |-> {}, evidence |-> TRUE],
   [status |-> "unsound", specs |-> {0}, evidence |-> TRUE],
   [status |-> Keep, specs |-> {}, evidence |-> TRUE]}
\* The orders of calls matter, not what they store.
OneUpdate == {[status |-> "verified", specs |-> {1}, evidence |-> FALSE]}
=============================================================================
