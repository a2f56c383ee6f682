----------------------------- MODULE MCAnalyses -----------------------------
(* A program of three functions for Analyses, two to a page.               *)
EXTENDS Analyses, TLC

CONSTANTS h1, h2, f1, f2, f3, f4

MCHandlers == {h1, h2}
MCSymmetry == Permutations(MCHandlers)
MCProgram == <<f1, f2, f3>>

Run(all, names) ==
  [all_functions |-> all, functions |-> names, prover |-> Absent, timeout |-> Absent,
   model |-> Absent, prop |-> Absent]

MCRuns ==
  { Run(TRUE, <<>>),
    [Run(FALSE, <<f2>>) EXCEPT !.model = "Bytes", !.prop = "p"],
    [Run(FALSE, <<f1, f3>>) EXCEPT !.prover = "Z3", !.timeout = "30 s"],
    [Run(FALSE, <<f1>>) EXCEPT !.prover = "CVC5", !.model = "Hoare"] }
=============================================================================
