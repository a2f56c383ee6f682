----------------------------- MODULE MCScheduler -----------------------------
(* The programs for Scheduler: all of three functions, and some of four that *)
(* have a call over two levels, two ways to one callee, or several calls     *)
(* between two cycles.                                                       *)
EXTENDS Scheduler

MCFunctions == 1 .. 4

OfThree ==
  UNION {UNION {[vertices : {V}, defined : {D}, calls : SUBSET (D \X V)] : D \in SUBSET V}
           : V \in SUBSET (1 .. 3)}

Ladder    == {<<1, 2>>, <<2, 3>>, <<2, 4>>, <<3, 4>>}
Diamond   == {<<1, 2>>, <<1, 3>>, <<2, 4>>, <<3, 4>>}
TwoCycles == {<<1, 2>>, <<2, 1>>, <<1, 3>>, <<2, 4>>, <<3, 4>>, <<4, 3>>}

OfFour ==
  [vertices : {1 .. 4}, defined : {1 .. 3, 1 .. 4}, calls : {Ladder, Diamond}]
    \cup [vertices : {1 .. 4}, defined : {1 .. 4}, calls : {TwoCycles}]

MCPrograms == OfThree \cup OfFour
=============================================================================
