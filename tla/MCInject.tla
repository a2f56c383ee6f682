------------------------------ MODULE MCInject ------------------------------
(* Bodies and submissions for Inject: a function with two loops, whose main *)
(* version is numbered otherwise, and loses a loop in a reload.            *)
EXTENDS Inject, TLC

CONSTANTS h1, h2

MCHandlers == {h1, h2}
MCSymmetry == Permutations(MCHandlers)

Stmt(line, loop) ==
  [line |-> line, loop |-> loop, then_body |-> <<>>, else_body |-> <<>>, body |-> <<>>]

\* A loop in each branch of an if, inside a block.
TwoLoops(block, if, first, second) ==
  [roots |-> <<block>>,
   stmts |-> (block :> [Stmt(1, FALSE) EXCEPT !.body = <<if>>])
          @@ (if     :> [Stmt(2, FALSE) EXCEPT !.then_body = <<first>>, !.else_body = <<second>>])
          @@ (first  :> Stmt(3, TRUE))
          @@ (second :> Stmt(4, TRUE))]

MCSandboxBody == TwoLoops(1, 2, 4, 7)

MCMainBodies ==
  << TwoLoops(11, 12, 17, 14),
     [roots |-> <<11, 14>>, stmts |-> (11 :> Stmt(1, FALSE)) @@ (14 :> Stmt(2, TRUE))] >>

Good  == [text |-> "good", behavior |-> "none"]
Of(t, b) == [text |-> t, behavior |-> b]
Loop(s, inv, variant) == [sid |-> s, invariants |-> inv, assigns |-> <<>>, variant |-> variant]
Nothing ==
  [behaviors |-> {"b"}, requires |-> <<>>, ensures |-> <<>>, assigns |-> <<>>, loops |-> <<>>,
   terminates |-> Blank]

\* All of it can be injected.
Whole == [Nothing EXCEPT !.ensures = <<Of("good", "b")>>,
                         !.loops = <<Loop(4, <<Good>>, Blank), Loop(7, <<>>, Good)>>]
\* One clause of every kind of failure, and one that is passed over.
Mixed == [Nothing EXCEPT !.requires = <<Blank, Of("good", "c")>>,
                         !.assigns = <<Blank, Of("local", "none")>>,
                         !.terminates = Good]
\* A loop clause with a behavior, and a statement that is no loop: not the loops of
\* the source in order.
Behaved == [Nothing EXCEPT !.loops = <<Loop(4, <<Of("good", "b")>>, Blank), Loop(2, <<Good>>, Blank)>>]

MCSubmissions == {Whole, Mixed, Behaved}
=============================================================================
