----------------------------- MODULE RequestReply -----------------------------
(***************************************************************************)
(* What FramaCClient promises its callers: one call is in progress at a    *)
(* time; the server runs calls in the order they were made and each at     *)
(* most once; an answer is the answer of the very call and comes after it  *)
(* ran; a call told it was rejected or killed has not run and never will.  *)
(* A call may fail without knowing whether it ran.  One exception to the   *)
(* order: a call whose answer does not decode is not cancelled, and may    *)
(* run after later ones.                                                   *)
(***************************************************************************)
EXTENDS Naturals, Sequences

CONSTANT Callers

VARIABLES
  serial,   \* calls made so far
  pending,  \* the call each caller is in, 0 for none
  ran,      \* the calls the server ran, in order (0 is connect's probe)
  told      \* what each finished call was told

vars == <<serial, pending, ran, told>>

Answered == {"data", "error"}
Refused  == {"rejected", "killed"}
Failed   == {"timeout", "io", "decode"}

Init ==
  /\ serial = 0
  /\ pending = [c \in Callers |-> 0]
  /\ ran = <<>>
  /\ told = {}

HasRun(n) == \E i \in 1..Len(ran) : ran[i] = n

Ask(c) ==
  /\ \A d \in Callers : pending[d] = 0
  /\ serial' = serial + 1
  /\ pending' = [pending EXCEPT ![c] = serial + 1]
  /\ UNCHANGED <<ran, told>>

\* In the order of the calls, but for one that was told of an answer it could
\* not decode: nobody cancels it, and it may run late.
Run(n) ==
  /\ ~HasRun(n)
  /\ \/ \A i \in 1..Len(ran) : ran[i] < n
     \/ \E t \in told : t.call = n /\ t.out = "decode"
  /\ \A t \in told : t.call = n => t.out \notin Refused
  /\ ran' = Append(ran, n)
  /\ UNCHANGED <<serial, pending, told>>

Tell(c, out, d) ==
  /\ pending[c] # 0
  /\ told' = told \cup {[call |-> pending[c], out |-> out, data |-> d]}
  /\ pending' = [pending EXCEPT ![c] = 0]
  /\ UNCHANGED <<serial, ran>>

Answer(c) ==
  /\ HasRun(pending[c])
  /\ \E out \in Answered : Tell(c, out, pending[c])

Refuse(c) ==
  /\ ~HasRun(pending[c])
  /\ \E out \in Refused : Tell(c, out, 0)

Fail(c) == \E out \in Failed : Tell(c, out, 0)

Next ==
  \/ \E c \in Callers : Ask(c) \/ Answer(c) \/ Refuse(c) \/ Fail(c)
  \/ \E n \in 0..serial : Run(n)

Spec == Init /\ [][Next]_vars
===============================================================================
