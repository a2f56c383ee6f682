------------------------------ MODULE AtomicFile ------------------------------
(***************************************************************************)
(* What the persistence functions of src/mcp/server.rs promise their       *)
(* callers: a file that is replaced as a whole, at one moment between the  *)
(* call and its successful return, and not at all by a call that reports   *)
(* an error; a call that dies with the server may have replaced it.        *)
(***************************************************************************)
CONSTANTS Writers, Data, Missing

VARIABLES
  contents,  \* what a reader of the file gets
  writing,   \* what each writer wants to store, or Missing when it is idle
  stored,    \* that writer's contents have been stored
  answer     \* what its last call returned: "none", "ok" or "error"

vars == <<contents, writing, stored, answer>>

Init ==
  /\ contents = Missing
  /\ writing = [w \in Writers |-> Missing]
  /\ stored = [w \in Writers |-> FALSE]
  /\ answer = [w \in Writers |-> "none"]

Begin(w, d) ==
  /\ writing[w] = Missing
  /\ writing' = [writing EXCEPT ![w] = d]
  /\ answer' = [answer EXCEPT ![w] = "none"]
  /\ UNCHANGED <<contents, stored>>

Replace(w) ==
  /\ writing[w] # Missing /\ ~stored[w]
  /\ contents' = writing[w]
  /\ stored' = [stored EXCEPT ![w] = TRUE]
  /\ UNCHANGED <<writing, answer>>

\* Success exactly when the contents have been stored.
Done(w) ==
  /\ writing[w] # Missing
  /\ writing' = [writing EXCEPT ![w] = Missing]
  /\ stored' = [stored EXCEPT ![w] = FALSE]
  /\ answer' = [answer EXCEPT ![w] = IF stored[w] THEN "ok" ELSE "error"]
  /\ UNCHANGED contents

ServerDies ==
  /\ writing' = [w \in Writers |-> Missing]
  /\ stored' = [w \in Writers |-> FALSE]
  /\ answer' = [w \in Writers |-> "none"]
  /\ UNCHANGED contents

Next == (\E w \in Writers : (\E d \in Data : Begin(w, d)) \/ Replace(w) \/ Done(w)) \/ ServerDies

Spec == Init /\ [][Next]_vars
=============================================================================
