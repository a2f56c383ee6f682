------------------------------ MODULE Scheduler ------------------------------
(***************************************************************************)
(* src/mcp/server.rs, src/topo.rs: an agent that verifies a program.  It   *)
(* has the order computed (Topo.tla), then asks get_ready_functions, with  *)
(* what it has done and what it is working on, and starts functions of the *)
(* answer, which gets old while others are started and merged.  The server *)
(* keeps nothing of this: done and running are parameters of the call.     *)
(*                                                                         *)
(* The agent is outside the repository.  It works either on every function *)
(* of the answers or on those of the verification order, and either counts *)
(* library functions (declared only) as done from the start or does not.   *)
(***************************************************************************)
EXTENDS Topo

CONSTANT MaxFailures  \* bound: verifications that fail and are tried again

ASSUME SchedulerAssumption == MaxFailures \in Nat

VARIABLES
  worklist, \* the functions the agent means to verify
  answer,   \* the last answer of get_ready_functions
  done,     \* verified and merged
  running,  \* started
  failures  \* counted for the bound

agent == <<worklist, answer, done, running, failures>>
schedulerVars == <<topoVars, agent>>

SchedulerInit ==
  /\ TopoInit
  /\ worklist = {} /\ answer = {} /\ done = {} /\ running = {} /\ failures = 0

ComputeOrder ==
  /\ TopoNext
  /\ IF phase' = "seeded"
       THEN /\ worklist' \in {vertices, ToSet(order')}
            /\ done' \in {{}, vertices \ defined}
       ELSE UNCHANGED <<worklist, done>>
  /\ UNCHANGED <<answer, running, failures>>

\* get_ready_functions.
GetReady ==
  /\ phase = "seeded"
  /\ answer' = ReadyFunctions(done, running)
  /\ UNCHANGED <<topoVars, worklist, done, running, failures>>

Start(f) ==
  /\ phase = "seeded"
  /\ f \in (answer \cap worklist) \ (done \cup running)
  /\ running' = running \cup {f}
  /\ UNCHANGED <<topoVars, worklist, answer, done, failures>>

Merge(f) ==
  /\ f \in running
  /\ running' = running \ {f}
  /\ done' = done \cup {f}
  /\ UNCHANGED <<topoVars, worklist, answer, failures>>

Fail(f) ==
  /\ f \in running
  /\ failures < MaxFailures
  /\ failures' = failures + 1
  /\ running' = running \ {f}
  /\ UNCHANGED <<topoVars, worklist, answer, done>>

SchedulerNext ==
  \/ ComputeOrder
  \/ GetReady
  \/ \E f \in Functions : Start(f) \/ Merge(f) \/ Fail(f)

SchedulerSpec == SchedulerInit /\ [][SchedulerNext]_schedulerVars

\* The computation of the order ends, and an agent that can start or merge a
\* function does so in time, and keeps asking.
FairSpec ==
  /\ SchedulerSpec
  /\ WF_schedulerVars(ComputeOrder) /\ WF_schedulerVars(GetReady)
  /\ \A f \in Functions : WF_schedulerVars(Start(f)) /\ WF_schedulerVars(Merge(f))

-----------------------------------------------------------------------------
(* Properties.                                                             *)

\* An answer may be used late: what it lists can still be started after other
\* functions have been started, merged or given up.  So no function with a body
\* is ever started before all it calls is merged, but for the functions that,
\* directly or not, call it back.
OldAnswersHold ==
  /\ \A f \in answer \ (done \cup running) : f \in ReadyFunctions(done, running)
  /\ \A f \in running \cup (done \cap defined) : \A g \in Callees(f) :
       g \in done \/ Reaches(g, f)

\* With nothing under way and something left to do there is a function to start:
\* cycles do not wait for themselves.  The one exception is an agent that leaves
\* library functions out of its work and does not report them as done either:
\* their callers are never ready.
StuckOnlyOnLibrary ==
  (phase = "seeded" /\ running = {} /\ ~(worklist \subseteq done)) =>
    \/ ReadyFunctions(done, running) \cap worklist # {}
    \/ \E f \in worklist \ done, g \in vertices \ defined :
         g \in Callees(f) \ (done \cup worklist)

\* An agent that works on all it is told is ready, or counts library functions
\* as done, comes to the end of the program.
EverythingIsVerified ==
  (phase = "seeded" /\ (worklist = vertices \/ vertices \ defined \subseteq done))
    ~> (worklist \subseteq done)
=============================================================================
