------------------------------ MODULE Sandboxes ------------------------------
(***************************************************************************)
(* src/mcp/server.rs: the sandboxes.  create_sandbox extracts a function   *)
(* from the main instance into a directory of its own and starts a Frama-C *)
(* process on it; reset_sandbox deletes and recreates, delete_sandbox      *)
(* kills and cleans up, add_annotation_sandbox changes the process's AST.  *)
(* Each leaves a trace in the conclusion of the function (state.rs).       *)
(*                                                                         *)
(* The map experiment_id -> (state, client) is behind an RwLock that no    *)
(* call keeps across an await, so calls interleave between any two of its  *)
(* steps.  A process is a number; 0 stands for none.                       *)
(* The main instance is loaded; an experiment id left out by the caller is *)
(* a fresh id.                                                             *)
(***************************************************************************)
EXTENDS Naturals, FiniteSets

CONSTANTS
  Handlers,      \* concurrent tool calls
  Ids,           \* experiment ids
  FunctionOf,    \* the function each experiment is about
  NoFunction,    \* stands for any other name, or none
  MaxSandboxes,  \* --max-sandboxes
  MaxCalls,      \* bound: tool calls made
  Ops,           \* the tools that are called
  Faults         \* "crash": a process dies; "fail": a step returns an error

AllOps == {"create", "reset", "delete", "add"}

ASSUME SandboxAssumption ==
  /\ IsFiniteSet(Handlers) /\ Handlers # {} /\ Ids # {}
  /\ \A i \in Ids : FunctionOf[i] # NoFunction
  /\ MaxSandboxes \in Nat /\ MaxCalls \in Nat
  /\ Ops \subseteq AllOps
  /\ Faults \subseteq {"crash", "fail"}

VARIABLES
  status,   \* of each process: "none", "booting", "up", "dead"
  home,     \* the experiment a process was started for
  annots,   \* annotations in the AST of each process
  dir,      \* /tmp/frama-c-sandbox-<id> exists
  socket,   \* the process whose socket is in that directory
  sandbox,  \* the map: child process and the process its client talks to
  notes,    \* the sandbox fields of each function's conclusion
  pc,       \* where each tool call is
  op, id,   \* which tool it is, on which experiment
  child,    \* the process it owns: spawned, or taken out of the map
  conn,     \* the process its client talks to
  named,    \* the function an add_annotation names after the experiment id
  calls,    \* counted for the bound
  raced,    \* history: calls that create or remove overlapped on this id
  unnoted,  \* history: processes changed by an add_annotation that the
            \* conclusion of their function does not show
  unremoved \* history: experiments whose directory could not be removed

processVars == <<status, home, annots>>
diskVars    == <<dir, socket>>
taskVars    == <<pc, op, id, child, conn, named>>
history     == <<raced, unnoted, unremoved>>
vars == <<processVars, diskVars, sandbox, notes, taskVars, calls, history>>

Functions == {FunctionOf[i] : i \in Ids}
Processes == 1 .. MaxCalls
Absent    == [child |-> 0, client |-> 0]
Unknown   == [known |-> FALSE, clean |-> TRUE, count |-> 0, deleted |-> FALSE]
NoId      == CHOOSE i \in Ids : TRUE

Creating == {"ceiling", "extract", "claim", "socket", "connect", "fetch", "insert", "noteCreated"}
Removing == {"remove", "kill", "rmdir", "noteDeleted"}
Adding   == {"add", "noteAdded"}

Live(p)    == status[p] \in {"booting", "up"}
Up(p)      == p # 0 /\ status[p] = "up"
Present(i) == sandbox[i].child # 0
Owned      == {sandbox[i].child : i \in Ids} \cup {child[h] : h \in Handlers}

Init ==
  /\ status = [p \in Processes |-> "none"]
  /\ home = [p \in Processes |-> NoId]
  /\ annots = [p \in Processes |-> 0]
  /\ dir = [i \in Ids |-> FALSE]
  /\ socket = [i \in Ids |-> 0]
  /\ sandbox = [i \in Ids |-> Absent]
  /\ notes = [f \in Functions |-> Unknown]
  /\ pc = [h \in Handlers |-> "idle"]
  /\ op = [h \in Handlers |-> "create"]
  /\ id = [h \in Handlers |-> NoId]
  /\ child = [h \in Handlers |-> 0]
  /\ conn = [h \in Handlers |-> 0]
  /\ named = [h \in Handlers |-> NoFunction]
  /\ calls = 0
  /\ raced = [i \in Ids |-> FALSE]
  /\ unnoted = {}
  /\ unremoved = {}

-----------------------------------------------------------------------------
(* Steps shared by the tools.                                              *)

Goto(h, l) == pc' = [pc EXCEPT ![h] = l]
Note(f, n) == notes' = [notes EXCEPT ![f] = n]

\* The call returns; its locals are dropped.
Return(h) ==
  /\ Goto(h, "idle")
  /\ child' = [child EXCEPT ![h] = 0]
  /\ conn' = [conn EXCEPT ![h] = 0]
  /\ named' = [named EXCEPT ![h] = NoFunction]
  /\ UNCHANGED <<op, id>>

\* A dropped child is SIGKILLed (kill_on_drop), on top of the explicit
\* start_kill and wait of most error paths.
Killed(p) == [q \in Processes |-> IF q = p THEN "dead" ELSE status[q]]

\* The call fails: its child is killed, its directory stays.
Abort(h) ==
  /\ status' = Killed(child[h])
  /\ Return(h)
  /\ UNCHANGED <<home, annots, diskVars, sandbox, notes, calls, history>>

Begin(h, o, i, l) ==
  /\ o \in Ops
  /\ pc[h] = "idle"
  /\ calls < MaxCalls
  /\ calls' = calls + 1
  /\ op' = [op EXCEPT ![h] = o]
  /\ id' = [id EXCEPT ![h] = i]
  /\ Goto(h, l)
  /\ LET overlap == {g \in Handlers : pc[g] # "idle" /\ id[g] = i}
     IN raced' = [raced EXCEPT ![i] =
          IF \E g \in overlap : {o, op[g]} # {"add"} THEN TRUE
          ELSE IF overlap = {} /\ ~Present(i) THEN FALSE ELSE @]
  /\ UNCHANGED <<processVars, diskVars, sandbox, notes, child, unnoted, unremoved>>

-----------------------------------------------------------------------------
(* create_sandbox, also the second half of reset_sandbox.                  *)

CreateCall(h, i) == Begin(h, "create", i, "ceiling") /\ UNCHANGED <<conn, named>>

\* Mutant: the safety ceiling is not looked at.
BelowCeilingAlways == TRUE

BelowCeiling == Cardinality({i \in Ids : Present(i)}) < MaxSandboxes

\* The ceiling is checked under a read lock, then released.
Ceiling(h) ==
  /\ pc[h] = "ceiling"
  /\ BelowCeiling
  /\ Goto(h, "extract")
  /\ UNCHANGED <<processVars, diskVars, sandbox, notes, op, id, named, child, conn, calls, history>>

CeilingReached(h) ==
  /\ pc[h] = "ceiling"
  /\ ~BelowCeiling
  /\ Abort(h)

\* extractFunctionWithDeps on the main instance.
Extract(h) ==
  /\ pc[h] = "extract"
  /\ Goto(h, "claim")
  /\ UNCHANGED <<processVars, diskVars, sandbox, notes, op, id, named, child, conn, calls, history>>

ExtractFails(h) ==
  /\ pc[h] = "extract"
  /\ "fail" \in Faults
  /\ Abort(h)

\* Mutant: an id in use is not noticed.
InUseNever(i) == FALSE

InUse(i) == Present(i)

IdCollision(h) ==
  /\ pc[h] = "claim"
  /\ InUse(id[h])
  /\ Abort(h)

\* remove_dir_all of a directory that is there may fail, which is only logged:
\* the socket file is still in it, or not.
SocketsLeft(i) == IF dir[i] /\ "fail" \in Faults THEN {0, socket[i]} ELSE {0}

\* The id is free: a prior directory is removed, the directory made anew and
\* Frama-C started in it.  No await lies between the check and the spawn.  (A
\* call starts one process at most, so there is an unused number.)
Claim(h) ==
  /\ pc[h] = "claim"
  /\ ~InUse(id[h])
  /\ \E q \in Processes : status[q] = "none"
  /\ LET p == CHOOSE q \in Processes : status[q] = "none"
     IN /\ status' = [status EXCEPT ![p] = "booting"]
        /\ home' = [home EXCEPT ![p] = id[h]]
        /\ child' = [child EXCEPT ![h] = p]
  /\ dir' = [dir EXCEPT ![id[h]] = TRUE]
  /\ \E s \in SocketsLeft(id[h]) : socket' = [socket EXCEPT ![id[h]] = s]
  /\ Goto(h, "socket")
  /\ UNCHANGED <<annots, sandbox, notes, op, id, named, conn, calls, history>>

\* mkdir, write, a log file or the spawn fails.
ClaimFails(h) ==
  /\ pc[h] = "claim"
  /\ ~InUse(id[h])
  /\ "fail" \in Faults
  /\ \E made \in BOOLEAN, s \in SocketsLeft(id[h]) :
       /\ dir' = [dir EXCEPT ![id[h]] = made]
       /\ socket' = [socket EXCEPT ![id[h]] = IF made THEN s ELSE 0]
  /\ Return(h)
  /\ UNCHANGED <<processVars, sandbox, notes, calls, history>>

SocketReady(h) ==
  /\ pc[h] = "socket"
  /\ socket[id[h]] # 0
  /\ Goto(h, "connect")
  /\ UNCHANGED <<processVars, diskVars, sandbox, notes, op, id, named, child, conn, calls, history>>

\* Mutant: without a deadline the wait goes on when the process is dead.
SocketTimeoutNever(h) == pc[h] = "socket" /\ socket[id[h]] = 0 /\ Up(child[h]) /\ Abort(h)

\* Twenty polls without the file: kill and wait.
SocketTimeout(h) == pc[h] = "socket" /\ socket[id[h]] = 0 /\ Abort(h)

\* A Frama-C server serves one connection at a time.
Serves(p) ==
  /\ Up(p)
  /\ \A i \in Ids : sandbox[i].client # p
  /\ \A h \in Handlers : conn[h] # p

\* Whichever process bound the socket in this directory answers.
Connect(h) ==
  /\ pc[h] = "connect"
  /\ Serves(socket[id[h]])
  /\ conn' = [conn EXCEPT ![h] = socket[id[h]]]
  /\ Goto(h, "fetch")
  /\ UNCHANGED <<processVars, diskVars, sandbox, notes, op, id, named, child, calls, history>>

ConnectFails(h) ==
  /\ pc[h] = "connect"
  /\ ~Serves(socket[id[h]]) \/ "fail" \in Faults
  /\ Abort(h)

\* reloadFunctions, fetchFunctions; an error drops the child.
Fetch(h) ==
  /\ pc[h] = "fetch"
  /\ Up(conn[h])
  /\ Goto(h, "insert")
  /\ UNCHANGED <<processVars, diskVars, sandbox, notes, op, id, named, child, conn, calls, history>>

FetchFails(h) ==
  /\ pc[h] = "fetch"
  /\ ~Up(conn[h]) \/ "fail" \in Faults
  /\ Abort(h)

\* An entry that is replaced is dropped, its child with it.
Replaced(i) == Killed(sandbox[i].child)

Insert(h) ==
  /\ pc[h] = "insert"
  /\ sandbox' = [sandbox EXCEPT ![id[h]] = [child |-> child[h], client |-> conn[h]]]
  /\ status' = Replaced(id[h])
  /\ child' = [child EXCEPT ![h] = 0]
  /\ conn' = [conn EXCEPT ![h] = 0]
  /\ Goto(h, "noteCreated")
  /\ UNCHANGED <<home, annots, diskVars, notes, op, id, named, calls, history>>

\* Mutant: the counters of the old sandbox are kept.
CreatedKeepsCount(n) == [n EXCEPT !.known = TRUE, !.deleted = FALSE]

\* SessionState::on_sandbox_created.
Created(n) == [known |-> TRUE, clean |-> TRUE, count |-> 0, deleted |-> FALSE]

NoteCreated(h) ==
  /\ pc[h] = "noteCreated"
  /\ LET f == FunctionOf[id[h]] IN Note(f, Created(notes[f]))
  /\ Return(h)
  /\ UNCHANGED <<processVars, diskVars, sandbox, calls, history>>

-----------------------------------------------------------------------------
(* cleanup_sandbox, in delete_sandbox and reset_sandbox.                   *)

\* The function is read from the map (found) before anything is removed; for
\* an unknown id nothing happens afterwards.
DeleteCall(h, i) ==
  /\ Present(i)
  /\ Begin(h, "delete", i, "remove")
  /\ UNCHANGED <<conn, named>>

ResetCall(h, i) ==
  /\ Present(i)
  /\ Begin(h, "reset", i, "remove")
  /\ UNCHANGED <<conn, named>>

AfterCleanup(h) == IF op[h] = "reset" THEN "ceiling" ELSE "noteDeleted"

\* The entry is taken out of the map under the write lock.
Remove(h) ==
  /\ pc[h] = "remove"
  /\ child' = [child EXCEPT ![h] = sandbox[id[h]].child]
  /\ sandbox' = [sandbox EXCEPT ![id[h]] = Absent]
  /\ Goto(h, IF Present(id[h]) THEN "kill" ELSE AfterCleanup(h))
  /\ UNCHANGED <<processVars, diskVars, notes, op, id, named, conn, calls, history>>

\* Mutant: the child is not taken out of its cell.
KillKeeps(h) ==
  /\ pc[h] = "kill"
  /\ status' = Killed(child[h])
  /\ Goto(h, "rmdir")
  /\ UNCHANGED <<home, annots, diskVars, sandbox, notes, op, id, named, child, conn, calls, history>>

\* start_kill, then wait.
Kill(h) ==
  /\ pc[h] = "kill"
  /\ status' = Killed(child[h])
  /\ child' = [child EXCEPT ![h] = 0]
  /\ Goto(h, "rmdir")
  /\ UNCHANGED <<home, annots, diskVars, sandbox, notes, op, id, named, conn, calls, history>>

\* remove_dir_all.
RemoveDir(h) ==
  /\ pc[h] = "rmdir"
  /\ dir' = [dir EXCEPT ![id[h]] = FALSE]
  /\ socket' = [socket EXCEPT ![id[h]] = 0]
  /\ unremoved' = unremoved \ {id[h]}
  /\ Goto(h, AfterCleanup(h))
  /\ UNCHANGED <<processVars, sandbox, notes, op, id, named, child, conn, calls, raced, unnoted>>

\* A directory that cannot be removed is only logged; the call goes on.
RemoveDirFails(h) ==
  /\ pc[h] = "rmdir"
  /\ "fail" \in Faults
  /\ dir[id[h]]
  /\ \E s \in SocketsLeft(id[h]) : socket' = [socket EXCEPT ![id[h]] = s]
  /\ unremoved' = unremoved \cup {id[h]}
  /\ Goto(h, AfterCleanup(h))
  /\ UNCHANGED <<processVars, dir, sandbox, notes, op, id, named, child, conn, calls, raced, unnoted>>

\* SessionState::on_sandbox_deleted.
NoteDeleted(h) ==
  /\ pc[h] = "noteDeleted"
  /\ LET f == FunctionOf[id[h]]
     IN Note(f, IF notes[f].known THEN [notes[f] EXCEPT !.deleted = TRUE] ELSE notes[f])
  /\ Return(h)
  /\ UNCHANGED <<processVars, diskVars, sandbox, calls, history>>

-----------------------------------------------------------------------------
(* add_annotation_sandbox.                                                 *)

\* resolve_client takes the client out of the map, by the experiment id; the
\* function is whatever the caller wrote after the colon.
AddCall(h, i) ==
  /\ Present(i)
  /\ Begin(h, "add", i, "add")
  /\ conn' = [conn EXCEPT ![h] = sandbox[i].client]
  /\ \E f \in Functions \cup {NoFunction} : named' = [named EXCEPT ![h] = f]

\* execAddAnnotation answers: the annotation is in the AST, or was refused.
Add(h) ==
  /\ pc[h] = "add"
  /\ Up(conn[h])
  /\ \E success \in BOOLEAN :
       annots' = [annots EXCEPT ![conn[h]] = IF success THEN @ + 1 ELSE @]
  /\ Goto(h, "noteAdded")
  /\ UNCHANGED <<status, home, diskVars, sandbox, notes, op, id, named, child, conn, calls, history>>

\* No answer; the annotation may be in the AST all the same.
AddFails(h) ==
  /\ pc[h] = "add"
  /\ ~Up(conn[h]) \/ "fail" \in Faults
  /\ \E done \in BOOLEAN :
       annots' = [annots EXCEPT ![conn[h]] = IF done /\ Up(conn[h]) THEN @ + 1 ELSE @]
  /\ unnoted' = unnoted \cup {conn[h]}
  /\ Return(h)
  /\ UNCHANGED <<status, home, diskVars, sandbox, notes, calls, raced, unremoved>>

\* Mutant: only the count is kept.
AddedStaysClean(n) == IF n.known THEN [n EXCEPT !.count = @ + 1] ELSE n

\* SessionState::on_annotation_added, whatever the answer said.
Added(n) == IF n.known THEN [n EXCEPT !.clean = FALSE, !.count = @ + 1] ELSE n

\* It is noted of the function the caller named, which need not be the
\* experiment's.
NoteAdded(h) ==
  /\ pc[h] = "noteAdded"
  /\ notes' = [f \in Functions |-> IF f = named[h] THEN Added(notes[f]) ELSE notes[f]]
  /\ unnoted' = IF named[h] = FunctionOf[id[h]] THEN unnoted ELSE unnoted \cup {conn[h]}
  /\ Return(h)
  /\ UNCHANGED <<processVars, diskVars, sandbox, calls, raced, unremoved>>

-----------------------------------------------------------------------------
(* The processes.                                                          *)

\* Frama-C has parsed sandbox.c and binds its socket; without the directory it
\* exits, and over an old socket file it may do either (server.rs:2409 calls
\* that undefined).
Boot(p) ==
  /\ status[p] = "booting"
  /\ \/ /\ dir[home[p]]
        /\ status' = [status EXCEPT ![p] = "up"]
        /\ socket' = [socket EXCEPT ![home[p]] = p]
     \/ /\ ~dir[home[p]] \/ socket[home[p]] # 0
        /\ status' = Killed(p)
        /\ UNCHANGED socket
  /\ UNCHANGED <<home, annots, dir, sandbox, notes, taskVars, calls, history>>

Crash(p) ==
  /\ "crash" \in Faults
  /\ Live(p)
  /\ status' = Killed(p)
  /\ UNCHANGED <<home, annots, diskVars, sandbox, notes, taskVars, calls, history>>

Finished ==
  /\ calls = MaxCalls
  /\ \A h \in Handlers : pc[h] = "idle"
  /\ UNCHANGED vars

-----------------------------------------------------------------------------

Step(h) ==
  \/ Ceiling(h) \/ CeilingReached(h) \/ Extract(h) \/ ExtractFails(h)
  \/ IdCollision(h) \/ Claim(h) \/ ClaimFails(h)
  \/ SocketReady(h) \/ SocketTimeout(h) \/ Connect(h) \/ ConnectFails(h)
  \/ Fetch(h) \/ FetchFails(h) \/ Insert(h) \/ NoteCreated(h)
  \/ Remove(h) \/ Kill(h) \/ RemoveDir(h) \/ RemoveDirFails(h) \/ NoteDeleted(h)
  \/ Add(h) \/ AddFails(h) \/ NoteAdded(h)

Next ==
  \/ \E h \in Handlers, i \in Ids :
       CreateCall(h, i) \/ DeleteCall(h, i) \/ ResetCall(h, i) \/ AddCall(h, i)
  \/ \E h \in Handlers : Step(h)
  \/ \E p \in Processes : Boot(p) \/ Crash(p)
  \/ Finished

Spec == Init /\ [][Next]_vars

\* The scheduler runs every task; nothing is assumed of the processes.
FairSpec == Spec /\ \A h \in Handlers : WF_vars(Step(h))

-----------------------------------------------------------------------------
(* Properties.                                                             *)

\* Every variable keeps its type; a call owns a process exactly between its
\* spawn and the insertion, or between the removal and the kill.
TypeOK ==
  /\ status \in [Processes -> {"none", "booting", "up", "dead"}]
  /\ home \in [Processes -> Ids]
  /\ annots \in [Processes -> Nat]
  /\ dir \in [Ids -> BOOLEAN]
  /\ socket \in [Ids -> 0 .. MaxCalls]
  /\ sandbox \in [Ids -> [child : 0 .. MaxCalls, client : 0 .. MaxCalls]]
  /\ notes \in [Functions -> [known : BOOLEAN, clean : BOOLEAN, count : Nat, deleted : BOOLEAN]]
  /\ pc \in [Handlers -> {"idle"} \cup Creating \cup Removing \cup Adding]
  /\ op \in [Handlers -> AllOps]
  /\ id \in [Handlers -> Ids]
  /\ child \in [Handlers -> 0 .. MaxCalls]
  /\ conn \in [Handlers -> 0 .. MaxCalls]
  /\ calls \in 0 .. MaxCalls
  /\ named \in [Handlers -> Functions \cup {NoFunction}]
  /\ raced \in [Ids -> BOOLEAN] /\ unnoted \subseteq Processes /\ unremoved \subseteq Ids
  /\ \A h \in Handlers :
       child[h] # 0 <=> pc[h] \in {"socket", "connect", "fetch", "insert", "kill"}

\* No Frama-C process is left behind: whatever creates, resets and deletes
\* race or fail, a live sandbox process is in the map or owned by a call.
LiveSandboxesAreOwned == \A p \in Processes : Live(p) => p \in Owned

\* A child has one owner: no call kills a process that another call, or the
\* map, still counts on.
ChildrenHaveOneOwner ==
  /\ \A i \in Ids, h \in Handlers : child[h] # 0 => sandbox[i].child # child[h]
  /\ \A g, h \in Handlers : g # h /\ child[h] # 0 => child[g] # child[h]
  /\ \A i, j \in Ids : i # j /\ Present(i) => sandbox[i].child # sandbox[j].child

\* The ceiling is checked long before the insertion, so calls in flight can
\* exceed it, but only by what every other call can have passed meanwhile.
LiveSandboxesBounded ==
  Cardinality({p \in Processes : Live(p)}) < MaxSandboxes + Cardinality(Handlers)

\* Unless calls raced on the id, a sandbox's client talks to the sandbox's own
\* process, over the socket in the sandbox's directory.
EntryIsItsOwnSandbox ==
  \A i \in Ids :
    Present(i) /\ ~raced[i] =>
      /\ sandbox[i].client = sandbox[i].child
      /\ home[sandbox[i].child] = i
      /\ dir[i] /\ socket[i] = sandbox[i].child

\* Processes, entries and directories belong together: every live process has an
\* owner and only one, and an experiment whose calls did not race is its own.
Ownership == LiveSandboxesAreOwned /\ ChildrenHaveOneOwner /\ EntryIsItsOwnSandbox

\* No other experiment shares the function of i.
SoleExperiment(i) == \A j \in Ids \ {i} : FunctionOf[j] # FunctionOf[i]
Undisturbed(i)    == ~raced[i] /\ SoleExperiment(i) /\ \A h \in Handlers : id[h] = i => pc[h] = "idle"

\* sandbox_clean is never claimed of a sandbox whose AST carries annotations,
\* once its calls have returned, unless one of its add_annotation calls got no
\* answer (it may have taken effect, and is not noted) or named another function
\* than the experiment's (it is noted of that one).
CleanMeansUnannotated ==
  \A i \in Ids :
    Present(i) /\ Undisturbed(i) /\ notes[FunctionOf[i]].clean =>
      annots[sandbox[i].client] = 0 \/ sandbox[i].client \in unnoted

\* Nothing is left of the sandbox: no entry, no live process that was started for
\* it, no directory unless its removal failed, and the conclusion says so.
Gone(i) ==
  /\ sandbox[i] = Absent
  /\ dir[i] => i \in unremoved
  /\ \A p \in Processes : home[p] = i => ~Live(p)
  /\ notes[FunctionOf[i]].deleted

\* The sandbox is a process that carries no annotation, and the conclusion says so.
Fresh(i) ==
  /\ Present(i)
  /\ annots[sandbox[i].client] = 0
  /\ notes[FunctionOf[i]] = [known |-> TRUE, clean |-> TRUE, count |-> 0, deleted |-> FALSE]

\* A delete that met no other call on the id leaves no process, no entry and, if
\* the file system lets it, no directory; a reset that succeeds ends with a fresh
\* sandbox.  Both whatever the calls before them left: old directories with old
\* sockets in them, processes that died, conclusions of other calls.
SoloCallsEndClean ==
  [][\A h \in Handlers :
       pc'[h] = "idle" /\ ~raced[id[h]] =>
         /\ op[h] = "delete" /\ pc[h] = "noteDeleted" => Gone(id[h])'
         /\ op[h] = "reset" /\ pc[h] = "noteCreated" => Fresh(id[h])']_vars

\* Every call returns, whatever processes die and steps fail.
EverySandboxCallReturns == \A h \in Handlers : pc[h] # "idle" ~> pc[h] = "idle"
=============================================================================
