---------------------------- MODULE SandboxesProofs ----------------------------
(***************************************************************************)
(* Theorems about Sandboxes, for any handlers and experiments, any ceiling *)
(* and number of calls, and whatever fails.                                *)
(***************************************************************************)
EXTENDS Sandboxes, FiniteSetTheorems, TLAPS

\* A call has a client from the connection to the insertion and while it adds,
\* an entry has both a child and a client, and each tool stays on its own steps.
ShapeInv ==
  /\ \A h \in Handlers :
       /\ conn[h] # 0 <=> pc[h] \in {"fetch", "insert", "add", "noteAdded"}
       /\ pc[h] \in Creating => op[h] \in {"create", "reset"}
       /\ pc[h] \in Removing => op[h] \in {"reset", "delete"}
       /\ pc[h] = "noteDeleted" => op[h] = "delete"
       /\ pc[h] \in Adding => op[h] = "add"
  /\ \A i \in Ids : sandbox[i].client = 0 <=> sandbox[i].child = 0

TypeInv == TypeOK /\ ShapeInv

\* A process one speaks of is one that was started, for that experiment.
StartedFor(p, i) == p # 0 => status[p] # "none" /\ home[p] = i

HomeInv ==
  /\ \A h \in Handlers : StartedFor(child[h], id[h]) /\ StartedFor(conn[h], id[h])
  /\ \A i \in Ids : /\ StartedFor(socket[i], i)
                    /\ StartedFor(sandbox[i].child, i) /\ StartedFor(sandbox[i].client, i)
  /\ \A p \in Processes : status[p] = "none" => annots[p] = 0

OwnerInv == LiveSandboxesAreOwned /\ ChildrenHaveOneOwner

On(h, i) == pc[h] # "idle" /\ id[h] = i
Booting == {"socket", "connect", "fetch", "insert"}

\* Calls on an experiment that have not raced all add, or there is but one.
Alone(i) == \A g, h \in Handlers : g # h /\ On(g, i) /\ On(h, i) => op[g] = "add"

\* What the call that creates or removes knows, as the only one there is.
Holds(h, i) ==
  /\ pc[h] \in Booting =>
       /\ ~Present(i) /\ dir[i] /\ annots[child[h]] = 0
       /\ conn[h] # 0 => conn[h] = child[h] /\ socket[i] = child[h]
  /\ pc[h] = "noteCreated" => Present(i) /\ annots[sandbox[i].client] = 0
  /\ pc[h] = "remove" => Present(i)
  /\ pc[h] \in {"kill", "rmdir", "noteDeleted"} => ~Present(i)
  /\ pc[h] = "noteDeleted" => (dir[i] => i \in unremoved)
  /\ pc[h] \in Removing => notes[FunctionOf[i]].known

\* The entry is the experiment's own sandbox.
Own(i) ==
  /\ sandbox[i].client = sandbox[i].child
  /\ dir[i] /\ socket[i] = sandbox[i].child

Solo(i) ==
  ~raced[i] =>
    /\ Alone(i)
    /\ \A h \in Handlers : On(h, i) => Holds(h, i)
    /\ Present(i) => Own(i)

SoloInv == \A i \in Ids : Solo(i)

\* A sandbox in the map is in the conclusion of its function, or about to be.
NotedInv ==
  \A i \in Ids : Present(i) =>
    notes[FunctionOf[i]].known \/ \E h \in Handlers : id[h] = i /\ pc[h] = "noteCreated"

Noting(h, i) == id[h] = i /\ pc[h] = "noteAdded"

\* An annotation that a clean sandbox carries is one whose note is on its way.
CleanInv ==
  \A i \in Ids : Present(i) /\ ~raced[i] /\ SoleExperiment(i) /\ notes[FunctionOf[i]].clean =>
    \/ annots[sandbox[i].client] = 0
    \/ sandbox[i].client \in unnoted
    \/ \E h \in Handlers : Noting(h, i) /\ conn[h] = sandbox[i].client

\* Sandboxes in the map, and calls that have passed the ceiling or removed one.
Entries == {i \in Ids : Present(i)}
Past    == {h \in Handlers : pc[h] \in {"extract", "claim", "kill"} \cup Booting}

CeilingInv ==
  /\ IsFiniteSet(Entries)
  /\ Cardinality(Entries) + Cardinality(Past) < MaxSandboxes + Cardinality(Handlers)

-----------------------------------------------------------------------------
(* The kinds of steps.                                                     *)

\* A call begins: where, and with what of the map in hand.
First(o) == CASE o = "create" -> "ceiling" [] o = "add" -> "add" [] OTHER -> "remove"

Calls(h, i) ==
  \E o \in AllOps :
    /\ Begin(h, o, i, First(o))
    /\ o # "create" => Present(i)
    /\ conn' = IF o = "add" THEN [conn EXCEPT ![h] = sandbox[i].client] ELSE conn
    /\ \E f \in Functions \cup {NoFunction} : named' \in {named, [named EXCEPT ![h] = f]}

\* A call goes on and changes nothing but where it is.
Moves(h) ==
  /\ \/ pc[h] = "ceiling" /\ BelowCeiling /\ Goto(h, "extract")
     \/ pc[h] = "extract" /\ Goto(h, "claim")
     \/ pc[h] = "socket" /\ socket[id[h]] # 0 /\ Goto(h, "connect")
     \/ pc[h] = "fetch" /\ Goto(h, "insert")
  /\ UNCHANGED <<processVars, diskVars, sandbox, notes, op, id, named, child, conn, calls, history>>

\* A creation fails.
Aborts(h) == pc[h] \in Creating \ {"insert", "noteCreated"} /\ Abort(h)

Writes(h) == Add(h) \/ AddFails(h)
Cleans(h) == RemoveDir(h) \/ RemoveDirFails(h)
Dies(p)   == Live(p) /\ status' = Killed(p) /\ UNCHANGED <<home, annots, diskVars, sandbox, notes, taskVars, calls, history>>
Binds(p)  == /\ status[p] = "booting" /\ dir[home[p]]
             /\ status' = [status EXCEPT ![p] = "up"]
             /\ socket' = [socket EXCEPT ![home[p]] = p]
             /\ UNCHANGED <<home, annots, dir, sandbox, notes, taskVars, calls, history>>

\* Every step is one of these kinds.
LEMMA StepCases ==
  ASSUME [Next]_vars
  PROVE  \/ \E h \in Handlers, i \in Ids : Calls(h, i)
         \/ \E h \in Handlers :
              \/ Moves(h) \/ Aborts(h) \/ Claim(h) \/ ClaimFails(h) \/ Connect(h)
              \/ Insert(h) \/ NoteCreated(h) \/ Remove(h) \/ Kill(h) \/ Cleans(h)
              \/ NoteDeleted(h) \/ Writes(h) \/ NoteAdded(h)
         \/ \E p \in Processes : Binds(p) \/ Dies(p)
         \/ UNCHANGED vars
<1>1. ASSUME NEW h \in Handlers, NEW i \in Ids,
             CreateCall(h, i) \/ DeleteCall(h, i) \/ ResetCall(h, i) \/ AddCall(h, i)
      PROVE  Calls(h, i)
  <2>1. First("create") = "ceiling" /\ First("add") = "add" /\ First("delete") = "remove"
        /\ First("reset") = "remove"
    BY DEF First
  <2>2. CASE CreateCall(h, i)
    BY <2>1, <2>2, Zenon DEF CreateCall, Calls, AllOps
  <2>3. CASE DeleteCall(h, i)
    BY <2>1, <2>3 DEF DeleteCall, Calls, AllOps
  <2>4. CASE ResetCall(h, i)
    BY <2>1, <2>4 DEF ResetCall, Calls, AllOps
  <2>5. CASE AddCall(h, i)
    BY <2>1, <2>5 DEF AddCall, Calls, AllOps
  <2> QED BY <1>1, <2>2, <2>3, <2>4, <2>5
<1>2. ASSUME NEW h \in Handlers, Ceiling(h) \/ Extract(h) \/ SocketReady(h) \/ Fetch(h)
      PROVE  Moves(h)
  BY <1>2 DEF Ceiling, Extract, SocketReady, Fetch, Moves
<1>3. ASSUME NEW h \in Handlers, \/ CeilingReached(h) \/ ExtractFails(h) \/ IdCollision(h)
                                 \/ SocketTimeout(h) \/ ConnectFails(h) \/ FetchFails(h)
      PROVE  Aborts(h)
  BY <1>3 DEF CeilingReached, ExtractFails, IdCollision, SocketTimeout, ConnectFails, FetchFails,
              Aborts, Creating
<1>4. ASSUME NEW p \in Processes, Boot(p) \/ Crash(p)
      PROVE  Binds(p) \/ Dies(p)
  BY <1>4 DEF Boot, Crash, Binds, Dies, Live, diskVars
<1>5. Finished => UNCHANGED vars
  BY DEF Finished
<1> QED BY <1>1, <1>2, <1>3, <1>4, <1>5 DEF Next, Step, Writes, Cleans

-----------------------------------------------------------------------------
(* Types.                                                                  *)

Labels == {"idle"} \cup Creating \cup Removing \cup Adding
Notes  == [known : BOOLEAN, clean : BOOLEAN, count : Nat, deleted : BOOLEAN]

\* What the constants are.
LEMMA ProcessFacts ==
  /\ Processes \subseteq Nat /\ 0 \notin Processes /\ NoId \in Ids
  /\ 0 .. MaxCalls = Processes \cup {0}
  /\ \A i \in Ids : FunctionOf[i] \in Functions
  BY SandboxAssumption DEF Processes, NoId, Functions

\* A handler step moves one call, and drops what it does not keep.
LEMMA TypeInit == Init => TypeInv
  BY ProcessFacts, SandboxAssumption
     DEF Init, TypeInv, TypeOK, ShapeInv, Creating, Removing, Adding, Absent, Unknown, AllOps, Functions

\* A kill makes one process dead and leaves the others alone.
LEMMA KilledFacts ==
  ASSUME TypeOK, NEW p
  PROVE  /\ Killed(p) \in [Processes -> {"none", "booting", "up", "dead"}]
         /\ \A q \in Processes : Killed(p)[q] = IF q = p THEN "dead" ELSE status[q]
  BY DEF Killed, TypeOK

\* What is noted is a note.
LEMMA NoteFacts ==
  ASSUME TypeOK, NEW f \in Functions
  PROVE  /\ notes[f] \in Notes /\ Added(notes[f]) \in Notes
         /\ [notes[f] EXCEPT !.deleted = TRUE] \in Notes
<1> DEFINE more == notes[f].count + 1
<1>1. notes[f] \in Notes
  BY DEF Notes, TypeOK
<1>2. more \in Nat
  BY <1>1 DEF Notes
<1>3. Added(notes[f]) = IF notes[f].known THEN [notes[f] EXCEPT !.clean = FALSE, !.count = more]
                                          ELSE notes[f]
  BY DEF Added
<1> HIDE DEF more
<1>4. Added(notes[f]) \in Notes
  BY <1>1, <1>2, <1>3 DEF Notes
<1>5. [notes[f] EXCEPT !.deleted = TRUE] \in Notes
  BY <1>1 DEF Notes
<1> QED BY <1>1, <1>4, <1>5

\* What a removal leaves of a socket is that socket or none.
LEMMA SocketFacts ==
  ASSUME TypeOK, NEW i \in Ids, NEW s \in SocketsLeft(i)
  PROVE  s \in 0 .. MaxCalls /\ s \in {0, socket[i]}
  BY ProcessFacts DEF TypeOK, SocketsLeft

\* Every step keeps the types.
LEMMA TypeStep == TypeInv /\ [Next]_vars => TypeInv'
<1> SUFFICES ASSUME TypeInv, [Next]_vars PROVE TypeInv'
  OBVIOUS
<1> USE ProcessFacts DEF TypeInv
<1>1. ASSUME NEW h \in Handlers, NEW i \in Ids, Calls(h, i) PROVE TypeInv'
  <2>1. PICK o \in AllOps :
          /\ Begin(h, o, i, First(o)) /\ (o # "create" => Present(i))
          /\ conn' = IF o = "add" THEN [conn EXCEPT ![h] = sandbox[i].client] ELSE conn
    BY <1>1 DEF Calls
  <2>9. named' \in [Handlers -> Functions \cup {NoFunction}]
    <3>1. PICK f \in Functions \cup {NoFunction} : named' \in {named, [named EXCEPT ![h] = f]}
      BY <1>1 DEF Calls
    <3> QED BY <3>1 DEF TypeOK
  <2>2. /\ pc[h] = "idle" /\ calls < MaxCalls /\ calls' = calls + 1
        /\ op' = [op EXCEPT ![h] = o] /\ id' = [id EXCEPT ![h] = i]
        /\ pc' = [pc EXCEPT ![h] = First(o)]
        /\ UNCHANGED <<processVars, diskVars, sandbox, notes, child, unnoted, unremoved>>
    BY <2>1 DEF Begin, Goto
  <2>3. raced' \in [Ids -> BOOLEAN]
    BY <2>1 DEF Begin, TypeOK
  <2>4. calls' \in 0 .. MaxCalls
    BY <2>2, SandboxAssumption DEF TypeOK
  <2>5. /\ First(o) \in {"ceiling", "remove", "add"}
        /\ First(o) = "ceiling" => o = "create"
        /\ First(o) = "remove" => o \in {"reset", "delete"}
        /\ First(o) = "add" <=> o = "add"
    BY DEF First, AllOps
  <2>6. /\ sandbox[i].client \in 0 .. MaxCalls
        /\ o = "add" => sandbox[i].client # 0
    BY <2>1 DEF TypeOK, ShapeInv, Present
  <2>7. TypeOK'
    BY <2>1, <2>2, <2>3, <2>4, <2>5, <2>6, <2>9
       DEF TypeOK, processVars, diskVars, Creating, Removing, Adding
  <2>8. ShapeInv'
    BY <2>1, <2>2, <2>5, <2>6
       DEF TypeOK, ShapeInv, processVars, diskVars, Creating, Removing, Adding
  <2> QED BY <2>7, <2>8
<1>2. ASSUME NEW h \in Handlers, Moves(h) PROVE TypeInv'
  <2>1. PICK l \in {"extract", "claim", "connect", "insert"} :
          /\ pc' = [pc EXCEPT ![h] = l] /\ pc[h] \in Creating
          /\ l = "connect" <=> pc[h] = "socket"
          /\ l = "insert" <=> pc[h] = "fetch"
          /\ l \in {"extract", "claim"} => pc[h] \in {"ceiling", "extract"}
    BY <1>2 DEF Moves, Goto, Creating
  <2>2. UNCHANGED <<processVars, diskVars, sandbox, notes, op, id, named, child, conn, calls, history>>
    BY <1>2 DEF Moves
  <2> QED BY <2>1, <2>2 DEF TypeOK, ShapeInv, processVars, diskVars, history, Creating, Removing, Adding
<1>3. ASSUME NEW h \in Handlers, Aborts(h) PROVE TypeInv'
  BY <1>3, KilledFacts DEF Aborts, Abort, Return, Goto, TypeOK, ShapeInv, diskVars, history, Creating, Removing, Adding
<1>4. ASSUME NEW h \in Handlers, Claim(h) PROVE TypeInv'
  <2>1. PICK p \in Processes :
        /\ status' = [status EXCEPT ![p] = "booting"]
        /\ home' = [home EXCEPT ![p] = id[h]]
        /\ child' = [child EXCEPT ![h] = p]
    BY <1>4 DEF Claim
  <2>2. socket' \in [Ids -> 0 .. MaxCalls]
    BY <1>4, SocketFacts DEF Claim, TypeOK
  <2> QED BY <1>4, <2>1, <2>2 DEF Claim, Goto, TypeOK, ShapeInv, history, Creating, Removing, Adding
<1>5. ASSUME NEW h \in Handlers, ClaimFails(h) PROVE TypeInv'
  <2>1. socket' \in [Ids -> 0 .. MaxCalls] /\ dir' \in [Ids -> BOOLEAN]
    <3>1. PICK made \in BOOLEAN, s \in SocketsLeft(id[h]) :
            /\ dir' = [dir EXCEPT ![id[h]] = made]
            /\ socket' = [socket EXCEPT ![id[h]] = IF made THEN s ELSE 0]
      BY <1>5 DEF ClaimFails
    <3> QED BY <3>1, SocketFacts DEF TypeOK
  <2>2. /\ pc[h] = "claim" /\ Return(h)
        /\ UNCHANGED <<processVars, sandbox, notes, calls, history>>
    BY <1>5 DEF ClaimFails
  <2> QED BY <2>1, <2>2 DEF Return, Goto, TypeOK, ShapeInv, processVars, history, Creating, Removing, Adding
<1>6. ASSUME NEW h \in Handlers, Connect(h) PROVE TypeInv'
  BY <1>6 DEF Connect, Serves, Up, Goto, TypeOK, ShapeInv, processVars, diskVars, history, Creating, Removing, Adding
<1>7. ASSUME NEW h \in Handlers, Insert(h) PROVE TypeInv'
  BY <1>7, KilledFacts DEF Insert, Replaced, Goto, TypeOK, ShapeInv, diskVars, history, Creating, Removing, Adding
<1>8. ASSUME NEW h \in Handlers, NoteCreated(h) PROVE TypeInv'
  BY <1>8 DEF NoteCreated, Note, Created, Return, Goto, TypeOK, ShapeInv, processVars, diskVars, history, Creating, Removing, Adding
<1>9. ASSUME NEW h \in Handlers, Remove(h) PROVE TypeInv'
  BY <1>9 DEF Remove, AfterCleanup, Absent, Present, Goto, TypeOK, ShapeInv, processVars, diskVars, history, Creating, Removing, Adding
<1>10. ASSUME NEW h \in Handlers, Kill(h) PROVE TypeInv'
  BY <1>10, KilledFacts DEF Kill, Goto, TypeOK, ShapeInv, diskVars, history, Creating, Removing, Adding
<1>11. ASSUME NEW h \in Handlers, Cleans(h) PROVE TypeInv'
  <2>1. /\ socket' \in [Ids -> 0 .. MaxCalls] /\ dir' \in [Ids -> BOOLEAN]
        /\ unremoved' \subseteq Ids
    <3>1. id[h] \in Ids
      BY DEF TypeOK
    <3>2. CASE RemoveDir(h)
      BY <3>1, <3>2 DEF RemoveDir, TypeOK
    <3>3. CASE RemoveDirFails(h)
      <4>1. PICK s \in SocketsLeft(id[h]) : socket' = [socket EXCEPT ![id[h]] = s]
        BY <3>3 DEF RemoveDirFails
      <4> QED BY <3>1, <3>3, <4>1, SocketFacts DEF RemoveDirFails, TypeOK
    <3> QED BY <1>11, <3>2, <3>3 DEF Cleans
  <2>2. /\ pc[h] = "rmdir" /\ Goto(h, AfterCleanup(h))
        /\ UNCHANGED <<processVars, sandbox, notes, op, id, named, child, conn, calls, raced, unnoted>>
    BY <1>11 DEF Cleans, RemoveDir, RemoveDirFails
  <2> QED BY <2>1, <2>2 DEF AfterCleanup, Goto, TypeOK, ShapeInv, processVars, history, Creating, Removing, Adding
<1>12. ASSUME NEW h \in Handlers, NoteDeleted(h) PROVE TypeInv'
  <2>1. FunctionOf[id[h]] \in Functions
    BY DEF TypeOK
  <2>2. notes' \in [Functions -> Notes]
    BY <1>12, <2>1, NoteFacts DEF NoteDeleted, Note, TypeOK, Notes
  <2>3. pc[h] = "noteDeleted" /\ Return(h) /\ UNCHANGED <<processVars, diskVars, sandbox, calls, history>>
    BY <1>12 DEF NoteDeleted
  <2> QED BY <2>2, <2>3 DEF Notes, Return, Goto, TypeOK, ShapeInv, processVars, diskVars, history, Creating, Removing, Adding
<1>13. ASSUME NEW h \in Handlers, Writes(h) PROVE TypeInv'
  <2>1. conn[h] \in Processes /\ annots[conn[h]] \in Nat
    BY <1>13 DEF Writes, Add, AddFails, TypeOK, ShapeInv
  <2>2. annots' \in [Processes -> Nat]
    BY <1>13, <2>1 DEF Writes, Add, AddFails, TypeOK
  <2>3. pc[h] = "add" /\ UNCHANGED <<status, home, diskVars, sandbox, notes, op, id, calls, raced>>
    BY <1>13 DEF Writes, Add, AddFails, Return, history
  <2>4. CASE Add(h)
    BY <2>2, <2>3, <2>4 DEF Add, Goto, TypeOK, ShapeInv, diskVars, history, Creating, Removing, Adding
  <2>5. CASE AddFails(h)
    <3>1. /\ pc' = [pc EXCEPT ![h] = "idle"] /\ unnoted' \subseteq Processes
          /\ child' = [child EXCEPT ![h] = 0] /\ conn' = [conn EXCEPT ![h] = 0]
          /\ named' = [named EXCEPT ![h] = NoFunction] /\ unremoved' = unremoved
      BY <2>1, <2>5 DEF AddFails, Return, Goto, TypeOK
    <3> QED BY <2>2, <2>3, <3>1 DEF TypeOK, ShapeInv, diskVars, Creating, Removing, Adding
  <2> QED BY <1>13, <2>4, <2>5 DEF Writes
<1>14. ASSUME NEW h \in Handlers, NoteAdded(h) PROVE TypeInv'
  <2>1. notes' \in [Functions -> Notes]
    BY <1>14, NoteFacts DEF NoteAdded
  <2>2. /\ pc[h] = "noteAdded" /\ Return(h)
        /\ UNCHANGED <<processVars, diskVars, sandbox, calls, raced, unremoved>>
    BY <1>14 DEF NoteAdded
  <2>3. unnoted' \subseteq Processes
    BY <1>14 DEF NoteAdded, TypeOK, ShapeInv
  <2> QED BY <2>1, <2>2, <2>3
          DEF Notes, Return, Goto, TypeOK, ShapeInv, processVars, diskVars, Creating, Removing, Adding
<1>15. ASSUME NEW p \in Processes, Binds(p) \/ Dies(p) PROVE TypeInv'
  <2>1. /\ status' \in [Processes -> {"none", "booting", "up", "dead"}]
        /\ socket' \in [Ids -> 0 .. MaxCalls]
    <3>1. CASE Binds(p)
      BY <3>1 DEF Binds, TypeOK
    <3>2. CASE Dies(p)
      BY <3>2, KilledFacts DEF Dies, TypeOK, diskVars
    <3> QED BY <1>15, <3>1, <3>2
  <2>2. UNCHANGED <<home, annots, dir, sandbox, notes, taskVars, calls, history>>
    BY <1>15 DEF Binds, Dies, diskVars
  <2> QED BY <2>1, <2>2 DEF TypeOK, ShapeInv, taskVars, history
<1>16. CASE UNCHANGED vars
  BY <1>16 DEF vars, processVars, diskVars, taskVars, history, TypeOK, ShapeInv
<1> QED BY StepCases, <1>1, <1>2, <1>3, <1>4, <1>5, <1>6, <1>7, <1>8, <1>9, <1>10, <1>11, <1>12, <1>13, <1>14, <1>15, <1>16

\* Type correctness: in particular a call owns a process exactly between its
\* spawn and the insertion, or between the removal and the kill.
THEOREM TypeCorrect == Spec => []TypeOK
<1>1. TypeInv => TypeOK
  BY DEF TypeInv
<1> QED BY <1>1, TypeInit, TypeStep, PTL DEF Spec

-----------------------------------------------------------------------------
(* Processes and experiments.                                              *)

\* A process that was started stays so, for its experiment, and only processes
\* that run get annotations.
LEMMA StartedStays ==
  ASSUME TypeInv, [Next]_vars, NEW p \in Processes
  PROVE  /\ status[p] # "none" => status'[p] # "none" /\ home'[p] = home[p]
         /\ status'[p] = "none" => status[p] = "none" /\ annots'[p] = annots[p]
<1> DEFINE Goal == /\ status[p] # "none" => status'[p] # "none" /\ home'[p] = home[p]
                   /\ status'[p] = "none" => status[p] = "none" /\ annots'[p] = annots[p]
<1> SUFFICES Goal
  OBVIOUS
<1> USE DEF TypeInv
<1>1. ASSUME UNCHANGED processVars PROVE Goal
  BY <1>1 DEF processVars
<1>2. ASSUME NEW q, status' = Killed(q), UNCHANGED <<home, annots>> PROVE Goal
  BY <1>2, KilledFacts
<1>3. ASSUME NEW h \in Handlers, NEW i \in Ids, Calls(h, i) PROVE Goal
  BY <1>1, <1>3 DEF Calls, Begin
<1>4. ASSUME NEW h \in Handlers,
             \/ Moves(h) \/ ClaimFails(h) \/ Connect(h) \/ NoteCreated(h) \/ Remove(h)
             \/ Cleans(h) \/ NoteDeleted(h) \/ NoteAdded(h)
      PROVE  Goal
  BY <1>1, <1>4 DEF Moves, ClaimFails, Connect, NoteCreated, Remove, Cleans, RemoveDir, RemoveDirFails, NoteDeleted, NoteAdded
<1>5. ASSUME NEW h \in Handlers, Aborts(h) \/ Insert(h) \/ Kill(h) PROVE Goal
  BY <1>2, <1>5 DEF Aborts, Abort, Insert, Replaced, Kill
<1>6. ASSUME NEW h \in Handlers, Claim(h) PROVE Goal
  <2>1. PICK q \in Processes :
        /\ status[q] = "none" /\ status' = [status EXCEPT ![q] = "booting"]
        /\ home' = [home EXCEPT ![q] = id[h]] /\ annots' = annots
    BY <1>6 DEF Claim
  <2> QED BY <2>1 DEF TypeOK
<1>7. ASSUME NEW h \in Handlers, Writes(h) PROVE Goal
  BY <1>7 DEF Writes, Add, AddFails, Up, TypeOK
<1>8. ASSUME NEW q \in Processes, Binds(q) \/ Dies(q) PROVE Goal
  BY <1>2, <1>8 DEF Binds, Dies, TypeOK
<1>9. CASE UNCHANGED vars
  BY <1>1, <1>9 DEF vars
<1> QED BY StepCases, <1>3, <1>4, <1>5, <1>6, <1>7, <1>8, <1>9

\* No process has been started at first.
LEMMA HomeInit == Init => HomeInv
  BY ProcessFacts DEF Init, HomeInv, StartedFor, Absent

\* A process keeps the home it was started in.
LEMMA HomeStep == TypeInv /\ HomeInv /\ [Next]_vars => HomeInv'
<1> SUFFICES ASSUME TypeInv, HomeInv, [Next]_vars PROVE HomeInv'
  OBVIOUS
<1>1. \A p \in Processes : status[p] # "none" => status'[p] # "none" /\ home'[p] = home[p]
  BY StartedStays
<1>2. /\ \A h \in Handlers : child[h] \in Processes \cup {0} /\ conn[h] \in Processes \cup {0}
      /\ \A i \in Ids : /\ sandbox[i].child \in Processes \cup {0} /\ socket[i] \in Processes \cup {0}
                        /\ sandbox[i].client \in Processes \cup {0}
  BY ProcessFacts DEF TypeInv, TypeOK
<1>3. \A p \in Processes : status'[p] = "none" => annots'[p] = 0
  BY StartedStays DEF HomeInv
\* What a call has in hand afterwards it had before, or took from the map or the
\* directory of its experiment, or has just started.
<1>4. \A h \in Handlers : StartedFor(child[h], id[h])' /\ StartedFor(conn[h], id[h])'
  <2> USE DEF TypeInv, TypeOK
  <2>1. ASSUME NEW g \in Handlers, NEW i \in Ids, Calls(g, i), NEW h \in Handlers
        PROVE  StartedFor(child[h], id[h])' /\ StartedFor(conn[h], id[h])'
    <3>1. /\ pc[g] = "idle" /\ id' = [id EXCEPT ![g] = i] /\ child' = child
          /\ conn' = conn \/ conn' = [conn EXCEPT ![g] = sandbox[i].client]
      BY <2>1 DEF Calls, Begin
    <3>2. child[g] = 0 /\ conn[g] = 0
      BY <3>1 DEF ShapeInv
    <3> QED BY <1>1, <1>2, <3>1, <3>2 DEF HomeInv, StartedFor
  <2>2. ASSUME NEW g \in Handlers, Claim(g), NEW h \in Handlers
        PROVE  StartedFor(child[h], id[h])' /\ StartedFor(conn[h], id[h])'
    <3>1. PICK q \in Processes :
          /\ status' = [status EXCEPT ![q] = "booting"] /\ home' = [home EXCEPT ![q] = id[g]]
          /\ child' = [child EXCEPT ![g] = q] /\ UNCHANGED <<id, conn>>
      BY <2>2 DEF Claim
    <3>2. StartedFor(q, id[g])'
      BY <3>1 DEF StartedFor
    <3> QED BY <1>1, <1>2, <3>1, <3>2 DEF HomeInv, StartedFor
  <2>3. ASSUME NEW g \in Handlers,
               \/ Moves(g) \/ Aborts(g) \/ ClaimFails(g) \/ Connect(g) \/ Insert(g)
               \/ NoteCreated(g) \/ Remove(g) \/ Kill(g) \/ Cleans(g) \/ NoteDeleted(g)
               \/ Writes(g) \/ NoteAdded(g),
               NEW h \in Handlers
        PROVE  StartedFor(child[h], id[h])' /\ StartedFor(conn[h], id[h])'
    <3>1. id' = id
      BY <2>3 DEF Moves, Aborts, Abort, Return, ClaimFails, Connect, Insert, NoteCreated, Remove, Kill,
                  Cleans, RemoveDir, RemoveDirFails, NoteDeleted, Writes, Add, AddFails, NoteAdded
    <3>2. child'[h] \in {0, child[h], sandbox[id[h]].child} /\ conn'[h] \in {0, conn[h], socket[id[h]]}
      BY <2>3 DEF Moves, Aborts, Abort, Return, ClaimFails, Connect, Insert, NoteCreated, Remove, Kill,
                  Cleans, RemoveDir, RemoveDirFails, NoteDeleted, Writes, Add, AddFails, NoteAdded
    <3> QED BY <1>1, <1>2, <3>1, <3>2 DEF HomeInv, StartedFor
  <2>4. ASSUME UNCHANGED taskVars, NEW h \in Handlers
        PROVE  StartedFor(child[h], id[h])' /\ StartedFor(conn[h], id[h])'
    BY <1>1, <1>2, <2>4 DEF taskVars, HomeInv, StartedFor
  <2>5. \/ UNCHANGED taskVars
        \/ \E g \in Handlers :
             \/ \E i \in Ids : Calls(g, i)
             \/ Claim(g)
             \/ Moves(g) \/ Aborts(g) \/ ClaimFails(g) \/ Connect(g) \/ Insert(g)
             \/ NoteCreated(g) \/ Remove(g) \/ Kill(g) \/ Cleans(g) \/ NoteDeleted(g)
             \/ Writes(g) \/ NoteAdded(g)
    BY StepCases DEF Binds, Dies, vars
  <2> QED BY <2>1, <2>2, <2>3, <2>4, <2>5
\* The same for directories and entries.
<1>5. \A i \in Ids : /\ StartedFor(socket[i], i)'
                     /\ StartedFor(sandbox[i].child, i)' /\ StartedFor(sandbox[i].client, i)'
  <2> USE DEF TypeInv, TypeOK
  <2>1. ASSUME NEW g \in Handlers, Insert(g), NEW i \in Ids
        PROVE  /\ StartedFor(socket[i], i)'
               /\ StartedFor(sandbox[i].child, i)' /\ StartedFor(sandbox[i].client, i)'
    <3>1. sandbox' = [sandbox EXCEPT ![id[g]] = [child |-> child[g], client |-> conn[g]]] /\ socket' = socket
      BY <2>1 DEF Insert, diskVars
    <3>2. sandbox'[i] \in {sandbox[i], [child |-> child[g], client |-> conn[g]]}
          /\ (id[g] # i => sandbox'[i] = sandbox[i])
      BY <3>1
    <3> QED BY <1>1, <1>2, <3>1, <3>2 DEF HomeInv, StartedFor
  <2>2. ASSUME NEW p \in Processes, Binds(p), NEW i \in Ids
        PROVE  /\ StartedFor(socket[i], i)'
               /\ StartedFor(sandbox[i].child, i)' /\ StartedFor(sandbox[i].client, i)'
    <3>1. socket' = [socket EXCEPT ![home[p]] = p] /\ sandbox' = sandbox /\ status[p] = "booting"
      BY <2>2 DEF Binds
    <3> QED BY <1>1, <1>2, <3>1 DEF HomeInv, StartedFor
  <2>3. ASSUME \A i \in Ids : socket'[i] \in {0, socket[i]} /\ sandbox'[i] \in {Absent, sandbox[i]},
               NEW i \in Ids
        PROVE  /\ StartedFor(socket[i], i)'
               /\ StartedFor(sandbox[i].child, i)' /\ StartedFor(sandbox[i].client, i)'
    <3>1. sandbox'[i] = sandbox[i] \/ (sandbox'[i].child = 0 /\ sandbox'[i].client = 0)
      BY <2>3 DEF Absent
    <3>2. socket'[i] = socket[i] \/ socket'[i] = 0
      BY <2>3
    <3> QED BY <1>1, <1>2, <3>1, <3>2 DEF HomeInv, StartedFor
  <2>4. \/ \A i \in Ids : socket'[i] \in {0, socket[i]} /\ sandbox'[i] \in {Absent, sandbox[i]}
        \/ \E g \in Handlers : Insert(g)
        \/ \E p \in Processes : Binds(p)
    <3>1. ASSUME NEW g \in Handlers,
                 \/ \E i \in Ids : Calls(g, i)
                 \/ Moves(g) \/ Aborts(g) \/ Connect(g) \/ NoteCreated(g) \/ Kill(g)
                 \/ NoteDeleted(g) \/ Writes(g) \/ NoteAdded(g)
          PROVE  UNCHANGED <<socket, sandbox>>
      BY <3>1 DEF Calls, Begin, Moves, Aborts, Abort, Connect, NoteCreated, Kill, NoteDeleted,
                  Writes, Add, AddFails, NoteAdded, diskVars
    <3>2. ASSUME NEW g \in Handlers, Claim(g) \/ ClaimFails(g) \/ Cleans(g)
          PROVE  /\ \E s \in {0, socket[id[g]]} : socket' = [socket EXCEPT ![id[g]] = s]
                 /\ sandbox' = sandbox
      BY <3>2 DEF Claim, ClaimFails, SocketsLeft, Cleans, RemoveDir, RemoveDirFails
    <3>3. ASSUME NEW g \in Handlers, Remove(g)
          PROVE  sandbox' = [sandbox EXCEPT ![id[g]] = Absent] /\ socket' = socket
      BY <3>3 DEF Remove, diskVars
    <3>4. ASSUME NEW p \in Processes, Dies(p) PROVE UNCHANGED <<socket, sandbox>>
      BY <3>4 DEF Dies, diskVars
    <3>5. CASE UNCHANGED vars
      BY <3>5 DEF vars, diskVars
    <3> QED BY StepCases, <3>1, <3>2, <3>3, <3>4, <3>5
  <2> QED BY <2>1, <2>2, <2>3, <2>4
<1> QED BY <1>3, <1>4, <1>5 DEF HomeInv

-----------------------------------------------------------------------------
(* Owners.                                                                 *)

\* No process is live at first.
LEMMA OwnerInit == Init => OwnerInv
  BY ProcessFacts DEF Init, OwnerInv, LiveSandboxesAreOwned, ChildrenHaveOneOwner, Live, Present, Absent

\* A live process is in the table or in the hands of one call, never of two.
LEMMA OwnerStep == TypeInv /\ HomeInv /\ OwnerInv /\ [Next]_vars => OwnerInv'
<1> SUFFICES ASSUME TypeInv, HomeInv, OwnerInv, [Next]_vars PROVE OwnerInv'
  OBVIOUS
<1> USE DEF TypeInv
<1>0. /\ child \in [Handlers -> 0 .. MaxCalls] /\ id \in [Handlers -> Ids]
      /\ sandbox \in [Ids -> [child : 0 .. MaxCalls, client : 0 .. MaxCalls]]
      /\ status \in [Processes -> {"none", "booting", "up", "dead"}]
      /\ 0 .. MaxCalls = Processes \cup {0} /\ 0 \notin Processes
      /\ \A h \in Handlers : child[h] # 0 <=> pc[h] \in {"socket", "connect", "fetch", "insert", "kill"}
  BY ProcessFacts DEF TypeOK
<1> USE DEF OwnerInv, LiveSandboxesAreOwned, ChildrenHaveOneOwner, Owned, Present
\* Owners stay, and no process comes to life.
<1>1. ASSUME UNCHANGED <<child, sandbox>>, \A p \in Processes : Live(p)' => Live(p)
      PROVE  OwnerInv'
  BY <1>1
<1>2. ASSUME NEW h \in Handlers,
             \/ \E i \in Ids : Calls(h, i)
             \/ Moves(h) \/ Connect(h) \/ Cleans(h) \/ Add(h)
      PROVE  OwnerInv'
  <2>1. UNCHANGED <<child, sandbox, status>>
    BY <1>2 DEF Calls, Begin, Moves, Connect, Cleans, RemoveDir, RemoveDirFails, Add, processVars
  <2> QED BY <1>1, <2>1 DEF Live
\* A call that has no child returns.
<1>3. ASSUME NEW h \in Handlers,
             ClaimFails(h) \/ NoteCreated(h) \/ NoteDeleted(h) \/ AddFails(h) \/ NoteAdded(h)
      PROVE  OwnerInv'
  <2>1. /\ pc[h] \in {"claim", "noteCreated", "noteDeleted", "add", "noteAdded"}
        /\ child' = [child EXCEPT ![h] = 0] /\ UNCHANGED <<sandbox, status>>
    BY <1>3 DEF ClaimFails, NoteCreated, NoteDeleted, AddFails, NoteAdded, Return, processVars
  <2>2. child' = child
    BY <1>0, <2>1
  <2> QED BY <1>1, <2>1, <2>2 DEF Live
\* A call kills the child it owns.
<1>4. ASSUME NEW h \in Handlers, Aborts(h) \/ Kill(h) PROVE OwnerInv'
  <2>1. status' = Killed(child[h]) /\ child' = [child EXCEPT ![h] = 0] /\ sandbox' = sandbox
    BY <1>4 DEF Aborts, Abort, Return, Kill
  <2>2. \A p \in Processes : Live(p)' => Live(p) /\ p # child[h]
    BY <2>1, KilledFacts DEF Live
  <2> QED BY <1>0, <2>1, <2>2
\* A process that was never started has no owner yet.
<1>5. ASSUME NEW h \in Handlers, Claim(h) PROVE OwnerInv'
  <2>1. PICK q \in Processes :
        /\ status[q] = "none" /\ status' = [status EXCEPT ![q] = "booting"]
        /\ child' = [child EXCEPT ![h] = q] /\ sandbox' = sandbox /\ pc[h] = "claim"
    BY <1>5 DEF Claim
  <2>2. (\A g \in Handlers : child[g] # q) /\ (\A i \in Ids : sandbox[i].child # q)
    BY <1>0, <2>1 DEF HomeInv, StartedFor
  <2>3. child[h] = 0
    BY <1>0, <2>1
  <2>4. \A p \in Processes : Live(p)' => Live(p) \/ p = q
    BY <1>0, <2>1 DEF Live
  <2> QED BY <1>0, <2>1, <2>2, <2>3, <2>4
\* The child goes into the map; the one it replaces is killed.
<1>6. ASSUME NEW h \in Handlers, Insert(h) PROVE OwnerInv'
  <2>1. /\ status' = Killed(sandbox[id[h]].child) /\ child' = [child EXCEPT ![h] = 0]
        /\ sandbox' = [sandbox EXCEPT ![id[h]] = [child |-> child[h], client |-> conn[h]]]
        /\ child[h] # 0
    BY <1>0, <1>6 DEF Insert, Replaced
  <2>2. \A p \in Processes : Live(p)' => Live(p) /\ p # sandbox[id[h]].child
    BY <2>1, KilledFacts DEF Live
  <2>3. \A i \in Ids : sandbox'[i].child = IF i = id[h] THEN child[h] ELSE sandbox[i].child
    BY <1>0, <2>1
  <2>4. \A g \in Handlers : child'[g] = IF g = h THEN 0 ELSE child[g]
    BY <1>0, <2>1
  <2>5. LiveSandboxesAreOwned'
    <3> SUFFICES ASSUME NEW p \in Processes, Live(p)'
                 PROVE  (\E i \in Ids : sandbox'[i].child = p) \/ (\E g \in Handlers : child'[g] = p)
      OBVIOUS
    <3>1. PICK i \in Ids, g \in Handlers : sandbox[i].child = p \/ child[g] = p
      BY <2>2, SandboxAssumption
    <3>2. i # id[h] \/ sandbox[i].child # p
      BY <2>2
    <3>3. CASE sandbox[i].child = p
      BY <2>3, <3>2, <3>3
    <3>4. CASE child[g] = p /\ g # h
      BY <2>4, <3>4
    <3>5. CASE child[g] = p /\ g = h
      BY <1>0, <2>3, <3>5
    <3> QED BY <3>1, <3>3, <3>4, <3>5
  <2>6. ChildrenHaveOneOwner'
    BY <1>0, <2>1, <2>3, <2>4
  <2> QED BY <2>5, <2>6
\* The child comes out of the map.
<1>7. ASSUME NEW h \in Handlers, Remove(h) PROVE OwnerInv'
  <2>1. /\ child' = [child EXCEPT ![h] = sandbox[id[h]].child] /\ child[h] = 0
        /\ sandbox' = [sandbox EXCEPT ![id[h]] = Absent] /\ status' = status
    BY <1>0, <1>7 DEF Remove, processVars
  <2>2. \A i \in Ids : sandbox'[i].child = IF i = id[h] THEN 0 ELSE sandbox[i].child
    BY <1>0, <2>1 DEF Absent
  <2>3. \A g \in Handlers : child'[g] = IF g = h THEN sandbox[id[h]].child ELSE child[g]
    BY <1>0, <2>1
  <2>4. LiveSandboxesAreOwned'
    BY <1>0, <2>1, <2>2, <2>3 DEF Live
  <2>5. ChildrenHaveOneOwner'
    BY <1>0, <2>1, <2>2, <2>3
  <2> QED BY <2>4, <2>5
<1>8. ASSUME NEW p \in Processes, Binds(p) \/ Dies(p) PROVE OwnerInv'
  <2>1. UNCHANGED <<child, sandbox>>
    BY <1>8 DEF Binds, Dies, taskVars
  <2>2. \A q \in Processes : Live(q)' => Live(q)
    <3>1. CASE Binds(p)
      BY <1>0, <3>1 DEF Binds, Live
    <3>2. CASE Dies(p)
      BY <3>2, KilledFacts DEF Dies, Live
    <3> QED BY <1>8, <3>1, <3>2
  <2> QED BY <1>1, <2>1, <2>2
<1>9. CASE UNCHANGED vars
  BY <1>1, <1>9 DEF vars, taskVars, processVars, Live
<1> QED BY StepCases, <1>2, <1>3, <1>4, <1>5, <1>6, <1>7, <1>8, <1>9 DEF Writes

-----------------------------------------------------------------------------
(* Conclusions.                                                            *)

\* What is known of a function stays known.
LEMMA KnownStays ==
  ASSUME TypeInv, [Next]_vars, NEW f \in Functions, notes[f].known
  PROVE  notes'[f].known
<1> DEFINE Goal == notes'[f].known
<1> SUFFICES Goal
  OBVIOUS
<1> USE DEF TypeInv
<1>1. notes \in [Functions -> Notes] /\ notes[f] \in Notes
  BY NoteFacts DEF TypeOK, Notes
<1>2. CASE UNCHANGED notes
  BY <1>2
<1>3. ASSUME NEW h \in Handlers, NoteCreated(h) \/ NoteDeleted(h) PROVE Goal
  <2> DEFINE g == FunctionOf[id[h]]
  <2>1. g \in Functions
    BY ProcessFacts DEF TypeOK
  <2>2. \E n \in Notes : notes' = [notes EXCEPT ![g] = n] /\ (notes[g].known => n.known)
    <3>1. CASE NoteCreated(h)
      <4>1. Created(notes[g]) \in Notes /\ Created(notes[g]).known
        BY DEF Created, Notes
      <4> QED BY <3>1, <4>1 DEF NoteCreated, Note
    <3>2. CASE NoteDeleted(h)
      BY <2>1, <3>2, NoteFacts DEF NoteDeleted, Note, Notes
    <3> QED BY <1>3, <3>1, <3>2
  <2> HIDE DEF g
  <2> QED BY <1>1, <2>1, <2>2
<1>7. ASSUME NEW h \in Handlers, NoteAdded(h) PROVE Goal
  <2>1. notes'[f] \in {notes[f], Added(notes[f])}
    BY <1>7 DEF NoteAdded
  <2>2. Added(notes[f]).known = notes[f].known
    BY <1>1 DEF Added, Notes
  <2> QED BY <2>1, <2>2
<1>4. ASSUME NEW h \in Handlers,
             \/ \E i \in Ids : Calls(h, i)
             \/ Moves(h) \/ Aborts(h) \/ Claim(h) \/ ClaimFails(h) \/ Connect(h) \/ Insert(h)
             \/ Remove(h) \/ Kill(h) \/ Cleans(h) \/ Writes(h)
      PROVE  UNCHANGED notes
  BY <1>4 DEF Calls, Begin, Moves, Aborts, Abort, Claim, ClaimFails, Connect, Insert, Remove, Kill,
              Cleans, RemoveDir, RemoveDirFails, Writes, Add, AddFails
<1>5. ASSUME NEW p \in Processes, Binds(p) \/ Dies(p) PROVE UNCHANGED notes
  BY <1>5 DEF Binds, Dies
<1>6. CASE UNCHANGED vars
  BY <1>2, <1>6 DEF vars
<1> QED BY StepCases, <1>2, <1>3, <1>4, <1>5, <1>6, <1>7

\* There is no sandbox to know of at first.
LEMMA NotedInit == Init => NotedInv
  BY DEF Init, NotedInv, Present, Absent

\* A sandbox is in the table only once its function is noted, or about to be.
LEMMA NotedStep == TypeInv /\ NotedInv /\ [Next]_vars => NotedInv'
<1> SUFFICES ASSUME TypeInv, NotedInv, [Next]_vars, NEW i \in Ids, Present(i)'
             PROVE  notes'[FunctionOf[i]].known \/ \E h \in Handlers : id'[h] = i /\ pc'[h] = "noteCreated"
  BY DEF NotedInv
<1> DEFINE Goal == notes'[FunctionOf[i]].known \/ \E h \in Handlers : id'[h] = i /\ pc'[h] = "noteCreated"
<1> USE DEF TypeInv
<1>0. pc \in [Handlers -> Labels] /\ id \in [Handlers -> Ids]
  BY DEF TypeOK, Labels
<1>1. notes[FunctionOf[i]].known => Goal
  BY KnownStays, ProcessFacts
<1>2. CASE Present(i) /\ \A h \in Handlers : pc[h] = "noteCreated" => pc'[h] = "noteCreated" /\ id'[h] = id[h]
  BY <1>1, <1>2 DEF NotedInv
<1>3. ASSUME NEW h \in Handlers, pc[h] # "noteCreated", NEW l, pc' = [pc EXCEPT ![h] = l],
             \A g \in Handlers : g # h => id'[g] = id[g], Present(i)
      PROVE  Goal
  BY <1>0, <1>2, <1>3
<1>4. ASSUME NEW h \in Handlers, NEW j \in Ids, Calls(h, j) PROVE Goal
  <2>1. pc[h] = "idle" /\ sandbox' = sandbox /\ id' = [id EXCEPT ![h] = j]
        /\ \E l : pc' = [pc EXCEPT ![h] = l]
    BY <1>4 DEF Calls, Begin, Goto
  <2>2. Present(i) /\ \A g \in Handlers : g # h => id'[g] = id[g]
    BY <1>0, <2>1 DEF Present
  <2> QED BY <1>3, <2>1, <2>2
<1>5. ASSUME NEW h \in Handlers,
             \/ Moves(h) \/ Aborts(h) \/ Claim(h) \/ ClaimFails(h) \/ Connect(h)
             \/ Kill(h) \/ Cleans(h) \/ NoteDeleted(h) \/ Writes(h) \/ NoteAdded(h)
      PROVE  Goal
  <2>1. pc[h] # "noteCreated" /\ sandbox' = sandbox /\ id' = id /\ \E l : pc' = [pc EXCEPT ![h] = l]
    BY <1>5 DEF Moves, Aborts, Abort, Return, Claim, ClaimFails, Connect, Kill, Cleans, RemoveDir, RemoveDirFails, NoteDeleted,
                Writes, Add, AddFails, NoteAdded, Goto
  <2>2. Present(i)
    BY <2>1 DEF Present
  <2> QED BY <1>3, <2>1, <2>2
<1>6. ASSUME NEW h \in Handlers, Remove(h) PROVE Goal
  <2>1. pc[h] = "remove" /\ id' = id /\ \E l : pc' = [pc EXCEPT ![h] = l]
    BY <1>6 DEF Remove, Goto
  <2>2. Present(i)
    BY <1>6 DEF Remove, Present, Absent, TypeOK
  <2> QED BY <1>3, <2>1, <2>2
<1>7. ASSUME NEW h \in Handlers, Insert(h) PROVE Goal
  <2>1. /\ pc' = [pc EXCEPT ![h] = "noteCreated"] /\ id' = id /\ pc[h] = "insert"
        /\ sandbox' = [sandbox EXCEPT ![id[h]] = [child |-> child[h], client |-> conn[h]]]
    BY <1>7 DEF Insert, Goto
  <2>2. CASE id[h] = i
    BY <1>0, <2>1, <2>2
  <2>3. CASE id[h] # i
    BY <1>3, <2>1, <2>3 DEF Present, TypeOK
  <2> QED BY <2>2, <2>3
<1>8. ASSUME NEW h \in Handlers, NoteCreated(h) PROVE Goal
  <2>1. /\ notes' = [notes EXCEPT ![FunctionOf[id[h]]] = Created(notes[FunctionOf[id[h]]])]
        /\ pc' = [pc EXCEPT ![h] = "idle"] /\ id' = id /\ sandbox' = sandbox
    BY <1>8 DEF NoteCreated, Note, Return, Goto
  <2>2. CASE id[h] = i
    BY <2>1, <2>2, ProcessFacts DEF Created, TypeOK
  <2>3. CASE id[h] # i
    BY <1>0, <1>1, <2>1, <2>3 DEF NotedInv, Present
  <2> QED BY <2>2, <2>3
<1>9. ASSUME NEW p \in Processes, Binds(p) \/ Dies(p) PROVE Goal
  BY <1>2, <1>9 DEF Binds, Dies, taskVars, Present
<1>10. CASE UNCHANGED vars
  BY <1>2, <1>10 DEF vars, taskVars, Present
<1> QED BY StepCases, <1>4, <1>5, <1>6, <1>7, <1>8, <1>9, <1>10

-----------------------------------------------------------------------------
(* Experiments whose calls do not race.                                    *)

\* No call is under way at first.
LEMMA SoloInit == Init => SoloInv
  BY DEF Init, SoloInv, Solo, Alone, On, Present, Absent

\* Nothing an experiment's calls rely on changes with a step of another one's.
LEMMA SoloFrame ==
  ASSUME TypeInv, HomeInv, [Next]_vars, NEW i \in Ids, Solo(i),
         \A h \in Handlers : On(h, i)' <=> On(h, i),
         \A h \in Handlers : On(h, i) => /\ pc'[h] = pc[h] /\ op'[h] = op[h]
                                         /\ child'[h] = child[h] /\ conn'[h] = conn[h],
         sandbox'[i] = sandbox[i], dir'[i] = dir[i], socket'[i] = socket[i], raced'[i] = raced[i],
         i \in unremoved => i \in unremoved',
         \A p \in Processes : StartedFor(p, i) => annots'[p] = annots[p]
  PROVE  Solo(i)'
<1>1. Alone(i) => Alone(i)'
  BY DEF Alone
<1>2. Present(i)' <=> Present(i)
  BY DEF Present
<1>3. Own(i) => Own(i)'
  BY DEF Own
<1>4. ASSUME NEW h \in Handlers, On(h, i), Holds(h, i) PROVE Holds(h, i)'
  <2>1. pc[h] \in Booting => annots'[child[h]] = annots[child[h]]
    BY <1>4, ProcessFacts DEF On, HomeInv, TypeInv, TypeOK, Booting
  <2>2. Present(i) => annots'[sandbox[i].client] = annots[sandbox[i].client]
    BY ProcessFacts DEF HomeInv, TypeInv, TypeOK, ShapeInv, Present
  <2>3. notes[FunctionOf[i]].known => notes'[FunctionOf[i]].known
    BY KnownStays, ProcessFacts
  <2> QED BY <1>2, <1>4, <2>1, <2>2, <2>3 DEF Holds
<1> QED BY <1>1, <1>2, <1>3, <1>4 DEF Solo

\* A step of a call only touches its own experiment.
LEMMA CallFrame ==
  ASSUME TypeInv, HomeInv, SoloInv, [Next]_vars, NEW g \in Handlers, NEW j \in Ids,
         pc[g] = "idle" \/ id[g] = j, id'[g] = j,
         \A h \in Handlers : h # g => /\ pc'[h] = pc[h] /\ op'[h] = op[h] /\ id'[h] = id[h]
                                      /\ child'[h] = child[h] /\ conn'[h] = conn[h],
         \A i \in Ids : i # j => /\ sandbox'[i] = sandbox[i] /\ dir'[i] = dir[i]
                                 /\ socket'[i] = socket[i] /\ raced'[i] = raced[i]
                                 /\ i \in unremoved => i \in unremoved',
         \A p \in Processes : status[p] # "none" /\ home[p] # j => annots'[p] = annots[p],
         Solo(j)'
  PROVE  SoloInv'
<1> SUFFICES ASSUME NEW i \in Ids, i # j PROVE Solo(i)'
  BY DEF SoloInv
<1>1. \A h \in Handlers : On(h, i)' <=> On(h, i)
  BY DEF On
<1>2. \A h \in Handlers : On(h, i) => /\ pc'[h] = pc[h] /\ op'[h] = op[h]
                                      /\ child'[h] = child[h] /\ conn'[h] = conn[h]
  BY DEF On
<1>3. \A p \in Processes : StartedFor(p, i) => annots'[p] = annots[p]
  BY ProcessFacts DEF StartedFor
<1> QED BY <1>1, <1>2, <1>3, SoloFrame DEF SoloInv

\* A call that begins on an experiment without racing finds it as the calls
\* before it have left it.
LEMMA SoloCalls ==
  ASSUME TypeInv, HomeInv, SoloInv, NotedInv, [Next]_vars,
         NEW g \in Handlers, NEW j \in Ids, Calls(g, j)
  PROVE  SoloInv'
<1> DEFINE overlap == {h \in Handlers : pc[h] # "idle" /\ id[h] = j}
<1>1. PICK o \in AllOps : Begin(g, o, j, First(o)) /\ (o # "create" => Present(j))
  BY DEF Calls
<1>2. /\ pc[g] = "idle" /\ op' = [op EXCEPT ![g] = o] /\ id' = [id EXCEPT ![g] = j]
      /\ pc' = [pc EXCEPT ![g] = First(o)]
      /\ UNCHANGED <<status, home, annots, dir, socket, sandbox, notes, child, unremoved>>
  BY <1>1 DEF Begin, Goto, processVars, diskVars
<1>3. /\ \A i \in Ids : i # j => raced'[i] = raced[i]
      /\ ~raced'[j] => /\ \A h \in overlap : op[h] = "add" /\ o = "add"
                       /\ Present(j) \/ overlap # {} => ~raced[j]
  <2>1. raced' = [raced EXCEPT ![j] =
            IF \E h \in overlap : {o, op[h]} # {"add"} THEN TRUE
            ELSE IF overlap = {} /\ ~Present(j) THEN FALSE ELSE @]
    BY <1>1 DEF Begin
  <2>2. raced \in [Ids -> BOOLEAN]
    BY DEF TypeInv, TypeOK
  <2>3. \A i \in Ids : i # j => raced'[i] = raced[i]
    BY <2>1, <2>2
  <2>4. raced'[j] = IF \E h \in overlap : {o, op[h]} # {"add"} THEN TRUE
                    ELSE IF overlap = {} /\ ~Present(j) THEN FALSE ELSE raced[j]
    BY <2>1, <2>2
  <2>5. ASSUME ~raced'[j], NEW h \in overlap PROVE op[h] = "add" /\ o = "add"
    BY <2>4, <2>5
  <2> QED BY <2>3, <2>4, <2>5
<1>4. \A h \in Handlers : h # g => /\ pc'[h] = pc[h] /\ op'[h] = op[h] /\ id'[h] = id[h]
                                   /\ child'[h] = child[h] /\ conn'[h] = conn[h]
  BY <1>2 DEF Calls, TypeInv, TypeOK
<1>5. pc'[g] = First(o) /\ op'[g] = o /\ id'[g] = j
  BY <1>2 DEF TypeInv, TypeOK
<1>6. ASSUME ~raced'[j] PROVE Alone(j)' /\ (Present(j)' => Own(j)')
  <2>1. \A h \in Handlers : h # g /\ On(h, j)' => h \in overlap
    BY <1>4 DEF On
  <2>2. Alone(j)'
    BY <1>3, <1>4, <1>5, <1>6, <2>1 DEF Alone
  <2>3. Present(j)' => ~raced[j] /\ Present(j)
    BY <1>2, <1>3, <1>6 DEF Present
  <2> QED BY <1>2, <2>2, <2>3 DEF SoloInv, Solo, Own
<1>7. ASSUME ~raced'[j], NEW h \in Handlers, On(h, j)' PROVE Holds(h, j)'
  <2>1. CASE h = g
    <3>1. CASE o \in {"create", "add"}
      BY <1>5, <2>1, <3>1 DEF Holds, First, Booting, Removing
    <3>2. CASE o \in {"delete", "reset"}
      <4>1. pc'[h] = "remove" /\ Present(j)
        BY <1>1, <1>5, <2>1, <3>2 DEF First
      <4>2. \A k \in Handlers : ~(id[k] = j /\ pc[k] = "noteCreated")
        BY <1>3, <1>7, <3>2
      <4>3. notes[FunctionOf[j]].known
        BY <4>1, <4>2 DEF NotedInv
      <4> QED BY <1>2, <4>1, <4>3 DEF Holds, Booting, Present
    <3> QED BY <3>1, <3>2 DEF AllOps
  <2>2. CASE h # g
    <3>1. op[h] = "add" /\ pc[h] # "idle" /\ pc'[h] = pc[h]
      BY <1>3, <1>4, <1>7, <2>2 DEF On
    <3>2. pc[h] \in Adding
      BY <3>1 DEF TypeInv, TypeOK, ShapeInv
    <3> QED BY <3>1, <3>2 DEF Holds, Adding, Booting, Removing
  <2> QED BY <2>1, <2>2
<1>8. Solo(j)'
  BY <1>6, <1>7 DEF Solo
<1> QED BY <1>2, <1>3, <1>4, <1>5, <1>8, CallFrame

\* A call that creates or removes is alone on its experiment.
LEMMA SoloAlone ==
  ASSUME SoloInv, NEW g \in Handlers, NEW j \in Ids, On(g, j), ~raced[j], op[g] # "add",
         id' = id, \A h \in Handlers : h # g => pc'[h] = pc[h],
         On(g, j)' => Holds(g, j)', Present(j)' => Own(j)'
  PROVE  Solo(j)'
<1>1. \A h \in Handlers : h # g => ~On(h, j)
  BY DEF SoloInv, Solo, Alone
<1>2. \A h \in Handlers : On(h, j)' => h = g
  BY <1>1 DEF On
<1> QED BY <1>2 DEF Solo, Alone

\* The only live process of an experiment without an entry is that of the call
\* that creates it.
LEMMA SoloLive ==
  ASSUME TypeInv, HomeInv, OwnerInv, SoloInv, NEW g \in Handlers, NEW j \in Ids,
         On(g, j), ~raced[j], op[g] # "add", ~Present(j), socket[j] # 0, Live(socket[j])
  PROVE  socket[j] = child[g]
<1> PICK p \in Processes : p = socket[j]
  BY ProcessFacts DEF TypeInv, TypeOK
<1>1. home[p] = j /\ p # 0 /\ p \in Owned
  BY ProcessFacts DEF HomeInv, StartedFor, OwnerInv, LiveSandboxesAreOwned
<1>2. ~ \E i \in Ids : sandbox[i].child = p
  BY <1>1 DEF HomeInv, StartedFor, Present
<1>3. PICK h \in Handlers : child[h] = p
  BY <1>1, <1>2 DEF Owned
<1>4. id[h] = j /\ pc[h] # "idle"
  BY <1>1, <1>3 DEF HomeInv, StartedFor, TypeInv, TypeOK
<1>5. h = g
  BY <1>4 DEF SoloInv, Solo, Alone, On
<1> QED BY <1>3, <1>5

\* The steps of a call that creates or removes, on its own experiment.
LEMMA SoloCreates ==
  ASSUME TypeInv, HomeInv, OwnerInv, SoloInv, [Next]_vars, NEW g \in Handlers, NEW j \in Ids,
         id[g] = j, ~raced[j],
         \/ Moves(g) \/ Aborts(g) \/ Claim(g) \/ ClaimFails(g) \/ Connect(g) \/ Insert(g)
         \/ NoteCreated(g) \/ Remove(g) \/ Kill(g) \/ Cleans(g) \/ NoteDeleted(g)
  PROVE  Solo(j)'
<1> DEFINE l == pc'[g]
<1> USE DEF TypeInv
<1>0. pc \in [Handlers -> Labels] /\ id \in [Handlers -> Ids] /\ j \in Ids
      /\ conn \in [Handlers -> 0 .. MaxCalls] /\ child \in [Handlers -> 0 .. MaxCalls]
      /\ sandbox \in [Ids -> [child : 0 .. MaxCalls, client : 0 .. MaxCalls]]
      /\ dir \in [Ids -> BOOLEAN] /\ socket \in [Ids -> 0 .. MaxCalls]
      /\ (child[g] # 0 <=> pc[g] \in {"socket", "connect", "fetch", "insert", "kill"})
      /\ (conn[g] # 0 <=> pc[g] \in {"fetch", "insert", "add", "noteAdded"})
  BY DEF TypeOK, ShapeInv, Labels
<1>1. /\ id' = id /\ \E k : pc' = [pc EXCEPT ![g] = k]
      /\ pc[g] \in Creating \cup Removing
  BY DEF Moves, Aborts, Abort, Return, Claim, ClaimFails, Connect, Insert, NoteCreated, Remove, Kill,
         Cleans, RemoveDir, RemoveDirFails, NoteDeleted, Goto, Creating, Removing
<1>2. On(g, j) /\ op[g] # "add" /\ \A h \in Handlers : h # g => pc'[h] = pc[h]
  BY <1>0, <1>1 DEF On, ShapeInv, Creating, Removing
<1>3. Holds(g, j) /\ (Present(j) => Own(j))
  BY <1>2 DEF SoloInv, Solo
<1>4. notes[FunctionOf[j]].known => notes'[FunctionOf[j]].known
  BY KnownStays, ProcessFacts
<1> DEFINE Goal == (On(g, j)' => Holds(g, j)') /\ (Present(j)' => Own(j)')
<1> SUFFICES Goal
  BY <1>1, <1>2, SoloAlone
<1> USE DEF Booting, Removing
<1>5. CASE Moves(g)
  <2>1. UNCHANGED <<annots, diskVars, sandbox, notes, child, conn>> /\ pc' = [pc EXCEPT ![g] = l]
        /\ \/ pc[g] \in {"ceiling", "extract"} /\ l \in {"extract", "claim"}
           \/ pc[g] = "socket" /\ l = "connect"
           \/ pc[g] = "fetch" /\ l = "insert"
    BY <1>0, <1>5 DEF Moves, Goto, processVars
  <2> QED BY <1>3, <2>1 DEF Holds, Own, Present, diskVars
<1>6. CASE Aborts(g)
  <2>1. l = "idle" /\ UNCHANGED <<diskVars, sandbox>>
    BY <1>0, <1>6 DEF Aborts, Abort, Return, Goto
  <2> QED BY <1>3, <2>1 DEF On, Own, Present, diskVars
<1>7. CASE Claim(g)
  <2>1. PICK q \in Processes :
        status[q] = "none" /\ child' = [child EXCEPT ![g] = q]
    BY <1>7 DEF Claim
  <2>2. /\ l = "socket" /\ child'[g] = q /\ annots' = annots /\ annots[q] = 0
        /\ ~Present(j) /\ dir'[j] /\ conn'[g] = 0 /\ sandbox' = sandbox
    BY <1>0, <1>7, <2>1 DEF Claim, InUse, Goto, HomeInv
  <2> QED BY <2>2 DEF Holds, Present
<1>8. CASE ClaimFails(g)
  <2>1. l = "idle" /\ ~Present(j) /\ sandbox' = sandbox
    BY <1>0, <1>8 DEF ClaimFails, InUse, Return, Goto
  <2> QED BY <2>1 DEF On, Present
<1>9. CASE Connect(g)
  <2>1. /\ pc[g] = "connect" /\ l = "fetch" /\ conn'[g] = socket[j]
        /\ UNCHANGED <<annots, diskVars, sandbox, child>> /\ Live(socket[j]) /\ socket[j] # 0
    BY <1>0, <1>9 DEF Connect, Serves, Up, Live, Goto, processVars
  <2>2. ~Present(j) /\ socket[j] = child[g]
    BY <1>2, <1>3, <2>1, SoloLive DEF Holds
  <2> QED BY <1>3, <2>1, <2>2 DEF Holds, Own, Present, diskVars
<1>10. CASE Insert(g)
  <2>1. /\ pc[g] = "insert" /\ l = "noteCreated"
        /\ sandbox'[j] = [child |-> child[g], client |-> conn[g]]
        /\ UNCHANGED <<annots, diskVars>>
    BY <1>0, <1>10 DEF Insert, Goto
  <2>2. conn[g] = child[g] /\ child[g] # 0 /\ dir[j] /\ socket[j] = child[g] /\ annots[child[g]] = 0
    BY <1>0, <1>3, <2>1 DEF Holds
  <2>3. sandbox'[j].child = child[g] /\ sandbox'[j].client = child[g]
    BY <2>1, <2>2
  <2> QED BY <2>1, <2>2, <2>3 DEF Holds, Own, Present, diskVars
<1>11. CASE NoteCreated(g)
  <2>1. l = "idle" /\ UNCHANGED <<diskVars, sandbox>>
    BY <1>0, <1>11 DEF NoteCreated, Return, Goto
  <2> QED BY <1>3, <2>1 DEF On, Own, Present, diskVars
<1>12. CASE Remove(g)
  <2>1. pc[g] = "remove" /\ sandbox'[j] = Absent /\ (Present(j) => l = "kill")
    BY <1>0, <1>12 DEF Remove, Goto
  <2>2. l = "kill" /\ notes'[FunctionOf[j]].known
    BY <1>3, <1>4, <2>1 DEF Holds
  <2> QED BY <2>1, <2>2 DEF Holds, Present, Absent
<1>13. CASE Kill(g)
  <2>1. pc[g] = "kill" /\ l = "rmdir" /\ sandbox' = sandbox
    BY <1>0, <1>13 DEF Kill, Goto
  <2> QED BY <1>3, <1>4, <2>1 DEF Holds, Present
<1>14. CASE Cleans(g)
  <2>1. /\ pc[g] = "rmdir" /\ l \in {"ceiling", "noteDeleted"} /\ sandbox' = sandbox
        /\ dir'[j] => j \in unremoved'
    BY <1>0, <1>14 DEF Cleans, RemoveDir, RemoveDirFails, AfterCleanup, Goto
  <2> QED BY <1>3, <1>4, <2>1 DEF Holds, Present
<1>15. CASE NoteDeleted(g)
  <2>1. l = "idle" /\ UNCHANGED <<diskVars, sandbox>>
    BY <1>0, <1>15 DEF NoteDeleted, Return, Goto
  <2> QED BY <1>3, <2>1 DEF On, Own, Present, diskVars
<1> QED BY <1>5, <1>6, <1>7, <1>8, <1>9, <1>10, <1>11, <1>12, <1>13, <1>14, <1>15

\* Calls that add change neither entry nor directory.
LEMMA SoloAdds ==
  ASSUME TypeInv, HomeInv, SoloInv, [Next]_vars, NEW g \in Handlers, NEW j \in Ids,
         id[g] = j, ~raced[j], Writes(g) \/ NoteAdded(g)
  PROVE  Solo(j)'
<1> USE DEF TypeInv
<1>1. /\ id' = id /\ op' = op /\ UNCHANGED <<diskVars, sandbox>> /\ pc[g] \in Adding
      /\ pc' = [pc EXCEPT ![g] = "noteAdded"] \/ pc' = [pc EXCEPT ![g] = "idle"]
  BY DEF Writes, Add, AddFails, NoteAdded, Return, Goto, Adding
<1>2. On(g, j) /\ op[g] = "add"
  BY <1>1 DEF On, ShapeInv, Adding
<1>3. \A h \in Handlers : On(h, j)' => On(h, j)
  BY <1>1, <1>2 DEF On, TypeOK
<1>4. ASSUME NEW h \in Handlers, On(h, j)' PROVE pc'[h] \in Adding
  <2>1. op[h] = "add"
    BY <1>2, <1>3, <1>4 DEF SoloInv, Solo, Alone
  <2>2. pc[h] \in Adding
    BY <1>3, <1>4, <2>1 DEF On, ShapeInv, TypeOK
  <2> QED BY <1>1, <1>4, <2>2 DEF On, Adding, TypeOK
<1>5. \A h \in Handlers : On(h, j)' => Holds(h, j)'
  BY <1>4 DEF Adding, Holds, Booting, Removing
<1>6. Alone(j)'
  BY <1>1, <1>3 DEF SoloInv, Solo, Alone
<1>7. Present(j)' => Own(j)'
  BY <1>1 DEF SoloInv, Solo, Own, Present, diskVars
<1> QED BY <1>5, <1>6, <1>7 DEF Solo

\* A process that binds its socket is the one its experiment is waiting for.
LEMMA SoloBinds ==
  ASSUME TypeInv, HomeInv, OwnerInv, SoloInv, [Next]_vars, NEW p \in Processes, Binds(p)
  PROVE  SoloInv'
<1> USE DEF TypeInv
<1> PICK j \in Ids : j = home[p]
  BY DEF TypeOK
<1>1. /\ socket' = [socket EXCEPT ![j] = p] /\ status[p] = "booting"
      /\ UNCHANGED <<home, annots, dir, sandbox, notes, taskVars, calls, history>>
  BY DEF Binds, TypeOK
<1>2. UNCHANGED <<pc, op, id, child, conn, raced, unremoved>>
  BY <1>1 DEF taskVars, history
<1>3. socket'[j] = p /\ \A i \in Ids : i # j => socket'[i] = socket[i]
  BY <1>1 DEF TypeOK
<1>4. ASSUME NEW i \in Ids, i # j PROVE Solo(i)'
  <2>1. \A h \in Handlers : On(h, i)' <=> On(h, i)
    BY <1>2 DEF On
  <2> QED BY <1>1, <1>2, <1>3, <1>4, <2>1, SoloFrame DEF SoloInv
\* Whoever owns it is of this experiment.
<1>5. ASSUME ~raced[j] PROVE Solo(j)'
  <2>1. \A h \in Handlers : On(h, j)' <=> On(h, j)
    BY <1>2 DEF On
  <2>2. Solo(j) /\ Alone(j)
    BY <1>1, <1>5 DEF SoloInv, Solo
  <2>3. Alone(j)'
    BY <1>2, <2>1, <2>2 DEF Alone
  <2>4. p \in Owned
    BY <1>1 DEF OwnerInv, LiveSandboxesAreOwned, Live
  <2>5. CASE \E i \in Ids : sandbox[i].child = p
    <3>1. sandbox[j].child = p
      BY <1>1, <2>5, ProcessFacts DEF HomeInv, StartedFor
    <3>2. Present(j) /\ Own(j) /\ socket[j] = p
      BY <1>5, <2>2, <3>1, ProcessFacts DEF Solo, Own, Present
    <3>3. socket' = socket
      BY <1>1, <3>2 DEF TypeOK
    <3> QED BY <1>1, <1>2, <2>1, <3>3, SoloFrame, <2>2
  <2>6. CASE \E h \in Handlers : child[h] = p
    <3>1. PICK h \in Handlers : child[h] = p
      BY <2>6
    <3>2. pc[h] \in Booting \cup {"kill"} /\ id[h] = j
      BY <1>1, <3>1, ProcessFacts DEF TypeOK, HomeInv, StartedFor, Booting
    <3>3. On(h, j) /\ op[h] # "add" /\ Holds(h, j)
      BY <1>5, <2>2, <3>2 DEF On, ShapeInv, Booting, Creating, Removing, Solo
    <3>4. ~Present(j)
      BY <3>2, <3>3 DEF Holds
    <3>5. ~Present(j)'
      BY <1>1, <3>4 DEF Present
    <3>6. Holds(h, j)'
      BY <1>1, <1>2, <1>3, <3>1, <3>3, <3>5 DEF Holds, Booting, Removing, Present
    <3> QED BY <1>2, <1>5, <3>3, <3>5, <3>6, <1>1, SoloAlone
  <2> QED BY <2>4, <2>5, <2>6 DEF Owned
<1>6. Solo(j)'
  BY <1>2, <1>5 DEF Solo
<1> QED BY <1>4, <1>6 DEF SoloInv

\* An experiment whose calls do not race is as its one call left it.
LEMMA SoloStep ==
  TypeInv /\ HomeInv /\ OwnerInv /\ NotedInv /\ SoloInv /\ [Next]_vars => SoloInv'
<1> SUFFICES ASSUME TypeInv, HomeInv, OwnerInv, NotedInv, SoloInv, [Next]_vars
             PROVE  SoloInv'
  OBVIOUS
<1> USE DEF TypeInv
<1>1. ASSUME NEW g \in Handlers,
             \/ Moves(g) \/ Aborts(g) \/ Claim(g) \/ ClaimFails(g) \/ Connect(g) \/ Insert(g)
             \/ NoteCreated(g) \/ Remove(g) \/ Kill(g) \/ Cleans(g) \/ NoteDeleted(g)
             \/ Writes(g) \/ NoteAdded(g)
      PROVE  SoloInv'
  <2> PICK j \in Ids : j = id[g]
    BY DEF TypeOK
  <2>1. id' = id /\ op' = op /\ raced' = raced
    BY <1>1 DEF Moves, Aborts, Abort, Return, Claim, ClaimFails, Connect, Insert, NoteCreated, Remove,
                Kill, Cleans, RemoveDir, RemoveDirFails, NoteDeleted, Writes, Add, AddFails, NoteAdded, history, TypeOK
  <2>2. /\ \E k : pc' = [pc EXCEPT ![g] = k]
        /\ child' = child \/ \E k : child' = [child EXCEPT ![g] = k]
        /\ conn' = conn \/ \E k : conn' = [conn EXCEPT ![g] = k]
    BY <1>1 DEF Moves, Aborts, Abort, Return, Claim, ClaimFails, Connect, Insert, NoteCreated, Remove,
                Kill, Cleans, RemoveDir, RemoveDirFails, NoteDeleted, Writes, Add, AddFails, NoteAdded, Goto
  <2>3. /\ sandbox' = sandbox \/ \E k : sandbox' = [sandbox EXCEPT ![j] = k]
        /\ dir' = dir \/ \E k : dir' = [dir EXCEPT ![j] = k]
        /\ socket' = socket \/ \E k : socket' = [socket EXCEPT ![j] = k]
    BY <1>1 DEF Moves, Aborts, Abort, Claim, ClaimFails, Connect, Insert, NoteCreated, Remove,
                Kill, Cleans, RemoveDir, RemoveDirFails, NoteDeleted, Writes, Add, AddFails, NoteAdded, diskVars
  <2>10. unremoved \ {j} \subseteq unremoved'
    BY <1>1 DEF Moves, Aborts, Abort, Claim, ClaimFails, Connect, Insert, NoteCreated, Remove,
                Kill, Cleans, RemoveDir, RemoveDirFails, NoteDeleted, Writes, Add, AddFails, NoteAdded, history
  <2>4. annots' = annots \/ \E k : annots' = [annots EXCEPT ![conn[g]] = k] /\ conn[g] # 0
    BY <1>1 DEF Moves, Aborts, Abort, Claim, ClaimFails, Connect, Insert, NoteCreated, Remove,
                Kill, Cleans, RemoveDir, RemoveDirFails, NoteDeleted, Writes, Add, AddFails, NoteAdded, processVars, ShapeInv
  <2>5. \A h \in Handlers : h # g => /\ pc'[h] = pc[h] /\ op'[h] = op[h] /\ id'[h] = id[h]
                                     /\ child'[h] = child[h] /\ conn'[h] = conn[h]
    BY <2>1, <2>2 DEF TypeOK
  <2>6. \A i \in Ids : i # j => /\ sandbox'[i] = sandbox[i] /\ dir'[i] = dir[i]
                                /\ socket'[i] = socket[i] /\ raced'[i] = raced[i]
                                /\ i \in unremoved => i \in unremoved'
    BY <2>1, <2>3, <2>10 DEF TypeOK
  <2>7. \A p \in Processes : status[p] # "none" /\ home[p] # j => annots'[p] = annots[p]
    BY <2>4 DEF HomeInv, StartedFor, TypeOK
  <2>8. Solo(j)'
    <3>1. CASE raced[j]
      BY <2>1, <3>1 DEF Solo
    <3>2. CASE ~raced[j]
      BY <1>1, <2>1, <3>2, SoloCreates, SoloAdds
    <3> QED BY <3>1, <3>2
  <2>9. id[g] = j /\ id'[g] = j
    BY <2>1
  <2> QED BY <2>1, <2>5, <2>6, <2>7, <2>8, <2>9, CallFrame
<1>2. ASSUME UNCHANGED <<annots, diskVars, sandbox, taskVars, raced, unremoved>> PROVE SoloInv'
  <2>1. UNCHANGED <<pc, op, id, child, conn, dir, socket>>
    BY <1>2 DEF taskVars, diskVars
  <2> SUFFICES ASSUME NEW i \in Ids PROVE Solo(i)'
    BY DEF SoloInv
  <2>2. \A h \in Handlers : On(h, i)' <=> On(h, i)
    BY <2>1 DEF On
  <2> QED BY <1>2, <2>1, <2>2, SoloFrame DEF SoloInv
<1>3. ASSUME NEW p \in Processes, Dies(p) PROVE SoloInv'
  BY <1>2, <1>3 DEF Dies, history
<1>4. CASE UNCHANGED vars
  BY <1>2, <1>4 DEF vars, processVars, history
<1> QED BY StepCases, SoloCalls, SoloBinds, <1>1, <1>3, <1>4

-----------------------------------------------------------------------------

\* No sandbox process is left behind, none has two owners, and the sandbox of an
\* experiment whose calls did not race is its own: whatever creations, resets
\* and deletions overlap, whatever fails.
THEOREM OwnershipHolds == Spec => []Ownership
<1>1. OwnerInv /\ TypeInv /\ HomeInv /\ SoloInv => Ownership
  <2> SUFFICES ASSUME OwnerInv, TypeInv, HomeInv, SoloInv,
                      NEW i \in Ids, Present(i), ~raced[i]
               PROVE  Own(i) /\ home[sandbox[i].child] = i
    BY DEF OwnerInv, Ownership, EntryIsItsOwnSandbox, Own
  <2> QED BY DEF SoloInv, Solo, HomeInv, StartedFor, Present
<1> QED BY <1>1, TypeInit, TypeStep, HomeInit, HomeStep, OwnerInit, OwnerStep, NotedInit, NotedStep,
           SoloInit, SoloStep, PTL DEF Spec

-----------------------------------------------------------------------------
(* Clean sandboxes.                                                        *)

\* There is no sandbox at first.
LEMMA CleanInit == Init => CleanInv
  BY DEF Init, CleanInv, Present, Absent

\* A sandbox whose function is noted clean has no annotations, if it is the only
\* one of its function and its calls do not race.
LEMMA CleanStep ==
  TypeInv /\ HomeInv /\ NotedInv /\ SoloInv /\ CleanInv /\ [Next]_vars => CleanInv'
<1> SUFFICES ASSUME TypeInv, HomeInv, NotedInv, SoloInv, CleanInv, [Next]_vars, NEW i \in Ids,
                    Present(i)', ~raced'[i], SoleExperiment(i), notes'[FunctionOf[i]].clean
             PROVE  \/ annots'[sandbox'[i].client] = 0
                    \/ sandbox'[i].client \in unnoted'
                    \/ \E h \in Handlers : Noting(h, i)' /\ conn'[h] = sandbox'[i].client
  BY DEF CleanInv, SoleExperiment
<1> DEFINE f == FunctionOf[i]
           Goal == \/ annots'[sandbox'[i].client] = 0
                   \/ sandbox'[i].client \in unnoted'
                   \/ \E h \in Handlers : Noting(h, i)' /\ conn'[h] = sandbox'[i].client
<1> USE DEF TypeInv, Noting
<1>0. /\ f \in Functions /\ \A j \in Ids : FunctionOf[j] \in Functions
      /\ \A j \in Ids : FunctionOf[j] = f => j = i
      /\ notes \in [Functions -> Notes] /\ sandbox \in [Ids -> [child : 0 .. MaxCalls, client : 0 .. MaxCalls]]
      /\ pc \in [Handlers -> Labels] /\ id \in [Handlers -> Ids] /\ annots \in [Processes -> Nat]
      /\ raced \in [Ids -> BOOLEAN] /\ conn \in [Handlers -> 0 .. MaxCalls]
  BY ProcessFacts DEF TypeOK, SoleExperiment, Notes, Labels
\* What holds already.
<1>1. ASSUME Present(i), ~raced[i], notes[f].clean
      PROVE  \/ annots[sandbox[i].client] = 0
             \/ sandbox[i].client \in unnoted
             \/ \E h \in Handlers : Noting(h, i) /\ conn[h] = sandbox[i].client
  BY <1>1 DEF CleanInv
\* A step that touches neither the sandbox, its AST nor its function's conclusion.
<1>2. ASSUME Present(i), ~raced[i], notes'[f].clean = notes[f].clean, sandbox'[i] = sandbox[i],
             annots'[sandbox[i].client] = annots[sandbox[i].client], unnoted \subseteq unnoted',
             \A h \in Handlers : Noting(h, i) => Noting(h, i)' /\ conn'[h] = conn[h]
      PROVE  Goal
  BY <1>1, <1>2
<1>3. ASSUME NEW g \in Handlers, NEW j \in Ids, Calls(g, j) PROVE Goal
  <2>1. PICK o \in AllOps : Begin(g, o, j, First(o))
    BY <1>3 DEF Calls
  <2>2. /\ pc[g] = "idle" /\ id' = [id EXCEPT ![g] = j] /\ pc' = [pc EXCEPT ![g] = First(o)]
        /\ UNCHANGED <<annots, sandbox, notes, unnoted>>
        /\ conn' = conn \/ conn' = [conn EXCEPT ![g] = sandbox[j].client]
    BY <1>3, <2>1 DEF Calls, Begin, Goto, processVars
  <2>3. Present(i)
    BY <2>2 DEF Present
  <2>4. ~raced[i]
    BY <1>0, <2>1, <2>3 DEF Begin
  <2> QED BY <1>0, <1>2, <2>2, <2>3, <2>4
\* Steps that leave maps, ASTs and conclusions alone.
<1>4. ASSUME NEW g \in Handlers,
             \/ Moves(g) \/ Aborts(g) \/ Claim(g) \/ ClaimFails(g) \/ Connect(g) \/ Kill(g) \/ Cleans(g)
      PROVE  Goal
  <2>1. /\ UNCHANGED <<annots, sandbox, notes, id, raced, unnoted>> /\ pc[g] # "noteAdded"
        /\ \E l, c : pc' = [pc EXCEPT ![g] = l] /\ conn' \in {conn, [conn EXCEPT ![g] = c]}
    BY <1>4 DEF Moves, Aborts, Abort, Return, Claim, ClaimFails, Connect, Kill, Cleans, RemoveDir, RemoveDirFails, Goto,
                processVars, history, Creating
  <2> QED BY <1>0, <1>2, <2>1 DEF Present
<1>5. ASSUME NEW g \in Handlers, Insert(g) PROVE Goal
  <2>1. /\ sandbox' = [sandbox EXCEPT ![id[g]] = [child |-> child[g], client |-> conn[g]]]
        /\ UNCHANGED <<annots, notes, id, raced, unnoted>> /\ pc[g] = "insert"
        /\ \E l, c : pc' = [pc EXCEPT ![g] = l] /\ conn' \in {conn, [conn EXCEPT ![g] = c]}
    BY <1>5 DEF Insert, Goto, history
  <2>2. CASE id[g] = i
    <3>1. conn[g] = child[g] /\ annots[child[g]] = 0
      BY <2>1, <2>2 DEF SoloInv, Solo, On, Holds, Booting, ShapeInv
    <3>2. sandbox'[i].client = conn[g]
      BY <1>0, <2>1, <2>2
    <3> QED BY <2>1, <3>1, <3>2
  <2>3. CASE id[g] # i
    BY <1>0, <1>2, <2>1, <2>3 DEF Present
  <2> QED BY <2>2, <2>3
<1>6. ASSUME NEW g \in Handlers, Remove(g) PROVE Goal
  <2>1. /\ sandbox' = [sandbox EXCEPT ![id[g]] = Absent] /\ pc[g] = "remove"
        /\ UNCHANGED <<annots, notes, id, raced, unnoted>> /\ \E l, c : pc' = [pc EXCEPT ![g] = l] /\ conn' \in {conn, [conn EXCEPT ![g] = c]}
    BY <1>6 DEF Remove, Goto, history, processVars
  <2>2. id[g] # i
    BY <1>0, <2>1 DEF Present, Absent
  <2> QED BY <1>0, <1>2, <2>1, <2>2 DEF Present
<1>7. ASSUME NEW g \in Handlers, NoteCreated(g) PROVE Goal
  <2>1. /\ notes' = [notes EXCEPT ![FunctionOf[id[g]]] = Created(notes[FunctionOf[id[g]]])]
        /\ UNCHANGED <<annots, sandbox, id, raced, unnoted>> /\ pc[g] = "noteCreated"
        /\ pc' = [pc EXCEPT ![g] = "idle"] /\ conn' = [conn EXCEPT ![g] = 0]
    BY <1>7 DEF NoteCreated, Note, Return, Goto, history, processVars
  <2>2. CASE id[g] = i
    BY <2>1, <2>2 DEF SoloInv, Solo, On, Holds
  <2>3. CASE id[g] # i
    BY <1>0, <1>2, <2>1, <2>3 DEF Present
  <2> QED BY <2>2, <2>3
<1>8. ASSUME NEW g \in Handlers, NoteDeleted(g) PROVE Goal
  <2> PICK e \in Functions : e = FunctionOf[id[g]]
    BY <1>0
  <2>1. /\ notes' = [notes EXCEPT ![e] = IF notes[e].known THEN [notes[e] EXCEPT !.deleted = TRUE] ELSE notes[e]]
        /\ UNCHANGED <<annots, sandbox, id, raced, unnoted>> /\ pc[g] = "noteDeleted"
        /\ pc' = [pc EXCEPT ![g] = "idle"] /\ conn' = [conn EXCEPT ![g] = 0]
    BY <1>8 DEF NoteDeleted, Note, Return, Goto, history, processVars
  <2>2. [notes[e] EXCEPT !.deleted = TRUE].clean = notes[e].clean
    BY <1>0 DEF Notes
  <2>3. notes'[f].clean = notes[f].clean
    BY <1>0, <2>1, <2>2
  <2> QED BY <1>0, <1>2, <2>1, <2>3 DEF Present
\* The note of an annotation: the sandbox is known, so no longer clean, or it is
\* of another function.
<1>9. ASSUME NEW g \in Handlers, NoteAdded(g) PROVE Goal
  <2>1. /\ notes'[f] = IF f = named[g] THEN Added(notes[f]) ELSE notes[f]
        /\ unnoted' = IF named[g] = FunctionOf[id[g]] THEN unnoted ELSE unnoted \cup {conn[g]}
        /\ UNCHANGED <<annots, sandbox, id, raced>> /\ pc[g] = "noteAdded"
        /\ pc' = [pc EXCEPT ![g] = "idle"] /\ conn' = [conn EXCEPT ![g] = 0]
    BY <1>0, <1>9 DEF NoteAdded, Return, Goto, processVars
  <2>2. Present(i) /\ ~raced[i]
    BY <2>1 DEF Present
  <2>3. CASE id[g] = i /\ named[g] = f
    <3>1. op[g] = "add" /\ On(g, i)
      BY <2>1, <2>3 DEF On, ShapeInv, Adding
    <3>2. \A h \in Handlers : ~(id[h] = i /\ pc[h] = "noteCreated")
      BY <2>1, <3>1 DEF SoloInv, Solo, Alone, On, ShapeInv, Creating
    <3>3. notes[f].known
      BY <2>2, <3>2 DEF NotedInv
    <3>4. ~Added(notes[f]).clean
      BY <1>0, <3>3 DEF Added, Notes
    <3> QED BY <2>1, <2>3, <3>4
  <2>4. CASE id[g] = i /\ named[g] # f
    <3>1. conn[g] \in unnoted' /\ unnoted \subseteq unnoted' /\ notes'[f] = notes[f]
      BY <2>1, <2>4
    <3>2. \A h \in Handlers : h # g /\ Noting(h, i) => Noting(h, i)' /\ conn'[h] = conn[h]
      BY <1>0, <2>1 
    <3> QED BY <1>1, <2>1, <2>2, <3>1, <3>2
  <2>5. CASE id[g] # i
    <3>1. \A h \in Handlers : Noting(h, i) => Noting(h, i)' /\ conn'[h] = conn[h]
      BY <1>0, <2>1, <2>5 
    <3>2. Added(notes[f]).clean => notes[f].clean
      BY <1>0 DEF Added, Notes
    <3>3. notes[f].clean
      BY <2>1, <3>2
    <3> QED BY <1>1, <2>1, <2>2, <3>1, <3>3
  <2> QED BY <2>3, <2>4, <2>5
<1>10. ASSUME NEW g \in Handlers, Writes(g) PROVE Goal
  <2>1. /\ UNCHANGED <<sandbox, notes, id, raced>> /\ pc[g] = "add" /\ unnoted \subseteq unnoted'
        /\ \/ pc' = [pc EXCEPT ![g] = "noteAdded"] /\ conn' = conn
           \/ /\ pc' = [pc EXCEPT ![g] = "idle"] /\ unnoted' = unnoted \cup {conn[g]}
              /\ conn' = [conn EXCEPT ![g] = 0]
        /\ \E k : annots' = [annots EXCEPT ![conn[g]] = k]
    BY <1>10 DEF Writes, Add, AddFails, Return, Goto, history
  <2>2. Present(i) /\ ~raced[i]
    BY <2>1 DEF Present
  <2>3. CASE conn[g] = sandbox[i].client
    <3>1. id[g] = i
      BY <2>1, <2>2, <2>3 DEF HomeInv, StartedFor, ShapeInv, Present
    <3> QED BY <1>0, <2>1, <2>3, <3>1
  <2>4. CASE conn[g] # sandbox[i].client
    <3>1. annots'[sandbox[i].client] = annots[sandbox[i].client]
      BY <1>0, <2>1, <2>2, <2>4, ProcessFacts DEF ShapeInv, Present
    <3> QED BY <1>0, <1>2, <2>1, <2>2, <3>1
  <2> QED BY <2>3, <2>4
<1>11. ASSUME NEW p \in Processes, Binds(p) \/ Dies(p) PROVE Goal
  BY <1>2, <1>11 DEF Binds, Dies, taskVars, history, Present
<1>12. CASE UNCHANGED vars
  BY <1>2, <1>12 DEF vars, processVars, taskVars, history, Present
<1> QED BY StepCases, <1>3, <1>4, <1>5, <1>6, <1>7, <1>8, <1>9, <1>10, <1>11, <1>12

\* The conclusion never calls a sandbox clean whose AST carries an annotation a
\* call has returned from, unless calls raced on it, one got no answer, or one
\* named another function than the experiment's (it is noted of that one).
THEOREM CleanIsUnannotated == Spec => []CleanMeansUnannotated
<1>1. CleanInv => CleanMeansUnannotated
  BY DEF CleanInv, CleanMeansUnannotated, Undisturbed, Noting
<1> QED BY <1>1, TypeInit, TypeStep, HomeInit, HomeStep, OwnerInit, OwnerStep, NotedInit, NotedStep,
           SoloInit, SoloStep, CleanInit, CleanStep, PTL DEF Spec

-----------------------------------------------------------------------------
(* How calls end.                                                          *)

\* A call that has noted what it did ends with that note.
LEMMA LastStep ==
  ASSUME TypeInv, [Next]_vars, NEW h \in Handlers, pc'[h] = "idle"
  PROVE  /\ pc[h] = "noteDeleted" => NoteDeleted(h)
         /\ pc[h] = "noteCreated" => NoteCreated(h)
<1> SUFFICES ASSUME pc[h] \in {"noteDeleted", "noteCreated"}
             PROVE  NoteDeleted(h) \/ NoteCreated(h)
  BY DEF NoteDeleted, NoteCreated
<1>0. pc \in [Handlers -> Labels]
  BY DEF TypeInv, TypeOK, Labels
<1>1. ASSUME NEW g \in Handlers, pc[g] \notin {"noteDeleted", "noteCreated"},
             NEW l, pc' = [pc EXCEPT ![g] = l]
      PROVE  FALSE
  BY <1>0, <1>1
<1>2. ASSUME NEW g \in Handlers, NEW i \in Ids, Calls(g, i) PROVE FALSE
  BY <1>1, <1>2 DEF Calls, Begin, Goto
<1>3. ASSUME NEW g \in Handlers,
             \/ Moves(g) \/ Aborts(g) \/ Claim(g) \/ ClaimFails(g) \/ Connect(g) \/ Insert(g)
             \/ Remove(g) \/ Kill(g) \/ Cleans(g) \/ Writes(g) \/ NoteAdded(g)
      PROVE  FALSE
  BY <1>1, <1>3 DEF Moves, Aborts, Abort, Return, Claim, ClaimFails, Connect, Insert, Remove, Kill,
                    Cleans, RemoveDir, RemoveDirFails, Writes, Add, AddFails, NoteAdded, Goto, Creating
<1>4. ASSUME NEW g \in Handlers, NoteDeleted(g) \/ NoteCreated(g) PROVE g = h
  BY <1>0, <1>4 DEF NoteDeleted, NoteCreated, Return, Goto
<1>5. ~UNCHANGED pc
  BY <1>0
<1> QED BY StepCases, <1>2, <1>3, <1>4, <1>5 DEF Binds, Dies, taskVars, vars

\* How a delete and a reset that do not race end.
LEMMA SoloEnds ==
  ASSUME TypeInv, HomeInv, OwnerInv, SoloInv, [Next]_vars, NEW h \in Handlers,
         pc'[h] = "idle", ~raced[id[h]]
  PROVE  /\ op[h] = "delete" /\ pc[h] = "noteDeleted" => Gone(id[h])'
         /\ op[h] = "reset" /\ pc[h] = "noteCreated" => Fresh(id[h])'
<1> USE DEF TypeInv
<1> PICK i \in Ids : i = id[h]
  BY DEF TypeOK
<1> PICK f \in Functions : f = FunctionOf[i]
  BY ProcessFacts
<1>1. notes \in [Functions -> Notes] /\ notes[f] \in Notes
  BY NoteFacts DEF TypeOK, Notes
<1>2. ASSUME op[h] = "delete", pc[h] = "noteDeleted" PROVE Gone(id[h])'
  <2>1. NoteDeleted(h)
    BY <1>2, LastStep
  <2>2. /\ notes' = [notes EXCEPT ![f] = IF notes[f].known THEN [notes[f] EXCEPT !.deleted = TRUE] ELSE notes[f]]
        /\ id' = id /\ UNCHANGED <<processVars, diskVars, sandbox, unremoved>>
    BY <2>1 DEF NoteDeleted, Note, Return, history
  <2>3. On(h, i) /\ Alone(i) /\ Holds(h, i)
    BY <1>2 DEF SoloInv, Solo, On
  <2>4. ~Present(i) /\ (dir[i] => i \in unremoved) /\ notes[f].known
    BY <1>2, <2>3 DEF Holds, Removing
  <2>5. sandbox[i] = Absent
    <3>1. sandbox[i] \in [child : 0 .. MaxCalls, client : 0 .. MaxCalls]
      BY DEF TypeOK
    <3>2. sandbox[i].child = 0 /\ sandbox[i].client = 0
      BY <2>4 DEF Present, ShapeInv
    <3> QED BY <3>1, <3>2 DEF Absent
  <2>6. notes'[f].deleted
    BY <1>1, <2>2, <2>4 DEF Notes
  <2>7. ASSUME NEW p \in Processes, home[p] = i, Live(p) PROVE FALSE
    <3>1. p \in Owned
      BY <2>7 DEF OwnerInv, LiveSandboxesAreOwned
    <3>2. CASE \E j \in Ids : sandbox[j].child = p
      BY <2>4, <2>7, <3>2, ProcessFacts DEF HomeInv, StartedFor, Present
    <3>3. CASE \E g \in Handlers : child[g] = p
      <4>1. PICK g \in Handlers : child[g] = p
        BY <3>3
      <4>2. id[g] = i /\ child[g] # 0
        BY <2>7, <4>1, ProcessFacts DEF HomeInv, StartedFor
      <4>3. On(g, i) /\ op[g] # "add" /\ g # h
        BY <1>2, <4>2 DEF On, TypeOK, ShapeInv, Creating, Removing
      <4> QED BY <2>3, <4>3 DEF Alone
    <3> QED BY <3>1, <3>2, <3>3 DEF Owned
  <2>8. Gone(i)'
    BY <2>2, <2>4, <2>5, <2>6, <2>7 DEF Gone, processVars, diskVars, Live
  <2> QED BY <2>2, <2>8
<1>3. ASSUME op[h] = "reset", pc[h] = "noteCreated" PROVE Fresh(id[h])'
  <2>1. NoteCreated(h)
    BY <1>3, LastStep
  <2>2. /\ notes' = [notes EXCEPT ![f] = Created(notes[f])]
        /\ id' = id /\ UNCHANGED <<processVars, sandbox>>
    BY <2>1 DEF NoteCreated, Note, Return
  <2>3. Present(i) /\ annots[sandbox[i].client] = 0
    BY <1>3 DEF SoloInv, Solo, On, Holds
  <2>4. notes'[f] = [known |-> TRUE, clean |-> TRUE, count |-> 0, deleted |-> FALSE]
    BY <1>1, <2>2 DEF Created
  <2>5. Fresh(i)'
    BY <2>2, <2>3, <2>4 DEF Fresh, Present, processVars
  <2> QED BY <2>2, <2>5
<1> QED BY <1>2, <1>3

\* A delete that met no other call leaves no entry and no process behind, and no
\* directory unless it could not be removed; a reset that succeeds ends with a
\* fresh sandbox, over whatever directory and socket it found.
THEOREM SoloCallsEnd == Spec => SoloCallsEndClean
<1> DEFINE Ends == \A h \in Handlers :
             pc'[h] = "idle" /\ ~raced[id[h]] =>
               /\ op[h] = "delete" /\ pc[h] = "noteDeleted" => Gone(id[h])'
               /\ op[h] = "reset" /\ pc[h] = "noteCreated" => Fresh(id[h])'
<1>1. TypeInv /\ HomeInv /\ OwnerInv /\ SoloInv /\ [Next]_vars => [Ends]_vars
  BY SoloEnds
<1> QED BY <1>1, TypeInit, TypeStep, HomeInit, HomeStep, OwnerInit, OwnerStep, NotedInit, NotedStep,
           SoloInit, SoloStep, PTL DEF Spec, SoloCallsEndClean

-----------------------------------------------------------------------------
(* The ceiling.                                                            *)

\* The image of a finite set is no larger.
LEMMA ImageIsNoLarger ==
  ASSUME NEW S, IsFiniteSet(S), NEW F
  PROVE  /\ IsFiniteSet({F[x] : x \in S})
         /\ Cardinality({F[x] : x \in S}) <= Cardinality(S)
<1> DEFINE T == {F[x] : x \in S}
           G == [x \in S |-> F[x]]
<1>1. G \in Surjection(S, T)
  BY DEF Surjection
<1> HIDE DEF G
<1>2. IsFiniteSet(T) /\ Cardinality(T) <= Cardinality(S)
  BY <1>1, FS_Surjection
<1> QED BY <1>2

\* What is counted is finite.
LEMMA Counts ==
  ASSUME CeilingInv
  PROVE  /\ IsFiniteSet(Past) /\ Cardinality(Past) \in Nat /\ Cardinality(Past) <= Cardinality(Handlers)
         /\ Cardinality(Entries) \in Nat /\ Cardinality(Handlers) \in Nat /\ MaxSandboxes \in Nat
<1>1. Past \in SUBSET Handlers
  BY DEF Past
<1> QED BY <1>1, SandboxAssumption, FS_Subset, FS_CardinalityType DEF CeilingInv

\* There are no entries at first.
LEMMA CeilingInit == Init => CeilingInv
<1> SUFFICES ASSUME Init PROVE CeilingInv
  OBVIOUS
<1>1. Entries = {} /\ Past = {}
  BY DEF Init, Entries, Present, Absent, Past, Booting
<1>2. Cardinality(Handlers) \in Nat /\ Cardinality(Handlers) # 0
  BY SandboxAssumption, FS_CardinalityType, FS_EmptySet
<1>3. Cardinality(Entries) = 0 /\ Cardinality(Past) = 0 /\ IsFiniteSet(Entries)
  BY <1>1, FS_EmptySet
<1> QED BY <1>2, <1>3, SandboxAssumption DEF CeilingInv

\* Only a call that saw room adds an entry.
LEMMA CeilingStep == TypeInv /\ CeilingInv /\ [Next]_vars => CeilingInv'
<1> SUFFICES ASSUME TypeInv, CeilingInv, [Next]_vars PROVE CeilingInv'
  OBVIOUS
<1>0. /\ pc \in [Handlers -> Labels] /\ id \in [Handlers -> Ids]
      /\ sandbox \in [Ids -> [child : 0 .. MaxCalls, client : 0 .. MaxCalls]]
  BY DEF TypeInv, TypeOK, Labels
\* Fewer entries, fewer calls.
<1>1. ASSUME Entries' \subseteq Entries, Past' \subseteq Past PROVE CeilingInv'
  <2>1. /\ IsFiniteSet(Entries') /\ Cardinality(Entries') <= Cardinality(Entries)
        /\ Cardinality(Entries') \in Nat
    BY <1>1, FS_Subset, FS_CardinalityType DEF CeilingInv
  <2>2. Cardinality(Past') <= Cardinality(Past) /\ Cardinality(Past') \in Nat
    BY <1>1, Counts, FS_Subset, FS_CardinalityType
  <2> QED BY <2>1, <2>2, Counts DEF CeilingInv
<1>2. ASSUME NEW h \in Handlers, NEW i \in Ids, Calls(h, i) PROVE CeilingInv'
  <2>1. PICK o \in AllOps : Begin(h, o, i, First(o))
    BY <1>2 DEF Calls
  <2>2. pc' = [pc EXCEPT ![h] = First(o)] /\ sandbox' = sandbox
    BY <2>1 DEF Begin, Goto
  <2>3. First(o) \in {"ceiling", "add", "remove"}
    BY DEF First
  <2>4. Past' \subseteq Past
    BY <1>0, <2>2, <2>3 DEF Past, Booting
  <2> QED BY <1>1, <2>2, <2>4 DEF Entries, Present
\* Whoever passes the ceiling finds fewer entries than it allows.
<1>3. ASSUME NEW h \in Handlers, pc[h] = "ceiling", Moves(h) PROVE CeilingInv'
  <2>1. Cardinality(Entries) < MaxSandboxes /\ Entries' = Entries
    BY <1>3 DEF Moves, BelowCeiling, Entries, Present
  <2>2. Past' \in SUBSET Handlers
    BY DEF Past
  <2>3. Cardinality(Past') \in Nat /\ Cardinality(Past') <= Cardinality(Handlers)
    BY <2>2, SandboxAssumption, FS_Subset, FS_CardinalityType
  <2> QED BY <2>1, <2>3, Counts DEF CeilingInv
<1>4. ASSUME NEW h \in Handlers,
             \/ pc[h] # "ceiling" /\ Moves(h)
             \/ Aborts(h) \/ Claim(h) \/ ClaimFails(h) \/ Connect(h) \/ NoteCreated(h) \/ Kill(h)
             \/ Cleans(h) \/ NoteDeleted(h) \/ Writes(h) \/ NoteAdded(h)
      PROVE  CeilingInv'
  <2>1. /\ sandbox' = sandbox
        /\ \E l : pc' = [pc EXCEPT ![h] = l] /\ (l \in {"extract", "claim", "kill"} \cup Booting => h \in Past)
    BY <1>4 DEF Moves, Aborts, Abort, Return, Claim, ClaimFails, Connect, NoteCreated, Kill, Cleans, RemoveDir, RemoveDirFails,
                AfterCleanup, NoteDeleted, Writes, Add, AddFails, NoteAdded, Goto, Past, Booting
  <2>2. Past' \subseteq Past
    BY <1>0, <2>1 DEF Past
  <2> QED BY <1>1, <2>1, <2>2 DEF Entries, Present
\* A call in flight becomes an entry.
<1>5. ASSUME NEW h \in Handlers, Insert(h) PROVE CeilingInv'
  <2>1. /\ sandbox' = [sandbox EXCEPT ![id[h]] = [child |-> child[h], client |-> conn[h]]]
        /\ pc[h] = "insert" /\ pc' = [pc EXCEPT ![h] = "noteCreated"]
    BY <1>5 DEF Insert, Goto
  <2>2. Entries' \subseteq Entries \cup {id[h]}
    BY <1>0, <2>1 DEF Entries, Present
  <2>3. Past' = Past \ {h} /\ h \in Past
    BY <1>0, <2>1 DEF Past, Booting
  <2>4. /\ IsFiniteSet(Entries') /\ Cardinality(Entries') \in Nat
        /\ Cardinality(Entries') <= Cardinality(Entries) + 1
    <3>1. /\ IsFiniteSet(Entries \cup {id[h]})
          /\ Cardinality(Entries \cup {id[h]}) <= Cardinality(Entries) + 1
      BY Counts, FS_AddElement DEF CeilingInv
    <3>2. IsFiniteSet(Entries') /\ Cardinality(Entries') <= Cardinality(Entries \cup {id[h]})
      BY <2>2, <3>1, FS_Subset
    <3> QED BY <3>1, <3>2, Counts, FS_CardinalityType
  <2>5. Cardinality(Past') = Cardinality(Past) - 1
    BY <2>3, Counts, FS_RemoveElement
  <2> QED BY <2>4, <2>5, Counts DEF CeilingInv
\* An entry becomes a call in flight.
<1>6. ASSUME NEW h \in Handlers, Remove(h) PROVE CeilingInv'
  <2>1. /\ sandbox' = [sandbox EXCEPT ![id[h]] = Absent] /\ pc[h] = "remove"
        /\ pc' = [pc EXCEPT ![h] = IF Present(id[h]) THEN "kill" ELSE AfterCleanup(h)]
    BY <1>6 DEF Remove, Goto
  <2>2. Entries' = Entries \ {id[h]}
    BY <1>0, <2>1 DEF Entries, Present, Absent
  <2>3. CASE Present(id[h])
    <3>1. id[h] \in Entries
      BY <1>0, <2>3 DEF Entries
    <3>2. Past' = Past \cup {h} /\ h \notin Past
      BY <1>0, <2>1, <2>3 DEF Past, Booting
    <3>3. IsFiniteSet(Entries') /\ Cardinality(Entries') = Cardinality(Entries) - 1
      BY <2>2, <3>1, FS_RemoveElement DEF CeilingInv
    <3>4. Cardinality(Past') = Cardinality(Past) + 1
      BY <3>2, Counts, FS_AddElement
    <3> QED BY <3>3, <3>4, Counts DEF CeilingInv
  <2>4. CASE ~Present(id[h])
    <3>1. Past' \subseteq Past
      BY <1>0, <2>1, <2>4 DEF Past, Booting, AfterCleanup
    <3> QED BY <1>1, <2>2, <3>1
  <2> QED BY <2>3, <2>4
<1>7. ASSUME NEW p \in Processes, Binds(p) \/ Dies(p) PROVE CeilingInv'
  BY <1>1, <1>7 DEF Binds, Dies, taskVars, Entries, Present, Past
<1>8. CASE UNCHANGED vars
  BY <1>1, <1>8 DEF vars, taskVars, Entries, Present, Past
<1> QED BY StepCases, <1>2, <1>3, <1>4, <1>5, <1>6, <1>7, <1>8

\* A live process is an entry's or that of a call in flight.
LEMMA LiveCount == TypeInv /\ OwnerInv /\ CeilingInv => LiveSandboxesBounded
<1> SUFFICES ASSUME TypeInv, OwnerInv, CeilingInv PROVE LiveSandboxesBounded
  OBVIOUS
<1> DEFINE ofEntry == [i \in Ids |-> sandbox[i].child]
           alive   == {p \in Processes : Live(p)}
           inMap   == {ofEntry[i] : i \in Entries}
           inCalls == {child[h] : h \in Past}
<1>1. alive \subseteq inMap \cup inCalls
  <2> SUFFICES ASSUME NEW p \in Processes, Live(p) PROVE p \in inMap \cup inCalls
    OBVIOUS
  <2>1. p \in Owned /\ p # 0
    BY ProcessFacts DEF OwnerInv, LiveSandboxesAreOwned
  <2>2. CASE \E i \in Ids : sandbox[i].child = p
    BY <2>1, <2>2 DEF Entries, Present
  <2>3. CASE \E h \in Handlers : child[h] = p
    BY <2>1, <2>3 DEF TypeInv, TypeOK, Past, Booting
  <2> QED BY <2>1, <2>2, <2>3 DEF Owned
<1> HIDE DEF ofEntry
<1>2. /\ IsFiniteSet(inMap) /\ Cardinality(inMap) <= Cardinality(Entries) /\ Cardinality(inMap) \in Nat
      /\ IsFiniteSet(inCalls) /\ Cardinality(inCalls) <= Cardinality(Past) /\ Cardinality(inCalls) \in Nat
  BY ImageIsNoLarger, Counts, FS_CardinalityType DEF CeilingInv
<1> HIDE DEF inMap, inCalls
<1>3. /\ IsFiniteSet(inMap \cup inCalls)
      /\ Cardinality(inMap \cup inCalls) <= Cardinality(inMap) + Cardinality(inCalls)
      /\ Cardinality(inMap \cup inCalls) \in Nat
  <2>1. Cardinality(inMap \cap inCalls) \in Nat
    BY <1>2, FS_Intersection, FS_CardinalityType
  <2>2. /\ IsFiniteSet(inMap \cup inCalls)
        /\ Cardinality(inMap \cup inCalls) =
             Cardinality(inMap) + Cardinality(inCalls) - Cardinality(inMap \cap inCalls)
    BY <1>2, FS_Union
  <2> QED BY <1>2, <2>1, <2>2, FS_CardinalityType
<1>4. Cardinality(alive) <= Cardinality(inMap \cup inCalls) /\ Cardinality(alive) \in Nat
  BY <1>1, <1>3, FS_Subset, FS_CardinalityType
<1>5. Cardinality(alive) < MaxSandboxes + Cardinality(Handlers)
  BY <1>2, <1>3, <1>4, Counts DEF CeilingInv
<1> QED BY <1>5 DEF LiveSandboxesBounded

\* Calls in flight can exceed the ceiling, which is checked long before the
\* insertion, but only by the other calls that passed it meanwhile.
THEOREM CeilingIsNearlyKept == Spec => []LiveSandboxesBounded
  BY LiveCount, TypeInit, TypeStep, HomeInit, HomeStep, OwnerInit, OwnerStep, CeilingInit, CeilingStep,
     PTL DEF Spec
=============================================================================
