----------------------------- MODULE MainInstance -----------------------------
(***************************************************************************)
(* src/mcp/server.rs: the main Frama-C instance behind the tools.          *)
(*                                                                         *)
(* reload_project starts the Frama-C process on first use, restarts it     *)
(* when the rte flag changes and otherwise reloads the files in place; the *)
(* other tools run analyses on whatever client is installed and cache what *)
(* they learn in SessionState.  Every tool call is a task (a Handler), so  *)
(* two of them interleave at every await.                                  *)
(*                                                                         *)
(* A process is a number; 0 stands for none.  What a process has parsed is *)
(* abstracted to the number of the parse (ast); a cache holds the number   *)
(* of the AST it was filled from, 0 when empty.                            *)
(* Requests are atomic here: FramaCClient.tla models the wire.             *)
(***************************************************************************)
EXTENDS Naturals, FiniteSets

CONSTANTS
  Handlers,   \* concurrent tool calls
  NoHandler,  \* a mutex is free
  Queries,    \* the analyses that are called, out of Analyses
  MaxCalls,   \* bound: tool calls made
  MaxSpawns,  \* bound: main processes started
  MaxFlips,   \* bound: lock_project and unlock_project calls
  Faults      \* "crash": a process dies; "fail": a request or a spawn fails

Analyses == {"functions", "globals", "callgraph", "eva", "wp"}

ASSUME MainAssumption ==
  /\ NoHandler \notin Handlers
  /\ Queries \subseteq Analyses
  /\ MaxCalls \in Nat /\ MaxSpawns \in Nat /\ MaxFlips \in Nat
  /\ Faults \subseteq {"crash", "fail"}

VARIABLES
  status,      \* of each process: "none", "booting", "up", "dead"
  rteOf,       \* the process was started with -rte
  ast,         \* the parse each process holds, 0 for no files
  parses,      \* parses made so far
  proofs,      \* WP runs made on each process
  socketFile,  \* the process whose socket the fixed path names
  main,        \* main_frama_c_state: the child and its with_rte
  client,      \* the process the installed client is connected to
  mainLock,    \* the task that holds main_frama_c_state
  clientLock,  \* the task that holds client
  loaded,      \* SessionState.project_loaded
  cache,       \* SessionState: the AST each cached result was taken from
  locked,      \* project_locked
  pc,          \* where each tool call is
  want,        \* the rte argument of its reload
  query,       \* the analysis it runs
  child,       \* the process it has spawned and owns
  conn,        \* the process its clone of the client talks to
  got,         \* the AST its answer describes
  alone,       \* history: no other call overlapped this one
  calls, flips \* counted for the bounds

processVars == <<status, rteOf, ast, parses, proofs, socketFile>>
serverVars  == <<main, client, loaded, cache, locked>>
lockVars    == <<mainLock, clientLock>>
taskVars    == <<pc, want, query, child, conn, got>>
boundVars   == <<alone, calls, flips>>
vars == <<processVars, serverVars, lockVars, taskVars, boundVars>>

Processes == 1 .. MaxSpawns
None      == [child |-> 0, rte |-> FALSE]

\* A task holds main_frama_c_state, or client, at these points.
HoldsMain   == {"lockClient", "installClient", "installed"}
HoldsClient == {"installed"}
\* A task awaits the answer to a request at these points.
Requesting == {"files", "set0", "set1", "compute", "get", "run", "read"}
Reloading  == {"files", "lockMain", "lockClient", "spawn", "socket", "connect", "handshake",
               "installMain", "installClient", "installed",
               "set0", "set1", "compute", "recache", "fetch", "get", "store"}
Querying   == {"ask", "run", "askAgain", "read", "put"}

Live(p) == status[p] \in {"booting", "up"}
Up(p)   == p # 0 /\ status[p] = "up"

Init ==
  /\ status = [p \in Processes |-> "none"]
  /\ rteOf = [p \in Processes |-> FALSE]
  /\ ast = [p \in Processes |-> 0]
  /\ parses = 0
  /\ proofs = [p \in Processes |-> 0]
  /\ socketFile = 0
  /\ main = None
  /\ client = 0
  /\ mainLock = NoHandler
  /\ clientLock = NoHandler
  /\ loaded = FALSE
  /\ cache = [a \in Analyses |-> 0]
  /\ locked = FALSE
  /\ pc = [h \in Handlers |-> "idle"]
  /\ want = [h \in Handlers |-> FALSE]
  /\ query = [h \in Handlers |-> "functions"]
  /\ child = [h \in Handlers |-> 0]
  /\ conn = [h \in Handlers |-> 0]
  /\ got = [h \in Handlers |-> 0]
  /\ alone = [h \in Handlers |-> FALSE]
  /\ calls = 0
  /\ flips = 0

-----------------------------------------------------------------------------
(* Steps shared by the tools.                                              *)

Goto(h, l) == pc' = [pc EXCEPT ![h] = l]

\* The call returns, with a result or an error; its locals are dropped, and a
\* child it still owns is killed with them (kill_on_drop).
Return(h) ==
  /\ Goto(h, "idle")
  /\ child' = [child EXCEPT ![h] = 0]
  /\ conn' = [conn EXCEPT ![h] = 0]
  /\ got' = [got EXCEPT ![h] = 0]
  /\ UNCHANGED <<want, query>>

\* kill_on_drop: the processes in ps are SIGKILLed.
Killed(ps) == [p \in Processes |-> IF p \in ps THEN "dead" ELSE status[p]]

\* Mutant: kill_on_drop(false).
KilledNone(ps) == status

\* A child is dropped.
Dropped(ps) == Killed(ps)

StartCall(h) ==
  /\ pc[h] = "idle"
  /\ calls < MaxCalls
  /\ calls' = calls + 1
  /\ alone' = [g \in Handlers |-> g = h /\ \A x \in Handlers \ {h} : pc[x] = "idle"]
  /\ UNCHANGED flips

\* A request to a process that does not answer returns an error.
RequestFails(h) ==
  /\ pc[h] \in Requesting
  /\ ~Up(conn[h]) \/ "fail" \in Faults
  /\ Return(h)
  /\ UNCHANGED <<processVars, serverVars, lockVars, boundVars>>

-----------------------------------------------------------------------------
(* reload_project.                                                         *)

\* Mutant: reload_project does not look at project_locked.
ReloadAllowedAlways == TRUE

ReloadAllowed == ~locked

\* With files the call goes on to ensure_main_spawned; without, the installed
\* client is asked for its files.  (Rejections change nothing.)
ReloadCall(h, rte, files) ==
  /\ StartCall(h)
  /\ ReloadAllowed
  /\ want' = [want EXCEPT ![h] = rte]
  /\ \/ files /\ Goto(h, "lockMain") /\ UNCHANGED conn
     \/ /\ ~files
        /\ clientLock = NoHandler /\ client # 0
        /\ conn' = [conn EXCEPT ![h] = client]
        /\ Goto(h, "files")
  /\ UNCHANGED <<processVars, serverVars, lockVars, query, child, got>>

GetFiles(h) ==
  /\ pc[h] = "files"
  /\ Up(conn[h])
  /\ Goto(h, "lockMain")
  /\ conn' = [conn EXCEPT ![h] = 0]
  /\ UNCHANGED <<processVars, serverVars, lockVars, want, query, child, got, boundVars>>

\* ensure_main_spawned takes main_frama_c_state, then client.
LockMain(h) ==
  /\ pc[h] = "lockMain"
  /\ mainLock = NoHandler
  /\ mainLock' = h
  /\ Goto(h, "lockClient")
  /\ UNCHANGED <<processVars, serverVars, clientLock, want, query, child, conn, got, boundVars>>

NeedsRespawn(h) == main.child = 0 \/ main.rte # want[h]

\* Mutant: the in-place branch keeps main_frama_c_state.
ReleaseMainLate(h) == IF NeedsRespawn(h) THEN NoHandler ELSE h

\* drop(client_lock); drop(main_lock), in both branches.
ReleaseMain(h) == NoHandler

\* Decided under both locks; they are dropped before anything is awaited.
Decide(h) ==
  /\ pc[h] = "lockClient"
  /\ clientLock = NoHandler
  /\ mainLock' = ReleaseMain(h)
  /\ IF NeedsRespawn(h)
     THEN Goto(h, "spawn") /\ UNCHANGED conn
     ELSE Goto(h, "set0") /\ conn' = [conn EXCEPT ![h] = client]
  /\ UNCHANGED <<processVars, serverVars, clientLock, want, query, child, got, boundVars>>

-----------------------------------------------------------------------------
(* ensure_main_spawned, branches 1 and 2: a new process.                   *)

NewProcess == CHOOSE p \in Processes : status[p] = "none"

\* The residual socket file is removed, whosever it is, and Frama-C started.
Spawn(h) ==
  /\ pc[h] = "spawn"
  /\ \E p \in Processes : status[p] = "none"
  /\ child' = [child EXCEPT ![h] = NewProcess]
  /\ status' = [status EXCEPT ![NewProcess] = "booting"]
  /\ rteOf' = [rteOf EXCEPT ![NewProcess] = want[h]]
  /\ socketFile' = 0
  /\ Goto(h, "socket")
  /\ UNCHANGED <<ast, parses, proofs, serverVars, lockVars, want, query, conn, got, boundVars>>

\* The log file or the process cannot be created.  (Once MaxSpawns processes
\* have been used up, every later one fails.)
SpawnFails(h) ==
  /\ pc[h] = "spawn"
  /\ "fail" \in Faults \/ \A p \in Processes : status[p] # "none"
  /\ Return(h)
  /\ socketFile' = 0
  /\ UNCHANGED <<status, rteOf, ast, parses, proofs, serverVars, lockVars, boundVars>>

\* wait_socket_ready: the file exists, whichever process bound it.
SocketReady(h) ==
  /\ pc[h] = "socket"
  /\ socketFile # 0
  /\ Goto(h, "connect")
  /\ UNCHANGED <<processVars, serverVars, lockVars, want, query, child, conn, got, boundVars>>

\* Ten seconds without the file: the child is killed and waited for.
SocketTimeout(h) ==
  /\ pc[h] = "socket"
  /\ socketFile = 0
  /\ status' = Dropped({child[h]})
  /\ Return(h)
  /\ UNCHANGED <<rteOf, ast, parses, proofs, socketFile, serverVars, lockVars, boundVars>>

\* Transport::connect to the process that bound the file last.
Connect(h) ==
  /\ pc[h] = "connect"
  /\ Up(socketFile)
  /\ conn' = [conn EXCEPT ![h] = socketFile]
  /\ Goto(h, "handshake")
  /\ UNCHANGED <<processVars, serverVars, lockVars, want, query, child, got, boundVars>>

\* A Frama-C server serves one connection at a time.
Serves(p, h) == Up(p) /\ client # p /\ \A g \in Handlers \ {h} : conn[g] # p

\* The handshake and the fetch in FramaCClient::connect, which fills the shared
\* session state although this client is not installed yet.
Handshake(h) ==
  /\ pc[h] = "handshake"
  /\ Serves(conn[h], h)
  /\ \E fetched \in {0, ast[conn[h]]} : cache' = [cache EXCEPT !["functions"] = fetched]
  /\ loaded' = TRUE
  /\ Goto(h, "installMain")
  /\ UNCHANGED <<processVars, main, client, locked, lockVars, want, query, child, conn, got, boundVars>>

\* No connection, or no answer: the error drops the child.
ConnectFails(h) ==
  /\ \/ pc[h] = "connect" /\ ~Up(socketFile)
     \/ pc[h] = "handshake" /\ ~Serves(conn[h], h)
     \/ pc[h] \in {"connect", "handshake"} /\ "fail" \in Faults
  /\ status' = Dropped({child[h]})
  /\ Return(h)
  /\ UNCHANGED <<rteOf, ast, parses, proofs, socketFile, serverVars, lockVars, boundVars>>

\* Mutant: the state is assigned under its own lock only, the client later.
InstallMainEarly(h) ==
  /\ pc[h] = "installMain"
  /\ mainLock = NoHandler
  /\ main' = [child |-> child[h], rte |-> want[h]]
  /\ status' = Dropped({main.child})
  /\ Goto(h, "installClient")
  /\ UNCHANGED <<rteOf, ast, parses, proofs, socketFile, client, loaded, cache, locked,
                 lockVars, want, query, child, conn, got, boundVars>>

InstallMain(h) ==
  /\ pc[h] = "installMain"
  /\ mainLock = NoHandler
  /\ mainLock' = h
  /\ Goto(h, "installClient")
  /\ UNCHANGED <<processVars, serverVars, clientLock, want, query, child, conn, got, boundVars>>

\* Under both locks the new child and client replace the old ones; the old
\* child is dropped, hence killed.
Install(h) ==
  /\ pc[h] = "installClient"
  /\ clientLock = NoHandler
  /\ clientLock' = h
  /\ main' = [child |-> child[h], rte |-> want[h]]
  /\ client' = conn[h]
  /\ status' = Dropped({main.child})
  /\ child' = [child EXCEPT ![h] = 0]
  /\ conn' = [conn EXCEPT ![h] = 0]
  /\ Goto(h, "installed")
  /\ UNCHANGED <<rteOf, ast, parses, proofs, socketFile, loaded, cache, locked,
                 mainLock, want, query, got, boundVars>>

\* project_loaded, while the locks are still held; then both are dropped.
Installed(h) ==
  /\ pc[h] = "installed"
  /\ loaded' = TRUE
  /\ mainLock' = NoHandler
  /\ clientLock' = NoHandler
  /\ Goto(h, "fetch")
  /\ UNCHANGED <<processVars, main, client, cache, locked, want, query, child, conn, got, boundVars>>

-----------------------------------------------------------------------------
(* Branch 3, reload_files_in_place: setFiles [], setFiles files, compute.  *)

Parsed(p) ==
  /\ ast' = [ast EXCEPT ![p] = parses + 1]
  /\ parses' = parses + 1
  /\ UNCHANGED <<status, rteOf, proofs, socketFile>>

SetNoFiles(h) ==
  /\ pc[h] = "set0"
  /\ Up(conn[h])
  /\ ast' = [ast EXCEPT ![conn[h]] = 0]
  /\ Goto(h, "set1")
  /\ UNCHANGED <<status, rteOf, parses, proofs, socketFile, serverVars, lockVars,
                 want, query, child, conn, got, boundVars>>

SetFiles(h) ==
  /\ pc[h] = "set1"
  /\ Up(conn[h])
  /\ Goto(h, "compute")
  /\ UNCHANGED <<processVars, serverVars, lockVars, want, query, child, conn, got, boundVars>>

Compute(h) ==
  /\ pc[h] = "compute"
  /\ Up(conn[h])
  /\ Parsed(conn[h])
  /\ Goto(h, "recache")
  /\ conn' = [conn EXCEPT ![h] = 0]
  /\ UNCHANGED <<serverVars, lockVars, want, query, child, got, boundVars>>

\* The answer is given up but the request takes effect.
EffectUnanswered(h) ==
  /\ "fail" \in Faults
  /\ Up(conn[h])
  /\ \/ /\ pc[h] = "set0"
        /\ ast' = [ast EXCEPT ![conn[h]] = 0]
        /\ UNCHANGED <<status, rteOf, parses, proofs, socketFile>>
     \/ /\ pc[h] = "compute"
        /\ Parsed(conn[h])
  /\ Return(h)
  /\ UNCHANGED <<serverVars, lockVars, boundVars>>

\* main_frama_c_state is taken again for the file list, and dropped.
Recache(h) ==
  /\ pc[h] = "recache"
  /\ mainLock = NoHandler
  /\ loaded' = TRUE
  /\ Goto(h, "fetch")
  /\ UNCHANGED <<processVars, main, client, cache, locked, lockVars, want, query, child, conn, got, boundVars>>

-----------------------------------------------------------------------------
(* reload_project after ensure_main_spawned.                               *)

\* require_client: the client installed now.
Fetch(h) ==
  /\ pc[h] = "fetch"
  /\ clientLock = NoHandler
  /\ client # 0
  /\ conn' = [conn EXCEPT ![h] = client]
  /\ Goto(h, "get")
  /\ UNCHANGED <<processVars, serverVars, lockVars, want, query, child, got, boundVars>>

\* reloadFunctions and the pages of fetchFunctions.
GetFunctions(h) ==
  /\ pc[h] = "get"
  /\ Up(conn[h])
  /\ got' = [got EXCEPT ![h] = ast[conn[h]]]
  /\ Goto(h, "store")
  /\ UNCHANGED <<processVars, serverVars, lockVars, want, query, child, conn, boundVars>>

\* Mutant: the caches are not invalidated.
NotInvalidated == cache

\* SessionState::invalidate_all.
Invalidated == [a \in Analyses |-> 0]

\* One critical section: invalidate_all, update_functions, project_loaded.
Store(h) ==
  /\ pc[h] = "store"
  /\ cache' = [Invalidated EXCEPT !["functions"] = got[h]]
  /\ loaded' = TRUE
  /\ Return(h)
  /\ UNCHANGED <<processVars, main, client, locked, lockVars, boundVars>>

-----------------------------------------------------------------------------
(* The analyses on the main instance: run_eva, run_wp_main,                *)
(* ensure_callgraph_cached, resolve_function_or_refresh (and global).      *)
(* Each asks for the client, runs, asks again, reads, and stores.          *)

QueryAllowed(a) ==
  /\ a = "wp" => ~locked
  /\ a = "callgraph" => cache["callgraph"] = 0

QueryCall(h, a) ==
  /\ StartCall(h)
  /\ QueryAllowed(a)
  /\ query' = [query EXCEPT ![h] = a]
  /\ Goto(h, "ask")
  /\ UNCHANGED <<processVars, serverVars, lockVars, want, child, conn, got>>

\* require_client.
Ask(h) ==
  /\ \/ pc[h] = "ask" /\ Goto(h, "run")
     \/ pc[h] = "askAgain" /\ Goto(h, "read")
  /\ clientLock = NoHandler
  /\ client # 0
  /\ conn' = [conn EXCEPT ![h] = client]
  /\ UNCHANGED <<processVars, serverVars, lockVars, want, query, child, got, boundVars>>

\* NoProjectLoaded.
NoClient(h) ==
  /\ pc[h] \in {"ask", "askAgain", "fetch"}
  /\ clientLock = NoHandler
  /\ client = 0
  /\ Return(h)
  /\ UNCHANGED <<processVars, serverVars, lockVars, boundVars>>

\* The EXEC (for functions, the reload of the iterator).
Run(h) ==
  /\ pc[h] = "run"
  /\ Up(conn[h])
  /\ proofs' = IF query[h] = "wp" THEN [proofs EXCEPT ![conn[h]] = @ + 1] ELSE proofs
  /\ got' = [got EXCEPT ![h] = ast[conn[h]]]
  /\ conn' = [conn EXCEPT ![h] = 0]
  /\ Goto(h, "askAgain")
  /\ UNCHANGED <<status, rteOf, ast, parses, socketFile, serverVars, lockVars,
                 want, query, child, boundVars>>

\* The GETs that follow; the graph and the functions come from them.
Read(h) ==
  /\ pc[h] = "read"
  /\ Up(conn[h])
  /\ got' = [got EXCEPT ![h] = IF query[h] \in {"eva", "wp"} THEN @ ELSE ast[conn[h]]]
  /\ conn' = [conn EXCEPT ![h] = 0]
  /\ Goto(h, "put")
  /\ UNCHANGED <<processVars, serverVars, lockVars, want, query, child, boundVars>>

\* set_eva_completed, set_wp_completed, update_callgraph, update_functions.
Put(h) ==
  /\ pc[h] = "put"
  /\ cache' = [cache EXCEPT ![query[h]] = got[h]]
  /\ Return(h)
  /\ UNCHANGED <<processVars, main, client, loaded, locked, lockVars, boundVars>>

-----------------------------------------------------------------------------
(* lock_project, unlock_project, and the processes.                        *)

SetLocked(b) ==
  /\ flips < MaxFlips
  /\ locked # b
  /\ flips' = flips + 1
  /\ locked' = b
  /\ UNCHANGED <<processVars, main, client, loaded, cache, lockVars, taskVars, alone, calls>>

\* A process parses its files and binds its socket over the file.
Boot(p) ==
  /\ status[p] = "booting"
  /\ status' = [status EXCEPT ![p] = "up"]
  /\ ast' = [ast EXCEPT ![p] = parses + 1]
  /\ parses' = parses + 1
  /\ socketFile' = p
  /\ UNCHANGED <<rteOf, proofs, serverVars, lockVars, taskVars, boundVars>>

Crash(p) ==
  /\ "crash" \in Faults
  /\ Live(p)
  /\ status' = [status EXCEPT ![p] = "dead"]
  /\ UNCHANGED <<rteOf, ast, parses, proofs, socketFile, serverVars, lockVars, taskVars, boundVars>>

\* The bound is reached, or every further reload is rejected.
Finished ==
  /\ calls = MaxCalls \/ locked
  /\ \A h \in Handlers : pc[h] = "idle"
  /\ UNCHANGED vars

-----------------------------------------------------------------------------

\* Everything a handler does once its call has begun.
Step(h) ==
  \/ GetFiles(h) \/ LockMain(h) \/ Decide(h)
  \/ Spawn(h) \/ SpawnFails(h) \/ SocketReady(h) \/ SocketTimeout(h)
  \/ Connect(h) \/ Handshake(h) \/ ConnectFails(h)
  \/ InstallMain(h) \/ Install(h) \/ Installed(h)
  \/ SetNoFiles(h) \/ SetFiles(h) \/ Compute(h) \/ EffectUnanswered(h) \/ Recache(h)
  \/ Fetch(h) \/ GetFunctions(h) \/ Store(h)
  \/ Ask(h) \/ NoClient(h) \/ Run(h) \/ Read(h) \/ Put(h)
  \/ RequestFails(h)

Next ==
  \/ \E h \in Handlers : \E rte, files \in BOOLEAN : ReloadCall(h, rte, files)
  \/ \E h \in Handlers : \E a \in Queries : QueryCall(h, a)
  \/ \E h \in Handlers : Step(h)
  \/ \E b \in BOOLEAN : SetLocked(b)
  \/ \E p \in Processes : Boot(p) \/ Crash(p)
  \/ Finished

Spec == Init /\ [][Next]_vars

\* The scheduler runs every task; nothing is assumed of the processes.
FairSpec == Spec /\ \A h \in Handlers : WF_vars(Step(h))

-----------------------------------------------------------------------------
(* Properties.                                                             *)

\* Every variable keeps its type, and each mutex is held by the task whose
\* program counter says so.
TypeOK ==
  /\ status \in [Processes -> {"none", "booting", "up", "dead"}]
  /\ rteOf \in [Processes -> BOOLEAN]
  /\ parses \in Nat
  /\ ast \in [Processes -> 0 .. parses]
  /\ proofs \in [Processes -> Nat]
  /\ socketFile \in 0 .. MaxSpawns
  /\ main \in [child : 0 .. MaxSpawns, rte : BOOLEAN]
  /\ client \in 0 .. MaxSpawns
  /\ mainLock \in Handlers \cup {NoHandler}
  /\ clientLock \in Handlers \cup {NoHandler}
  /\ loaded \in BOOLEAN /\ locked \in BOOLEAN
  /\ cache \in [Analyses -> 0 .. parses]
  /\ pc \in [Handlers -> {"idle"} \cup Reloading \cup Querying]
  /\ want \in [Handlers -> BOOLEAN]
  /\ query \in [Handlers -> Analyses]
  /\ child \in [Handlers -> 0 .. MaxSpawns]
  /\ conn \in [Handlers -> 0 .. MaxSpawns]
  /\ got \in [Handlers -> 0 .. parses]
  /\ alone \in [Handlers -> BOOLEAN]
  /\ calls \in Nat /\ flips \in Nat
  /\ \A h \in Handlers : (pc[h] \in HoldsMain) <=> (mainLock = h)
  /\ \A h \in Handlers : (pc[h] \in HoldsClient) <=> (clientLock = h)

\* No Frama-C process is left behind: whatever spawns race, time out or fail,
\* a live process is the installed child or is owned by a call that will
\* install or kill it.
LiveProcessesAreOwned ==
  \A p \in Processes : Live(p) => p = main.child \/ \E h \in Handlers : child[h] = p

\* "invariant: client <=> state": the in-place branch, which runs between the
\* locks of other calls, always finds a client, so its expect never panics.
ClientIffMain == (client = 0) <=> (main.child = 0)

\* Processes and the client belong to somebody: no process is left behind, and no
\* client stands without the child it was installed with.
NothingIsLeftBehind == LiveProcessesAreOwned /\ ClientIffMain

\* A reload that met no other call and succeeded leaves the client connected
\* to the installed child, started with the rte flag that was asked for, the
\* functions those of what that process now holds, and every other result
\* forgotten, whatever earlier calls failed or raced.
SoloReloadIsFresh ==
  [][\A h \in Handlers :
       pc[h] = "store" /\ pc'[h] = "idle" /\ alone[h] =>
         /\ loaded' /\ client' # 0
         /\ client' = main'.child
         /\ rteOf'[client'] = want[h] /\ main'.rte = want[h]
         /\ \A a \in Analyses : cache'[a] = IF a = "functions" THEN ast'[client'] ELSE 0]_vars

\* A call that passed the lock check and can still touch the main instance.
Touching(h) == pc[h] \in Reloading \/ (pc[h] \in Querying /\ query[h] = "wp")
Quiet == \A h \in Handlers : ~Touching(h)

\* Once the calls admitted before lock_project have returned, nothing
\* replaces, reparses or runs WP on the main instance until unlock_project.
LockFreezesOnceQuiet ==
  [][locked /\ Quiet /\ locked' =>
       /\ Quiet'
       /\ main' = main /\ client' = client
       /\ client # 0 => ast'[client] = ast[client] /\ proofs'[client] = proofs[client]]_vars

\* Every tool call returns, although the two mutexes are taken again while
\* other calls hold and want them, and although processes die or hang.
EveryToolReturns == \A h \in Handlers : pc[h] # "idle" ~> pc[h] = "idle"
=============================================================================
