----------------------------- MODULE ProjectState -----------------------------
(***************************************************************************)
(* src/mcp/server.rs: the state of the verification of the whole program.  *)
(* compute_topological_order derives the verification order from the       *)
(* cached callgraph and seeds it in memory; store_project_state replaces   *)
(* (state_json) or merges (the four thin fields) what the agent keeps      *)
(* there, and writes a clone to _program.json after dropping the lock.     *)
(* At start nothing is read back.                                          *)
(*                                                                         *)
(* An order is known by whose it is and by the versions of the program its *)
(* callgraph and its set of defined functions come from.  What the agent   *)
(* stores is known by the calls that stored it.  Of reload_project, and of *)
(* the tools that refresh the cached functions or the callgraph, there is  *)
(* here what changes the program or a cache: MainInstance.tla has the      *)
(* processes, Analyses.tla the pages a list of functions may lose.         *)
(***************************************************************************)
EXTENDS Naturals

CONSTANTS
  Handlers,    \* concurrent tool calls
  MaxStores,   \* bound: store_project_state calls
  MaxReloads,  \* bound: versions of the program
  Faults       \* "io": persisting may fail; "frama": Frama-C does not answer

ASSUME ProjectAssumption ==
  /\ MaxStores \in Nat /\ MaxReloads \in Nat
  /\ Faults \subseteq {"io", "frama"}

VARIABLES
  installed, \* there is a client, and its Frama-C
  versions,  \* counts the programs that were parsed
  ast,       \* the one this Frama-C has, 0 for none
  late,      \* it still works on a request whose reload has given up
  functions, \* the version of SessionState.functions
  graph,     \* the version of the cached callgraph, 0 for none
  project,   \* SessionState.project_state
  file,      \* what agents stored that is in _program.json
  pc, got,   \* where each call is, and the order or version it has in hand
  clone,     \* the state a store persists, known by what agents stored
  stores,    \* counted for the bound
  seeded,    \* history: the order the server seeded last, if no thin store gave one since
  alone,     \* history: no other call overlapped the reload that changed the program last
  quiet,     \* history: such a reload succeeded, and none has changed anything since
  whole,     \* history: the order was seeded while quiet
  overlapped, \* history: two stores have been under way at once
  lagging    \* history: persisting failed, or a restart, since the last success

kernel == <<installed, versions, ast, late>>
caches == <<functions, graph>>
quietness == <<alone, quiet>>
storing == <<project, file, clone, stores, seeded, whole, overlapped, lagging>>
vars == <<kernel, caches, pc, got, quietness, storing>>

Versions == 0 .. MaxReloads
Order    == [by : {"nobody", "agent", "server"}, graph : Versions, defined : Versions]
NoOrder    == [by |-> "nobody", graph |-> 0, defined |-> 0]
AgentOrder == [by |-> "agent", graph |-> 0, defined |-> 0]
Computed(g, d) == [by |-> "server", graph |-> g, defined |-> d]

\* ProjectVerificationState: the agent's fields, the order, and the groups of
\* mutually recursive functions that go with it.
State   == [data : SUBSET (1 .. MaxStores), order : Order, groups : Order]
Default == [data |-> {}, order |-> NoOrder, groups |-> NoOrder]
None    == [data |-> {}]

Current == IF project = None THEN Default ELSE project

Init ==
  /\ installed = FALSE /\ versions = 0 /\ ast = 0 /\ late = FALSE
  /\ functions = 0 /\ graph = 0
  /\ project = None /\ file = {}
  /\ pc = [h \in Handlers |-> "idle"]
  /\ got = [h \in Handlers |-> NoOrder]
  /\ clone = [h \in Handlers |-> {}]
  /\ stores = 0
  /\ alone = TRUE /\ quiet = TRUE
  /\ seeded = NoOrder /\ whole = TRUE /\ overlapped = FALSE /\ lagging = FALSE

\* A call that reads or refreshes what a reload replaces, and a reload that has
\* replaced some of it.
Busy(h)      == pc[h] \notin {"idle", "persist"}
Replacing(h) == pc[h] \in {"compute", "install", "list", "update"}

\* The tools that use the program start.
Starts(h, at) ==
  /\ pc[h] = "idle"
  /\ pc' = [pc EXCEPT ![h] = at]
  /\ alone' = (alone /\ \A g \in Handlers : ~Replacing(g))
  /\ UNCHANGED <<kernel, caches, got, quiet, storing>>

\* And end.
Ends(h) ==
  /\ pc' = [pc EXCEPT ![h] = "idle"]
  /\ got' = [got EXCEPT ![h] = NoOrder]
  /\ UNCHANGED <<alone, storing>>

-----------------------------------------------------------------------------
(* reload_project.                                                         *)

Reload(h) == Starts(h, "parse")

Replaces(h, at) ==
  /\ pc[h] = "parse"
  /\ versions < MaxReloads
  /\ pc' = [pc EXCEPT ![h] = at]
  /\ alone' = (\A g \in Handlers : Busy(g) => g = h)
  /\ quiet' = FALSE
  /\ UNCHANGED <<installed, late, graph, storing>>

\* setFiles [] clears what was parsed.
Clear(h) ==
  /\ installed
  /\ Replaces(h, "compute")
  /\ ast' = 0
  /\ UNCHANGED <<versions, functions, got>>

\* The files are parsed in place; what was asked before is then done with.
Reparse(h) ==
  /\ pc[h] = "compute"
  /\ versions < MaxReloads
  /\ versions' = versions + 1
  /\ ast' = versions'
  /\ late' = FALSE
  /\ pc' = [pc EXCEPT ![h] = "list"]
  /\ UNCHANGED <<installed, caches, got, quietness, storing>>

\* Or by a process of their own, whose functions connect puts into the cache.
Connect(h) ==
  /\ Replaces(h, "install")
  /\ versions' = versions + 1
  /\ functions' = versions'
  /\ got' = [got EXCEPT ![h].defined = versions']
  /\ UNCHANGED ast

\* The process is installed, the old one is killed.
Install(h) ==
  /\ pc[h] = "install"
  /\ installed' = TRUE
  /\ ast' = got[h].defined
  /\ late' = FALSE
  /\ pc' = [pc EXCEPT ![h] = "list"]
  /\ UNCHANGED <<versions, caches, got, quietness, storing>>

\* The functions are fetched, by a reload or by a tool that misses one.
List(h) ==
  /\ pc[h] \in {"list", "miss"}
  /\ got' = [got EXCEPT ![h].defined = ast]
  /\ pc' = [pc EXCEPT ![h] = IF @ = "list" THEN "update" ELSE "found"]
  /\ UNCHANGED <<kernel, caches, quietness, storing>>

\* Mutant: the callgraph survives invalidate_all.
GraphKept == graph

\* invalidate_all clears the callgraph.
GraphAfterReload == 0

Refresh(h) ==
  /\ pc[h] = "update"
  /\ functions' = got[h].defined
  /\ graph' = GraphAfterReload
  /\ quiet' = alone
  /\ Ends(h)
  /\ UNCHANGED kernel

\* An error before or after the program has changed; the caches stay as they are.
\* A request that was given up may be on its way in Frama-C.
ReloadFails(h) ==
  /\ "frama" \in Faults
  /\ \/ pc[h] \in {"parse", "compute"} /\ late' \in {late, installed}
     \/ pc[h] = "list" /\ UNCHANGED late
  /\ quiet' = (quiet /\ ~late')
  /\ Ends(h)
  /\ UNCHANGED <<installed, versions, ast, caches>>

\* It is done after all: the files are cleared, or parsed.
LateParse ==
  /\ late
  /\ versions < MaxReloads
  /\ late' = FALSE
  /\ versions' = versions + 1
  /\ ast' \in {0, versions'}
  /\ UNCHANGED <<installed, caches, pc, got, quietness, storing>>

-----------------------------------------------------------------------------
(* resolve_function_or_refresh and list_functions.                         *)

Miss(h) == installed /\ Starts(h, "miss")

UpdateFunctions(h) ==
  /\ pc[h] = "found"
  /\ functions' = got[h].defined
  /\ Ends(h)
  /\ UNCHANGED <<kernel, graph, quiet>>

-----------------------------------------------------------------------------
(* compute_topological_order; the query tools share its first half.        *)

Compute(h) == installed /\ Starts(h, IF graph = 0 THEN "fetch" ELSE "read")

\* plugins.callgraph.getCallgraph is answered.
Fetch(h) ==
  /\ pc[h] = "fetch"
  /\ pc' = [pc EXCEPT ![h] = "cache"]
  /\ got' = [got EXCEPT ![h].graph = ast]
  /\ UNCHANGED <<kernel, caches, quietness, storing>>

FetchFails(h) ==
  /\ "frama" \in Faults
  /\ pc[h] \in {"fetch", "miss"}
  /\ Ends(h)
  /\ UNCHANGED <<kernel, caches, quiet>>

\* update_callgraph.
Cache(h) ==
  /\ pc[h] = "cache"
  /\ pc' = [pc EXCEPT ![h] = "read"]
  /\ graph' = got[h].graph
  /\ UNCHANGED <<kernel, functions, got, quietness, storing>>

\* Vertices, edges and defined functions are read under one lock.
Read(h) ==
  /\ pc[h] = "read"
  /\ pc' = [pc EXCEPT ![h] = "seed"]
  /\ got' = [got EXCEPT ![h] = Computed(graph, functions)]
  /\ UNCHANGED <<kernel, caches, quietness, storing>>

\* get_ready_functions and trace_call_chain answer from the callgraph.
Query(h) ==
  /\ pc[h] = "read"
  /\ Ends(h)
  /\ UNCHANGED <<kernel, caches, quiet>>

\* In memory only: the file has the order at the next store.
Seed(h) ==
  /\ pc[h] = "seed"
  /\ project' = [Current EXCEPT !.order = got[h], !.groups = got[h]]
  /\ seeded' = got[h]
  /\ whole' = quiet
  /\ pc' = [pc EXCEPT ![h] = "idle"]
  /\ got' = [got EXCEPT ![h] = NoOrder]
  /\ UNCHANGED <<kernel, caches, quietness, file, clone, stores, overlapped, lagging>>

-----------------------------------------------------------------------------
(* store_project_state.                                                    *)

Stores(h, new, persisted) ==
  /\ pc[h] = "idle"
  /\ stores < MaxStores
  /\ stores' = stores + 1
  /\ project' = new
  /\ clone' = [clone EXCEPT ![h] = persisted.data]
  /\ pc' = [pc EXCEPT ![h] = "persist"]
  /\ overlapped' = (overlapped \/ \E g \in Handlers : pc[g] = "persist")
  /\ UNCHANGED <<kernel, caches, got, quietness, file, whole, lagging>>

\* The full state replaces the old one but for the server's fields; with no
\* old one the agent's stand.
Full(o) ==
  IF project = None
  THEN [data |-> {stores + 1}, order |-> o, groups |-> o]
  ELSE [project EXCEPT !.data = {stores + 1}]

StoreFull(h, o) == Stores(h, Full(o), Full(o)) /\ UNCHANGED seeded

\* The fields given replace those there are; the order is one of them.
Thin(o) ==
  [Current EXCEPT !.data = @ \cup {stores + 1}, !.order = IF o = NoOrder THEN @ ELSE o]

\* Mutant: the state is cloned before the merge.
ThinBefore(o) == Current

\* The clone is taken after the merge, under the same lock.
ThinClone(o) == Thin(o)

StoreThin(h, o) ==
  /\ Stores(h, Thin(o), ThinClone(o))
  /\ seeded' = IF o = NoOrder THEN seeded ELSE NoOrder

\* Mutant: the clone outlives the call.
CloneKept(h) == clone

CloneDropped(h) == [clone EXCEPT ![h] = {}]

Return(h) ==
  /\ pc' = [pc EXCEPT ![h] = "idle"]
  /\ clone' = CloneDropped(h)
  /\ UNCHANGED <<kernel, caches, got, quietness, project, stores, seeded, whole, overlapped>>

\* persist_program_state, after drop(state); one step here, see TmpRename.tla.
Persist(h) ==
  /\ pc[h] = "persist"
  /\ file' = clone[h]
  /\ lagging' = FALSE
  /\ Return(h)

\* {"stored": false, "persist_error": ...}
PersistFails(h) ==
  /\ "io" \in Faults
  /\ pc[h] = "persist"
  /\ lagging' = TRUE
  /\ Return(h)
  /\ UNCHANGED file

-----------------------------------------------------------------------------
\* The server is killed and started again: only the file is left.
Restart ==
  /\ installed' = FALSE /\ ast' = 0 /\ late' = FALSE
  /\ functions' = 0 /\ graph' = 0
  /\ project' = None
  /\ pc' = [h \in Handlers |-> "idle"]
  /\ got' = [h \in Handlers |-> NoOrder]
  /\ clone' = [h \in Handlers |-> {}]
  /\ alone' = TRUE /\ quiet' = TRUE
  /\ seeded' = NoOrder /\ whole' = TRUE /\ overlapped' = FALSE /\ lagging' = TRUE
  /\ UNCHANGED <<versions, file, stores>>

Finished ==
  /\ stores = MaxStores
  /\ \A h \in Handlers : pc[h] = "idle"
  /\ UNCHANGED vars

Next ==
  \/ \E h \in Handlers :
       \/ Reload(h) \/ Clear(h) \/ Reparse(h) \/ Connect(h) \/ Install(h) \/ List(h) \/ Refresh(h)
       \/ ReloadFails(h)
       \/ Miss(h) \/ UpdateFunctions(h)
       \/ Compute(h) \/ Fetch(h) \/ FetchFails(h) \/ Cache(h) \/ Read(h) \/ Query(h) \/ Seed(h)
       \/ \E o \in {NoOrder, AgentOrder} : StoreFull(h, o) \/ StoreThin(h, o)
       \/ Persist(h) \/ PersistFails(h)
  \/ LateParse \/ Restart \/ Finished

Spec == Init /\ [][Next]_vars

-----------------------------------------------------------------------------
(* Properties.                                                             *)

\* Every variable keeps its type; a clone exists exactly while it is persisted.
TypeOK ==
  /\ versions \in Versions /\ {ast, functions, graph} \subseteq 0 .. versions
  /\ installed \in BOOLEAN /\ late \in BOOLEAN /\ alone \in BOOLEAN /\ quiet \in BOOLEAN /\ whole \in BOOLEAN
  /\ project \in State \cup {None} /\ file \subseteq 1 .. MaxStores
  /\ pc \in [Handlers -> {"idle", "parse", "compute", "install", "list", "update", "miss", "found",
                          "fetch", "cache", "read", "seed", "persist"}]
  /\ got \in [Handlers -> Order]
  /\ clone \in [Handlers -> SUBSET (1 .. MaxStores)]
  /\ \A h \in Handlers : pc[h] = "persist" <=> clone[h] # {}
  /\ stores \in 0 .. MaxStores
  /\ seeded \in Order /\ overlapped \in BOOLEAN /\ lagging \in BOOLEAN

\* Once the server has seeded an order, the order and the groups stay the ones
\* it computed last, whatever orders agents put into the full states they store.
\* (An order given by the thin path replaces it.)
SeededOrderStands ==
  seeded # NoOrder => project # None /\ project.order = seeded /\ project.groups = seeded

\* A reload that succeeds, and that no other call overlaps, repairs whatever
\* reloads that raced or failed half-way have left: from then on, until a reload
\* changes the program again, the cached functions and the callgraph are those of
\* the program Frama-C has, whichever tools refresh them, and an order that is
\* seeded has both from one version of it.
SeededOrderIsOfOneProgram ==
  /\ quiet => functions = ast /\ graph \in {0, ast}
  /\ whole /\ seeded # NoOrder => seeded.graph = seeded.defined

\* The order agents follow is the server's, and of one program unless a reload
\* was under way or has failed half-way since the caches were last repaired.
OrderIsTheServers == SeededOrderStands /\ SeededOrderIsOfOneProgram

\* The file carries the state that scripts read from disk (server.rs:210-212):
\* as long as callers take turns, it has what the last store left in memory
\* once that store has answered; only the order may be newer in memory.
FileFollowsMemory ==
  (\A h \in Handlers : pc[h] # "persist") /\ ~overlapped /\ ~lagging /\ project # None =>
    project.data = file
=============================================================================
