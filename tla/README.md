# A verification of frama-c-mcp-server

TLA+ models of `frama-c-mcp-server`, a Rust MCP server that drives Frama-C processes on behalf of language-model
agents, with the TLC runs that check them and the TLAPS proofs about them. All modules are translated from the code
under `src/`; line numbers in comments are of that code.

## The system

| Component | State it keeps | Operations | What makes it correct |
|---|---|---|---|
| Wire client (`frama_c/client.rs`) | request counter, one mutex, the socket | `connect`, `get`, `set`, `exec`, poll, kill | an answer goes to its own call; an abandoned operation is cancelled; every call returns |
| Codec and transport (`codec.rs`, `transport.rs`) | read buffer | encode, decode, receive with timeout | decoding inverts encoding, in whatever portions the bytes arrive; a bad frame does no more damage than its call |
| Paged fetch (`client.rs`) | a position per array, in Frama-C | `fetch_all` | a complete array, or an error |
| Main instance (`server.rs`) | child process, client, file list, rte flag, project lock | `reload_project` (spawn, respawn, in place), `lock_project`, `unlock_project`, `run_eva`, `run_wp` | no process is leaked; client and child belong together; a reload leaves no stale cache; the lock freezes the instance |
| Session caches (`state.rs`) | functions, globals, callgraph, EVA and WP completion | update, `invalidate_all` | caches are of the parsed program |
| Sandboxes (`server.rs`) | map from experiment id to process, client and directory | create, reset, delete, add annotation | one owner per process; the ceiling; an id is one sandbox; what the conclusion says of the sandbox is true |
| Conclusions (`state.rs`, `server.rs`) | a record per function, in memory and in `<function>/meta.json` | `store_function_conclusion`, the sandbox events, recovery at start | acknowledged updates are durable; fields of different attempts do not mix |
| Project state (`server.rs`) | `ProjectVerificationState`, in memory and in `_program.json` | `compute_topological_order` (seed), `store_project_state` (full, thin) | the order is the server's; the file follows memory |
| File persistence (`server.rs`) | a file and its `.json.tmp` | write, rename | the file is replaced atomically |
| Topological order (`topo.rs`) | none | levels, groups, ready functions | callees first, groups are the cycles, a scheduler gets to the end |
| WP runs (`server.rs`) | prover, timeout, model and property filter, in Frama-C | `run_wp_main`, `run_wp_sandbox`, `get_wp_goals` | what was asked for is proved, with the settings given |
| Injection (`server.rs`) | annotations in a Frama-C AST | `inject_all_annotations_sandbox`, `inject_all_annotations_main` | the answer agrees with the AST, an annotation is at its own loop |
| Query tools, parameters, process start | none of their own | read, format, parse | - |
| ast-utils plugin (OCaml) | Frama-C's AST | export, extract, ghost code, annotate | runs inside Frama-C |

How they interact. Each tool call is a task of a multi-threaded tokio runtime; several run at once. A call takes the
client of the main instance or of a sandbox, which it shares with other calls, and sends requests through the wire
client, whose mutex serves calls in turn. Locks on the session state, on the map of sandboxes, on the client and on the
main instance are taken for a few statements and, with few exceptions, dropped before the next await, so that the other
calls see what is between two awaits of one call. Files are written with no lock held. Processes belong to whoever
holds their handle and are killed when it is dropped.

What is hard: answers that come after their call has given up; two calls that spawn, create or write at once; checks
whose answer is old when it is used; steps that fail in the middle; Frama-C dying at any moment; the server being
killed between memory and disk. `PROJECT.json` lists these hazards, each at its line.

## Modules

| Module | Models | Runs |
|---|---|---|
| `RequestReply` | abstract: a service for one call at a time | |
| `FramaCClient` | wire client, and the peer as far as the code relies on it | `client` |
| `Codec` | frames, their widths, the read buffer | `client` |
| `FramaCClientProofs` | theorems about these two | |
| `MainInstance` | main instance, lock, session caches | `main`, `main_liveness` |
| `MainInstanceProofs` | theorems about it | |
| `Sandboxes` | sandboxes, their processes, directories and notes | `sandbox`, `sandbox_liveness` |
| `SandboxesProofs` | theorems about them | |
| `AtomicFile` | abstract: a file replaced as a whole | |
| `TmpRename` | the two persistence functions over inodes and names | `file` |
| `Conclusions` | records of functions, persistence, recovery | `concl`, `concl_restart` |
| `PersistenceProofs` | theorems about it and `TmpRename` | |
| `ProjectState` | project state, order, persistence | `project` |
| `Listing`, `ListingProofs` | sorted and filtered lists, for `Topo` and `Inject`, and lemmas about lists and steps | |
| `Topo` | condensation, levels, flattening, ready functions | |
| `Scheduler` | extends `Topo` with an agent that works off its answers | `topo` |
| `VerificationOrderProofs` | theorems about these two and `ProjectState` | |
| `Inject` | the injection of a function's annotations | `inject` |
| `InjectProofs` | theorems about it | |
| `Analyses` | paged fetches, the cache of functions, WP runs | `wp` |
| `AnalysesProofs` | theorems about it | |
| `MC*` | model values, symmetry and input sets for TLC | |

Definitions that begin with a comment "Mutant:" are not part of the models: each is a plausible mistake in the
definition after it, and shows that the properties notice it. `PROJECT.json` lists one for every property; where a
property has several parts, the module has more of them, one for each part.

### FramaCClient implements RequestReply

A handler (`Callers`) asks for the connection (`Call`), is given the mutex (`Begin`: `next_id` and the request), writes
(`Send`), and reads frames (`RecvAnswer`, `RecvSkipped`, `RecvMalformed`, `RecvSilence`, `RecvClosed`) until one is
terminal for its id; a silence ends in another POLL or, after `MaxRounds` of them, in a KILL and a timeout (`GiveUp`).
The Frama-C server is external: it reads commands in order, queues SET and EXEC, runs one at a time, answers GET
immediately, answers POLL with what is finished (client.rs:89 allows an answer to an EXEC before the next POLL too; the
client would read it in the same loop, only sooner), and in its command-line phase reads nothing. What travels is two
FIFO sequences. A call is known by its number; a response carries the number of the call that ran, which the real
response does not, so that a wrong match is visible. The two deadlines (10 s for a read, the caller's for the whole) are
nondeterministic: a silence may be observed whenever the code is receiving.

There a frame is one thing, read whole. `Codec` has what is below it: `Encode`, `Decode` and the buffer of `Transport`,
as functions on sequences of digits. In the run, payloads consist of bytes that are also digits, so that nothing but the
length says where one ends. Text that is not UTF-8, which `decode` refuses (codec.rs:87), does not occur. The base and
the numbers of digits are constants (16 and 3, 7, 15 in the code), which brings the three limits within reach; what
depends on them, `Largest` and `Width`, is arithmetic in `Power(Digits[i])`.

`RequestReply` says what callers may rely on: requests run in the order of their calls and at most once, an answer is of
its own call and comes after it ran, and a call told "rejected" or "killed" never runs. A call told "timeout" may still
have run. One exception is in the code: a call that is told of a frame that does not decode returns without a KILL (`?`
in `wait_for_id`), so its operation may run after a later call's. The mapping is direct (call numbers, the executed
sequence, what was told).

### MainInstance

One action for each stretch of code between two awaits. `Processes` are Frama-C processes with the program each
has parsed (`ast`), `socketFile` the process that bound the one socket path last; `main` and `client` are the fields of
the server, `mainLock` and `clientLock` the mutexes as far as they are held over an await or taken together; `cache`
says of which parse each cached result is. `ReloadCall` leads through the three branches: in place (`SetFiles`,
`Compute`, `Recache`), spawn and respawn (`Spawn`, `SocketReady`, `Connect`, `Handshake`, `InstallMain`), then `Fetch`,
`GetFunctions` and `Store`. Queries (`Ask`, `Run`, `Read`, `Put`) stand for the tools that run an analysis and cache its
result. Faults are a crash of a process, and a request that fails with or without its effect.

### Sandboxes

The same for `create_sandbox`, `reset_sandbox` (delete, then create), `delete_sandbox` and `add_annotation_sandbox`,
over a map from ids to processes. Every id owns a directory with a socket file. `notes` are the four fields of the
conclusion that describe the sandbox. `remove_dir_all` may fail, of which a create and a delete only log a warning
(`SocketsLeft`, `RemoveDirFails`): the directory stays, and in it the old socket file or not. A process that boots over an
old socket file may bind it or exit. `add_annotation_sandbox` takes the id from before the colon and notes the
annotation for the function named after it, which the caller may get wrong (`named`): any function or none.

Three variables are history. `raced`: some call on the id overlapped another; promises about one id are made for ids
whose calls did not race, promises about processes for all. `unnoted`: processes changed by an `add_annotation` that the
conclusion of their function does not show, because it got no answer and may have taken effect, or because it named
another function; `CleanMeansUnannotated` exempts them. `unremoved`: ids whose directory could not be removed; a
delete still ends their entry and their process (`Gone`).

### TmpRename implements AtomicFile

The file and the temporary name are bound to inodes. `Open` creates or truncates, `Write` writes through the descriptor,
`Rename` moves whatever the temporary name is bound to. `AtomicFile` replaces contents at one moment of a call, and says
"ok" exactly when it did. As long as no two calls have overlapped (`interleaved`, history), every step is a step of
`AtomicFile` or stutters, with failures and kills at any point. When they do overlap, the file still never disappears,
but it can be empty or mixed. What `fsync` would add is not modelled: a kill of the server is not a power
failure.

### Conclusions and ProjectState

A call changes memory and clones it under the lock, then persists the clone without it, so that a step of another call,
a kill or a failure can be between. Contents are the fields that interact (status, number of specs, count, clean,
deleted, evidence; data, order, groups) and, as history, the calls a record incorporates. `Restart` is a kill and a new
start; for conclusions the files are read and merged by a task of its own (`Merge`); the project state starts empty.
`overlapped` is history in both: two calls that persist the same file were under way at once.

In `Conclusions` calls about one function that overlap share its one temporary file (server.rs:195), so what one of them
renames (`Persist`) is its own clone, that of a call it overlapped (`others`), or a file that does not parse
(`Unreadable`); the others find the temporary name gone and fail, or still write through their descriptor into the file
itself (`moved`, `WriteThrough`). A mixture of two records is never read as a record: a record is written in one go from
the start of the file, so what two writers can leave is one record, the beginning of one, or a shorter one followed by
the tail of a longer one, which `serde_json` refuses as trailing characters. `load_conclusion_dir` skips a
file it cannot parse (`Loaded`). What counts as acknowledged (`acked`) is a call whose record was persisted:
`store_function_conclusion` tells its caller, while the sandbox tools log a failure and answer success (server.rs:2219,
2509, 2625).

In `ProjectState` an order is known by who made it and by the versions of callgraph and functions it was computed from.
Its `reload_project` is a call with the steps that change the program or a cache: `Clear` and `Reparse` (in place), or
`Connect` and `Install` (a new process, whose functions `connect` has cached already), then `List` and `Refresh`
(`invalidate_all` and the new functions). It can end with an error after each request (`ReloadFails`), which leaves the
new program with the old caches, and a request it has given up may still run (`LateParse`). Functions are also refreshed
outside a reload, by `resolve_function_or_refresh` and `list_functions` (`Miss`, `List`, `UpdateFunctions`), and the
callgraph by every tool that finds none (`Compute`, `Fetch`, `Cache`). Three variables are history: `alone`, no call
overlapped the reload that changed the program last; `quiet`, such a reload has succeeded and nothing has changed the
program since; `whole`, the order was seeded while quiet. What the server promises is told in terms of these: a reload
that is alone and succeeds repairs everything, also what failed reloads and races have left.

### Topo and Scheduler

`Topo` computes on a graph, as the code does with petgraph: `Condense` (the strongly connected components, defined by
mutual reachability), `Count` (the out-degrees of the condensed graph), one `Round` for each pass of Kahn's loop, and
`Flatten`, which lists the groups by level without the functions that are only declared. The numbering of groups within
a level is petgraph's and left open. `ReadyFunctions` is `compute_ready_functions`. The reference the results are
compared with is reachability: an order is bottom-up, and a group is a cycle, in terms of `Reaches`.

`Scheduler` adds the agent, which is outside the repository: it asks `get_ready_functions` with what it has done and
what it is working on, and starts functions of an answer that gets old meanwhile. The server keeps nothing of this. The
agent may mean to verify every function it is told of or those of the verification order, and may count library
functions as done from the start or not; the properties say which agents come to the end.

### Inject

One function, in its sandbox and in the main instance, where the same loops have other statement ids. A call goes
through `Call`, on main `FetchLoops` (the ids of the main AST, in the order of `collect_loop_sids`), `Plan`, then
`InjectEntry` or `InjectEntryFails` for each clause, in a sandbox `FindSandbox`, and `Answer`, which notes the injection
in the conclusion if the sandbox was found. A text is one of six sorts, by what Frama-C makes of it; `ContractError` and
`StatementError` are the checks of the plugin's `execAddAnnotation`, and `Classify` and `Status` what the server
answers. Between two entries the sandbox is deleted (`Delete`) or created (`Insert`), and main is reloaded (`Reload`). A
create puts the sandbox in the map and notes it as clean an await later (`NoteCreated`), by which time an injection into
it may have been noted; `early`, history, says that the last one was. `MergeIsWhatWasVerified` compares with
`LoopsInSource`, the loops by line, that the walk does not know. A body has the statements that the plugin prints; of a
`switch` it prints the labels only, so a loop in one is not among the loops that are counted and numbered on main.

### Analyses

One instance, main or a sandbox, whose AST stays. `Reset` and `Fetch` are the two requests of a paged fetch, and
`Page` the array protocol of Frama-C, with its one position per array. `Lookup`, `UpdateFunctions` and `Retry` are
`resolve_function_or_refresh`; `SetProvers` to `Tasks` are the requests of a WP run, in the order of the code, over the
settings that Frama-C keeps. Four variables are history: what became of the pages of a fetch (`pages`, `partial`),
whether another call changed a setting (`mixed`), and what a call has started to prove (`proofs`).

## Runs

All runs that are expected to pass explore their whole state space. Deadlock is checked, except in `inject` and `wp`:
their calls are bounded and nothing else goes on for ever.

| Run | Shows | Bounds |
|---|---|---|
| `client` | answers reach their own call and are not thrown away; what is abandoned is killed; the refinement of `RequestReply`; every call returns; frames survive any portioning | 2 handlers, 2 requests (the answer of the first can be stale in the second), 1 poll round, a peer that dies, hangs or garbles; base 2, payload lengths on both sides of each limit, two frames cut anywhere |
| `main` | no process and no client is left behind, a solo reload repairs everything, the lock freezes the instance once earlier calls are done | 2 handlers, 3 calls (two that overlap, one that meets what they left), 3 spawns, 1 lock change, `run_wp`, crashes, failing requests |
| `main_liveness` | every tool returns | 2 calls, crashes |
| `sandbox` | ownership (no leaked process, one owner, an entry is its own sandbox), conclusions tell the truth about sandboxes, solo delete and reset | 2 handlers, 2 ids, ceiling 2, 4 calls of all kinds, crashes, failures, directories that stay, annotations that name any function |
| `sandbox_liveness` | every call returns; the overrun of the ceiling is bounded by the number of calls | 2 ids, ceiling 1, 3 calls of all kinds, crashes |
| `file` | the refinement of `AtomicFile` while callers take turns; the file never disappears | 3 writers, 2 data, 4 writes, kills, failures |
| `concl` | evidence never stands beside verified; acknowledged updates survive; the file is an earlier memory, and unreadable only after calls that overlapped; the merge undoes no call | 2 functions, 2 handlers, 3 calls (4 kinds of update and the sandbox events), 2 restarts, failures |
| `project` | the seeded order stands; caches and order are of one program once a reload that was alone has succeeded; the file follows memory | 2 handlers, any number of calls but 2 stores and 2 parses, restarts, reloads that fail at every step or take effect late |
| `topo` | levels are tight, the seed is a verification order, old answers hold, only library functions can block an agent, and who heeds them comes to the end | all programs of up to 3 functions, 5 of 4 (calls over two levels, two ways to one callee, several calls between two cycles), 1 failed verification |
| `inject` | the answer agrees with the AST, loop clauses land on their loops, an annotated sandbox is not called clean unless its creation was noted too late | 2 handlers, 2 calls of 3 submissions (complete, every kind of failure, behaviors and a wrong statement), 1 reload or creation, deletions, failures |
| `wp` | a fetch is complete and a function found unless pages were stolen; WP runs as asked | 2 handlers, 3 calls of 5 tools, 3 functions in pages of 2, 4 WP runs, failures |

The bounds are the smallest at which the cases the properties speak of occur together: two calls that overlap and a
third that meets what they left, one more process than calls that can hold one, one restart before and one after a
merge. Every counter that is bounded (requests, rounds, calls, spawns, lock changes, writes, updates, stores, parses,
and the restarts of `concl`) counts what the environment does; the code has no such limits.

One run is expected to be violated, `concl_restart`: a call served before the merge at start loses the conclusion on
disk. `PROJECT.json` has it under "findings" with the line it contradicts.

Seen while modelling, and left without a run:

- `reload_project` reads the lock once, before its first await (server.rs:927); a reload under way when `lock_project`
  answers still empties and reparses the AST. `LockFreezesOnceQuiet` is what holds.
- `run_eva` that ends after a reload marks EVA as completed on an AST it never saw (server.rs:1230).
- The ceiling is compared many awaits before the insertion (server.rs:2334). `LiveSandboxesBounded` is what holds.
- `add_annotation_sandbox` notes the annotation for whatever function follows the colon (server.rs:2209), so
  `exp42:helper` leaves the conclusion of the experiment's own function calling an annotated sandbox clean.
- A directory that cannot be removed is only logged; the delete answers success (server.rs:563), and the next create of
  the id starts Frama-C over the old socket file (server.rs:2420).
- `create_sandbox` notes the sandbox as clean an await after it can be found (server.rs:2491, 2503): an injection or
  annotation noted between the two is forgotten.
- A reload that fails after the files were cleared or parsed leaves the caches of the old program (server.rs:808, 973).
- `annotation_count` counts refused annotations (server.rs:2216), and every `store_function_conclusion` sets it to the
  number of specs (state.rs:1068).
- `unsound_reason_type` is never cleared (state.rs:1104), although state.rs:161 says it is empty for other statuses.
- Stores that overlap persist in any order (server.rs:2926), so the file can stay older than memory.
- The thin path of `store_project_state` replaces the order that state.rs:537 calls the server's (server.rs:2936).
- `ProjectVerificationState.locked` is no longer kept in step with the lock (state.rs:577, server.rs:2981).
- `_program.json` is not read at start; the next thin store writes its few fields over all of it.
- Two first reloads that spawn at once do damage that lasts: both processes bind one socket path, and the client that is
  kept may belong to the process that is dropped (server.rs:705-713).
- Two creates with one experiment id that overlap are both accepted (server.rs:2321, 2388). `Ownership` exempts them.
- Two calls that persist one file use one temporary name without a lock, and can leave it torn (server.rs:195, 208); at the
  next start a conclusion that does not parse is skipped.
- `inject_all` is called idempotent (server.rs:3105), but its filter reads an object as an array (server.rs:3390) and
  skips nothing; README.md:67 says "atomically", but entries fail one by one.
- A loop clause with a behavior is sent as a contract (server.rs:3119, 3877) and refused. An undeclared behavior is
  answered as `proposed_error`, not as `proposed_self_referential` (server.rs:3127).
- Loops submitted in another order than the source's land on the wrong loops of main (server.rs:3191).
- Fetches of one array that overlap take each other's pages (server.rs:834, client.rs:345), and `list_functions` goes on
  after a reset that failed (server.rs:2024).
- Prover, timeout and property filter of a WP run stay set for later runs that do not give them, although types.rs:147
  says all three provers are the default; types.rs:151 calls Bytes the default model, the code takes Typed+nocast. A
  model that is refused leaves the prover and the timeout of its call set.
- `run_wp_sandbox` proves the function the sandbox was created for, whatever names it is given; an empty list of names
  panics (server.rs:462); if the sandbox is deleted before its marker is read, or was created without one because its
  function was not listed (server.rs:508, 2473), nothing is proved and the call succeeds. `Analyses` has the first case
  and not the second.
- `run_wp_main` on all functions with an empty cache proves nothing and answers success (server.rs:1359).

### Fairness

Only the steps of the server's own tasks are fair (`WF` of everything a handler does once its call has begun): tokio
runs every task that is ready, its mutex is FIFO, and every wait in these paths has a deadline, which the models show
as a step that is always enabled while waiting. Nothing is assumed of Frama-C: it may hang, die, or never answer.
Sending has no deadline in the code; the models assume that the socket buffer takes a frame.

`Scheduler` is about an agent, and its fairness is an assumption on that agent: it has the order computed, keeps asking,
starts what it can start for good and merges what it has started. Nothing says that a verification succeeds at once.

## Proofs

`FramaCClientProofs` proves, for any set of handlers, any bounds and any faults:

- `TypeCorrect`: `Spec => []TypeOK`, one lemma for the handshake, the client and the server.
- `RepliesMatch`: `Spec => []ReplyIsForThisCall`. The property is not inductive: it needs to know that an answer in the
  socket whose id equals the id of the current request carries the current call. `MatchInv` strengthens it to: everywhere
  in the system (a caller's request, both directions of the socket, the queue, the running operation) ids are at most
  the counter, and two things with the same id have the same call; the parts over the server, the wire and the client
  change in different actions and have a frame lemma each. What makes it inductive is that `next_id` only grows.

- `AbandonedKilled`, `OwnAnswers` and `Refines`: `[]AbandonedIsKilled`, `OwnAnswerNeverSkipped` and the refinement
  `ImplementsRequestReply`, from one invariant, `CallInv`. It is about the requests that may still run (`Live`): those
  in the socket, queued, or running. They are in the order of their calls (`OrderInv`: the socket after the queue after
  the running one, and a KILL never ahead of its request), none has run, and each is watched (`Watched`: it is a GET,
  its caller waits, its KILL is in the socket, or its caller was told of a frame that does not decode). So a GET, which
  the server answers as it reads it, can overtake only requests that nobody cancels: the KILL of any other older one
  would stand before the GET in the socket. The other half (`AnswerInv`) says that every answer on its way is
  true: "rejected" and "killed" of a call that is `Gone`, "killed" only of a call that has ended. The steps are
  sorted by what they do to `Live` (the server runs one, refuses one, gives notice, or crashes; the client is quiet,
  begins, sends, or ends), and each of the four parts is shown for each sort. A call that ends is `Answer`, `Refuse` or
  `Fail` of the service, `Begin` is `Ask`, a request that runs is `Run`, everything else stutters.
- `ReceiveInvertsSend`: for any number of payloads of any bytes, any base and numbers of digits, and any part of the
  frames that has arrived, `Receive` returns the payloads that arrived whole, keeps the rest and calls nothing
  malformed. Of a number smaller than `Power(n)` nothing is left after n digits, so it gets n of them (`LeftFacts`,
  `HexFacts`), and reading them undoes the divisions one by one (`NumberOfHex`). So a beginning of a frame, and a frame with
  what follows it, decode as they should (`EncodeFacts`, `DecodeFrame`). What is kept after some frames begins with the next
  (`KeptFacts`), and each call of `recv_frame` returns one more or, from then on, waits (`RecvFrameFacts`,
  `ReceiveReturns`). The functions that `Codec` defines by recursion are shown to exist (`StepsExist` of `ListingProofs`),
  and two that take the same steps to be the same (`SameSteps`).
- `AnswersSurvive`: `Spec => []FramesSurvive`, what the run checks of it.

`MainInstanceProofs`, for any tool calls, processes and faults:

- `NoProcessLeftBehind`: `Spec => []LiveProcessesAreOwned`. A call that returns must own no process that is alive,
  and what it owns depends on where it returns from. `ChildAtPc` says it: a call owns a child exactly between its spawn
  and its install, so the returns from everywhere else drop nothing, and those from there kill the child.
- `ClientComesWithState`: `Spec => []ClientIffMain`. Installing is the only step that writes either; `ConnAtPc` says
  that a call at that point has a connection, and `ChildAtPc` that it has a child, so both become non-zero together.
  With the types of the variables they mention, these make the inductive invariant `OwnInv`.
- `OwnersAreKept`: the two together, `Spec => []NothingIsLeftBehind`, which is what the runs check.
- `TypeCorrect`: `Spec => []TypeOK`, in parts over disjoint variables that are each kept beside `OwnInv`. It includes
  that each mutex is held by the call whose program counter says so, and that nothing names a parse that was never made.

- `SoloReloadRepairs`: the action property `SoloReloadIsFresh`. Calls that raced may have installed the child of one
  with the connection to another, and branch 3 then keeps both, so it is not true that client and child always agree.
  What is true is that a connection is to a process that has booted (`RefInv`) and a live process has an owner; for a
  call that is alone the only owner left is the installed child (`SoloInv`), so a client that still answers it is it.
- `LockFreezes`: the action property `LockFreezesOnceQuiet`, with `RefInv` again: the client's process is not one that
  is still booting, whose first parse would change it under the lock.

`InjectProofs`, for any calls, submissions, bodies, replacements and faults:

- `CleanIsRight`: `[]CleanSandboxIsUnannotated`, from `CleanInv`: a sandbox with annotations, into which nothing is being
  injected, is noted as such, and no creation is still to be noted that would undo it, unless the note came early.
- `AnswersTellWhatIsThere`: in every answer `successful` is in the AST, and what else is there of the call had no answer,
  as long as the AST was not replaced. It needs that calls have their own numbers (`NumbersInv`), that no request is
  about a parse still to come (`ParsesInv`), and that what a call has noted so far is true (`ReportInv`).
- `AnswersAreRight`: `[]AnswerMatchesAst`. Besides what is in the AST, every clause has to be answered for, once
  (`AccountsInv`): while a call injects, what it has noted are the entries of its plan up to the current one and those
  that failed before anything was sent (`Accounted`). That these are all of the clauses that were submitted, and none
  of both, is `PlannedFacts`: no two entries of the list have the same path, as its sections are told apart by their
  field and loop, and the entries of a section by their index (`SectionsFacts`, with `FlattenLists` of `ListingProofs`).
- `MergesAreRight`: `[]MergeIsWhatWasVerified`, from `PlacesInv`: an entry of the list carries the statement id of its
  loop (`Placed`), what is added stands at that id (`InPlace`), and the ids of a request are those submitted, or those of
  the AST of main whose parse it is about (`Traced`). That these are the loops in source order is `WalkFollowsSource`:
  the recursive walk of `collect_loop_sids` finds, to every depth, the loops of the statements that are not deeper, in
  the order of their lines (`VisitDeeper`, with `JoinAscends` of `ListingProofs`), and a set is sorted in one way only
  (`AscendsFacts`). It assumes of a body of main that it is a tree and that no loop in it is above one that it is inside
  of or that is printed before it (`IsBody`); this is how the plugin prints what the C parser has read (`Printed`), so
  long as no two loops are on the same line.

`PersistenceProofs`, about `TmpRename`, for any finite set of writers, any data and faults:

- `FileNeverDisappears`: `FileSpec => []NeverDisappears`. Inodes are reused in the model, so it has to be shown that `Open`
  always finds one that no name and no open descriptor is bound to (`FreeInode`, by counting: there are more inodes than
  writers and names).
- `ImplementsAtomicFile`: `FileSpec => ReplacesAtomically`, the refinement. Its invariant `TakingTurns` says what a single
  writer can rely on: while no two have overlapped, at most one is under way, its descriptor is the inode the temporary
  name is bound to, and that inode holds what the writer has written so far.
- `FileTypeCorrect`: `FileSpec => []FileTypeOK`.

`PersistenceProofs`, about `Conclusions`, for any functions, handlers, updates, number of restarts and faults:

- `EvidenceIsCleared`: `[]VerifiedHasNoEvidence`. Every tool's change is one kind of step (`Changes`): a typed record
  that is sound, made from the current one, which gains a new number. So soundness holds of memory, of what
  is in hand, of what was found at start and of the disk.
- `AcknowledgedStays`, `MergeIsHarmless`, `DiskFollowsMemory`: `[]AcknowledgedSurvives`, `[]MergeUndoesNoCall`,
  `[]DiskIsEarlierMemory`, together (`HistoryInv`). The numbers of a record only grow, so of two records that memory has
  gone through the later one includes the earlier, and the clone a call persists is one of them (`CloneInv`); before the
  merge a function that no call has touched has the same record found and, if it can be read, on disk (`BeforeMerge`); what
  calls that overlap share is a clone of each of them, so whichever of them is renamed is such a record too, and only
  they leave an unreadable file (`ReadableInv`); after it, what is
  acknowledged is in memory (`AfterMerge`).
- `TypeCorrect`.

`SandboxesProofs`, for any handlers, experiments, ceiling, calls and faults:

- `OwnershipHolds`: `[]Ownership`. Two of its parts hold of all calls: a process that anything speaks of was
  started for that experiment and keeps its home (`HomeInv`), so no two owners can come to share one (`OwnerInv`). The
  third, that an entry is its own sandbox, holds of experiments whose calls have not raced (`SoloInv`): either all calls
  on it add, or there is but one, and then `Holds` says what that call knows of entry, socket and directory at each
  point. A frame lemma (`SoloFrame`) says that the calls of other experiments change none of it.
- `SoloCallsEnd`: the action property `SoloCallsEndClean`, from `SoloInv` and `OwnerInv`, whatever earlier calls have left,
  old directories and sockets among it.
- `CleanIsUnannotated`: `[]CleanMeansUnannotated`, from `CleanInv`: what a clean sandbox carries is an annotation whose
  note is still on its way to the right function, or that is never noted there (`unnoted`).
- `CeilingIsNearlyKept`: `[]LiveSandboxesBounded`. `CeilingInv` counts entries and the calls that are past the ceiling or
  have removed an entry; a call passes only if there is room, so the two are fewer than the ceiling and the calls
  together. Every live process belongs to one of them (`FS_Surjection`).
- `TypeCorrect`.

`VerificationOrderProofs`, about `Topo` and `Scheduler`, for every set of programs, that is for every call graph:

- `LevelsCorrect`: `[]LevelsAreTight`. The loop keeps `KahnInv`: a group is in the frontier or has been there exactly when
  all the groups it calls have been there, and its count is that of the others. That the loop does not end early
  needs a group with no open callee in every set of groups left, which is `BottomOf`: in every set of functions one is
  called back by all that it reaches in the set (the sets of what functions reach are well-founded by inclusion).
- `LevelsRankCalls` and `MarksCorrect` state what the levels and the cycle marks are for, in terms of `Reaches`:
  a function is on a lower level than all that reach it unless they call each other, and a group is marked as a
  cycle exactly when its members call themselves.
- `AnswersDoNotAge`: `[]OldAnswersHold`. What an answer says of a function's callees stays true, as `done` only grows.
- `SeedCorrect`: `[]SeedIsAVerificationOrder`. What `FlattenSeq` and `Sorted` return is stated by lemmas of `ListingProofs`
  (`FlattenLists`, `FlattenKept`, `SortedFacts`): the entries of all parts, each once, those of an earlier part first;
  the same if the empty parts are left out. The induction in them goes over a set of lengths (`CountUp`, from a least
  counterexample, `Least`), as the library's induction theorems cannot be instantiated. With them, the groups share no
  function (`ComponentClass`), a function is in an earlier part than what reaches it (`LevelsFollow`), and the rest is
  `CycleMeansCalledBack`.
- `OnlyLibraryBlocks`: `[]StuckOnlyOnLibrary`, by `BottomOf` again. `WorkInv`: the agent means to verify every function
  with a body, also when it takes them from the order, as `SeedCorrect` says that these are what the order lists.
- `GraphCorrect` and `LoopCorrect` are the two invariants these rest on.

`VerificationOrderProofs`, about `ProjectState`, for any handlers, calls, restarts and faults:

- `OrderIsKept`: `[]OrderIsTheServers`, from three invariants. `QuietInv`: while it is quiet no reload is half-way and no
  request late, the caches are of the program, and so is what a call has in hand to cache or to compute from.
  `AloneInv`: a reload that is alone has the functions of the program it leaves. `WholeInv`: an order
  seeded while quiet has both parts from one version.
- `FileIsCurrent`: `[]FileFollowsMemory`, from `FileInv`: as long as stores take turns only one call persists, and what
  it persists is what is in memory.
- `TypeCorrect`.

`AnalysesProofs`, for any program, page size, calls and parameters of WP, and any faults:

- `FetchesAreComplete`: the action property `FetchIsComplete`, from `PagesInv`: what a fetch has got, followed by what
  Frama-C still has to send, has the entries of the array, each once if none was added; this holds of every reader no
  one took a page from, unless the array has been reset and the next page will say "reload". That this page makes the
  reader start over is what makes it inductive: a reset by another call needs no exception.
- `EveryFunctionIsFound`: the action property `FunctionsAreFound`, from `CacheInv`: the cache is empty or whole, and
  whole for every call that is at its second look, unless it was written from stolen pages. What a call writes comes
  from `PagesInv`.
- `RunsProveWhatWasAsked`: `[]WpRunsAsAsked`, from `RunInv`, for every run of WP under way. `WorkOf`: the functions it has
  proved, has still to prove, is resolving and has still to resolve are together the ones it was asked for. `SettingsOf`:
  each setting it has been through stands as it asked, and so do those of every proof it started, unless another run
  changed one. A run on all functions takes what is in the cache, which is why it needs `CacheInv`.
- `TypeCorrect`.

The assumptions on the constants are those the modules state (`ClientAssumption` and its like): that the model values
are distinct, the bounds are natural numbers, the writers of a file are finitely many, there is at least one function
and one experiment (a call that is idle has an id too), the program is a sequence without duplicates, the functions
WP is run on are names of it or unknown, submissions are of the type that their parameters have in `types.rs`, and the
bodies of main are trees with their loops in the order of the lines. Nothing else is assumed. The invariants
that the proofs add were checked by TLC on the configurations of the runs before they were proved.

Only model-checked is all liveness: `ENABLED` and fairness are out of the prover's reach.

## Not modelled, and the plan

Not modelled: the wording of answers, the deserialisation of JSON parameters and the rewriting of schemas (no state),
what the query tools select and format from what they have read, `classify_wp_goal` (a goal's class by its name),
start-up and shutdown of the process, `push_history`, the Markdown files that agents write beside the conclusions,
`reconnect` (it has no caller), and the OCaml plugin's AST transformations, but for what the server relies on
(`execAddAnnotation` and `execSetWpConfig`).

The order of work was: `FramaCClient` and `RequestReply`, on which everything else rests; `MainInstance`; `Sandboxes`;
`TmpRename` and `AtomicFile`; `Conclusions`; `ProjectState`; `Topo` and `Scheduler`; `Inject`; `Analyses`, with the paged
fetches; `Codec`. What is left for TLC: pieces of the plugin whose bookkeeping the server relies on, and the history of
attempts (`push_history`).
