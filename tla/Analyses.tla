------------------------------ MODULE Analyses ------------------------------
(***************************************************************************)
(* src/mcp/server.rs: the tools that read an array of Frama-C, functions   *)
(* or goals, and those that run WP (run_wp_main, run_wp_sandbox); with     *)
(* FramaCClient::fetch_all and the cache of functions in SessionState.     *)
(*                                                                         *)
(* An array is read in pages.  Frama-C keeps one position per array, not   *)
(* one per reader, and a request that resets it; the tools reset it and    *)
(* then ask for pages in requests of their own, so tools that run at the   *)
(* same time consume each other's pages.  Likewise the settings of WP are  *)
(* Frama-C's, set by one request and used by a later one.                  *)
(*                                                                         *)
(* All calls are to one instance, the main one or a sandbox (calls to two  *)
(* share none of this), whose AST does not change meanwhile: that it does  *)
(* is the subject of MainInstance, as is the project lock.                 *)
(***************************************************************************)
EXTENDS Naturals, FiniteSets, Sequences, SequencesExt

CONSTANTS
  Handlers,  \* concurrent tool calls
  Program,   \* the functions, in the order of the array
  Unknown,   \* a name that is not among them
  Extracted, \* the function the sandbox was created for
  Runs,      \* the parameters WP is run with
  Tools,     \* the tools called: subset of AllTools
  PageSize,  \* 20000
  MaxCalls,  \* bound
  Faults     \* "fail": a request returns an error

AllTools == {"resolve", "list", "refresh", "goals", "wp"}

ASSUME AnalysesAssumption ==
  /\ PageSize \in Nat \ {0} /\ MaxCalls \in Nat
  /\ Program \in Seq(ToSet(Program)) /\ IsInjective(Program)
  /\ Unknown \notin ToSet(Program)
  /\ Extracted \in ToSet(Program)
  /\ Tools \subseteq AllTools /\ Faults \subseteq {"fail"}
  /\ \A r \in Runs : r.all_functions \in BOOLEAN /\ r.functions \in Seq(ToSet(Program) \cup {Unknown})

Names  == ToSet(Program)
Arrays == {"functions", "goals"}

\* RunWpParams: "absent" is None, and all_functions that of functions.
Absent == "absent"

VARIABLES
  target,    \* the instance: "main" or "sandbox"
  functions, \* SessionState.functions
  settings,  \* Frama-C: prover, timeout, model and prop of WP
  goals,     \* Frama-C: the functions with goals, in the order of the array
  iterator,  \* Frama-C: of each array, whether it was reset and what is still to be sent
  pc, job,   \* where each call is, and what it was called with
  wanted,    \* the name it resolves, and the pages it has
  got,
  todo,      \* run_wp: the functions still to be resolved, and to be proved
  targets,
  calls,     \* counted for the bound
  pages,     \* history: "whole", "changed" (the array grew) or "stolen" (another
             \* call took a page, or the reset failed) since the call reset the
             \* array; of a run on all functions, what it found in the cache
  partial,   \* history: the cache was written from stolen pages
  mixed,     \* history: other calls changed settings during this one
  proofs     \* history: the proofs a call has started, and the settings then

frama   == <<settings, goals, iterator>>
locals  == <<job, wanted, got, todo, targets>>
history == <<pages, partial, mixed, proofs>>
vars    == <<target, functions, frama, pc, locals, calls, history>>

NoJob == [tool |-> "none"]

Contents(array) == IF array = "functions" THEN Program ELSE goals
ArrayOf(h) == IF job[h].tool = "goals" THEN "goals" ELSE "functions"

\* After a spawn the first fetch finds nothing (the cache is empty until
\* reload_project has filled it).
Init ==
  /\ target \in {"main", "sandbox"}
  /\ functions \in {{}, Names}
  /\ settings = [prover |-> Absent, timeout |-> Absent, model |-> Absent, prop |-> Absent]
  /\ goals = <<>>
  /\ iterator = [a \in Arrays |-> [cleared |-> FALSE, waiting |-> <<>>]]
  /\ pc = [h \in Handlers |-> "idle"]
  /\ job = [h \in Handlers |-> NoJob]
  /\ wanted = [h \in Handlers |-> Unknown]
  /\ got = [h \in Handlers |-> <<>>]
  /\ todo = [h \in Handlers |-> <<>>] /\ targets = [h \in Handlers |-> <<>>]
  /\ calls = 0
  /\ pages = [h \in Handlers |-> "whole"] /\ partial = FALSE
  /\ mixed = [h \in Handlers |-> FALSE] /\ proofs = [h \in Handlers |-> {}]

Goto(h, l) == pc' = [pc EXCEPT ![h] = l]

\* A call is answered, or fails.
End(h) ==
  /\ Goto(h, "idle")
  /\ job' = [job EXCEPT ![h] = NoJob] /\ wanted' = [wanted EXCEPT ![h] = Unknown]
  /\ got' = [got EXCEPT ![h] = <<>>]
  /\ todo' = [todo EXCEPT ![h] = <<>>] /\ targets' = [targets EXCEPT ![h] = <<>>]
  /\ pages' = [pages EXCEPT ![h] = "whole"] /\ mixed' = [mixed EXCEPT ![h] = FALSE]
  /\ proofs' = [proofs EXCEPT ![h] = {}]

-----------------------------------------------------------------------------
(* fetch_all.                                                              *)

\* The reset, reloadFunctions or reloadGoals.
Reset(h) ==
  /\ pc[h] = "reset"
  /\ iterator' = [iterator EXCEPT ![ArrayOf(h)] = [cleared |-> TRUE, waiting |-> <<>>]]
  /\ pages' = [pages EXCEPT ![h] = "whole"]
  /\ got' = [got EXCEPT ![h] = <<>>]
  /\ Goto(h, "page")
  /\ UNCHANGED <<target, functions, settings, goals, job, wanted, todo, targets, calls,
                 partial, mixed, proofs>>

\* list_functions goes on without it.
ResetIgnored(h) ==
  /\ "fail" \in Faults
  /\ pc[h] = "reset" /\ job[h].tool = "list"
  /\ pages' = [pages EXCEPT ![h] = "stolen"]
  /\ Goto(h, "page")
  /\ UNCHANGED <<target, functions, frama, locals, calls, partial, mixed, proofs>>

\* What Frama-C answers to a fetch.
Page(array) ==
  LET it    == iterator[array]
      queue == IF it.cleared THEN Contents(array) ELSE it.waiting
      n     == IF Len(queue) < PageSize THEN Len(queue) ELSE PageSize
  IN [reload |-> it.cleared, updated |-> SubSeq(queue, 1, n),
      rest |-> SubSeq(queue, n + 1, Len(queue))]

\* Mutant: the pages before a reload are kept.
Appended(entries, page) == entries \o page.updated

\* fetch_all: a page that says "reload" starts over.
Accumulate(entries, page) == (IF page.reload THEN <<>> ELSE entries) \o page.updated

\* Mutant: the first page is taken for all of them.
FirstPage(page) == TRUE

\* pending = 0.
LastPage(page) == page.rest = <<>>

InFetch(h, array) == pc[h] = "page" /\ ArrayOf(h) = array

Fetch(h) ==
  /\ pc[h] = "page"
  /\ LET array == ArrayOf(h)
         page  == Page(array)
     IN /\ iterator' = [iterator EXCEPT ![array] = [cleared |-> FALSE, waiting |-> page.rest]]
        /\ got' = [got EXCEPT ![h] = Accumulate(@, page)]
        /\ Goto(h, IF LastPage(page) THEN "fetched" ELSE "page")
        /\ pages' = [x \in Handlers |->
                       IF x # h /\ InFetch(x, array) THEN "stolen" ELSE pages[x]]
  /\ UNCHANGED <<target, functions, settings, goals, job, wanted, todo, targets, calls,
                 partial, mixed, proofs>>

-----------------------------------------------------------------------------
(* The cache of functions.                                                 *)

\* Mutant: a name that is not in the cache is not looked for elsewhere.
MissIsFinal(h) == "notfound"

\* resolve_function_or_refresh: the cache is refreshed on a miss.
OnMiss(h) == "reset"

\* Where a call goes on with its name resolved.
Resolved(h) == IF job[h].tool = "wp" THEN "resolve" ELSE "done"

Keep(h) ==
  IF job[h].tool = "wp" THEN targets' = [targets EXCEPT ![h] = Append(@, wanted[h])]
  ELSE UNCHANGED targets

Lookup(h) ==
  /\ pc[h] = "lookup"
  /\ IF wanted[h] \in functions THEN Keep(h) /\ Goto(h, Resolved(h))
     ELSE UNCHANGED targets /\ Goto(h, OnMiss(h))
  /\ UNCHANGED <<target, functions, frama, job, wanted, got, todo, calls, history>>

\* update_functions replaces the cache.  reload_project has no name to look up.
UpdateFunctions(h) ==
  /\ pc[h] = "fetched" /\ job[h].tool # "goals"
  /\ functions' = ToSet(got[h])
  /\ partial' = (pages[h] = "stolen")
  /\ got' = [got EXCEPT ![h] = <<>>]
  /\ Goto(h, IF job[h].tool \in {"list", "refresh"} THEN "done" ELSE "retry")
  /\ UNCHANGED <<target, frama, job, wanted, todo, targets, calls, pages, mixed, proofs>>

\* The lock on the state was released: others may have replaced the cache again.
Retry(h) ==
  /\ pc[h] = "retry"
  /\ IF wanted[h] \in functions THEN Keep(h) /\ Goto(h, Resolved(h))
     ELSE UNCHANGED targets /\ Goto(h, "notfound")
  /\ UNCHANGED <<target, functions, frama, job, wanted, got, todo, calls, history>>

-----------------------------------------------------------------------------
(* Calls.                                                                  *)

Start(h, j, l) ==
  /\ pc[h] = "idle" /\ calls < MaxCalls /\ j.tool \in Tools
  /\ calls' = calls + 1
  /\ job' = [job EXCEPT ![h] = j]
  /\ Goto(h, l)
  /\ UNCHANGED <<target, functions, frama, got, targets, history>>

\* The tools on a named function of the main instance.
CallResolve(h, f) ==
  /\ target = "main"
  /\ Start(h, [tool |-> "resolve"], "lookup")
  /\ wanted' = [wanted EXCEPT ![h] = f]
  /\ UNCHANGED todo

\* list_functions fetches if the cache is empty.
CallList(h) ==
  /\ target = "main"
  /\ Start(h, [tool |-> "list"], IF functions = {} THEN "reset" ELSE "done")
  /\ UNCHANGED <<wanted, todo>>

\* reload_project, once the files are parsed.
CallRefresh(h) ==
  /\ target = "main"
  /\ Start(h, [tool |-> "refresh"], "reset")
  /\ UNCHANGED <<wanted, todo>>

\* get_wp_goals; the tools on the status of properties do the same on theirs.
CallGoals(h) ==
  /\ Start(h, [tool |-> "goals"], "reset")
  /\ UNCHANGED <<wanted, todo>>

\* A run on a sandbox names a function.
CallWp(h, run) ==
  /\ target = "sandbox" => ~run.all_functions /\ run.functions # <<>>
  /\ Start(h, [tool |-> "wp", run |-> run], "setProvers")
  /\ todo' = [todo EXCEPT ![h] = run.functions]
  /\ UNCHANGED wanted

Return(h) ==
  /\ \/ pc[h] \in {"done", "notfound"}
     \/ pc[h] = "fetched" /\ job[h].tool = "goals"
  /\ End(h)
  /\ UNCHANGED <<target, functions, frama, calls, partial>>

\* A request fails, and with it the call.  (One that took effect and whose
\* answer was lost is its step followed by this one.)
Requests == {"reset", "page", "setProvers", "setTimeout", "setWpConfig", "prove", "tasks"}

RequestFails(h) ==
  /\ "fail" \in Faults
  /\ pc[h] \in Requests /\ ~(pc[h] = "reset" /\ job[h].tool = "list")
  /\ pc[h] = "setProvers" => job[h].run.prover # Absent
  /\ pc[h] = "setTimeout" => job[h].run.timeout # Absent
  /\ End(h)
  /\ UNCHANGED <<target, functions, frama, calls, partial>>

-----------------------------------------------------------------------------
(* run_wp_main and run_wp_on_sandbox.                                      *)

Given(r, field) == IF r[field] = Absent THEN settings[field] ELSE r[field]

\* A setting is another call's as well.
Set(h, new) ==
  /\ settings' = new
  /\ mixed' = [x \in Handlers |->
       mixed[x] \/ (x # h /\ job[x].tool = "wp" /\ new # settings)]
  /\ UNCHANGED <<target, functions, goals, iterator, job, wanted, got, todo, targets, calls,
                 pages, partial, proofs>>

\* The prover and the timeout are set if they are given.
SetProvers(h) ==
  /\ pc[h] = "setProvers"
  /\ Set(h, [settings EXCEPT !.prover = Given(job[h].run, "prover")])
  /\ Goto(h, "setTimeout")

SetTimeout(h) ==
  /\ pc[h] = "setTimeout"
  /\ Set(h, [settings EXCEPT !.timeout = Given(job[h].run, "timeout")])
  /\ Goto(h, "setWpConfig")

\* Mutant: the model stays as it is.
ModelIfGiven(r) == Given(r, "model")

\* The model is set whether it is given or not.
Model(r) == IF r.model = Absent THEN "Typed+nocast" ELSE r.model

\* execSetWpConfig, and what is next: in a sandbox the proof of the function it
\* was created for (declaration_marker), whatever the names after the prefix.
SetWpConfig(h) ==
  LET r == job[h].run IN
  /\ pc[h] = "setWpConfig" /\ Model(r) \in {"Bytes", "Typed+nocast"}
  /\ settings' = [settings EXCEPT !.model = Model(r), !.prop = Given(r, "prop")]
  /\ mixed' = [x \in Handlers |->
       mixed[x] \/ (x # h /\ job[x].tool = "wp" /\ settings' # settings)]
  /\ IF target = "sandbox"
       THEN targets' = [targets EXCEPT ![h] = <<Extracted>>] /\ Goto(h, "prove")
       ELSE UNCHANGED targets /\ Goto(h, "resolve")
  /\ UNCHANGED <<target, functions, goals, iterator, job, wanted, got, todo, calls,
                 pages, partial, proofs>>

\* Any other model is refused, after the prover and the timeout have been set.
RefuseModel(h) ==
  /\ pc[h] = "setWpConfig" /\ Model(job[h].run) \notin {"Bytes", "Typed+nocast"}
  /\ End(h)
  /\ UNCHANGED <<target, functions, frama, calls, partial>>

\* The next function is resolved; for a run on all of them, the cache is.
Resolve(h) ==
  /\ pc[h] = "resolve"
  /\ IF job[h].run.all_functions
       THEN /\ targets' = [targets EXCEPT ![h] = SetToSeq(functions)]
            /\ pages' = [pages EXCEPT ![h] = IF partial THEN "stolen" ELSE @]
            /\ Goto(h, "prove") /\ UNCHANGED <<wanted, todo>>
     ELSE IF todo[h] = <<>> THEN Goto(h, "prove") /\ UNCHANGED <<wanted, todo, targets, pages>>
     ELSE /\ wanted' = [wanted EXCEPT ![h] = Head(todo[h])]
          /\ todo' = [todo EXCEPT ![h] = Tail(@)]
          /\ Goto(h, "lookup") /\ UNCHANGED <<targets, pages>>
  /\ UNCHANGED <<target, functions, frama, job, got, calls, partial, mixed, proofs>>

\* Mutant: the last function is left out.
AllButLast(h) == Len(targets[h]) <= 1

\* Every function has been proved.
Proved(h) == targets[h] = <<>>

\* startProofs of the next one; its goals are sent to who reads the array.
Prove(h) ==
  /\ pc[h] = "prove" /\ ~Proved(h)
  /\ LET f == Head(targets[h]) IN
       /\ goals' = IF f \in ToSet(goals) THEN goals ELSE Append(goals, f)
       /\ iterator' = [iterator EXCEPT !["goals"].waiting =
            IF iterator["goals"].cleared \/ f \in ToSet(@) THEN @ ELSE Append(@, f)]
       /\ proofs' = [proofs EXCEPT ![h] = @ \cup {[function |-> f, settings |-> settings]}]
  /\ targets' = [targets EXCEPT ![h] = Tail(@)]
  /\ pages' = [x \in Handlers |->
       IF InFetch(x, "goals") /\ pages[x] = "whole" THEN "changed" ELSE pages[x]]
  /\ UNCHANGED <<target, functions, settings, pc, job, wanted, got, todo, calls, partial, mixed>>

\* getScheduledTasks is answered.
Tasks(h) ==
  /\ pc[h] = "prove" /\ Proved(h)
  /\ Goto(h, "done")
  /\ UNCHANGED <<target, functions, frama, locals, calls, history>>

Next ==
  \E h \in Handlers :
    \/ \E f \in Names \cup {Unknown} : CallResolve(h, f)
    \/ \E run \in Runs : CallWp(h, run)
    \/ CallList(h) \/ CallRefresh(h) \/ CallGoals(h)
    \/ Reset(h) \/ ResetIgnored(h) \/ Fetch(h)
    \/ Lookup(h) \/ UpdateFunctions(h) \/ Retry(h)
    \/ SetProvers(h) \/ SetTimeout(h) \/ SetWpConfig(h) \/ RefuseModel(h)
    \/ Resolve(h) \/ Prove(h) \/ Tasks(h)
    \/ Return(h) \/ RequestFails(h)

Spec == Init /\ [][Next]_vars

-----------------------------------------------------------------------------
(* Properties.                                                             *)

\* A fetch whose pages no other call took has, at its last page, every entry of
\* the array, those added meanwhile included; if none was added it has each of
\* them once, however often others reset the array between two of its pages.
FetchIsComplete ==
  [][\A h \in Handlers :
       pc[h] = "page" /\ pc'[h] = "fetched" /\ pages[h] # "stolen" =>
         /\ ToSet(got'[h]) = ToSet(Contents(ArrayOf(h)))
         /\ pages[h] = "whole" => IsInjective(got'[h])]_vars

\* A function of the program is found, whatever the cache held, and whoever
\* replaces it between the refresh and the second look, but for stolen pages.
FunctionsAreFound ==
  [][\A h \in Handlers :
       pc[h] # "notfound" /\ pc'[h] = "notfound" /\ wanted[h] \in Names => partial]_vars

Asked(run, field, value) == run[field] = Absent \/ run[field] = value

\* A run of WP that is answered has started the proof of what it was asked for,
\* in a sandbox of the function that is in it, and unless another call set
\* something meanwhile each with the model it asked for, Typed+nocast if none,
\* and the prover, the timeout and the property it gave: no earlier call's.
WpRunsAsAsked ==
  \A h \in {x \in Handlers : pc[x] = "done" /\ job[x].tool = "wp"} :
    LET r == job[h].run
        asked == IF target = "sandbox" THEN {Extracted} ELSE ToSet(r.functions)
    IN /\ IF r.all_functions THEN pages[h] = "stolen" \/ {p.function : p \in proofs[h]} \in {{}, Names}
          ELSE {p.function : p \in proofs[h]} = asked
       /\ ~mixed[h] => \A p \in proofs[h] :
            /\ p.settings.model = IF r.model = Absent THEN "Typed+nocast" ELSE r.model
            /\ \A field \in {"prover", "timeout", "prop"} : Asked(r, field, p.settings[field])
=============================================================================
