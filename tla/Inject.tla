------------------------------- MODULE Inject -------------------------------
(***************************************************************************)
(* src/mcp/server.rs: inject_all_annotations_sandbox and _main.  Both turn *)
(* the proposed_* fields of a function into a plan of ACSL clauses and add *)
(* them to Frama-C's AST one request at a time.  On main the statement ids *)
(* of the loops, which are those of the sandbox, are first replaced by     *)
(* those of the loops of the main AST, in source order.                    *)
(*                                                                         *)
(* One function is modelled, in its sandbox and in the main instance.      *)
(* Between two requests of a call other injections run, the sandbox is     *)
(* reset, deleted or created, and main is reloaded; every entry is sent to *)
(* whatever is there by then (resolve_client).  What an answer of          *)
(* fetchStatus is used for is not modelled: it is an object, as_array()    *)
(* gives None, and the set of existing annotations stays empty.            *)
(***************************************************************************)
EXTENDS Naturals, FiniteSets, Sequences, SequencesExt, Listing

CONSTANTS
  Handlers,    \* concurrent tool calls
  Submissions, \* the proposed_* fields agents submit
  SandboxBody, \* the statements of the function in its sandbox
  MainBodies,  \* and in the main instance, for every parse
  MaxCalls,    \* bound: injections
  MaxChanges,  \* bound: times an AST is replaced
  Faults       \* "fail": a request returns an error

Targets == {"sandbox", "main"}

\* {acsl, behavior?}: what Frama-C makes of the text, and the behavior it names.
Texts  == {"good", "blank", "garbled", "unbound", "local", "mistyped"}
Clause == [text : Texts, behavior : STRING]
Blank  == [text |-> "blank", behavior |-> "none"]

\* The proposed_* fields of a function, and of a loop (proposed_loop_annots).
LoopAnnot == [sid : Nat, invariants : Seq(Clause), assigns : Seq(Clause), variant : Clause]
Submission ==
  [behaviors : SUBSET STRING, requires : Seq(Clause), ensures : Seq(Clause),
   assigns : Seq(Clause), loops : Seq(LoopAnnot), terminates : Clause]

\* A body is what getFunctionAst prints: the statements by id, each with its
\* line, and the lists of those inside it.
Loops(body) == {sid \in DOMAIN body.stmts : body.stmts[sid].loop}

LoopsInSource(body) ==
  LET lines == Sorted({body.stmts[s].line : s \in Loops(body)})
  IN [k \in DOMAIN lines |-> CHOOSE s \in Loops(body) : body.stmts[s].line = lines[k]]

\* Mutant: the branches in another order.
ElseFirst(stmt) == stmt.else_body \o stmt.then_body \o stmt.body

\* The order in which collect_loop_sids visits what is inside a statement.
Inside(stmt) == stmt.then_body \o stmt.else_body \o stmt.body

\* collect_loop_sids: the walk, to the depth the body has at most.
CollectLoopSids(body) ==
  LET All(visit, list) == FlattenSeq([i \in DOMAIN list |-> visit[list[i]]])
      walk[depth \in 0..Cardinality(DOMAIN body.stmts)] ==
        [sid \in DOMAIN body.stmts |->
           IF depth = 0 THEN <<>>
           ELSE (IF body.stmts[sid].loop THEN <<sid>> ELSE <<>>)
                  \o All(walk[depth - 1], Inside(body.stmts[sid]))]
  IN All(walk[Cardinality(DOMAIN body.stmts)], body.roots)

\* The order in which the plugin prints what is inside a statement.
Printed(stmt) == stmt.then_body \o stmt.else_body \o stmt.body

\* The statements of a list have some loops in them, those of a statement before
\* those of the next.
InTurn(body, below, list, loops) ==
  /\ list \in Seq(DOMAIN body.stmts) /\ loops = UNION {below[list[i]] : i \in DOMAIN list}
  /\ \A i, j \in DOMAIN list : i < j =>
       \A s \in below[list[i]], t \in below[list[j]] : body.stmts[s].line < body.stmts[t].line

\* The statements are nested to some depth, with loops below them.
Nests(body, below, depth) ==
  /\ InTurn(body, below, body.roots, Loops(body))
  /\ \A s \in DOMAIN body.stmts :
       /\ InTurn(body, below, Printed(body.stmts[s]), below[s] \ {s})
       /\ \A i \in DOMAIN Printed(body.stmts[s]) : depth[Printed(body.stmts[s])[i]] < depth[s]
       /\ s \in Loops(body) =>
            s \in below[s] /\ \A t \in below[s] \ {s} : body.stmts[s].line < body.stmts[t].line

\* A body is a tree, and no loop is above one that it is inside of or that is
\* before it.
IsBody(body) ==
  /\ IsFiniteSet(DOMAIN body.stmts) /\ \A s \in Loops(body) : body.stmts[s].line \in Nat
  /\ \E below \in [DOMAIN body.stmts -> SUBSET Loops(body)] :
       \E depth \in [DOMAIN body.stmts -> 1 .. Cardinality(DOMAIN body.stmts)] :
         Nests(body, below, depth)

ASSUME InjectAssumption ==
  /\ IsFiniteSet(Handlers) /\ MaxCalls \in Nat /\ MaxChanges \in Nat
  /\ Faults \subseteq {"fail"}
  /\ MaxChanges < Len(MainBodies)
  /\ \A parse \in 1 .. MaxChanges + 1 : IsBody(MainBodies[parse])
  /\ \A s \in Submissions : s \in Submission

VARIABLES
  ast,      \* of each target: which parse it is, and the annotations in it
  present,  \* the sandbox is in the map
  clean,    \* sandbox_clean of the function's conclusion
  unnoted,  \* sandboxes in the map whose creation is still to be noted there
  early,    \* history: an injection was noted while one was
  pc,       \* where each call is
  request,  \* its number, target, fields and statement ids, and the parse these are of
  plan, at, \* the entries to inject and the next one
  good, bad, \* the paths of successful[] and of failures[] with their type; "lost" is
             \* the proposed_error of an entry that got no answer
  calls,    \* counted for the bound
  answers   \* history: what each call was answered

task == <<pc, request, plan, at, good, bad>>
sandbox == <<present, clean, unnoted, early>>
vars == <<ast, sandbox, task, calls, answers>>

Body(t) == IF t = "main" THEN MainBodies[ast["main"].parse] ELSE SandboxBody

-----------------------------------------------------------------------------
(* The plan.                                                               *)

\* The path of an entry: the field it is from, the loop (0 is the contract) and
\* its index there.
Section(field, loop, sid, clauses) ==
  [j \in DOMAIN clauses |->
     [path |-> [field |-> field, loop |-> loop, index |-> j], sid |-> sid, clause |-> clauses[j]]]

\* loop_annots_to_acsl.
OfLoop(l, i, sid) ==
  Section("invariants", i, sid, l.invariants)
    \o Section("assigns", i, sid, l.assigns)
    \o Section("variant", i, sid, <<l.variant>>)

\* Absent and empty texts are passed over, but for requires, ensures and
\* invariants, which are sent empty.
Submitted(e) ==
  e.clause.text # "blank" \/ e.path.field \in {"requires", "ensures", "invariants"}

Sections(s, sids) ==
  Section("requires", 0, 0, s.requires)
    \o Section("ensures", 0, 0, s.ensures)
    \o Section("assigns", 0, 0, s.assigns)
    \o FlattenSeq([i \in DOMAIN s.loops |-> OfLoop(s.loops[i], i, sids[i])])
    \o Section("terminates", 0, 0, <<s.terminates>>)

Entries(s, sids) ==
  LET all == Sections(s, sids)
  IN EntriesAt(all, {i \in DOMAIN all : Submitted(all[i])})

\* A clause names no behavior, or one of proposed_behaviors.
Declared(e, s) == e.clause.behavior \in s.behaviors \cup {"none"}

Planned(s, sids) ==
  LET entries == Entries(s, sids)
  IN EntriesAt(entries, {i \in DOMAIN entries : Declared(entries[i], s)})

\* The rest fails before anything is sent.
EarlyFailures(s, sids) ==
  {[path |-> e.path, type |-> "proposed_error"] :
     e \in {d \in ToSet(Entries(s, sids)) : ~Declared(d, s)}}

-----------------------------------------------------------------------------
(* One entry.                                                              *)

\* acsl_kind_to_ast_kind looks at how the text begins, and that of a loop
\* clause with a behavior begins with "for".
AstKind(e) ==
  IF e.path.loop # 0 /\ e.clause.behavior = "none" THEN "annot" ELSE "spec"

\* execAddAnnotation on a contract (type_spec), as an error or "none".
ContractError(e) ==
  CASE e.path.loop # 0 \/ e.clause.text \in {"blank", "garbled"} -> "syntax error"
    [] e.clause.text = "local" -> "function local"
    [] e.clause.text \in {"unbound", "mistyped"} -> e.clause.text
    [] OTHER -> "none"

\* The same on a statement: find_stmt, type_annot, insert_annots.
StatementError(e, body) ==
  CASE e.sid \notin DOMAIN body.stmts -> "not found"
    [] e.clause.text \in {"blank", "garbled"} -> "syntax error"
    [] e.clause.text \in {"unbound", "mistyped"} -> e.clause.text
    [] e.sid \notin Loops(body) -> "not a loop"
    [] OTHER -> "none"

ErrorOf(e, body) ==
  IF AstKind(e) = "spec" THEN ContractError(e) ELSE StatementError(e, body)

\* classify_failure.
Classify(error) ==
  CASE error = "function local" -> "proposed_local_var_in_funspec"
    [] error \in {"unbound", "not found"} -> "proposed_self_referential"
    [] error = "syntax error" -> "syntax_error"
    [] OTHER -> "proposed_error"

\* Mutant: a single syntax error hides the others.
AnySyntaxError(failures) ==
  IF failures = {} THEN "success"
  ELSE IF \E f \in failures : f.type = "syntax_error" THEN "partial"
  ELSE "proposed_error"

\* compute_status.
Status(failures) ==
  IF failures = {} THEN "success"
  ELSE IF \A f \in failures : f.type = "syntax_error" THEN "partial"
  ELSE "proposed_error"

-----------------------------------------------------------------------------
NoRequest ==
  [call |-> 0, target |-> "main", fields |-> CHOOSE s \in Submissions : TRUE, sids |-> <<>>, parse |-> 0]

Init ==
  /\ ast = [t \in Targets |-> [parse |-> 1, annotations |-> {}]]
  /\ present = TRUE /\ clean = TRUE /\ unnoted = 0 /\ early = FALSE
  /\ pc = [h \in Handlers |-> "idle"]
  /\ request = [h \in Handlers |-> NoRequest]
  /\ plan = [h \in Handlers |-> <<>>] /\ at = [h \in Handlers |-> 0]
  /\ good = [h \in Handlers |-> {}] /\ bad = [h \in Handlers |-> {}]
  /\ calls = 0 /\ answers = {}

\* A call ends, and leaves nothing behind.
Clear(h) ==
  /\ pc' = [pc EXCEPT ![h] = "idle"]
  /\ request' = [request EXCEPT ![h] = NoRequest]
  /\ plan' = [plan EXCEPT ![h] = <<>>] /\ at' = [at EXCEPT ![h] = 0]
  /\ good' = [good EXCEPT ![h] = {}] /\ bad' = [bad EXCEPT ![h] = {}]

\* The target is resolved; a sandbox that is gone is an error.  On main the
\* loops, if there are any, are looked up first.
Call(h, t, s) ==
  /\ pc[h] = "idle" /\ calls < MaxCalls
  /\ t = "sandbox" => present
  /\ calls' = calls + 1
  /\ request' = [request EXCEPT ![h] =
       [call |-> calls', target |-> t, fields |-> s,
        sids |-> [i \in DOMAIN s.loops |-> s.loops[i].sid], parse |-> ast[t].parse]]
  /\ pc' = [pc EXCEPT ![h] = IF t = "main" /\ s.loops # <<>> THEN "loops" ELSE "plan"]
  /\ UNCHANGED <<ast, sandbox, plan, at, good, bad, answers>>

\* fetch_loop_sids.  Another number of loops than submitted is an error.
FetchLoops(h) ==
  /\ pc[h] = "loops"
  /\ LET sids == CollectLoopSids(Body("main")) IN
     IF Len(sids) # Len(request[h].fields.loops)
       THEN Clear(h)
       ELSE /\ request' = [request EXCEPT ![h].sids = sids, ![h].parse = ast["main"].parse]
            /\ pc' = [pc EXCEPT ![h] = "plan"]
            /\ UNCHANGED <<plan, at, good, bad>>
  /\ UNCHANGED <<ast, sandbox, calls, answers>>

FetchLoopsFails(h) ==
  /\ "fail" \in Faults
  /\ pc[h] = "loops"
  /\ Clear(h)
  /\ UNCHANGED <<ast, sandbox, calls, answers>>

\* The plan is built, and fetchStatus answered to no effect.
Plan(h) ==
  /\ pc[h] = "plan"
  /\ plan' = [plan EXCEPT ![h] = Planned(request[h].fields, request[h].sids)]
  /\ bad' = [bad EXCEPT ![h] = EarlyFailures(request[h].fields, request[h].sids)]
  /\ at' = [at EXCEPT ![h] = 1]
  /\ pc' = [pc EXCEPT ![h] = "inject"]
  /\ UNCHANGED <<ast, sandbox, request, good, calls, answers>>

Reachable(h) == request[h].target = "sandbox" => present
Entry(h) == plan[h][at[h]]

Added(h) ==
  LET t == request[h].target IN
  [ast EXCEPT ![t].annotations = @ \cup
     {[call |-> request[h].call, path |-> Entry(h).path,
       place |-> IF AstKind(Entry(h)) = "spec" THEN 0 ELSE Entry(h).sid]}]

Refused(h, type) == [bad EXCEPT ![h] = @ \cup {[path |-> Entry(h).path, type |-> type]}]

\* Mutant: the answer is taken for a success.
Unread(error) == TRUE

\* parse_plugin_success.
PluginSuccess(error) == error = "none"

\* add_annotation_impl is answered by the plugin.
InjectEntry(h) ==
  /\ pc[h] = "inject" /\ at[h] <= Len(plan[h]) /\ Reachable(h)
  /\ LET error == ErrorOf(Entry(h), Body(request[h].target)) IN
       /\ ast' = IF error = "none" THEN Added(h) ELSE ast
       /\ IF PluginSuccess(error)
            THEN good' = [good EXCEPT ![h] = @ \cup {Entry(h).path}] /\ bad' = bad
            ELSE good' = good /\ bad' = Refused(h, Classify(error))
  /\ at' = [at EXCEPT ![h] = @ + 1]
  /\ UNCHANGED <<sandbox, pc, request, plan, calls, answers>>

\* It returns an error: the sandbox is gone, or the request failed, with or
\* without its effect.  The next entry follows.
InjectEntryFails(h) ==
  /\ pc[h] = "inject" /\ at[h] <= Len(plan[h])
  /\ ~Reachable(h) \/ "fail" \in Faults
  /\ \/ ast' = ast
     \/ /\ Reachable(h) /\ ErrorOf(Entry(h), Body(request[h].target)) = "none"
        /\ ast' = Added(h)
  /\ bad' = Refused(h, "lost")
  /\ at' = [at EXCEPT ![h] = @ + 1]
  /\ UNCHANGED <<sandbox, pc, request, plan, good, calls, answers>>

\* Mutant: only a complete injection is noted.
NotedIfComplete(h) == bad[h] = {}

\* on_annotation_added is called whatever the outcome.
Noted(h) == TRUE

ToNote(h) == request[h].target = "sandbox" /\ present
Done(h)   == pc[h] = "inject" /\ at[h] > Len(plan[h])

\* The sandbox is looked up, and the lock of the map given back.
FindSandbox(h) ==
  /\ Done(h) /\ ToNote(h)
  /\ pc' = [pc EXCEPT ![h] = "note"]
  /\ UNCHANGED <<ast, sandbox, request, plan, at, good, bad, calls, answers>>

\* The injection is noted once, if the sandbox was there, and answered.
Answer(h) ==
  /\ \/ /\ Done(h) /\ ~ToNote(h)
        /\ UNCHANGED <<clean, early>>
     \/ /\ pc[h] = "note"
        /\ clean' = (clean /\ ~Noted(h))
        /\ early' = (unnoted # 0)
  /\ answers' = answers \cup
       {[request |-> request[h], good |-> good[h], bad |-> bad[h], status |-> Status(bad[h])]}
  /\ Clear(h)
  /\ UNCHANGED <<ast, present, unnoted, calls>>

-----------------------------------------------------------------------------
(* The rest of the server: reload_project, create_sandbox, and             *)
(* delete_sandbox; reset_sandbox is the removal, and then a creation.      *)

Changes == ast["main"].parse + ast["sandbox"].parse - 2

Reparsed(t) == [ast EXCEPT ![t] = [parse |-> @.parse + 1, annotations |-> {}]]

Reload ==
  /\ Changes < MaxChanges
  /\ ast' = Reparsed("main")
  /\ UNCHANGED <<sandbox, task, calls, answers>>

\* create_sandbox puts the new sandbox in the map.  Calls find it from then on.
Insert ==
  /\ Changes < MaxChanges
  /\ ast' = Reparsed("sandbox")
  /\ present' = TRUE /\ unnoted' = unnoted + 1 /\ early' = FALSE
  /\ UNCHANGED <<clean, task, calls, answers>>

\* on_sandbox_created, when it gets the lock of the state.
NoteCreated ==
  /\ unnoted > 0
  /\ unnoted' = unnoted - 1 /\ clean' = TRUE
  /\ UNCHANGED <<ast, present, early, task, calls, answers>>

Delete ==
  /\ present
  /\ present' = FALSE
  /\ UNCHANGED <<ast, clean, unnoted, early, task, calls, answers>>

Next ==
  \/ \E h \in Handlers :
       \/ \E t \in Targets, s \in Submissions : Call(h, t, s)
       \/ FetchLoops(h) \/ FetchLoopsFails(h) \/ Plan(h)
       \/ InjectEntry(h) \/ InjectEntryFails(h)
       \/ FindSandbox(h) \/ Answer(h)
  \/ Reload \/ Insert \/ NoteCreated \/ Delete

Spec == Init /\ [][Next]_vars

-----------------------------------------------------------------------------
(* Properties.                                                             *)

Paths(entries) == {e.path : e \in entries}

\* The annotations a call has added to the AST as it is now.
AddedBy(r) == {n \in ast[r.target].annotations : n.call = r.call}

Requests == {a.request : a \in answers} \cup {request[h] : h \in Handlers}
Current(r) == r.call # 0 /\ r.parse = ast[r.target].parse

InAst(r)  == Paths(AddedBy(r))
Unsure(b) == Paths({f \in b : f.type = "lost"})

\* What is reported as injected is in the AST, and what was refused is not, as
\* long as the AST has not been replaced; only an entry without an answer may
\* be either.
TellsWhatIsThere(a) ==
  Current(a.request) =>
    a.good \subseteq InAst(a.request) /\ InAst(a.request) \subseteq a.good \cup Unsure(a.bad)

Submitting(a) == Paths(ToSet(Entries(a.request.fields, a.request.sids)))

\* Every clause that was submitted is either injected or failed.
AnsweredOnce(a) ==
  a.good \cup Paths(a.bad) = Submitting(a) /\ a.good \cap Paths(a.bad) = {}

\* "success" means that all of it is there, and "partial" that the rest had
\* syntax errors.
StatusIsRight(a) ==
  /\ Current(a.request) /\ a.status = "success" => InAst(a.request) = Submitting(a)
  /\ a.status = "partial" => \A f \in a.bad : f.type = "syntax_error"

\* An answer is complete, tells what is in the AST, and sums it up.
AnswerMatchesAst ==
  \A a \in answers : AnsweredOnce(a) /\ TellsWhatIsThere(a) /\ StatusIsRight(a)

InSourceOrder(loops) ==
  \A i \in DOMAIN loops :
    i <= Cardinality(Loops(SandboxBody)) /\ loops[i].sid = LoopsInSource(SandboxBody)[i]

\* An annotation of a loop is on that loop, in the sandbox and in main, whose
\* statement ids differ, and a clause of the contract is in the contract: what
\* is merged is what was verified.  It holds for fields that list the loops in
\* source order, and until the AST they are mapped to is replaced.
MergeIsWhatWasVerified ==
  \A r \in {q \in Requests : Current(q) /\ InSourceOrder(q.fields.loops)} :
    \A n \in AddedBy(r) :
      n.place = IF n.path.loop = 0 THEN 0 ELSE LoopsInSource(Body(r.target))[n.path.loop]

InjectsIntoSandbox(h) == pc[h] \in {"inject", "note"} /\ request[h].target = "sandbox"

\* A conclusion that calls its sandbox clean is right, but while an injection is
\* under way, and unless the last one was noted before the sandbox's own
\* creation, which then calls the sandbox clean again.  All other injections
\* leave it right, those that fail in part and those that find another sandbox
\* at their next entry too.
CleanSandboxIsUnannotated ==
  (clean /\ present /\ ~early /\ ~\E h \in Handlers : InjectsIntoSandbox(h))
    => ast["sandbox"].annotations = {}
=============================================================================
