----------------------------- MODULE InjectProofs -----------------------------
(***************************************************************************)
(* Proofs about Inject, for every number of calls, every body of the       *)
(* function and every list of submissions.                                 *)
(*                                                                         *)
(* That a clean sandbox has no annotations needs that one with annotations *)
(* was noted after its creation (CleanInv).                                *)
(* That an answer tells what is in the AST is not: it needs that calls     *)
(* have their own numbers (NumbersInv), that no request is about a parse   *)
(* still to come (ParsesInv), and that what a call has noted so far is     *)
(* true while it injects (ReportInv).  That every clause is answered for   *)
(* (AccountsInv) rests on the list of clauses: no two have the same path   *)
(* (Own), and those that are sent and those that fail before are all of    *)
(* them (PlannedFacts).  The list also tells where a clause belongs        *)
(* (Placed), which PlacesInv follows into the AST; that the ids from       *)
(* collect_loop_sids are those of the loops in source order is shown by    *)
(* induction over the depth of the walk.                                   *)
(***************************************************************************)
EXTENDS Inject, ListingProofs

\* The shape of the variables: as much of their types as the arguments use.
Shape ==
  /\ DOMAIN ast = Targets
  /\ \A t \in Targets : DOMAIN ast[t] = {"parse", "annotations"} /\ ast[t].parse \in Nat
  /\ present \in BOOLEAN /\ clean \in BOOLEAN /\ unnoted \in Nat /\ early \in BOOLEAN
  /\ DOMAIN pc = Handlers /\ DOMAIN request = Handlers
  /\ \A h \in Handlers :
       /\ DOMAIN request[h] = {"call", "target", "fields", "sids", "parse"}
       /\ request[h].target \in Targets /\ request[h].call \in Nat
       /\ pc[h] = "loops" => request[h].target = "main"
  /\ DOMAIN plan = Handlers /\ DOMAIN at = Handlers
  /\ DOMAIN good = Handlers /\ DOMAIN bad = Handlers
  /\ calls \in Nat

\* What the rest of the server does to a call: it replaces an AST, or nothing.
Replaced(t) ==
  /\ Changes < MaxChanges /\ ast' = Reparsed(t)
  /\ UNCHANGED <<task, calls, answers>>

LEMMA OtherTools ==
  Reload \/ Insert \/ NoteCreated \/ Delete \/ UNCHANGED vars =>
    (\E t \in Targets : Replaced(t)) \/ UNCHANGED <<ast, task, calls, answers>>
BY DEF Reload, Insert, NoteCreated, Delete, vars, Replaced, Targets

\* A step keeps the shape of the variables.
LEMMA ShapeStep == Shape /\ [Next]_vars => Shape'
<1> SUFFICES ASSUME Shape, [Next]_vars PROVE Shape'
  OBVIOUS
<1> USE DEF Shape, Targets
<1>1. ASSUME NEW h \in Handlers, NEW t \in Targets, NEW s \in Submissions, Call(h, t, s) PROVE Shape'
  BY <1>1 DEF Call, sandbox
<1>2. ASSUME NEW h \in Handlers, FetchLoops(h) PROVE Shape'
  BY <1>2 DEF FetchLoops, Clear, NoRequest, sandbox
<1>3. ASSUME NEW h \in Handlers, FetchLoopsFails(h) PROVE Shape'
  BY <1>3 DEF FetchLoopsFails, Clear, NoRequest, sandbox
<1>4. ASSUME NEW h \in Handlers, Plan(h) PROVE Shape'
  BY <1>4 DEF Plan, sandbox
<1>5. ASSUME NEW h \in Handlers, InjectEntry(h) PROVE Shape'
  BY <1>5 DEF InjectEntry, Added, Refused, sandbox
<1>6. ASSUME NEW h \in Handlers, InjectEntryFails(h) PROVE Shape'
  BY <1>6 DEF InjectEntryFails, Added, Refused, sandbox
<1>7. ASSUME NEW h \in Handlers, FindSandbox(h) PROVE Shape'
  BY <1>7 DEF FindSandbox, sandbox
<1>8. ASSUME NEW h \in Handlers, Answer(h) PROVE Shape'
  <2>1. clean' \in BOOLEAN /\ early' \in BOOLEAN
    <3>1. CASE UNCHANGED <<clean, early>>
      BY <3>1
    <3>2. CASE clean' = (clean /\ ~Noted(h)) /\ early' = (unnoted # 0)
      BY <3>2
    <3> QED BY <1>8, <3>1, <3>2 DEF Answer
  <2>2. present' = present /\ unnoted' = unnoted /\ ast' = ast /\ calls' = calls /\ Clear(h)
    BY <1>8 DEF Answer
  <2> QED BY <2>1, <2>2 DEF Clear, NoRequest
<1>9. CASE Reload
  BY <1>9 DEF Reload, Reparsed, sandbox, task
<1>10. CASE Insert
  <2>1. present' \in BOOLEAN /\ clean' \in BOOLEAN /\ early' \in BOOLEAN
    BY <1>10 DEF Insert
  <2>2. unnoted' \in Nat
    BY <1>10 DEF Insert
  <2>3. ast' = Reparsed("sandbox") /\ UNCHANGED <<task, calls>>
    BY <1>10 DEF Insert
  <2> QED BY <2>1, <2>2, <2>3 DEF Reparsed, task
<1>11. CASE NoteCreated
  BY <1>11 DEF NoteCreated, task
<1>12. CASE Delete
  BY <1>12 DEF Delete, task
<1>13. CASE UNCHANGED vars
  BY <1>13 DEF vars, sandbox, task
<1> QED BY <1>1, <1>2, <1>3, <1>4, <1>5, <1>6, <1>7, <1>8, <1>9, <1>10, <1>11, <1>12, <1>13 DEF Next

\* A sandbox with annotations was noted as such after it was noted as created,
\* but while an injection into it is under way.
CleanInv ==
  (present /\ ~early /\ (\A h \in Handlers : ~InjectsIntoSandbox(h)) /\ ast["sandbox"].annotations # {})
    => ~clean /\ unnoted = 0

\* A call is exempt while it injects into the sandbox; it is noted when it
\* stops, unless the sandbox is gone, and only a new one comes back.
LEMMA CleanStep == Shape /\ CleanInv /\ [Next]_vars => CleanInv'
<1> SUFFICES ASSUME Shape, CleanInv, [Next]_vars PROVE CleanInv'
  OBVIOUS
<1> USE DEF Shape, CleanInv, InjectsIntoSandbox, Targets
<1>1. ASSUME NEW h \in Handlers, NEW t \in Targets, NEW s \in Submissions, Call(h, t, s)
      PROVE  CleanInv'
  BY <1>1 DEF Call, sandbox
<1>2. ASSUME NEW h \in Handlers, FetchLoops(h) PROVE CleanInv'
  BY <1>2 DEF FetchLoops, Clear, sandbox
<1>3. ASSUME NEW h \in Handlers, FetchLoopsFails(h) PROVE CleanInv'
  BY <1>3 DEF FetchLoopsFails, Clear, sandbox
<1>4. ASSUME NEW h \in Handlers, Plan(h) PROVE CleanInv'
  BY <1>4 DEF Plan, sandbox
<1>5. ASSUME NEW h \in Handlers, InjectEntry(h) PROVE CleanInv'
  BY <1>5 DEF InjectEntry, Added, sandbox
<1>6. ASSUME NEW h \in Handlers, InjectEntryFails(h) PROVE CleanInv'
  BY <1>6 DEF InjectEntryFails, Added, Reachable, sandbox
<1>7. ASSUME NEW h \in Handlers, FindSandbox(h) PROVE CleanInv'
  BY <1>7 DEF FindSandbox, Done, sandbox
<1>8. ASSUME NEW h \in Handlers, Answer(h) PROVE CleanInv'
  <2>1. /\ ast' = ast /\ present' = present /\ unnoted' = unnoted /\ pc'[h] = "idle"
        /\ \A k \in Handlers \ {h} : pc'[k] = pc[k] /\ request'[k] = request[k]
    BY <1>8 DEF Answer, Clear
  <2>2. \A k \in Handlers \ {h} : InjectsIntoSandbox(k)' <=> InjectsIntoSandbox(k)
    BY <2>1
  <2>3. CASE Done(h) /\ ~ToNote(h) /\ UNCHANGED <<clean, early>>
    <3>1. present => ~InjectsIntoSandbox(h)
      BY <2>3 DEF Done, ToNote
    <3> QED BY <2>1, <2>2, <2>3, <3>1
  <2>4. CASE pc[h] = "note" /\ clean' = (clean /\ ~Noted(h)) /\ early' = (unnoted # 0)
    <3>1. ~clean'
      BY <2>4 DEF Noted
    <3>2. ~early' => unnoted = 0
      BY <2>4
    <3> QED BY <2>1, <3>1, <3>2
  <2> QED BY <1>8, <2>3, <2>4 DEF Answer
<1>9. CASE Reload
  BY <1>9 DEF Reload, Reparsed, sandbox, task
<1>10. CASE Insert
  BY <1>10 DEF Insert, Reparsed, task
<1>11. CASE NoteCreated
  BY <1>11 DEF NoteCreated, task
<1>12. CASE Delete
  BY <1>12 DEF Delete, task
<1>13. CASE UNCHANGED vars
  BY <1>13 DEF vars, sandbox, task
<1> QED BY <1>1, <1>2, <1>3, <1>4, <1>5, <1>6, <1>7, <1>8, <1>9, <1>10, <1>11, <1>12, <1>13 DEF Next

\* The initial state has the shape, and a clean sandbox.
LEMMA Initially == Init => Shape /\ CleanInv
<1> SUFFICES ASSUME Init PROVE Shape /\ CleanInv
  OBVIOUS
<1>1. ast["sandbox"].annotations = {}
  BY DEF Init, Targets
<1>2. unnoted \in Nat /\ clean \in BOOLEAN /\ early \in BOOLEAN /\ present \in BOOLEAN
  BY DEF Init
<1> QED BY <1>1, <1>2 DEF Init, Shape, CleanInv, NoRequest, Targets

\* When no injection into the sandbox is under way, a conclusion that calls its
\* sandbox clean is right, unless the last injection was noted before the
\* sandbox's own creation (server.rs): on_annotation_added is called after every
\* injection, whatever it was answered.
THEOREM CleanIsRight == Spec => []CleanSandboxIsUnannotated
<1>1. CleanInv => CleanSandboxIsUnannotated
  BY DEF CleanInv, CleanSandboxIsUnannotated
<1> QED BY <1>1, Initially, ShapeStep, CleanStep, PTL DEF Spec

-----------------------------------------------------------------------------
(* What a call reports.                                                    *)

\* What the call of request r has added to x, and a report of it that is true:
\* g was injected, b was not.
AddedTo(x, r) == {n \in x[r.target].annotations : n.call = r.call}

Truthful(x, r, g, b) ==
  /\ r.parse = x[r.target].parse => g \subseteq Paths(AddedTo(x, r))
  /\ Paths(AddedTo(x, r)) \subseteq g \cup Unsure(b)

Active(h) == pc[h] # "idle"

\* The calls have their own numbers, which mark what they add.
NumbersInv ==
  /\ \A h \in Handlers : Active(h) => request[h].call <= calls
  /\ \A h, k \in Handlers : Active(h) /\ Active(k) /\ h # k => request[h].call # request[k].call
  /\ \A a \in answers : a.request.call \in Nat /\ a.request.call <= calls
  /\ \A a \in answers, h \in Handlers : Active(h) => a.request.call # request[h].call
  /\ \A t \in Targets : \A n \in ast[t].annotations : n.call \in Nat /\ n.call <= calls

\* No request is about an AST that is still to come.
ParsesInv ==
  /\ \A h \in Handlers : request[h].parse \in Nat /\ request[h].parse <= ast[request[h].target].parse
  /\ \A a \in answers : /\ a.request.target \in Targets
                        /\ a.request.parse \in Nat
                        /\ a.request.parse <= ast[a.request.target].parse

\* A call that has not begun to inject has added nothing; from then on what it
\* has noted is the truth, and so is its answer.
ReportInv ==
  /\ \A h \in Handlers : pc[h] \notin {"inject", "note"} => good[h] = {}
  /\ \A h \in Handlers : pc[h] \in {"loops", "plan"} => AddedTo(ast, request[h]) = {}
  /\ \A h \in Handlers : pc[h] \in {"inject", "note"} => Truthful(ast, request[h], good[h], bad[h])
  /\ \A a \in answers : Truthful(ast, a.request, a.good, a.bad)

\* Looking the loops up changes the parse and the statement ids of the request,
\* or ends the call.
LEMMA FetchLoopsFacts ==
  ASSUME Shape, NEW h \in Handlers, FetchLoops(h)
  PROVE  /\ ast' = ast /\ calls' = calls /\ answers' = answers /\ pc[h] = "loops"
         /\ pc'[h] = "idle" \/ pc'[h] = "plan"
         /\ pc'[h] = "idle" => request'[h] = NoRequest /\ good'[h] = {}
         /\ pc'[h] = "plan" =>
              /\ request'[h].call = request[h].call /\ request'[h].target = "main"
              /\ request'[h].parse = ast["main"].parse
              /\ good'[h] = good[h]
         /\ \A k \in Handlers \ {h} :
              pc'[k] = pc[k] /\ request'[k] = request[k] /\ good'[k] = good[k] /\ bad'[k] = bad[k]
<1>1. PICK sids : sids = CollectLoopSids(Body("main"))
  OBVIOUS
<1>2. /\ pc[h] = "loops" /\ UNCHANGED <<ast, calls, answers>>
      /\ \/ Clear(h)
         \/ /\ request' = [request EXCEPT ![h].sids = sids, ![h].parse = ast["main"].parse]
            /\ pc' = [pc EXCEPT ![h] = "plan"]
            /\ UNCHANGED <<plan, at, good, bad>>
  BY <1>1 DEF FetchLoops
<1>3. CASE Clear(h)
  BY <1>2, <1>3 DEF Clear, Shape
<1>4. CASE /\ request' = [request EXCEPT ![h].sids = sids, ![h].parse = ast["main"].parse]
           /\ pc' = [pc EXCEPT ![h] = "plan"]
           /\ UNCHANGED <<plan, at, good, bad>>
  <2>1. /\ request'[h].call = request[h].call /\ request'[h].target = "main"
        /\ request'[h].parse = ast["main"].parse
    BY <1>2, <1>4 DEF Shape
  <2> QED BY <1>2, <1>4, <2>1 DEF Shape
<1> QED BY <1>2, <1>3, <1>4

\* A step keeps the numbers of calls apart.
LEMMA NumbersStep == Shape /\ NumbersInv /\ [Next]_vars => NumbersInv'
<1> SUFFICES ASSUME Shape, NumbersInv, [Next]_vars PROVE NumbersInv'
  OBVIOUS
<1> USE DEF Shape, NumbersInv, Active, Targets
<1>1. ASSUME NEW h \in Handlers, NEW t \in Targets, NEW s \in Submissions, Call(h, t, s)
      PROVE  NumbersInv'
  BY <1>1 DEF Call
<1>2. ASSUME NEW h \in Handlers, FetchLoops(h) PROVE NumbersInv'
  BY <1>2, FetchLoopsFacts
<1>3. ASSUME NEW h \in Handlers, FetchLoopsFails(h) PROVE NumbersInv'
  BY <1>3 DEF FetchLoopsFails, Clear
<1>4. ASSUME NEW h \in Handlers, Plan(h) PROVE NumbersInv'
  BY <1>4 DEF Plan
<1>5. ASSUME NEW h \in Handlers, InjectEntry(h) PROVE NumbersInv'
  BY <1>5 DEF InjectEntry, Added
<1>6. ASSUME NEW h \in Handlers, InjectEntryFails(h) PROVE NumbersInv'
  BY <1>6 DEF InjectEntryFails, Added
<1>7. ASSUME NEW h \in Handlers, Answer(h) PROVE NumbersInv'
  <2>1. pc[h] # "idle" /\ ast' = ast /\ calls' = calls /\ pc'[h] = "idle"
    BY <1>7 DEF Answer, Done, Clear
  <2>2. \A k \in Handlers \ {h} : pc'[k] = pc[k] /\ request'[k] = request[k]
    BY <1>7 DEF Answer, Clear
  <2>3. \A a \in answers' : a \in answers \/ a.request = request[h]
    BY <1>7 DEF Answer
  <2> QED BY <2>1, <2>2, <2>3
<1>8. ASSUME NEW h \in Handlers, FindSandbox(h) PROVE NumbersInv'
  BY <1>8 DEF FindSandbox, Done
<1>9. ASSUME NEW t \in Targets, Replaced(t) PROVE NumbersInv'
  BY <1>9 DEF Replaced, Reparsed, task
<1>10. CASE UNCHANGED <<ast, task, calls, answers>>
  BY <1>10 DEF task
<1> QED BY <1>1, <1>2, <1>3, <1>4, <1>5, <1>6, <1>7, <1>8, <1>9, <1>10, OtherTools DEF Next

\* A step keeps requests to parses that have been made.
LEMMA ParsesStep == Shape /\ ParsesInv /\ [Next]_vars => ParsesInv'
<1> SUFFICES ASSUME Shape, ParsesInv, [Next]_vars PROVE ParsesInv'
  OBVIOUS
<1> USE DEF Shape, ParsesInv, Targets
<1>1. ASSUME NEW h \in Handlers, NEW t \in Targets, NEW s \in Submissions, Call(h, t, s)
      PROVE  ParsesInv'
  BY <1>1 DEF Call
<1>2. ASSUME NEW h \in Handlers, FetchLoops(h) PROVE ParsesInv'
  <2>1. /\ ast' = ast /\ answers' = answers
        /\ \A k \in Handlers \ {h} : request'[k] = request[k]
    BY <1>2, FetchLoopsFacts
  <2>2. request'[h].target = "main" /\ request'[h].parse \in {0, ast["main"].parse}
    <3>1. NoRequest.target = "main" /\ NoRequest.parse = 0
      BY DEF NoRequest
    <3> QED BY <1>2, <3>1, FetchLoopsFacts
  <2>3. 0 <= ast["main"].parse /\ ast["main"].parse \in Nat
    OBVIOUS
  <2> QED BY <2>1, <2>2, <2>3
<1>3. ASSUME NEW h \in Handlers, FetchLoopsFails(h) PROVE ParsesInv'
  BY <1>3 DEF FetchLoopsFails, Clear, NoRequest
<1>4. ASSUME NEW h \in Handlers, Plan(h) PROVE ParsesInv'
  BY <1>4 DEF Plan
<1>5. ASSUME NEW h \in Handlers, InjectEntry(h) PROVE ParsesInv'
  BY <1>5 DEF InjectEntry, Added
<1>6. ASSUME NEW h \in Handlers, InjectEntryFails(h) PROVE ParsesInv'
  <2>1. request' = request /\ answers' = answers /\ (ast' = ast \/ ast' = Added(h))
    BY <1>6 DEF InjectEntryFails
  <2>2. \A t \in Targets : ast'[t].parse = ast[t].parse
    BY <2>1 DEF Added
  <2> QED BY <2>1, <2>2
<1>7. ASSUME NEW h \in Handlers, Answer(h) PROVE ParsesInv'
  BY <1>7 DEF Answer, Clear, NoRequest
<1>8. ASSUME NEW h \in Handlers, FindSandbox(h) PROVE ParsesInv'
  BY <1>8 DEF FindSandbox, Done
<1>9. ASSUME NEW t \in Targets, Replaced(t) PROVE ParsesInv'
  BY <1>9 DEF Replaced, Reparsed, task
<1>10. CASE UNCHANGED <<ast, task, calls, answers>>
  BY <1>10 DEF task
<1> QED BY <1>1, <1>2, <1>3, <1>4, <1>5, <1>6, <1>7, <1>8, <1>9, <1>10, OtherTools DEF Next

\* An annotation that is not added by call r leaves the reports about r true.
LEMMA OthersUnmoved ==
  ASSUME NEW x, NEW y, NEW r,
         y[r.target].parse = x[r.target].parse,
         \A n : n.call = r.call => (n \in y[r.target].annotations <=> n \in x[r.target].annotations)
  PROVE  /\ AddedTo(y, r) = AddedTo(x, r)
         /\ \A g, b : Truthful(x, r, g, b) => Truthful(y, r, g, b)
<1>1. AddedTo(y, r) = AddedTo(x, r)
  BY DEF AddedTo
<1> QED BY <1>1 DEF Truthful

\* A step keeps every report true: <1>5 is what both outcomes of an entry share.
LEMMA ReportStep == Shape /\ NumbersInv /\ ParsesInv /\ ReportInv /\ [Next]_vars => ReportInv'
<1> SUFFICES ASSUME Shape, NumbersInv, ParsesInv, ReportInv, [Next]_vars PROVE ReportInv'
  OBVIOUS
<1> USE DEF ReportInv
<1>1. ASSUME NEW h \in Handlers, NEW t \in Targets, NEW s \in Submissions, Call(h, t, s)
      PROVE  ReportInv'
  <2>1. /\ ast' = ast /\ answers' = answers /\ good' = good /\ bad' = bad /\ pc[h] = "idle"
        /\ pc'[h] \in {"loops", "plan"}
        /\ request'[h].call = calls + 1 /\ request'[h].target = t
        /\ \A k \in Handlers \ {h} : pc'[k] = pc[k] /\ request'[k] = request[k]
    BY <1>1 DEF Call, Shape
  <2>2. AddedTo(ast, request'[h]) = {}
    <3>1. \A n \in ast[t].annotations : n.call \in Nat /\ n.call <= calls
      BY DEF NumbersInv
    <3> QED BY <2>1, <3>1 DEF AddedTo, Shape
  <2> QED BY <2>1, <2>2
<1>2. ASSUME NEW h \in Handlers, FetchLoops(h) PROVE ReportInv'
  BY <1>2, FetchLoopsFacts DEF AddedTo, Shape
<1>3. ASSUME NEW h \in Handlers, FetchLoopsFails(h) PROVE ReportInv'
  <2>1. /\ ast' = ast /\ answers' = answers /\ good'[h] = {} /\ pc'[h] = "idle"
        /\ \A k \in Handlers \ {h} :
             pc'[k] = pc[k] /\ request'[k] = request[k] /\ good'[k] = good[k] /\ bad'[k] = bad[k]
    BY <1>3 DEF FetchLoopsFails, Clear, Shape
  <2> QED BY <2>1
<1>4. ASSUME NEW h \in Handlers, Plan(h) PROVE ReportInv'
  <2>1. /\ ast' = ast /\ answers' = answers /\ good' = good /\ request' = request
        /\ pc[h] = "plan" /\ pc'[h] = "inject"
        /\ \A k \in Handlers \ {h} : pc'[k] = pc[k] /\ bad'[k] = bad[k]
    BY <1>4 DEF Plan, Shape
  <2>2. Truthful(ast, request[h], {}, bad'[h])
    BY <2>1 DEF Truthful, Paths
  <2> QED BY <2>1, <2>2
<1>5. ASSUME NEW h \in Handlers, NEW path, NEW type, NEW n,
             pc[h] = "inject", pc' = pc, request' = request, answers' = answers,
             n.call = request[h].call, n.path = path,
             \/ /\ ast' = [ast EXCEPT ![request[h].target].annotations = @ \cup {n}]
                /\ \/ good' = [good EXCEPT ![h] = @ \cup {path}] /\ bad' = bad
                   \/ good' = good /\ bad' = [bad EXCEPT ![h] = @ \cup {[path |-> path, type |-> "lost"]}]
             \/ ast' = ast /\ good' = good /\ bad' = [bad EXCEPT ![h] = @ \cup {[path |-> path, type |-> type]}]
      PROVE  ReportInv'
  <2>1. \A k \in Handlers \ {h} : good'[k] = good[k] /\ bad'[k] = bad[k]
    BY <1>5 DEF Shape
  <2>2. \A k \in Handlers \ {h} :
          Active(k) => /\ AddedTo(ast', request[k]) = AddedTo(ast, request[k])
                       /\ \A g, b : Truthful(ast, request[k], g, b) => Truthful(ast', request[k], g, b)
    <3> SUFFICES ASSUME NEW k \in Handlers \ {h}, Active(k)
                 PROVE  /\ AddedTo(ast', request[k]) = AddedTo(ast, request[k])
                        /\ \A g, b : Truthful(ast, request[k], g, b) => Truthful(ast', request[k], g, b)
      OBVIOUS
    <3>1. request[k].call # request[h].call /\ request[k].target \in Targets
      BY <1>5 DEF NumbersInv, Active, Shape
    <3>2. /\ ast'[request[k].target].parse = ast[request[k].target].parse
          /\ \A m : m.call = request[k].call =>
               (m \in ast'[request[k].target].annotations <=> m \in ast[request[k].target].annotations)
      BY <1>5, <3>1 DEF Shape
    <3> QED BY <3>2, OthersUnmoved
  <2>3. \A a \in answers : Truthful(ast', a.request, a.good, a.bad)
    <3> SUFFICES ASSUME NEW a \in answers PROVE Truthful(ast', a.request, a.good, a.bad)
      OBVIOUS
    <3>1. a.request.call # request[h].call /\ a.request.target \in Targets
      BY <1>5 DEF NumbersInv, ParsesInv, Active, Shape
    <3>2. /\ ast'[a.request.target].parse = ast[a.request.target].parse
          /\ \A m : m.call = a.request.call =>
               (m \in ast'[a.request.target].annotations <=> m \in ast[a.request.target].annotations)
      BY <1>5, <3>1 DEF Shape
    <3> QED BY <3>2, OthersUnmoved
  <2>4. Truthful(ast', request[h], good'[h], bad'[h])
    <3>1. request[h].target \in Targets /\ Truthful(ast, request[h], good[h], bad[h])
      BY <1>5 DEF Shape
    <3>2. ast'[request[h].target].parse = ast[request[h].target].parse
      BY <1>5, <3>1 DEF Shape
    <3>3. CASE /\ ast' = [ast EXCEPT ![request[h].target].annotations = @ \cup {n}]
               /\ good' = [good EXCEPT ![h] = @ \cup {path}] /\ bad' = bad
      <4>1. Paths(AddedTo(ast', request[h])) = Paths(AddedTo(ast, request[h])) \cup {path}
        BY <1>5, <3>1, <3>3 DEF Paths, AddedTo, Shape
      <4>2. good'[h] = good[h] \cup {path} /\ bad'[h] = bad[h]
        BY <3>3 DEF Shape
      <4> QED BY <3>1, <3>2, <4>1, <4>2 DEF Truthful
    <3>4. CASE /\ ast' = [ast EXCEPT ![request[h].target].annotations = @ \cup {n}]
               /\ good' = good /\ bad' = [bad EXCEPT ![h] = @ \cup {[path |-> path, type |-> "lost"]}]
      <4>1. Paths(AddedTo(ast', request[h])) = Paths(AddedTo(ast, request[h])) \cup {path}
        BY <1>5, <3>1, <3>4 DEF Paths, AddedTo, Shape
      <4>2. good'[h] = good[h] /\ bad'[h] = bad[h] \cup {[path |-> path, type |-> "lost"]}
        BY <3>4 DEF Shape
      <4>3. Unsure(bad[h]) \subseteq Unsure(bad'[h]) /\ path \in Unsure(bad'[h])
        <5>1. PICK f : f = [path |-> path, type |-> "lost"]
          OBVIOUS
        <5>2. f.path = path /\ f.type = "lost" /\ bad'[h] = bad[h] \cup {f}
          BY <4>2, <5>1
        <5> QED BY <5>2 DEF Unsure, Paths
      <4> QED BY <3>1, <3>2, <4>1, <4>2, <4>3 DEF Truthful
    <3>5. CASE ast' = ast /\ good' = good /\ bad' = [bad EXCEPT ![h] = @ \cup {[path |-> path, type |-> type]}]
      <4>1. Unsure(bad[h]) \subseteq Unsure(bad'[h])
        BY <3>5 DEF Unsure, Paths, Shape
      <4> QED BY <3>1, <3>5, <4>1 DEF Truthful
    <3> QED BY <1>5, <3>3, <3>4, <3>5
  <2> QED BY <1>5, <2>1, <2>2, <2>3, <2>4 DEF Active
<1>6. ASSUME NEW h \in Handlers, InjectEntry(h) PROVE ReportInv'
  <2>1. PICK n : n = [call |-> request[h].call, path |-> Entry(h).path,
                      place |-> IF AstKind(Entry(h)) = "spec" THEN 0 ELSE Entry(h).sid]
    OBVIOUS
  <2>2. PICK error : error = ErrorOf(Entry(h), Body(request[h].target))
    OBVIOUS
  <2>3. /\ pc[h] = "inject" /\ pc' = pc /\ request' = request /\ answers' = answers
        /\ IF error = "none"
           THEN /\ ast' = [ast EXCEPT ![request[h].target].annotations = @ \cup {n}]
                /\ good' = [good EXCEPT ![h] = @ \cup {n.path}] /\ bad' = bad
           ELSE /\ ast' = ast /\ good' = good
                /\ bad' = [bad EXCEPT ![h] = @ \cup {[path |-> n.path, type |-> Classify(error)]}]
    BY <1>6, <2>1, <2>2 DEF InjectEntry, Added, Refused, PluginSuccess
  <2>4. PICK type : type = Classify(error)
    OBVIOUS
  <2> QED BY <1>5, <2>1, <2>3, <2>4
<1>7. ASSUME NEW h \in Handlers, InjectEntryFails(h) PROVE ReportInv'
  <2>1. PICK n : n = [call |-> request[h].call, path |-> Entry(h).path,
                      place |-> IF AstKind(Entry(h)) = "spec" THEN 0 ELSE Entry(h).sid]
    OBVIOUS
  <2>2. /\ pc[h] = "inject" /\ pc' = pc /\ request' = request /\ answers' = answers /\ good' = good
        /\ ast' = ast \/ ast' = [ast EXCEPT ![request[h].target].annotations = @ \cup {n}]
        /\ bad' = [bad EXCEPT ![h] = @ \cup {[path |-> n.path, type |-> "lost"]}]
    BY <1>7, <2>1 DEF InjectEntryFails, Added, Refused
  <2> QED BY <1>5, <2>1, <2>2
<1>8. ASSUME NEW h \in Handlers, Answer(h) PROVE ReportInv'
  <2>1. PICK status : status = Status(bad[h])
    OBVIOUS
  <2>2. /\ ast' = ast /\ pc[h] \in {"inject", "note"} /\ pc'[h] = "idle" /\ good'[h] = {}
        /\ answers' = answers \cup
             {[request |-> request[h], good |-> good[h], bad |-> bad[h], status |-> status]}
        /\ \A k \in Handlers \ {h} :
             pc'[k] = pc[k] /\ request'[k] = request[k] /\ good'[k] = good[k] /\ bad'[k] = bad[k]
    BY <1>8, <2>1 DEF Answer, Done, Clear, Shape
  <2>3. \A a \in answers' : Truthful(ast, a.request, a.good, a.bad)
    BY <2>2
  <2> QED BY <2>2, <2>3
<1>9. ASSUME NEW h \in Handlers, FindSandbox(h) PROVE ReportInv'
  <2>1. /\ ast' = ast /\ answers' = answers /\ request' = request /\ good' = good /\ bad' = bad
        /\ pc[h] = "inject" /\ pc'[h] = "note"
        /\ \A k \in Handlers \ {h} : pc'[k] = pc[k]
    BY <1>9 DEF FindSandbox, Done, Shape
  <2> QED BY <2>1
<1>10. ASSUME NEW t \in Targets, Replaced(t) PROVE ReportInv'
  <2>1. /\ pc' = pc /\ request' = request /\ good' = good /\ bad' = bad /\ answers' = answers
        /\ ast'[t].parse = ast[t].parse + 1 /\ ast'[t].annotations = {}
        /\ \A u \in Targets \ {t} : ast'[u] = ast[u]
    BY <1>10 DEF Replaced, Reparsed, task, Shape
  <2>2. \A r, g, b : /\ r.target \in Targets /\ r.parse \in Nat /\ r.parse <= ast[r.target].parse
                     /\ Truthful(ast, r, g, b)
                     => Truthful(ast', r, g, b)
    <3> SUFFICES ASSUME NEW r, NEW g, NEW b, r.target \in Targets, r.parse \in Nat,
                        r.parse <= ast[r.target].parse, Truthful(ast, r, g, b)
                 PROVE  Truthful(ast', r, g, b)
      OBVIOUS
    <3>1. CASE r.target = t
      <4>1. AddedTo(ast', r) = {} /\ Paths({}) = {}
        BY <2>1, <3>1 DEF AddedTo, Paths
      <4>2. r.parse # ast'[t].parse
        BY <2>1, <3>1 DEF Shape
      <4> QED BY <3>1, <4>1, <4>2 DEF Truthful
    <3>2. CASE r.target # t
      BY <2>1, <3>2 DEF Truthful, AddedTo
    <3> QED BY <3>1, <3>2
  <2>3. \A r : r.target \in Targets /\ AddedTo(ast, r) = {} => AddedTo(ast', r) = {}
    BY <2>1 DEF AddedTo
  <2>4. \A h \in Handlers : pc[h] \in {"loops", "plan"} => AddedTo(ast', request[h]) = {}
    BY <2>3 DEF Shape
  <2>5. \A h \in Handlers : pc[h] \in {"inject", "note"} => Truthful(ast', request[h], good[h], bad[h])
    BY <2>2 DEF Shape, ParsesInv
  <2>6. \A a \in answers : Truthful(ast', a.request, a.good, a.bad)
    BY <2>2 DEF ParsesInv
  <2> QED BY <2>1, <2>4, <2>5, <2>6
<1>11. CASE UNCHANGED <<ast, task, calls, answers>>
  BY <1>11 DEF task
<1> QED BY <1>1, <1>2, <1>3, <1>4, <1>6, <1>7, <1>8, <1>9, <1>10, <1>11, OtherTools DEF Next

\* The status of an answer is that of its failures.
StatusInv == \A a \in answers : a.status = Status(a.bad)

\* A step keeps the status of the answers.
LEMMA StatusStep == StatusInv /\ [Next]_vars => StatusInv'
<1> SUFFICES ASSUME StatusInv, [Next]_vars PROVE StatusInv'
  OBVIOUS
<1>1. ASSUME NEW h \in Handlers, Answer(h) PROVE StatusInv'
  BY <1>1 DEF Answer, StatusInv
<1>2. answers' = answers \/ \E h \in Handlers : Answer(h)
  BY DEF Next, Call, FetchLoops, FetchLoopsFails, Plan, InjectEntry, InjectEntryFails,
         FindSandbox, Reload, Insert, NoteCreated, Delete, vars
<1> QED BY <1>1, <1>2 DEF StatusInv

\* Nothing has been called, reported or added at first.
LEMMA ReportInitially == Init => NumbersInv /\ ParsesInv /\ ReportInv /\ StatusInv
BY DEF Init, NumbersInv, ParsesInv, ReportInv, StatusInv, Active, NoRequest, Targets

\* What holds of every report.
LEMMA Reports == Spec => [](Shape /\ NumbersInv /\ ParsesInv /\ ReportInv /\ StatusInv)
BY Initially, ReportInitially, ShapeStep, NumbersStep, ParsesStep, ReportStep, StatusStep, PTL DEF Spec

\* successful[] and failures[] of an injection tell what is in the AST: all that
\* is reported as injected, and besides it only entries that got no answer,
\* whatever other injections, resets and reloads came in between.
THEOREM AnswersTellWhatIsThere == Spec => [](\A a \in answers : TellsWhatIsThere(a))
<1>1. ReportInv => \A a \in answers : TellsWhatIsThere(a)
  BY DEF ReportInv, Truthful, TellsWhatIsThere, Current, InAst, AddedBy, AddedTo
<1> QED BY <1>1, Reports, PTL

\* If every clause is answered for, an answer is right as a whole: "success"
\* means that all of the submission is in the AST.
LEMMA CompleteAnswersAreRight ==
  Spec => []((\A a \in answers : AnsweredOnce(a)) => AnswerMatchesAst)
<1>1. (\A a \in answers : TellsWhatIsThere(a)) /\ StatusInv =>
        ((\A a \in answers : AnsweredOnce(a)) => AnswerMatchesAst)
  <2> SUFFICES ASSUME \A a \in answers : TellsWhatIsThere(a), StatusInv,
                      NEW a \in answers, AnsweredOnce(a)
               PROVE  StatusIsRight(a)
    BY DEF AnswerMatchesAst
  <2>1. a.status = "success" => a.bad = {}
    BY DEF StatusInv, Status
  <2>2. a.status = "partial" => \A f \in a.bad : f.type = "syntax_error"
    BY DEF StatusInv, Status
  <2>3. Current(a.request) /\ a.bad = {} => InAst(a.request) = a.good /\ a.good = Submitting(a)
    <3>1. Paths({}) = {} /\ Unsure({}) = {}
      BY DEF Paths, Unsure
    <3> QED BY <3>1 DEF TellsWhatIsThere, AnsweredOnce
  <2> QED BY <2>1, <2>2, <2>3 DEF StatusIsRight
<1> QED BY <1>1, Reports, AnswersTellWhatIsThere, PTL

-----------------------------------------------------------------------------
(* The list of clauses.                                                    *)

\* No two entries have the same path.
Own(t) == \A p, q \in DOMAIN t : p # q => t[p].path # t[q].path

PathsOf(t) == {t[p].path : p \in DOMAIN t}

Fields == {"requires", "ensures", "assigns", "invariants", "variant", "terminates"}

SidsOf(sids, loops) == {0} \cup {sids[i] : i \in DOMAIN loops}

EntrySet(sids, loops) ==
  [path : [field : Fields, loop : Nat, index : Nat], sid : SidsOf(sids, loops),
   clause : Clause]

\* An entry of the contract, or of a loop, with its statement id.
Placed(e, loops, sids) ==
  IF e.path.loop = 0 THEN e.sid = 0 ELSE e.path.loop \in DOMAIN loops /\ e.sid = sids[e.path.loop]

\* Joined lists of entries.
LEMMA JoinOwn ==
  ASSUME NEW E, NEW t \in Seq(E), NEW u \in Seq(E), Own(t), Own(u),
         \A p \in DOMAIN t, q \in DOMAIN u : t[p].path # u[q].path
  PROVE  /\ t \o u \in Seq(E) /\ Own(t \o u)
         /\ \A r \in DOMAIN (t \o u) : \/ \E p \in DOMAIN t : (t \o u)[r] = t[p]
                                       \/ \E q \in DOMAIN u : (t \o u)[r] = u[q]
<1> DEFINE v == t \o u
<1>1. /\ v \in Seq(E) /\ Len(t) \in Nat /\ Len(u) \in Nat /\ DOMAIN t = 1 .. Len(t) /\ DOMAIN u = 1 .. Len(u)
      /\ DOMAIN v = 1 .. Len(t) + Len(u)
      /\ \A r \in 1 .. Len(t) + Len(u) : v[r] = IF r <= Len(t) THEN t[r] ELSE u[r - Len(t)]
  BY ConcatProperties, LenProperties
<1> HIDE DEF v
<1>2. ASSUME NEW r \in DOMAIN v
      PROVE  \/ r \in Nat /\ r <= Len(t) /\ r \in DOMAIN t /\ v[r] = t[r]
             \/ r \in Nat /\ r > Len(t) /\ r - Len(t) \in DOMAIN u /\ v[r] = u[r - Len(t)]
  <2>1. r \in Nat /\ r \in 1 .. Len(t) + Len(u)
    BY <1>1
  <2>2. CASE r <= Len(t)
    BY <1>1, <2>1, <2>2
  <2>3. CASE ~(r <= Len(t))
    <3>1. r > Len(t) /\ r - Len(t) \in 1 .. Len(u)
      BY <1>1, <2>1, <2>3
    <3> QED BY <1>1, <2>1, <2>3, <3>1
  <2> QED BY <2>2, <2>3
<1>3. ASSUME NEW p \in DOMAIN v, NEW q \in DOMAIN v, p # q PROVE v[p].path # v[q].path
  <2>1. CASE p \in DOMAIN t /\ v[p] = t[p] /\ q \in DOMAIN t /\ v[q] = t[q]
    BY <1>3, <2>1 DEF Own
  <2>2. CASE /\ p \in Nat /\ p - Len(t) \in DOMAIN u /\ v[p] = u[p - Len(t)]
             /\ q \in Nat /\ q - Len(t) \in DOMAIN u /\ v[q] = u[q - Len(t)]
    <3>1. p - Len(t) # q - Len(t)
      BY <1>1, <1>3, <2>2
    <3> QED BY <2>2, <3>1 DEF Own
  <2>3. CASE p \in DOMAIN t /\ v[p] = t[p] /\ q - Len(t) \in DOMAIN u /\ v[q] = u[q - Len(t)]
    BY <2>3
  <2>4. CASE q \in DOMAIN t /\ v[q] = t[q] /\ p - Len(t) \in DOMAIN u /\ v[p] = u[p - Len(t)]
    BY <2>4
  <2> QED BY <1>2, <2>1, <2>2, <2>3, <2>4
<1>4. Own(v)
  BY <1>3 DEF Own
<1> QED BY <1>1, <1>2, <1>4 DEF v

\* A section has one entry for every clause, told apart by their indices.
LEMMA SectionFacts ==
  ASSUME NEW field \in Fields, NEW loop \in Nat, NEW sids, NEW loops, NEW sid \in SidsOf(sids, loops),
         NEW clauses \in Seq(Clause), NEW t, t = Section(field, loop, sid, clauses)
  PROVE  /\ t \in Seq(EntrySet(sids, loops)) /\ Own(t)
         /\ \A p \in DOMAIN t : t[p].path.field = field /\ t[p].path.loop = loop /\ t[p].sid = sid
<1>1. DOMAIN clauses = 1 .. Len(clauses) /\ Len(clauses) \in Nat /\ \A j \in DOMAIN clauses : clauses[j] \in Clause
  OBVIOUS
<1>2. t = [j \in 1 .. Len(clauses) |->
             [path |-> [field |-> field, loop |-> loop, index |-> j], sid |-> sid, clause |-> clauses[j]]]
  BY <1>1 DEF Section
<1>3. \A j \in 1 .. Len(clauses) : t[j] \in EntrySet(sids, loops)
  BY <1>1, <1>2 DEF EntrySet
<1>4. t \in Seq(EntrySet(sids, loops))
  <2>1. t \in [1 .. Len(clauses) -> EntrySet(sids, loops)]
    BY <1>2, <1>3
  <2> QED BY <1>1, <2>1, SeqDef
<1>5. Own(t)
  BY <1>2 DEF Own
<1> QED BY <1>2, <1>4, <1>5

\* What is known of a list of entries that can be joined with others.
Listed(t, sids, loops) ==
  t \in Seq(EntrySet(sids, loops)) /\ Own(t) /\ \A p \in DOMAIN t : Placed(t[p], loops, sids)

\* Two lists of entries that share no path, and what is in the list of both.
Foreign(t, u) == \A p \in DOMAIN t, q \in DOMAIN u : t[p].path # u[q].path

FromBoth(v, t, u) ==
  \A r \in DOMAIN v : (\E p \in DOMAIN t : v[r] = t[p]) \/ (\E q \in DOMAIN u : v[r] = u[q])

\* Joined lists of entries of different sections.
LEMMA JoinListed ==
  ASSUME NEW sids, NEW loops, NEW t, NEW u, Listed(t, sids, loops), Listed(u, sids, loops), Foreign(t, u)
  PROVE  Listed(t \o u, sids, loops) /\ FromBoth(t \o u, t, u)
<1>0. \A p \in DOMAIN t, q \in DOMAIN u : t[p].path # u[q].path
  BY DEF Foreign
<1> DEFINE v == t \o u
<1>1. /\ v \in Seq(EntrySet(sids, loops)) /\ Own(v)
      /\ \A r \in DOMAIN v : (\E p \in DOMAIN t : v[r] = t[p]) \/ (\E q \in DOMAIN u : v[r] = u[q])
  BY <1>0, JoinOwn DEF Listed
<1> HIDE DEF v
<1>2. \A r \in DOMAIN v : Placed(v[r], loops, sids)
  BY <1>1 DEF Listed
<1> QED BY <1>1, <1>2 DEF Listed, FromBoth, v

\* The entries of one loop.
LEMMA OfLoopFacts ==
  ASSUME NEW loops \in Seq(LoopAnnot), NEW sids, NEW i \in DOMAIN loops
  PROVE  /\ Listed(OfLoop(loops[i], i, sids[i]), sids, loops)
         /\ \A p \in DOMAIN OfLoop(loops[i], i, sids[i]) : OfLoop(loops[i], i, sids[i])[p].path.loop = i
<1> DEFINE a == Section("invariants", i, sids[i], loops[i].invariants)
           b == Section("assigns", i, sids[i], loops[i].assigns)
           c == Section("variant", i, sids[i], <<loops[i].variant>>)
<1>1. i \in Nat /\ i # 0 /\ loops[i] \in LoopAnnot /\ sids[i] \in SidsOf(sids, loops)
  BY DEF SidsOf
<1>2. /\ loops[i].invariants \in Seq(Clause) /\ loops[i].assigns \in Seq(Clause)
      /\ <<loops[i].variant>> \in Seq(Clause)
  BY <1>1 DEF LoopAnnot
<1>3. /\ Listed(a, sids, loops) /\ Listed(b, sids, loops) /\ Listed(c, sids, loops)
      /\ \A p \in DOMAIN a : a[p].path.loop = i /\ a[p].path.field = "invariants"
      /\ \A p \in DOMAIN b : b[p].path.loop = i /\ b[p].path.field = "assigns"
      /\ \A p \in DOMAIN c : c[p].path.loop = i /\ c[p].path.field = "variant"
  <2>1. "invariants" \in Fields /\ "assigns" \in Fields /\ "variant" \in Fields
    BY DEF Fields
  <2>2. ASSUME NEW field \in Fields, NEW clauses \in Seq(Clause)
        PROVE  /\ Listed(Section(field, i, sids[i], clauses), sids, loops)
               /\ \A p \in DOMAIN Section(field, i, sids[i], clauses) :
                    /\ Section(field, i, sids[i], clauses)[p].path.loop = i
                    /\ Section(field, i, sids[i], clauses)[p].path.field = field
    <3> DEFINE d == Section(field, i, sids[i], clauses)
    <3> HIDE DEF d
    <3>3. d = Section(field, i, sids[i], clauses)
      BY DEF d
    <3>1. /\ d \in Seq(EntrySet(sids, loops)) /\ Own(d)
          /\ \A p \in DOMAIN d : d[p].path.field = field /\ d[p].path.loop = i /\ d[p].sid = sids[i]
      BY <1>1, <3>3, SectionFacts
    <3>2. \A p \in DOMAIN d : Placed(d[p], loops, sids)
      BY <1>1, <3>1 DEF Placed
    <3> QED BY <3>1, <3>2 DEF Listed, d
  <2> QED BY <1>2, <2>1, <2>2
<1>4. OfLoop(loops[i], i, sids[i]) = (a \o b) \o c
  BY DEF OfLoop
<1> HIDE DEF a, b, c
<1>5. Listed(a \o b, sids, loops) /\ FromBoth(a \o b, a, b)
  <2>1. Foreign(a, b)
    BY <1>3 DEF Foreign
  <2> QED BY <1>3, <2>1, JoinListed
<1> DEFINE ab == a \o b
<1> HIDE DEF ab
<1>6. /\ Listed(ab, sids, loops)
      /\ \A r \in DOMAIN ab : ab[r].path.loop = i /\ ab[r].path.field \in {"invariants", "assigns"}
  BY <1>3, <1>5 DEF ab, FromBoth
<1>7. Listed(ab \o c, sids, loops) /\ FromBoth(ab \o c, ab, c)
  <2>1. Foreign(ab, c)
    BY <1>3, <1>6 DEF Foreign
  <2> QED BY <1>3, <1>6, <2>1, JoinListed
<1> DEFINE all == ab \o c
<1> HIDE DEF all
<1>8. \A r \in DOMAIN all : all[r].path.loop = i
  BY <1>3, <1>6, <1>7 DEF all, FromBoth
<1>9. OfLoop(loops[i], i, sids[i]) = all
  BY <1>4 DEF all, ab
<1> QED BY <1>7, <1>8, <1>9 DEF all

\* The entries of all loops.
LEMMA LoopsFacts ==
  ASSUME NEW loops \in Seq(LoopAnnot), NEW sids,
         NEW t, t = FlattenSeq([i \in DOMAIN loops |-> OfLoop(loops[i], i, sids[i])])
  PROVE  Listed(t, sids, loops) /\ \A p \in DOMAIN t : t[p].path.loop # 0
<1> DEFINE ss == [i \in DOMAIN loops |-> OfLoop(loops[i], i, sids[i])]
           E  == EntrySet(sids, loops)
           N  == Len(loops)
<1>1. DOMAIN loops = 1 .. N /\ N \in Nat
  OBVIOUS
<1>2. \A i \in 1 .. N : Listed(ss[i], sids, loops) /\ \A p \in DOMAIN ss[i] : ss[i][p].path.loop = i
  <2> SUFFICES ASSUME NEW i \in 1 .. N
               PROVE  Listed(ss[i], sids, loops) /\ \A p \in DOMAIN ss[i] : ss[i][p].path.loop = i
    OBVIOUS
  <2>1. i \in DOMAIN loops /\ ss[i] = OfLoop(loops[i], i, sids[i])
    BY <1>1
  <2>2. /\ Listed(OfLoop(loops[i], i, sids[i]), sids, loops)
        /\ \A p \in DOMAIN OfLoop(loops[i], i, sids[i]) : OfLoop(loops[i], i, sids[i])[p].path.loop = i
    BY <2>1, OfLoopFacts
  <2> HIDE DEF ss
  <2> QED BY <2>1, <2>2
<1>3. ss \in [1 .. N -> Seq(E)]
  BY <1>1, <1>2 DEF Listed
<1>4. t = FlattenSeq(ss)
  OBVIOUS
<1> HIDE DEF ss, N
<1>5. ss \in Seq(Seq(E)) /\ Len(ss) = N
  BY <1>1, <1>3, SeqDef, LenProperties
<1>6. Apart(ss)
  <2>1. ASSUME NEW i \in 1 .. N PROVE IsInjective(ss[i])
    BY <1>2 DEF Listed, Own, IsInjective
  <2>2. ASSUME NEW i \in 1 .. N, NEW j \in 1 .. N, i # j PROVE ToSet(ss[i]) \cap ToSet(ss[j]) = {}
    BY <1>2, <2>2 DEF ToSet
  <2> QED BY <1>5, <2>1, <2>2 DEF Apart
<1>7. t \in Seq(E) /\ Lists(t, ss, N)
  <2> HIDE DEF E
  <2> QED BY <1>4, <1>5, <1>6, FlattenLists
<1>8. DOMAIN t = 1 .. Len(t) /\ Len(t) \in Nat
  BY <1>7
<1>9. \A p \in DOMAIN t : \E i \in 1 .. N : \E k \in DOMAIN ss[i] : t[p] = ss[i][k]
  <2> SUFFICES ASSUME NEW p \in DOMAIN t PROVE \E i \in 1 .. N : \E k \in DOMAIN ss[i] : t[p] = ss[i][k]
    OBVIOUS
  <2>1. \E i \in 1 .. N : t[p] \in ToSet(ss[i])
    BY <1>7, <1>8 DEF Lists
  <2> QED BY <2>1 DEF ToSet
<1>10. ASSUME NEW p \in DOMAIN t PROVE Placed(t[p], loops, sids) /\ t[p].path.loop # 0
  <2>1. PICK i \in 1 .. N : \E k \in DOMAIN ss[i] : t[p] = ss[i][k]
    BY <1>9
  <2>2. PICK k \in DOMAIN ss[i] : t[p] = ss[i][k]
    BY <2>1
  <2> QED BY <1>1, <1>2, <2>1, <2>2 DEF Listed
<1>11. ASSUME NEW p \in DOMAIN t, NEW q \in DOMAIN t, p # q PROVE t[p].path # t[q].path
  <2>6. /\ \E i \in 1 .. N : \E k \in DOMAIN ss[i] : t[p] = ss[i][k]
        /\ \E j \in 1 .. N : \E l \in DOMAIN ss[j] : t[q] = ss[j][l]
    BY <1>9
  <2>7. PICK i \in 1 .. N : \E k \in DOMAIN ss[i] : t[p] = ss[i][k]
    BY <2>6
  <2>8. PICK j \in 1 .. N : \E l \in DOMAIN ss[j] : t[q] = ss[j][l]
    BY <2>6
  <2>1. PICK k \in DOMAIN ss[i] : t[p] = ss[i][k]
    BY <2>7
  <2>2. PICK l \in DOMAIN ss[j] : t[q] = ss[j][l]
    BY <2>8
  <2>3. t[p] # t[q]
    <3>1. p < q \/ q < p
      BY <1>8, <1>11
    <3> QED BY <1>7, <1>8, <3>1 DEF Lists
  <2>4. CASE i = j
    <3>1. k # l
      BY <2>1, <2>2, <2>3, <2>4
    <3> QED BY <1>2, <2>1, <2>2, <2>4, <3>1 DEF Listed, Own
  <2>5. CASE i # j
    BY <1>2, <2>1, <2>2, <2>5
  <2> QED BY <2>4, <2>5
<1> QED BY <1>7, <1>10, <1>11 DEF Listed, Own

\* All the clauses that were submitted.
LEMMA SectionsFacts ==
  ASSUME NEW s \in Submission, NEW sids
  PROVE  Listed(Sections(s, sids), sids, s.loops)
<1> DEFINE a == Section("requires", 0, 0, s.requires)
           b == Section("ensures", 0, 0, s.ensures)
           c == Section("assigns", 0, 0, s.assigns)
           l == FlattenSeq([i \in DOMAIN s.loops |-> OfLoop(s.loops[i], i, sids[i])])
           d == Section("terminates", 0, 0, <<s.terminates>>)
<1>1. /\ s.requires \in Seq(Clause) /\ s.ensures \in Seq(Clause) /\ s.assigns \in Seq(Clause)
      /\ s.loops \in Seq(LoopAnnot) /\ <<s.terminates>> \in Seq(Clause)
  BY DEF Submission
<1>2. ASSUME NEW field \in Fields, NEW clauses \in Seq(Clause), NEW t, t = Section(field, 0, 0, clauses)
      PROVE  Listed(t, sids, s.loops) /\ \A p \in DOMAIN t : t[p].path.loop = 0 /\ t[p].path.field = field
  <2>1. 0 \in Nat /\ 0 \in SidsOf(sids, s.loops)
    BY DEF SidsOf
  <2>2. /\ t \in Seq(EntrySet(sids, s.loops)) /\ Own(t)
        /\ \A p \in DOMAIN t : t[p].path.field = field /\ t[p].path.loop = 0 /\ t[p].sid = 0
    BY <1>2, <2>1, SectionFacts
  <2> QED BY <2>2 DEF Listed, Placed
<1>3. /\ "requires" \in Fields /\ "ensures" \in Fields /\ "assigns" \in Fields /\ "terminates" \in Fields
  BY DEF Fields
<1>4. Listed(a, sids, s.loops) /\ \A p \in DOMAIN a : a[p].path.loop = 0 /\ a[p].path.field = "requires"
  BY <1>1, <1>2, <1>3
<1>5. Listed(b, sids, s.loops) /\ \A p \in DOMAIN b : b[p].path.loop = 0 /\ b[p].path.field = "ensures"
  BY <1>1, <1>2, <1>3
<1>6. Listed(c, sids, s.loops) /\ \A p \in DOMAIN c : c[p].path.loop = 0 /\ c[p].path.field = "assigns"
  BY <1>1, <1>2, <1>3
<1>7. Listed(d, sids, s.loops) /\ \A p \in DOMAIN d : d[p].path.loop = 0 /\ d[p].path.field = "terminates"
  <2>1. PICK clauses : clauses = <<s.terminates>>
    OBVIOUS
  <2>2. clauses \in Seq(Clause) /\ "terminates" \in Fields /\ d = Section("terminates", 0, 0, clauses)
    BY <1>1, <1>3, <2>1
  <2> HIDE DEF d
  <2> QED BY <1>2, <2>2
<1>8. Listed(l, sids, s.loops) /\ \A p \in DOMAIN l : l[p].path.loop # 0
  BY <1>1, LoopsFacts
<1>9. Sections(s, sids) = (((a \o b) \o c) \o l) \o d
  BY DEF Sections
<1> HIDE DEF a, b, c, l, d
<1> DEFINE ab == a \o b
           abc == ab \o c
           abcl == abc \o l
<1>10. Listed(ab, sids, s.loops) /\ FromBoth(ab, a, b)
  <2>1. Foreign(a, b)
    BY <1>4, <1>5 DEF Foreign
  <2> QED BY <1>4, <1>5, <2>1, JoinListed
<1> HIDE DEF ab
<1>11. \A p \in DOMAIN ab : ab[p].path.loop = 0 /\ ab[p].path.field \in {"requires", "ensures"}
  BY <1>4, <1>5, <1>10 DEF FromBoth
<1>12. Listed(abc, sids, s.loops) /\ FromBoth(abc, ab, c)
  <2>1. Foreign(ab, c)
    BY <1>6, <1>11 DEF Foreign
  <2> QED BY <1>6, <1>10, <2>1, JoinListed
<1> HIDE DEF abc
<1>13. \A p \in DOMAIN abc : abc[p].path.loop = 0 /\ abc[p].path.field \in {"requires", "ensures", "assigns"}
  BY <1>6, <1>11, <1>12 DEF FromBoth
<1>14. Listed(abcl, sids, s.loops) /\ FromBoth(abcl, abc, l)
  <2>1. Foreign(abc, l)
    BY <1>8, <1>13 DEF Foreign
  <2> QED BY <1>8, <1>12, <2>1, JoinListed
<1> HIDE DEF abcl
<1>15. \A p \in DOMAIN abcl : abcl[p].path.loop # 0 \/ abcl[p].path.field # "terminates"
  BY <1>8, <1>13, <1>14 DEF FromBoth
<1>16. Listed(abcl \o d, sids, s.loops)
  <2>1. Foreign(abcl, d)
    BY <1>7, <1>15 DEF Foreign
  <2> QED BY <1>7, <1>14, <2>1, JoinListed
<1> QED BY <1>9, <1>16 DEF abcl, abc, ab

\* A list of some of the entries, in their order.
LEMMA KeptListed ==
  ASSUME NEW sids, NEW loops, NEW all, Listed(all, sids, loops), NEW P \in SUBSET DOMAIN all,
         NEW t, t = EntriesAt(all, P)
  PROVE  /\ Listed(t, sids, loops)
         /\ \A k \in DOMAIN t : \E i \in P : t[k] = all[i]
         /\ \A i \in P : \E k \in DOMAIN t : t[k] = all[i]
<1> DEFINE E == EntrySet(sids, loops)
<1>1. all \in Seq(E) /\ Own(all) /\ \A i \in DOMAIN all : Placed(all[i], loops, sids)
  BY DEF Listed
<1> HIDE DEF E
<1>2. /\ t \in Seq(E)
      /\ \A k \in DOMAIN t : \E i \in P : t[k] = all[i]
      /\ \A i \in P : \E k \in DOMAIN t : t[k] = all[i]
      /\ \A k, l \in DOMAIN t : k # l => \E i, j \in P : i # j /\ t[k] = all[i] /\ t[l] = all[j]
  BY <1>1, EntriesAtFacts
<1>3. Own(t)
  <2> SUFFICES ASSUME NEW k \in DOMAIN t, NEW l \in DOMAIN t, k # l PROVE t[k].path # t[l].path
    BY DEF Own
  <2>1. PICK i \in P, j \in P : i # j /\ t[k] = all[i] /\ t[l] = all[j]
    BY <1>2
  <2> QED BY <1>1, <2>1 DEF Own
<1>4. \A k \in DOMAIN t : Placed(t[k], loops, sids)
  BY <1>1, <1>2
<1> QED BY <1>2, <1>3, <1>4 DEF Listed, E

\* The plan and the early failures share the clauses out between them.
LEMMA PlannedFacts ==
  ASSUME NEW s \in Submission, NEW sids, NEW p, p = Planned(s, sids)
  PROVE  /\ Listed(p, sids, s.loops)
         /\ PathsOf(p) \cup Paths(EarlyFailures(s, sids)) = Paths(ToSet(Entries(s, sids)))
         /\ PathsOf(p) \cap Paths(EarlyFailures(s, sids)) = {}
<1> DEFINE all == Sections(s, sids)
           e == Entries(s, sids)
           S == {i \in DOMAIN all : Submitted(all[i])}
           D == {i \in DOMAIN e : Declared(e[i], s)}
<1>1. Listed(all, sids, s.loops)
  BY SectionsFacts
<1>2. e = EntriesAt(all, S) /\ S \in SUBSET DOMAIN all
  BY DEF Entries
<1>3. p = EntriesAt(e, D) /\ D \in SUBSET DOMAIN e
  BY DEF Planned
<1>4. EarlyFailures(s, sids) = {[path |-> x.path, type |-> "proposed_error"] : x \in {y \in ToSet(e) : ~Declared(y, s)}}
  BY DEF EarlyFailures
<1>7. \A i \in DOMAIN e : i \in D <=> Declared(e[i], s)
  OBVIOUS
<1> HIDE DEF all, e, S, D
<1>5. Listed(e, sids, s.loops)
  BY <1>1, <1>2, KeptListed
<1>6. /\ Listed(p, sids, s.loops)
      /\ \A k \in DOMAIN p : \E i \in D : p[k] = e[i]
      /\ \A i \in D : \E k \in DOMAIN p : p[k] = e[i]
  BY <1>3, <1>5, KeptListed
<1>8. Paths(EarlyFailures(s, sids)) = {e[i].path : i \in DOMAIN e \ D}
  <2>1. ASSUME NEW i \in DOMAIN e \ D PROVE e[i].path \in Paths(EarlyFailures(s, sids))
    <3>1. e[i] \in {y \in ToSet(e) : ~Declared(y, s)}
      BY <1>7 DEF ToSet
    <3>2. [path |-> e[i].path, type |-> "proposed_error"] \in EarlyFailures(s, sids)
      BY <1>4, <3>1
    <3> QED BY <3>2 DEF Paths
  <2>2. ASSUME NEW f \in EarlyFailures(s, sids) PROVE \E i \in DOMAIN e \ D : f.path = e[i].path
    <3>1. PICK x \in {y \in ToSet(e) : ~Declared(y, s)} : f = [path |-> x.path, type |-> "proposed_error"]
      BY <1>4
    <3>2. PICK i \in DOMAIN e : x = e[i]
      BY <3>1 DEF ToSet
    <3> QED BY <1>7, <3>1, <3>2
  <2> QED BY <2>1, <2>2 DEF Paths
<1>9. PathsOf(p) = {e[i].path : i \in D}
  BY <1>6 DEF PathsOf
<1>10. Paths(ToSet(e)) = {e[i].path : i \in DOMAIN e}
  BY DEF Paths, ToSet
<1>11. \A i \in D, j \in DOMAIN e \ D : e[i].path # e[j].path
  BY <1>3, <1>5 DEF Listed, Own
<1>12. PathsOf(p) \cup Paths(EarlyFailures(s, sids)) = Paths(ToSet(e))
  BY <1>3, <1>8, <1>9, <1>10
<1>13. PathsOf(p) \cap Paths(EarlyFailures(s, sids)) = {}
  BY <1>8, <1>9, <1>11
<1> QED BY <1>6, <1>12, <1>13 DEF e

-----------------------------------------------------------------------------
(* Every clause is answered for.                                           *)

\* Of the plan p of request r the first entries, up to k, are in the report, and
\* so are those that were never sent.
Accounted(r, p, k, g, b) ==
  /\ p = Planned(r.fields, r.sids) /\ k \in 1 .. Len(p) + 1
  /\ g \cup Paths(b) = {p[i].path : i \in 1 .. k - 1} \cup Paths(EarlyFailures(r.fields, r.sids))
  /\ g \cap Paths(b) = {}

AccountsInv ==
  /\ \A h \in Handlers : Active(h) => request[h].fields \in Submission
  /\ \A h \in Handlers :
       pc[h] \in {"inject", "note"} => Accounted(request[h], plan[h], at[h], good[h], bad[h])
  /\ \A h \in Handlers : pc[h] = "note" => at[h] > Len(plan[h])
  /\ \A a \in answers : AnsweredOnce(a)

-----------------------------------------------------------------------------
(* Every clause is where it belongs.                                       *)

\* The statement ids of a request are those submitted, or of the loops of main.
Traced(r) ==
  /\ r.target = "sandbox" => \A i \in DOMAIN r.fields.loops : r.sids[i] = r.fields.loops[i].sid
  /\ r.target = "main" => r.fields.loops = <<>> \/ r.sids = CollectLoopSids(MainBodies[r.parse])

\* What a request has added to x is in the contract, or at the loop it is of.
InPlace(x, r) ==
  \A n \in AddedTo(x, r) :
    IF n.path.loop = 0 THEN n.place = 0
    ELSE n.path.loop \in DOMAIN r.fields.loops /\ n.place = r.sids[n.path.loop]

PlacesInv ==
  /\ \A t \in Targets : ast[t].parse >= 1
  /\ ast["main"].parse + ast["sandbox"].parse <= MaxChanges + 2
  /\ \A h \in Handlers : pc[h] \in {"idle", "loops", "plan", "inject", "note"}
  /\ \A h \in Handlers : pc[h] = "idle" => request[h] = NoRequest
  /\ \A h \in Handlers : pc[h] \in {"plan", "inject", "note"} => Traced(request[h])
  /\ \A h \in Handlers : pc[h] \in {"inject", "note"} => InPlace(ast, request[h])
  /\ \A a \in answers : Traced(a.request) /\ InPlace(ast, a.request)

\* Of a list of entries with the current one, nothing earlier has its path.
LEMMA EntryAccounted ==
  ASSUME NEW r, r.fields \in Submission, NEW p, NEW k, NEW g, NEW b, Accounted(r, p, k, g, b), k <= Len(p),
         NEW g2, NEW b2, NEW type,
         \/ g2 = g \cup {p[k].path} /\ b2 = b
         \/ g2 = g /\ b2 = b \cup {[path |-> p[k].path, type |-> type]}
  PROVE  Accounted(r, p, k + 1, g2, b2)
<1> DEFINE unsent == Paths(EarlyFailures(r.fields, r.sids))
<1>1. /\ p = Planned(r.fields, r.sids) /\ k \in 1 .. Len(p) + 1
      /\ g \cup Paths(b) = {p[i].path : i \in 1 .. k - 1} \cup unsent /\ g \cap Paths(b) = {}
  BY DEF Accounted
<1>2. Listed(p, r.sids, r.fields.loops) /\ PathsOf(p) \cap unsent = {}
  BY <1>1, PlannedFacts
<1> HIDE DEF unsent
<1>3. Len(p) \in Nat /\ DOMAIN p = 1 .. Len(p) /\ Own(p)
  BY <1>2 DEF Listed
<1>4. k \in 1 .. Len(p) /\ k + 1 \in 1 .. Len(p) + 1 /\ (k + 1) - 1 = k
  BY <1>1, <1>3
<1>5. \A i \in 1 .. k - 1 : i \in DOMAIN p /\ i # k
  BY <1>3, <1>4
<1>6. p[k].path \notin g \cup Paths(b)
  <2>1. p[k].path \notin unsent
    BY <1>2, <1>3, <1>4 DEF PathsOf
  <2>2. \A i \in 1 .. k - 1 : p[i].path # p[k].path
    BY <1>3, <1>4, <1>5 DEF Own
  <2> QED BY <1>1, <2>1, <2>2
<1>7. {p[i].path : i \in 1 .. k} = {p[i].path : i \in 1 .. k - 1} \cup {p[k].path}
  <2>1. \A i : i \in 1 .. k <=> i \in 1 .. k - 1 \/ i = k
    BY <1>3, <1>4
  <2> QED BY <2>1
<1>8. g2 \cup Paths(b2) = (g \cup Paths(b)) \cup {p[k].path} /\ g2 \cap Paths(b2) = {}
  <2>1. CASE g2 = g \cup {p[k].path} /\ b2 = b
    BY <1>1, <1>6, <2>1
  <2>2. CASE g2 = g /\ b2 = b \cup {[path |-> p[k].path, type |-> type]}
    <3>1. Paths(b2) = Paths(b) \cup {p[k].path}
      <4>1. PICK f : f = [path |-> p[k].path, type |-> type]
        OBVIOUS
      <4>2. f.path = p[k].path /\ b2 = b \cup {f}
        BY <2>2, <4>1
      <4> QED BY <4>2 DEF Paths
    <3> QED BY <1>1, <1>6, <2>2, <3>1
  <2> QED BY <2>1, <2>2
<1>9. g2 \cup Paths(b2) = {p[i].path : i \in 1 .. k} \cup unsent
  BY <1>1, <1>7, <1>8
<1> QED BY <1>1, <1>4, <1>8, <1>9 DEF Accounted, unsent

\* At the end of the plan every clause is accounted for.
LEMMA AllAccounted ==
  ASSUME NEW r, r.fields \in Submission, NEW p, NEW k, NEW g, NEW b, Accounted(r, p, k, g, b), ~(k <= Len(p))
  PROVE  g \cup Paths(b) = Paths(ToSet(Entries(r.fields, r.sids))) /\ g \cap Paths(b) = {}
<1> DEFINE unsent == Paths(EarlyFailures(r.fields, r.sids))
<1>1. /\ p = Planned(r.fields, r.sids) /\ k \in 1 .. Len(p) + 1
      /\ g \cup Paths(b) = {p[i].path : i \in 1 .. k - 1} \cup unsent /\ g \cap Paths(b) = {}
  BY DEF Accounted
<1>2. /\ Listed(p, r.sids, r.fields.loops)
      /\ PathsOf(p) \cup unsent = Paths(ToSet(Entries(r.fields, r.sids)))
  BY <1>1, PlannedFacts
<1> HIDE DEF unsent
<1>3. Len(p) \in Nat /\ DOMAIN p = 1 .. Len(p)
  BY <1>2 DEF Listed
<1>4. k - 1 = Len(p)
  BY <1>1, <1>3
<1>5. PathsOf(p) = {p[i].path : i \in 1 .. k - 1}
  BY <1>3, <1>4 DEF PathsOf
<1> QED BY <1>1, <1>2, <1>5

\* A plan that has just been made is accounted for.
LEMMA PlanAccounted ==
  ASSUME NEW r, r.fields \in Submission, NEW p, p = Planned(r.fields, r.sids),
         NEW b, b = EarlyFailures(r.fields, r.sids)
  PROVE  Accounted(r, p, 1, {}, b)
<1>1. Len(p) \in Nat
  <2>1. Listed(p, r.sids, r.fields.loops)
    BY PlannedFacts
  <2> QED BY <2>1 DEF Listed
<1>2. 1 \in 1 .. Len(p) + 1 /\ 1 .. 1 - 1 = {}
  BY <1>1
<1>3. {p[i].path : i \in 1 .. 1 - 1} = {}
  BY <1>2
<1> QED BY <1>2, <1>3 DEF Accounted

\* What InjectEntry and InjectEntryFails have in common.
Outcome(h, n, type) ==
  /\ pc[h] = "inject" /\ pc' = pc /\ request' = request /\ answers' = answers /\ plan' = plan
  /\ at[h] <= Len(plan[h]) /\ at' = [at EXCEPT ![h] = @ + 1] /\ n.path = Entry(h).path
  /\ \/ good' = [good EXCEPT ![h] = @ \cup {n.path}] /\ bad' = bad
     \/ good' = good /\ bad' = [bad EXCEPT ![h] = @ \cup {[path |-> n.path, type |-> type]}]
  /\ \/ ast' = ast
     \/ /\ ast' = [ast EXCEPT ![request[h].target].annotations = @ \cup {n}]
        /\ n.call = request[h].call
        /\ n.place = IF AstKind(Entry(h)) = "spec" THEN 0 ELSE Entry(h).sid
        /\ ErrorOf(Entry(h), Body(request[h].target)) = "none"

\* An entry has one outcome.
LEMMA OutcomeOf ==
  ASSUME Shape, NEW h \in Handlers, InjectEntry(h) \/ InjectEntryFails(h)
  PROVE  \E n, type : Outcome(h, n, type)
<1>1. PICK n : n = [call |-> request[h].call, path |-> Entry(h).path,
                    place |-> IF AstKind(Entry(h)) = "spec" THEN 0 ELSE Entry(h).sid]
  OBVIOUS
<1>2. PICK error : error = ErrorOf(Entry(h), Body(request[h].target))
  OBVIOUS
<1>3. CASE InjectEntry(h)
  <2>1. PICK type : type = Classify(error)
    OBVIOUS
  <2>2. /\ pc[h] = "inject" /\ pc' = pc /\ request' = request /\ answers' = answers /\ plan' = plan
        /\ at[h] <= Len(plan[h]) /\ at' = [at EXCEPT ![h] = @ + 1]
        /\ ast' = IF error = "none" THEN [ast EXCEPT ![request[h].target].annotations = @ \cup {n}] ELSE ast
        /\ IF error = "none"
             THEN good' = [good EXCEPT ![h] = @ \cup {n.path}] /\ bad' = bad
             ELSE good' = good /\ bad' = [bad EXCEPT ![h] = @ \cup {[path |-> n.path, type |-> type]}]
    BY <1>1, <1>2, <1>3, <2>1 DEF InjectEntry, Added, Refused, PluginSuccess
  <2>3. Outcome(h, n, type)
    <3>1. /\ n.call = request[h].call /\ n.path = Entry(h).path
          /\ n.place = IF AstKind(Entry(h)) = "spec" THEN 0 ELSE Entry(h).sid
      BY <1>1
    <3> QED BY <1>2, <2>2, <3>1 DEF Outcome
  <2> QED BY <2>3
<1>4. CASE InjectEntryFails(h)
  <2>1. /\ pc[h] = "inject" /\ pc' = pc /\ request' = request /\ answers' = answers /\ plan' = plan
        /\ good' = good /\ at[h] <= Len(plan[h]) /\ at' = [at EXCEPT ![h] = @ + 1]
        /\ bad' = [bad EXCEPT ![h] = @ \cup {[path |-> n.path, type |-> "lost"]}]
        /\ \/ ast' = ast
           \/ error = "none" /\ ast' = [ast EXCEPT ![request[h].target].annotations = @ \cup {n}]
    BY <1>1, <1>2, <1>4 DEF InjectEntryFails, Added, Refused
  <2>2. Outcome(h, n, "lost")
    <3>1. /\ n.call = request[h].call /\ n.path = Entry(h).path
          /\ n.place = IF AstKind(Entry(h)) = "spec" THEN 0 ELSE Entry(h).sid
      BY <1>1
    <3> QED BY <1>2, <2>1, <3>1 DEF Outcome
  <2> QED BY <2>2
<1> QED BY <1>3, <1>4

\* Looking the loops up leaves what was submitted alone.
LEMMA FetchLoopsKeeps ==
  ASSUME Shape, NEW h \in Handlers, FetchLoops(h)
  PROVE  /\ pc'[h] = "plan" =>
              /\ request'[h].fields = request[h].fields
              /\ request'[h].sids = CollectLoopSids(Body("main"))
         /\ \A k \in Handlers \ {h} : plan'[k] = plan[k] /\ at'[k] = at[k]
<1>1. PICK sids : sids = CollectLoopSids(Body("main"))
  OBVIOUS
<1>2. \/ Clear(h)
      \/ /\ request' = [request EXCEPT ![h].sids = sids, ![h].parse = ast["main"].parse]
         /\ pc' = [pc EXCEPT ![h] = "plan"]
         /\ UNCHANGED <<plan, at, good, bad>>
  BY <1>1 DEF FetchLoops
<1>3. CASE Clear(h)
  BY <1>3 DEF Clear, Shape
<1>4. CASE request' = [request EXCEPT ![h].sids = sids, ![h].parse = ast["main"].parse] /\ UNCHANGED <<plan, at>>
  BY <1>1, <1>4 DEF Shape
<1> QED BY <1>2, <1>3, <1>4

\* A step keeps the account.
LEMMA AccountsStep == Shape /\ ReportInv /\ AccountsInv /\ [Next]_vars => AccountsInv'
<1> SUFFICES ASSUME Shape, ReportInv, AccountsInv, [Next]_vars PROVE AccountsInv'
  OBVIOUS
<1> USE DEF AccountsInv, Active
<1>1. ASSUME NEW h \in Handlers, NEW t \in Targets, NEW s \in Submissions, Call(h, t, s)
      PROVE  AccountsInv'
  <2>1. /\ answers' = answers /\ good' = good /\ bad' = bad /\ plan' = plan /\ at' = at
        /\ pc'[h] \notin {"inject", "note"} /\ request'[h].fields = s
        /\ \A k \in Handlers \ {h} : pc'[k] = pc[k] /\ request'[k] = request[k]
    BY <1>1 DEF Call, Shape
  <2>2. s \in Submission
    BY InjectAssumption
  <2> QED BY <2>1, <2>2
<1>2. ASSUME NEW h \in Handlers, FetchLoops(h) PROVE AccountsInv'
  BY <1>2, FetchLoopsFacts, FetchLoopsKeeps
<1>3. ASSUME NEW h \in Handlers, FetchLoopsFails(h) PROVE AccountsInv'
  BY <1>3 DEF FetchLoopsFails, Clear, Shape
<1>4. ASSUME NEW h \in Handlers, Plan(h) PROVE AccountsInv'
  <2>1. /\ answers' = answers /\ good' = good /\ request' = request
        /\ pc[h] = "plan" /\ pc'[h] = "inject"
        /\ plan'[h] = Planned(request[h].fields, request[h].sids)
        /\ bad'[h] = EarlyFailures(request[h].fields, request[h].sids) /\ at'[h] = 1
        /\ \A k \in Handlers \ {h} : pc'[k] = pc[k] /\ plan'[k] = plan[k] /\ at'[k] = at[k] /\ bad'[k] = bad[k]
    BY <1>4 DEF Plan, Shape
  <2>2. good[h] = {} /\ request[h].fields \in Submission
    BY <2>1 DEF ReportInv
  <2>3. Accounted(request[h], plan'[h], 1, {}, bad'[h])
    BY <2>1, <2>2, PlanAccounted
  <2>4. \A k \in Handlers : pc'[k] # "idle" => pc[k] # "idle"
    BY <2>1
  <2> QED BY <2>1, <2>2, <2>3, <2>4
<1>5. ASSUME NEW h \in Handlers, InjectEntry(h) \/ InjectEntryFails(h) PROVE AccountsInv'
  <2>1. PICK n, type : Outcome(h, n, type)
    BY <1>5, OutcomeOf
  <2>2. /\ pc[h] = "inject" /\ pc' = pc /\ request' = request /\ answers' = answers /\ plan' = plan
        /\ at[h] <= Len(plan[h]) /\ at'[h] = at[h] + 1
        /\ \A k \in Handlers \ {h} : at'[k] = at[k] /\ good'[k] = good[k] /\ bad'[k] = bad[k]
    BY <2>1 DEF Outcome, Shape
  <2>3. \/ good'[h] = good[h] \cup {plan[h][at[h]].path} /\ bad'[h] = bad[h]
        \/ good'[h] = good[h] /\ bad'[h] = bad[h] \cup {[path |-> plan[h][at[h]].path, type |-> type]}
    BY <2>1 DEF Outcome, Entry, Shape
  <2>4. request[h].fields \in Submission /\ Accounted(request[h], plan[h], at[h], good[h], bad[h])
    BY <2>2
  <2>5. Accounted(request[h], plan[h], at[h] + 1, good'[h], bad'[h])
    BY <2>2, <2>3, <2>4, EntryAccounted
  <2> QED BY <2>2, <2>5
<1>6. ASSUME NEW h \in Handlers, Answer(h) PROVE AccountsInv'
  <2>1. PICK status : status = Status(bad[h])
    OBVIOUS
  <2>2. /\ pc[h] \in {"inject", "note"} /\ pc'[h] = "idle" /\ ~(at[h] <= Len(plan[h]))
        /\ answers' = answers \cup
             {[request |-> request[h], good |-> good[h], bad |-> bad[h], status |-> status]}
        /\ \A k \in Handlers \ {h} :
             /\ pc'[k] = pc[k] /\ request'[k] = request[k] /\ good'[k] = good[k] /\ bad'[k] = bad[k]
             /\ plan'[k] = plan[k] /\ at'[k] = at[k]
    <3>1. at[h] > Len(plan[h]) /\ at[h] \in Nat /\ Len(plan[h]) \in Nat
      <4>1. pc[h] \in {"inject", "note"} /\ at[h] > Len(plan[h])
        BY <1>6 DEF Answer, Done
      <4>2. Accounted(request[h], plan[h], at[h], good[h], bad[h]) /\ request[h].fields \in Submission
        BY <4>1
      <4>3. Listed(plan[h], request[h].sids, request[h].fields.loops)
        BY <4>2, PlannedFacts DEF Accounted
      <4>4. Len(plan[h]) \in Nat
        BY <4>3 DEF Listed
      <4> QED BY <4>1, <4>2, <4>4 DEF Accounted
    <3>2. ~(at[h] <= Len(plan[h]))
      BY <3>1
    <3> QED BY <1>6, <2>1, <3>2 DEF Answer, Done, Clear, Shape
  <2>3. request[h].fields \in Submission /\ Accounted(request[h], plan[h], at[h], good[h], bad[h])
    BY <2>2
  <2>4. /\ good[h] \cup Paths(bad[h]) = Paths(ToSet(Entries(request[h].fields, request[h].sids)))
        /\ good[h] \cap Paths(bad[h]) = {}
    BY <2>2, <2>3, AllAccounted
  <2>5. \A a \in answers' : AnsweredOnce(a)
    BY <2>2, <2>4 DEF AnsweredOnce, Submitting
  <2> QED BY <2>2, <2>5
<1>7. ASSUME NEW h \in Handlers, FindSandbox(h) PROVE AccountsInv'
  BY <1>7 DEF FindSandbox, Done
<1>8. ASSUME NEW t \in Targets, Replaced(t) PROVE AccountsInv'
  BY <1>8 DEF Replaced, task
<1>9. CASE UNCHANGED <<ast, task, calls, answers>>
  BY <1>9 DEF task
<1> QED BY <1>1, <1>2, <1>3, <1>4, <1>5, <1>6, <1>7, <1>8, <1>9, OtherTools DEF Next

\* An entry that goes to the contract, or to the loop that it is of.
Belongs(e, r) ==
  IF e.path.loop = 0 THEN AstKind(e) = "spec"
  ELSE e.path.loop \in DOMAIN r.fields.loops /\ AstKind(e) # "spec" /\ e.sid = r.sids[e.path.loop]

\* An entry of the plan that is added is put where it belongs.
LEMMA EntryInPlace ==
  ASSUME NEW r, r.fields \in Submission, NEW p, NEW k, NEW g, NEW b, Accounted(r, p, k, g, b), k <= Len(p),
         NEW e, e = p[k], NEW body, ErrorOf(e, body) = "none"
  PROVE  Belongs(e, r)
<1>1. p = Planned(r.fields, r.sids) /\ k \in 1 .. Len(p) + 1
  BY DEF Accounted
<1>2. Listed(p, r.sids, r.fields.loops)
  BY <1>1, PlannedFacts
<1>3. k \in DOMAIN p
  <2>1. Len(p) \in Nat /\ DOMAIN p = 1 .. Len(p)
    BY <1>2 DEF Listed
  <2> QED BY <1>1, <2>1
<1>4. Placed(e, r.fields.loops, r.sids)
  BY <1>2, <1>3 DEF Listed
<1>5. e.path.loop # 0 => AstKind(e) # "spec"
  BY DEF ErrorOf, ContractError
<1>6. e.path.loop = 0 => AstKind(e) = "spec"
  BY DEF AstKind
<1> QED BY <1>4, <1>5, <1>6 DEF Placed, Belongs

\* A request keeps in place what it has added while the annotations of others come.
LEMMA OthersInPlace ==
  ASSUME NEW x, NEW y, NEW r, AddedTo(y, r) = AddedTo(x, r), InPlace(x, r)
  PROVE  InPlace(y, r)
BY DEF InPlace

\* A step keeps everything in place.
LEMMA PlacesStep ==
  Shape /\ NumbersInv /\ ParsesInv /\ ReportInv /\ AccountsInv /\ PlacesInv /\ [Next]_vars => PlacesInv'
<1> SUFFICES ASSUME Shape, NumbersInv, ParsesInv, ReportInv, AccountsInv, PlacesInv, [Next]_vars
             PROVE  PlacesInv'
  OBVIOUS
<1> USE DEF PlacesInv
<1>1. ASSUME NEW h \in Handlers, NEW t \in Targets, NEW s \in Submissions, Call(h, t, s)
      PROVE  PlacesInv'
  <2>1. /\ ast' = ast /\ answers' = answers
        /\ pc'[h] = IF t = "main" /\ s.loops # <<>> THEN "loops" ELSE "plan"
        /\ \A k \in Handlers \ {h} : pc'[k] = pc[k] /\ request'[k] = request[k]
    BY <1>1 DEF Call, Shape
  <2>2. PICK sids : sids = [i \in DOMAIN s.loops |-> s.loops[i].sid]
    OBVIOUS
  <2>3. /\ request'[h].target = t /\ request'[h].fields = s /\ request'[h].sids = sids
    BY <1>1, <2>2 DEF Call, Shape
  <2>4. pc'[h] = "plan" => Traced(request'[h])
    BY <2>1, <2>2, <2>3 DEF Traced
  <2>5. pc'[h] \in {"loops", "plan"}
    BY <2>1
  <2> QED BY <2>1, <2>4, <2>5
<1>2. ASSUME NEW h \in Handlers, FetchLoops(h) PROVE PlacesInv'
  <2>1. /\ ast' = ast /\ answers' = answers /\ pc'[h] \in {"idle", "plan"}
        /\ pc'[h] = "idle" => request'[h] = NoRequest
        /\ \A k \in Handlers \ {h} : pc'[k] = pc[k] /\ request'[k] = request[k]
    BY <1>2, FetchLoopsFacts
  <2>2. pc'[h] = "plan" =>
          /\ request'[h].target = "main" /\ request'[h].parse = ast["main"].parse
          /\ request'[h].sids = CollectLoopSids(Body("main"))
    BY <1>2, FetchLoopsFacts, FetchLoopsKeeps
  <2>3. Body("main") = MainBodies[ast["main"].parse]
    BY DEF Body
  <2>4. pc'[h] = "plan" => Traced(request'[h])
    BY <2>2, <2>3 DEF Traced
  <2> QED BY <2>1, <2>4
<1>3. ASSUME NEW h \in Handlers, FetchLoopsFails(h) PROVE PlacesInv'
  BY <1>3 DEF FetchLoopsFails, Clear, Shape
<1>4. ASSUME NEW h \in Handlers, Plan(h) PROVE PlacesInv'
  <2>1. /\ ast' = ast /\ answers' = answers /\ request' = request /\ pc[h] = "plan" /\ pc'[h] = "inject"
        /\ \A k \in Handlers \ {h} : pc'[k] = pc[k]
    BY <1>4 DEF Plan, Shape
  <2>2. InPlace(ast, request[h])
    BY <2>1 DEF ReportInv, InPlace
  <2> QED BY <2>1, <2>2
<1>5. ASSUME NEW h \in Handlers, InjectEntry(h) \/ InjectEntryFails(h) PROVE PlacesInv'
  <2>1. PICK n, type : Outcome(h, n, type)
    BY <1>5, OutcomeOf
  <2>2. /\ pc[h] = "inject" /\ pc' = pc /\ request' = request /\ answers' = answers
        /\ at[h] <= Len(plan[h]) /\ n.path = Entry(h).path
        /\ \/ ast' = ast
           \/ /\ ast' = [ast EXCEPT ![request[h].target].annotations = @ \cup {n}]
              /\ n.call = request[h].call
              /\ n.place = IF AstKind(Entry(h)) = "spec" THEN 0 ELSE Entry(h).sid
              /\ ErrorOf(Entry(h), Body(request[h].target)) = "none"
    BY <2>1 DEF Outcome
  <2>3. CASE ast' = ast
    BY <2>2, <2>3
  <2>4. CASE /\ ast' = [ast EXCEPT ![request[h].target].annotations = @ \cup {n}]
             /\ n.call = request[h].call
             /\ n.place = IF AstKind(Entry(h)) = "spec" THEN 0 ELSE Entry(h).sid
             /\ ErrorOf(Entry(h), Body(request[h].target)) = "none"
    <3>1. request[h].target \in Targets /\ \A t \in Targets : ast'[t].parse = ast[t].parse
      BY <2>4 DEF Shape
    <3>2. \A r : r.target \in Targets /\ r.call # n.call => AddedTo(ast', r) = AddedTo(ast, r)
      <4> SUFFICES ASSUME NEW r, r.target \in Targets, r.call # n.call
                   PROVE  AddedTo(ast', r) = AddedTo(ast, r)
        OBVIOUS
      <4>1. \A m : m.call = r.call => (m \in ast'[r.target].annotations <=> m \in ast[r.target].annotations)
        BY <2>4, <3>1 DEF Shape
      <4> QED BY <4>1 DEF AddedTo
    <3>3. \A k \in Handlers \ {h} : pc[k] \in {"inject", "note"} => InPlace(ast', request[k])
      <4> SUFFICES ASSUME NEW k \in Handlers \ {h}, pc[k] \in {"inject", "note"}
                   PROVE  InPlace(ast', request[k])
        OBVIOUS
      <4>1. request[k].call # n.call /\ request[k].target \in Targets
        BY <2>2, <2>4 DEF NumbersInv, Active, Shape
      <4>2. AddedTo(ast', request[k]) = AddedTo(ast, request[k])
        BY <3>2, <4>1
      <4> QED BY <4>2, OthersInPlace
    <3>4. \A a \in answers : InPlace(ast', a.request)
      <4> SUFFICES ASSUME NEW a \in answers PROVE InPlace(ast', a.request)
        OBVIOUS
      <4>1. a.request.call # n.call /\ a.request.target \in Targets
        BY <2>2, <2>4 DEF NumbersInv, ParsesInv, Active
      <4>2. AddedTo(ast', a.request) = AddedTo(ast, a.request)
        BY <3>2, <4>1
      <4> QED BY <4>2, OthersInPlace
    <3>5. InPlace(ast', request[h])
      <4>1. AddedTo(ast', request[h]) = AddedTo(ast, request[h]) \cup {n}
        BY <2>4, <3>1 DEF AddedTo, Shape
      <4>2. /\ request[h].fields \in Submission /\ Accounted(request[h], plan[h], at[h], good[h], bad[h])
            /\ Entry(h) = plan[h][at[h]]
        BY <2>2 DEF AccountsInv, Active, Entry
      <4>3. Belongs(Entry(h), request[h])
        <5>1. PICK e : e = plan[h][at[h]]
          OBVIOUS
        <5>2. ErrorOf(e, Body(request[h].target)) = "none"
          BY <2>4, <4>2, <5>1
        <5>4. at[h] <= Len(plan[h]) /\ request[h].fields \in Submission
          BY <2>2, <4>2
        <5>5. Accounted(request[h], plan[h], at[h], good[h], bad[h])
          BY <4>2
        <5>3. Belongs(e, request[h])
          BY <5>1, <5>2, <5>4, <5>5, EntryInPlace
        <5> QED BY <4>2, <5>1, <5>3
      <4>4. IF n.path.loop = 0 THEN n.place = 0
            ELSE n.path.loop \in DOMAIN request[h].fields.loops /\ n.place = request[h].sids[n.path.loop]
        BY <2>2, <2>4, <4>3 DEF Belongs
      <4>5. InPlace(ast, request[h])
        BY <2>2
      <4> QED BY <4>1, <4>4, <4>5 DEF InPlace
    <3>6. \A t \in Targets : ast'[t].parse >= 1
      BY <3>1
    <3>7. ast'["main"].parse + ast'["sandbox"].parse <= MaxChanges + 2
      BY <3>1 DEF Targets
    <3> QED BY <2>2, <3>3, <3>4, <3>5, <3>6, <3>7
  <2> QED BY <2>2, <2>3, <2>4
<1>6. ASSUME NEW h \in Handlers, Answer(h) PROVE PlacesInv'
  <2>1. PICK status : status = Status(bad[h])
    OBVIOUS
  <2>2. /\ ast' = ast /\ pc[h] \in {"inject", "note"} /\ pc'[h] = "idle" /\ request'[h] = NoRequest
        /\ answers' = answers \cup
             {[request |-> request[h], good |-> good[h], bad |-> bad[h], status |-> status]}
        /\ \A k \in Handlers \ {h} : pc'[k] = pc[k] /\ request'[k] = request[k]
    BY <1>6, <2>1 DEF Answer, Done, Clear, Shape
  <2>3. \A a \in answers' : Traced(a.request) /\ InPlace(ast, a.request)
    BY <2>2
  <2> QED BY <2>2, <2>3
<1>7. ASSUME NEW h \in Handlers, FindSandbox(h) PROVE PlacesInv'
  <2>1. /\ ast' = ast /\ answers' = answers /\ request' = request
        /\ pc[h] = "inject" /\ pc'[h] = "note"
        /\ \A k \in Handlers \ {h} : pc'[k] = pc[k]
    BY <1>7 DEF FindSandbox, Done, Shape
  <2> QED BY <2>1
<1>8. ASSUME NEW t \in Targets, Replaced(t) PROVE PlacesInv'
  <2>1. /\ pc' = pc /\ request' = request /\ answers' = answers
        /\ ast["main"].parse + ast["sandbox"].parse - 2 < MaxChanges
        /\ ast'[t].parse = ast[t].parse + 1 /\ ast'[t].annotations = {}
        /\ \A u \in Targets \ {t} : ast'[u] = ast[u]
    BY <1>8 DEF Replaced, Reparsed, task, Shape, Changes
  <2>2. ASSUME NEW r, r.target \in Targets, InPlace(ast, r) PROVE InPlace(ast', r)
    <3>1. CASE r.target = t
      BY <2>1, <3>1 DEF InPlace, AddedTo
    <3>2. CASE r.target # t
      BY <2>1, <2>2, <3>2 DEF InPlace, AddedTo
    <3> QED BY <3>1, <3>2
  <2>3. /\ \A h \in Handlers : request[h].target \in Targets
        /\ \A a \in answers : a.request.target \in Targets
    BY DEF Shape, ParsesInv
  <2>4. (\A u \in Targets : ast'[u].parse >= 1) /\ ast'["main"].parse + ast'["sandbox"].parse <= MaxChanges + 2
    <3>1. ast["main"].parse \in Nat /\ ast["sandbox"].parse \in Nat /\ MaxChanges \in Nat
      BY InjectAssumption DEF Shape, Targets
    <3>2. CASE t = "main"
      BY <2>1, <3>1, <3>2 DEF Targets
    <3>3. CASE t = "sandbox"
      BY <2>1, <3>1, <3>3 DEF Targets
    <3> QED BY <3>2, <3>3 DEF Targets
  <2> QED BY <2>1, <2>2, <2>3, <2>4
<1>9. CASE UNCHANGED <<ast, task, calls, answers>>
  BY <1>9 DEF task
<1> QED BY <1>1, <1>2, <1>3, <1>4, <1>5, <1>6, <1>7, <1>8, <1>9, OtherTools DEF Next

\* Nothing is to be answered for, or in a place, at first.
LEMMA AccountsInitially == Init => AccountsInv /\ PlacesInv
<1> SUFFICES ASSUME Init PROVE AccountsInv /\ PlacesInv
  OBVIOUS
<1>1. MaxChanges \in Nat
  BY InjectAssumption
<1>2. AccountsInv
  BY DEF Init, AccountsInv, Active
<1>3. PlacesInv
  BY <1>1 DEF Init, PlacesInv, Targets
<1> QED BY <1>2, <1>3

\* What holds of every clause.
LEMMA Clauses == Spec => [](Shape /\ NumbersInv /\ ParsesInv /\ ReportInv /\ StatusInv /\ AccountsInv /\ PlacesInv)
BY Initially, ReportInitially, AccountsInitially, ShapeStep, NumbersStep, ParsesStep, ReportStep, StatusStep,
   AccountsStep, PlacesStep, PTL DEF Spec

\* A report of an injection answers for every clause once, tells what is in the
\* AST, and sums it up: "success" only when all of the submission is there, and
\* "partial" only when what is missing had syntax errors.
THEOREM AnswersAreRight == Spec => []AnswerMatchesAst
<1>1. AccountsInv => \A a \in answers : AnsweredOnce(a)
  BY DEF AccountsInv
<1> QED BY <1>1, Clauses, CompleteAnswersAreRight, PTL

-----------------------------------------------------------------------------
(* The walk of collect_loop_sids.                                          *)

Lines(body) == [s \in Loops(body) |-> body.stmts[s].line]

\* A statement is visited after what is before it, and before what is inside it.
Visit(body, visit, sid) ==
  (IF body.stmts[sid].loop THEN <<sid>> ELSE <<>>) \o Found(visit, Inside(body.stmts[sid]))

\* In a list of statements the loops are found in source order.
LEMMA ListVisited ==
  ASSUME NEW body, NEW C, C = DOMAIN body.stmts, NEW L, L = Loops(body),
         NEW line, line = Lines(body), line \in [L -> Nat],
         NEW below \in [C -> SUBSET L], NEW list, NEW loops, InTurn(body, below, list, loops),
         NEW visit \in [C -> Seq(L)],
         \A i \in 1 .. Len(list) : Ascends(visit[list[i]], below[list[i]], line)
  PROVE  Ascends(Found(visit, list), loops, line)
<1>1. PICK ss : ss = [i \in DOMAIN list |-> visit[list[i]]]
  OBVIOUS
<1>2. PICK T : T = [i \in DOMAIN list |-> below[list[i]]]
  OBVIOUS
<1>3. /\ list \in Seq(C) /\ loops = UNION {below[list[i]] : i \in DOMAIN list}
      /\ \A i, j \in DOMAIN list : i < j =>
           \A s \in below[list[i]], t \in below[list[j]] : body.stmts[s].line < body.stmts[t].line
  BY DEF InTurn
<1>4. DOMAIN list = 1 .. Len(list) /\ Len(list) \in Nat /\ \A i \in 1 .. Len(list) : list[i] \in C
  BY <1>3
<1>6. ss \in Seq(Seq(L)) /\ Len(ss) = Len(list)
  <2>1. PICK n : n = Len(list)
    OBVIOUS
  <2>2. ss = [i \in 1 .. n |-> visit[list[i]]] /\ n \in Nat
    BY <1>1, <1>4, <2>1
  <2>3. ss \in [1 .. n -> Seq(L)]
    BY <1>4, <2>1, <2>2
  <2>4. n \in Nat /\ DOMAIN ss = 1 .. n
    BY <2>2
  <2>5. ss \in Seq(Seq(L))
    BY <2>3, <2>4
  <2>6. Len(ss) = n
    BY <2>4, <2>5
  <2> QED BY <2>1, <2>5, <2>6
<1>7. T \in [1 .. Len(ss) -> SUBSET L]
  BY <1>2, <1>4, <1>6
<1>8. \A i \in 1 .. Len(ss) : Ascends(ss[i], T[i], line)
  BY <1>1, <1>2, <1>4, <1>6
<1>9. ASSUME NEW i \in 1 .. Len(ss), NEW j \in 1 .. Len(ss), i < j, NEW x \in T[i], NEW y \in T[j]
      PROVE  line[x] < line[y]
  <2>1. x \in below[list[i]] /\ y \in below[list[j]] /\ x \in L /\ y \in L
    BY <1>2, <1>4, <1>6
  <2>2. body.stmts[x].line < body.stmts[y].line
    BY <1>3, <1>4, <1>6, <1>9, <2>1
  <2>3. line[x] = body.stmts[x].line /\ line[y] = body.stmts[y].line
    BY <2>1 DEF Lines
  <2> QED BY <2>2, <2>3
<1>11. AscendInTurn(ss, T, L, line)
  BY <1>6, <1>7, <1>8, <1>9 DEF AscendInTurn
<1>12. UNION {T[i] : i \in 1 .. Len(ss)} = loops
  BY <1>2, <1>3, <1>4, <1>6
<1>13. Ascends(FlattenSeq(ss), UNION {T[i] : i \in 1 .. Len(ss)}, line)
  BY <1>11, JoinAscends
<1> QED BY <1>1, <1>12, <1>13 DEF Found

\* A deeper visit finds the loops of a statement when the visit before found
\* those of the statements inside it.
LEMMA VisitDeeper ==
  ASSUME NEW body, NEW C, C = DOMAIN body.stmts, NEW L, L = Loops(body),
         NEW line, line = Lines(body), line \in [L -> Nat],
         NEW below \in [C -> SUBSET L], NEW depth, Nests(body, below, depth),
         NEW visit \in [C -> Seq(L)], NEW s \in C, NEW list, list = Inside(body.stmts[s]),
         \A i \in 1 .. Len(list) : Ascends(visit[list[i]], below[list[i]], line)
  PROVE  Ascends(Visit(body, visit, s), below[s], line)
<1>1. PICK T : T = below[s] \ {s}
  OBVIOUS
<1>2. /\ InTurn(body, below, list, T) /\ below[s] \in SUBSET L
      /\ s \in L => s \in below[s] /\ \A t \in T : body.stmts[s].line < body.stmts[t].line
  BY <1>1 DEF Nests, Printed, Inside
<1>3. PICK found : found = Found(visit, list)
  OBVIOUS
<1>4. Ascends(found, T, line)
  BY <1>2, <1>3, ListVisited
<1>5. CASE body.stmts[s].loop
  <2>1. s \in L
    BY <1>5 DEF Loops
  <2>2. PICK one, S : one = <<s>> /\ S = {s}
    OBVIOUS
  <2>3. Ascends(one, S, line)
    <3>1. one \in Seq(S)
      BY <2>2, OneListed
    <3>2. \A i \in DOMAIN one : i = 1 /\ one[i] = s
      BY <2>2
    <3>3. \A x \in S : one[1] = x /\ 1 \in DOMAIN one
      BY <2>2
    <3>4. \A i, j \in DOMAIN one : ~(i < j)
      BY <3>2
    <3> QED BY <3>1, <3>3, <3>4 DEF Ascends
  <2>4. S \in SUBSET L /\ T \in SUBSET L
    BY <1>1, <1>2, <2>1, <2>2
  <2>5. \A x \in S, t \in T : line[x] < line[t]
    <3>1. line[s] = body.stmts[s].line /\ \A t \in T : t \in L /\ line[t] = body.stmts[t].line
      BY <2>1, <2>4 DEF Lines
    <3> QED BY <1>2, <2>1, <2>2, <3>1
  <2>6. Ascends(one \o found, S \cup T, line)
    BY <1>4, <2>3, <2>4, <2>5, AscendsOn
  <2>7. S \cup T = below[s]
    BY <1>1, <1>2, <2>1, <2>2
  <2>8. Visit(body, visit, s) = one \o found
    BY <1>3, <1>5, <2>2 DEF Visit
  <2> QED BY <2>6, <2>7, <2>8
<1>6. CASE ~body.stmts[s].loop
  <2>1. T = below[s]
    BY <1>1, <1>2, <1>6 DEF Loops
  <2>2. found \in Seq(T)
    BY <1>4 DEF Ascends
  <2>3. <<>> \o found = found
    BY <2>2, ConcatEmptySeq
  <2>4. Visit(body, visit, s) = found
    BY <1>3, <1>6, <2>3 DEF Visit
  <2> QED BY <1>4, <2>1, <2>4
<1> QED BY <1>5, <1>6

\* The walk exists, and is as it is defined.
LEMMA WalkFacts ==
  ASSUME NEW body, IsBody(body), NEW C, C = DOMAIN body.stmts, NEW n, n = Cardinality(C),
         NEW L, L = Loops(body)
  PROVE  \E walk \in [0 .. n -> [C -> Seq(L)]] :
           /\ walk[0] = [s \in C |-> <<>>]
           /\ \A d \in 1 .. n : walk[d] = [s \in C |-> Visit(body, walk[d - 1], s)]
           /\ CollectLoopSids(body) = Found(walk[n], body.roots)
<1>0. PICK below, depth : depth \in [C -> 1 .. n] /\ Nests(body, below, depth) /\ IsFiniteSet(C)
  BY DEF IsBody
<1>1. n \in Nat
  BY <1>0, FS_CardinalityType
<1> DEFINE Fixed(f) ==
             f = [d \in 0 .. n |-> [s \in C |-> IF d = 0 THEN <<>> ELSE Visit(body, f[d - 1], s)]]
           F == CHOOSE f : Fixed(f)
<1>2. PICK S : S = [C -> Seq(L)]
  OBVIOUS
<1>3. \A visit \in S, s \in C : Visit(body, visit, s) \in Seq(L)
  <2> TAKE visit \in S, s \in C
  <2>2. Inside(body.stmts[s]) \in Seq(C)
    BY <1>0 DEF Nests, InTurn, Printed, Inside
  <2>3. Found(visit, Inside(body.stmts[s])) \in Seq(L)
    BY <1>2, <2>2, FoundType
  <2>4. PICK own : own = IF body.stmts[s].loop THEN <<s>> ELSE <<>>
    OBVIOUS
  <2>5. own \in Seq(L)
    <3>1. s \in L => <<s>> \in Seq(L)
      BY OneListed
    <3>3. body.stmts[s].loop => s \in L
      BY DEF Loops
    <3>2. <<>> \in Seq(L)
      BY EmptySeq
    <3> QED BY <2>4, <3>1, <3>2, <3>3
  <2> QED BY <2>3, <2>4, <2>5, ConcatProperties DEF Visit
<1>4. PICK step : step = [visit \in S |-> [s \in C |-> Visit(body, visit, s)]]
  OBVIOUS
<1>5. step \in [S -> S]
  BY <1>2, <1>3, <1>4
<1>6. PICK none : none = [s \in C |-> <<>>]
  OBVIOUS
<1>7. none \in S
  BY <1>2, <1>6, EmptySeq
<1>8. PICK p : Steps(p, S, none, n, step)
  BY <1>1, <1>5, <1>7, StepsExist
<1>9. p \in [0 .. n -> S] /\ p[0] = none /\ \A d \in 1 .. n : p[d] = step[p[d - 1]]
  BY <1>8 DEF Steps
<1>10. \A d \in 1 .. n : p[d] = [s \in C |-> Visit(body, p[d - 1], s)]
  <2>1. \A d \in 1 .. n : d - 1 \in 0 .. n /\ p[d - 1] \in S
    BY <1>1, <1>9
  <2> QED BY <1>4, <1>9, <2>1
<1>11. Fixed(p)
  <2>1. \A d \in 0 .. n :
          p[d] = [s \in C |-> IF d = 0 THEN <<>> ELSE Visit(body, p[d - 1], s)]
    <3> TAKE d \in 0 .. n
    <3>1. CASE d = 0
      BY <1>6, <1>9, <3>1
    <3>2. CASE d # 0
      <4>1. d \in 1 .. n
        BY <1>1, <3>2
      <4> QED BY <1>10, <3>2, <4>1
    <3> QED BY <3>1, <3>2
  <2>2. p = [d \in 0 .. n |-> p[d]]
    BY <1>9
  <2> QED BY <2>1, <2>2
<1>12. Fixed(F)
  <2> HIDE DEF Fixed
  <2> QED BY <1>11
<1>13. CollectLoopSids(body) = Found(F[n], body.roots)
  BY DEF CollectLoopSids, Visit, Found
<1> HIDE DEF F
<1>14. PICK G : G = F
  OBVIOUS
<1>15. F = [d \in 0 .. n |-> [s \in C |-> IF d = 0 THEN <<>> ELSE Visit(body, G[d - 1], s)]]
  BY <1>12, <1>14
<1>20. \A d \in 0 .. n : F[d] = [s \in C |-> IF d = 0 THEN <<>> ELSE Visit(body, G[d - 1], s)]
  BY <1>15
<1>16. F[0] = none
  <2>1. 0 \in 0 .. n
    BY <1>1
  <2>2. F[0] = [s \in C |-> IF 0 = 0 THEN <<>> ELSE Visit(body, G[0 - 1], s)]
    BY <1>20, <2>1
  <2> QED BY <1>6, <2>2
<1>21. \A d \in 1 .. n : F[d] = [s \in C |-> Visit(body, G[d - 1], s)]
  <2> TAKE d \in 1 .. n
  <2>1. d \in 0 .. n /\ d # 0
    BY <1>1
  <2> QED BY <1>20, <2>1
<1>17. StepAlike(F, p, n)
  <2> SUFFICES ASSUME NEW d \in 1 .. n, F[d - 1] = p[d - 1] PROVE F[d] = p[d]
    BY DEF StepAlike
  <2>1. PICK visit : visit = p[d - 1]
    OBVIOUS
  <2>2. F[d] = [s \in C |-> Visit(body, visit, s)]
    BY <1>14, <1>21, <2>1
  <2>3. p[d] = [s \in C |-> Visit(body, visit, s)]
    BY <1>10, <2>1
  <2> QED BY <2>2, <2>3
<1>18. \A d \in 0 .. n : F[d] = p[d]
  BY <1>1, <1>9, <1>16, <1>17, SameSteps
<1>19. CollectLoopSids(body) = Found(p[n], body.roots)
  BY <1>1, <1>13, <1>18
<1> QED BY <1>2, <1>6, <1>9, <1>10, <1>19

\* collect_loop_sids finds the loops of a body in source order.
LEMMA WalkFollowsSource ==
  ASSUME NEW body, IsBody(body)
  PROVE  CollectLoopSids(body) = LoopsInSource(body)
<1>0. PICK C, L, n : C = DOMAIN body.stmts /\ L = Loops(body) /\ n = Cardinality(C)
  OBVIOUS
<1>1. /\ IsFiniteSet(C) /\ n \in Nat /\ IsFiniteSet(L) /\ L \in SUBSET C
      /\ \A s \in L : body.stmts[s].line \in Nat
  <2>1. IsFiniteSet(C) /\ L \in SUBSET C /\ \A s \in L : body.stmts[s].line \in Nat
    BY <1>0 DEF IsBody, Loops
  <2> QED BY <1>0, <2>1, FS_Subset, FS_CardinalityType
<1>2. PICK below \in [C -> SUBSET L], depth \in [C -> 1 .. n] : Nests(body, below, depth)
  BY <1>0 DEF IsBody
<1>3. PICK line : line = Lines(body)
  OBVIOUS
<1>4. line \in [L -> Nat] /\ \A s \in L : line[s] = body.stmts[s].line
  BY <1>0, <1>1, <1>3 DEF Lines
<1>5. PICK walk \in [0 .. n -> [C -> Seq(L)]] :
        /\ walk[0] = [s \in C |-> <<>>]
        /\ \A d \in 1 .. n : walk[d] = [s \in C |-> Visit(body, walk[d - 1], s)]
        /\ CollectLoopSids(body) = Found(walk[n], body.roots)
  BY <1>0, WalkFacts

\* The walk to some depth finds the loops of the statements that are not deeper.
<1> DEFINE A == {d \in 0 .. n : \A s \in C : depth[s] <= d => Ascends(walk[d][s], below[s], line)}
<1>6. 0 \in A
  <2>1. \A s \in C : ~(depth[s] <= 0)
    BY <1>1, <1>2
  <2> QED BY <1>1, <2>1
<1>7. ASSUME NEW d \in A, d < n PROVE d + 1 \in A
  <2>1. /\ d \in Nat /\ d \in 0 .. n /\ d + 1 \in 1 .. n /\ d + 1 \in 0 .. n
        /\ (d + 1) - 1 = d
    BY <1>1, <1>7
  <2>2. \A s \in C : depth[s] <= d => Ascends(walk[d][s], below[s], line)
    OBVIOUS
  <2> HIDE DEF A
  <2>3. ASSUME NEW s \in C, depth[s] <= d + 1 PROVE Ascends(walk[d + 1][s], below[s], line)
    <3>1. PICK list : list = Inside(body.stmts[s])
      OBVIOUS
    <3>2. list \in Seq(C) /\ \A i \in DOMAIN list : depth[list[i]] < depth[s]
      BY <1>0, <1>2, <3>1 DEF Nests, InTurn, Printed, Inside
    <3>3. \A i \in 1 .. Len(list) : list[i] \in C /\ depth[list[i]] <= d
      <4>1. \A i \in 1 .. Len(list) : list[i] \in C /\ depth[list[i]] < depth[s]
        BY <3>2
      <4>2. \A c \in C : depth[c] \in Nat
        BY <1>1, <1>2
      <4> QED BY <2>1, <2>3, <4>1, <4>2
    <3>4. PICK visit : visit = walk[d]
      OBVIOUS
    <3>5. visit \in [C -> Seq(L)]
      BY <1>5, <2>1, <3>4
    <3>6. \A i \in 1 .. Len(list) : Ascends(visit[list[i]], below[list[i]], line)
      BY <2>2, <3>3, <3>4
    <3>7. walk[d + 1][s] = Visit(body, visit, s)
      <4>1. walk[d + 1] = [t \in C |-> Visit(body, visit, t)]
        BY <1>5, <2>1, <3>4
      <4> QED BY <4>1
    <3>8. Ascends(Visit(body, visit, s), below[s], line)
      BY <1>0, <1>2, <1>3, <1>4, <3>1, <3>5, <3>6, VisitDeeper
    <3> QED BY <3>7, <3>8
  <2> QED BY <2>1, <2>3 DEF A
<1>8. A = 0 .. n
  <2>1. A \in SUBSET (0 .. n) /\ 0 \in Nat /\ 0 <= n
    BY <1>1
  <2> HIDE DEF A
  <2> QED BY <1>1, <1>6, <1>7, <2>1, CountUp
<1>9. \A s \in C : Ascends(walk[n][s], below[s], line)
  <2>1. \A s \in C : depth[s] <= n
    BY <1>1, <1>2
  <2>2. n \in A
    <3> HIDE DEF A
    <3> QED BY <1>1, <1>8
  <2> QED BY <2>1, <2>2
<1> HIDE DEF A
<1>10. PICK visit, list : visit = walk[n] /\ list = body.roots
  OBVIOUS
<1>11. visit \in [C -> Seq(L)] /\ InTurn(body, below, list, L)
  BY <1>0, <1>1, <1>2, <1>5, <1>10 DEF Nests
<1>12. \A i \in 1 .. Len(list) : Ascends(visit[list[i]], below[list[i]], line)
  <2>1. \A i \in 1 .. Len(list) : list[i] \in C
    BY <1>0, <1>11 DEF InTurn
  <2> QED BY <1>9, <1>10, <2>1
<1>13. PICK found : found = Found(visit, list)
  OBVIOUS
<1>14. Ascends(found, L, line)
  BY <1>0, <1>3, <1>4, <1>11, <1>12, <1>13, ListVisited
<1>15. L \in SUBSET L
  OBVIOUS
<1>16. found = ByNumber(L, line)
  BY <1>1, <1>4, <1>14, <1>15, AscendsFacts
<1>17. LoopsInSource(body) = ByNumber(L, line)
  <2>1. \A x \in L : line[x] = body.stmts[x].line
    BY <1>4
  <2>2. {line[x] : x \in L} = {body.stmts[x].line : x \in L}
    BY <2>1
  <2>3. PICK lines : lines = Sorted({line[x] : x \in L})
    OBVIOUS
  <2>4. lines = Sorted({body.stmts[x].line : x \in L})
    BY <2>2, <2>3
  <2>5. LoopsInSource(body) = [k \in DOMAIN lines |-> CHOOSE x \in L : body.stmts[x].line = lines[k]]
    BY <1>0, <2>4 DEF LoopsInSource
  <2>6. ByNumber(L, line) = [k \in DOMAIN lines |-> CHOOSE x \in L : line[x] = lines[k]]
    BY <2>3 DEF ByNumber
  <2>8. PICK D : D = DOMAIN lines
    OBVIOUS
  <2>9. PICK f : f = [k \in D |-> CHOOSE x \in L : line[x] = lines[k]]
    OBVIOUS
  <2>10. PICK g : g = [k \in D |-> CHOOSE x \in L : body.stmts[x].line = lines[k]]
    OBVIOUS
  <2>11. \A k \in D : f[k] = g[k]
    <3> TAKE k \in D
    <3>1. \A x : x \in L /\ line[x] = lines[k] <=> x \in L /\ body.stmts[x].line = lines[k]
      BY <2>1
    <3>2. (CHOOSE x : x \in L /\ line[x] = lines[k]) = CHOOSE x : x \in L /\ body.stmts[x].line = lines[k]
      BY <3>1
    <3>3. f[k] = CHOOSE x \in L : line[x] = lines[k]
      BY <2>9
    <3>4. g[k] = CHOOSE x \in L : body.stmts[x].line = lines[k]
      BY <2>10
    <3> QED BY <3>2, <3>3, <3>4
  <2>12. f = [k \in D |-> f[k]] /\ g = [k \in D |-> g[k]]
    BY <2>9, <2>10
  <2>13. f = g
    BY <2>11, <2>12
  <2> QED BY <2>5, <2>6, <2>8, <2>9, <2>10, <2>13
<1> QED BY <1>5, <1>10, <1>13, <1>16, <1>17

-----------------------------------------------------------------------------
(* What is merged.                                                         *)

\* What is merged is what was verified, whatever is reloaded or injected while it
\* is merged.
THEOREM MergesAreRight == Spec => []MergeIsWhatWasVerified
<1>1. Shape /\ ParsesInv /\ ReportInv /\ PlacesInv => MergeIsWhatWasVerified
  <2> SUFFICES ASSUME Shape, ParsesInv, ReportInv, PlacesInv,
                      NEW r \in Requests, Current(r), InSourceOrder(r.fields.loops), NEW n \in AddedBy(r)
               PROVE  n.place = IF n.path.loop = 0 THEN 0 ELSE LoopsInSource(Body(r.target))[n.path.loop]
    BY DEF MergeIsWhatWasVerified
  <2>1. r.target \in Targets /\ r.parse = ast[r.target].parse
    BY DEF Shape, ParsesInv, Requests, Current
  <2>2. n \in AddedTo(ast, r)
    BY DEF AddedBy, AddedTo
  <2>3. Traced(r) /\ InPlace(ast, r)
    <3>1. CASE \E a \in answers : r = a.request
      BY <3>1 DEF PlacesInv
    <3>2. CASE \E h \in Handlers : r = request[h]
      <4>1. PICK h \in Handlers : r = request[h]
        BY <3>2
      <4>2. pc[h] # "idle"
        <5>1. NoRequest.call = 0
          BY DEF NoRequest
        <5> QED BY <4>1, <5>1 DEF PlacesInv, Current
      <4>3. pc[h] \notin {"loops", "plan"}
        BY <2>2, <4>1 DEF ReportInv
      <4> QED BY <4>1, <4>2, <4>3 DEF PlacesInv, Shape
    <3> QED BY <3>1, <3>2 DEF Requests
  <2>4. CASE n.path.loop = 0
    BY <2>2, <2>3, <2>4 DEF InPlace
  <2>5. CASE n.path.loop # 0
    <3>1. n.path.loop \in DOMAIN r.fields.loops /\ n.place = r.sids[n.path.loop]
      BY <2>2, <2>3, <2>5 DEF InPlace
    <3>2. CASE r.target = "sandbox"
      <4>1. n.place = r.fields.loops[n.path.loop].sid
        BY <2>3, <3>1, <3>2 DEF Traced
      <4> QED BY <2>5, <3>1, <3>2, <4>1 DEF InSourceOrder, Body
    <3>3. CASE r.target = "main"
      <4>1. r.sids = CollectLoopSids(MainBodies[r.parse])
        BY <2>3, <3>1, <3>3 DEF Traced
      <4>2. r.parse \in 1 .. MaxChanges + 1
        <5>1. ast["main"].parse \in Nat /\ ast["sandbox"].parse \in Nat /\ MaxChanges \in Nat
          BY InjectAssumption DEF Shape, Targets
        <5>2. /\ ast["main"].parse >= 1 /\ ast["sandbox"].parse >= 1
              /\ ast["main"].parse + ast["sandbox"].parse <= MaxChanges + 2
          BY DEF PlacesInv, Targets
        <5> QED BY <2>1, <3>3, <5>1, <5>2
      <4>3. r.sids = LoopsInSource(MainBodies[r.parse])
        <5>1. IsBody(MainBodies[r.parse])
          BY <4>2, InjectAssumption
        <5> QED BY <4>1, <5>1, WalkFollowsSource
      <4>4. Body("main") = MainBodies[r.parse]
        BY <2>1, <3>3 DEF Body
      <4> QED BY <2>5, <3>1, <3>3, <4>3, <4>4
    <3> QED BY <2>1, <3>2, <3>3 DEF Targets
  <2> QED BY <2>4, <2>5
<1> QED BY <1>1, Clauses, PTL
=============================================================================
