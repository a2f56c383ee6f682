-------------------------------- MODULE Topo --------------------------------
(***************************************************************************)
(* src/topo.rs: from a callgraph to the order in which functions are       *)
(* verified.  compute_topological_order condenses the cycles of the graph  *)
(* and gives every group of mutually recursive functions a level, from the *)
(* leaves up (Kahn's algorithm, one round of its loop per step here);      *)
(* flatten_levels_to_vo_scc lists the groups level by level, without the   *)
(* functions that are only declared, and the handler seeds the result in   *)
(* the project state.  compute_ready_functions answers, without levels,    *)
(* which functions can be verified next; Scheduler.tla uses it.            *)
(*                                                                         *)
(* Functions are numbers, in the order of their names.                     *)
(***************************************************************************)
EXTENDS Integers, FiniteSets, Sequences, SequencesExt, Listing

CONSTANTS
  Functions, \* the functions of all programs
  Programs   \* callgraphs, with the functions that have a body

\* A function without a body calls nothing.
Program ==
  {p \in [vertices : SUBSET Functions, defined : SUBSET Functions,
          calls : SUBSET (Functions \X Functions)] :
     p.defined \subseteq p.vertices /\ p.calls \subseteq p.defined \X p.vertices}

ASSUME TopoAssumption ==
  Functions \subseteq Nat /\ IsFiniteSet(Functions) /\ \A p \in Programs : p \in Program

VARIABLES
  vertices, \* the functions of the callgraph
  defined,  \* those that have a body (FunctionInfo.defined)
  calls,    \* the calls, as pairs <<caller, callee>>
  phase,    \* "condense", "count", "level", "flatten", "seeded"
  scc,      \* scc_of: the component of every function
  degree,   \* out_degree: called groups that have no level yet
  level,    \* levels_map
  frontier, \* ready: the groups the next round gives a level
  current,  \* current_level
  taken,    \* history: the groups that have been in the frontier
  order,    \* verification_order
  groups    \* scc_groups

callgraph == <<vertices, defined, calls>>
kahn  == <<degree, level, frontier, current, taken>>
topoVars == <<callgraph, scc, kahn, phase, order, groups>>

-----------------------------------------------------------------------------
(* The graph and its condensation (petgraph).                              *)

Callees(f) == {g \in vertices : <<f, g>> \in calls}

Reaches(f, g) ==
  \A S \in SUBSET vertices :
    (f \in S /\ \A h \in S : Callees(h) \subseteq S) => g \in S

\* tarjan_scc: the strongly connected component of a function.
Component(f) == {g \in vertices : Reaches(f, g) /\ Reaches(g, f)}
Components   == {scc[f] : f \in DOMAIN scc}

\* Mutant: only cycles of several functions count.
SeveralMembers(G) == Cardinality(G) >= 2

IsCycle(G) == Cardinality(G) >= 2 \/ \E f \in G : f \in Callees(f)

\* Mutant: edges inside a group are kept (make_acyclic = false).
CalledWithLoops(G) == {H \in Components : \E f \in G : Callees(f) \cap H # {}}

\* The edges of the condensed graph, without loops and without duplicates.
CalledGroups(G) == {H \in Components \ {G} : \E f \in G : Callees(f) \cap H # {}}

-----------------------------------------------------------------------------
(* compute_topological_order.                                              *)

TopoInit ==
  /\ \E p \in Programs : vertices = p.vertices /\ defined = p.defined /\ calls = p.calls
  /\ phase = "condense"
  /\ scc = <<>>
  /\ degree = <<>> /\ level = <<>> /\ frontier = {} /\ current = 0 /\ taken = {}
  /\ order = <<>> /\ groups = <<>>

Condense ==
  /\ phase = "condense"
  /\ phase' = IF vertices = {} THEN "flatten" ELSE "count"
  /\ scc' = [f \in vertices |-> Component(f)]
  /\ UNCHANGED <<callgraph, kahn, order, groups>>

Count ==
  /\ phase = "count"
  /\ phase' = "level"
  /\ degree' = [G \in Components |-> Cardinality(CalledGroups(G))]
  /\ level' = [G \in Components |-> 0]
  /\ frontier' = {G \in Components : CalledGroups(G) = {}}
  /\ UNCHANGED <<callgraph, scc, current, taken, order, groups>>

\* Mutant: a caller is put in the frontier when its first callee has a level.
FirstCallee(before, after) == after < before

\* A caller enters the next frontier when its count comes to zero.
Released(before, after) == before > 0 /\ after = 0

Round ==
  /\ phase = "level" /\ frontier # {}
  /\ level' = [G \in Components |-> IF G \in frontier THEN current ELSE level[G]]
  /\ degree' = [G \in Components |-> degree[G] - Cardinality(CalledGroups(G) \cap frontier)]
  /\ frontier' = {G \in Components : Released(degree[G], degree'[G])}
  /\ current' = current + 1
  /\ taken' = taken \cup frontier
  /\ UNCHANGED <<callgraph, scc, phase, order, groups>>

Levelled ==
  /\ phase = "level" /\ frontier = {}
  /\ phase' = "flatten"
  /\ UNCHANGED <<callgraph, scc, kahn, order, groups>>

\* The groups in the order of their ids: by level, and within a level as the
\* condensation numbered them, of which nothing is known.
Numberings ==
  {s \in SetToSeqs(Components) : \A i, j \in DOMAIN s : i < j => level[s[i]] <= level[s[j]]}

\* Mutant: functions without a body are kept.
AllMembers(G) == Sorted(G)

\* The defined members of a group, by name.
Members(G) == Sorted(G \cap defined)

\* flatten_levels_to_vo_scc, and the seeding of project_state.  A group that has
\* no members left is left out.
Flatten ==
  /\ phase = "flatten"
  /\ phase' = "seeded"
  /\ \E s \in Numberings :
       LET members == [i \in DOMAIN s |-> Members(s[i])]
           kept    == Sorted({i \in DOMAIN s : members[i] # <<>>})
       IN /\ groups' = [k \in DOMAIN kept |->
               [id |-> kept[k] - 1, members |-> members[kept[k]],
                level |-> level[s[kept[k]]], is_cycle |-> IsCycle(s[kept[k]])]]
          /\ order' = FlattenSeq(members)
  /\ UNCHANGED <<callgraph, scc, kahn>>

TopoNext == Condense \/ Count \/ Round \/ Levelled \/ Flatten

-----------------------------------------------------------------------------
(* compute_ready_functions.                                                *)

\* Mutant: no exemption for the members of a cycle.
NoExemption(f, g) == FALSE

\* The callees a function need not wait for: those of its own cycle.
Exempt(f, g) == g \in scc[f] /\ IsCycle(scc[f])

\* Mutant: a member of a cycle waits for the members that are being verified.
MembersTakeTurns(done, running) ==
  {f \in vertices \ (done \cup running) :
     /\ scc[f] \cap running = {}
     /\ \A g \in Callees(f) : g \in done \/ Exempt(f, g)}

\* Mutant: one callee done is enough.
SomeCalleeDone(done, running) ==
  {f \in vertices \ (done \cup running) :
     Callees(f) = {} \/ \E g \in Callees(f) : g \in done \/ Exempt(f, g)}

ReadyFunctions(done, running) ==
  {f \in vertices \ (done \cup running) :
     \A g \in Callees(f) : g \in done \/ Exempt(f, g)}

-----------------------------------------------------------------------------
(* Properties.                                                             *)

Position(f) == CHOOSE i \in DOMAIN order : order[i] = f

\* The loop keeps, for every group, the number of groups it calls that have no
\* level yet: the count (a usize) does not go below zero, and comes to zero in
\* the round after the last of them.
DegreeCountsOpenCallees ==
  phase = "level" => degree = [G \in Components |-> Cardinality(CalledGroups(G) \ taken)]

\* When the loop ends every group has had its round (a group that never has is
\* silently left on level 0, among the leaves), and is exactly one level above
\* the highest group it calls.
LevelsAreTight ==
  /\ DegreeCountsOpenCallees
  /\ phase \in {"flatten", "seeded"} =>
       /\ taken = Components
       /\ \A G \in Components :
            /\ \A H \in CalledGroups(G) : level[H] < level[G]
            /\ level[G] > 0 => \E H \in CalledGroups(G) : level[H] = level[G] - 1

\* The order names every function with a body once, and none comes before one
\* it calls, directly or not, unless they call each other.
OrderIsBottomUp ==
  /\ ToSet(order) = defined /\ IsInjective(order)
  /\ \A f, g \in defined : Position(g) < Position(f) \/ ~Reaches(f, g) \/ Reaches(g, f)

\* The groups cut the order into cycles and single functions, and a group is
\* marked as a cycle exactly when its members can come to call themselves.
GroupsAreTheCycles ==
  /\ FlattenSeq([i \in DOMAIN groups |-> groups[i].members]) = order
  /\ \A i \in DOMAIN groups : \A f \in ToSet(groups[i].members) :
       /\ ToSet(groups[i].members) = {g \in defined : g = f \/ (Reaches(f, g) /\ Reaches(g, f))}
       /\ groups[i].is_cycle <=> \E g \in Callees(f) : Reaches(g, f)

\* What compute_topological_order seeds and answers is a complete order to
\* verify the program in, callees first, with its cycles as groups.
SeedIsAVerificationOrder ==
  phase = "seeded" => OrderIsBottomUp /\ GroupsAreTheCycles
=============================================================================
