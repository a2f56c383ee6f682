------------------------ MODULE VerificationOrderProofs ------------------------
(***************************************************************************)
(* Theorems about the verification order: how it is computed and worked    *)
(* off (Topo and Scheduler), and how the project state keeps it            *)
(* (ProjectState).                                                         *)
(*                                                                         *)
(* For every set of programs, the levels of compute_topological_order are  *)
(* complete and tight and follow the calls, what is seeded lists every     *)
(* function with a body once, callees first and cycle by cycle, an answer  *)
(* of get_ready_functions can be used late, and an agent is held up by     *)
(* library functions only.  Two arguments carry that.  The loop that gives *)
(* levels (Kahn's) keeps KahnInv: a group is in the frontier or has been   *)
(* there exactly when all the groups it calls have been there.  And in     *)
(* every set of functions there is one that is called back by all it       *)
(* reaches in the set (BottomOf): so the loop does not end early, and a    *)
(* function is ready.                                                      *)
(*                                                                         *)
(* For any handlers, any number of stores, reloads and restarts, and any   *)
(* faults, the order that the server seeded stands in the project state    *)
(* whatever agents store, and the file follows the state (OrderInv,        *)
(* FileInv).                                                               *)
(***************************************************************************)
EXTENDS Scheduler, ProjectState, ListingProofs

-----------------------------------------------------------------------------
(* Reachability.                                                           *)

ReachedFrom(f) == {g \in vertices : Reaches(f, g)}

\* A function reaches itself.
LEMMA ReachesSelf == ASSUME NEW f PROVE Reaches(f, f)
  BY DEF Reaches

\* What is reached is in the graph.
LEMMA ReachesIn ==
  ASSUME NEW f \in vertices, NEW g, Reaches(f, g) PROVE g \in vertices
  BY DEF Reaches, Callees

\* A call is a way.
LEMMA ReachesCallee ==
  ASSUME NEW f, NEW g \in Callees(f) PROVE Reaches(f, g)
  BY DEF Reaches

\* Ways can be joined.
LEMMA ReachesTrans ==
  ASSUME NEW f, NEW g, NEW h, Reaches(f, g), Reaches(g, h)
  PROVE  Reaches(f, h)
  BY DEF Reaches

\* A way to another function starts with a call.
LEMMA FirstCall ==
  ASSUME NEW f \in vertices, NEW h, Reaches(f, h), h # f
  PROVE  \E g \in Callees(f) : Reaches(g, h)
<1> DEFINE S == {f} \cup {x \in vertices : \E g \in Callees(f) : Reaches(g, x)}
<1>1. S \in SUBSET vertices /\ f \in S
  OBVIOUS
<1>2. ASSUME NEW x \in S, NEW y \in Callees(x) PROVE y \in S
  <2>1. y \in vertices
    BY DEF Callees
  <2>2. CASE x = f
    BY <2>1, <2>2, ReachesSelf
  <2>3. CASE \E g \in Callees(f) : Reaches(g, x)
    BY <2>1, <2>3, ReachesCallee, ReachesTrans
  <2> QED BY <2>2, <2>3
<1>3. h \in S
  BY <1>1, <1>2 DEF Reaches
<1> QED BY <1>3

\* The components cut the functions into classes.
LEMMA ComponentClass ==
  ASSUME NEW f \in vertices
  PROVE  /\ f \in Component(f)
         /\ Component(f) \subseteq vertices
         /\ \A g \in vertices :
              /\ g \in Component(f) <=> Reaches(f, g) /\ Reaches(g, f)
              /\ g \in Component(f) => Component(g) = Component(f)
<1>1. f \in Component(f) /\ Component(f) \subseteq vertices
  BY ReachesSelf DEF Component
<1>2. \A g \in vertices : g \in Component(f) <=> Reaches(f, g) /\ Reaches(g, f)
  BY DEF Component
<1>3. ASSUME NEW g \in vertices, g \in Component(f) PROVE Component(g) = Component(f)
  BY <1>2, <1>3, ReachesTrans DEF Component
<1> QED BY <1>1, <1>2, <1>3

\* In a set of functions one is called back by all it reaches in the set.
LEMMA BottomOf ==
  ASSUME IsFiniteSet(vertices), NEW T \in SUBSET vertices, T # {}
  PROVE  \E f \in T : \A g \in T : Reaches(f, g) => Reaches(g, f)
<1> DEFINE R == StrictSubsetOrdering(vertices)
           F == {ReachedFrom(f) : f \in T}
<1>1. IsWellFoundedOn(R, SUBSET vertices)
  BY FS_StrictSubsetOrderingWellFounded, FS_FiniteSubsetsOfFinite
<1>2. F \subseteq SUBSET vertices /\ F # {}
  BY DEF ReachedFrom
<1>3. \E M \in F : \A N \in F : <<N, M>> \notin R
  <2> HIDE DEF R, F
  <2> QED BY <1>1, <1>2, WFMin
<1>4. PICK f \in T : \A N \in F : <<N, ReachedFrom(f)>> \notin R
  BY <1>3
<1>5. ASSUME NEW g \in T, Reaches(f, g) PROVE Reaches(g, f)
  <2>1. ReachedFrom(g) \subseteq ReachedFrom(f)
    BY <1>5, ReachesTrans DEF ReachedFrom
  <2>2. ReachedFrom(g) \in SUBSET vertices /\ ReachedFrom(f) \in SUBSET vertices
    BY DEF ReachedFrom
  <2>3. ReachedFrom(g) = ReachedFrom(f)
    BY <1>4, <2>1, <2>2 DEF StrictSubsetOrdering
  <2>4. f \in ReachedFrom(f)
    BY ReachesSelf DEF ReachedFrom
  <2> QED BY <2>3, <2>4 DEF ReachedFrom
<1> QED BY <1>5

\* A set with two members counts at least two.
LEMMA TwoMembers ==
  ASSUME NEW S, IsFiniteSet(S)
  PROVE  Cardinality(S) >= 2 <=> \E x, y \in S : x # y
<1>1. Cardinality(S) \in Nat
  BY FS_CardinalityType
<1>2. ASSUME NEW x \in S, NEW y \in S, x # y PROVE Cardinality(S) >= 2
  <2>1. Cardinality(S) # 0
    BY FS_EmptySet
  <2>2. Cardinality(S) # 1
    BY <1>2, FS_Singleton
  <2> QED BY <1>1, <2>1, <2>2
<1>3. ASSUME Cardinality(S) >= 2 PROVE \E x, y \in S : x # y
  <2>1. S # {}
    BY <1>1, <1>3, FS_EmptySet
  <2>2. PICK x \in S : TRUE
    BY <2>1
  <2>3. S # {x}
    BY <1>3, FS_Singleton
  <2> QED BY <2>2, <2>3
<1> QED BY <1>2, <1>3

\* A component is a cycle exactly when its functions can come to call
\* themselves: IsCycle, which looks at the size and at direct recursion only,
\* is right for every member.
LEMMA CycleMeansCalledBack ==
  ASSUME IsFiniteSet(vertices), NEW f \in vertices
  PROVE  IsCycle(Component(f)) <=> \E g \in Callees(f) : Reaches(g, f)
<1>1. IsFiniteSet(Component(f))
  BY ComponentClass, FS_Subset
<1>2. ASSUME NEW g \in Callees(f), Reaches(g, f) PROVE IsCycle(Component(f))
  <2>1. f \in Component(f) /\ g \in Component(f)
    BY <1>2, ReachesCallee, ReachesIn, ComponentClass
  <2>2. CASE g = f
    BY <2>1, <2>2 DEF IsCycle
  <2>3. CASE g # f
    BY <1>1, <2>1, <2>3, TwoMembers DEF IsCycle
  <2> QED BY <2>2, <2>3
<1>3. ASSUME NEW h \in Component(f), h # f PROVE \E g \in Callees(f) : Reaches(g, f)
  <2>1. Reaches(f, h) /\ Reaches(h, f)
    BY ComponentClass
  <2>2. PICK g \in Callees(f) : Reaches(g, h)
    BY <1>3, <2>1, FirstCall
  <2> QED BY <2>1, <2>2, ReachesTrans
<1>4. ASSUME IsCycle(Component(f)) PROVE \E g \in Callees(f) : Reaches(g, f)
  <2>1. CASE \E h \in Component(f) : h # f
    BY <1>3, <2>1
  <2>2. CASE \A h \in Component(f) : h = f
    <3>1. ~(Cardinality(Component(f)) >= 2)
      BY <1>1, <2>2, TwoMembers
    <3>2. f \in Callees(f)
      BY <1>4, <2>2, <3>1 DEF IsCycle
    <3> QED BY <3>2, ReachesSelf
  <2> QED BY <2>1, <2>2
<1> QED BY <1>2, <1>4

-----------------------------------------------------------------------------
(* The graph does not change, and after the first step every function has  *)
(* its component.                                                          *)

Phases == {"condense", "count", "level", "flatten", "seeded"}

GraphInv ==
  /\ vertices \subseteq Functions /\ IsFiniteSet(vertices) /\ defined \subseteq vertices
  /\ phase \in Phases
  /\ phase # "condense" => scc = [f \in vertices |-> Component(f)]

\* What a step can be for the properties: one of the computation, or one of
\* the agent on a seeded order.
LEMMA FlattenFacts ==
  ASSUME Flatten
  PROVE  /\ phase = "flatten" /\ phase' = "seeded"
         /\ UNCHANGED <<vertices, defined, calls, scc, degree, level, frontier,
                        current, taken>>
  BY DEF Flatten, callgraph, kahn

\* There is no graph at first.
LEMMA GraphInit == ASSUME SchedulerInit PROVE GraphInv
<1>1. PICK p \in Programs : vertices = p.vertices /\ defined = p.defined
  BY DEF SchedulerInit, TopoInit
<1>2. p.vertices \subseteq Functions /\ p.defined \subseteq p.vertices
  BY TopoAssumption DEF Program
<1>3. IsFiniteSet(vertices)
  BY <1>1, <1>2, TopoAssumption, FS_Subset
<1> QED BY <1>1, <1>2, <1>3 DEF SchedulerInit, TopoInit, GraphInv, Phases

\* Only a new computation changes the graph or its components.
LEMMA GraphStands ==
  ASSUME [SchedulerNext]_schedulerVars
  PROVE  UNCHANGED <<vertices, defined, calls>>
  BY FlattenFacts DEF SchedulerNext, schedulerVars, topoVars, callgraph, ComputeOrder, TopoNext, Condense,
     Count, Round, Levelled, GetReady, Start, Merge, Fail

\* An expression over the graph alone keeps its value.
LEMMA SameGraph ==
  ASSUME UNCHANGED <<vertices, defined, calls>>
  PROVE  /\ \A f : Callees(f)' = Callees(f)
         /\ \A f, g : Reaches(f, g)' <=> Reaches(f, g)
         /\ \A f : Component(f)' = Component(f)
  BY DEF Callees, Reaches, Component

\* Every step keeps the components those of the graph.
LEMMA GraphStep == ASSUME GraphInv, [SchedulerNext]_schedulerVars PROVE GraphInv'
<1>1. UNCHANGED <<vertices, defined, calls>>
  BY GraphStands
<1>2. \A f : Component(f)' = Component(f)
  BY <1>1, SameGraph
<1>3. vertices' \subseteq Functions /\ IsFiniteSet(vertices)' /\ defined' \subseteq vertices'
  BY <1>1 DEF GraphInv
<1>4. CASE Condense
  BY <1>1, <1>2, <1>3, <1>4 DEF Condense, GraphInv, Phases
<1>5. CASE Flatten
  BY <1>1, <1>2, <1>3, <1>5, FlattenFacts DEF GraphInv, Phases
<1>6. CASE Count \/ Round \/ Levelled
  BY <1>1, <1>2, <1>3, <1>6 DEF Count, Round, Levelled, GraphInv, Phases
<1>7. CASE UNCHANGED <<phase, scc>>
  BY <1>1, <1>2, <1>3, <1>7 DEF GraphInv, Phases
<1> QED
  BY <1>4, <1>5, <1>6, <1>7 DEF SchedulerNext, ComputeOrder, TopoNext, GetReady, Start, Merge,
     Fail, schedulerVars, topoVars

\* From the moment they are stored, scc names the components of the graph:
\* two functions have the same one exactly when each reaches the other.
THEOREM GraphCorrect == SchedulerSpec => []GraphInv
  BY GraphInit, GraphStep, PTL DEF SchedulerSpec

-----------------------------------------------------------------------------
(* The agent.  AgentInv says of every function the agent was ever given    *)
(* what ReadyFunctions asks of its callees; done only grows, so this does  *)
(* not get old.  A callee that was exempt calls back.                      *)

AgentInv ==
  /\ phase # "seeded" => answer = {} /\ done = {} /\ running = {}
  /\ answer \subseteq vertices
  /\ \A f \in answer : \A g \in Callees(f) : g \in done \/ Exempt(f, g)
  /\ \A f \in running \cup (done \cap defined) : \A g \in Callees(f) :
       g \in done \/ Reaches(g, f)

\* The agent's steps leave the computed order alone and forget nothing that is
\* done; what they start comes from the answer.
AgentStep ==
  /\ phase = "seeded" \/ running # {}
  /\ UNCHANGED <<vertices, defined, calls, scc, phase>>
  /\ done \subseteq done'
  /\ answer' \in {answer, ReadyFunctions(done, running)}
  /\ done' \cap defined \subseteq running \cup (done \cap defined)
  /\ running' \subseteq running \cup answer

\* A step computes the order or is one of the agent.
LEMMA AgentCases ==
  ASSUME SchedulerNext
  PROVE  ComputeOrder \/ AgentStep
<1>1. ASSUME NEW f \in Functions, Start(f) \/ Merge(f) \/ Fail(f) PROVE AgentStep
  BY <1>1 DEF Start, Merge, Fail, AgentStep, topoVars, callgraph
<1>2. ASSUME GetReady PROVE AgentStep
  BY <1>2 DEF GetReady, AgentStep, topoVars, callgraph
<1> QED BY <1>1, <1>2 DEF SchedulerNext

\* A callee that is not waited for calls back.
LEMMA ExemptCallsBack ==
  ASSUME GraphInv, phase = "seeded", NEW f \in vertices, NEW g \in Callees(f),
         Exempt(f, g)
  PROVE  Reaches(g, f)
  BY ComponentClass DEF GraphInv, Exempt, Callees

\* Nothing has been answered at first.
LEMMA AgentInit == ASSUME SchedulerInit PROVE AgentInv
  BY DEF SchedulerInit, TopoInit, AgentInv

\* What holds of the agent's functions does not get old.
LEMMA AgentKept == ASSUME GraphInv, AgentInv, [SchedulerNext]_schedulerVars PROVE AgentInv'
<1>1. /\ UNCHANGED <<vertices, defined, calls>>
      /\ \A f : Callees(f)' = Callees(f)
      /\ \A f, g : Reaches(f, g)' <=> Reaches(f, g)
  BY GraphStands, SameGraph
<1>2. CASE ComputeOrder
  <2>1. phase # "seeded" /\ UNCHANGED <<answer, running>>
    BY <1>2, FlattenFacts
    DEF ComputeOrder, TopoNext, Condense, Count, Round, Levelled
  <2>2. answer = {} /\ running = {} /\ done = {}
    BY <2>1 DEF AgentInv
  <2>3. phase' # "seeded" => done' = {}
    BY <1>2, <2>2 DEF ComputeOrder
  <2>4. done' \cap defined = {}
    BY <1>2, <2>2 DEF ComputeOrder
  <2> QED BY <1>1, <2>1, <2>2, <2>3, <2>4 DEF AgentInv
<1>3. CASE AgentStep
  <2>1. phase = "seeded" /\ phase' = "seeded"
    BY <1>3 DEF AgentStep, AgentInv
  <2>2. \A f, g : Exempt(f, g)' <=> Exempt(f, g)
    BY <1>1, <1>3 DEF AgentStep, Exempt, IsCycle
  <2>3. answer' \subseteq vertices /\ \A f \in answer' : \A g \in Callees(f) :
          g \in done \/ Exempt(f, g)
    BY <1>3 DEF AgentStep, AgentInv, ReadyFunctions
  <2>4. \A f \in running \cup answer \cup (done \cap defined) : \A g \in Callees(f) :
          g \in done \/ Reaches(g, f)
    BY <2>1, ExemptCallsBack DEF AgentInv
  <2> QED BY <1>1, <1>3, <2>1, <2>2, <2>3, <2>4 DEF AgentInv, AgentStep
<1>4. CASE UNCHANGED schedulerVars
  <2>1. UNCHANGED <<phase, scc, answer, done, running>>
    BY <1>4 DEF schedulerVars, topoVars, agent
  <2>2. \A f, g : Exempt(f, g)' <=> Exempt(f, g)
    BY <1>1, <2>1 DEF Exempt, IsCycle
  <2> QED BY <1>1, <2>1, <2>2 DEF AgentInv
<1> QED BY <1>2, <1>3, <1>4, AgentCases

\* The invariant gives the property of late answers.
LEMMA AgentImplies ==
  ASSUME GraphInv, AgentInv
  PROVE  OldAnswersHold
  BY DEF AgentInv, OldAnswersHold, ReadyFunctions

\* Whatever has been started, merged or given up since, what the last answer
\* lists can still be started; and nothing with a body is started before all it
\* calls is merged, but for what calls it back.
THEOREM AnswersDoNotAge == SchedulerSpec => []OldAnswersHold
<1>1. SchedulerInit => GraphInv /\ AgentInv
  BY GraphInit, AgentInit
<1>2. GraphInv /\ AgentInv /\ [SchedulerNext]_schedulerVars => GraphInv' /\ AgentInv'
  BY GraphStep, AgentKept
<1>3. GraphInv /\ AgentInv => OldAnswersHold
  BY AgentImplies
<1> QED BY <1>1, <1>2, <1>3, PTL DEF SchedulerSpec

\* The agent means to verify every function with a body.
WorkInv == phase = "seeded" => defined \subseteq worklist /\ worklist \subseteq vertices

\* The lowest of the functions left to do is ready, unless it waits for a
\* function the agent does not mean to verify.
LEMMA BottomIsReady ==
  ASSUME GraphInv, WorkInv
  PROVE  StuckOnlyOnLibrary
<1> SUFFICES ASSUME phase = "seeded", running = {}, ~(worklist \subseteq done)
             PROVE  \/ ReadyFunctions(done, running) \cap worklist # {}
                    \/ \E f \in worklist \ done, g \in vertices \ defined :
                         g \in Callees(f) \ (done \cup worklist)
  BY DEF StuckOnlyOnLibrary
<1> defined \subseteq worklist /\ worklist \subseteq vertices
  BY DEF WorkInv
<1>1. worklist \ done \in SUBSET vertices /\ worklist \ done # {}
  OBVIOUS
<1>2. PICK f \in worklist \ done :
        \A g \in worklist \ done : Reaches(f, g) => Reaches(g, f)
  BY <1>1, BottomOf DEF GraphInv
<1>3. CASE f \in ReadyFunctions(done, running)
  BY <1>3
<1>4. CASE f \notin ReadyFunctions(done, running)
  <2>1. PICK g \in Callees(f) : g \notin done /\ ~Exempt(f, g)
    BY <1>4 DEF ReadyFunctions
  <2>2. g \in vertices
    BY DEF Callees
  <2>3. CASE g \in worklist
    <3>1. Reaches(f, g) /\ Reaches(g, f)
      BY <1>2, <2>1, <2>3, ReachesCallee
    <3>2. g \in Component(f) /\ IsCycle(Component(f))
      BY <2>2, <3>1, ComponentClass, CycleMeansCalledBack DEF GraphInv
    <3> QED BY <2>1, <3>2 DEF Exempt, GraphInv
  <2>4. CASE g \notin worklist
    BY <2>1, <2>2, <2>4
  <2> QED BY <2>3, <2>4
<1> QED BY <1>3, <1>4

-----------------------------------------------------------------------------
(* The loop.  KahnInv: a group is in the frontier or has been there exactly *)
(* when all the groups it calls have been there; a group with a level is    *)
(* above those it calls, and just above one of them unless it is on level   *)
(* 0; and the same will hold of the groups in the frontier.                 *)

Above(G) ==
  /\ \A H \in CalledGroups(G) : level[H] < level[G]
  /\ level[G] > 0 => \E H \in CalledGroups(G) : level[H] = level[G] - 1

LoopInv ==
  /\ DegreeCountsOpenCallees
  /\ level \in [Components -> Nat] /\ current \in Nat
  /\ taken \subseteq Components /\ frontier \subseteq Components
  /\ \A G \in Components : G \in taken \cup frontier <=> CalledGroups(G) \subseteq taken
  /\ frontier \cap taken = {}
  /\ \A G \in taken : level[G] < current /\ Above(G)
  /\ \A G \in frontier : current > 0 =>
       \E H \in CalledGroups(G) : level[H] = current - 1

KahnInv ==
  /\ phase \in {"condense", "count"} => current = 0 /\ taken = {}
  /\ phase = "level" => LoopInv
  /\ phase \in {"flatten", "seeded"} =>
       taken = Components /\ \A G \in Components : level[G] \in Nat /\ Above(G)

\* The groups are components, finitely many.
LEMMA GroupsAreComponents ==
  ASSUME GraphInv, phase # "condense"
  PROVE  /\ Components = {Component(f) : f \in vertices}
         /\ IsFiniteSet(Components)
         /\ \A G \in Components : IsFiniteSet(CalledGroups(G))
<1>1. Components = {Component(f) : f \in vertices}
  BY DEF GraphInv, Components
<1>2. Components \in SUBSET (SUBSET vertices)
  BY <1>1, ComponentClass
<1>3. IsFiniteSet(Components)
  BY <1>2, FS_SUBSET, FS_Subset DEF GraphInv
<1>4. \A G \in Components : CalledGroups(G) \in SUBSET Components
  BY DEF CalledGroups
<1> QED BY <1>1, <1>3, <1>4, FS_Subset

\* A call leads to the caller's group or to one it calls.
LEMMA CalleeGroup ==
  ASSUME GraphInv, phase # "condense", NEW f \in vertices, NEW g \in Callees(f)
  PROVE  /\ Component(g) = Component(f) \/ Component(g) \in CalledGroups(Component(f))
         /\ Reaches(g, f) => Component(g) = Component(f)
<1>1. g \in vertices /\ f \in Component(f) /\ g \in Component(g)
  BY ComponentClass DEF Callees
<1>2. Component(g) \in Components
  BY <1>1, GroupsAreComponents
<1>3. Reaches(g, f) => Component(g) = Component(f)
  BY <1>1, ReachesCallee, ComponentClass
<1> QED BY <1>1, <1>2, <1>3 DEF CalledGroups

\* A group that is called is reached, and does not reach back.
LEMMA CalledIsReached ==
  ASSUME GraphInv, phase # "condense", NEW f \in vertices,
         NEW H \in CalledGroups(Component(f))
  PROVE  \E g \in H : g \in vertices /\ Reaches(f, g) /\ ~Reaches(g, f)
                        /\ H = Component(g)
<1>1. PICK x \in Component(f), g \in H : g \in Callees(x)
  BY DEF CalledGroups
<1>2. PICK h \in vertices : H = Component(h) /\ H # Component(f)
  BY GroupsAreComponents DEF CalledGroups
<1>3. x \in vertices /\ g \in vertices /\ H = Component(g)
  BY <1>1, <1>2, ComponentClass
<1>4. Reaches(f, g)
  BY <1>1, <1>3, ComponentClass, ReachesCallee, ReachesTrans
<1>5. ~Reaches(g, f)
  BY <1>2, <1>3, <1>4, ComponentClass
<1> QED BY <1>3, <1>4, <1>5

\* The loop does not end before every group has been in the frontier.
LEMMA LoopIsComplete ==
  ASSUME GraphInv, phase = "level", LoopInv, frontier = {}
  PROVE  taken = Components
<1> DEFINE T == {f \in vertices : Component(f) \notin taken}
<1>1. SUFFICES ASSUME T # {} PROVE FALSE
  <2>1. T = {} => \A G \in Components : G \in taken
    BY GroupsAreComponents
  <2>2. taken \subseteq Components
    BY DEF LoopInv
  <2> QED BY <2>1, <2>2
<1>2. PICK f \in T : \A g \in T : Reaches(f, g) => Reaches(g, f)
  BY <1>1, BottomOf DEF GraphInv
<1>3. CalledGroups(Component(f)) \subseteq taken
  BY <1>2, CalledIsReached
<1>4. Component(f) \in Components
  BY GroupsAreComponents
<1> QED BY <1>3, <1>4 DEF LoopInv

\* Counting down by the groups just taken counts what is left.
LEMMA CountOnce ==
  ASSUME NEW S, IsFiniteSet(S), NEW X, NEW Y, X \cap Y = {}
  PROVE  /\ Cardinality(S \ X) - Cardinality(S \cap Y) = Cardinality(S \ (X \cup Y))
         /\ Cardinality(S \ X) > 0 <=> ~(S \subseteq X)
<1>1. IsFiniteSet(S \ X) /\ Cardinality(S \ X) \in Nat
  BY FS_Difference, FS_CardinalityType
<1>2. Cardinality((S \ X) \ Y) = Cardinality(S \ X) - Cardinality((S \ X) \cap Y)
  BY <1>1, FS_Difference
<1>3. (S \ X) \ Y = S \ (X \cup Y) /\ (S \ X) \cap Y = S \cap Y
  OBVIOUS
<1>4. Cardinality(S \ X) = 0 <=> S \ X = {}
  BY <1>1, FS_EmptySet
<1> QED BY <1>1, <1>2, <1>3, <1>4

\* The groups stand while the graph stands.
LEMMA SameGroups ==
  ASSUME UNCHANGED <<vertices, defined, calls, scc>>
  PROVE  /\ Components' = Components
         /\ \A G : CalledGroups(G)' = CalledGroups(G)
         /\ UNCHANGED level => \A G : Above(G)' <=> Above(G)
<1>1. Components' = Components
  BY DEF Components
<1>2. \A f : Callees(f)' = Callees(f)
  BY SameGraph
<1>3. \A G : CalledGroups(G)' = CalledGroups(G)
  BY <1>1, <1>2 DEF CalledGroups
<1>4. UNCHANGED level => \A G : Above(G)' <=> Above(G)
  BY <1>3 DEF Above
<1> QED BY <1>1, <1>3, <1>4

\* The counts are right at the start, and the frontier is what calls no group.
LEMMA CountStarts ==
  ASSUME GraphInv, KahnInv, Count
  PROVE  LoopInv'
<1>1. /\ Components' = Components
      /\ \A G : CalledGroups(G)' = CalledGroups(G)
  BY SameGroups DEF Count, callgraph
<1>2. phase = "count" /\ current' = 0 /\ taken' = {}
  BY DEF Count, KahnInv
<1>3. degree' = [G \in Components |-> Cardinality(CalledGroups(G))]
  BY DEF Count
<1>4. DegreeCountsOpenCallees'
  <2>1. \A G : CalledGroups(G) \ taken' = CalledGroups(G)
    BY <1>2
  <2> QED BY <1>1, <1>3, <2>1 DEF DegreeCountsOpenCallees
<1>5. level' = [G \in Components |-> 0] /\ frontier' = {G \in Components : CalledGroups(G) = {}}
  BY DEF Count
<1> QED BY <1>1, <1>2, <1>4, <1>5 DEF LoopInv

\* What a round leaves: the groups that have been in the frontier, and the
\* count of the others.
LEMMA RoundCounts ==
  ASSUME GraphInv, phase = "level", LoopInv, Round
  PROVE  /\ taken' = taken \cup frontier
         /\ DegreeCountsOpenCallees'
         /\ frontier' = {G \in Components : /\ ~(CalledGroups(G) \subseteq taken)
                                            /\ CalledGroups(G) \subseteq taken'}
<1>1. /\ Components' = Components
      /\ \A G : CalledGroups(G)' = CalledGroups(G)
  BY SameGroups DEF Round, callgraph
<1>2. taken' = taken \cup frontier
  BY DEF Round
<1>3. \A G \in Components :
        /\ IsFiniteSet(CalledGroups(G))
        /\ degree[G] = Cardinality(CalledGroups(G) \ taken)
  BY GroupsAreComponents DEF LoopInv, DegreeCountsOpenCallees
<1>4. \A G \in Components :
        degree'[G] = degree[G] - Cardinality(CalledGroups(G) \cap frontier)
  BY DEF Round
<1>5. ASSUME NEW G \in Components
      PROVE  /\ degree'[G] = Cardinality(CalledGroups(G) \ taken')
             /\ degree[G] > 0 <=> ~(CalledGroups(G) \subseteq taken)
             /\ degree'[G] = 0 <=> CalledGroups(G) \subseteq taken'
  <2>1. taken \cap frontier = {}
    BY DEF LoopInv
  <2>2. /\ Cardinality(CalledGroups(G) \ taken) - Cardinality(CalledGroups(G) \cap frontier)
             = Cardinality(CalledGroups(G) \ (taken \cup frontier))
        /\ Cardinality(CalledGroups(G) \ taken) > 0 <=> ~(CalledGroups(G) \subseteq taken)
    BY <1>3, <2>1, CountOnce
  <2>3. degree'[G] = Cardinality(CalledGroups(G) \ taken')
    BY <1>2, <1>3, <1>4, <2>2
  <2>4. Cardinality(CalledGroups(G) \ taken') = 0 <=> CalledGroups(G) \ taken' = {}
    BY <1>3, FS_Difference, FS_EmptySet
  <2> QED BY <1>3, <2>2, <2>3, <2>4
<1>6. degree' = [G \in Components |-> Cardinality(CalledGroups(G) \ taken')]
  <2>1. degree' = [G \in Components |-> degree'[G]]
    BY DEF Round
  <2> QED BY <1>5, <2>1
<1>7. frontier' = {G \in Components : degree[G] > 0 /\ degree'[G] = 0}
  BY DEF Round, Released
<1> QED BY <1>1, <1>2, <1>5, <1>6, <1>7 DEF DegreeCountsOpenCallees

\* A round keeps the counts right and makes the next frontier.
LEMMA RoundKeeps ==
  ASSUME GraphInv, phase = "level", LoopInv, Round
  PROVE  LoopInv'
<1>1. /\ Components' = Components
      /\ \A G : CalledGroups(G)' = CalledGroups(G)
  BY SameGroups DEF Round, callgraph
<1>2. /\ taken' = taken \cup frontier
      /\ DegreeCountsOpenCallees'
      /\ frontier' = {G \in Components : /\ ~(CalledGroups(G) \subseteq taken)
                                         /\ CalledGroups(G) \subseteq taken'}
  BY RoundCounts
<1>3. /\ current \in Nat /\ current' = current + 1
      /\ level \in [Components -> Nat]
      /\ level' = [G \in Components |-> IF G \in frontier THEN current ELSE level[G]]
  BY DEF Round, LoopInv
<1>4. level' \in [Components -> Nat] /\ current' \in Nat
  BY <1>3
<1>5. /\ \A G \in Components : G \in taken \cup frontier <=> CalledGroups(G) \subseteq taken
      /\ taken \cup frontier \subseteq Components /\ frontier \cap taken = {}
  BY DEF LoopInv
<1>6. /\ \A G \in taken : level'[G] = level[G] /\ level[G] < current
      /\ \A G \in frontier : level'[G] = current
  BY <1>3, <1>5 DEF LoopInv
<1>7. /\ \A G \in Components : G \in taken' \cup frontier' <=> CalledGroups(G) \subseteq taken'
      /\ taken' \subseteq Components /\ frontier' \subseteq Components
      /\ frontier' \cap taken' = {}
  BY <1>2, <1>5
<1>8. ASSUME NEW G \in taken' PROVE level'[G] < current' /\ Above(G)'
  <2>1. /\ \A H \in CalledGroups(G) : H \in taken /\ level'[H] = level[H] /\ level[H] < current
        /\ level[G] \in Nat
    BY <1>2, <1>3, <1>5, <1>6
  <2>2. CASE G \in taken
    <3>1. level'[G] = level[G] /\ level[G] < current /\ Above(G)
      BY <1>6, <2>2 DEF LoopInv
    <3>2. \A H \in CalledGroups(G) : level'[H] < level'[G]
      BY <2>1, <3>1 DEF Above
    <3>3. level'[G] > 0 => \E H \in CalledGroups(G) : level'[H] = level'[G] - 1
      BY <2>1, <3>1 DEF Above
    <3>4. level'[G] < current'
      BY <1>3, <2>1, <3>1
    <3> QED BY <1>1, <3>2, <3>3, <3>4 DEF Above
  <2>3. CASE G \in frontier
    <3>1. level'[G] = current /\ (current > 0 =>
            \E H \in CalledGroups(G) : level[H] = current - 1)
      BY <1>6, <2>3 DEF LoopInv
    <3>2. \A H \in CalledGroups(G) : level'[H] < level'[G]
      BY <2>1, <3>1
    <3>3. level'[G] > 0 => \E H \in CalledGroups(G) : level'[H] = level'[G] - 1
      BY <2>1, <3>1
    <3> QED BY <1>1, <1>3, <3>1, <3>2, <3>3 DEF Above
  <2> QED BY <1>2, <2>2, <2>3
<1>9. ASSUME NEW G \in frontier'
      PROVE  \E H \in CalledGroups(G)' : level'[H] = current' - 1
  <2>1. PICK H \in CalledGroups(G) : H \in frontier
    BY <1>2
  <2> QED BY <1>1, <1>3, <1>6, <2>1
<1> QED BY <1>1, <1>2, <1>4, <1>7, <1>8, <1>9 DEF LoopInv

\* No order has been computed at first.
LEMMA KahnInit == ASSUME SchedulerInit PROVE KahnInv
  BY DEF SchedulerInit, TopoInit, KahnInv

\* Every step keeps the loop invariant.
LEMMA KahnStep == ASSUME GraphInv, KahnInv, [SchedulerNext]_schedulerVars PROVE KahnInv'
<1>1. CASE Condense
  <2>1. current' = 0 /\ taken' = {} /\ phase' \in {"flatten", "count"}
    BY <1>1 DEF Condense, kahn, KahnInv
  <2>2. phase' = "flatten" => Components' = {}
    BY <1>1 DEF Condense, Components
  <2> QED BY <2>1, <2>2 DEF KahnInv
<1>2. CASE Count
  BY <1>2, CountStarts DEF KahnInv, Count
<1>3. CASE Round
  BY <1>3, RoundKeeps DEF KahnInv, Round
<1>4. CASE Levelled
  <2>1. phase = "level" /\ phase' = "flatten" /\ frontier = {} /\ LoopInv
    BY <1>4 DEF Levelled, KahnInv
  <2>2. UNCHANGED <<vertices, defined, calls, scc, level, taken>>
    BY <1>4 DEF Levelled, callgraph, kahn
  <2>3. taken = Components
    BY <2>1, LoopIsComplete
  <2>4. \A G \in Components : level[G] \in Nat /\ Above(G)
    BY <2>1, <2>3 DEF LoopInv
  <2> QED BY <2>1, <2>2, <2>3, <2>4, SameGroups DEF KahnInv
<1>5. CASE Flatten
  <2>1. phase = "flatten" /\ phase' = "seeded"
        /\ UNCHANGED <<vertices, defined, calls, scc, level, taken>>
    BY <1>5, FlattenFacts
  <2>2. taken = Components /\ \A G \in Components : level[G] \in Nat /\ Above(G)
    BY <2>1 DEF KahnInv
  <2> QED BY <2>1, <2>2, SameGroups DEF KahnInv
<1>6. CASE UNCHANGED topoVars
  <2>1. UNCHANGED <<vertices, defined, calls, scc, phase, degree, level, frontier,
                    current, taken>>
    BY <1>6 DEF topoVars, callgraph, kahn
  <2>2. /\ Components' = Components
        /\ \A G : CalledGroups(G)' = CalledGroups(G)
        /\ \A G : Above(G)' <=> Above(G)
    BY <2>1, SameGroups
  <2>3. LoopInv => LoopInv'
    BY <2>1, <2>2 DEF LoopInv, DegreeCountsOpenCallees
  <2> QED BY <2>1, <2>2, <2>3 DEF KahnInv
<1> QED
  BY <1>1, <1>2, <1>3, <1>4, <1>5, <1>6
  DEF SchedulerNext, ComputeOrder, TopoNext, GetReady, Start, Merge, Fail, schedulerVars

\* The loop that gives levels counts, for every group not yet in the frontier,
\* exactly the groups it calls that have not been in one.
THEOREM LoopCorrect == SchedulerSpec => [](GraphInv /\ KahnInv)
<1>1. SchedulerInit => GraphInv /\ KahnInv
  BY GraphInit, KahnInit
<1>2. GraphInv /\ KahnInv /\ [SchedulerNext]_schedulerVars => GraphInv' /\ KahnInv'
  BY GraphStep, KahnStep
<1> QED BY <1>1, <1>2, PTL DEF SchedulerSpec

\* compute_topological_order leaves no group without its round and puts every
\* group exactly one level above the highest it calls; its counts are right
\* throughout.
THEOREM LevelsCorrect == SchedulerSpec => []LevelsAreTight
<1>1. GraphInv /\ KahnInv => LevelsAreTight
  BY DEF KahnInv, LoopInv, LevelsAreTight, DegreeCountsOpenCallees, Above
<1> QED BY <1>1, LoopCorrect, PTL

\* The level of a function, and what the order relies on: a function is on a
\* lower level than all that reach it, unless they call each other.
LevelsFollowCalls ==
  phase \in {"flatten", "seeded"} =>
    \A f, g \in vertices :
      Reaches(f, g) /\ ~Reaches(g, f) => level[scc[g]] < level[scc[f]]

\* The level of a group is above those of all it reaches.
LEMMA LevelsFollow == ASSUME GraphInv, KahnInv PROVE LevelsFollowCalls
<1> SUFFICES ASSUME phase \in {"flatten", "seeded"}, NEW f \in vertices, NEW g \in vertices,
                    Reaches(f, g), ~Reaches(g, f)
             PROVE  level[scc[g]] < level[scc[f]]
  BY DEF LevelsFollowCalls
<1> DEFINE S == {x \in vertices : Component(x) = Component(f)
                                     \/ level[Component(x)] < level[Component(f)]}
<1>1. phase # "condense" /\ \A G \in Components : level[G] \in Nat /\ Above(G)
  BY DEF KahnInv
<1>2. S \in SUBSET vertices /\ f \in S
  OBVIOUS
<1>3. ASSUME NEW x \in S, NEW y \in Callees(x) PROVE y \in S
  <2>1. y \in vertices /\ Component(x) \in Components /\ Component(f) \in Components
    BY <1>1, GroupsAreComponents DEF Callees
  <2>2. Component(y) = Component(x) \/ level[Component(y)] < level[Component(x)]
    BY <1>1, <2>1, CalleeGroup DEF Above
  <2>3. Component(y) \in Components
    BY <1>1, <2>1, GroupsAreComponents
  <2>4. level[Component(x)] \in Nat /\ level[Component(y)] \in Nat /\ level[Component(f)] \in Nat
    BY <1>1, <2>1, <2>3
  <2>5. Component(x) = Component(f) \/ level[Component(x)] < level[Component(f)]
    OBVIOUS
  <2>6. Component(y) = Component(f) \/ level[Component(y)] < level[Component(f)]
    BY <2>2, <2>4, <2>5
  <2> QED BY <2>1, <2>6
<1>4. g \in S
  BY <1>2, <1>3 DEF Reaches
<1>5. Component(g) # Component(f)
  BY ComponentClass
<1> QED BY <1>1, <1>4, <1>5 DEF GraphInv

\* By levels, callees come first; so any order of the groups by level, which is
\* what the seeding flattens, is bottom-up.
THEOREM LevelsRankCalls == SchedulerSpec => []LevelsFollowCalls
<1>1. GraphInv /\ KahnInv => LevelsFollowCalls
  BY LevelsFollow
<1> QED BY <1>1, LoopCorrect, PTL

\* The mark of a group: IsCycle looks at the size of the group and at direct
\* recursion, and tells for every member whether it can come to call itself.
CyclesAreMarked ==
  phase # "condense" =>
    \A f \in vertices : IsCycle(scc[f]) <=> \E g \in Callees(f) : Reaches(g, f)

\* A group is marked as a cycle exactly when its members can come to call
\* themselves.
THEOREM MarksCorrect == SchedulerSpec => []CyclesAreMarked
<1>1. GraphInv => CyclesAreMarked
  BY CycleMeansCalledBack DEF GraphInv, CyclesAreMarked
<1> QED BY <1>1, GraphCorrect, PTL

-----------------------------------------------------------------------------
(* The seeded order.                                                       *)

\* A numbering names every group once, the lower levels first.
LEMMA NumberingFacts ==
  ASSUME GraphInv, phase # "condense", NEW s \in Numberings
  PROVE  /\ Len(s) = Cardinality(Components) /\ Len(s) \in Nat
         /\ s \in [1 .. Len(s) -> Components]
         /\ \A G \in Components : \E i \in 1 .. Len(s) : s[i] = G
         /\ \A i, j \in 1 .. Len(s) : i # j => s[i] # s[j]
         /\ \A i, j \in 1 .. Len(s) : i < j => level[s[i]] <= level[s[j]]
<1>1. IsFiniteSet(Components) /\ Cardinality(Components) \in Nat
  BY GroupsAreComponents, FS_CardinalityType
<1>2. /\ s \in [1 .. Cardinality(Components) -> Components]
      /\ \A i, j \in 1 .. Cardinality(Components) : i # j => s[i] # s[j]
      /\ \A i, j \in DOMAIN s : i < j => level[s[i]] <= level[s[j]]
  BY DEF Numberings, SetToSeqs
<1>3. \A G \in Components : \E i \in 1 .. Cardinality(Components) : s[i] = G
  BY <1>1, <1>2, AllListed
<1>4. s \in Seq(Components) /\ Len(s) = Cardinality(Components)
  BY <1>1, <1>2, SeqDef, LenProperties
<1> QED BY <1>1, <1>2, <1>3, <1>4

\* The members of a group are listed without repetition.
LEMMA MembersFacts ==
  ASSUME GraphInv, NEW G
  PROVE  /\ Members(G) \in Seq(Nat) /\ ToSet(Members(G)) = G \cap defined
         /\ IsInjective(Members(G))
<1> DEFINE S == G \cap defined
           n == Cardinality(S)
           s == Sorted(S)
<1>1. S \in SUBSET Nat /\ IsFiniteSet(S)
  BY TopoAssumption, FS_Subset DEF GraphInv
<1>2. n \in Nat
  BY <1>1, FS_CardinalityType
<1>3. IsSortOf(s, S)
  BY <1>1, SortedFacts
<1> HIDE DEF s, n
<1>4. /\ s \in [1 .. n -> S] /\ \A x \in S : \E i \in 1 .. n : s[i] = x
      /\ \A i, j \in 1 .. n : i < j => s[i] < s[j]
  BY <1>3 DEF IsSortOf, n
<1>5. s \in Seq(Nat)
  <2>1. s \in Seq(S)
    BY <1>2, <1>4, SeqDef
  <2> QED BY <1>1, <2>1
<1>6. ToSet(s) = S
  BY <1>4 DEF ToSet
<1>7. IsInjective(s)
  <2>1. ASSUME NEW i \in 1 .. n, NEW j \in 1 .. n, s[i] = s[j] PROVE i = j
    <3>1. s[i] \in Nat /\ i \in Nat /\ j \in Nat
      BY <1>1, <1>4
    <3> QED BY <1>4, <2>1, <3>1
  <2> QED BY <1>4, <2>1 DEF IsInjective
<1>8. Members(G) = s
  BY DEF Members, s
<1> QED BY <1>5, <1>6, <1>7, <1>8

Parts(s) == [i \in DOMAIN s |-> Members(s[i])]

\* The groups share no function, so neither do their lists of members.
LEMMA PartsFacts ==
  ASSUME GraphInv, phase # "condense", NEW s \in Numberings
  PROVE  /\ Parts(s) \in Seq(Seq(Nat)) /\ Len(Parts(s)) = Len(s) /\ Apart(Parts(s))
         /\ \A i \in 1 .. Len(s) : Parts(s)[i] = Members(s[i]) /\ ToSet(Parts(s)[i]) = s[i] \cap defined
<1> DEFINE ss == Parts(s)
<1>1. /\ Len(s) \in Nat /\ s \in [1 .. Len(s) -> Components]
      /\ \A i, j \in 1 .. Len(s) : i # j => s[i] # s[j]
  BY NumberingFacts
<1>2. ss = [i \in 1 .. Len(s) |-> Members(s[i])]
  BY <1>1 DEF Parts
<1>3. \A i \in 1 .. Len(s) : /\ ss[i] = Members(s[i]) /\ ss[i] \in Seq(Nat)
                             /\ ToSet(ss[i]) = s[i] \cap defined /\ IsInjective(ss[i])
  BY <1>2, MembersFacts
<1> HIDE DEF ss
<1>4. ss \in Seq(Seq(Nat)) /\ Len(ss) = Len(s)
  <2>1. ss \in [1 .. Len(s) -> Seq(Nat)]
    BY <1>2, <1>3
  <2> QED BY <1>1, <2>1, SeqDef, LenProperties
<1>5. ASSUME NEW i \in 1 .. Len(s), NEW j \in 1 .. Len(s), i # j PROVE ToSet(ss[i]) \cap ToSet(ss[j]) = {}
  <2>1. s[i] # s[j] /\ s[i] \in Components /\ s[j] \in Components
    BY <1>1, <1>5
  <2>2. s[i] \cap s[j] = {}
    BY <2>1, GroupsAreComponents, ComponentClass
  <2> QED BY <1>3, <2>2
<1>6. Apart(ss)
  BY <1>3, <1>4, <1>5 DEF Apart
<1> QED BY <1>3, <1>4, <1>6 DEF ss

\* What the flattening of a numbering lists, and in which order.
LEMMA OrderFacts ==
  ASSUME GraphInv, KahnInv, phase = "flatten", NEW s \in Numberings, NEW t, t = FlattenSeq(Parts(s))
  PROVE  /\ t \in Seq(Nat) /\ ToSet(t) = defined /\ IsInjective(t)
         /\ \A p, q \in 1 .. Len(t) : Reaches(t[p], t[q]) /\ ~Reaches(t[q], t[p]) => q < p
<1> DEFINE ss == Parts(s)
<1>1. /\ ss \in Seq(Seq(Nat)) /\ Len(ss) = Len(s) /\ Apart(ss)
      /\ \A i \in 1 .. Len(s) : ToSet(ss[i]) = s[i] \cap defined
  BY PartsFacts
<1> HIDE DEF ss
<1>2. t \in Seq(Nat) /\ Lists(t, ss, Len(s))
  BY <1>1, FlattenLists DEF ss
<1>3. /\ Len(s) \in Nat /\ s \in [1 .. Len(s) -> Components]
      /\ \A G \in Components : \E i \in 1 .. Len(s) : s[i] = G
      /\ \A i, j \in 1 .. Len(s) : i < j => level[s[i]] <= level[s[j]]
  BY NumberingFacts
<1>4. Len(t) \in Nat /\ DOMAIN t = 1 .. Len(t)
  BY <1>2
<1>5. /\ \A p \in 1 .. Len(t) : \E i \in 1 .. Len(s) : t[p] \in ToSet(ss[i])
      /\ \A i \in 1 .. Len(s) : \A x \in ToSet(ss[i]) : \E p \in 1 .. Len(t) : t[p] = x
      /\ \A p, q \in 1 .. Len(t) : p < q => t[p] # t[q]
      /\ \A p, q \in 1 .. Len(t) : p < q =>
           \A i, j \in 1 .. Len(s) : t[p] \in ToSet(ss[i]) /\ t[q] \in ToSet(ss[j]) => i <= j
  BY <1>2 DEF Lists
<1>6. ASSUME NEW x \in defined
      PROVE  x \in vertices /\ \E i \in 1 .. Len(s) : x \in ToSet(ss[i]) /\ s[i] = Component(x)
  <2>1. x \in vertices /\ x \in Component(x) /\ Component(x) \in Components
    BY GroupsAreComponents, ComponentClass DEF GraphInv
  <2>2. PICK i \in 1 .. Len(s) : s[i] = Component(x)
    BY <1>3, <2>1
  <2> QED BY <1>1, <2>1, <2>2
<1>7. ToSet(t) = defined
  <2>1. \A p \in 1 .. Len(t) : t[p] \in defined
    BY <1>1, <1>5
  <2>2. \A x \in defined : \E p \in 1 .. Len(t) : t[p] = x
    BY <1>5, <1>6
  <2> QED BY <1>4, <2>1, <2>2 DEF ToSet
<1>8. IsInjective(t)
  BY <1>4, <1>5 DEF IsInjective
<1>9. ASSUME NEW p \in 1 .. Len(t), NEW q \in 1 .. Len(t), Reaches(t[p], t[q]), ~Reaches(t[q], t[p])
      PROVE  q < p
  <2>1. t[p] \in defined /\ t[q] \in defined
    BY <1>4, <1>7 DEF ToSet
  <2>2. PICK i \in 1 .. Len(s) : t[p] \in ToSet(ss[i]) /\ s[i] = Component(t[p])
    BY <1>6, <2>1
  <2>3. PICK j \in 1 .. Len(s) : t[q] \in ToSet(ss[j]) /\ s[j] = Component(t[q])
    BY <1>6, <2>1
  <2>4. level[s[j]] < level[s[i]]
    <3>1. t[p] \in vertices /\ t[q] \in vertices
      BY <1>6, <2>1
    <3>2. scc[t[p]] = Component(t[p]) /\ scc[t[q]] = Component(t[q])
      BY <3>1 DEF GraphInv
    <3>3. level[scc[t[q]]] < level[scc[t[p]]]
      BY <1>9, <3>1, LevelsFollow DEF LevelsFollowCalls
    <3> QED BY <2>2, <2>3, <3>2, <3>3
  <2>5. level[s[i]] \in Nat /\ level[s[j]] \in Nat
    BY <1>3 DEF KahnInv
  <2>6. ~(i <= j)
    <3>1. i = j => level[s[i]] = level[s[j]]
      OBVIOUS
    <3>2. i < j => level[s[i]] <= level[s[j]]
      BY <1>3
    <3> QED BY <2>4, <2>5, <3>1, <3>2
  <2>7. ~(p < q)
    BY <1>5, <2>2, <2>3, <2>6
  <2>8. p # q
    BY <1>9
  <2> QED BY <2>7, <2>8
<1> QED BY <1>2, <1>7, <1>8, <1>9

\* The groups that are seeded.
Seeded(s) ==
  LET kept == Sorted({i \in DOMAIN s : Parts(s)[i] # <<>>})
  IN [k \in DOMAIN kept |->
        [id |-> kept[k] - 1, members |-> Parts(s)[kept[k]],
         level |-> level[s[kept[k]]], is_cycle |-> IsCycle(s[kept[k]])]]

\* The groups that keep a member cut the flattened order, and their members and
\* marks are those of the cycles of the graph.
LEMMA SeededFacts ==
  ASSUME GraphInv, phase # "condense", NEW s \in Numberings, NEW gs, gs = Seeded(s)
  PROVE  /\ FlattenSeq([i \in DOMAIN gs |-> gs[i].members]) = FlattenSeq(Parts(s))
         /\ \A k \in DOMAIN gs : \A f \in ToSet(gs[k].members) :
              /\ ToSet(gs[k].members) = {g \in defined : g = f \/ (Reaches(f, g) /\ Reaches(g, f))}
              /\ gs[k].is_cycle <=> \E g \in Callees(f) : Reaches(g, f)
<1> DEFINE ss == Parts(s)
           K == {i \in DOMAIN s : ss[i] # <<>>}
           kept == Sorted(K)
<1>1. /\ ss \in Seq(Seq(Nat)) /\ Len(ss) = Len(s)
      /\ \A i \in 1 .. Len(s) : ToSet(ss[i]) = s[i] \cap defined
  BY PartsFacts
<1>2. Len(s) \in Nat /\ s \in [1 .. Len(s) -> Components] /\ DOMAIN s = 1 .. Len(s)
  BY NumberingFacts
<1>3. K \in SUBSET Nat /\ IsFiniteSet(K)
  <2>1. K \subseteq 1 .. Len(s) /\ IsFiniteSet(1 .. Len(s))
    BY <1>2, FS_Interval
  <2> QED BY <2>1, FS_Subset
<1>4. IsSortOf(kept, K)
  <2> HIDE DEF K
  <2> QED BY <1>3, SortedFacts
<1>5. DOMAIN kept = 1 .. Cardinality(K) /\ \A k \in DOMAIN kept : kept[k] \in 1 .. Len(s)
  BY <1>2, <1>4 DEF IsSortOf
<1>6. gs = [k \in DOMAIN kept |->
              [id |-> kept[k] - 1, members |-> ss[kept[k]],
               level |-> level[s[kept[k]]], is_cycle |-> IsCycle(s[kept[k]])]]
  BY DEF Seeded
<1>7. K = {i \in 1 .. Len(ss) : ss[i] # <<>>}
  BY <1>1, <1>2
<1> HIDE DEF ss, K, kept
<1>8. FlattenSeq([i \in DOMAIN gs |-> gs[i].members]) = FlattenSeq(ss)
  <2>1. [i \in DOMAIN gs |-> gs[i].members] = [k \in DOMAIN kept |-> ss[kept[k]]]
    BY <1>6
  <2>2. FlattenSeq([k \in DOMAIN kept |-> ss[kept[k]]]) = FlattenSeq(ss)
    BY <1>1, <1>4, <1>7, FlattenKept
  <2> QED BY <2>1, <2>2
<1>9. ASSUME NEW k \in DOMAIN gs, NEW f \in ToSet(gs[k].members)
      PROVE  /\ ToSet(gs[k].members) = {g \in defined : g = f \/ (Reaches(f, g) /\ Reaches(g, f))}
             /\ gs[k].is_cycle <=> \E g \in Callees(f) : Reaches(g, f)
  <2> DEFINE G == s[kept[k]]
  <2>1. k \in DOMAIN kept /\ gs[k].members = ss[kept[k]] /\ gs[k].is_cycle = IsCycle(G)
    BY <1>6
  <2>2. kept[k] \in 1 .. Len(s) /\ G \in Components
    BY <1>2, <1>5, <2>1
  <2>3. ToSet(gs[k].members) = G \cap defined
    BY <1>1, <2>1, <2>2
  <2> HIDE DEF G
  <2>4. f \in defined /\ f \in vertices /\ f \in G
    BY <1>9, <2>3 DEF GraphInv
  <2>5. G = Component(f)
    BY <2>2, <2>4, GroupsAreComponents, ComponentClass
  <2>6. ToSet(gs[k].members) = {g \in defined : g = f \/ (Reaches(f, g) /\ Reaches(g, f))}
    <3>1. \A g \in defined : g \in vertices
      BY DEF GraphInv
    <3>2. \A g \in defined : g \in Component(f) <=> g = f \/ (Reaches(f, g) /\ Reaches(g, f))
      BY <2>4, <3>1, ComponentClass
    <3> QED BY <2>3, <2>5, <3>2
  <2>7. gs[k].is_cycle <=> \E g \in Callees(f) : Reaches(g, f)
    <3>1. IsCycle(Component(f)) <=> \E g \in Callees(f) : Reaches(g, f)
      BY <2>4, CycleMeansCalledBack DEF GraphInv
    <3> QED BY <2>1, <2>5, <3>1
  <2> QED BY <2>6, <2>7
<1> QED BY <1>8, <1>9 DEF ss

\* What Flatten stores.
LEMMA FlattenSeeds ==
  ASSUME Flatten
  PROVE  \E s \in Numberings : order' = FlattenSeq(Parts(s)) /\ groups' = Seeded(s)
  BY DEF Flatten, Parts, Seeded

\* The step that flattens the levels seeds a verification order.
LEMMA FlattenIsRight ==
  ASSUME GraphInv, KahnInv, Flatten
  PROVE  SeedIsAVerificationOrder'
<1>1. phase = "flatten" /\ UNCHANGED <<vertices, defined, calls>>
  BY FlattenFacts
<1>2. PICK s \in Numberings : order' = FlattenSeq(Parts(s)) /\ groups' = Seeded(s)
  BY FlattenSeeds
<1>3. /\ \A f : Callees(f)' = Callees(f)
      /\ \A f, g : Reaches(f, g)' <=> Reaches(f, g)
  BY <1>1, SameGraph
<1>4. /\ order' \in Seq(Nat) /\ ToSet(order') = defined /\ IsInjective(order')
      /\ \A p, q \in 1 .. Len(order') :
           Reaches(order'[p], order'[q]) /\ ~Reaches(order'[q], order'[p]) => q < p
  BY <1>1, <1>2, OrderFacts
<1>5. ASSUME NEW f \in defined
      PROVE  Position(f)' \in 1 .. Len(order') /\ order'[Position(f)'] = f
  <2>1. \E i \in DOMAIN order' : order'[i] = f
    BY <1>4 DEF ToSet
  <2>2. Position(f)' \in DOMAIN order' /\ order'[Position(f)'] = f
    BY <2>1 DEF Position
  <2> QED BY <1>4, <2>2
<1>6. \A f, g \in defined : Position(g)' < Position(f)' \/ ~Reaches(f, g) \/ Reaches(g, f)
  BY <1>4, <1>5
<1>7. OrderIsBottomUp'
  BY <1>1, <1>3, <1>4, <1>6 DEF OrderIsBottomUp
<1>8. GroupsAreTheCycles'
  <2>1. /\ FlattenSeq([i \in DOMAIN groups' |-> groups'[i].members]) = order'
        /\ \A k \in DOMAIN groups' : \A f \in ToSet(groups'[k].members) :
             /\ ToSet(groups'[k].members) = {g \in defined : g = f \/ (Reaches(f, g) /\ Reaches(g, f))}
             /\ groups'[k].is_cycle <=> \E g \in Callees(f) : Reaches(g, f)
    BY <1>1, <1>2, SeededFacts
  <2> QED BY <1>1, <1>3, <2>1 DEF GroupsAreTheCycles
<1> QED BY <1>7, <1>8 DEF SeedIsAVerificationOrder

\* Nothing touches the order once it is seeded.
LEMMA SeedStands ==
  ASSUME SeedIsAVerificationOrder, UNCHANGED <<vertices, defined, calls, phase, order, groups>>
  PROVE  SeedIsAVerificationOrder'
<1>1. /\ \A f : Callees(f)' = Callees(f)
      /\ \A f, g : Reaches(f, g)' <=> Reaches(f, g)
      /\ \A f : Position(f)' = Position(f)
  BY SameGraph DEF Position
<1>2. OrderIsBottomUp => OrderIsBottomUp'
  BY <1>1 DEF OrderIsBottomUp
<1>3. GroupsAreTheCycles => GroupsAreTheCycles'
  BY <1>1 DEF GroupsAreTheCycles
<1> QED BY <1>2, <1>3 DEF SeedIsAVerificationOrder

\* Only the step that flattens seeds.
LEMMA SeedStep ==
  ASSUME GraphInv, KahnInv, SeedIsAVerificationOrder, [SchedulerNext]_schedulerVars
  PROVE  SeedIsAVerificationOrder'
<1>1. CASE Flatten
  BY <1>1, FlattenIsRight
<1>2. CASE Condense \/ Count \/ Round \/ Levelled
  <2>1. phase' # "seeded"
    BY <1>2 DEF Condense, Count, Round, Levelled
  <2> QED BY <2>1 DEF SeedIsAVerificationOrder
<1>3. CASE UNCHANGED topoVars
  <2>1. UNCHANGED <<vertices, defined, calls, phase, order, groups>>
    BY <1>3 DEF topoVars, callgraph
  <2> QED BY <2>1, SeedStands
<1> QED
  BY <1>1, <1>2, <1>3
  DEF SchedulerNext, ComputeOrder, TopoNext, GetReady, Start, Merge, Fail, schedulerVars

\* What compute_topological_order seeds and answers is, for every program and
\* however the condensation numbers the groups, a complete order to verify it
\* in: every function with a body once, callees first, cut into the cycles of
\* the callgraph and single functions, with the cycles marked.
THEOREM SeedCorrect == SchedulerSpec => []SeedIsAVerificationOrder
<1>1. SchedulerInit => SeedIsAVerificationOrder
  BY DEF SchedulerInit, TopoInit, SeedIsAVerificationOrder
<1>2. GraphInv /\ KahnInv /\ SeedIsAVerificationOrder /\ [SchedulerNext]_schedulerVars
        => SeedIsAVerificationOrder'
  BY SeedStep
<1> QED BY <1>1, <1>2, LoopCorrect, PTL DEF SchedulerSpec

\* The functions of the order are those with a body, so an agent that works them
\* off works on every function with a body.
LEMMA WorkStep ==
  ASSUME GraphInv, KahnInv, WorkInv, [SchedulerNext]_schedulerVars
  PROVE  WorkInv'
<1>1. UNCHANGED <<vertices, defined, calls>>
  BY GraphStands
<1>2. CASE ComputeOrder /\ Flatten
  <2>1. worklist' \in {vertices, ToSet(order')}
    BY <1>2, FlattenFacts DEF ComputeOrder
  <2>2. ToSet(order') = defined'
    BY <1>2, FlattenFacts, FlattenIsRight DEF SeedIsAVerificationOrder, OrderIsBottomUp
  <2> QED BY <1>1, <2>1, <2>2 DEF WorkInv, GraphInv
<1>3. CASE Condense \/ Count \/ Round \/ Levelled
  <2>1. phase' # "seeded"
    BY <1>3 DEF Condense, Count, Round, Levelled
  <2> QED BY <2>1 DEF WorkInv
<1>4. CASE UNCHANGED <<phase, worklist>>
  BY <1>1, <1>4 DEF WorkInv
<1> QED
  BY <1>2, <1>3, <1>4
  DEF SchedulerNext, ComputeOrder, TopoNext, GetReady, Start, Merge, Fail, schedulerVars, topoVars, agent

\* An agent always has a function to start when nothing is under way and
\* something is left, except that a library function it neither works on nor
\* reports as done holds up its callers.
THEOREM OnlyLibraryBlocks == SchedulerSpec => []StuckOnlyOnLibrary
<1>1. SchedulerInit => WorkInv
  BY DEF SchedulerInit, TopoInit, WorkInv
<1>2. GraphInv /\ KahnInv /\ WorkInv /\ [SchedulerNext]_schedulerVars => WorkInv'
  BY WorkStep
<1>3. GraphInv /\ WorkInv => StuckOnlyOnLibrary
  BY BottomIsReady
<1> QED BY <1>1, <1>2, <1>3, LoopCorrect, PTL DEF SchedulerSpec

-----------------------------------------------------------------------------
(* The order in the project state.                                         *)

\* What a call has fetched is of a version that has been parsed.
FetchedInv ==
  \A h \in Handlers :
    /\ pc[h] = "cache" => got[h].graph <= versions
    /\ pc[h] \in {"install", "update", "found"} => got[h].defined <= versions

TypeInv == TypeOK /\ FetchedInv

\* While it is quiet no reload is half-way, and what is cached, and what calls have
\* in hand to cache it, is of the program; an order in hand is of one version.
QuietInv ==
  quiet =>
    /\ ~late /\ functions = ast /\ graph \in {0, ast}
    /\ \A h \in Handlers :
         /\ ~Replacing(h)
         /\ pc[h] = "cache" => got[h].graph = ast
         /\ pc[h] = "read" => graph = ast
         /\ pc[h] = "seed" => got[h].graph = got[h].defined
         /\ pc[h] = "found" => got[h].defined = ast

\* A reload that is alone has the functions of the program it leaves.
AloneInv ==
  alone => \A h \in Handlers : Replacing(h) =>
    /\ \A g \in Handlers : Busy(g) => g = h
    /\ pc[h] \in {"list", "update"} => ~late
    /\ pc[h] = "update" => got[h].defined = ast

WholeInv == whole /\ seeded # NoOrder => seeded.graph = seeded.defined

OrderInv == SeededOrderStands /\ WholeInv /\ QuietInv /\ AloneInv

Persisting(h) == pc[h] = "persist"

\* As long as stores take turns, the one under way persists what is in memory.
FileInv ==
  /\ \A h \in Handlers : Persisting(h) => project # None
  /\ ~lagging /\ project = None => file = {}
  /\ ~overlapped =>
       /\ \A g, h \in Handlers : Persisting(g) /\ Persisting(h) => g = h
       /\ \A h \in Handlers : Persisting(h) => project.data = clone[h]
  /\ FileFollowsMemory

-----------------------------------------------------------------------------
(* States and orders.                                                      *)

\* What the constants of the state are.
LEMMA StateFacts ==
  /\ None \notin State /\ Default \in State
  /\ NoOrder \in Order /\ AgentOrder \in Order
  /\ TypeOK => Current \in State
<1> USE ProjectAssumption
<1>1. NoOrder \in Order /\ AgentOrder \in Order
  BY DEF NoOrder, AgentOrder, Order, Versions
<1>2. None \notin State
  BY DEF None, State
<1>3. Default \in State
  BY <1>1 DEF Default, State
<1> QED BY <1>1, <1>2, <1>3 DEF TypeOK, Current

\* What a store leaves in memory: the agent's data, and the server's order and
\* groups unless the thin path gives an order.
LEMMA StoreFacts ==
  ASSUME TypeOK, stores < MaxStores, NEW o \in {NoOrder, AgentOrder}
  PROVE  /\ Full(o) \in State /\ Thin(o) \in State /\ Full(o).data # {} /\ Thin(o).data # {}
         /\ project # None => Full(o).order = project.order /\ Full(o).groups = project.groups
         /\ Thin(o).groups = Current.groups
         /\ o = NoOrder => Thin(o).order = Current.order
<1> DEFINE number == stores + 1
           data   == Current.data \cup {number}
           next   == IF o = NoOrder THEN Current.order ELSE o
<1>1. number \in 1 .. MaxStores
  BY ProjectAssumption DEF TypeOK
<1>2. o \in Order /\ Current \in State /\ (project # None => project \in State)
  BY StateFacts DEF TypeOK
<1>3. /\ Full(o) = IF project = None THEN [data |-> {number}, order |-> o, groups |-> o]
                                     ELSE [project EXCEPT !.data = {number}]
      /\ Thin(o) = [Current EXCEPT !.data = data, !.order = next]
  BY DEF Full, Thin
<1> HIDE DEF number
<1>4. Full(o) \in State /\ Full(o).data # {}
  <2>1. CASE project = None
    BY <1>1, <1>2, <1>3, <2>1 DEF State
  <2>2. CASE project # None
    BY <1>1, <1>2, <1>3, <2>2 DEF State
  <2> QED BY <2>1, <2>2
<1>5. project # None => Full(o).order = project.order /\ Full(o).groups = project.groups
  BY <1>2, <1>3 DEF State
<1>6. Thin(o) \in State /\ Thin(o).data # {} /\ Thin(o).groups = Current.groups
      /\ (o = NoOrder => Thin(o).order = Current.order)
  <2>1. data \in SUBSET (1 .. MaxStores) /\ data # {} /\ next \in Order /\ (o = NoOrder => next = Current.order)
    BY <1>1, <1>2 DEF State
  <2> HIDE DEF data, next
  <2> QED BY <1>2, <1>3, <2>1 DEF State
<1> QED BY <1>4, <1>5, <1>6

\* Both paths of store_project_state are one kind of step.
Storing(h, new) == new \in State /\ new.data # {} /\ Stores(h, new, new)

\* A store leaves a well-formed state, with the order it found unless it was
\* given one.
LEMMA StoreStep ==
  ASSUME TypeOK, NEW h \in Handlers, NEW o \in {NoOrder, AgentOrder},
         StoreFull(h, o) \/ StoreThin(h, o)
  PROVE  \E new \in State :
           /\ Storing(h, new) /\ seeded' \in {seeded, NoOrder}
           /\ seeded' # NoOrder /\ project # None =>
                new.order = project.order /\ new.groups = project.groups
<1>1. stores < MaxStores
  BY DEF StoreFull, StoreThin, Stores
<1>2. CASE StoreFull(h, o)
  BY <1>1, <1>2, StoreFacts DEF StoreFull, Storing
<1>3. CASE StoreThin(h, o)
  <2>1. Storing(h, Thin(o)) /\ seeded' = IF o = NoOrder THEN seeded ELSE NoOrder
    BY <1>1, <1>3, StoreFacts DEF StoreThin, Storing, ThinClone
  <2>2. project # None => Current = project
    BY DEF Current
  <2> QED BY <1>1, <2>1, <2>2, StoreFacts DEF StoreThin
<1> QED BY <1>2, <1>3

\* What Seed leaves in memory.
LEMMA SeedFacts ==
  ASSUME TypeOK, NEW h \in Handlers, Seed(h)
  PROVE  /\ project' \in State /\ project'.data = Current.data
         /\ project'.order = got[h] /\ project'.groups = got[h]
  BY StateFacts DEF Seed, TypeOK, State

-----------------------------------------------------------------------------
(* Types.                                                                  *)

\* The counters start within their bounds.
LEMMA Bounds == 0 \in Versions /\ 0 \in 0 .. 0 /\ 0 \in 0 .. MaxStores
  BY ProjectAssumption DEF Versions

\* The project starts typed.
LEMMA TypeInit == Init => TypeInv
<1> SUFFICES ASSUME Init PROVE TypeInv
  OBVIOUS
<1>1. \A h \in Handlers : pc[h] = "idle" /\ clone[h] = {}
  BY DEF Init
<1>2. TypeOK
  BY <1>1, StateFacts, Bounds DEF Init, TypeOK
<1> QED BY <1>1, <1>2 DEF TypeInv, FetchedInv

\* What is typed of a call, and of the versions.
Points == {"idle", "parse", "compute", "install", "list", "update", "miss", "found",
           "fetch", "cache", "read", "seed", "persist"}

\* A call fetches a version of the program.
LEMMA GotFacts ==
  ASSUME TypeInv, NEW h \in Handlers, NEW v \in Versions
  PROVE  /\ [got[h] EXCEPT !.graph = v] \in Order /\ [got[h] EXCEPT !.graph = v].graph = v
         /\ [got[h] EXCEPT !.defined = v] \in Order /\ [got[h] EXCEPT !.defined = v].defined = v
<1>1. got[h] \in Order
  BY DEF TypeInv, TypeOK
<1> QED BY <1>1 DEF Order

\* What a step may do to the program, the caches and the flags, and what a call
\* may have in hand then.
Fits ==
  /\ versions' \in Versions /\ versions <= versions'
  /\ ast' \in 0 .. versions' /\ functions' \in 0 .. versions' /\ graph' \in 0 .. versions'
  /\ installed' \in BOOLEAN /\ late' \in BOOLEAN /\ alone' \in BOOLEAN /\ quiet' \in BOOLEAN
  /\ UNCHANGED <<storing>>

Carries(p, g) ==
  /\ p \in Points \ {"persist"} /\ g \in Order
  /\ p = "cache" => g.graph <= versions'
  /\ p \in {"install", "update", "found"} => g.defined <= versions'

\* Types depend on a step only through these.
LEMMA CallTypes ==
  ASSUME TypeInv, NEW h \in Handlers, NEW p, NEW g, Carries(p, g), Fits,
         pc[h] # "persist", pc' = [pc EXCEPT ![h] = p], got' = [got EXCEPT ![h] = g]
  PROVE  TypeInv'
<1>1. versions \in Nat /\ versions' \in Nat /\ \A k \in Handlers : got[k].graph \in Nat /\ got[k].defined \in Nat
  BY ProjectAssumption DEF Fits, TypeInv, TypeOK, Versions, Order
<1>2. FetchedInv'
  BY <1>1 DEF Fits, Carries, TypeInv, TypeOK, FetchedInv
<1>3. pc' \in [Handlers -> Points] /\ got' \in [Handlers -> Order]
      /\ \A k \in Handlers : pc'[k] = "persist" <=> clone[k] # {}
  BY DEF Fits, Carries, TypeInv, TypeOK, Points
<1> QED BY <1>2, <1>3 DEF Fits, TypeInv, TypeOK, Points, storing

\* Every step keeps the types.
LEMMA TypeStep == TypeInv /\ [Next]_vars => TypeInv'
<1> SUFFICES ASSUME TypeInv, [Next]_vars PROVE TypeInv'
  OBVIOUS
<1>0. /\ versions \in Versions /\ ast \in 0 .. versions /\ functions \in 0 .. versions /\ graph \in 0 .. versions
      /\ versions \in Nat /\ installed \in BOOLEAN /\ late \in BOOLEAN /\ alone \in BOOLEAN /\ quiet \in BOOLEAN
      /\ ast \in Versions /\ 0 \in Versions /\ MaxReloads \in Nat
      /\ \A h \in Handlers : got[h] \in Order /\ got[h].defined \in Nat /\ got[h].graph \in Nat
      /\ got \in [Handlers -> Order] /\ NoOrder \in Order
      /\ (versions < MaxReloads => versions + 1 \in Versions)
  BY ProjectAssumption, StateFacts DEF TypeInv, TypeOK, Versions, Order
<1>20. \A h \in Handlers : got = [got EXCEPT ![h] = got[h]]
  BY <1>0
<1>21. /\ \A x \in 0 .. versions : x \in 0 .. (versions + 1)
       /\ versions + 1 \in 0 .. (versions + 1) /\ versions <= versions + 1 /\ versions <= versions
       /\ \A x \in Nat : x <= versions => x \in 0 .. versions
       /\ 0 \in 0 .. versions /\ 0 \in 0 .. (versions + 1)
  BY <1>0
<1>1. ASSUME NEW h \in Handlers, NEW p \in {"parse", "miss", "fetch", "read"}, Starts(h, p) PROVE TypeInv'
  <2>1. UNCHANGED <<installed, versions, ast, functions, graph, late, quiet, storing>>
        /\ got' = [got EXCEPT ![h] = got[h]] /\ pc' = [pc EXCEPT ![h] = p] /\ pc[h] = "idle"
        /\ alone' \in BOOLEAN
    BY <1>0, <1>1, <1>20 DEF Starts, kernel, caches
  <2>8. Fits
    BY <1>0, <1>21, <2>1 DEF Fits
  <2>9. Carries(p, got[h])
    BY <1>0, <2>1 DEF Carries, Points, Fits
  <2> QED BY <2>1, <2>8, <2>9, CallTypes
<1>2. ASSUME NEW h \in Handlers, Reload(h) \/ Miss(h) \/ Compute(h) PROVE TypeInv'
  BY <1>1, <1>2 DEF Reload, Miss, Compute
<1>22. ASSUME NEW h \in Handlers, Clear(h) PROVE TypeInv'
  <2>1. /\ pc[h] = "parse" /\ pc' = [pc EXCEPT ![h] = "compute"] /\ got' = [got EXCEPT ![h] = got[h]]
        /\ ast' = 0 /\ quiet' = FALSE /\ alone' \in BOOLEAN
        /\ UNCHANGED <<installed, versions, late, functions, graph, storing>>
    BY <1>22, <1>20 DEF Clear, Replaces
  <2>8. Fits
    BY <1>0, <1>21, <2>1 DEF Fits
  <2>9. Carries("compute", got[h])
    BY <1>0, <2>1 DEF Carries, Points, Fits
  <2> QED BY <2>1, <2>8, <2>9, CallTypes
<1>3. ASSUME NEW h \in Handlers, Reparse(h) PROVE TypeInv'
  <2>1. /\ versions < MaxReloads /\ versions' = versions + 1 /\ ast' = versions + 1 /\ late' = FALSE
        /\ pc[h] = "compute" /\ pc' = [pc EXCEPT ![h] = "list"] /\ got' = [got EXCEPT ![h] = got[h]]
        /\ UNCHANGED <<installed, functions, graph, alone, quiet, storing>>
    BY <1>3, <1>20 DEF Reparse, caches, quietness
  <2>8. Fits
    BY <1>0, <1>21, <2>1 DEF Fits
  <2>9. Carries("list", got[h])
    BY <1>0, <2>1 DEF Carries, Points, Fits
  <2> QED BY <2>1, <2>8, <2>9, CallTypes
<1>4. ASSUME NEW h \in Handlers, Connect(h) PROVE TypeInv'
  <2> DEFINE g == [got[h] EXCEPT !.defined = versions + 1]
  <2>1. /\ versions < MaxReloads /\ versions' = versions + 1 /\ functions' = versions + 1
        /\ pc[h] = "parse" /\ pc' = [pc EXCEPT ![h] = "install"] /\ got' = [got EXCEPT ![h] = g]
        /\ quiet' = FALSE /\ alone' \in BOOLEAN /\ UNCHANGED <<installed, ast, late, graph, storing>>
    BY <1>4 DEF Connect, Replaces
  <2>2. g \in Order /\ g.defined = versions + 1
    BY <1>0, <2>1, GotFacts
  <2> HIDE DEF g
  <2>8. Fits
    BY <1>0, <1>21, <2>1, <2>2 DEF Fits
  <2>9. Carries("install", g)
    BY <1>0, <2>1, <2>2 DEF Carries, Points, Fits
  <2> QED BY <2>1, <2>8, <2>9, CallTypes
<1>5. ASSUME NEW h \in Handlers, Install(h) PROVE TypeInv'
  <2>1. /\ ast' = got[h].defined /\ got[h].defined <= versions /\ late' = FALSE /\ installed' = TRUE
        /\ pc[h] = "install" /\ pc' = [pc EXCEPT ![h] = "list"] /\ got' = [got EXCEPT ![h] = got[h]]
        /\ UNCHANGED <<versions, functions, graph, alone, quiet, storing>>
    BY <1>5, <1>20 DEF Install, caches, quietness, TypeInv, FetchedInv
  <2>8. Fits
    BY <1>0, <1>21, <2>1 DEF Fits
  <2>9. Carries("list", got[h])
    BY <1>0, <2>1 DEF Carries, Points, Fits
  <2> QED BY <2>1, <2>8, <2>9, CallTypes
<1>6. ASSUME NEW h \in Handlers, List(h) PROVE TypeInv'
  <2> DEFINE g == [got[h] EXCEPT !.defined = ast]
             p == IF pc[h] = "list" THEN "update" ELSE "found"
  <2>1. /\ pc[h] # "persist" /\ pc' = [pc EXCEPT ![h] = p] /\ got' = [got EXCEPT ![h] = g]
        /\ UNCHANGED <<installed, versions, ast, late, functions, graph, alone, quiet, storing>>
    BY <1>6 DEF List, kernel, caches, quietness
  <2>2. g \in Order /\ g.defined = ast /\ p \in Points \ {"persist", "cache"}
    BY <1>0, GotFacts DEF Points
  <2> HIDE DEF g, p
  <2>8. Fits
    BY <1>0, <1>21, <2>1, <2>2 DEF Fits
  <2>9. Carries(p, g)
    BY <1>0, <2>1, <2>2 DEF Carries, Points, Fits
  <2> QED BY <2>1, <2>8, <2>9, CallTypes
<1>7. ASSUME NEW h \in Handlers, Refresh(h) \/ UpdateFunctions(h) PROVE TypeInv'
  <2>1. /\ functions' = got[h].defined /\ got[h].defined <= versions /\ pc[h] # "persist"
        /\ pc' = [pc EXCEPT ![h] = "idle"] /\ got' = [got EXCEPT ![h] = NoOrder]
        /\ graph' \in {0, graph} /\ quiet' \in {alone, quiet}
        /\ UNCHANGED <<installed, versions, ast, late, alone, storing>>
    BY <1>7 DEF Refresh, UpdateFunctions, Ends, GraphAfterReload, kernel, TypeInv, FetchedInv
  <2>8. Fits
    BY <1>0, <1>21, <2>1 DEF Fits
  <2>9. Carries("idle", NoOrder)
    BY <1>0, <2>1 DEF Carries, Points, Fits
  <2> QED BY <2>1, <2>8, <2>9, CallTypes
<1>8. ASSUME NEW h \in Handlers, ReloadFails(h) PROVE TypeInv'
  <2>1. /\ pc[h] # "persist" /\ late' \in BOOLEAN /\ quiet' \in BOOLEAN
        /\ pc' = [pc EXCEPT ![h] = "idle"] /\ got' = [got EXCEPT ![h] = NoOrder]
        /\ UNCHANGED <<installed, versions, ast, functions, graph, alone, storing>>
    BY <1>0, <1>8 DEF ReloadFails, Ends, caches
  <2>8. Fits
    BY <1>0, <1>21, <2>1 DEF Fits
  <2>9. Carries("idle", NoOrder)
    BY <1>0, <2>1 DEF Carries, Points, Fits
  <2> QED BY <2>1, <2>8, <2>9, CallTypes
<1>9. CASE LateParse
  <2>1. /\ versions < MaxReloads /\ versions' = versions + 1 /\ ast' \in {0, versions + 1} /\ late' = FALSE
        /\ UNCHANGED <<installed, functions, graph, pc, got, alone, quiet, storing>>
    BY <1>9 DEF LateParse, caches, quietness
  <2>2. FetchedInv'
    BY <1>0, <2>1 DEF TypeInv, FetchedInv
  <2>3. Fits
    BY <1>0, <1>21, <2>1 DEF Fits
  <2>4. TypeOK'
    BY <2>1, <2>3 DEF Fits, TypeInv, TypeOK, storing
  <2> QED BY <2>2, <2>4 DEF TypeInv
<1>10. ASSUME NEW h \in Handlers, Fetch(h) PROVE TypeInv'
  <2> DEFINE g == [got[h] EXCEPT !.graph = ast]
  <2>1. /\ pc[h] = "fetch" /\ pc' = [pc EXCEPT ![h] = "cache"] /\ got' = [got EXCEPT ![h] = g]
        /\ UNCHANGED <<installed, versions, ast, late, functions, graph, alone, quiet, storing>>
    BY <1>10 DEF Fetch, kernel, caches, quietness
  <2>2. g \in Order /\ g.graph = ast
    BY <1>0, GotFacts
  <2> HIDE DEF g
  <2>8. Fits
    BY <1>0, <1>21, <2>1, <2>2 DEF Fits
  <2>9. Carries("cache", g)
    BY <1>0, <2>1, <2>2 DEF Carries, Points, Fits
  <2> QED BY <2>1, <2>8, <2>9, CallTypes
<1>11. ASSUME NEW h \in Handlers, FetchFails(h) \/ Query(h) PROVE TypeInv'
  <2>1. /\ pc[h] # "persist" /\ pc' = [pc EXCEPT ![h] = "idle"] /\ got' = [got EXCEPT ![h] = NoOrder]
        /\ UNCHANGED <<installed, versions, ast, late, functions, graph, alone, quiet, storing>>
    BY <1>11 DEF FetchFails, Query, Ends, kernel, caches
  <2>8. Fits
    BY <1>0, <1>21, <2>1 DEF Fits
  <2>9. Carries("idle", NoOrder)
    BY <1>0, <2>1 DEF Carries, Points, Fits
  <2> QED BY <2>1, <2>8, <2>9, CallTypes
<1>12. ASSUME NEW h \in Handlers, Cache(h) PROVE TypeInv'
  <2>1. /\ pc[h] = "cache" /\ pc' = [pc EXCEPT ![h] = "read"] /\ got' = [got EXCEPT ![h] = got[h]]
        /\ graph' = got[h].graph /\ got[h].graph <= versions
        /\ UNCHANGED <<installed, versions, ast, late, functions, alone, quiet, storing>>
    BY <1>12, <1>20 DEF Cache, kernel, quietness, TypeInv, FetchedInv
  <2>8. Fits
    BY <1>0, <1>21, <2>1 DEF Fits
  <2>9. Carries("read", got[h])
    BY <1>0, <2>1 DEF Carries, Points, Fits
  <2> QED BY <2>1, <2>8, <2>9, CallTypes
<1>13. ASSUME NEW h \in Handlers, Read(h) PROVE TypeInv'
  <2>1. Computed(graph, functions) \in Order
    BY <1>0 DEF Computed, Order, Versions
  <2>2. /\ pc[h] = "read" /\ pc' = [pc EXCEPT ![h] = "seed"]
        /\ got' = [got EXCEPT ![h] = Computed(graph, functions)]
        /\ UNCHANGED <<installed, versions, ast, late, functions, graph, alone, quiet, storing>>
    BY <1>13 DEF Read, kernel, caches, quietness
  <2>8. Fits
    BY <1>0, <1>21, <2>1, <2>2 DEF Fits
  <2>9. Carries("seed", Computed(graph, functions))
    BY <1>0, <2>1, <2>2 DEF Carries, Points, Fits
  <2> QED BY <2>2, <2>8, <2>9, CallTypes
<1>14. ASSUME NEW h \in Handlers, Seed(h) PROVE TypeInv'
  <2>1. project' \in State
    BY <1>14, SeedFacts DEF TypeInv
  <2>2. /\ pc[h] = "seed" /\ pc' = [pc EXCEPT ![h] = "idle"] /\ got' = [got EXCEPT ![h] = NoOrder]
        /\ seeded' = got[h] /\ whole' = quiet
        /\ UNCHANGED <<kernel, caches, quietness, file, clone, stores, overlapped, lagging>>
    BY <1>14 DEF Seed
  <2>3. FetchedInv'
    BY <1>0, <2>2 DEF TypeInv, TypeOK, FetchedInv, kernel
  <2>4. TypeOK'
    BY <1>0, <2>1, <2>2 DEF TypeInv, TypeOK, kernel, caches, quietness
  <2> QED BY <2>3, <2>4 DEF TypeInv
<1>15. ASSUME NEW h \in Handlers, NEW o \in {NoOrder, AgentOrder}, StoreFull(h, o) \/ StoreThin(h, o)
      PROVE  TypeInv'
  <2>1. PICK new \in State : Storing(h, new) /\ seeded' \in {seeded, NoOrder}
    BY <1>15, StoreStep DEF TypeInv
  <2>2. /\ project' = new /\ clone' = [clone EXCEPT ![h] = new.data]
        /\ pc' = [pc EXCEPT ![h] = "persist"]
        /\ stores < MaxStores /\ stores' = stores + 1
        /\ overlapped' = (overlapped \/ \E g \in Handlers : pc[g] = "persist")
        /\ UNCHANGED <<kernel, caches, got, quietness, file, whole, lagging>>
    BY <2>1 DEF Storing, Stores
  <2>3. overlapped' \in BOOLEAN
    BY <2>2 DEF TypeInv, TypeOK
  <2>4. stores' \in 0 .. MaxStores
    BY <2>2, ProjectAssumption DEF TypeInv, TypeOK
  <2>5. FetchedInv'
    BY <2>2 DEF TypeInv, TypeOK, FetchedInv, kernel
  <2>7. /\ clone' \in [Handlers -> SUBSET (1 .. MaxStores)]
        /\ \A g \in Handlers : pc'[g] = "persist" <=> clone'[g] # {}
    <3>1. new.data \in SUBSET (1 .. MaxStores) /\ new.data # {}
      BY <2>1 DEF Storing, State
    <3>2. /\ clone \in [Handlers -> SUBSET (1 .. MaxStores)] /\ pc \in [Handlers -> Points]
          /\ \A g \in Handlers : pc[g] = "persist" <=> clone[g] # {}
      BY DEF TypeInv, TypeOK, Points
    <3> QED BY <2>2, <3>1, <3>2
  <2>6. TypeOK'
    BY <1>0, <2>1, <2>2, <2>3, <2>4, <2>7, StateFacts DEF TypeInv, TypeOK, kernel, caches, quietness
  <2> QED BY <2>5, <2>6 DEF TypeInv
<1>16. ASSUME NEW h \in Handlers, Persist(h) \/ PersistFails(h) PROVE TypeInv'
  <2>1. /\ pc[h] = "persist" /\ file' \in {file, clone[h]} /\ lagging' \in BOOLEAN
        /\ pc' = [pc EXCEPT ![h] = "idle"] /\ clone' = [clone EXCEPT ![h] = {}]
        /\ UNCHANGED <<kernel, caches, got, quietness, project, stores, seeded, whole, overlapped>>
    BY <1>16 DEF Persist, PersistFails, Return, CloneDropped
  <2>2. FetchedInv'
    BY <2>1 DEF TypeInv, TypeOK, FetchedInv, kernel
  <2>3. TypeOK'
    BY <2>1 DEF TypeInv, TypeOK, kernel, caches, quietness
  <2> QED BY <2>2, <2>3 DEF TypeInv
<1>17. CASE Restart
  <2>2. \A h \in Handlers : pc'[h] = "idle" /\ clone'[h] = {}
    BY <1>17 DEF Restart
  <2>3. FetchedInv'
    BY <2>2 DEF FetchedInv
  <2>4. /\ versions' = versions /\ ast' = 0 /\ functions' = 0 /\ graph' = 0 /\ 0 \in 0 .. versions
        /\ installed' = FALSE /\ late' = FALSE /\ alone' = TRUE /\ quiet' = TRUE /\ whole' = TRUE
        /\ overlapped' = FALSE /\ lagging' = TRUE /\ seeded' = NoOrder
        /\ project' = None /\ UNCHANGED <<file, stores>>
        /\ pc' = [g \in Handlers |-> "idle"] /\ got' = [g \in Handlers |-> NoOrder]
        /\ clone' = [g \in Handlers |-> {}]
    BY <1>0, <1>17 DEF Restart
  <2>5. TypeOK'
    BY <1>0, <2>2, <2>4 DEF TypeInv, TypeOK
  <2> QED BY <2>3, <2>5 DEF TypeInv
<1>18. CASE UNCHANGED vars
  BY <1>18 DEF vars, kernel, caches, quietness, storing, TypeInv, TypeOK, FetchedInv
<1>19. Finished => UNCHANGED vars
  BY DEF Finished
<1> QED BY <1>2, <1>22, <1>3, <1>4, <1>5, <1>6, <1>7, <1>8, <1>9, <1>10, <1>11, <1>12, <1>13, <1>14, <1>15, <1>16,
           <1>17, <1>18, <1>19 DEF Next

\* Type correctness.
THEOREM TypeCorrect == Spec => []TypeOK
<1>1. TypeInv => TypeOK
  BY DEF TypeInv
<1> QED BY <1>1, TypeInit, TypeStep, PTL DEF Spec

-----------------------------------------------------------------------------
(* The order agents follow.                                                *)

\* Nobody has computed an order at first.
LEMMA OrderInit == Init => OrderInv
  BY DEF Init, OrderInv, SeededOrderStands, WholeInv, QuietInv, AloneInv, Replacing, Busy, NoOrder

\* A store takes the order from memory, so it is as good as the one there.
LEMMA StoresKeepOrder ==
  ASSUME TypeInv, OrderInv, NEW h \in Handlers, NEW o \in {NoOrder, AgentOrder},
         StoreFull(h, o) \/ StoreThin(h, o)
  PROVE  OrderInv'
<1>1. PICK new \in State :
        /\ Storing(h, new) /\ seeded' \in {seeded, NoOrder}
        /\ seeded' # NoOrder /\ project # None =>
             new.order = project.order /\ new.groups = project.groups
  BY StoreStep DEF TypeInv
<1>2. /\ project' = new /\ pc' = [pc EXCEPT ![h] = "persist"]
      /\ UNCHANGED <<ast, late, functions, graph, got, alone, quiet, whole>>
  BY <1>1 DEF Storing, Stores, kernel, caches, quietness
<1>3. SeededOrderStands' /\ WholeInv'
  BY <1>1, <1>2, StateFacts DEF OrderInv, SeededOrderStands, WholeInv
<1>4. \A g \in Handlers : pc'[g] = pc[g] \/ pc'[g] = "persist"
  BY <1>2 DEF TypeInv, TypeOK
<1>5. QuietInv' /\ AloneInv'
  BY <1>2, <1>4 DEF OrderInv, QuietInv, AloneInv, Replacing, Busy
<1> QED BY <1>3, <1>5 DEF OrderInv

\* The tools leave the order in memory alone, but for Seed and the stores.
LEMMA ProjectFrame ==
  ASSUME OrderInv, UNCHANGED storing
  PROVE  SeededOrderStands' /\ WholeInv'
BY DEF OrderInv, SeededOrderStands, WholeInv, storing

\* A call that ends, having cached what it had in hand, disturbs nothing.
LEMMA EndStep ==
  ASSUME TypeInv, OrderInv, NEW h \in Handlers, Ends(h), UNCHANGED ast,
         quiet' => quiet /\ ~late' /\ functions' = ast /\ graph' = graph,
         alone' => late' = late \/ Busy(h)
  PROVE  OrderInv'
<1>1. /\ pc' = [pc EXCEPT ![h] = "idle"] /\ got' = [got EXCEPT ![h] = NoOrder] /\ UNCHANGED <<alone, storing>>
  BY DEF Ends
<1>2. \A g \in Handlers : pc'[g] = "idle" \/ (pc'[g] = pc[g] /\ got'[g] = got[g])
  BY <1>1 DEF TypeInv, TypeOK
<1>3. QuietInv'
  BY <1>2 DEF OrderInv, QuietInv, Replacing
<1>5. \A g \in Handlers : Replacing(g)' => g # h /\ Replacing(g) /\ pc'[g] = pc[g] /\ got'[g] = got[g]
  BY <1>1, <1>2 DEF Replacing, TypeInv, TypeOK
<1>6. \A g \in Handlers : Busy(g)' => Busy(g)
  BY <1>2 DEF Busy
<1>7. \A g \in Handlers : alone /\ Replacing(g) /\ g # h => ~Busy(h)
  BY DEF OrderInv, AloneInv
<1>4. AloneInv'
  BY <1>1, <1>5, <1>6, <1>7 DEF OrderInv, AloneInv
<1> QED BY <1>1, <1>3, <1>4, ProjectFrame DEF OrderInv

\* No step caches another version while it is quiet, or puts an order of two
\* versions into memory.
LEMMA OrderStep == TypeInv /\ OrderInv /\ [Next]_vars => OrderInv'
<1> SUFFICES ASSUME TypeInv, OrderInv, [Next]_vars PROVE OrderInv'
  OBVIOUS
<1>0. /\ pc \in [Handlers -> Points] /\ got \in [Handlers -> Order]
      /\ ast \in Versions /\ alone \in BOOLEAN /\ quiet \in BOOLEAN /\ late \in BOOLEAN
  BY ProjectAssumption DEF TypeInv, TypeOK, Points, Versions
<1>1. ASSUME NEW h \in Handlers, NEW p \in {"parse", "miss", "fetch", "read"}, Starts(h, p),
             p = "read" => graph # 0
      PROVE  OrderInv'
  <2>1. /\ pc[h] = "idle" /\ pc' = [pc EXCEPT ![h] = p] /\ UNCHANGED <<ast, late, functions, graph, got, quiet, storing>>
        /\ alone' = (alone /\ \A g \in Handlers : ~Replacing(g))
    BY <1>1 DEF Starts, kernel, caches
  <2>2. \A g \in Handlers : (g = h /\ pc'[g] = p) \/ (g # h /\ pc'[g] = pc[g])
    BY <1>0, <2>1
  <2>3. QuietInv'
    BY <1>1, <2>1, <2>2 DEF OrderInv, QuietInv, Replacing
  <2>4. AloneInv'
    BY <2>1, <2>2 DEF AloneInv, Replacing
  <2> QED BY <2>1, <2>3, <2>4, ProjectFrame DEF OrderInv
<1>2. ASSUME NEW h \in Handlers, Reload(h) \/ Miss(h) \/ Compute(h) PROVE OrderInv'
  BY <1>1, <1>2 DEF Reload, Miss, Compute
<1>3. ASSUME NEW h \in Handlers, Clear(h) \/ Connect(h) PROVE OrderInv'
  <2>1. /\ alone' = (\A g \in Handlers : Busy(g) => g = h) /\ quiet' = FALSE /\ UNCHANGED storing
        /\ pc' = [pc EXCEPT ![h] = "compute"] \/ pc' = [pc EXCEPT ![h] = "install"]
    BY <1>3 DEF Clear, Connect, Replaces
  <2>2. /\ \A g \in Handlers \ {h} : pc'[g] = pc[g]
        /\ pc'[h] \in {"compute", "install"}
    BY <1>0, <2>1
  <2>3. AloneInv'
    <3> SUFFICES ASSUME alone', NEW k \in Handlers, Replacing(k)'
                 PROVE  /\ \A g \in Handlers : Busy(g)' => g = k
                        /\ pc'[k] \in {"list", "update"} => ~late'
                        /\ pc'[k] = "update" => got'[k].defined = ast'
      BY DEF AloneInv
    <3>1. \A g \in Handlers \ {h} : ~Busy(g) /\ ~Busy(g)'
      BY <2>1, <2>2 DEF Busy
    <3>2. k = h
      BY <3>1 DEF Replacing, Busy
    <3> QED BY <2>2, <3>1, <3>2
  <2> QED BY <2>1, <2>3, ProjectFrame DEF OrderInv, QuietInv
<1>4. ASSUME NEW h \in Handlers, Reparse(h) \/ Install(h) PROVE OrderInv'
  <2>1. /\ pc[h] \in {"compute", "install"} /\ pc' = [pc EXCEPT ![h] = "list"] /\ ~late'
        /\ UNCHANGED <<got, alone, quiet, storing>>
    BY <1>4 DEF Reparse, Install, quietness
  <2>2. ~quiet
    BY <2>1 DEF OrderInv, QuietInv, Replacing
  <2>3. /\ \A g \in Handlers \ {h} : pc'[g] = pc[g]
        /\ pc'[h] = "list"
    BY <1>0, <2>1
  <2>4. alone => \A g \in Handlers \ {h} : ~Busy(g)
    BY <2>1 DEF OrderInv, AloneInv, Replacing
  <2>5. AloneInv'
    BY <2>1, <2>3, <2>4 DEF AloneInv, Replacing, Busy
  <2> QED BY <2>1, <2>2, <2>5, ProjectFrame DEF OrderInv, QuietInv
<1>5. ASSUME NEW h \in Handlers, List(h) PROVE OrderInv'
  <2>1. /\ pc[h] \in {"list", "miss"} /\ pc' = [pc EXCEPT ![h] = IF pc[h] = "list" THEN "update" ELSE "found"]
        /\ got' = [got EXCEPT ![h] = [got[h] EXCEPT !.defined = ast]]
        /\ UNCHANGED <<ast, late, functions, graph, alone, quiet, storing>>
    BY <1>5 DEF List, kernel, caches, quietness
  <2>2. /\ \A g \in Handlers \ {h} : pc'[g] = pc[g] /\ got'[g] = got[g]
        /\ got'[h].defined = ast
        /\ pc[h] = "list" => pc'[h] = "update"
        /\ pc[h] = "miss" => pc'[h] = "found"
    BY <1>0, <2>1, GotFacts
  <2>3. QuietInv'
    BY <2>1, <2>2 DEF OrderInv, QuietInv, Replacing
  <2>4. AloneInv'
    BY <2>1, <2>2 DEF OrderInv, AloneInv, Replacing, Busy
  <2> QED BY <2>1, <2>3, <2>4, ProjectFrame DEF OrderInv
<1>6. ASSUME NEW h \in Handlers, Refresh(h) PROVE OrderInv'
  <2>1. /\ pc[h] = "update" /\ pc' = [pc EXCEPT ![h] = "idle"] /\ functions' = got[h].defined /\ graph' = 0
        /\ quiet' = alone /\ UNCHANGED <<ast, late, alone, storing>>
    BY <1>6 DEF Refresh, Ends, GraphAfterReload, kernel
  <2>2. /\ \A g \in Handlers \ {h} : pc'[g] = pc[g]
        /\ pc'[h] = "idle"
    BY <1>0, <2>1
  <2>3. alone => ~late /\ got[h].defined = ast /\ \A g \in Handlers \ {h} : ~Busy(g)
    BY <2>1 DEF OrderInv, AloneInv, Replacing
  <2>4. alone => \A g \in Handlers : ~Busy(g)'
    BY <2>2, <2>3 DEF Busy
  <2>5. QuietInv' /\ AloneInv'
    BY <2>1, <2>3, <2>4 DEF QuietInv, AloneInv, Replacing, Busy
  <2> QED BY <2>1, <2>5, ProjectFrame DEF OrderInv
<1>7. ASSUME NEW h \in Handlers, ReloadFails(h) PROVE OrderInv'
  <2>1. /\ Ends(h) /\ UNCHANGED <<ast, functions, graph>> /\ quiet' = (quiet /\ ~late')
        /\ pc[h] \in {"parse", "compute"} \/ UNCHANGED late
    BY <1>7 DEF ReloadFails, caches
  <2>2. quiet => functions = ast
    BY DEF OrderInv, QuietInv
  <2>3. pc[h] \in {"parse", "compute"} => Busy(h)
    BY DEF Busy
  <2> QED BY <2>1, <2>2, <2>3, EndStep
<1>8. ASSUME NEW h \in Handlers, UpdateFunctions(h) \/ FetchFails(h) \/ Query(h) PROVE OrderInv'
  <2>1. /\ Ends(h) /\ UNCHANGED <<ast, late, graph, quiet>>
        /\ functions' = functions \/ (pc[h] = "found" /\ functions' = got[h].defined)
    BY <1>8 DEF UpdateFunctions, FetchFails, Query, kernel, caches
  <2>2. quiet => ~late /\ functions = ast /\ (pc[h] = "found" => got[h].defined = ast)
    BY DEF OrderInv, QuietInv
  <2> QED BY <2>1, <2>2, EndStep
<1>9. CASE LateParse
  <2>1. late /\ ~late' /\ UNCHANGED <<pc, got, alone, quiet, storing>>
    BY <1>9 DEF LateParse, quietness
  <2>2. ~quiet
    BY <2>1 DEF OrderInv, QuietInv
  <2>3. AloneInv'
    BY <2>1 DEF OrderInv, AloneInv, Replacing, Busy
  <2> QED BY <2>1, <2>2, <2>3, ProjectFrame DEF OrderInv, QuietInv
<1>10. ASSUME NEW h \in Handlers, Fetch(h) PROVE OrderInv'
  <2>1. /\ pc[h] = "fetch" /\ pc' = [pc EXCEPT ![h] = "cache"]
        /\ got' = [got EXCEPT ![h] = [got[h] EXCEPT !.graph = ast]]
        /\ UNCHANGED <<ast, late, functions, graph, alone, quiet, storing>>
    BY <1>10 DEF Fetch, kernel, caches, quietness
  <2>2. /\ \A g \in Handlers \ {h} : pc'[g] = pc[g] /\ got'[g] = got[g]
        /\ pc'[h] = "cache" /\ got'[h].graph = ast
    BY <1>0, <2>1, GotFacts
  <2>3. QuietInv'
    BY <2>1, <2>2 DEF OrderInv, QuietInv, Replacing
  <2>4. AloneInv'
    BY <2>1, <2>2 DEF OrderInv, AloneInv, Replacing, Busy
  <2> QED BY <2>1, <2>3, <2>4, ProjectFrame DEF OrderInv
<1>11. ASSUME NEW h \in Handlers, Cache(h) PROVE OrderInv'
  <2>1. /\ pc[h] = "cache" /\ pc' = [pc EXCEPT ![h] = "read"] /\ graph' = got[h].graph
        /\ UNCHANGED <<ast, late, functions, got, alone, quiet, storing>>
    BY <1>11 DEF Cache, kernel, quietness
  <2>2. /\ \A g \in Handlers \ {h} : pc'[g] = pc[g]
        /\ pc'[h] = "read"
    BY <1>0, <2>1
  <2>3. QuietInv'
    BY <2>1, <2>2 DEF OrderInv, QuietInv, Replacing
  <2>4. AloneInv'
    BY <2>1, <2>2 DEF OrderInv, AloneInv, Replacing, Busy
  <2> QED BY <2>1, <2>3, <2>4, ProjectFrame DEF OrderInv
<1>12. ASSUME NEW h \in Handlers, Read(h) PROVE OrderInv'
  <2>1. /\ pc[h] = "read" /\ pc' = [pc EXCEPT ![h] = "seed"]
        /\ got' = [got EXCEPT ![h] = Computed(graph, functions)]
        /\ UNCHANGED <<ast, late, functions, graph, alone, quiet, storing>>
    BY <1>12 DEF Read, kernel, caches, quietness
  <2>2. /\ \A g \in Handlers \ {h} : pc'[g] = pc[g] /\ got'[g] = got[g]
        /\ pc'[h] = "seed" /\ got'[h].graph = graph /\ got'[h].defined = functions
    BY <1>0, <2>1 DEF Computed
  <2>3. QuietInv'
    BY <2>1, <2>2 DEF OrderInv, QuietInv, Replacing
  <2>4. AloneInv'
    BY <2>1, <2>2 DEF OrderInv, AloneInv, Replacing, Busy
  <2> QED BY <2>1, <2>3, <2>4, ProjectFrame DEF OrderInv
<1>13. ASSUME NEW h \in Handlers, Seed(h) PROVE OrderInv'
  <2>1. /\ pc[h] = "seed" /\ pc' = [pc EXCEPT ![h] = "idle"] /\ seeded' = got[h] /\ whole' = quiet
        /\ got' = [got EXCEPT ![h] = NoOrder]
        /\ UNCHANGED <<ast, late, functions, graph, alone, quiet>>
    BY <1>13 DEF Seed, kernel, caches, quietness
  <2>2. project' \in State /\ project'.order = got[h] /\ project'.groups = got[h]
    BY <1>13, SeedFacts DEF TypeInv
  <2>3. SeededOrderStands' /\ WholeInv'
    BY <2>1, <2>2, StateFacts DEF OrderInv, QuietInv, SeededOrderStands, WholeInv
  <2>4. \A g \in Handlers : pc'[g] = "idle" \/ (pc'[g] = pc[g] /\ got'[g] = got[g])
    BY <1>0, <2>1
  <2>5. QuietInv' /\ AloneInv'
    BY <2>1, <2>4 DEF OrderInv, QuietInv, AloneInv, Replacing, Busy
  <2> QED BY <2>3, <2>5 DEF OrderInv
<1>14. ASSUME NEW h \in Handlers, NEW o \in {NoOrder, AgentOrder}, StoreFull(h, o) \/ StoreThin(h, o)
      PROVE  OrderInv'
  BY <1>14, StoresKeepOrder
<1>15. ASSUME NEW h \in Handlers, Persist(h) \/ PersistFails(h) PROVE OrderInv'
  <2>1. /\ pc' = [pc EXCEPT ![h] = "idle"]
        /\ UNCHANGED <<ast, late, functions, graph, got, alone, quiet, project, seeded, whole>>
    BY <1>15 DEF Persist, PersistFails, Return, kernel, caches, quietness
  <2>2. \A g \in Handlers : pc'[g] = "idle" \/ pc'[g] = pc[g]
    BY <1>0, <2>1
  <2>3. SeededOrderStands' /\ WholeInv'
    BY <2>1 DEF OrderInv, SeededOrderStands, WholeInv
  <2>4. QuietInv' /\ AloneInv'
    BY <2>1, <2>2 DEF OrderInv, QuietInv, AloneInv, Replacing, Busy
  <2> QED BY <2>3, <2>4 DEF OrderInv
<1>16. CASE Restart
  BY <1>16 DEF Restart, OrderInv, SeededOrderStands, WholeInv, QuietInv, AloneInv, Replacing, Busy
<1>17. CASE UNCHANGED vars
  BY <1>17 DEF vars, kernel, caches, quietness, storing, OrderInv, SeededOrderStands, WholeInv, QuietInv,
       AloneInv, Replacing, Busy
<1>18. Finished => UNCHANGED vars
  BY DEF Finished
<1> QED BY <1>2, <1>3, <1>4, <1>5, <1>6, <1>7, <1>8, <1>9, <1>10, <1>11, <1>12, <1>13, <1>14, <1>15, <1>16,
           <1>17, <1>18 DEF Next

\* The order compute_topological_order seeded last stays the one agents follow,
\* with the groups it was computed with, whatever full states they store.  Its
\* callgraph and its functions are of one version of the program if it was seeded
\* after a reload that succeeded and that nothing overlapped, before the next; in
\* that time the caches are those of the program, whatever failed before.
THEOREM OrderIsKept == Spec => []OrderIsTheServers
<1>1. OrderInv => OrderIsTheServers
  BY DEF OrderInv, QuietInv, WholeInv, OrderIsTheServers, SeededOrderIsOfOneProgram
<1> QED BY <1>1, TypeInit, TypeStep, OrderInit, OrderStep, PTL DEF Spec

-----------------------------------------------------------------------------
(* The file.                                                               *)

\* There is no file and nothing in memory at first.
LEMMA FileInit == Init => FileInv
  BY DEF Init, FileInv, Persisting, FileFollowsMemory

\* What the last store left in memory is what it persists.
LEMMA StoresKeepFile ==
  ASSUME TypeInv, FileInv, NEW h \in Handlers, NEW o \in {NoOrder, AgentOrder},
         StoreFull(h, o) \/ StoreThin(h, o)
  PROVE  FileInv'
<1>1. PICK new \in State : Storing(h, new)
  BY StoreStep DEF TypeInv
<1>2. /\ project' = new /\ clone' = [clone EXCEPT ![h] = new.data] /\ new # None
      /\ pc' = [pc EXCEPT ![h] = "persist"] /\ clone \in [Handlers -> SUBSET (1 .. MaxStores)]
      /\ pc \in [Handlers -> Points]
      /\ overlapped' = (overlapped \/ \E g \in Handlers : pc[g] = "persist")
      /\ UNCHANGED <<file, lagging>>
  BY <1>1, StateFacts DEF Storing, Stores, TypeInv, TypeOK, Points
<1>3. pc'[h] = "persist" /\ clone'[h] = project'.data /\ project' # None
  BY <1>2
<1>4. ~overlapped' => \A g \in Handlers : pc'[g] = "persist" => g = h
  BY <1>2
<1> QED BY <1>3, <1>4 DEF FileInv, FileFollowsMemory, Persisting

\* While stores take turns, no step lets the file fall behind memory.
LEMMA FileStep == TypeInv /\ FileInv /\ [Next]_vars => FileInv'
<1> SUFFICES ASSUME TypeInv, FileInv, [Next]_vars PROVE FileInv'
  OBVIOUS
<1>0. /\ pc \in [Handlers -> Points]
      /\ clone \in [Handlers -> SUBSET (1 .. MaxStores)] /\ overlapped \in BOOLEAN /\ lagging \in BOOLEAN
      /\ \A h \in Handlers : pc[h] = "persist" <=> clone[h] # {}
  BY DEF TypeInv, TypeOK, Points

\* Whatever neither stores nor persists only moves calls that do not persist.
<1>1. ASSUME \A h \in Handlers : pc'[h] = "persist" <=> pc[h] = "persist",
             UNCHANGED <<project, file, clone, overlapped, lagging>>
      PROVE  FileInv'
  BY <1>1 DEF FileInv, FileFollowsMemory, Persisting
<1>2. ASSUME NEW h \in Handlers, NEW p \in Points \ {"persist"},
             pc[h] # "persist", pc' = [pc EXCEPT ![h] = p], UNCHANGED storing
      PROVE  FileInv'
  <2>1. \A g \in Handlers : pc'[g] = "persist" <=> pc[g] = "persist"
    BY <1>0, <1>2
  <2> QED BY <1>1, <1>2, <2>1 DEF storing
<1>3. ASSUME NEW h \in Handlers,
             \/ Reload(h) \/ Clear(h) \/ Reparse(h) \/ Connect(h) \/ Install(h) \/ List(h) \/ Refresh(h) \/ ReloadFails(h)
             \/ Miss(h) \/ UpdateFunctions(h)
             \/ Compute(h) \/ Fetch(h) \/ FetchFails(h) \/ Cache(h) \/ Read(h) \/ Query(h)
      PROVE  FileInv'
  <2>1. pc[h] # "persist" /\ UNCHANGED storing
    BY <1>3 DEF Reload, Clear, Reparse, Connect, Install, List, Refresh, ReloadFails, Miss, UpdateFunctions, Compute,
         Fetch, FetchFails, Cache, Read, Query, Starts, Ends, Replaces
  <2>2. \E p \in Points \ {"persist"} : pc' = [pc EXCEPT ![h] = p]
    <3>1. CASE Reload(h) \/ Miss(h) \/ Compute(h)
      BY <3>1 DEF Reload, Miss, Compute, Starts, Points
    <3>2. CASE Clear(h) \/ Connect(h) \/ Reparse(h) \/ Install(h) \/ List(h)
      BY <3>2 DEF Clear, Connect, Reparse, Install, List, Replaces, Points
    <3>3. CASE Fetch(h) \/ Cache(h) \/ Read(h)
      BY <3>3 DEF Fetch, Cache, Read, Points
    <3>4. CASE Refresh(h) \/ ReloadFails(h) \/ UpdateFunctions(h) \/ FetchFails(h) \/ Query(h)
      BY <3>4 DEF Refresh, ReloadFails, UpdateFunctions, FetchFails, Query, Ends, Points
    <3> QED BY <1>3, <3>1, <3>2, <3>3, <3>4
  <2> QED BY <1>2, <2>1, <2>2
<1>11. CASE LateParse
  BY <1>1, <1>11 DEF LateParse, storing
<1>4. ASSUME NEW h \in Handlers, Seed(h) PROVE FileInv'
  <2>1. /\ UNCHANGED <<file, clone, overlapped, lagging>>
        /\ \A g \in Handlers : pc[g] = "persist" <=> pc'[g] = "persist"
    BY <1>0, <1>4 DEF Seed
  <2>2. project' # None /\ project'.data = IF project = None THEN {} ELSE project.data
    BY <1>4, SeedFacts, StateFacts DEF TypeInv, Current, Default
  <2> QED BY <2>1, <2>2 DEF FileInv, FileFollowsMemory, Persisting
<1>5. ASSUME NEW h \in Handlers, NEW o \in {NoOrder, AgentOrder}, StoreFull(h, o) \/ StoreThin(h, o)
      PROVE  FileInv'
  BY <1>5, StoresKeepFile
<1>6. ASSUME NEW h \in Handlers, Persist(h) PROVE FileInv'
  <2>1. /\ pc[h] = "persist" /\ file' = clone[h] /\ ~lagging' /\ clone[h] # {}
        /\ pc' = [pc EXCEPT ![h] = "idle"] /\ clone' = [clone EXCEPT ![h] = {}]
        /\ UNCHANGED <<project, overlapped>>
    BY <1>0, <1>6 DEF Persist, Return, CloneDropped
  <2>2. project # None
    BY <2>1 DEF FileInv, Persisting
  <2>3. ~overlapped => project.data = clone[h] /\ \A g \in Handlers : pc'[g] # "persist"
    BY <1>0, <2>1 DEF FileInv, Persisting
  <2>4. \A g \in Handlers : g # h => pc'[g] = pc[g] /\ clone'[g] = clone[g]
    BY <1>0, <2>1
  <2>5. pc'[h] # "persist"
    BY <1>0, <2>1
  <2> QED BY <2>1, <2>2, <2>3, <2>4, <2>5 DEF FileInv, FileFollowsMemory, Persisting
<1>7. ASSUME NEW h \in Handlers, PersistFails(h) PROVE FileInv'
  <2>1. /\ pc' = [pc EXCEPT ![h] = "idle"] /\ clone' = [clone EXCEPT ![h] = {}] /\ lagging'
        /\ UNCHANGED <<project, file, overlapped>>
    BY <1>7 DEF PersistFails, Return, CloneDropped
  <2>2. \A g \in Handlers : pc'[g] = "persist" => pc[g] = "persist" /\ clone'[g] = clone[g]
    BY <1>0, <2>1
  <2> QED BY <2>1, <2>2 DEF FileInv, FileFollowsMemory, Persisting
<1>8. CASE Restart
  <2>1. lagging' /\ \A h \in Handlers : pc'[h] = "idle"
    BY <1>8 DEF Restart
  <2> QED BY <2>1 DEF FileInv, FileFollowsMemory, Persisting
<1>9. CASE UNCHANGED vars
  BY <1>1, <1>9 DEF vars, storing
<1>10. Finished => UNCHANGED vars
  BY DEF Finished
<1> QED BY <1>3, <1>4, <1>5, <1>6, <1>7, <1>8, <1>9, <1>10, <1>11 DEF Next

\* As long as stores take turns, none failed and the server was not restarted,
\* _program.json has the agent's data of the memory whenever no store is under way.
THEOREM FileIsCurrent == Spec => []FileFollowsMemory
<1>1. FileInv => FileFollowsMemory
  BY DEF FileInv
<1> QED BY <1>1, TypeInit, TypeStep, FileInit, FileStep, PTL DEF Spec
=============================================================================
