---------------------------- MODULE AnalysesProofs ----------------------------
(***************************************************************************)
(* Theorems about Analyses, for any program, any page size, any calls and  *)
(* any parameters of WP.                                                   *)
(*                                                                         *)
(* Three invariants carry them.  PagesInv: what a fetch has got and what   *)
(* Frama-C still has to send are, one after the other, the whole array,    *)
(* unless a reset will make it start over.  CacheInv: the cache is empty   *)
(* or the whole program, and the latter once a call has refreshed it,      *)
(* unless it was written from stolen pages.  RunInv: what a run of WP has  *)
(* proved, is to prove and is to resolve is together what it was asked     *)
(* for, and the settings it has made stand unless another call made some.  *)
(***************************************************************************)
EXTENDS Analyses, FiniteSetTheorems, SequenceTheorems, TLAPS

Settings == [prover |-> settings.prover, timeout |-> settings.timeout,
             model |-> settings.model, prop |-> settings.prop]

SettingSteps == {"setProvers", "setTimeout", "setWpConfig"}
LookupSteps  == {"lookup", "retry"}
FetchSteps   == {"reset", "page", "fetched"}
Locations    ==
  {"idle", "resolve", "prove", "done", "notfound"} \cup SettingSteps \cup LookupSteps \cup FetchSteps

Jobs == [tool : {"none", "resolve", "list", "refresh", "goals"}] \cup [tool : {"wp"}, run : Runs]

\* The type of every variable, and what a call at each place is.
TypeInv ==
  /\ target \in {"main", "sandbox"}
  /\ functions \subseteq Names
  /\ settings = Settings
  /\ goals \in Seq(Names) /\ IsInjective(goals)
  /\ iterator \in [Arrays -> [cleared : BOOLEAN, waiting : Seq(Names)]]
  /\ pc \in [Handlers -> Locations]
  /\ job \in [Handlers -> Jobs]
  /\ wanted \in [Handlers -> Names \cup {Unknown}]
  /\ got \in [Handlers -> Seq(Names)]
  /\ todo \in [Handlers -> Seq(Names \cup {Unknown})]
  /\ targets \in [Handlers -> Seq(Names)]
  /\ pages \in [Handlers -> {"whole", "changed", "stolen"}]
  /\ partial \in BOOLEAN
  /\ mixed \in [Handlers -> BOOLEAN]
  /\ proofs = [h \in Handlers |-> proofs[h]]
  /\ \A h \in Handlers :
       /\ pc[h] \in SettingSteps \cup {"resolve", "prove"} => job[h].tool = "wp"
       /\ pc[h] = "idle" => targets[h] = <<>> /\ proofs[h] = {}

\* What a fetch has got, and what it is still to be sent.
Stream(h) == got[h] \o iterator[ArrayOf(h)].waiting

PagesOf(h) ==
  pages[h] # "stolen" =>
    /\ pc[h] = "page" /\ ~iterator[ArrayOf(h)].cleared =>
         /\ ToSet(Stream(h)) = ToSet(Contents(ArrayOf(h)))
         /\ pages[h] = "whole" => IsInjective(Stream(h))
    /\ pc[h] = "fetched" /\ job[h].tool # "goals" => ToSet(got[h]) = Names

PagesInv == \A h \in Handlers : PagesOf(h)

CacheInv ==
  /\ partial \/ functions \in {{}, Names}
  /\ \A h \in Handlers : pc[h] = "retry" => partial \/ functions = Names

Started(h) == {p.function : p \in proofs[h]}
AskedFor(h) == IF target = "sandbox" THEN {Extracted} ELSE ToSet(job[h].run.functions)

\* Of the functions a run is to prove, the one that is being resolved.
AtHand(h) == IF pc[h] = "resolve" THEN {} ELSE {wanted[h]}

WorkOf(h) ==
  job[h].tool = "wp" =>
    LET all == job[h].run.all_functions IN
    /\ all => target = "main" /\ pc[h] \notin LookupSteps \cup FetchSteps
    /\ pc[h] \in SettingSteps => todo[h] = job[h].run.functions /\ targets[h] = <<>>
    /\ pc[h] \in {"resolve"} \cup LookupSteps \cup FetchSteps =>
         /\ target = "main"
         /\ ~all => (ToSet(targets[h]) \cup AtHand(h)) \cup ToSet(todo[h]) = AskedFor(h)
    /\ pc[h] \notin {"prove", "done"} => proofs[h] = {}
    /\ pc[h] \in {"prove", "done"} =>
         IF all THEN pages[h] = "stolen" \/ Started(h) \cup ToSet(targets[h]) \in {{}, Names}
         ELSE Started(h) \cup ToSet(targets[h]) = AskedFor(h)
    /\ pc[h] = "done" => targets[h] = <<>>

\* The settings s are those that the run r asked for.
AsAsked(r, s) ==
  /\ s.model = Model(r)
  /\ \A field \in {"prover", "timeout", "prop"} : Asked(r, field, s[field])

SettingsOf(h) ==
  job[h].tool = "wp" /\ ~mixed[h] =>
    LET r == job[h].run IN
    /\ pc[h] # "setProvers" => Asked(r, "prover", settings.prover)
    /\ pc[h] \notin {"setProvers", "setTimeout"} => Asked(r, "timeout", settings.timeout)
    /\ pc[h] \notin SettingSteps => AsAsked(r, settings)
    /\ \A p \in proofs[h] : AsAsked(r, p.settings)

RunInv == \A h \in Handlers : WorkOf(h) /\ SettingsOf(h)

-----------------------------------------------------------------------------
(* Sequences.                                                              *)

\* The entries of a sequence are what it is a sequence of.
LEMMA Entries ==
  ASSUME NEW S, NEW s \in Seq(S)
  PROVE  /\ \A e : e \in ToSet(s) <=> \E i \in 1 .. Len(s) : e = s[i]
         /\ ToSet(s) \subseteq S
         /\ (s = <<>>) <=> (ToSet(s) = {})
<1>1. DOMAIN s = 1 .. Len(s) /\ Len(s) \in Nat /\ \A i \in 1 .. Len(s) : s[i] \in S
  BY LenProperties, ElementOfSeq
<1>2. (s = <<>>) <=> (Len(s) = 0)
  BY <1>1, EmptySeq
<1>3. \A e : e \in ToSet(s) <=> \E i \in 1 .. Len(s) : e = s[i]
  BY <1>1 DEF ToSet
<1>4. (Len(s) = 0) <=> (ToSet(s) = {})
  BY <1>1, <1>3
<1> QED BY <1>1, <1>2, <1>3, <1>4

\* The entries of two sequences put together.
LEMMA EntriesConcat ==
  ASSUME NEW S, NEW s \in Seq(S), NEW t \in Seq(S)
  PROVE  s \o t \in Seq(S) /\ ToSet(s \o t) = ToSet(s) \cup ToSet(t)
<1>1. /\ s \o t \in Seq(S)
      /\ Len(s) \in Nat /\ Len(t) \in Nat
      /\ Len(s \o t) = Len(s) + Len(t)
      /\ \A i \in 1 .. Len(s) + Len(t) : (s \o t)[i] = IF i <= Len(s) THEN s[i] ELSE t[i - Len(s)]
  BY ConcatProperties, LenProperties
<1>2. /\ \A e : e \in ToSet(s \o t) <=> \E i \in 1 .. Len(s) + Len(t) : e = (s \o t)[i]
      /\ \A e : e \in ToSet(s) <=> \E i \in 1 .. Len(s) : e = s[i]
      /\ \A e : e \in ToSet(t) <=> \E i \in 1 .. Len(t) : e = t[i]
  <2>1. \A e : e \in ToSet(s \o t) <=> \E i \in 1 .. Len(s \o t) : e = (s \o t)[i]
    BY <1>1, Entries
  <2>2. /\ \A e : e \in ToSet(s) <=> \E i \in 1 .. Len(s) : e = s[i]
        /\ \A e : e \in ToSet(t) <=> \E i \in 1 .. Len(t) : e = t[i]
    BY Entries
  <2> QED BY <1>1, <2>1, <2>2
<1>3. ASSUME NEW i \in 1 .. Len(s) + Len(t) PROVE (s \o t)[i] \in ToSet(s) \cup ToSet(t)
  <2>1. CASE i <= Len(s)
    BY <1>1, <1>2, <2>1
  <2>2. CASE ~(i <= Len(s))
    <3>1. i - Len(s) \in 1 .. Len(t) /\ (s \o t)[i] = t[i - Len(s)]
      BY <1>1, <2>2
    <3> QED BY <1>2, <3>1
  <2> QED BY <2>1, <2>2
<1>4. ASSUME NEW i \in 1 .. Len(s) PROVE s[i] \in ToSet(s \o t)
  <2>1. i \in 1 .. Len(s) + Len(t) /\ (s \o t)[i] = s[i]
    BY <1>1
  <2> QED BY <1>2, <2>1
<1>5. ASSUME NEW i \in 1 .. Len(t) PROVE t[i] \in ToSet(s \o t)
  <2>1. i + Len(s) \in 1 .. Len(s) + Len(t) /\ (s \o t)[i + Len(s)] = t[i]
    BY <1>1
  <2> QED BY <1>2, <2>1
<1> QED BY <1>1, <1>2, <1>3, <1>4, <1>5

\* An entry appended is one more, and is new to a sequence without it.
LEMMA EntriesAppend ==
  ASSUME NEW S, NEW s \in Seq(S), NEW e \in S
  PROVE  /\ Append(s, e) \in Seq(S) /\ ToSet(Append(s, e)) = ToSet(s) \cup {e}
         /\ IsInjective(s) /\ e \notin ToSet(s) => IsInjective(Append(s, e))
<1>1. /\ Append(s, e) \in Seq(S) /\ Len(s) \in Nat
      /\ Len(Append(s, e)) = Len(s) + 1
      /\ \A i \in 1 .. Len(s) : Append(s, e)[i] = s[i]
      /\ Append(s, e)[Len(s) + 1] = e
  BY AppendProperties, LenProperties
<1>2. /\ \A x : x \in ToSet(Append(s, e)) <=> \E i \in 1 .. Len(s) + 1 : x = Append(s, e)[i]
      /\ \A x : x \in ToSet(s) <=> \E i \in 1 .. Len(s) : x = s[i]
  <2>1. \A x : x \in ToSet(Append(s, e)) <=> \E i \in 1 .. Len(Append(s, e)) : x = Append(s, e)[i]
    BY <1>1, Entries
  <2>2. \A x : x \in ToSet(s) <=> \E i \in 1 .. Len(s) : x = s[i]
    BY Entries
  <2> QED BY <1>1, <2>1, <2>2
<1>3. DOMAIN s = 1 .. Len(s) /\ DOMAIN Append(s, e) = 1 .. Len(s) + 1
  BY <1>1, LenProperties
<1>4. ToSet(Append(s, e)) = ToSet(s) \cup {e}
  BY <1>1, <1>2
<1>5. IsInjective(s) /\ e \notin ToSet(s) => IsInjective(Append(s, e))
  BY <1>1, <1>2, <1>3 DEF IsInjective
<1> QED BY <1>1, <1>4, <1>5

\* The first entry and the others.
LEMMA EntriesHead ==
  ASSUME NEW S, NEW s \in Seq(S), s # <<>>
  PROVE  /\ Head(s) \in S /\ Tail(s) \in Seq(S)
         /\ ToSet(s) = {Head(s)} \cup ToSet(Tail(s))
<1>1. /\ Head(s) \in S /\ Tail(s) \in Seq(S) /\ Len(s) \in Nat \ {0}
      /\ Len(Tail(s)) = Len(s) - 1
      /\ \A i \in 1 .. Len(Tail(s)) : Tail(s)[i] = s[i + 1]
  BY HeadTailProperties, EmptySeq
<1>2. Head(s) = s[1]
  BY <1>1
<1>3. /\ \A x : x \in ToSet(s) <=> \E i \in 1 .. Len(s) : x = s[i]
      /\ \A x : x \in ToSet(Tail(s)) <=> \E i \in 1 .. Len(s) - 1 : x = Tail(s)[i]
  <2>1. \A x : x \in ToSet(Tail(s)) <=> \E i \in 1 .. Len(Tail(s)) : x = Tail(s)[i]
    BY <1>1, Entries
  <2>2. \A x : x \in ToSet(s) <=> \E i \in 1 .. Len(s) : x = s[i]
    BY Entries
  <2> QED BY <1>1, <2>1, <2>2
<1>4. ASSUME NEW i \in 1 .. Len(s) PROVE s[i] \in {Head(s)} \cup ToSet(Tail(s))
  <2>1. CASE i = 1
    BY <1>2, <2>1
  <2>2. CASE i # 1
    <3>1. i - 1 \in 1 .. Len(s) - 1 /\ Tail(s)[i - 1] = s[i]
      BY <1>1, <2>2
    <3> QED BY <1>3, <3>1
  <2> QED BY <2>1, <2>2
<1>5. ASSUME NEW i \in 1 .. Len(s) - 1 PROVE Tail(s)[i] \in ToSet(s)
  <2>1. i + 1 \in 1 .. Len(s) /\ Tail(s)[i] = s[i + 1]
    BY <1>1
  <2> QED BY <1>3, <2>1
<1>6. Head(s) \in ToSet(s)
  BY <1>1, <1>2, <1>3
<1> QED BY <1>1, <1>3, <1>4, <1>5, <1>6

\* A page and what is left after it are what was to be sent.
LEMMA PageAndRest ==
  ASSUME NEW S, NEW g \in Seq(S), NEW w \in Seq(S), NEW n \in 0 .. Len(w)
  PROVE  /\ SubSeq(w, 1, n) \in Seq(S) /\ SubSeq(w, n + 1, Len(w)) \in Seq(S)
         /\ SubSeq(w, 1, n) \o SubSeq(w, n + 1, Len(w)) = w
         /\ (g \o SubSeq(w, 1, n)) \o SubSeq(w, n + 1, Len(w)) = g \o w
<1>1. Len(w) \in Nat /\ \A i \in 1 .. Len(w) : w[i] \in S
  BY LenProperties, ElementOfSeq
<1>2. SubSeq(w, 1, n) \in Seq(S) /\ SubSeq(w, n + 1, Len(w)) \in Seq(S)
  BY <1>1, SubSeqProperties
<1>3. SubSeq(w, 1, n) \o SubSeq(w, n + 1, Len(w)) = w
  <2>1. 1 \in 1 .. Len(w) + 1 /\ n \in 1 - 1 .. Len(w) /\ Len(w) \in n .. Len(w)
    BY <1>1
  <2>2. SubSeq(w, 1, n) \o SubSeq(w, n + 1, Len(w)) = SubSeq(w, 1, Len(w))
    BY <2>1, ConcatAdjacentSubSeq
  <2> QED BY <2>2, SubSeqFull
<1>4. (g \o SubSeq(w, 1, n)) \o SubSeq(w, n + 1, Len(w)) = g \o w
  <2>1. \A t, u \in Seq(S) : (g \o t) \o u = g \o (t \o u)
    BY ConcatAssociative
  <2>2. (g \o SubSeq(w, 1, n)) \o SubSeq(w, n + 1, Len(w))
          = g \o (SubSeq(w, 1, n) \o SubSeq(w, n + 1, Len(w)))
    BY <1>2, <2>1
  <2> QED BY <1>3, <2>2
<1> QED BY <1>2, <1>3, <1>4

\* The functions of a finite set, in some order.
LEMMA EntriesOfSet ==
  ASSUME NEW S, IsFiniteSet(S)
  PROVE  SetToSeq(S) \in Seq(S) /\ ToSet(SetToSeq(S)) = S
<1> DEFINE n == Cardinality(S)
<1>1. n \in Nat /\ ExistsBijection(1 .. n, S)
  BY FS_CardinalityType
<1>2. PICK b : b \in Bijection(1 .. n, S)
  BY <1>1 DEF ExistsBijection
<1>3. b \in [1 .. n -> S] /\ IsInjective(b)
  BY <1>2 DEF Bijection, Injection
<1>4. SetToSeq(S) \in [1 .. n -> S] /\ IsInjective(SetToSeq(S))
  BY <1>3 DEF SetToSeq
<1>5. SetToSeq(S) \in Injection(1 .. n, S)
  BY <1>4 DEF Injection
<1>6. Cardinality(1 .. n) = n
  BY <1>1, FS_Interval
<1>7. SetToSeq(S) \in Surjection(1 .. n, S)
  BY <1>5, <1>6, FS_Injection
<1>8. ToSet(SetToSeq(S)) = S
  BY <1>4, <1>7 DEF Surjection, ToSet
<1> QED BY <1>1, <1>4, <1>8, SeqDef

\* A sequence has finitely many entries.
LEMMA EntriesFinite == ASSUME NEW S, NEW s \in Seq(S) PROVE IsFiniteSet(ToSet(s))
<1>1. Len(s) \in Nat /\ s \in [1 .. Len(s) -> S] /\ DOMAIN s = 1 .. Len(s)
  BY LenProperties
<1>2. s \in Surjection(1 .. Len(s), ToSet(s))
  BY <1>1 DEF Surjection, ToSet
<1>3. IsFiniteSet(1 .. Len(s))
  BY <1>1, FS_Interval
<1> QED BY <1>2, <1>3, FS_Surjection

-----------------------------------------------------------------------------
(* Types.                                                                  *)

\* What a call was called with.
LEMMA JobFacts ==
  ASSUME TypeInv, NEW h \in Handlers
  PROVE  /\ job[h].tool \in AllTools \cup {"none"}
         /\ job[h].tool = "wp" =>
              /\ job[h].run \in Runs /\ job[h].run.all_functions \in BOOLEAN
              /\ job[h].run.functions \in Seq(Names \cup {Unknown})
         /\ ArrayOf(h) \in Arrays
BY AnalysesAssumption DEF TypeInv, Jobs, AllTools, ArrayOf, Arrays, Names

\* What the array holds is a sequence without duplicates.
LEMMA ContentsFacts ==
  ASSUME TypeInv, NEW a \in Arrays
  PROVE  Contents(a) \in Seq(Names) /\ IsInjective(Contents(a))
BY AnalysesAssumption DEF TypeInv, Contents, Names

\* What is to be sent for the next fetch.
Queue(a) == IF iterator[a].cleared THEN Contents(a) ELSE iterator[a].waiting

\* A page is the beginning of what is to be sent, and the rest is what remains.
LEMMA PageFacts ==
  ASSUME TypeInv, NEW a \in Arrays
  PROVE  /\ Page(a).reload = iterator[a].cleared
         /\ Page(a).updated \in Seq(Names) /\ Page(a).rest \in Seq(Names)
         /\ Page(a).updated \o Page(a).rest = Queue(a)
         /\ \A g \in Seq(Names) : (g \o Page(a).updated) \o Page(a).rest = g \o Queue(a)
<1> DEFINE q == Queue(a)
           n == IF Len(q) < PageSize THEN Len(q) ELSE PageSize
<1>1. q \in Seq(Names)
  BY ContentsFacts DEF TypeInv, Queue
<1>2. n \in 0 .. Len(q)
  <2>1. Len(q) \in Nat
    BY <1>1, LenProperties
  <2> QED BY <2>1, AnalysesAssumption
<1>3. /\ Page(a).reload = iterator[a].cleared
      /\ Page(a).updated = SubSeq(q, 1, n)
      /\ Page(a).rest = SubSeq(q, n + 1, Len(q))
  BY DEF Page, Queue
<1> HIDE DEF n, q
<1>4. /\ SubSeq(q, 1, n) \in Seq(Names) /\ SubSeq(q, n + 1, Len(q)) \in Seq(Names)
      /\ SubSeq(q, 1, n) \o SubSeq(q, n + 1, Len(q)) = q
  <2>1. <<>> \in Seq(Names)
    BY EmptySeq
  <2> QED BY <1>1, <1>2, <2>1, PageAndRest
<1>5. \A g \in Seq(Names) : (g \o SubSeq(q, 1, n)) \o SubSeq(q, n + 1, Len(q)) = g \o q
  BY <1>1, <1>2, PageAndRest
<1> QED BY <1>3, <1>4, <1>5 DEF q

\* What a fetch changes.
LEMMA FetchFacts ==
  ASSUME TypeInv, NEW h \in Handlers, Fetch(h)
  PROVE  /\ Accumulate(got[h], Page(ArrayOf(h))) \in Seq(Names)
         /\ got' = [got EXCEPT ![h] = Accumulate(got[h], Page(ArrayOf(h)))]
         /\ iterator' = [iterator EXCEPT ![ArrayOf(h)] =
              [cleared |-> FALSE, waiting |-> Page(ArrayOf(h)).rest]]
         /\ pc[h] = "page"
         /\ pc' = [pc EXCEPT ![h] = IF Page(ArrayOf(h)).rest = <<>> THEN "fetched" ELSE "page"]
         /\ pages' = [x \in Handlers |->
              IF x # h /\ pc[x] = "page" /\ ArrayOf(x) = ArrayOf(h) THEN "stolen" ELSE pages[x]]
         /\ UNCHANGED <<target, functions, settings, goals, job, wanted, todo, targets, partial,
                        mixed, proofs>>
<1>1. Accumulate(got[h], Page(ArrayOf(h))) \in Seq(Names)
  <2>1. Page(ArrayOf(h)).updated \in Seq(Names) /\ got[h] \in Seq(Names) /\ <<>> \in Seq(Names)
    BY JobFacts, PageFacts, EmptySeq DEF TypeInv
  <2>2. \A g \in Seq(Names) : g \o Page(ArrayOf(h)).updated \in Seq(Names)
    BY <2>1, EntriesConcat
  <2> QED BY <2>1, <2>2 DEF Accumulate
<1>2. /\ got' = [got EXCEPT ![h] = Accumulate(got[h], Page(ArrayOf(h)))]
      /\ iterator' = [iterator EXCEPT ![ArrayOf(h)] =
              [cleared |-> FALSE, waiting |-> Page(ArrayOf(h)).rest]]
  BY DEF Fetch, TypeInv
<1>3. /\ pc[h] = "page"
      /\ pc' = [pc EXCEPT ![h] = IF Page(ArrayOf(h)).rest = <<>> THEN "fetched" ELSE "page"]
      /\ UNCHANGED <<target, functions, settings, goals, job, wanted, todo, targets, partial,
                     mixed, proofs>>
  BY DEF Fetch, Goto, LastPage
<1>4. pages' = [x \in Handlers |->
        IF x # h /\ pc[x] = "page" /\ ArrayOf(x) = ArrayOf(h) THEN "stolen" ELSE pages[x]]
  BY DEF Fetch, InFetch
<1> QED BY <1>1, <1>2, <1>3, <1>4

\* What the start of a proof changes.
LEMMA ProveFacts ==
  ASSUME TypeInv, NEW h \in Handlers, Prove(h)
  PROVE  \E f \in Names :
           /\ ToSet(targets[h]) = {f} \cup ToSet(targets'[h])
           /\ targets' = [targets EXCEPT ![h] = targets'[h]] /\ targets'[h] \in Seq(Names)
           /\ goals' \in Seq(Names) /\ IsInjective(goals')
           /\ ToSet(goals') = ToSet(goals) \cup {f}
           /\ iterator'["functions"] = iterator["functions"]
           /\ iterator'["goals"] =
                [cleared |-> iterator["goals"].cleared, waiting |-> iterator'["goals"].waiting]
           /\ iterator'["goals"].waiting =
                IF iterator["goals"].cleared \/ f \in ToSet(iterator["goals"].waiting)
                THEN iterator["goals"].waiting ELSE Append(iterator["goals"].waiting, f)
           /\ iterator' \in [Arrays -> [cleared : BOOLEAN, waiting : Seq(Names)]]
           /\ proofs' = [proofs EXCEPT ![h] = proofs[h] \cup {[function |-> f, settings |-> settings]}]
           /\ pages' = [x \in Handlers |->
                IF pc[x] = "page" /\ ArrayOf(x) = "goals" /\ pages[x] = "whole" THEN "changed"
                ELSE pages[x]]
           /\ pc[h] = "prove"
           /\ UNCHANGED <<target, functions, settings, pc, job, wanted, got, todo, partial, mixed>>
<1>1. targets[h] \in Seq(Names) /\ targets[h] # <<>> /\ pc[h] = "prove"
  BY DEF Prove, Proved, TypeInv
<1>2. PICK f \in Names : f = Head(targets[h])
  BY <1>1, EntriesHead
<1>3. targets' = [targets EXCEPT ![h] = Tail(targets[h])]
  BY DEF Prove, TypeInv
<1>4. Tail(targets[h]) \in Seq(Names) /\ ToSet(targets[h]) = {f} \cup ToSet(Tail(targets[h]))
  BY <1>1, <1>2, EntriesHead
<1>5. targets'[h] = Tail(targets[h])
  BY <1>3 DEF TypeInv
<1>6. goals' \in Seq(Names) /\ IsInjective(goals') /\ ToSet(goals') = ToSet(goals) \cup {f}
  <2>1. goals' = IF f \in ToSet(goals) THEN goals ELSE Append(goals, f)
    BY <1>2 DEF Prove
  <2>2. goals \in Seq(Names) /\ IsInjective(goals)
    BY DEF TypeInv
  <2>3. /\ Append(goals, f) \in Seq(Names) /\ ToSet(Append(goals, f)) = ToSet(goals) \cup {f}
        /\ f \notin ToSet(goals) => IsInjective(Append(goals, f))
    BY <2>2, EntriesAppend
  <2> QED BY <2>1, <2>2, <2>3
<1>7. iterator["goals"] \in [cleared : BOOLEAN, waiting : Seq(Names)]
  BY DEF TypeInv, Arrays
<1> DEFINE w == IF iterator["goals"].cleared \/ f \in ToSet(iterator["goals"].waiting)
                THEN iterator["goals"].waiting ELSE Append(iterator["goals"].waiting, f)
<1>8. iterator' = [iterator EXCEPT !["goals"].waiting = w]
  BY <1>2 DEF Prove
<1>9. w \in Seq(Names)
  BY <1>7, EntriesAppend
<1>10. /\ iterator'["functions"] = iterator["functions"]
       /\ iterator'["goals"] = [cleared |-> iterator["goals"].cleared, waiting |-> w]
       /\ iterator' \in [Arrays -> [cleared : BOOLEAN, waiting : Seq(Names)]]
  <2> HIDE DEF w
  <2> QED BY <1>7, <1>8, <1>9 DEF TypeInv, Arrays
<1>11. iterator'["goals"].waiting = w
  BY <1>10
<1>12. proofs' = [proofs EXCEPT ![h] = proofs[h] \cup {[function |-> f, settings |-> settings]}]
  BY <1>2 DEF Prove
<1>13. pages' = [x \in Handlers |->
         IF pc[x] = "page" /\ ArrayOf(x) = "goals" /\ pages[x] = "whole" THEN "changed" ELSE pages[x]]
  BY DEF Prove, InFetch
<1>14. UNCHANGED <<target, functions, settings, pc, job, wanted, got, todo, partial, mixed>>
  BY DEF Prove
<1> QED BY <1>1, <1>3, <1>4, <1>5, <1>6, <1>10, <1>11, <1>12, <1>13, <1>14

\* What a lookup that finds the name keeps.
LEMMA KeepFacts ==
  ASSUME TypeInv, NEW h \in Handlers, wanted[h] \in functions
  PROVE  /\ wanted[h] \in Names
         /\ Append(targets[h], wanted[h]) \in Seq(Names)
         /\ ToSet(Append(targets[h], wanted[h])) = ToSet(targets[h]) \cup {wanted[h]}
         /\ Keep(h) => targets' = IF job[h].tool = "wp"
                                  THEN [targets EXCEPT ![h] = Append(targets[h], wanted[h])]
                                  ELSE targets
<1>1. wanted[h] \in Names /\ targets[h] \in Seq(Names)
  BY DEF TypeInv
<1> QED BY <1>1, EntriesAppend DEF Keep

\* The whole cache, as a list.
LEMMA CacheAsList ==
  ASSUME TypeInv
  PROVE  SetToSeq(functions) \in Seq(Names) /\ ToSet(SetToSeq(functions)) = functions
<1>1. IsFiniteSet(Names)
  BY AnalysesAssumption, EntriesFinite DEF Names
<1>2. functions \subseteq Names
  BY DEF TypeInv
<1>3. IsFiniteSet(functions)
  BY <1>1, <1>2, FS_Subset
<1>4. SetToSeq(functions) \in Seq(functions) /\ ToSet(SetToSeq(functions)) = functions
  BY <1>3, EntriesOfSet
<1> QED BY <1>2, <1>4, SeqMonotonic

\* Nothing is under way at first.
LEMMA TypeInit == Init => TypeInv
<1> SUFFICES ASSUME Init PROVE TypeInv
  OBVIOUS
<1>1. <<>> \in Seq(Names) /\ <<>> \in Seq(Names \cup {Unknown}) /\ IsInjective(<<>>)
  BY EmptySeq DEF IsInjective
<1>2. /\ target \in {"main", "sandbox"} /\ functions \subseteq Names /\ settings = Settings
      /\ goals = <<>> /\ partial \in BOOLEAN
  BY DEF Init, Settings
<1>3. iterator \in [Arrays -> [cleared : BOOLEAN, waiting : Seq(Names)]]
  BY <1>1 DEF Init
<1>4. /\ pc \in [Handlers -> Locations] /\ job \in [Handlers -> Jobs]
      /\ wanted \in [Handlers -> Names \cup {Unknown}]
      /\ pages \in [Handlers -> {"whole", "changed", "stolen"}]
      /\ mixed \in [Handlers -> BOOLEAN] /\ proofs = [h \in Handlers |-> proofs[h]]
  BY DEF Init, Locations, Jobs, NoJob
<1>5. /\ got \in [Handlers -> Seq(Names)] /\ targets \in [Handlers -> Seq(Names)]
      /\ todo \in [Handlers -> Seq(Names \cup {Unknown})]
  BY <1>1 DEF Init
<1>6. \A h \in Handlers :
        /\ pc[h] \in SettingSteps \cup {"resolve", "prove"} => job[h].tool = "wp"
        /\ pc[h] = "idle" => targets[h] = <<>> /\ proofs[h] = {}
  BY DEF Init, SettingSteps, LookupSteps
<1> QED BY <1>1, <1>2, <1>3, <1>4, <1>5, <1>6 DEF TypeInv

\* A call starts.
LEMMA StartKeepsType ==
  ASSUME TypeInv, NEW h \in Handlers, NEW j \in Jobs, NEW l \in Locations, Start(h, j, l),
         l \in SettingSteps => j.tool = "wp",
         l \notin {"idle", "resolve", "prove"},
         wanted' \in [Handlers -> Names \cup {Unknown}],
         todo' \in [Handlers -> Seq(Names \cup {Unknown})]
  PROVE  TypeInv'
<1>1. /\ job' = [job EXCEPT ![h] = j] /\ pc' = [pc EXCEPT ![h] = l]
      /\ UNCHANGED <<target, functions, frama, got, targets, history>>
  BY DEF Start, Goto
<1>2. job' \in [Handlers -> Jobs] /\ pc' \in [Handlers -> Locations]
  BY <1>1 DEF TypeInv
<1>3. ASSUME NEW x \in Handlers
      PROVE  /\ pc'[x] \in SettingSteps \cup {"resolve", "prove"} => job'[x].tool = "wp"
             /\ pc'[x] = "idle" => targets'[x] = <<>> /\ proofs'[x] = {}
  BY <1>1 DEF TypeInv, history
<1>4. Settings' = Settings
  BY <1>1 DEF frama, Settings
<1> QED BY <1>1, <1>2, <1>3, <1>4 DEF TypeInv, frama, history

\* A call ends.
LEMMA EndKeepsType ==
  ASSUME TypeInv, NEW h \in Handlers, End(h),
         UNCHANGED <<target, functions, frama, calls, partial>>
  PROVE  TypeInv'
<1>1. <<>> \in Seq(Names) /\ <<>> \in Seq(Names \cup {Unknown})
  BY EmptySeq
<1>2. NoJob \in Jobs /\ NoJob.tool = "none"
  BY DEF Jobs, NoJob
<1>3. /\ pc' \in [Handlers -> Locations] /\ job' \in [Handlers -> Jobs]
      /\ wanted' \in [Handlers -> Names \cup {Unknown}]
      /\ pages' \in [Handlers -> {"whole", "changed", "stolen"}]
      /\ mixed' \in [Handlers -> BOOLEAN] /\ proofs' = [x \in Handlers |-> proofs'[x]]
  BY <1>2 DEF End, Goto, TypeInv, Locations
<1>4. /\ got' \in [Handlers -> Seq(Names)] /\ targets' \in [Handlers -> Seq(Names)]
      /\ todo' \in [Handlers -> Seq(Names \cup {Unknown})]
  BY <1>1 DEF End, TypeInv
<1>5. ASSUME NEW x \in Handlers
      PROVE  /\ pc'[x] \in SettingSteps \cup {"resolve", "prove"} => job'[x].tool = "wp"
             /\ pc'[x] = "idle" => targets'[x] = <<>> /\ proofs'[x] = {}
  BY DEF End, Goto, TypeInv, SettingSteps, LookupSteps
<1>6. Settings' = Settings
  BY DEF frama, Settings
<1> QED BY <1>3, <1>4, <1>5, <1>6 DEF TypeInv, frama

\* TypeInv is inductive.
LEMMA TypeStep == TypeInv /\ [Next]_vars => TypeInv'
<1> SUFFICES ASSUME TypeInv, [Next]_vars PROVE TypeInv'
  OBVIOUS
<1>0. ASSUME UNCHANGED <<target, functions, settings, goals, iterator, job, got, todo, targets,
                         partial, mixed, proofs>>,
             pc' \in [Handlers -> Locations],
             wanted' \in [Handlers -> Names \cup {Unknown}],
             pages' \in [Handlers -> {"whole", "changed", "stolen"}],
             \A x \in Handlers :
               /\ pc'[x] \in SettingSteps \cup {"resolve", "prove"} => job[x].tool = "wp"
               /\ pc'[x] = "idle" => pc[x] = "idle"
      PROVE  TypeInv'
  <2>1. Settings' = Settings
    BY <1>0 DEF Settings
  <2> QED BY <1>0, <2>1 DEF TypeInv
<1>1. ASSUME NEW h \in Handlers, NEW f \in Names \cup {Unknown}, CallResolve(h, f) PROVE TypeInv'
  <2>1. [tool |-> "resolve"] \in Jobs /\ "lookup" \in Locations
    BY DEF Jobs, Locations, LookupSteps
  <2>2. wanted' \in [Handlers -> Names \cup {Unknown}] /\ todo' \in [Handlers -> Seq(Names \cup {Unknown})]
    BY <1>1 DEF CallResolve, TypeInv
  <2> QED BY <1>1, <2>1, <2>2, StartKeepsType DEF CallResolve, LookupSteps, SettingSteps
<1>2. ASSUME NEW h \in Handlers, NEW run \in Runs, CallWp(h, run) PROVE TypeInv'
  <2>1. [tool |-> "wp", run |-> run] \in Jobs /\ "setProvers" \in Locations
    BY DEF Jobs, Locations, SettingSteps
  <2>2. wanted' \in [Handlers -> Names \cup {Unknown}] /\ todo' \in [Handlers -> Seq(Names \cup {Unknown})]
    BY <1>2, AnalysesAssumption DEF CallWp, TypeInv, Names
  <2> QED BY <1>2, <2>1, <2>2, StartKeepsType DEF CallWp, LookupSteps, SettingSteps
<1>3. ASSUME NEW h \in Handlers, CallList(h) PROVE TypeInv'
  <2>1. [tool |-> "list"] \in Jobs
    BY DEF Jobs
  <2>2. PICK l \in {"reset", "done"} : Start(h, [tool |-> "list"], l)
    BY <1>3 DEF CallList
  <2>3. l \in Locations /\ l \notin SettingSteps \cup LookupSteps \cup {"idle", "resolve", "prove"}
    BY DEF Locations, FetchSteps, SettingSteps, LookupSteps
  <2>4. wanted' \in [Handlers -> Names \cup {Unknown}] /\ todo' \in [Handlers -> Seq(Names \cup {Unknown})]
    BY <1>3 DEF CallList, TypeInv
  <2> QED BY <2>1, <2>2, <2>3, <2>4, StartKeepsType
<1>4. ASSUME NEW h \in Handlers, CallRefresh(h) \/ CallGoals(h) PROVE TypeInv'
  <2>1. PICK j \in {[tool |-> "refresh"], [tool |-> "goals"]} : Start(h, j, "reset")
    BY <1>4 DEF CallRefresh, CallGoals
  <2>2. j \in Jobs
    BY DEF Jobs
  <2>3. "reset" \in Locations /\ "reset" \notin SettingSteps \cup LookupSteps \cup {"idle", "resolve", "prove"}
    BY DEF Locations, FetchSteps, SettingSteps, LookupSteps
  <2>4. wanted' \in [Handlers -> Names \cup {Unknown}] /\ todo' \in [Handlers -> Seq(Names \cup {Unknown})]
    BY <1>4 DEF CallRefresh, CallGoals, TypeInv
  <2> QED BY <2>1, <2>2, <2>3, <2>4, StartKeepsType
<1>5. ASSUME NEW h \in Handlers, Reset(h) PROVE TypeInv'
  <2>1. <<>> \in Seq(Names)
    BY EmptySeq
  <2>2. iterator' \in [Arrays -> [cleared : BOOLEAN, waiting : Seq(Names)]]
    BY <1>5, <2>1, JobFacts DEF Reset, TypeInv
  <2>3. got' \in [Handlers -> Seq(Names)]
    BY <1>5, <2>1 DEF Reset, TypeInv
  <2>4. pc' \in [Handlers -> Locations] /\ pages' \in [Handlers -> {"whole", "changed", "stolen"}]
    BY <1>5 DEF Reset, Goto, TypeInv, Locations, FetchSteps
  <2>5. ASSUME NEW x \in Handlers
        PROVE  /\ pc'[x] \in SettingSteps \cup {"resolve", "prove"} => job[x].tool = "wp"
               /\ pc'[x] = "idle" => targets[x] = <<>> /\ proofs[x] = {}
    BY <1>5 DEF Reset, Goto, TypeInv, SettingSteps, LookupSteps
  <2>6. UNCHANGED <<target, functions, settings, goals, job, wanted, todo, targets, partial, mixed, proofs>>
    BY <1>5 DEF Reset
  <2>7. Settings' = Settings
    BY <2>6 DEF Settings
  <2> QED BY <2>2, <2>3, <2>4, <2>5, <2>6, <2>7 DEF TypeInv
<1>6. ASSUME NEW h \in Handlers, ResetIgnored(h) PROVE TypeInv'
  <2>1. UNCHANGED <<target, functions, settings, goals, iterator, job, wanted, got, todo, targets,
                    partial, mixed, proofs>>
    BY <1>6 DEF ResetIgnored, frama, locals
  <2>2. pc' \in [Handlers -> Locations] /\ pages' \in [Handlers -> {"whole", "changed", "stolen"}]
    BY <1>6 DEF ResetIgnored, Goto, TypeInv, Locations, FetchSteps
  <2>3. ASSUME NEW x \in Handlers
        PROVE  /\ pc'[x] \in SettingSteps \cup {"resolve", "prove"} => job[x].tool = "wp"
               /\ pc'[x] = "idle" => pc[x] = "idle"
    BY <1>6 DEF ResetIgnored, Goto, TypeInv, SettingSteps, LookupSteps
  <2> QED BY <1>0, <2>1, <2>2, <2>3 DEF TypeInv
<1>7. ASSUME NEW h \in Handlers, Fetch(h) PROVE TypeInv'
  <2>1. Page(ArrayOf(h)).rest \in Seq(Names) /\ ArrayOf(h) \in Arrays
    BY JobFacts, PageFacts
  <2>2. iterator' \in [Arrays -> [cleared : BOOLEAN, waiting : Seq(Names)]]
    <3>1. iterator' = [iterator EXCEPT ![ArrayOf(h)] =
            [cleared |-> FALSE, waiting |-> Page(ArrayOf(h)).rest]]
      BY <1>7, FetchFacts
    <3>2. [cleared |-> FALSE, waiting |-> Page(ArrayOf(h)).rest] \in [cleared : BOOLEAN, waiting : Seq(Names)]
      BY <2>1
    <3> QED BY <2>1, <3>1, <3>2 DEF TypeInv
  <2>3. got' \in [Handlers -> Seq(Names)]
    BY <1>7, FetchFacts DEF TypeInv
  <2>4. /\ \E l \in {"fetched", "page"} : pc' = [pc EXCEPT ![h] = l]
        /\ pages' = [x \in Handlers |->
             IF x # h /\ pc[x] = "page" /\ ArrayOf(x) = ArrayOf(h) THEN "stolen" ELSE pages[x]]
    BY <1>7, FetchFacts
  <2>5. /\ pc' \in [Handlers -> Locations] /\ pages' \in [Handlers -> {"whole", "changed", "stolen"}]
        /\ \A x \in Handlers :
             /\ pc'[x] \in SettingSteps \cup {"resolve", "prove"} => job[x].tool = "wp"
             /\ pc'[x] = "idle" => targets[x] = <<>> /\ proofs[x] = {}
    BY <2>4 DEF TypeInv, SettingSteps, Locations, FetchSteps
  <2>6. UNCHANGED <<target, functions, settings, goals, job, wanted, todo, targets, partial, mixed, proofs>>
    BY <1>7, FetchFacts
  <2>7. Settings' = Settings
    BY <2>6 DEF Settings
  <2> QED BY <2>2, <2>3, <2>5, <2>6, <2>7 DEF TypeInv
<1>8. ASSUME NEW h \in Handlers, Lookup(h) \/ Retry(h) PROVE TypeInv'
  <2>1. /\ pc[h] \in LookupSteps
        /\ UNCHANGED <<target, functions, settings, goals, iterator, job, wanted, got, todo,
                       pages, partial, mixed, proofs>>
    BY <1>8 DEF Lookup, Retry, frama, history, LookupSteps
  <2>2. \/ targets' = targets
        \/ /\ targets' = [targets EXCEPT ![h] = Append(targets[h], wanted[h])]
           /\ Append(targets[h], wanted[h]) \in Seq(Names)
    BY <1>8, KeepFacts DEF Lookup, Retry
  <2>3. targets' \in [Handlers -> Seq(Names)]
    BY <2>2 DEF TypeInv
  <2>4. \E l \in {"reset", "notfound", "resolve", "done"} :
          pc' = [pc EXCEPT ![h] = l] /\ (l = "resolve" => job[h].tool = "wp")
    BY <1>8 DEF Lookup, Retry, Goto, Resolved, OnMiss
  <2>5. pc' \in [Handlers -> Locations]
    BY <2>4 DEF TypeInv, Locations, FetchSteps
  <2>6. ASSUME NEW x \in Handlers
        PROVE  /\ pc'[x] \in SettingSteps \cup {"resolve", "prove"} => job[x].tool = "wp"
               /\ pc'[x] = "idle" => targets'[x] = <<>> /\ proofs[x] = {}
    <3>1. CASE x = h
      BY <2>4, <3>1 DEF TypeInv, SettingSteps, LookupSteps
    <3>2. CASE x # h
      <4>1. pc'[x] = pc[x] /\ targets'[x] = targets[x]
        BY <2>2, <2>4, <3>2 DEF TypeInv
      <4> QED BY <4>1 DEF TypeInv
    <3> QED BY <3>1, <3>2
  <2>7. Settings' = Settings
    BY <2>1 DEF Settings
  <2> QED BY <2>1, <2>3, <2>5, <2>6, <2>7 DEF TypeInv
<1>9. ASSUME NEW h \in Handlers, UpdateFunctions(h) PROVE TypeInv'
  <2>1. <<>> \in Seq(Names)
    BY EmptySeq
  <2>2. functions' \subseteq Names /\ partial' \in BOOLEAN
    <3>1. got[h] \in Seq(Names)
      BY DEF TypeInv
    <3>2. ToSet(got[h]) \subseteq Names
      BY <3>1, Entries
    <3>3. functions' = ToSet(got[h]) /\ partial' = (pages[h] = "stolen")
      BY <1>9 DEF UpdateFunctions
    <3> QED BY <3>2, <3>3
  <2>3. got' \in [Handlers -> Seq(Names)]
    BY <1>9, <2>1 DEF UpdateFunctions, TypeInv
  <2>4. \E l \in {"done", "retry"} : pc' = [pc EXCEPT ![h] = l]
    BY <1>9 DEF UpdateFunctions, Goto
  <2>5. pc' \in [Handlers -> Locations]
    BY <2>4 DEF TypeInv, Locations, LookupSteps
  <2>6. ASSUME NEW x \in Handlers
        PROVE  /\ pc'[x] \in SettingSteps \cup {"resolve", "prove"} => job[x].tool = "wp"
               /\ pc'[x] = "idle" => targets[x] = <<>> /\ proofs[x] = {}
    BY <2>4 DEF TypeInv, SettingSteps, LookupSteps
  <2>7. UNCHANGED <<target, settings, goals, iterator, job, wanted, todo, targets, pages, mixed, proofs>>
    BY <1>9 DEF UpdateFunctions, frama
  <2>8. Settings' = Settings
    BY <2>7 DEF Settings
  <2> QED BY <2>2, <2>3, <2>5, <2>6, <2>7, <2>8 DEF TypeInv
<1>10. ASSUME NEW h \in Handlers, SetProvers(h) \/ SetTimeout(h) \/ SetWpConfig(h) PROVE TypeInv'
  <2>1. settings' = Settings'
    BY <1>10 DEF SetProvers, SetTimeout, SetWpConfig, Set, TypeInv, Settings
  <2>2. /\ pc[h] \in SettingSteps
        /\ UNCHANGED <<target, functions, goals, iterator, job, wanted, got, todo, pages, partial, proofs>>
    BY <1>10 DEF SetProvers, SetTimeout, SetWpConfig, Set, SettingSteps
  <2>3. mixed' \in [Handlers -> BOOLEAN]
    BY <1>10 DEF SetProvers, SetTimeout, SetWpConfig, Set, TypeInv
  <2>4. \E l \in {"setTimeout", "setWpConfig", "prove", "resolve"} : pc' = [pc EXCEPT ![h] = l]
    BY <1>10 DEF SetProvers, SetTimeout, SetWpConfig, Goto
  <2>5. pc' \in [Handlers -> Locations]
    BY <2>4 DEF TypeInv, Locations, SettingSteps
  <2>6. <<Extracted>> \in Seq(Names)
    BY AnalysesAssumption DEF Names
  <2>7. targets' = [targets EXCEPT ![h] = <<Extracted>>] \/ targets' = targets
    BY <1>10 DEF SetProvers, SetTimeout, SetWpConfig, Set
  <2>8. targets' \in [Handlers -> Seq(Names)]
    BY <2>6, <2>7 DEF TypeInv
  <2>9. job[h].tool = "wp"
    BY <2>2 DEF TypeInv
  <2>10. ASSUME NEW x \in Handlers
         PROVE  /\ pc'[x] \in SettingSteps \cup {"resolve", "prove"} => job[x].tool = "wp"
                /\ pc'[x] = "idle" => targets'[x] = <<>> /\ proofs[x] = {}
    <3>1. CASE x = h
      BY <2>4, <2>9, <3>1 DEF TypeInv
    <3>2. CASE x # h
      <4>1. pc'[x] = pc[x] /\ targets'[x] = targets[x]
        BY <2>4, <2>7, <3>2 DEF TypeInv
      <4> QED BY <4>1 DEF TypeInv
    <3> QED BY <3>1, <3>2
  <2> QED BY <2>1, <2>2, <2>3, <2>5, <2>8, <2>10 DEF TypeInv
<1>11. ASSUME NEW h \in Handlers, Resolve(h) PROVE TypeInv'
  <2>1. /\ pc[h] = "resolve" /\ job[h].tool = "wp"
        /\ UNCHANGED <<target, functions, settings, goals, iterator, job, got, partial, mixed, proofs>>
    BY <1>11 DEF Resolve, frama, TypeInv
  <2>2. targets' = [targets EXCEPT ![h] = SetToSeq(functions)] \/ targets' = targets
    BY <1>11 DEF Resolve
  <2>3. targets' \in [Handlers -> Seq(Names)]
    BY <2>2, CacheAsList DEF TypeInv
  <2>4. \E l \in {"prove", "lookup"} : pc' = [pc EXCEPT ![h] = l]
    BY <1>11 DEF Resolve, Goto
  <2>5. pc' \in [Handlers -> Locations]
    BY <2>4 DEF TypeInv, Locations, LookupSteps
  <2>6. pages' \in [Handlers -> {"whole", "changed", "stolen"}]
    BY <1>11 DEF Resolve, TypeInv
  <2>7. todo[h] \in Seq(Names \cup {Unknown})
    BY DEF TypeInv
  <2>8. todo[h] # <<>> =>
          Head(todo[h]) \in Names \cup {Unknown} /\ Tail(todo[h]) \in Seq(Names \cup {Unknown})
    BY <2>7, HeadTailProperties
  <2>9. /\ wanted' \in [Handlers -> Names \cup {Unknown}]
        /\ todo' \in [Handlers -> Seq(Names \cup {Unknown})]
    BY <1>11, <2>8 DEF Resolve, TypeInv
  <2>10. ASSUME NEW x \in Handlers
         PROVE  /\ pc'[x] \in SettingSteps \cup {"resolve", "prove"} => job[x].tool = "wp"
                /\ pc'[x] = "idle" => targets'[x] = <<>> /\ proofs[x] = {}
    <3>1. CASE x = h
      BY <2>1, <2>4, <3>1 DEF TypeInv
    <3>2. CASE x # h
      <4>1. pc'[x] = pc[x] /\ targets'[x] = targets[x]
        BY <2>2, <2>4, <3>2 DEF TypeInv
      <4> QED BY <4>1 DEF TypeInv
    <3> QED BY <3>1, <3>2
  <2>11. Settings' = Settings
    BY <2>1 DEF Settings
  <2> QED BY <2>1, <2>3, <2>5, <2>6, <2>9, <2>10, <2>11 DEF TypeInv
<1>12. ASSUME NEW h \in Handlers, Prove(h) PROVE TypeInv'
  <2>1. PICK f \in Names :
          /\ targets' = [targets EXCEPT ![h] = targets'[h]] /\ targets'[h] \in Seq(Names)
          /\ goals' \in Seq(Names) /\ IsInjective(goals')
          /\ iterator' \in [Arrays -> [cleared : BOOLEAN, waiting : Seq(Names)]]
          /\ proofs' = [proofs EXCEPT ![h] = proofs[h] \cup {[function |-> f, settings |-> settings]}]
          /\ pages' = [x \in Handlers |->
               IF pc[x] = "page" /\ ArrayOf(x) = "goals" /\ pages[x] = "whole" THEN "changed"
               ELSE pages[x]]
          /\ pc[h] = "prove"
          /\ UNCHANGED <<target, functions, settings, pc, job, wanted, got, todo, partial, mixed>>
    BY <1>12, ProveFacts
  <2>2. \E s \in Seq(Names) : targets' = [targets EXCEPT ![h] = s]
    BY <2>1
  <2>3. targets' \in [Handlers -> Seq(Names)]
    BY <2>2 DEF TypeInv
  <2>4. pages' \in [Handlers -> {"whole", "changed", "stolen"}]
    BY <2>1 DEF TypeInv
  <2>5. proofs' = [x \in Handlers |-> proofs'[x]]
    BY <2>1 DEF TypeInv
  <2>6. ASSUME NEW x \in Handlers, pc[x] = "idle" PROVE targets'[x] = <<>> /\ proofs'[x] = {}
    <3>1. x # h
      BY <2>1, <2>6
    <3>2. targets'[x] = targets[x] /\ proofs'[x] = proofs[x]
      BY <2>1, <2>2, <3>1 DEF TypeInv
    <3> QED BY <2>6, <3>2 DEF TypeInv
  <2>7. Settings' = Settings
    BY <2>1 DEF Settings
  <2> QED BY <2>1, <2>3, <2>4, <2>5, <2>6, <2>7 DEF TypeInv
<1>13. ASSUME NEW h \in Handlers, Tasks(h) PROVE TypeInv'
  <2>1. UNCHANGED <<target, functions, settings, goals, iterator, job, wanted, got, todo, targets,
                    pages, partial, mixed, proofs>>
    BY <1>13 DEF Tasks, frama, locals, history
  <2>2. pc' = [pc EXCEPT ![h] = "done"]
    BY <1>13 DEF Tasks, Goto
  <2>3. pc' \in [Handlers -> Locations]
    BY <2>2 DEF TypeInv, Locations
  <2>4. ASSUME NEW x \in Handlers
        PROVE  /\ pc'[x] \in SettingSteps \cup {"resolve", "prove"} => job[x].tool = "wp"
               /\ pc'[x] = "idle" => pc[x] = "idle"
    BY <2>2 DEF TypeInv, SettingSteps, LookupSteps
  <2> QED BY <1>0, <2>1, <2>3, <2>4 DEF TypeInv
<1>14. ASSUME NEW h \in Handlers, RefuseModel(h) \/ Return(h) \/ RequestFails(h) PROVE TypeInv'
  <2>1. End(h) /\ UNCHANGED <<target, functions, frama, calls, partial>>
    BY <1>14 DEF RefuseModel, Return, RequestFails
  <2> QED BY <2>1, EndKeepsType
<1>15. ASSUME UNCHANGED vars PROVE TypeInv'
  <2>1. UNCHANGED <<target, functions, settings, goals, iterator, pc, job, wanted, got, todo,
                    targets, pages, partial, mixed, proofs>>
    BY <1>15 DEF vars, frama, locals, history
  <2>2. Settings' = Settings
    BY <2>1 DEF Settings
  <2> QED BY <2>1, <2>2 DEF TypeInv
<1> QED BY <1>1, <1>2, <1>3, <1>4, <1>5, <1>6, <1>7, <1>8, <1>9, <1>10, <1>11, <1>12, <1>13, <1>14,
           <1>15 DEF Next

-----------------------------------------------------------------------------
(* Steps.                                                                  *)

\* The steps that neither read an array nor add to it.
Quiet(h) ==
  \/ \E f \in Names \cup {Unknown} : CallResolve(h, f)
  \/ \E run \in Runs : CallWp(h, run)
  \/ CallList(h) \/ CallRefresh(h) \/ CallGoals(h)
  \/ Lookup(h) \/ UpdateFunctions(h) \/ Retry(h)
  \/ SetProvers(h) \/ SetTimeout(h) \/ SetWpConfig(h) \/ RefuseModel(h)
  \/ Resolve(h) \/ Tasks(h)
  \/ Return(h) \/ RequestFails(h)

\* Every step is some call's.
LEMMA Steps ==
  ASSUME Next
  PROVE  \E h \in Handlers : Quiet(h) \/ Reset(h) \/ ResetIgnored(h) \/ Fetch(h) \/ Prove(h)
BY DEF Next, Quiet

\* No step moves another call, or touches what it has in hand.
Unmoved(x) ==
  /\ pc'[x] = pc[x] /\ job'[x] = job[x] /\ wanted'[x] = wanted[x] /\ got'[x] = got[x]
  /\ todo'[x] = todo[x] /\ targets'[x] = targets[x] /\ proofs'[x] = proofs[x]

\* What a call that starts changes.
LEMMA StartFacts ==
  ASSUME TypeInv, NEW h \in Handlers,
         \/ \E f \in Names \cup {Unknown} : CallResolve(h, f)
         \/ \E run \in Runs : CallWp(h, run)
         \/ CallList(h) \/ CallRefresh(h) \/ CallGoals(h)
  PROVE  /\ \A x \in Handlers \ {h} : Unmoved(x)
         /\ pc[h] = "idle" /\ pc'[h] \in {"lookup", "setProvers", "reset", "done"}
         /\ UNCHANGED <<target, functions, settings, goals, iterator, targets, pages, partial, mixed, proofs>>
<1>1. \E j, l : /\ Start(h, j, l) /\ l \in {"lookup", "setProvers", "reset", "done"}
                /\ \E f : wanted' = [wanted EXCEPT ![h] = f] \/ wanted' = wanted
                /\ \E s : todo' = [todo EXCEPT ![h] = s] \/ todo' = todo
  BY DEF CallResolve, CallWp, CallList, CallRefresh, CallGoals
<1>2. PICK j, l, f, s :
        /\ Start(h, j, l) /\ l \in {"lookup", "setProvers", "reset", "done"}
        /\ wanted' = [wanted EXCEPT ![h] = f] \/ wanted' = wanted
        /\ todo' = [todo EXCEPT ![h] = s] \/ todo' = todo
  BY <1>1
<1>3. /\ pc[h] = "idle" /\ pc' = [pc EXCEPT ![h] = l] /\ job' = [job EXCEPT ![h] = j]
      /\ UNCHANGED <<target, functions, settings, goals, iterator, got, targets, pages, partial, mixed, proofs>>
  BY <1>2 DEF Start, Goto, frama, history
<1> QED BY <1>2, <1>3 DEF TypeInv, Unmoved

\* What a call that ends changes.
LEMMA EndFacts ==
  ASSUME TypeInv, NEW h \in Handlers, RefuseModel(h) \/ Return(h) \/ RequestFails(h)
  PROVE  /\ \A x \in Handlers \ {h} : Unmoved(x) /\ pages'[x] = pages[x] /\ mixed'[x] = mixed[x]
         /\ pc'[h] = "idle" /\ job'[h].tool = "none" /\ proofs'[h] = {}
         /\ UNCHANGED <<target, functions, settings, goals, iterator, partial>>
<1>1. End(h) /\ UNCHANGED <<target, functions, frama, calls, partial>>
  BY DEF RefuseModel, Return, RequestFails
<1> QED BY <1>1 DEF End, Goto, NoJob, frama, TypeInv, Unmoved

\* What a lookup changes.
LEMMA LookupFacts ==
  ASSUME TypeInv, NEW h \in Handlers, Lookup(h) \/ Retry(h)
  PROVE  /\ \A x \in Handlers \ {h} : Unmoved(x)
         /\ pc[h] \in LookupSteps
         /\ job' = job /\ wanted' = wanted /\ todo' = todo
         /\ \/ /\ wanted[h] \in functions
               /\ pc'[h] = IF job[h].tool = "wp" THEN "resolve" ELSE "done"
               /\ job[h].tool = "wp" => ToSet(targets'[h]) = ToSet(targets[h]) \cup {wanted[h]}
            \/ /\ wanted[h] \notin functions /\ targets' = targets
               /\ pc'[h] = IF pc[h] = "lookup" THEN "reset" ELSE "notfound"
         /\ UNCHANGED <<target, functions, settings, goals, iterator, pages, partial, mixed, proofs>>
<1>1. /\ pc[h] \in LookupSteps
      /\ UNCHANGED <<target, functions, settings, goals, iterator, job, wanted, got, todo,
                     pages, partial, mixed, proofs>>
  BY DEF Lookup, Retry, frama, history, LookupSteps
<1>2. \E l : /\ pc' = [pc EXCEPT ![h] = l]
             /\ l = IF wanted[h] \in functions THEN IF job[h].tool = "wp" THEN "resolve" ELSE "done"
                    ELSE IF pc[h] = "lookup" THEN "reset" ELSE "notfound"
  BY DEF Lookup, Retry, Goto, Resolved, OnMiss
<1>3. pc' = [pc EXCEPT ![h] = pc'[h]]
      /\ pc'[h] = IF wanted[h] \in functions THEN IF job[h].tool = "wp" THEN "resolve" ELSE "done"
                  ELSE IF pc[h] = "lookup" THEN "reset" ELSE "notfound"
  BY <1>2 DEF TypeInv
<1>4. CASE wanted[h] \in functions
  <2>1. targets' = IF job[h].tool = "wp" THEN [targets EXCEPT ![h] = Append(targets[h], wanted[h])]
                   ELSE targets
    BY <1>4, KeepFacts DEF Lookup, Retry
  <2>2. ToSet(Append(targets[h], wanted[h])) = ToSet(targets[h]) \cup {wanted[h]}
    BY <1>4, KeepFacts
  <2>3. \A x \in Handlers \ {h} : Unmoved(x)
    BY <1>1, <1>3, <2>1 DEF TypeInv, Unmoved
  <2>4. job[h].tool = "wp" => targets'[h] = Append(targets[h], wanted[h])
    BY <2>1 DEF TypeInv
  <2> QED BY <1>1, <1>3, <1>4, <2>2, <2>3, <2>4
<1>5. CASE wanted[h] \notin functions
  <2>1. targets' = targets
    BY <1>5 DEF Lookup, Retry
  <2>2. \A x \in Handlers \ {h} : Unmoved(x)
    BY <1>1, <1>3, <2>1 DEF TypeInv, Unmoved
  <2> QED BY <1>1, <1>3, <1>5, <2>1, <2>2
<1> QED BY <1>4, <1>5

\* What the update of the cache changes.
LEMMA UpdateFacts ==
  ASSUME TypeInv, NEW h \in Handlers, UpdateFunctions(h)
  PROVE  /\ \A x \in Handlers \ {h} : Unmoved(x)
         /\ pc[h] = "fetched" /\ job[h].tool # "goals"
         /\ pc'[h] = IF job[h].tool \in {"list", "refresh"} THEN "done" ELSE "retry"
         /\ functions' = ToSet(got[h]) /\ partial' = (pages[h] = "stolen")
         /\ UNCHANGED <<target, settings, goals, iterator, job, wanted, todo, targets, pages, mixed, proofs>>
BY DEF UpdateFunctions, Goto, frama, TypeInv, Unmoved

\* What a setting changes.
LEMMA SetFacts ==
  ASSUME TypeInv, NEW h \in Handlers, SetProvers(h) \/ SetTimeout(h) \/ SetWpConfig(h)
  PROVE  /\ \A x \in Handlers \ {h} : Unmoved(x) /\ pages'[x] = pages[x]
         /\ \A x \in Handlers \ {h} :
              job[x].tool = "wp" /\ settings' # settings => mixed'[x] = TRUE
         /\ mixed'[h] = mixed[h]
         /\ \A x \in Handlers : ~mixed'[x] => ~mixed[x]
         /\ job[h].tool = "wp"
         /\ \/ /\ pc[h] = "setProvers" /\ pc'[h] = "setTimeout" /\ targets' = targets
               /\ settings' = [settings EXCEPT !.prover = Given(job[h].run, "prover")]
            \/ /\ pc[h] = "setTimeout" /\ pc'[h] = "setWpConfig" /\ targets' = targets
               /\ settings' = [settings EXCEPT !.timeout = Given(job[h].run, "timeout")]
            \/ /\ pc[h] = "setWpConfig"
               /\ settings' = [settings EXCEPT !.model = Model(job[h].run),
                                               !.prop = Given(job[h].run, "prop")]
               /\ IF target = "sandbox" THEN pc'[h] = "prove" /\ targets'[h] = <<Extracted>>
                  ELSE pc'[h] = "resolve" /\ targets' = targets
         /\ UNCHANGED <<target, functions, goals, iterator, job, wanted, got, todo, pages, partial, proofs>>
<1>1. /\ pc[h] \in SettingSteps
      /\ UNCHANGED <<target, functions, goals, iterator, job, wanted, got, todo, pages, partial, proofs>>
  BY DEF SetProvers, SetTimeout, SetWpConfig, Set, SettingSteps
<1>2. mixed' = [x \in Handlers |-> mixed[x] \/ (x # h /\ job[x].tool = "wp" /\ settings' # settings)]
  BY DEF SetProvers, SetTimeout, SetWpConfig, Set
<1>3. job[h].tool = "wp"
  BY <1>1 DEF TypeInv
<1>4. \/ /\ pc[h] = "setProvers" /\ pc' = [pc EXCEPT ![h] = "setTimeout"] /\ targets' = targets
         /\ settings' = [settings EXCEPT !.prover = Given(job[h].run, "prover")]
      \/ /\ pc[h] = "setTimeout" /\ pc' = [pc EXCEPT ![h] = "setWpConfig"] /\ targets' = targets
         /\ settings' = [settings EXCEPT !.timeout = Given(job[h].run, "timeout")]
      \/ /\ pc[h] = "setWpConfig"
         /\ settings' = [settings EXCEPT !.model = Model(job[h].run),
                                         !.prop = Given(job[h].run, "prop")]
         /\ IF target = "sandbox" THEN pc' = [pc EXCEPT ![h] = "prove"] /\ targets' = [targets EXCEPT ![h] = <<Extracted>>]
            ELSE pc' = [pc EXCEPT ![h] = "resolve"] /\ targets' = targets
  BY DEF SetProvers, SetTimeout, SetWpConfig, Set, Goto
<1>5. \A x \in Handlers \ {h} : pc'[x] = pc[x] /\ targets'[x] = targets[x]
  BY <1>4 DEF TypeInv
<1>6. \A x \in Handlers \ {h} : Unmoved(x) /\ pages'[x] = pages[x]
  BY <1>1, <1>5 DEF Unmoved
<1>7. /\ \A x \in Handlers \ {h} : job[x].tool = "wp" /\ settings' # settings => mixed'[x] = TRUE
      /\ mixed'[h] = mixed[h]
      /\ \A x \in Handlers : ~mixed'[x] => ~mixed[x]
  BY <1>2 DEF TypeInv
<1>8. \/ /\ pc[h] = "setProvers" /\ pc'[h] = "setTimeout" /\ targets' = targets
         /\ settings' = [settings EXCEPT !.prover = Given(job[h].run, "prover")]
      \/ /\ pc[h] = "setTimeout" /\ pc'[h] = "setWpConfig" /\ targets' = targets
         /\ settings' = [settings EXCEPT !.timeout = Given(job[h].run, "timeout")]
      \/ /\ pc[h] = "setWpConfig"
         /\ settings' = [settings EXCEPT !.model = Model(job[h].run),
                                         !.prop = Given(job[h].run, "prop")]
         /\ IF target = "sandbox" THEN pc'[h] = "prove" /\ targets'[h] = <<Extracted>>
            ELSE pc'[h] = "resolve" /\ targets' = targets
  BY <1>4 DEF TypeInv
<1> QED BY <1>1, <1>3, <1>6, <1>7, <1>8

\* What the choice of the next function to resolve changes.
LEMMA ResolveFacts ==
  ASSUME TypeInv, NEW h \in Handlers, Resolve(h)
  PROVE  /\ \A x \in Handlers \ {h} : Unmoved(x) /\ pages'[x] = pages[x]
         /\ pc[h] = "resolve" /\ job[h].tool = "wp" /\ job' = job
         /\ \/ /\ job[h].run.all_functions /\ pc'[h] = "prove"
               /\ ToSet(targets'[h]) = functions
               /\ partial => pages'[h] = "stolen"
            \/ /\ ~job[h].run.all_functions /\ todo[h] = <<>> /\ pc'[h] = "prove"
               /\ targets' = targets
            \/ /\ ~job[h].run.all_functions /\ todo[h] # <<>> /\ pc'[h] = "lookup"
               /\ wanted'[h] = Head(todo[h]) /\ todo'[h] = Tail(todo[h]) /\ targets' = targets
         /\ UNCHANGED <<target, functions, settings, goals, iterator, partial, mixed, proofs>>
<1>1. /\ pc[h] = "resolve" /\ job[h].tool = "wp"
      /\ UNCHANGED <<target, functions, settings, goals, iterator, job, got, partial, mixed, proofs>>
  BY DEF Resolve, frama, TypeInv
<1>2. \/ /\ job[h].run.all_functions /\ pc' = [pc EXCEPT ![h] = "prove"]
         /\ targets' = [targets EXCEPT ![h] = SetToSeq(functions)]
         /\ pages' = [pages EXCEPT ![h] = IF partial THEN "stolen" ELSE pages[h]]
         /\ wanted' = wanted /\ todo' = todo
      \/ /\ ~job[h].run.all_functions /\ todo[h] = <<>> /\ pc' = [pc EXCEPT ![h] = "prove"]
         /\ UNCHANGED <<wanted, todo, targets, pages>>
      \/ /\ ~job[h].run.all_functions /\ todo[h] # <<>> /\ pc' = [pc EXCEPT ![h] = "lookup"]
         /\ wanted' = [wanted EXCEPT ![h] = Head(todo[h])] /\ todo' = [todo EXCEPT ![h] = Tail(todo[h])]
         /\ targets' = targets /\ pages' = pages
  BY DEF Resolve, Goto
<1>3. \A x \in Handlers \ {h} : Unmoved(x) /\ pages'[x] = pages[x]
  BY <1>1, <1>2 DEF TypeInv, Unmoved
<1>4. \/ /\ job[h].run.all_functions /\ pc'[h] = "prove"
         /\ targets'[h] = SetToSeq(functions)
         /\ partial => pages'[h] = "stolen"
      \/ /\ ~job[h].run.all_functions /\ todo[h] = <<>> /\ pc'[h] = "prove"
         /\ targets' = targets
      \/ /\ ~job[h].run.all_functions /\ todo[h] # <<>> /\ pc'[h] = "lookup"
         /\ wanted'[h] = Head(todo[h]) /\ todo'[h] = Tail(todo[h]) /\ targets' = targets
  BY <1>2 DEF TypeInv
<1> QED BY <1>1, <1>3, <1>4, CacheAsList

\* What the request for the tasks changes.
LEMMA TasksFacts ==
  ASSUME TypeInv, NEW h \in Handlers, Tasks(h)
  PROVE  /\ \A x \in Handlers \ {h} : Unmoved(x)
         /\ pc[h] = "prove" /\ targets[h] = <<>> /\ pc'[h] = "done"
         /\ UNCHANGED <<target, functions, settings, goals, iterator, job, targets, pages, partial,
                        mixed, proofs>>
BY DEF Tasks, Proved, Goto, frama, locals, history, TypeInv, Unmoved

\* What a quiet step leaves as it is.
LEMMA QuietFacts ==
  ASSUME TypeInv, NEW h \in Handlers, Quiet(h)
  PROVE  /\ iterator' = iterator /\ goals' = goals
         /\ pc'[h] \notin {"page", "fetched"}
         /\ \A x \in Handlers \ {h} : Unmoved(x) /\ pages'[x] = pages[x]
<1>1. CASE \/ \E f \in Names \cup {Unknown} : CallResolve(h, f)
           \/ \E run \in Runs : CallWp(h, run)
           \/ CallList(h) \/ CallRefresh(h) \/ CallGoals(h)
  BY <1>1, StartFacts
<1>2. CASE Lookup(h) \/ Retry(h)
  BY <1>2, LookupFacts DEF LookupSteps
<1>3. CASE UpdateFunctions(h)
  BY <1>3, UpdateFacts
<1>4. CASE SetProvers(h) \/ SetTimeout(h) \/ SetWpConfig(h)
  BY <1>4, SetFacts
<1>5. CASE Resolve(h)
  BY <1>5, ResolveFacts
<1>6. CASE Tasks(h)
  BY <1>6, TasksFacts
<1>7. CASE RefuseModel(h) \/ Return(h) \/ RequestFails(h)
  BY <1>7, EndFacts
<1> QED BY <1>1, <1>2, <1>3, <1>4, <1>5, <1>6, <1>7 DEF Quiet

-----------------------------------------------------------------------------
(* Pages.                                                                  *)

\* No fetch is under way at first.
LEMMA PagesInit == Init => PagesInv
BY DEF Init, PagesInv, PagesOf

\* A fetch whose array and pages stay keeps what it has.
LEMMA PagesFrame ==
  ASSUME NEW x \in Handlers, PagesOf(x), Unmoved(x), pages'[x] = pages[x], goals' = goals,
         pc[x] = "page" => iterator'[ArrayOf(x)] = iterator[ArrayOf(x)]
  PROVE  PagesOf(x)'
<1>1. ArrayOf(x)' = ArrayOf(x) /\ Contents(ArrayOf(x))' = Contents(ArrayOf(x))
  BY DEF Unmoved, ArrayOf, Contents
<1>2. pc[x] = "page" => Stream(x)' = Stream(x) /\ iterator'[ArrayOf(x)'].cleared = iterator[ArrayOf(x)].cleared
  BY <1>1 DEF Unmoved, Stream
<1> QED BY <1>1, <1>2 DEF PagesOf, Unmoved

\* Unless its pages were stolen, what a fetch has with its next page is all it
\* will have but for what is still to be sent after that.
LEMMA NextPage ==
  ASSUME TypeInv, NEW h \in Handlers, PagesOf(h), pages[h] # "stolen", pc[h] = "page"
  PROVE  LET page == Page(ArrayOf(h))
             all  == Accumulate(got[h], page) \o page.rest
         IN  /\ ToSet(all) = ToSet(Contents(ArrayOf(h)))
             /\ pages[h] = "whole" => IsInjective(all)
<1> DEFINE a == ArrayOf(h)
           page == Page(a)
<1>1. a \in Arrays /\ got[h] \in Seq(Names)
  BY JobFacts DEF TypeInv
<1>2. /\ page.reload = iterator[a].cleared
      /\ page.updated \in Seq(Names) /\ page.rest \in Seq(Names)
      /\ page.updated \o page.rest = Queue(a)
      /\ \A g \in Seq(Names) : (g \o page.updated) \o page.rest = g \o Queue(a)
  BY <1>1, PageFacts
<1>3. CASE iterator[a].cleared
  <2>1. Accumulate(got[h], page) = page.updated
    BY <1>2, <1>3, ConcatEmptySeq DEF Accumulate
  <2>2. Accumulate(got[h], page) \o page.rest = Contents(a)
    BY <1>2, <1>3, <2>1 DEF Queue
  <2> QED BY <1>1, <2>2, ContentsFacts
<1>4. CASE ~iterator[a].cleared
  <2>1. Accumulate(got[h], page) = got[h] \o page.updated
    BY <1>2, <1>4 DEF Accumulate
  <2>2. (got[h] \o page.updated) \o page.rest = Stream(h)
    BY <1>1, <1>2, <1>4 DEF Queue, Stream
  <2> QED BY <1>4, <2>1, <2>2 DEF PagesOf
<1> QED BY <1>3, <1>4

\* The last page: what the fetch has is all of the array.
LEMMA FinalPage ==
  ASSUME TypeInv, NEW h \in Handlers, PagesOf(h), pages[h] # "stolen", Fetch(h),
         Page(ArrayOf(h)).rest = <<>>
  PROVE  /\ ToSet(got'[h]) = ToSet(Contents(ArrayOf(h)))
         /\ pages[h] = "whole" => IsInjective(got'[h])
<1> DEFINE all == Accumulate(got[h], Page(ArrayOf(h)))
<1>1. /\ all \in Seq(Names) /\ got' = [got EXCEPT ![h] = all] /\ pc[h] = "page"
  BY FetchFacts
<1>2. all \o <<>> = all
  BY <1>1, ConcatEmptySeq
<1>3. got'[h] = all
  BY <1>1 DEF TypeInv
<1> QED BY <1>1, <1>2, <1>3, NextPage

\* Every step keeps what fetches have and will have.
LEMMA PagesStep == TypeInv /\ PagesInv /\ [Next]_vars => PagesInv'
<1> SUFFICES ASSUME TypeInv, PagesInv, [Next]_vars, NEW x \in Handlers PROVE PagesOf(x)'
  BY DEF PagesInv
<1>0. PagesOf(x)
  BY DEF PagesInv
<1>1. ASSUME NEW h \in Handlers, Quiet(h) PROVE PagesOf(x)'
  <2>1. CASE x = h
    BY <1>1, <2>1, QuietFacts DEF PagesOf
  <2>2. CASE x # h
    BY <1>0, <1>1, <2>2, QuietFacts, PagesFrame
  <2> QED BY <2>1, <2>2
<1>2. ASSUME NEW h \in Handlers, Reset(h) PROVE PagesOf(x)'
  <2>1. /\ iterator' = [iterator EXCEPT ![ArrayOf(h)] = [cleared |-> TRUE, waiting |-> <<>>]]
        /\ goals' = goals /\ job' = job
        /\ pages' = [pages EXCEPT ![h] = "whole"] /\ got' = [got EXCEPT ![h] = <<>>]
        /\ pc' = [pc EXCEPT ![h] = "page"]
        /\ UNCHANGED <<wanted, todo, targets, proofs>>
    BY <1>2 DEF Reset, Goto
  <2>2. ArrayOf(h) \in Arrays /\ ArrayOf(x) \in Arrays
    BY JobFacts
  <2>3. ArrayOf(x)' = ArrayOf(x)
    BY <2>1 DEF ArrayOf
  <2>4. CASE ArrayOf(x) = ArrayOf(h)
    <3>1. iterator'[ArrayOf(x)].cleared
      BY <2>1, <2>2, <2>4 DEF TypeInv
    <3>2. pc'[x] = "fetched" => x # h /\ pc[x] = "fetched" /\ pages'[x] = pages[x] /\ got'[x] = got[x]
      BY <2>1 DEF TypeInv
    <3> QED BY <1>0, <2>1, <2>3, <3>1, <3>2 DEF PagesOf
  <2>5. CASE ArrayOf(x) # ArrayOf(h)
    <3>1. iterator'[ArrayOf(x)] = iterator[ArrayOf(x)]
      BY <2>1, <2>2, <2>5 DEF TypeInv
    <3>2. Unmoved(x) /\ pages'[x] = pages[x]
      BY <2>1, <2>5 DEF TypeInv, Unmoved
    <3> QED BY <1>0, <2>1, <3>1, <3>2, PagesFrame
  <2> QED BY <2>4, <2>5
<1>3. ASSUME NEW h \in Handlers, ResetIgnored(h) PROVE PagesOf(x)'
  <2>1. /\ pages' = [pages EXCEPT ![h] = "stolen"] /\ pc' = [pc EXCEPT ![h] = "page"]
        /\ UNCHANGED <<iterator, goals, job, wanted, got, todo, targets, proofs>>
    BY <1>3 DEF ResetIgnored, Goto, frama, locals
  <2>2. CASE x = h
    BY <2>1, <2>2 DEF PagesOf, TypeInv
  <2>3. CASE x # h
    <3>1. Unmoved(x) /\ pages'[x] = pages[x]
      BY <2>1, <2>3 DEF TypeInv, Unmoved
    <3> QED BY <1>0, <2>1, <3>1, PagesFrame
  <2> QED BY <2>2, <2>3
<1>4. ASSUME NEW h \in Handlers, Fetch(h) PROVE PagesOf(x)'
  <2> DEFINE a == ArrayOf(h)
             all == Accumulate(got[h], Page(a))
             rest == Page(a).rest
  <2>1. /\ all \in Seq(Names) /\ got' = [got EXCEPT ![h] = all]
        /\ iterator' = [iterator EXCEPT ![a] = [cleared |-> FALSE, waiting |-> rest]]
        /\ pc[h] = "page" /\ pc' = [pc EXCEPT ![h] = IF rest = <<>> THEN "fetched" ELSE "page"]
        /\ pages' = [y \in Handlers |->
             IF y # h /\ pc[y] = "page" /\ ArrayOf(y) = a THEN "stolen" ELSE pages[y]]
        /\ UNCHANGED <<goals, job, wanted, todo, targets, proofs>>
    BY <1>4, FetchFacts
  <2>2. a \in Arrays /\ ArrayOf(x) \in Arrays
    BY JobFacts
  <2> HIDE DEF a, all, rest
  <2>3. CASE x # h
    <3>1. Unmoved(x)
      BY <2>1, <2>3 DEF TypeInv, Unmoved
    <3>2. CASE pc[x] = "page" /\ ArrayOf(x) = a
      BY <2>1, <2>3, <3>2 DEF PagesOf
    <3>3. CASE ~(pc[x] = "page" /\ ArrayOf(x) = a)
      <4>1. pages'[x] = pages[x]
        BY <2>1, <3>3
      <4>2. pc[x] = "page" => iterator'[ArrayOf(x)] = iterator[ArrayOf(x)]
        BY <2>1, <2>2, <3>3 DEF TypeInv
      <4> QED BY <1>0, <2>1, <3>1, <4>1, <4>2, PagesFrame
    <3> QED BY <3>2, <3>3
  <2>4. CASE x = h
    <3>1. /\ got'[h] = all /\ pages'[h] = pages[h]
          /\ iterator'[a] = [cleared |-> FALSE, waiting |-> rest]
          /\ pc'[h] = IF rest = <<>> THEN "fetched" ELSE "page"
      BY <2>1, <2>2 DEF TypeInv
    <3>2. ArrayOf(h)' = a
      BY <2>1 DEF ArrayOf, a
    <3>3. Stream(h)' = all \o rest
      BY <3>1, <3>2 DEF Stream
    <3>4. pages[h] # "stolen" =>
            /\ ToSet(all \o rest) = ToSet(Contents(a))
            /\ pages[h] = "whole" => IsInjective(all \o rest)
      BY <1>0, <2>1, <2>4, NextPage DEF a, all, rest
    <3>5. pages[h] # "stolen" /\ rest = <<>> => ToSet(all) = ToSet(Contents(a))
      BY <2>1, <3>4, ConcatEmptySeq
    <3>6. job'[h] = job[h] /\ (job[h].tool # "goals" => Contents(a) = Program)
      BY <2>1 DEF ArrayOf, Contents, a
    <3>7. Contents(ArrayOf(h))' = Contents(a)
      BY <2>1 DEF Contents, ArrayOf, a
    <3> QED BY <2>4, <3>1, <3>2, <3>3, <3>4, <3>5, <3>6, <3>7 DEF PagesOf, Names
  <2> QED BY <2>3, <2>4
<1>5. ASSUME NEW h \in Handlers, Prove(h) PROVE PagesOf(x)'
  <2>1. PICK f \in Names :
          /\ goals' \in Seq(Names) /\ ToSet(goals') = ToSet(goals) \cup {f}
          /\ iterator'["functions"] = iterator["functions"]
          /\ iterator'["goals"] =
               [cleared |-> iterator["goals"].cleared, waiting |-> iterator'["goals"].waiting]
          /\ iterator'["goals"].waiting =
               IF iterator["goals"].cleared \/ f \in ToSet(iterator["goals"].waiting)
               THEN iterator["goals"].waiting ELSE Append(iterator["goals"].waiting, f)
          /\ pages' = [y \in Handlers |->
               IF pc[y] = "page" /\ ArrayOf(y) = "goals" /\ pages[y] = "whole" THEN "changed"
               ELSE pages[y]]
          /\ UNCHANGED <<pc, job, got>>
    BY <1>5, ProveFacts
  <2>2. ArrayOf(x)' = ArrayOf(x) /\ ArrayOf(x) \in Arrays
    BY <2>1, JobFacts DEF ArrayOf
  <2>3. pc[x] = "fetched" => pages'[x] = pages[x]
    BY <2>1
  <2>4. CASE pc[x] # "page"
    BY <1>0, <2>1, <2>3, <2>4 DEF PagesOf, TypeInv
  <2>5. CASE pc[x] = "page" /\ ArrayOf(x) = "functions"
    <3>1. pages'[x] = pages[x]
      BY <2>1, <2>5
    <3>2. Stream(x)' = Stream(x) /\ Contents(ArrayOf(x))' = Contents(ArrayOf(x))
      BY <2>1, <2>2, <2>5 DEF Stream, Contents
    <3> QED BY <1>0, <2>1, <2>2, <2>5, <3>1, <3>2 DEF PagesOf
  <2>6. CASE pc[x] = "page" /\ ArrayOf(x) = "goals"
    <3> DEFINE w == iterator["goals"].waiting
    <3>1. pages'[x] # "whole" /\ (pages'[x] # "stolen" => pages[x] # "stolen")
      BY <2>1, <2>6 DEF TypeInv
    <3>2. w \in Seq(Names) /\ got[x] \in Seq(Names)
      BY DEF TypeInv, Arrays
    <3>3. iterator'["goals"].cleared = iterator["goals"].cleared
      BY <2>1
    <3>4. SUFFICES ASSUME pages[x] # "stolen", ~iterator["goals"].cleared
                   PROVE  ToSet(Stream(x)') = ToSet(goals')
      BY <2>1, <2>2, <2>6, <3>1, <3>3 DEF PagesOf, Contents
    <3>5. ToSet(got[x] \o w) = ToSet(goals)
      BY <1>0, <2>6, <3>4 DEF PagesOf, Stream, Contents
    <3>6. ToSet(got[x] \o w) = ToSet(got[x]) \cup ToSet(w)
      BY <3>2, EntriesConcat
    <3>7. CASE f \in ToSet(w)
      <4>1. Stream(x)' = got[x] \o w
        BY <2>1, <2>2, <2>6, <3>7 DEF Stream
      <4> QED BY <2>1, <3>5, <3>6, <3>7, <4>1
    <3>8. CASE f \notin ToSet(w)
      <4>1. Stream(x)' = got[x] \o Append(w, f)
        BY <2>1, <2>2, <2>6, <3>4, <3>8 DEF Stream
      <4>2. Append(w, f) \in Seq(Names) /\ ToSet(Append(w, f)) = ToSet(w) \cup {f}
        BY <3>2, EntriesAppend
      <4>3. ToSet(got[x] \o Append(w, f)) = ToSet(got[x]) \cup ToSet(Append(w, f))
        BY <3>2, <4>2, EntriesConcat
      <4> QED BY <2>1, <3>5, <3>6, <4>1, <4>2, <4>3
    <3> QED BY <3>7, <3>8
  <2> QED BY <2>2, <2>4, <2>5, <2>6 DEF Arrays
<1>6. ASSUME UNCHANGED vars PROVE PagesOf(x)'
  BY <1>0, <1>6, PagesFrame DEF vars, frama, locals, history, Unmoved
<1> QED BY <1>1, <1>2, <1>3, <1>4, <1>5, <1>6, Steps

\* A call that gets to the end of its fetch has fetched a last page.
LEMMA OnlyFetchEnds ==
  ASSUME TypeInv, [Next]_vars, NEW h \in Handlers, pc[h] = "page", pc'[h] = "fetched"
  PROVE  Fetch(h) /\ Page(ArrayOf(h)).rest = <<>>
<1>1. ASSUME NEW g \in Handlers, Quiet(g) PROVE FALSE
  BY <1>1, QuietFacts DEF Unmoved
<1>2. ASSUME NEW g \in Handlers, Reset(g) \/ ResetIgnored(g) PROVE FALSE
  BY <1>2 DEF Reset, ResetIgnored, Goto, TypeInv
<1>3. ASSUME NEW g \in Handlers, Fetch(g) PROVE Fetch(h) /\ Page(ArrayOf(h)).rest = <<>>
  <2>1. pc' = [pc EXCEPT ![g] = IF Page(ArrayOf(g)).rest = <<>> THEN "fetched" ELSE "page"]
    BY <1>3, FetchFacts
  <2>2. g = h
    BY <2>1 DEF TypeInv
  <2>3. pc'[h] = IF Page(ArrayOf(h)).rest = <<>> THEN "fetched" ELSE "page"
    BY <2>1, <2>2 DEF TypeInv
  <2> QED BY <1>3, <2>2, <2>3
<1>4. ASSUME NEW g \in Handlers, Prove(g) PROVE FALSE
  BY <1>4 DEF Prove
<1>5. ASSUME UNCHANGED vars PROVE FALSE
  BY <1>5 DEF vars
<1> QED BY <1>1, <1>2, <1>3, <1>4, <1>5, Steps

\* Every variable keeps its type, the goals are listed once each, and a call at
\* a step of WP is one that was called to run it.
THEOREM TypeCorrect == Spec => []TypeInv
BY TypeInit, TypeStep, PTL DEF Spec

\* A fetch that no other call took a page of ends with the whole array, with
\* what was added meanwhile; and has every entry once if nothing was, however
\* often the array was reset between its pages (client.rs:339-366).
THEOREM FetchesAreComplete == Spec => FetchIsComplete
<1> DEFINE Complete ==
      \A h \in Handlers :
        pc[h] = "page" /\ pc'[h] = "fetched" /\ pages[h] # "stolen" =>
          /\ ToSet(got'[h]) = ToSet(Contents(ArrayOf(h)))
          /\ pages[h] = "whole" => IsInjective(got'[h])
<1>1. TypeInv /\ PagesInv /\ [Next]_vars => Complete
  BY OnlyFetchEnds, FinalPage DEF PagesInv
<1>2. Spec => []PagesInv
  BY PagesInit, PagesStep, TypeCorrect, PTL DEF Spec
<1>3. FetchIsComplete <=> [][Complete]_vars
  BY DEF FetchIsComplete
<1> HIDE DEF Complete
<1> QED BY <1>1, <1>2, <1>3, TypeCorrect, PTL DEF Spec

-----------------------------------------------------------------------------
(* The cache.                                                              *)

\* The cache is empty or whole at first.
LEMMA CacheInit == Init => CacheInv
BY DEF Init, CacheInv

\* Every step keeps the cache whole, empty, or known to be from stolen pages.
LEMMA CacheStep == TypeInv /\ PagesInv /\ CacheInv /\ [Next]_vars => CacheInv'
<1> SUFFICES ASSUME TypeInv, PagesInv, CacheInv, [Next]_vars PROVE CacheInv'
  OBVIOUS
<1>0. ASSUME functions' = functions, partial' = partial,
             \A x \in Handlers : pc'[x] = "retry" => pc[x] = "retry"
      PROVE  CacheInv'
  BY <1>0 DEF CacheInv
<1>1. ASSUME NEW h \in Handlers, UpdateFunctions(h) PROVE CacheInv'
  <2>1. /\ pc[h] = "fetched" /\ job[h].tool # "goals"
        /\ functions' = ToSet(got[h]) /\ partial' = (pages[h] = "stolen")
    BY <1>1, UpdateFacts
  <2>2. pages[h] # "stolen" => functions' = Names
    BY <2>1 DEF PagesInv, PagesOf
  <2> QED BY <2>1, <2>2 DEF CacheInv
<1>2. ASSUME NEW h \in Handlers, Quiet(h), ~UpdateFunctions(h) PROVE CacheInv'
  <2>1. /\ functions' = functions /\ partial' = partial
        /\ pc'[h] # "retry"
        /\ \A x \in Handlers \ {h} : pc'[x] = pc[x]
    <3>1. CASE \/ \E f \in Names \cup {Unknown} : CallResolve(h, f)
               \/ \E run \in Runs : CallWp(h, run)
               \/ CallList(h) \/ CallRefresh(h) \/ CallGoals(h)
      BY <3>1, StartFacts DEF Unmoved
    <3>2. CASE Lookup(h) \/ Retry(h)
      BY <3>2, LookupFacts DEF Unmoved, LookupSteps
    <3>3. CASE SetProvers(h) \/ SetTimeout(h) \/ SetWpConfig(h)
      BY <3>3, SetFacts DEF Unmoved
    <3>4. CASE Resolve(h)
      BY <3>4, ResolveFacts DEF Unmoved
    <3>5. CASE Tasks(h)
      BY <3>5, TasksFacts DEF Unmoved
    <3>6. CASE RefuseModel(h) \/ Return(h) \/ RequestFails(h)
      BY <3>6, EndFacts DEF Unmoved
    <3> QED BY <1>2, <3>1, <3>2, <3>3, <3>4, <3>5, <3>6 DEF Quiet
  <2> QED BY <1>0, <2>1
<1>3. ASSUME NEW h \in Handlers, Reset(h) \/ ResetIgnored(h) PROVE CacheInv'
  BY <1>0, <1>3 DEF Reset, ResetIgnored, Goto, TypeInv
<1>4. ASSUME NEW h \in Handlers, Fetch(h) PROVE CacheInv'
  <2>1. /\ functions' = functions /\ partial' = partial
        /\ \E l \in {"fetched", "page"} : pc' = [pc EXCEPT ![h] = l]
    BY <1>4, FetchFacts
  <2> QED BY <1>0, <2>1 DEF TypeInv
<1>5. ASSUME NEW h \in Handlers, Prove(h) PROVE CacheInv'
  BY <1>0, <1>5 DEF Prove
<1>6. ASSUME UNCHANGED vars PROVE CacheInv'
  BY <1>0, <1>6 DEF vars, history
<1> QED BY <1>1, <1>2, <1>3, <1>4, <1>5, <1>6, Steps

\* A call that does not find the name has looked a second time.
LEMMA OnlyRetryGivesUp ==
  ASSUME TypeInv, [Next]_vars, NEW h \in Handlers, pc[h] # "notfound", pc'[h] = "notfound"
  PROVE  pc[h] = "retry" /\ wanted[h] \notin functions
<1> DEFINE Goal == pc[h] = "retry" /\ wanted[h] \notin functions
<1>1. ASSUME NEW g \in Handlers, Quiet(g) PROVE Goal
  <2>1. g = h
    BY <1>1, QuietFacts DEF Unmoved
  <2>2. CASE \/ \E f \in Names \cup {Unknown} : CallResolve(h, f)
             \/ \E run \in Runs : CallWp(h, run)
             \/ CallList(h) \/ CallRefresh(h) \/ CallGoals(h)
    BY <2>2, StartFacts
  <2>3. CASE Lookup(h) \/ Retry(h)
    BY <2>3, LookupFacts DEF LookupSteps
  <2>4. CASE UpdateFunctions(h)
    BY <2>4, UpdateFacts
  <2>5. CASE SetProvers(h) \/ SetTimeout(h) \/ SetWpConfig(h)
    BY <2>5, SetFacts
  <2>6. CASE Resolve(h)
    BY <2>6, ResolveFacts
  <2>7. CASE Tasks(h)
    BY <2>7, TasksFacts
  <2>8. CASE RefuseModel(h) \/ Return(h) \/ RequestFails(h)
    BY <2>8, EndFacts
  <2> QED BY <1>1, <2>1, <2>2, <2>3, <2>4, <2>5, <2>6, <2>7, <2>8 DEF Quiet
<1>2. ASSUME NEW g \in Handlers, Reset(g) \/ ResetIgnored(g) PROVE Goal
  BY <1>2 DEF Reset, ResetIgnored, Goto, TypeInv
<1>3. ASSUME NEW g \in Handlers, Fetch(g) PROVE Goal
  <2>1. \E l \in {"fetched", "page"} : pc' = [pc EXCEPT ![g] = l]
    BY <1>3, FetchFacts
  <2> QED BY <2>1 DEF TypeInv
<1>4. ASSUME NEW g \in Handlers, Prove(g) PROVE Goal
  BY <1>4 DEF Prove
<1>5. ASSUME UNCHANGED vars PROVE Goal
  BY <1>5 DEF vars
<1> QED BY <1>1, <1>2, <1>3, <1>4, <1>5, Steps

\* Pages and the cache are right in every state.
LEMMA CacheCorrect == Spec => [](TypeInv /\ PagesInv /\ CacheInv)
<1>1. Init => TypeInv /\ PagesInv /\ CacheInv
  BY TypeInit, PagesInit, CacheInit
<1>2. TypeInv /\ PagesInv /\ CacheInv /\ [Next]_vars => (TypeInv /\ PagesInv /\ CacheInv)'
  BY TypeStep, PagesStep, CacheStep
<1> QED BY <1>1, <1>2, PTL DEF Spec

\* A function of the program is found, at the second look if not at the first,
\* whoever replaced the cache between the two, unless what is in the cache came
\* from pages that another call had taken some of (server.rs:821-852).
THEOREM EveryFunctionIsFound == Spec => FunctionsAreFound
<1> DEFINE Found ==
      \A h \in Handlers :
        pc[h] # "notfound" /\ pc'[h] = "notfound" /\ wanted[h] \in Names => partial
<1>1. TypeInv /\ CacheInv /\ [Next]_vars => Found
  BY OnlyRetryGivesUp DEF CacheInv
<1>2. FunctionsAreFound <=> [][Found]_vars
  BY DEF FunctionsAreFound
<1> HIDE DEF Found
<1> QED BY <1>1, <1>2, CacheCorrect, PTL DEF Spec

-----------------------------------------------------------------------------
(* Runs of WP.                                                             *)

\* No run is under way at first.
LEMMA RunInit == Init => RunInv
BY DEF Init, NoJob, RunInv, WorkOf, SettingsOf

\* A run that does not move, in the same instance, keeps what it has to do.
LEMMA WorkFrame ==
  ASSUME NEW x \in Handlers, WorkOf(x), Unmoved(x), target' = target,
         pc[x] \in {"prove", "done"} => pages'[x] = pages[x]
  PROVE  WorkOf(x)'
<1>1. Started(x)' = Started(x) /\ AtHand(x)' = AtHand(x) /\ AskedFor(x)' = AskedFor(x)
  BY DEF Unmoved, Started, AtHand, AskedFor
<1> QED BY <1>1 DEF Unmoved, WorkOf

\* Settings that stay are as asked wherever the run goes on.
LEMMA SettingsFrame ==
  ASSUME NEW x \in Handlers, SettingsOf(x), job'[x] = job[x], proofs'[x] = proofs[x],
         ~mixed'[x] => ~mixed[x] /\ settings' = settings,
         pc'[x] = pc[x] \/ pc[x] \notin SettingSteps
  PROVE  SettingsOf(x)'
BY DEF SettingsOf, AsAsked, SettingSteps

\* What a call is called with.
LEMMA CallFacts ==
  ASSUME TypeInv, NEW h \in Handlers,
         \/ \E f \in Names \cup {Unknown} : CallResolve(h, f)
         \/ \E run \in Runs : CallWp(h, run)
         \/ CallList(h) \/ CallRefresh(h) \/ CallGoals(h)
  PROVE  job'[h].tool = "wp" =>
           /\ pc'[h] = "setProvers" /\ todo'[h] = job'[h].run.functions
           /\ target = "sandbox" => ~job'[h].run.all_functions
           /\ target' = target /\ targets'[h] = <<>> /\ proofs'[h] = {}
<1>1. CASE \E run \in Runs : CallWp(h, run)
  BY <1>1 DEF CallWp, Start, Goto, history, TypeInv
<1>2. CASE \/ \E f \in Names \cup {Unknown} : CallResolve(h, f)
           \/ CallList(h) \/ CallRefresh(h) \/ CallGoals(h)
  BY <1>2 DEF CallResolve, CallList, CallRefresh, CallGoals, Start, TypeInv
<1> QED BY <1>1, <1>2

\* The functions of some proofs and one more.
LEMMA OneMore ==
  ASSUME NEW P, NEW p
  PROVE  {q.function : q \in P \cup {p}} = {q.function : q \in P} \cup {p.function}
OBVIOUS

\* Every step keeps what runs have to do and have done.
LEMMA WorkStep ==
  ASSUME TypeInv, CacheInv, RunInv, [Next]_vars, NEW x \in Handlers
  PROVE  WorkOf(x)'
<1>0. WorkOf(x) /\ job[x].tool \in AllTools \cup {"none"} /\ target \in {"main", "sandbox"}
  BY JobFacts DEF RunInv, TypeInv
<1>1. ASSUME NEW h \in Handlers, x # h,
             Quiet(h) \/ Reset(h) \/ ResetIgnored(h) \/ Fetch(h) \/ Prove(h)
      PROVE  WorkOf(x)'
  <2>1. CASE Quiet(h)
    <3>1. target' = target
      BY <2>1, StartFacts, LookupFacts, UpdateFacts, SetFacts, ResolveFacts, TasksFacts, EndFacts DEF Quiet
    <3> QED BY <1>0, <1>1, <2>1, <3>1, QuietFacts, WorkFrame
  <2>2. CASE Reset(h) \/ ResetIgnored(h)
    <3>1. Unmoved(x) /\ target' = target /\ pages'[x] = pages[x]
      BY <1>1, <2>2 DEF Reset, ResetIgnored, Goto, locals, TypeInv, Unmoved
    <3> QED BY <1>0, <3>1, WorkFrame
  <2>3. CASE Fetch(h)
    <3>1. /\ \E s : got' = [got EXCEPT ![h] = s]
          /\ \E l : pc' = [pc EXCEPT ![h] = l]
          /\ pages' = [y \in Handlers |->
               IF y # h /\ pc[y] = "page" /\ ArrayOf(y) = ArrayOf(h) THEN "stolen" ELSE pages[y]]
          /\ UNCHANGED <<target, job, wanted, todo, targets, proofs>>
      BY <2>3, FetchFacts
    <3>2. Unmoved(x) /\ (pc[x] \in {"prove", "done"} => pages'[x] = pages[x])
      BY <1>1, <3>1 DEF TypeInv, Unmoved
    <3> QED BY <1>0, <3>1, <3>2, WorkFrame
  <2>4. CASE Prove(h)
    <3>1. /\ \E s : targets' = [targets EXCEPT ![h] = s]
          /\ \E s : proofs' = [proofs EXCEPT ![h] = s]
          /\ pages' = [y \in Handlers |->
               IF pc[y] = "page" /\ ArrayOf(y) = "goals" /\ pages[y] = "whole" THEN "changed"
               ELSE pages[y]]
          /\ UNCHANGED <<target, pc, job, wanted, got, todo>>
      BY <2>4, ProveFacts
    <3>2. Unmoved(x) /\ (pc[x] \in {"prove", "done"} => pages'[x] = pages[x])
      BY <1>1, <3>1 DEF TypeInv, Unmoved
    <3> QED BY <1>0, <3>1, <3>2, WorkFrame
  <2> QED BY <1>1, <2>1, <2>2, <2>3, <2>4
<1>2. CASE \/ \E f \in Names \cup {Unknown} : CallResolve(x, f)
           \/ \E run \in Runs : CallWp(x, run)
           \/ CallList(x) \/ CallRefresh(x) \/ CallGoals(x)
  BY <1>0, <1>2, CallFacts DEF WorkOf, SettingSteps, LookupSteps, FetchSteps
<1>3. CASE Lookup(x) \/ Retry(x)
  <2>1. CASE job[x].tool # "wp"
    BY <1>3, <2>1, LookupFacts DEF WorkOf
  <2>2. CASE job[x].tool = "wp"
    <3>1. /\ target = "main" /\ ~job[x].run.all_functions /\ proofs[x] = {}
          /\ (ToSet(targets[x]) \cup {wanted[x]}) \cup ToSet(todo[x]) = AskedFor(x)
      BY <1>0, <1>3, <2>2, LookupFacts DEF WorkOf, AtHand, LookupSteps
    <3>2. AskedFor(x)' = AskedFor(x) /\ proofs' = proofs /\ target' = target /\ job' = job /\ todo' = todo
          /\ wanted' = wanted
      BY <1>3, LookupFacts DEF AskedFor
    <3>3. \/ pc'[x] = "resolve" /\ ToSet(targets'[x]) = ToSet(targets[x]) \cup {wanted[x]}
          \/ pc'[x] \in {"reset", "notfound"} /\ targets' = targets
      BY <1>3, <2>2, LookupFacts
    <3> QED BY <2>2, <3>1, <3>2, <3>3 DEF WorkOf, AtHand, SettingSteps, LookupSteps, FetchSteps
  <2> QED BY <2>1, <2>2
<1>4. CASE UpdateFunctions(x) \/ Reset(x) \/ ResetIgnored(x) \/ Fetch(x)
  <2>1. /\ pc[x] \in FetchSteps
        /\ job[x].tool = "wp" => pc'[x] \in {"retry"} \cup FetchSteps
        /\ UNCHANGED <<target, job, wanted, todo, targets, proofs>>
    <3>1. CASE UpdateFunctions(x)
      BY <3>1, UpdateFacts DEF FetchSteps
    <3>2. CASE Reset(x) \/ ResetIgnored(x)
      BY <3>2 DEF Reset, ResetIgnored, Goto, locals, TypeInv, FetchSteps
    <3>3. CASE Fetch(x)
      <4>1. pc[x] = "page" /\ \E l \in {"fetched", "page"} : pc' = [pc EXCEPT ![x] = l]
        BY <3>3, FetchFacts
      <4>2. UNCHANGED <<target, job, wanted, todo, targets, proofs>>
        BY <3>3, FetchFacts
      <4> QED BY <4>1, <4>2 DEF TypeInv, FetchSteps
    <3> QED BY <1>4, <3>1, <3>2, <3>3
  <2>2. AskedFor(x)' = AskedFor(x)
    BY <2>1 DEF AskedFor
  <2> QED BY <1>0, <2>1, <2>2 DEF WorkOf, AtHand, SettingSteps, LookupSteps, FetchSteps
<1>5. CASE SetProvers(x) \/ SetTimeout(x) \/ SetWpConfig(x)
  <2>1. /\ job[x].tool = "wp" /\ pc[x] \in SettingSteps
        /\ \/ pc'[x] \in SettingSteps /\ targets' = targets
           \/ target = "sandbox" /\ pc'[x] = "prove" /\ targets'[x] = <<Extracted>>
           \/ target = "main" /\ pc'[x] = "resolve" /\ targets' = targets
        /\ UNCHANGED <<target, job, wanted, todo, proofs>>
    BY <1>0, <1>5, SetFacts DEF SettingSteps
  <2>2. todo[x] = job[x].run.functions /\ targets[x] = <<>> /\ proofs[x] = {}
        /\ (job[x].run.all_functions => target = "main")
    BY <1>0, <2>1 DEF WorkOf, SettingSteps
  <2>3. AskedFor(x)' = AskedFor(x)
    BY <2>1 DEF AskedFor
  <2>4. CASE pc'[x] \in SettingSteps /\ targets' = targets
    BY <2>1, <2>2, <2>4 DEF WorkOf, SettingSteps, LookupSteps, FetchSteps
  <2>5. CASE target = "sandbox" /\ pc'[x] = "prove" /\ targets'[x] = <<Extracted>>
    <3>1. ToSet(targets'[x]) = {Extracted} /\ Started(x)' = {}
      BY <2>1, <2>2, <2>5 DEF ToSet, Started
    <3>2. AskedFor(x) = {Extracted}
      BY <2>5 DEF AskedFor
    <3> QED BY <2>1, <2>2, <2>3, <2>5, <3>1, <3>2 DEF WorkOf, SettingSteps, LookupSteps, FetchSteps
  <2>6. CASE target = "main" /\ pc'[x] = "resolve" /\ targets' = targets
    <3>1. ToSet(targets'[x]) = {} /\ AtHand(x)' = {} /\ AskedFor(x) = ToSet(todo[x])
      BY <2>2, <2>6 DEF ToSet, AtHand, AskedFor
    <3> QED BY <2>1, <2>2, <2>3, <2>6, <3>1 DEF WorkOf, SettingSteps, LookupSteps, FetchSteps
  <2> QED BY <2>1, <2>4, <2>5, <2>6
<1>6. CASE Resolve(x)
  <2>1. /\ pc[x] = "resolve" /\ job[x].tool = "wp"
        /\ UNCHANGED <<target, job, functions, partial, proofs>>
    BY <1>6, ResolveFacts
  <2>2. /\ target = "main" /\ proofs[x] = {}
        /\ ~job[x].run.all_functions => ToSet(targets[x]) \cup ToSet(todo[x]) = AskedFor(x)
    BY <1>0, <2>1 DEF WorkOf, AtHand
  <2>3. AskedFor(x)' = AskedFor(x) /\ Started(x)' = {}
    BY <2>1, <2>2 DEF AskedFor, Started
  <2>4. CASE job[x].run.all_functions
    <3>1. /\ pc'[x] = "prove" /\ ToSet(targets'[x]) = functions
          /\ partial => pages'[x] = "stolen"
      BY <1>6, <2>4, ResolveFacts
    <3>2. pages'[x] = "stolen" \/ functions \in {{}, Names}
      BY <3>1 DEF CacheInv
    <3> QED BY <2>1, <2>2, <2>3, <2>4, <3>1, <3>2 DEF WorkOf, SettingSteps, LookupSteps, FetchSteps
  <2>5. CASE ~job[x].run.all_functions /\ todo[x] = <<>>
    <3>1. pc'[x] = "prove" /\ targets' = targets
      BY <1>6, <2>5, ResolveFacts
    <3>2. ToSet(todo[x]) = {}
      BY <2>5 DEF ToSet
    <3> QED BY <2>1, <2>2, <2>3, <2>5, <3>1, <3>2 DEF WorkOf, SettingSteps, LookupSteps, FetchSteps
  <2>6. CASE ~job[x].run.all_functions /\ todo[x] # <<>>
    <3>1. /\ pc'[x] = "lookup" /\ targets' = targets
          /\ wanted'[x] = Head(todo[x]) /\ todo'[x] = Tail(todo[x])
      BY <1>6, <2>6, ResolveFacts
    <3>2. todo[x] \in Seq(Names \cup {Unknown})
      BY DEF TypeInv
    <3>3. ToSet(todo[x]) = {Head(todo[x])} \cup ToSet(Tail(todo[x]))
      BY <2>6, <3>2, EntriesHead
    <3>4. AtHand(x)' = {Head(todo[x])}
      BY <3>1 DEF AtHand
    <3> QED BY <2>1, <2>2, <2>3, <2>6, <3>1, <3>3, <3>4 DEF WorkOf, SettingSteps, LookupSteps, FetchSteps
  <2> QED BY <2>4, <2>5, <2>6
<1>7. CASE Prove(x)
  <2>1. PICK f \in Names :
          /\ ToSet(targets[x]) = {f} \cup ToSet(targets'[x])
          /\ proofs' = [proofs EXCEPT ![x] = proofs[x] \cup {[function |-> f, settings |-> settings]}]
          /\ pages' = [y \in Handlers |->
               IF pc[y] = "page" /\ ArrayOf(y) = "goals" /\ pages[y] = "whole" THEN "changed"
               ELSE pages[y]]
          /\ pc[x] = "prove"
          /\ UNCHANGED <<target, pc, job>>
    BY <1>7, ProveFacts
  <2>2. proofs'[x] = proofs[x] \cup {[function |-> f, settings |-> settings]} /\ pages'[x] = pages[x]
    BY <2>1 DEF TypeInv
  <2>3. Started(x)' = Started(x) \cup {f}
    <3> DEFINE p == [function |-> f, settings |-> settings]
    <3>1. p.function = f
      OBVIOUS
    <3>2. proofs'[x] = proofs[x] \cup {p}
      BY <2>2
    <3> HIDE DEF p
    <3>3. {q.function : q \in proofs'[x]} = {q.function : q \in proofs[x]} \cup {p.function}
      BY <3>2, OneMore
    <3> QED BY <3>1, <3>3 DEF Started
  <2>4. Started(x)' \cup ToSet(targets'[x]) = Started(x) \cup ToSet(targets[x])
    BY <2>1, <2>3
  <2>5. AskedFor(x)' = AskedFor(x)
    BY <2>1 DEF AskedFor
  <2> QED BY <1>0, <2>1, <2>2, <2>4, <2>5 DEF WorkOf, SettingSteps, LookupSteps, FetchSteps
<1>8. CASE Tasks(x)
  <2>1. /\ pc[x] = "prove" /\ targets[x] = <<>> /\ pc'[x] = "done"
        /\ UNCHANGED <<target, job, targets, pages, proofs>>
    BY <1>8, TasksFacts
  <2>2. AskedFor(x)' = AskedFor(x) /\ Started(x)' = Started(x)
    BY <2>1 DEF AskedFor, Started
  <2> QED BY <1>0, <2>1, <2>2 DEF WorkOf, SettingSteps, LookupSteps, FetchSteps
<1>9. CASE RefuseModel(x) \/ Return(x) \/ RequestFails(x)
  BY <1>9, EndFacts DEF WorkOf
<1>10. CASE UNCHANGED vars
  BY <1>0, <1>10, WorkFrame DEF vars, frama, locals, history, Unmoved
<1> QED BY <1>1, <1>2, <1>3, <1>4, <1>5, <1>6, <1>7, <1>8, <1>9, <1>10, Steps DEF Quiet
\* What a run asks for of a setting is what it sets.
LEMMA GivenIsAsked == ASSUME NEW r, NEW field PROVE Asked(r, field, Given(r, field))
BY DEF Asked, Given

\* A run that sets something has it as it asked for, and what it set before.
LEMMA OwnSettings ==
  ASSUME TypeInv, NEW x \in Handlers, SettingsOf(x), proofs[x] = {},
         SetProvers(x) \/ SetTimeout(x) \/ SetWpConfig(x)
  PROVE  SettingsOf(x)'
<1>1. /\ job' = job /\ proofs' = proofs /\ mixed'[x] = mixed[x] /\ job[x].tool = "wp"
      /\ \/ /\ pc[x] = "setProvers" /\ pc'[x] = "setTimeout"
            /\ settings' = [settings EXCEPT !.prover = Given(job[x].run, "prover")]
         \/ /\ pc[x] = "setTimeout" /\ pc'[x] = "setWpConfig"
            /\ settings' = [settings EXCEPT !.timeout = Given(job[x].run, "timeout")]
         \/ /\ pc[x] = "setWpConfig" /\ pc'[x] \in {"prove", "resolve"}
            /\ settings' = [settings EXCEPT !.model = Model(job[x].run),
                                            !.prop = Given(job[x].run, "prop")]
  BY SetFacts
<1>2. PICK r : r = job[x].run
  OBVIOUS
<1>3. /\ Asked(r, "prover", Given(r, "prover")) /\ Asked(r, "timeout", Given(r, "timeout"))
      /\ Asked(r, "prop", Given(r, "prop"))
  BY GivenIsAsked
<1>4. /\ settings = [prover |-> settings.prover, timeout |-> settings.timeout,
                     model |-> settings.model, prop |-> settings.prop]
      /\ r' = job'[x].run /\ job'[x] = job[x] /\ proofs'[x] = {}
  BY <1>1, <1>2 DEF TypeInv, Settings
<1>5. CASE mixed[x]
  BY <1>1, <1>5 DEF SettingsOf
<1>6. CASE ~mixed[x]
  <2>1. /\ pc[x] # "setProvers" => Asked(r, "prover", settings.prover)
        /\ pc[x] \notin {"setProvers", "setTimeout"} => Asked(r, "timeout", settings.timeout)
    BY <1>1, <1>2, <1>6 DEF SettingsOf
  <2>2. CASE pc[x] = "setProvers"
    <3>1. pc'[x] = "setTimeout" /\ settings'.prover = Given(r, "prover")
      BY <1>1, <1>2, <1>4, <2>2
    <3> QED BY <1>1, <1>2, <1>3, <1>4, <3>1 DEF SettingsOf, SettingSteps, Asked
  <2>3. CASE pc[x] = "setTimeout"
    <3>1. /\ pc'[x] = "setWpConfig" /\ settings'.timeout = Given(r, "timeout")
          /\ settings'.prover = settings.prover
      BY <1>1, <1>2, <1>4, <2>3
    <3> QED BY <1>1, <1>2, <1>3, <1>4, <2>1, <2>3, <3>1 DEF SettingsOf, SettingSteps, Asked
  <2>4. CASE pc[x] = "setWpConfig"
    <3>1. /\ settings'.model = Model(r) /\ settings'.prop = Given(r, "prop")
          /\ settings'.prover = settings.prover /\ settings'.timeout = settings.timeout
      BY <1>1, <1>2, <1>4, <2>4
    <3>2. Model(r)' = Model(r)
      BY <1>1, <1>2 DEF Model
    <3> QED BY <1>1, <1>2, <1>3, <1>4, <2>1, <2>4, <3>1 DEF SettingsOf, AsAsked, Asked, Model
  <2> QED BY <1>1, <2>2, <2>3, <2>4
<1> QED BY <1>5, <1>6

\* Every step keeps the settings of runs, and those of their proofs.
LEMMA SettingsStep ==
  ASSUME TypeInv, RunInv, [Next]_vars, NEW x \in Handlers
  PROVE  SettingsOf(x)'
<1>0. SettingsOf(x) /\ WorkOf(x)
  BY DEF RunInv
<1>1. ASSUME NEW h \in Handlers, x # h, Quiet(h) PROVE SettingsOf(x)'
  <2>1. Unmoved(x)
    BY <1>1, QuietFacts
  <2>2. CASE job[x].tool # "wp"
    BY <2>1, <2>2 DEF Unmoved, SettingsOf
  <2>3. CASE job[x].tool = "wp"
    <3>1. ~mixed'[x] => ~mixed[x] /\ settings' = settings
      BY <1>1, <2>3, StartFacts, LookupFacts, UpdateFacts, SetFacts, ResolveFacts, TasksFacts, EndFacts
      DEF Quiet
    <3> QED BY <1>0, <2>1, <3>1, SettingsFrame DEF Unmoved
  <2> QED BY <2>2, <2>3
<1>2. ASSUME NEW h \in Handlers, Reset(h) \/ ResetIgnored(h) \/ Fetch(h) PROVE SettingsOf(x)'
  <2>1. /\ job' = job /\ proofs' = proofs /\ mixed' = mixed /\ settings' = settings
        /\ pc[h] \notin SettingSteps /\ \E l : pc' = [pc EXCEPT ![h] = l]
    <3>1. CASE Reset(h) \/ ResetIgnored(h)
      BY <3>1 DEF Reset, ResetIgnored, Goto, frama, locals, SettingSteps
    <3>2. CASE Fetch(h)
      BY <3>2, FetchFacts DEF SettingSteps
    <3> QED BY <1>2, <3>1, <3>2
  <2>2. pc'[x] = pc[x] \/ pc[x] \notin SettingSteps
    BY <2>1 DEF TypeInv
  <2> QED BY <1>0, <2>1, <2>2, SettingsFrame
<1>3. ASSUME NEW h \in Handlers, Prove(h) PROVE SettingsOf(x)'
  <2>1. PICK f \in Names :
          /\ proofs' = [proofs EXCEPT ![h] = proofs[h] \cup {[function |-> f, settings |-> settings]}]
          /\ pc[h] = "prove" /\ UNCHANGED <<settings, pc, job, mixed>>
    BY <1>3, ProveFacts
  <2>2. CASE x # h
    <3>1. proofs'[x] = proofs[x]
      BY <2>1, <2>2 DEF TypeInv
    <3> QED BY <1>0, <2>1, <3>1, SettingsFrame
  <2>3. CASE x = h
    <3>1. proofs'[x] = proofs[x] \cup {[function |-> f, settings |-> settings]}
      BY <2>1, <2>3 DEF TypeInv
    <3>2. [function |-> f, settings |-> settings].settings = settings
      OBVIOUS
    <3> QED BY <1>0, <2>1, <2>3, <3>1, <3>2 DEF SettingsOf, AsAsked, SettingSteps
  <2> QED BY <2>2, <2>3
<1>4. CASE \/ \E f \in Names \cup {Unknown} : CallResolve(x, f)
           \/ \E run \in Runs : CallWp(x, run)
           \/ CallList(x) \/ CallRefresh(x) \/ CallGoals(x)
  <2>1. job'[x].tool = "wp" => pc'[x] = "setProvers" /\ proofs'[x] = {}
    BY <1>4, CallFacts
  <2> QED BY <2>1 DEF SettingsOf, SettingSteps
<1>5. CASE \/ Lookup(x) \/ Retry(x) \/ UpdateFunctions(x) \/ Resolve(x) \/ Tasks(x)
  <2>1. /\ job' = job /\ proofs' = proofs /\ mixed' = mixed /\ settings' = settings
        /\ pc[x] \notin SettingSteps
    BY <1>5, LookupFacts, UpdateFacts, ResolveFacts, TasksFacts DEF SettingSteps, LookupSteps
  <2> QED BY <1>0, <2>1, SettingsFrame
<1>6. CASE SetProvers(x) \/ SetTimeout(x) \/ SetWpConfig(x)
  <2>1. job[x].tool = "wp" /\ pc[x] \in SettingSteps
    BY <1>6, SetFacts DEF SettingSteps
  <2>2. proofs[x] = {}
    BY <1>0, <2>1 DEF WorkOf, SettingSteps
  <2> QED BY <1>0, <1>6, <2>2, OwnSettings
<1>7. CASE RefuseModel(x) \/ Return(x) \/ RequestFails(x)
  BY <1>7, EndFacts DEF SettingsOf
<1>8. CASE UNCHANGED vars
  BY <1>0, <1>8, SettingsFrame DEF vars, frama, locals, history
<1> QED BY <1>1, <1>2, <1>3, <1>4, <1>5, <1>6, <1>7, <1>8, Steps DEF Quiet

\* Runs are right in every state.
LEMMA RunCorrect == Spec => [](TypeInv /\ RunInv)
<1>1. TypeInv /\ CacheInv /\ RunInv /\ [Next]_vars => RunInv'
  BY WorkStep, SettingsStep DEF RunInv
<1> QED BY <1>1, RunInit, CacheCorrect, PTL DEF Spec

\* A run of WP that is answered has started the proof of every function it was
\* asked for and of no other; and, unless another call changed a setting of
\* Frama-C meanwhile, each with the model, the prover, the timeout and the
\* property that it asked for (server.rs:1396-1483).
THEOREM RunsProveWhatWasAsked == Spec => []WpRunsAsAsked
<1>1. ASSUME TypeInv, RunInv PROVE WpRunsAsAsked
  <2> SUFFICES ASSUME NEW h \in Handlers, pc[h] = "done", job[h].tool = "wp"
               PROVE  LET r == job[h].run IN
                      /\ IF r.all_functions THEN pages[h] = "stolen" \/ Started(h) \in {{}, Names}
                         ELSE Started(h) = AskedFor(h)
                      /\ ~mixed[h] => \A p \in proofs[h] : AsAsked(r, p.settings)
    BY DEF WpRunsAsAsked, Started, AskedFor, AsAsked, Model
  <2>1. WorkOf(h) /\ SettingsOf(h)
    BY <1>1 DEF RunInv
  <2>2. targets[h] = <<>> /\ ToSet(targets[h]) = {}
    BY <2>1 DEF WorkOf, ToSet
  <2>3. Started(h) \cup ToSet(targets[h]) = Started(h)
    BY <2>2
  <2> QED BY <2>1, <2>3 DEF WorkOf, SettingsOf
<1> QED BY <1>1, RunCorrect, PTL
=============================================================================
