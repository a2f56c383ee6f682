----------------------------- MODULE Conclusions -----------------------------
(***************************************************************************)
(* src/state.rs and src/mcp/server.rs: what the server knows about the     *)
(* verification of each function.  store_function_conclusion merges an     *)
(* update into the record in memory, the sandbox tools change a few of its *)
(* fields, and each clones the record under the write lock, drops the lock *)
(* and persists the clone to <function>/meta.json.  At start the server    *)
(* reads these files and a task of its own merges them into memory.        *)
(*                                                                         *)
(* Of a call that is alone with the file the write is one step, as         *)
(* TmpRename.tla shows.  Calls about one function that overlap share the   *)
(* temporary file: any of them may rename what another has written to it,  *)
(* or a mixture that no longer parses.                                     *)
(*                                                                         *)
(* Every record carries, as history, the set of updates it incorporates.   *)
(***************************************************************************)
EXTENDS Naturals, FiniteSets

CONSTANTS
  Handlers,    \* concurrent tool calls
  Functions,
  Updates,     \* the updates callers store: status, specs, evidence
  Tools,       \* out of "store", "created", "added", "deleted"
  MaxUpdates,  \* bound: calls
  MaxRestarts, \* bound: times the server dies and is started again
  Faults       \* "io": persisting may fail

ASSUME ConclusionAssumption ==
  /\ Functions # {} /\ Tools \subseteq {"store", "created", "added", "deleted"}
  /\ MaxUpdates \in Nat /\ MaxRestarts \in Nat
  /\ Faults \subseteq {"io"}

VARIABLES
  memory,    \* SessionState.conclusions
  disk,      \* the meta.json files
  found,     \* what was read from them at start
  merged,    \* the task that merges found into memory has run
  pc,        \* "idle" or "persist"
  fn, clone, \* the function of each call and its clone of the record
  fresh,     \* the update this call made
  others,    \* clones of the calls that have shared its temporary file
  moved,     \* one of them has renamed the temporary file
  updates, restarts, \* counted for the bounds
  acked,     \* history: updates whose record was persisted
  early,     \* history: a call about the function preceded the merge
  overlapped \* history: two calls about the function were under way at once

callVars == <<pc, fn, clone, fresh, others, moved>>
history == <<acked, early, overlapped>>
vars == <<memory, disk, found, merged, callVars, updates, restarts, history>>

Statuses == {"in_progress", "verified", "failed", "unsound", "blocked_on_callee"}
Final    == Statuses \ {"in_progress"}
Keep     == "keep"       \* an absent field of an update (Option::None)
Nothing  == [status |-> Keep]
Unreadable == [status |-> "unreadable"] \* a file that does not parse

\* FunctionConclusionUpdate, as far as the fields interact: the status, the
\* number of specs ({} when absent), whether failure_evidence is given.
Update == [status : Statuses \cup {Keep}, specs : SUBSET Nat, evidence : BOOLEAN]

ASSUME UpdateAssumption == Updates \subseteq Update /\ \A u \in Updates : Cardinality(u.specs) <= 1

\* FunctionVerificationState.
Record == [status : Statuses, specs : Nat, count : Nat, clean : BOOLEAN, deleted : BOOLEAN,
           evidence : BOOLEAN, has : SUBSET (1 .. MaxUpdates)]

\* What or_insert_with and empty_conclusion_static start from.
EmptyConclusion ==
  [status |-> "in_progress", specs |-> 0, count |-> 0, clean |-> TRUE, deleted |-> FALSE,
   evidence |-> FALSE, has |-> {}]

Known(f)   == memory[f] # Nothing
Current(f) == IF Known(f) THEN memory[f] ELSE EmptyConclusion

Init ==
  /\ memory = [f \in Functions |-> Nothing]
  /\ disk = [f \in Functions |-> Nothing]
  /\ found = [f \in Functions |-> Nothing]
  /\ merged = TRUE
  /\ pc = [h \in Handlers |-> "idle"]
  /\ fn = [h \in Handlers |-> CHOOSE f \in Functions : TRUE]
  /\ clone = [h \in Handlers |-> Nothing]
  /\ fresh = [h \in Handlers |-> 0]
  /\ others = [h \in Handlers |-> {}]
  /\ moved = [h \in Handlers |-> FALSE]
  /\ updates = 0
  /\ restarts = 0
  /\ acked = [f \in Functions |-> {}]
  /\ early = [f \in Functions |-> FALSE]
  /\ overlapped = [f \in Functions |-> FALSE]

-----------------------------------------------------------------------------
(* The four ways a record changes (state.rs).                              *)

\* Mutant: evidence is cleared by the status given, not by the status reached.
EvidenceByUpdate(r, u) == (r.evidence \/ u.evidence) /\ u.status # "verified"

\* Given evidence is stored; reaching, or staying at, Verified then clears it.
EvidenceAfter(r, u) ==
  LET status == IF u.status = Keep THEN r.status ELSE u.status
  IN (r.evidence \/ u.evidence) /\ status # "verified"

\* store_conclusion: given fields replace, the count of annotations follows
\* the specs, given or not.
Stored(r, u) ==
  LET specs == IF u.specs = {} THEN r.specs ELSE CHOOSE n \in u.specs : TRUE
  IN [r EXCEPT !.status = IF u.status = Keep THEN @ ELSE u.status,
               !.specs = specs,
               !.count = specs,
               !.evidence = EvidenceAfter(r, u)]

\* on_sandbox_created: a final status goes back to in_progress.
SandboxCreated(r) ==
  [r EXCEPT !.clean = TRUE, !.count = 0, !.deleted = FALSE,
            !.status = IF @ \in Final THEN "in_progress" ELSE @]

\* on_annotation_added.
AnnotationAdded(r) == [r EXCEPT !.clean = FALSE, !.count = @ + 1]

\* on_sandbox_deleted.
SandboxDeleted(r) == [r EXCEPT !.deleted = TRUE]

-----------------------------------------------------------------------------
(* A call: under the write lock it changes and clones the record; without  *)
(* the lock it persists the clone.                                         *)

\* Mutant: the record is cloned before it is changed.
ClonedBefore(old, new) == old

\* state.get_conclusion(f).cloned(), after the change.
ClonedAfter(old, new) == new

\* The calls that are persisting the record of f.
PersistingOf(f) == {g \in Handlers : pc[g] = "persist" /\ fn[g] = f}

Change(h, f, r) ==
  /\ pc[h] = "idle"
  /\ updates < MaxUpdates
  /\ updates' = updates + 1
  /\ LET new == [r EXCEPT !.has = @ \cup {updates + 1}]
     IN /\ memory' = [memory EXCEPT ![f] = new]
        /\ clone' = [clone EXCEPT ![h] = ClonedAfter(memory[f], new)]
        /\ others' = [g \in Handlers |->
             CASE g = h -> {clone[k] : k \in PersistingOf(f)}
               [] g \in PersistingOf(f) -> others[g] \cup {ClonedAfter(memory[f], new)}
               [] OTHER -> others[g]]
  /\ fn' = [fn EXCEPT ![h] = f]
  /\ fresh' = [fresh EXCEPT ![h] = updates + 1]
  /\ pc' = [pc EXCEPT ![h] = "persist"]
  /\ early' = [early EXCEPT ![f] = @ \/ ~merged]
  /\ overlapped' = [overlapped EXCEPT ![f] = @ \/ PersistingOf(f) # {}]
  /\ UNCHANGED <<disk, found, merged, restarts, acked, moved>>

Store(h, f, u)   == "store" \in Tools /\ Change(h, f, Stored(Current(f), u))
Created(h, f)    == "created" \in Tools /\ Change(h, f, SandboxCreated(Current(f)))
\* These two leave an unknown function alone, and then persist nothing.
Added(h, f)      == "added" \in Tools /\ Known(f) /\ Change(h, f, AnnotationAdded(memory[f]))
DeletedNote(h, f) == "deleted" \in Tools /\ Known(f) /\ Change(h, f, SandboxDeleted(memory[f]))

Answer(h) ==
  /\ pc' = [pc EXCEPT ![h] = "idle"]
  /\ clone' = [clone EXCEPT ![h] = Nothing]
  /\ fresh' = [fresh EXCEPT ![h] = 0]
  /\ others' = [others EXCEPT ![h] = {}]
  /\ UNCHANGED <<memory, found, merged, fn, updates, restarts, early, overlapped>>

\* What the temporary file may hold when this call renames it.
TmpContents(h) == {clone[h]} \cup (IF others[h] = {} THEN {} ELSE others[h] \cup {Unreadable})

\* Written and renamed; the calls that share the temporary file find it gone.
Persist(h) ==
  /\ pc[h] = "persist"
  /\ \E r \in TmpContents(h) : disk' = [disk EXCEPT ![fn[h]] = r]
  /\ moved' = [g \in Handlers |-> g # h /\ (moved[g] \/ g \in PersistingOf(fn[h]))]
  /\ acked' = [acked EXCEPT ![fn[h]] = @ \cup {fresh[h]}]
  /\ Answer(h)

\* The descriptor still writes to the inode, now under the file's own name.
WriteThrough(h) ==
  /\ pc[h] = "persist"
  /\ moved[h]
  /\ \E r \in {clone[h], Unreadable} : disk' = [disk EXCEPT ![fn[h]] = r]
  /\ UNCHANGED <<memory, found, merged, callVars, updates, restarts, history>>

\* An error of the file system, or nothing left to rename (ENOENT).
\* store_function_conclusion answers persist_error; the others log it.
PersistFails(h) ==
  /\ pc[h] = "persist"
  /\ "io" \in Faults \/ moved[h]
  /\ moved' = [moved EXCEPT ![h] = FALSE]
  /\ Answer(h)
  /\ UNCHANGED <<disk, acked>>

-----------------------------------------------------------------------------
(* The server is killed and started again (new_lazy).                      *)

\* load_conclusion_dir: None of a file that does not parse.
Loaded(f) == IF disk[f] = Unreadable THEN Nothing ELSE disk[f]

Restart ==
  /\ restarts < MaxRestarts
  /\ restarts' = restarts + 1
  /\ memory' = [f \in Functions |-> Nothing]
  /\ found' = [f \in Functions |-> Loaded(f)]
  /\ merged' = (\A f \in Functions : Loaded(f) = Nothing)
  /\ pc' = [h \in Handlers |-> "idle"]
  /\ clone' = [h \in Handlers |-> Nothing]
  /\ fresh' = [h \in Handlers |-> 0]
  /\ others' = [h \in Handlers |-> {}]
  /\ moved' = [h \in Handlers |-> FALSE]
  /\ UNCHANGED <<disk, fn, updates, history>>

\* Mutant: only the functions of calls made meanwhile are merged.
MergedOnlyKnown(f) == IF Known(f) THEN memory[f] ELSE Nothing

\* Mutant: what was found replaces what calls have stored meanwhile.
MergedOver(f) == IF found[f] # Nothing THEN found[f] ELSE memory[f]

\* Mutant: the sandbox that died with the server is forgotten.
MergedClean(f) ==
  IF Known(f) \/ found[f] = Nothing THEN memory[f] ELSE [found[f] EXCEPT !.clean = TRUE]

\* entry(f).or_insert(found).
MergedInto(f) == IF Known(f) THEN memory[f] ELSE found[f]

Merge ==
  /\ ~merged
  /\ merged' = TRUE
  /\ memory' = [f \in Functions |-> MergedInto(f)]
  /\ found' = [f \in Functions |-> Nothing]
  /\ UNCHANGED <<disk, callVars, updates, restarts, history>>

Finished ==
  /\ updates = MaxUpdates /\ merged
  /\ \A h \in Handlers : pc[h] = "idle"
  /\ UNCHANGED vars

Next ==
  \/ \E h \in Handlers, f \in Functions :
       (\E u \in Updates : Store(h, f, u)) \/ Created(h, f) \/ Added(h, f) \/ DeletedNote(h, f)
  \/ \E h \in Handlers : Persist(h) \/ WriteThrough(h) \/ PersistFails(h)
  \/ Restart \/ Merge \/ Finished

Spec == Init /\ [][Next]_vars

-----------------------------------------------------------------------------
(* Properties.                                                             *)

\* Every variable keeps its type; a clone and its update exist exactly while the
\* clone is to be persisted, and nothing is shared otherwise.
TypeOK ==
  /\ {memory, found} \subseteq [Functions -> Record \cup {Nothing}]
  /\ disk \in [Functions -> Record \cup {Nothing, Unreadable}]
  /\ merged \in BOOLEAN
  /\ pc \in [Handlers -> {"idle", "persist"}]
  /\ fn \in [Handlers -> Functions]
  /\ clone \in [Handlers -> Record \cup {Nothing}]
  /\ fresh \in [Handlers -> 0 .. MaxUpdates]
  /\ \A h \in Handlers : (pc[h] = "idle" <=> clone[h] = Nothing) /\ (pc[h] = "idle" <=> fresh[h] = 0)
  /\ others \in [Handlers -> SUBSET Record] /\ moved \in [Handlers -> BOOLEAN]
  /\ \A h \in Handlers : pc[h] = "idle" => others[h] = {} /\ ~moved[h]
  /\ updates \in 0 .. MaxUpdates /\ restarts \in 0 .. MaxRestarts
  /\ acked \in [Functions -> SUBSET (1 .. MaxUpdates)]
  /\ early \in [Functions -> BOOLEAN] /\ overlapped \in [Functions -> BOOLEAN]

\* What a call has stored whose record was persisted survives: it is on disk from
\* then on, and in memory again once a restart has merged it, unless a call about
\* the same function was made before the merge, or two calls about it overlapped:
\* then the clones reach the file in any order.  (If persisting fails,
\* store_function_conclusion answers persist_error; the sandbox tools answer as if
\* it had not, so that their answer says nothing of the disk.)
AcknowledgedSurvives ==
  \A f \in Functions : ~early[f] /\ ~overlapped[f] /\ acked[f] # {} =>
    /\ disk[f] # Nothing /\ acked[f] \subseteq disk[f].has
    /\ merged => Known(f) /\ acked[f] \subseteq memory[f].has

\* Whenever the merge of what was found at start happens, it undoes no call:
\* the update a call is persisting stays in memory.
MergeUndoesNoCall ==
  \A h \in Handlers : pc[h] = "persist" => Known(fn[h]) /\ fresh[h] \in memory[fn[h]].has

\* The failure evidence of an earlier attempt never stands beside a verified
\* status, in memory or on disk, whatever order updates and sandboxes come in.
VerifiedHasNoEvidence ==
  \A m \in {memory, disk} : \A f \in Functions :
    m[f] # Nothing /\ m[f].status = "verified" => ~m[f].evidence

\* A record that can be read on disk is one that memory went through: persisting
\* neither invents a state nor mixes two (memory only ever gains updates), not
\* even when calls about the function overlap.  What calls that overlap can do is
\* leave a file that cannot be read; calls that take turns never do, whatever
\* write fails and whenever the server is killed.
DiskIsEarlierMemory ==
  \A f \in Functions :
    /\ disk[f] = Unreadable => overlapped[f]
    /\ disk[f] \notin {Nothing, Unreadable} /\ merged /\ ~early[f] =>
         /\ disk[f].has \subseteq memory[f].has
         /\ disk[f].has = memory[f].has => disk[f] = memory[f]

-----------------------------------------------------------------------------
(* What comments claim, and the code does not keep.                        *)

\* "at session start the existing conclusions are restored" (server.rs:372):
\* once the merge has run, what was acknowledged is in memory (and on disk
\* before, as no two calls overlapped).
RestartRestores ==
  \A f \in Functions : merged /\ ~overlapped[f] /\ acked[f] # {} => Known(f) /\ acked[f] \subseteq memory[f].has
=============================================================================
