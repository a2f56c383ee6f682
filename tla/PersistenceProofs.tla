--------------------------- MODULE PersistenceProofs ---------------------------
(***************************************************************************)
(* Theorems about what is persisted: how a file is replaced (TmpRename),   *)
(* for any finite set of writers, any data, any number of writes and any   *)
(* faults, and what the files and the memory say of a function             *)
(* (Conclusions), for any handlers, functions and updates, any number of   *)
(* calls and restarts, and any faults.                                     *)
(***************************************************************************)
EXTENDS TmpRename, Conclusions, FiniteSetTheorems, TLAPS

-----------------------------------------------------------------------------
(* The file.                                                               *)

\* One element more makes a finite set larger by at most one.
LEMMA OneMore ==
  ASSUME NEW S, NEW x, IsFiniteSet(S)
  PROVE  /\ IsFiniteSet(S \cup {x})
         /\ Cardinality(S) \in Nat /\ Cardinality(S \cup {x}) \in Nat
         /\ Cardinality(S \cup {x}) <= Cardinality(S) + 1
<1>1. IsFiniteSet(S \cup {x})
  BY FS_AddElement
<1>2. Cardinality(S) \in Nat
  BY FS_CardinalityType
<1>3. Cardinality(S \cup {x}) \in Nat
  BY <1>1, FS_CardinalityType
<1>4. Cardinality(S \cup {x}) = IF x \in S THEN Cardinality(S) ELSE Cardinality(S) + 1
  BY FS_AddElement
<1> QED BY <1>1, <1>2, <1>3, <1>4

\* A writer that has nothing open leaves an inode for the file it creates:
\* there are two more inodes than writers, and two names.
LEMMA FreeInode ==
  ASSUME FileTypeOK, NEW w \in Writers, fd[w] = 0
  PROVE  Free # {}
<1> DEFINE InUse  == {fd[v] : v \in Writers}
           Taken == (InUse \cup {meta}) \cup {tmp}
<1>1. IsFiniteSet(Writers) /\ Cardinality(Writers) \in Nat
  BY FileAssumption, FS_CardinalityType
<1>2. fd \in Surjection(Writers, InUse)
  BY DEF FileTypeOK, Surjection
<1>3. IsFiniteSet(InUse) /\ Cardinality(InUse) <= Cardinality(Writers)
  BY <1>1, <1>2, FS_Surjection
<1>4. IsFiniteSet(Taken) /\ Cardinality(Taken) <= Cardinality(Writers) + 2
  <2> HIDE DEF InUse
  <2>1. /\ IsFiniteSet(InUse \cup {meta})
        /\ Cardinality(InUse \cup {meta}) \in Nat /\ Cardinality(InUse) \in Nat
        /\ Cardinality(InUse \cup {meta}) <= Cardinality(InUse) + 1
    BY <1>3, OneMore
  <2>2. /\ IsFiniteSet(Taken)
        /\ Cardinality(Taken) \in Nat
        /\ Cardinality(Taken) <= Cardinality(InUse \cup {meta}) + 1
    BY <2>1, OneMore
  <2> QED BY <1>1, <1>3, <2>1, <2>2
<1>5. 0 \in Taken
  BY DEF FileTypeOK
<1>6. /\ IsFiniteSet(Taken \ {0})
      /\ Cardinality(Taken \ {0}) < Cardinality(Writers) + 2
  <2> HIDE DEF Taken
  <2>1. Cardinality(Taken \ {0}) = Cardinality(Taken) - 1 /\ IsFiniteSet(Taken \ {0})
    BY <1>4, <1>5, FS_RemoveElement
  <2>2. Cardinality(Taken) \in Nat
    BY <1>4, FS_CardinalityType
  <2> QED BY <1>1, <1>4, <2>1, <2>2
<1>7. Cardinality(Inodes) = Cardinality(Writers) + 2
  BY <1>1, FS_Interval DEF Inodes
<1>8. ~(Inodes \subseteq Taken \ {0})
  <2> HIDE DEF Taken
  <2>1. SUFFICES ASSUME Inodes \subseteq Taken \ {0} PROVE FALSE
    OBVIOUS
  <2>2. Cardinality(Inodes) <= Cardinality(Taken \ {0})
    BY <1>6, <2>1, FS_Subset
  <2>3. Cardinality(Taken \ {0}) \in Nat
    BY <1>6, FS_CardinalityType
  <2> QED BY <1>1, <1>6, <1>7, <2>2, <2>3
<1>9. PICK i \in Inodes : i \notin Taken
  <2> HIDE DEF Taken
  <2> QED BY <1>1, <1>8 DEF Inodes
<1> QED BY <1>9 DEF Free

\* The inode that Open creates is neither of the two names'.
LEMMA OpenInode ==
  ASSUME FileTypeOK, NEW w \in Writers, step[w] = "open"
  PROVE  LET i == IF tmp # 0 THEN tmp ELSE CHOOSE j \in Free : TRUE
         IN  i \in Inodes /\ i # meta
<1>1. fd[w] = 0
  BY DEF FileTypeOK
<1>2. (CHOOSE j \in Free : TRUE) \in Free
  BY <1>1, FreeInode
<1> QED BY <1>2 DEF FileTypeOK, Free, Inodes

\* Zero is no inode.
LEMMA NoInodeZero == 0 \notin Inodes
<1>1. Cardinality(Writers) \in Nat
  BY FileAssumption, FS_CardinalityType
<1> QED BY <1>1 DEF Inodes

\* The initial state is well typed.
LEMMA FileTypeInit == FileInit => FileTypeOK
<1>1. FileInit => /\ meta \in {0} \cup Inodes /\ tmp \in {0} \cup Inodes
                  /\ meta # 0 => meta # tmp
                  /\ writes \in Nat
  BY DEF FileInit
<1>2. FileInit => interleaved \in BOOLEAN
  BY DEF FileInit
<1>3. FileInit => /\ inode \in [Inodes -> Data \cup {Empty, Torn}]
                  /\ step \in [Writers -> {"idle", "open", "write", "rename", "return"}]
                  /\ data \in [Writers -> Data \cup {Missing}]
                  /\ fd \in [Writers -> {0} \cup Inodes]
                  /\ answer \in [Writers -> {"none", "ok", "error"}]
                  /\ \A w \in Writers : /\ (data[w] = Missing) <=> (step[w] = "idle")
                                        /\ (fd[w] # 0) <=> (step[w] = "write")
  BY DEF FileInit
<1> QED BY <1>1, <1>2, <1>3 DEF FileTypeOK

\* FileTypeOK is inductive as it stands.
LEMMA FileTypeStep == FileTypeOK /\ [FileNext]_fileVars => FileTypeOK'
<1> SUFFICES ASSUME FileTypeOK, [FileNext]_fileVars PROVE FileTypeOK'
  OBVIOUS
<1> USE FileAssumption, NoInodeZero
<1>1. ASSUME NEW w \in Writers, NEW d \in Data, Begin(w, d) PROVE FileTypeOK'
  BY <1>1 DEF FileTypeOK, Begin
<1>2. ASSUME NEW w \in Writers, Open(w) PROVE FileTypeOK'
  <2> DEFINE i == IF tmp # 0 THEN tmp ELSE CHOOSE j \in Free : TRUE
  <2>1. i \in Inodes /\ i # meta
    BY <1>2, OpenInode DEF Open
  <2>2. /\ tmp' = i
        /\ inode' = [inode EXCEPT ![i] = Empty]
        /\ fd' = [fd EXCEPT ![w] = i]
    BY <1>2 DEF Open
  <2>3. i # 0
    BY <2>1
  <2> HIDE DEF i
  <2>4. /\ step' = [step EXCEPT ![w] = "write"]
        /\ UNCHANGED <<meta, data, answer, interleaved, writes>>
        /\ data[w] # Missing
    BY <1>2 DEF Open, FileTypeOK
  <2>5. inode' \in [Inodes -> Data \cup {Empty, Torn}]
    BY <2>1, <2>2 DEF FileTypeOK
  <2>6. fd' \in [Writers -> {0} \cup Inodes]
    BY <2>1, <2>2 DEF FileTypeOK
  <2>7. \A v \in Writers : (data'[v] = Missing) <=> (step'[v] = "idle")
    BY <2>4 DEF FileTypeOK
  <2>8. \A v \in Writers : (fd'[v] # 0) <=> (step'[v] = "write")
    BY <2>2, <2>3, <2>4 DEF FileTypeOK
  <2> QED BY <2>1, <2>2, <2>4, <2>5, <2>6, <2>7, <2>8 DEF FileTypeOK
<1>3. ASSUME NEW w \in Writers, Write(w) PROVE FileTypeOK'
  <2>1. fd[w] \in Inodes /\ data[w] \in Data
    BY <1>3 DEF FileTypeOK, Write
  <2>2. inode' \in [Inodes -> Data \cup {Empty, Torn}]
    BY <1>3, <2>1 DEF FileTypeOK, Write
  <2> QED BY <1>3, <2>2 DEF FileTypeOK, Write
<1>4. ASSUME NEW w \in Writers, Rename(w) PROVE FileTypeOK'
  BY <1>4 DEF FileTypeOK, Rename, TmpMoved, MetaKept
<1>5. ASSUME NEW w \in Writers, Return(w) PROVE FileTypeOK'
  BY <1>5 DEF FileTypeOK, Return
<1>6. ASSUME NEW w \in Writers, Fails(w) PROVE FileTypeOK'
  <2>1. inode' \in [Inodes -> Data \cup {Empty, Torn}]
    BY <1>6 DEF FileTypeOK, Fails
  <2> QED BY <1>6, <2>1 DEF FileTypeOK, Fails
<1>7. ASSUME Crash PROVE FileTypeOK'
  BY <1>7 DEF FileTypeOK, Crash
<1>8. ASSUME UNCHANGED fileVars PROVE FileTypeOK'
  BY <1>8 DEF FileTypeOK, fileVars
<1> QED BY <1>1, <1>2, <1>3, <1>4, <1>5, <1>6, <1>7, <1>8 DEF FileNext, FileFinished

\* Every variable keeps its type, the two names are never one inode, and a
\* writer that creates the temporary file always finds a free inode.
THEOREM FileTypeCorrect == FileSpec => []FileTypeOK
BY FileTypeInit, FileTypeStep, PTL DEF FileSpec

-----------------------------------------------------------------------------

\* A file that is there is an inode that holds something.
LEMMA VisibleIffBound == FileTypeOK => (Visible = Missing <=> meta = 0)
BY FileAssumption, NoInodeZero DEF FileTypeOK, Visible

\* No step unbinds the name of the file.
LEMMA StaysBound == FileTypeOK /\ [FileNext]_fileVars /\ meta # 0 => meta' # 0
BY DEF FileTypeOK, FileNext, Begin, Open, Write, Rename, MetaKept, Return, Fails, Crash, FileFinished, fileVars

\* Once written the file is always there, however many writers race on the
\* temporary name, and whatever fails or is killed (server.rs:195-201).
THEOREM FileNeverDisappears == FileSpec => NeverDisappears
<1>1. FileTypeOK /\ FileTypeOK' /\ [FileNext]_fileVars => [Visible # Missing => Visible' # Missing]_fileVars
  <2> SUFFICES ASSUME FileTypeOK, FileTypeOK', [FileNext]_fileVars, Visible # Missing
               PROVE  Visible' # Missing
    OBVIOUS
  <2>1. meta' # 0
    BY VisibleIffBound, StaysBound
  <2>2. Visible' = Missing <=> meta' = 0
    BY FileAssumption, NoInodeZero DEF FileTypeOK, Visible
  <2> QED BY <2>1, <2>2
<1> QED BY <1>1, FileTypeCorrect, PTL DEF FileSpec, NeverDisappears

-----------------------------------------------------------------------------

\* What the refinement needs of the calls while they take turns: one is under
\* way, the descriptor it writes through is the temporary file's, emptied, and
\* what it renames is what it wants to store.
TakingTurns ==
  ~interleaved =>
    \A w \in Writers : step[w] # "idle" =>
      /\ \A v \in Writers \ {w} : step[v] = "idle"
      /\ step[w] = "write" => fd[w] = tmp /\ inode[tmp] = Empty
      /\ step[w] = "rename" => tmp # 0 /\ inode[tmp] = data[w]

\* No call is under way when the server starts.
LEMMA TurnsInit == FileInit => TakingTurns
BY DEF FileInit, TakingTurns

\* Every step keeps TakingTurns.
LEMMA TurnsStep == FileTypeOK /\ TakingTurns /\ [FileNext]_fileVars => TakingTurns'
<1> SUFFICES ASSUME FileTypeOK, TakingTurns, [FileNext]_fileVars, ~interleaved',
                    NEW u \in Writers, step'[u] # "idle"
             PROVE  /\ \A v \in Writers \ {u} : step'[v] = "idle"
                    /\ step'[u] = "write" => fd'[u] = tmp' /\ inode'[tmp'] = Empty
                    /\ step'[u] = "rename" => tmp' # 0 /\ inode'[tmp'] = data'[u]
  BY DEF TakingTurns
<1> DEFINE Goal == /\ \A v \in Writers \ {u} : step'[v] = "idle"
                   /\ step'[u] = "write" => fd'[u] = tmp' /\ inode'[tmp'] = Empty
                   /\ step'[u] = "rename" => tmp' # 0 /\ inode'[tmp'] = data'[u]
<1>1. ASSUME NEW w \in Writers, NEW d \in Data, Begin(w, d) PROVE Goal
  BY <1>1 DEF FileTypeOK, Begin
<1>2. ASSUME NEW w \in Writers, Open(w) PROVE Goal
  <2> DEFINE i == IF tmp # 0 THEN tmp ELSE CHOOSE j \in Free : TRUE
  <2>1. i \in Inodes
    BY <1>2, OpenInode DEF Open
  <2>2. /\ tmp' = i
        /\ inode' = [inode EXCEPT ![i] = Empty]
        /\ fd' = [fd EXCEPT ![w] = i]
        /\ step[w] = "open" /\ step' = [step EXCEPT ![w] = "write"]
        /\ interleaved' = interleaved
    BY <1>2 DEF Open
  <2> HIDE DEF i
  <2>3. \A v \in Writers \ {w} : step[v] = "idle"
    BY <2>2 DEF TakingTurns
  <2>4. u = w
    BY <2>2, <2>3 DEF FileTypeOK
  <2> QED BY <2>1, <2>2, <2>3, <2>4 DEF FileTypeOK
<1>3. ASSUME NEW w \in Writers, Write(w) PROVE Goal
  <2>1. /\ \A v \in Writers \ {w} : step[v] = "idle"
        /\ fd[w] = tmp /\ inode[tmp] = Empty
    BY <1>3 DEF Write, TakingTurns
  <2>2. tmp \in Inodes /\ tmp # 0
    BY <1>3, <2>1 DEF FileTypeOK, Write
  <2>3. inode' = [inode EXCEPT ![tmp] = data[w]]
    BY <1>3, <2>1 DEF Write
  <2>4. u = w
    BY <1>3, <2>1 DEF FileTypeOK, Write
  <2> QED BY <1>3, <2>1, <2>2, <2>3, <2>4 DEF FileTypeOK, Write
<1>4. ASSUME NEW w \in Writers, Rename(w) PROVE Goal
  BY <1>4 DEF FileTypeOK, Rename, TakingTurns
<1>5. ASSUME NEW w \in Writers, Return(w) PROVE Goal
  BY <1>5 DEF FileTypeOK, Return, TakingTurns
<1>6. ASSUME NEW w \in Writers, Fails(w) PROVE Goal
  BY <1>6 DEF FileTypeOK, Fails, TakingTurns
<1>7. ASSUME Crash PROVE Goal
  BY <1>7 DEF FileTypeOK, Crash
<1>8. ASSUME UNCHANGED fileVars PROVE Goal
  BY <1>8 DEF TakingTurns, fileVars
<1> QED BY <1>1, <1>2, <1>3, <1>4, <1>5, <1>6, <1>7, <1>8 DEF FileNext, FileFinished

\* What the abstract file has stored, as a function of where the writers are.
HasStored == [w \in Writers |-> step[w] = "return"]

\* The initial states map to initial states of AtomicFile.
LEMMA RefinesInit == FileInit => File!Init
BY DEF FileInit, File!Init, Visible

\* A step that leaves no two calls overlapping is a step of the atomic file.
LEMMA RefinesStep ==
  ASSUME FileTypeOK, TakingTurns, FileNext, ~interleaved'
  PROVE  [File!Next]_(File!vars)
<1> USE FileAssumption, NoInodeZero
<1>1. ASSUME NEW w \in Writers, NEW d \in Data, Begin(w, d) PROVE File!Begin(w, d)
  <2>1. HasStored' = HasStored
    BY <1>1 DEF Begin, HasStored, FileTypeOK
  <2>2. Visible' = Visible
    BY <1>1 DEF Begin, Visible
  <2>3. data[w] = Missing
    BY <1>1 DEF Begin, FileTypeOK
  <2> QED BY <1>1, <2>1, <2>2, <2>3 DEF Begin, File!Begin, HasStored
<1>2. ASSUME NEW w \in Writers, Open(w) PROVE UNCHANGED File!vars
  <2> DEFINE i == IF tmp # 0 THEN tmp ELSE CHOOSE j \in Free : TRUE
  <2>1. i \in Inodes /\ i # meta
    BY <1>2, OpenInode DEF Open
  <2>2. inode' = [inode EXCEPT ![i] = Empty] /\ meta' = meta
    BY <1>2 DEF Open
  <2> HIDE DEF i
  <2>3. Visible' = Visible
    BY <2>1, <2>2 DEF Visible, FileTypeOK
  <2>4. HasStored' = HasStored
    BY <1>2 DEF Open, HasStored, FileTypeOK
  <2> QED BY <1>2, <2>3, <2>4 DEF Open, File!vars, HasStored
<1>3. ASSUME NEW w \in Writers, Write(w) PROVE UNCHANGED File!vars
  <2>1. fd[w] = tmp /\ tmp # 0
    BY <1>3 DEF Write, TakingTurns, FileTypeOK
  <2>2. Visible' = Visible
    BY <1>3, <2>1 DEF Visible, FileTypeOK, Write
  <2>3. HasStored' = HasStored
    BY <1>3 DEF Write, HasStored, FileTypeOK
  <2> QED BY <1>3, <2>2, <2>3 DEF Write, File!vars, HasStored
<1>4. ASSUME NEW w \in Writers, Rename(w) PROVE File!Replace(w)
  <2>1. tmp # 0 /\ inode[tmp] = data[w]
    BY <1>4 DEF Rename, TakingTurns
  <2>2. Visible' = data[w]
    BY <1>4, <2>1 DEF Rename, Visible
  <2>3. data' = data /\ answer' = answer
    BY <1>4, <2>1 DEF Rename, FileTypeOK
  <2>4. data[w] # Missing /\ ~HasStored[w]
    BY <1>4 DEF Rename, FileTypeOK, HasStored
  <2>5. HasStored' = [HasStored EXCEPT ![w] = TRUE]
    BY <1>4, <2>1 DEF Rename, HasStored, FileTypeOK
  <2> QED BY <2>2, <2>3, <2>4, <2>5 DEF File!Replace, HasStored
<1>5. ASSUME NEW w \in Writers, Return(w) PROVE File!Done(w)
  <2>1. Visible' = Visible
    BY <1>5 DEF Return, Visible
  <2>2. data[w] # Missing /\ HasStored[w]
    BY <1>5 DEF Return, FileTypeOK, HasStored
  <2>3. HasStored' = [HasStored EXCEPT ![w] = FALSE]
    BY <1>5 DEF Return, HasStored, FileTypeOK
  <2>4. answer' = [answer EXCEPT ![w] = IF HasStored[w] THEN "ok" ELSE "error"]
    BY <1>5, <2>2 DEF Return
  <2>5. data' = [data EXCEPT ![w] = Missing]
    BY <1>5 DEF Return
  <2> QED BY <2>1, <2>2, <2>3, <2>4, <2>5 DEF File!Done, HasStored
<1>6. ASSUME NEW w \in Writers, Fails(w) PROVE File!Done(w)
  <2>1. Visible' = Visible
    BY <1>6 DEF Fails, Visible, TakingTurns, FileTypeOK
  <2>2. data[w] # Missing /\ ~HasStored[w]
    BY <1>6 DEF Fails, FileTypeOK, HasStored
  <2>3. HasStored' = [HasStored EXCEPT ![w] = FALSE]
    BY <1>6 DEF Fails, HasStored, FileTypeOK
  <2>4. answer' = [answer EXCEPT ![w] = IF HasStored[w] THEN "ok" ELSE "error"]
    BY <1>6, <2>2 DEF Fails
  <2>5. data' = [data EXCEPT ![w] = Missing]
    BY <1>6 DEF Fails
  <2> QED BY <2>1, <2>2, <2>3, <2>4, <2>5 DEF File!Done, HasStored
<1>7. ASSUME Crash PROVE File!ServerDies
  <2>1. Visible' = Visible
    BY <1>7 DEF Crash, Visible
  <2>2. HasStored' = [w \in Writers |-> FALSE]
    BY <1>7 DEF Crash, HasStored
  <2> QED BY <1>7, <2>1, <2>2 DEF Crash, File!ServerDies, HasStored
<1>8. ASSUME UNCHANGED fileVars PROVE UNCHANGED File!vars
  BY <1>8 DEF fileVars, File!vars, Visible
<1> QED BY <1>1, <1>2, <1>3, <1>4, <1>5, <1>6, <1>7, <1>8 DEF FileNext, FileFinished, File!Next

\* As long as the callers take turns, write to the temporary name and rename
\* implement a file that is replaced as a whole, by exactly the calls that
\* report success, with failures and kills at any point (server.rs:208-225).
THEOREM ImplementsAtomicFile == FileSpec => ReplacesAtomically
<1>1. FileTypeOK /\ TakingTurns /\ [FileNext]_fileVars => [~interleaved' => [File!Next]_(File!vars)]_fileVars
  BY RefinesStep
<1>2. FileSpec => []TakingTurns
  BY TurnsInit, TurnsStep, FileTypeCorrect, PTL DEF FileSpec
<1> QED BY RefinesInit, <1>1, <1>2, FileTypeCorrect, PTL DEF FileSpec, ReplacesAtomically

-----------------------------------------------------------------------------
(* What a call makes of a record.                                          *)

\* The record says nothing of evidence once it is verified.
Sound(r) == r # Nothing /\ r.status = "verified" => ~r.evidence

\* A call leaves a function with a new record, made from the current one.
Changes(h, f, r) ==
  /\ r \in Record /\ Sound(r)
  /\ r.has = Current(f).has
  /\ Change(h, f, r)

\* Nothing and an unreadable file are no records, and the record that a new one
\* starts from is one.
LEMMA RecordFacts ==
  /\ Nothing \notin Record /\ Unreadable \notin Record /\ Nothing # Unreadable
  /\ Sound(Nothing) /\ Sound(Unreadable)
  /\ EmptyConclusion \in Record /\ Sound(EmptyConclusion)
  /\ TypeOK => \A f \in Functions : Current(f) \in Record
<1>1. /\ Nothing \notin Record /\ Unreadable \notin Record /\ Nothing # Unreadable
      /\ Sound(Nothing) /\ Sound(Unreadable)
  <2>1. Nothing.status = "keep" /\ Unreadable.status = "unreadable"
    BY DEF Nothing, Unreadable, Keep
  <2> QED BY <2>1 DEF Record, Statuses, Sound
<1>2. EmptyConclusion \in Record /\ Sound(EmptyConclusion)
  BY DEF EmptyConclusion, Record, Statuses, Sound
<1> QED BY <1>1, <1>2 DEF TypeOK, Current, Known

\* An update that is stored makes a record of a record, leaves the history alone,
\* and leaves no evidence beside a verified status.
LEMMA StoredFacts ==
  ASSUME NEW r \in Record, NEW u \in Updates
  PROVE  Stored(r, u) \in Record /\ Sound(Stored(r, u)) /\ Stored(r, u).has = r.has
<1> DEFINE status == IF u.status = Keep THEN r.status ELSE u.status
           specs  == IF u.specs = {} THEN r.specs ELSE CHOOSE n \in u.specs : TRUE
<1>1. u \in Update
  BY UpdateAssumption
<1>2. status \in Statuses
  BY <1>1 DEF Update, Record
<1>3. specs \in Nat
  BY <1>1 DEF Update, Record
<1>4. EvidenceAfter(r, u) \in BOOLEAN /\ (status = "verified" => ~EvidenceAfter(r, u))
  BY <1>1 DEF EvidenceAfter
<1>5. Stored(r, u) = [r EXCEPT !.status = status, !.specs = specs, !.count = specs,
                               !.evidence = EvidenceAfter(r, u)]
  BY DEF Stored
<1> HIDE DEF status, specs
<1> QED BY <1>2, <1>3, <1>4, <1>5 DEF Record, Sound

\* The sandbox events do the same.
LEMMA EventFacts ==
  ASSUME NEW r \in Record, Sound(r)
  PROVE  \A s \in {SandboxCreated(r), AnnotationAdded(r), SandboxDeleted(r)} :
           s \in Record /\ Sound(s) /\ s.has = r.has
<1>1. SandboxCreated(r) \in Record /\ Sound(SandboxCreated(r)) /\ SandboxCreated(r).has = r.has
  BY RecordFacts DEF SandboxCreated, Record, Sound, Final, Statuses
<1>2. AnnotationAdded(r) \in Record /\ Sound(AnnotationAdded(r)) /\ AnnotationAdded(r).has = r.has
  <2> DEFINE count == r.count + 1
  <2>1. count \in Nat
    BY DEF Record
  <2>2. AnnotationAdded(r) = [r EXCEPT !.clean = FALSE, !.count = count]
    BY DEF AnnotationAdded
  <2> HIDE DEF count
  <2>3. /\ AnnotationAdded(r) \in Record /\ AnnotationAdded(r).has = r.has
        /\ AnnotationAdded(r).status = r.status /\ AnnotationAdded(r).evidence = r.evidence
    BY <2>1, <2>2 DEF Record
  <2> QED BY <2>3, RecordFacts DEF Sound
<1>3. SandboxDeleted(r) \in Record /\ Sound(SandboxDeleted(r)) /\ SandboxDeleted(r).has = r.has
  BY RecordFacts DEF SandboxDeleted, Record, Sound
<1> QED BY <1>1, <1>2, <1>3

-----------------------------------------------------------------------------
(* The invariants.                                                         *)

\* Every record anywhere is a record, and sound.
RecordsInv ==
  /\ TypeOK
  /\ \A f \in Functions : Sound(memory[f]) /\ Sound(disk[f]) /\ Sound(found[f])
  /\ \A h \in Handlers : Sound(clone[h]) /\ \A s \in others[h] : Sound(s)

Numbered(r) == r \notin {Nothing, Unreadable} => r.has \subseteq 1 .. updates

\* r is the record in memory, or one it has been.
EarlierIn(m, r, f) ==
  /\ m[f] # Nothing /\ r.has \subseteq m[f].has
  /\ r.has = m[f].has => r = m[f]

Earlier(r, f) == EarlierIn(memory, r, f)

Persisting(h) == pc[h] = "persist"

\* A clone has the update of its call, is a record that memory has been, and,
\* unless calls overlapped, the one that memory is; so are the clones that may
\* be in the same temporary file, and only overlapping calls share one.
CloneInv ==
  \A h \in Handlers : Persisting(h) =>
    /\ fresh[h] \in clone[h].has
    /\ ~early[fn[h]] => \A s \in {clone[h]} \cup others[h] : Earlier(s, fn[h])
    /\ ~overlapped[fn[h]] => clone[h] = memory[fn[h]] /\ others[h] = {} /\ ~moved[h]
    /\ ~overlapped[fn[h]] => PersistingOf(fn[h]) = {h}

\* Until the merge, a function no call was about has nothing in memory, and what
\* was found of it is what can be read on disk.
BeforeMerge ==
  \A f \in Functions : ~merged /\ ~early[f] =>
    /\ memory[f] = Nothing /\ found[f] = Loaded(f)
    /\ \A h \in Handlers : Persisting(h) => fn[h] # f

AfterMerge ==
  \A f \in Functions : merged /\ ~early[f] /\ disk[f] \notin {Nothing, Unreadable} => Earlier(disk[f], f)

\* Only calls that overlap leave a file that cannot be read.
ReadableInv == \A f \in Functions : disk[f] = Unreadable => overlapped[f]

HistoryInv ==
  /\ \A f \in Functions : Numbered(memory[f]) /\ Numbered(disk[f]) /\ Numbered(found[f])
  /\ \A h \in Handlers : Numbered(clone[h]) /\ \A s \in others[h] : Numbered(s)
  /\ MergeUndoesNoCall
  /\ CloneInv /\ BeforeMerge /\ AfterMerge /\ ReadableInv
  /\ AcknowledgedSurvives

-----------------------------------------------------------------------------
(* Steps.                                                                  *)

\* The four tools that change a record are one kind of step.
LEMMA StepCases ==
  ASSUME RecordsInv, [Next]_vars
  PROVE  \/ \E h \in Handlers, f \in Functions, r \in Record : Changes(h, f, r)
         \/ \E h \in Handlers : Persist(h) \/ WriteThrough(h) \/ PersistFails(h)
         \/ Restart \/ Merge \/ UNCHANGED vars
<1> DEFINE Changed == \E h \in Handlers, f \in Functions, r \in Record : Changes(h, f, r)
<1>1. ASSUME NEW f \in Functions PROVE Current(f) \in Record /\ Sound(Current(f))
  BY RecordFacts DEF RecordsInv, Current
<1>2. ASSUME NEW h \in Handlers, NEW f \in Functions, NEW u \in Updates, Store(h, f, u)
      PROVE  Changed
  <2>1. Stored(Current(f), u) \in Record /\ Sound(Stored(Current(f), u))
        /\ Stored(Current(f), u).has = Current(f).has
    BY <1>1, StoredFacts
  <2> QED BY <1>2, <2>1 DEF Store, Changes
<1>3. ASSUME NEW h \in Handlers, NEW f \in Functions, Created(h, f) PROVE Changed
  BY <1>1, <1>3, EventFacts DEF Created, Changes
<1>4. ASSUME NEW h \in Handlers, NEW f \in Functions, Added(h, f) PROVE Changed
  <2>1. memory[f] = Current(f)
    BY <1>4 DEF Added, Current
  <2> QED BY <1>1, <1>4, <2>1, EventFacts DEF Added, Changes
<1>5. ASSUME NEW h \in Handlers, NEW f \in Functions, DeletedNote(h, f) PROVE Changed
  <2>1. memory[f] = Current(f)
    BY <1>5 DEF DeletedNote, Current
  <2> QED BY <1>1, <1>5, <2>1, EventFacts DEF DeletedNote, Changes
<1> HIDE DEF Changed
<1>6. Finished => UNCHANGED vars
  BY DEF Finished
<1>7. Changed \/ (\E h \in Handlers : Persist(h) \/ WriteThrough(h) \/ PersistFails(h)) \/ Restart \/ Merge \/ UNCHANGED vars
  BY <1>2, <1>3, <1>4, <1>5, <1>6 DEF Next
<1> QED BY <1>7 DEF Changed

\* What a call does, once the record it makes is known.
LEMMA ChangeFacts ==
  ASSUME RecordsInv, NEW h \in Handlers, NEW f \in Functions, NEW r \in Record, Changes(h, f, r)
  PROVE  LET new == [r EXCEPT !.has = @ \cup {updates + 1}]
         IN /\ new \in Record /\ new # Nothing /\ Sound(new)
            /\ new.has = Current(f).has \cup {updates + 1}
            /\ memory' = [memory EXCEPT ![f] = new]
            /\ clone' = [clone EXCEPT ![h] = new]
            /\ updates' = updates + 1 /\ updates + 1 \in 1 .. MaxUpdates
<1> DEFINE number == updates + 1
           new == [r EXCEPT !.has = r.has \cup {number}]
<1>1. /\ number \in 1 .. MaxUpdates /\ updates' = number
      /\ memory' = [memory EXCEPT ![f] = new]
      /\ clone' = [clone EXCEPT ![h] = new]
      /\ r.has = Current(f).has
  BY ConclusionAssumption DEF Changes, Change, ClonedAfter, RecordsInv, TypeOK
<1> HIDE DEF number
<1>2. /\ new \in Record /\ new.has = r.has \cup {number}
      /\ new.status = r.status /\ new.evidence = r.evidence
  BY <1>1 DEF Record
<1>3. new # Nothing /\ Sound(new)
  BY <1>2, RecordFacts DEF Changes, Sound
<1> QED BY <1>1, <1>2, <1>3 DEF number

\* A call that overlaps others about the function shares its clone with them, and
\* they theirs.
LEMMA SharedFacts ==
  ASSUME RecordsInv, NEW h \in Handlers, NEW f \in Functions, NEW r \in Record, Changes(h, f, r)
  PROVE  LET new == [r EXCEPT !.has = @ \cup {updates + 1}]
         IN /\ others' \in [Handlers -> SUBSET Record]
            /\ \A s \in others'[h] : \E k \in PersistingOf(f) : s = clone[k]
            /\ \A g \in Handlers \ {h} : others'[g] \subseteq others[g] \cup {new}
            /\ \A g \in Handlers \ {h} : g \notin PersistingOf(f) => others'[g] = others[g]
<1> DEFINE new == [r EXCEPT !.has = @ \cup {updates + 1}]
<1>1. new \in Record
  BY ChangeFacts
<1>2. others' = [g \in Handlers |->
         CASE g = h -> {clone[k] : k \in PersistingOf(f)}
           [] g \in PersistingOf(f) -> others[g] \cup {new}
           [] OTHER -> others[g]]
  BY DEF Changes, Change, ClonedAfter
<1> HIDE DEF new
<1>3. {clone[k] : k \in PersistingOf(f)} \subseteq Record
  BY DEF PersistingOf, RecordsInv, TypeOK
<1>4. \A g \in Handlers : others[g] \subseteq Record
  BY DEF RecordsInv, TypeOK
<1>5. /\ others'[h] = {clone[k] : k \in PersistingOf(f)}
      /\ \A g \in Handlers \ {h} :
           /\ g \in PersistingOf(f) => others'[g] = others[g] \cup {new}
           /\ g \notin PersistingOf(f) => others'[g] = others[g]
  <2> DEFINE clones == {clone[k] : k \in PersistingOf(f)}
             Case(g) == CASE g = h -> clones
                          [] g \in PersistingOf(f) -> others[g] \cup {new}
                          [] OTHER -> others[g]
  <2>1. \A g \in Handlers : others'[g] = Case(g)
    BY <1>2
  <2> HIDE DEF clones
  <2>4. h \notin PersistingOf(f)
    BY DEF Changes, Change, PersistingOf
  <2>2. Case(h) = clones
    BY <2>4
  <2>3. \A g \in Handlers \ {h} :
          /\ g \in PersistingOf(f) => Case(g) = others[g] \cup {new}
          /\ g \notin PersistingOf(f) => Case(g) = others[g]
    OBVIOUS
  <2> QED BY <2>1, <2>2, <2>3 DEF clones
<1>6. others' \in [Handlers -> SUBSET Record]
  <2>1. ASSUME NEW g \in Handlers PROVE others'[g] \subseteq Record
    BY <1>1, <1>3, <1>4, <1>5
  <2>2. others' = [g \in Handlers |-> others'[g]]
    BY <1>2
  <2> QED BY <2>1, <2>2
<1> QED BY <1>5, <1>6 DEF new

\* What a call may rename into place is a record that it or another call made,
\* or, if it shares the temporary file, nothing that can be read.
LEMMA ContentsFacts ==
  ASSUME RecordsInv, NEW h \in Handlers, pc[h] = "persist", NEW r \in TmpContents(h)
  PROVE  /\ r \in Record \cup {Unreadable} /\ Sound(r)
         /\ r \in {clone[h]} \cup others[h] \/ (r = Unreadable /\ others[h] # {})
<1>1. clone[h] \in Record /\ Sound(clone[h])
  BY DEF RecordsInv, TypeOK
<1>2. others[h] \subseteq Record /\ \A s \in others[h] : Sound(s)
  BY DEF RecordsInv, TypeOK
<1>3. r \in {clone[h]} \cup others[h] \/ (r = Unreadable /\ others[h] # {})
  BY DEF TmpContents
<1> QED BY <1>1, <1>2, <1>3, RecordFacts

-----------------------------------------------------------------------------
(* Types, and evidence.                                                    *)

\* Nothing has been recorded at first.
LEMMA RecordsInit == Init => RecordsInv
<1> SUFFICES ASSUME Init PROVE RecordsInv
  OBVIOUS
<1>1. TypeOK
  BY ConclusionAssumption DEF Init, TypeOK
<1>2. \A f \in Functions : Sound(memory[f]) /\ Sound(disk[f]) /\ Sound(found[f])
  BY DEF Init, Sound
<1>3. \A h \in Handlers : Sound(clone[h]) /\ \A s \in others[h] : Sound(s)
  BY DEF Init, Sound
<1> QED BY <1>1, <1>2, <1>3 DEF RecordsInv

\* Every step keeps what is recorded well formed.
LEMMA RecordsStep == RecordsInv /\ [Next]_vars => RecordsInv'
<1> SUFFICES ASSUME RecordsInv, [Next]_vars PROVE RecordsInv'
  OBVIOUS
<1> USE ConclusionAssumption, RecordFacts
<1>1. ASSUME NEW h \in Handlers, NEW f \in Functions, NEW r \in Record, Changes(h, f, r)
      PROVE  RecordsInv'
  <2> DEFINE new == [r EXCEPT !.has = @ \cup {updates + 1}]
  <2>1. /\ new \in Record /\ new # Nothing /\ Sound(new)
        /\ memory' = [memory EXCEPT ![f] = new]
        /\ clone' = [clone EXCEPT ![h] = new]
        /\ updates' = updates + 1 /\ updates + 1 \in 1 .. MaxUpdates
    BY <1>1, ChangeFacts
  <2> HIDE DEF new
  <2>2. /\ fn' = [fn EXCEPT ![h] = f]
        /\ fresh' = [fresh EXCEPT ![h] = updates + 1]
        /\ pc' = [pc EXCEPT ![h] = "persist"]
        /\ early' = [early EXCEPT ![f] = @ \/ ~merged]
        /\ overlapped' = [overlapped EXCEPT ![f] = @ \/ PersistingOf(f) # {}]
        /\ UNCHANGED <<disk, found, merged, restarts, acked, moved>>
    BY <1>1 DEF Changes, Change
  <2>7. /\ others' \in [Handlers -> SUBSET Record]
        /\ \A s \in others'[h] : \E k \in PersistingOf(f) : s = clone[k]
        /\ \A g \in Handlers \ {h} : others'[g] \subseteq others[g] \cup {new}
        /\ \A g \in Handlers \ {h} : g \notin PersistingOf(f) => others'[g] = others[g]
    BY <1>1, SharedFacts DEF new
  <2>3. early' \in [Functions -> BOOLEAN] /\ overlapped' \in [Functions -> BOOLEAN]
    BY <2>2 DEF RecordsInv, TypeOK
  <2>8. \A g \in Handlers : pc'[g] = "idle" => others'[g] = {} /\ ~moved'[g]
    <3>1. ASSUME NEW g \in Handlers, pc'[g] = "idle" PROVE g # h /\ pc[g] = "idle" /\ g \notin PersistingOf(f)
      BY <2>2, <3>1 DEF RecordsInv, TypeOK, PersistingOf
    <3> QED BY <2>2, <2>7, <3>1 DEF RecordsInv, TypeOK
  <2>4. TypeOK'
    <3>1. moved' \in [Handlers -> BOOLEAN]
      BY <2>2 DEF RecordsInv, TypeOK
    <3>2. /\ memory' \in [Functions -> Record \cup {Nothing}] /\ clone' \in [Handlers -> Record \cup {Nothing}]
          /\ found' \in [Functions -> Record \cup {Nothing}]
          /\ disk' \in [Functions -> Record \cup {Nothing, Unreadable}]
      BY <2>1, <2>2 DEF RecordsInv, TypeOK
    <3>3. /\ merged' \in BOOLEAN /\ pc' \in [Handlers -> {"idle", "persist"}]
          /\ fn' \in [Handlers -> Functions] /\ fresh' \in [Handlers -> 0 .. MaxUpdates]
          /\ updates' \in 0 .. MaxUpdates /\ restarts' \in 0 .. MaxRestarts
          /\ acked' \in [Functions -> SUBSET (1 .. MaxUpdates)]
      BY <2>1, <2>2 DEF RecordsInv, TypeOK
    <3>4. \A g \in Handlers : (pc'[g] = "idle" <=> clone'[g] = Nothing) /\ (pc'[g] = "idle" <=> fresh'[g] = 0)
      BY <2>1, <2>2 DEF RecordsInv, TypeOK
    <3> QED BY <2>3, <2>7, <2>8, <3>1, <3>2, <3>3, <3>4 DEF TypeOK
  <2>5. \A g \in Functions : Sound(memory'[g]) /\ Sound(disk'[g]) /\ Sound(found'[g])
    BY <2>1, <2>2 DEF RecordsInv, TypeOK
  <2>6. \A g \in Handlers : Sound(clone'[g]) /\ \A s \in others'[g] : Sound(s)
    <3>1. \A g \in Handlers : Sound(clone'[g])
      BY <2>1 DEF RecordsInv, TypeOK
    <3>2. \A s \in others'[h] : Sound(s)
      BY <2>7 DEF RecordsInv, PersistingOf
    <3>3. \A g \in Handlers \ {h} : \A s \in others'[g] : Sound(s)
      BY <2>1, <2>7 DEF RecordsInv
    <3> QED BY <3>1, <3>2, <3>3
  <2> QED BY <2>4, <2>5, <2>6 DEF RecordsInv, Sound
<1>2. ASSUME NEW h \in Handlers, Persist(h) PROVE RecordsInv'
  <2>1. clone[h] \in Record /\ fn[h] \in Functions /\ pc[h] = "persist"
    BY <1>2 DEF Persist, RecordsInv, TypeOK
  <2>2. fresh[h] \in 1 .. MaxUpdates
    BY <1>2 DEF Persist, RecordsInv, TypeOK
  <2>3. PICK r \in TmpContents(h) : disk' = [disk EXCEPT ![fn[h]] = r]
    BY <1>2 DEF Persist
  <2>4. r \in Record \cup {Unreadable} /\ Sound(r)
    BY <2>1, ContentsFacts
  <2>5. /\ moved' = [g \in Handlers |-> g # h /\ (moved[g] \/ g \in PersistingOf(fn[h]))]
        /\ acked' = [acked EXCEPT ![fn[h]] = @ \cup {fresh[h]}]
        /\ Answer(h)
    BY <1>2 DEF Persist
  <2>6. moved' \in [Handlers -> BOOLEAN]
        /\ \A g \in Handlers : pc'[g] = "idle" => others'[g] = {} /\ ~moved'[g]
    BY <2>5 DEF Answer, PersistingOf, RecordsInv, TypeOK
  <2>7. /\ disk' \in [Functions -> Record \cup {Nothing, Unreadable}]
        /\ \A g \in Functions : Sound(disk'[g])
    BY <2>1, <2>3, <2>4 DEF RecordsInv, TypeOK
  <2>9. /\ UNCHANGED <<memory, found, merged, fn, updates, restarts, early, overlapped>>
        /\ pc' = [pc EXCEPT ![h] = "idle"] /\ clone' = [clone EXCEPT ![h] = Nothing]
        /\ fresh' = [fresh EXCEPT ![h] = 0] /\ others' = [others EXCEPT ![h] = {}]
    BY <2>5 DEF Answer
  <2>10. /\ acked' \in [Functions -> SUBSET (1 .. MaxUpdates)] /\ pc' \in [Handlers -> {"idle", "persist"}]
         /\ clone' \in [Handlers -> Record \cup {Nothing}] /\ fresh' \in [Handlers -> 0 .. MaxUpdates]
         /\ others' \in [Handlers -> SUBSET Record]
    BY <2>1, <2>2, <2>5, <2>9 DEF RecordsInv, TypeOK
  <2>11. \A g \in Handlers : (pc'[g] = "idle" <=> clone'[g] = Nothing) /\ (pc'[g] = "idle" <=> fresh'[g] = 0)
    BY <2>9 DEF RecordsInv, TypeOK
  <2>8. TypeOK'
    BY <2>6, <2>7, <2>9, <2>10, <2>11 DEF RecordsInv, TypeOK
  <2> QED BY <2>5, <2>7, <2>8 DEF Answer, RecordsInv, TypeOK, Sound
<1>3. ASSUME NEW h \in Handlers, PersistFails(h) PROVE RecordsInv'
  BY <1>3 DEF PersistFails, Answer, RecordsInv, TypeOK, Sound
<1>7. ASSUME NEW h \in Handlers, WriteThrough(h) PROVE RecordsInv'
  <2>1. clone[h] \in Record /\ Sound(clone[h]) /\ fn[h] \in Functions
    BY <1>7 DEF WriteThrough, RecordsInv, TypeOK
  <2>2. PICK r \in {clone[h], Unreadable} : disk' = [disk EXCEPT ![fn[h]] = r]
    BY <1>7 DEF WriteThrough
  <2>3. /\ disk' \in [Functions -> Record \cup {Nothing, Unreadable}]
        /\ \A g \in Functions : Sound(disk'[g])
    BY <2>1, <2>2 DEF RecordsInv, TypeOK
  <2>4. UNCHANGED <<memory, found, merged, callVars, updates, restarts, history>>
    BY <1>7 DEF WriteThrough
  <2>5. TypeOK'
    BY <2>3, <2>4 DEF callVars, history, RecordsInv, TypeOK
  <2> QED BY <2>3, <2>4, <2>5 DEF callVars, RecordsInv, Sound
<1>4. CASE Restart
  <2>1. \A f \in Functions : Loaded(f) \in Record \cup {Nothing} /\ Sound(Loaded(f))
    BY DEF Loaded, RecordsInv, TypeOK
  <2> QED BY <1>4, <2>1 DEF Restart, history, RecordsInv, TypeOK, Sound
<1>5. CASE Merge
  <2>1. \A f \in Functions : memory'[f] \in {memory[f], found[f]} /\ found'[f] = Nothing
    BY <1>5 DEF Merge, MergedInto
  <2>2. /\ memory' \in [Functions -> Record \cup {Nothing}] /\ found' \in [Functions -> Record \cup {Nothing}]
        /\ merged' = TRUE /\ UNCHANGED <<disk, callVars, updates, restarts, history>>
    BY <1>5 DEF Merge, MergedInto, RecordsInv, TypeOK
  <2>3. TypeOK'
    BY <2>2 DEF callVars, history, RecordsInv, TypeOK
  <2>4. \A f \in Functions : Sound(memory'[f]) /\ Sound(disk'[f]) /\ Sound(found'[f])
    BY <2>1, <2>2 DEF RecordsInv, Sound
  <2>5. \A h \in Handlers : Sound(clone'[h]) /\ \A s \in others'[h] : Sound(s)
    BY <2>2 DEF RecordsInv, callVars, Sound
  <2> QED BY <2>3, <2>4, <2>5 DEF RecordsInv, Sound
<1>6. CASE UNCHANGED vars
  BY <1>6 DEF vars, callVars, history, RecordsInv, TypeOK, Sound
<1> QED BY <1>1, <1>2, <1>3, <1>4, <1>5, <1>6, <1>7, StepCases

\* Every variable of the records keeps its type, whatever calls overlap, fail or
\* are cut off by a restart.
THEOREM TypeCorrect == Spec => []TypeOK
<1>1. RecordsInv => TypeOK
  BY DEF RecordsInv
<1> QED BY <1>1, RecordsInit, RecordsStep, PTL DEF Spec

\* Failure evidence never stands beside a verified status (store_conclusion and
\* on_sandbox_created), in memory or in a file.
THEOREM EvidenceIsCleared == Spec => []VerifiedHasNoEvidence
<1>1. RecordsInv => VerifiedHasNoEvidence
  BY RecordFacts DEF RecordsInv, Sound, VerifiedHasNoEvidence
<1> QED BY <1>1, RecordsInit, RecordsStep, PTL DEF Spec

-----------------------------------------------------------------------------
(* Acknowledged updates, the file and the merge.                           *)

\* The file and the memory start equal.
LEMMA HistoryInit == Init => HistoryInv
<1> SUFFICES ASSUME Init PROVE HistoryInv
  OBVIOUS
<1>1. \A f \in Functions : Numbered(memory[f]) /\ Numbered(disk[f]) /\ Numbered(found[f])
  BY DEF Init, Numbered
<1>2. \A h \in Handlers : Numbered(clone[h]) /\ others[h] = {} /\ ~Persisting(h)
  BY DEF Init, Numbered, Persisting
<1>3. BeforeMerge /\ AfterMerge /\ ReadableInv /\ AcknowledgedSurvives
  BY RecordFacts DEF Init, BeforeMerge, AfterMerge, ReadableInv, AcknowledgedSurvives
<1> QED BY <1>1, <1>2, <1>3 DEF HistoryInv, MergeUndoesNoCall, CloneInv, Persisting

\* A call adds a number that no record has: the record it makes is later than
\* all that were in memory.
LEMMA ChangeHistory ==
  ASSUME RecordsInv, HistoryInv,
         NEW h \in Handlers, NEW f \in Functions, NEW r \in Record, Changes(h, f, r)
  PROVE  HistoryInv'
<1>0. updates \in Nat
  BY DEF RecordsInv, TypeOK
<1> USE <1>0
<1> DEFINE new == [r EXCEPT !.has = @ \cup {updates + 1}]
<1>1. /\ new \in Record /\ new # Nothing
      /\ new.has = Current(f).has \cup {updates + 1}
      /\ memory' = [memory EXCEPT ![f] = new]
      /\ clone' = [clone EXCEPT ![h] = new]
      /\ updates' = updates + 1
  BY ChangeFacts
<1> HIDE DEF new
<1>2. /\ pc[h] = "idle"
      /\ fn' = [fn EXCEPT ![h] = f]
      /\ fresh' = [fresh EXCEPT ![h] = updates + 1]
      /\ pc' = [pc EXCEPT ![h] = "persist"]
      /\ early' = [early EXCEPT ![f] = @ \/ ~merged]
      /\ overlapped' = [overlapped EXCEPT ![f] = @ \/ PersistingOf(f) # {}]
      /\ UNCHANGED <<disk, found, merged, restarts, acked, moved>>
  BY DEF Changes, Change
<1>14. /\ others' \in [Handlers -> SUBSET Record]
       /\ \A s \in others'[h] : \E k \in PersistingOf(f) : s = clone[k]
       /\ \A g \in Handlers \ {h} : others'[g] \subseteq others[g] \cup {new}
       /\ \A g \in Handlers \ {h} : g \notin PersistingOf(f) => others'[g] = others[g]
  BY SharedFacts DEF new
<1>3. /\ memory'[f] = new /\ \A g \in Functions \ {f} : memory'[g] = memory[g]
      /\ clone'[h] = new /\ fresh'[h] = updates + 1 /\ pc'[h] = "persist" /\ fn'[h] = f
      /\ \A k \in Handlers \ {h} : clone'[k] = clone[k] /\ fresh'[k] = fresh[k]
                                   /\ pc'[k] = pc[k] /\ fn'[k] = fn[k]
  BY <1>1, <1>2 DEF RecordsInv, TypeOK
<1>4. /\ \A g \in Functions : early'[g] = (early[g] \/ (g = f /\ ~merged))
      /\ \A g \in Functions : overlapped[g] => overlapped'[g]
      /\ \A k \in Handlers : Persisting(k) /\ fn[k] = f => overlapped'[f]
  BY <1>2 DEF RecordsInv, TypeOK, Persisting, PersistingOf
<1>5. /\ Numbered(Current(f)) /\ Current(f).has \subseteq 1 .. updates
      /\ Known(f) => Current(f) = memory[f]
  <2>1. memory[f] \in Record \cup {Nothing} /\ Numbered(memory[f])
    BY DEF HistoryInv, RecordsInv, TypeOK
  <2> QED BY <2>1, RecordFacts DEF Numbered, Current, Known, EmptyConclusion

\* What was earlier still is.
<1>6. ASSUME NEW g \in Functions, NEW s, Earlier(s, g) PROVE Earlier(s, g)'
  <2>1. CASE g = f
    <3>1. s.has \subseteq memory[f].has /\ Current(f) = memory[f]
      BY <1>5, <1>6, <2>1 DEF Earlier, EarlierIn, Known
    <3>2. s.has \subseteq new.has /\ updates + 1 \in new.has /\ updates + 1 \notin s.has
      BY <1>1, <1>5, <3>1
    <3> QED BY <1>1, <1>3, <2>1, <3>2 DEF Earlier, EarlierIn, Known
  <2>2. CASE g # f
    BY <1>3, <1>6, <2>2 DEF Earlier, EarlierIn, Known
  <2> QED BY <2>1, <2>2
<1>7. \A g \in Functions : Numbered(memory[g])' /\ Numbered(disk[g])' /\ Numbered(found[g])'
  <2>1. ASSUME NEW s, Numbered(s) PROVE s \notin {Nothing, Unreadable} => s.has \subseteq 1 .. updates + 1
    BY <1>1, <2>1 DEF Numbered
  <2>2. new.has \subseteq 1 .. updates + 1
    BY <1>1, <1>5
  <2> QED BY <1>1, <1>2, <1>3, <2>1, <2>2 DEF HistoryInv, Numbered
<1>8. \A k \in Handlers : Numbered(clone[k])' /\ \A s \in others'[k] : Numbered(s)'
  <2>1. ASSUME NEW s, Numbered(s) PROVE s \notin {Nothing, Unreadable} => s.has \subseteq 1 .. updates + 1
    BY <1>1, <2>1 DEF Numbered
  <2>2. new.has \subseteq 1 .. updates + 1
    BY <1>1, <1>5
  <2>3. \A k \in Handlers : Numbered(clone[k])'
    BY <1>1, <1>3, <2>1, <2>2 DEF HistoryInv, Numbered
  <2>4. ASSUME NEW k \in Handlers, NEW s \in others'[k] PROVE Numbered(s) \/ s = new
    BY <1>14, <2>4 DEF HistoryInv, PersistingOf
  <2> QED BY <1>1, <2>1, <2>2, <2>3, <2>4 DEF Numbered
<1>9. MergeUndoesNoCall'
  <2> SUFFICES ASSUME NEW k \in Handlers, pc'[k] = "persist"
               PROVE  memory'[fn'[k]] # Nothing /\ fresh'[k] \in memory'[fn'[k]].has
    BY DEF MergeUndoesNoCall, Known
  <2>1. CASE k = h
    BY <1>1, <1>3, <2>1
  <2>2. CASE k # h
    <3>1. /\ fn[k] \in Functions /\ fn'[k] = fn[k] /\ fresh'[k] = fresh[k]
          /\ Known(fn[k]) /\ fresh[k] \in memory[fn[k]].has
      BY <1>3, <2>2 DEF HistoryInv, MergeUndoesNoCall, RecordsInv, TypeOK
    <3> QED BY <1>1, <1>3, <1>5, <3>1 DEF Known
  <2> QED BY <2>1, <2>2
<1>10. CloneInv'
  <2> SUFFICES ASSUME NEW k \in Handlers, Persisting(k)'
               PROVE  /\ fresh'[k] \in clone'[k].has
                      /\ ~early'[fn'[k]] => \A s \in {clone'[k]} \cup others'[k] : EarlierIn(memory', s, fn'[k])
                      /\ ~overlapped'[fn'[k]] =>
                           clone'[k] = memory'[fn'[k]] /\ others'[k] = {} /\ ~moved'[k]
                      /\ ~overlapped'[fn'[k]] => {j \in Handlers : pc'[j] = "persist" /\ fn'[j] = fn'[k]} = {k}
    BY DEF CloneInv, PersistingOf, Earlier
  <2>0. EarlierIn(memory', new, f)
    BY <1>1, <1>3 DEF Earlier, EarlierIn, Known
  <2>1. CASE k = h
    <3>1. ASSUME ~early'[f], NEW s \in others'[h] PROVE EarlierIn(memory', s, f)
      <4>1. PICK g \in PersistingOf(f) : s = clone[g]
        BY <1>14
      <4>2. ~early[f]
        BY <1>4, <3>1
      <4>3. Earlier(clone[g], f)
        BY <4>1, <4>2 DEF HistoryInv, CloneInv, Persisting, PersistingOf
      <4>4. Earlier(s, f)
        BY <4>1, <4>3
      <4> QED BY <1>6, <4>4 DEF Earlier
    <3>2. ~overlapped'[f] => PersistingOf(f) = {}
      BY <1>4 DEF PersistingOf, Persisting
    <3>3. ~overlapped'[f] => others'[h] = {}
      BY <1>14, <3>2
    <3>4. ~moved'[h]
      BY <1>2 DEF RecordsInv, TypeOK
    <3>5. ~overlapped'[f] => {j \in Handlers : pc'[j] = "persist" /\ fn'[j] = f} = {h}
      BY <1>3, <3>2 DEF PersistingOf
    <3> QED BY <1>1, <1>3, <2>0, <2>1, <3>1, <3>3, <3>4, <3>5
  <2>2. CASE k # h
    <3>1. /\ fn[k] \in Functions /\ fn'[k] = fn[k] /\ fresh'[k] = fresh[k] /\ clone'[k] = clone[k]
          /\ Persisting(k)
      BY <1>3, <2>2 DEF Persisting, RecordsInv, TypeOK
    <3>2. /\ fresh[k] \in clone[k].has
          /\ ~early[fn[k]] => \A s \in {clone[k]} \cup others[k] : Earlier(s, fn[k])
          /\ ~overlapped[fn[k]] => clone[k] = memory[fn[k]] /\ others[k] = {} /\ ~moved[k]
          /\ ~overlapped[fn[k]] => PersistingOf(fn[k]) = {k}
      BY <3>1 DEF HistoryInv, CloneInv
    <3>3. ASSUME ~early'[fn'[k]], NEW s \in {clone'[k]} \cup others'[k] PROVE EarlierIn(memory', s, fn'[k])
      <4>1. CASE s \in {clone[k]} \cup others[k]
        <5> DEFINE g == fn[k]
        <5>1. Earlier(s, g) /\ g \in Functions /\ fn'[k] = g
          BY <1>4, <3>1, <3>2, <3>3, <4>1
        <5> HIDE DEF g
        <5>2. EarlierIn(memory', s, g)
          BY <1>6, <5>1 DEF Earlier
        <5> QED BY <5>1, <5>2
      <4>2. CASE s \notin {clone[k]} \cup others[k]
        <5>1. s = new /\ k \in PersistingOf(f)
          BY <1>14, <2>2, <3>1, <3>3, <4>2
        <5>2. fn'[k] = f
          BY <3>1, <5>1 DEF PersistingOf
        <5> QED BY <2>0, <5>1, <5>2
      <4> QED BY <4>1, <4>2
    <3>4. ASSUME ~overlapped'[fn'[k]]
          PROVE  /\ clone'[k] = memory'[fn'[k]] /\ others'[k] = {} /\ ~moved'[k]
                 /\ {j \in Handlers : pc'[j] = "persist" /\ fn'[j] = fn'[k]} = {k}
      <4>1. fn[k] # f /\ ~overlapped[fn[k]]
        BY <1>4, <3>1, <3>4
      <4>2. k \notin PersistingOf(f)
        BY <4>1 DEF PersistingOf
      <4>3. {j \in Handlers : pc'[j] = "persist" /\ fn'[j] = fn'[k]} = {k}
        BY <1>3, <3>1, <3>2, <4>1 DEF PersistingOf
      <4> QED BY <1>2, <1>3, <1>14, <2>2, <3>1, <3>2, <4>1, <4>2, <4>3
    <3> QED BY <3>1, <3>2, <3>3, <3>4
  <2> QED BY <2>1, <2>2
<1>11. BeforeMerge'
  <2> SUFFICES ASSUME NEW g \in Functions, ~merged', ~early'[g]
               PROVE  /\ memory'[g] = Nothing /\ found'[g] = Loaded(g)'
                      /\ \A k \in Handlers : Persisting(k)' => fn'[k] # g
    BY DEF BeforeMerge
  <2>1. g # f /\ ~merged /\ ~early[g]
    BY <1>2, <1>4
  <2>2. memory[g] = Nothing /\ found[g] = Loaded(g) /\ \A k \in Handlers : Persisting(k) => fn[k] # g
    BY <2>1 DEF HistoryInv, BeforeMerge
  <2> QED BY <1>2, <1>3, <2>1, <2>2 DEF Persisting, Loaded
<1>12. AfterMerge'
  <2> SUFFICES ASSUME NEW g \in Functions, merged', ~early'[g], disk'[g] \notin {Nothing, Unreadable}
               PROVE  Earlier(disk[g], g)'
    BY DEF AfterMerge
  <2>1. Earlier(disk[g], g) /\ disk'[g] = disk[g]
    BY <1>2, <1>4 DEF HistoryInv, AfterMerge
  <2> QED BY <1>6, <2>1 DEF Earlier, EarlierIn, Known
<1>13. AcknowledgedSurvives'
  <2> SUFFICES ASSUME NEW g \in Functions, ~early'[g], ~overlapped'[g], acked'[g] # {}
               PROVE  /\ disk'[g] # Nothing /\ acked'[g] \subseteq disk'[g].has
                      /\ merged' => memory'[g] # Nothing /\ acked'[g] \subseteq memory'[g].has
    BY DEF AcknowledgedSurvives, Known
  <2>1. /\ disk[g] # Nothing /\ acked[g] \subseteq disk[g].has
        /\ merged => Known(g) /\ acked[g] \subseteq memory[g].has
    BY <1>2, <1>4 DEF HistoryInv, AcknowledgedSurvives
  <2> QED BY <1>1, <1>2, <1>3, <1>5, <2>1 DEF Known
<1>15. ReadableInv'
  BY <1>2, <1>4 DEF HistoryInv, ReadableInv
<1> QED BY <1>7, <1>8, <1>9, <1>10, <1>11, <1>12, <1>13, <1>15 DEF HistoryInv

\* A clone that reaches the file is one that memory has been.
LEMMA PersistHistory ==
  ASSUME RecordsInv, HistoryInv, NEW h \in Handlers, Persist(h)
  PROVE  HistoryInv'
<1> DEFINE f == fn[h]
<1>1. /\ f \in Functions /\ Persisting(h) /\ clone[h] \in Record
      /\ fresh[h] \in clone[h].has
      /\ ~early[f] => \A s \in {clone[h]} \cup others[h] : Earlier(s, f)
      /\ ~overlapped[f] => clone[h] = memory[f] /\ others[h] = {} /\ ~moved[h]
  BY DEF Persist, Persisting, HistoryInv, CloneInv, RecordsInv, TypeOK
<1>12. PICK r \in TmpContents(h) : disk' = [disk EXCEPT ![f] = r]
  BY DEF Persist
<1>13. /\ r \in Record \cup {Unreadable}
       /\ r \in {clone[h]} \cup others[h] \/ (r = Unreadable /\ others[h] # {})
  BY <1>1, ContentsFacts DEF Persisting
<1>14. /\ ~early[f] /\ r # Unreadable => Earlier(r, f)
       /\ ~overlapped[f] => r = clone[h]
       /\ Numbered(r)
  <2>1. \A s \in {clone[h]} \cup others[h] : Numbered(s)
    BY DEF HistoryInv
  <2> QED BY <1>1, <1>13, <2>1 DEF Numbered
<1>2. /\ acked' = [acked EXCEPT ![f] = @ \cup {fresh[h]}]
      /\ pc' = [pc EXCEPT ![h] = "idle"]
      /\ clone' = [clone EXCEPT ![h] = Nothing]
      /\ fresh' = [fresh EXCEPT ![h] = 0]
      /\ others' = [others EXCEPT ![h] = {}]
      /\ moved' = [g \in Handlers |-> g # h /\ (moved[g] \/ g \in PersistingOf(f))]
      /\ UNCHANGED <<memory, found, merged, fn, updates, restarts, early, overlapped>>
  BY DEF Persist, Answer
<1> HIDE DEF f
<1>3. /\ disk'[f] = r /\ acked'[f] = acked[f] \cup {fresh[h]}
      /\ \A g \in Functions \ {f} : disk'[g] = disk[g] /\ acked'[g] = acked[g]
      /\ \A k \in Handlers : Persisting(k)' =>
           /\ Persisting(k) /\ clone'[k] = clone[k] /\ fresh'[k] = fresh[k]
           /\ others'[k] = others[k] /\ (moved'[k] => moved[k] \/ fn[k] = f)
      /\ \A k \in Handlers : clone'[k] \in {clone[k], Nothing} /\ others'[k] \subseteq others[k]
  BY <1>1, <1>2, <1>12 DEF RecordsInv, TypeOK, Persisting, PersistingOf
<1>4. \A g \in Functions : \A s : Earlier(s, g) => (memory' = memory => Earlier(s, g)')
  BY DEF Earlier, EarlierIn, Known
<1>5. \A g \in Functions : Numbered(memory[g])' /\ Numbered(disk[g])' /\ Numbered(found[g])'
  BY <1>1, <1>2, <1>3, <1>14 DEF HistoryInv, Numbered
<1>6. \A k \in Handlers : Numbered(clone[k])' /\ \A s \in others'[k] : Numbered(s)'
  BY <1>2, <1>3 DEF HistoryInv, Numbered
<1>7. MergeUndoesNoCall'
  BY <1>2, <1>3 DEF HistoryInv, MergeUndoesNoCall, Persisting, Known
<1>8. CloneInv'
  <2> SUFFICES ASSUME NEW k \in Handlers, Persisting(k)'
               PROVE  /\ fresh[k] \in clone[k].has
                      /\ ~early[fn[k]] => \A s \in {clone[k]} \cup others[k] : EarlierIn(memory, s, fn[k])
                      /\ ~overlapped[fn[k]] => clone[k] = memory[fn[k]] /\ others[k] = {} /\ ~moved'[k]
                      /\ ~overlapped[fn[k]] => {j \in Handlers : pc'[j] = "persist" /\ fn[j] = fn[k]} = {k}
    BY <1>2, <1>3 DEF CloneInv, PersistingOf, Earlier
  <2>1. /\ Persisting(k)
        /\ fresh[k] \in clone[k].has
        /\ ~early[fn[k]] => \A s \in {clone[k]} \cup others[k] : Earlier(s, fn[k])
        /\ ~overlapped[fn[k]] => clone[k] = memory[fn[k]] /\ others[k] = {} /\ ~moved[k]
        /\ ~overlapped[fn[k]] => PersistingOf(fn[k]) = {k}
    BY <1>3 DEF HistoryInv, CloneInv
  <2>2. k # h /\ \A j \in Handlers : pc'[j] = "persist" => pc[j] = "persist"
    BY <1>2 DEF Persisting, RecordsInv, TypeOK
  <2>3. ~overlapped[fn[k]] => fn[k] # f
    BY <1>1, <2>1, <2>2 DEF PersistingOf, Persisting, f
  <2>4. ~overlapped[fn[k]] => {j \in Handlers : pc'[j] = "persist" /\ fn[j] = fn[k]} = {k}
    BY <1>2, <2>1, <2>2 DEF PersistingOf, Persisting, RecordsInv, TypeOK
  <2> QED BY <1>3, <2>1, <2>3, <2>4 DEF Earlier
<1>9. BeforeMerge'
  <2>1. ~merged /\ ~early[f] => FALSE
    BY <1>1 DEF HistoryInv, BeforeMerge, f
  <2> QED BY <1>2, <1>3, <2>1 DEF HistoryInv, BeforeMerge, Loaded
<1>10. AfterMerge'
  BY <1>1, <1>2, <1>3, <1>14 DEF HistoryInv, AfterMerge, Earlier, EarlierIn, Known
<1>11. AcknowledgedSurvives'
  <2> SUFFICES ASSUME NEW g \in Functions, ~early[g], ~overlapped[g], acked'[g] # {}
               PROVE  /\ disk'[g] # Nothing /\ acked'[g] \subseteq disk'[g].has
                      /\ merged => memory[g] # Nothing /\ acked'[g] \subseteq memory[g].has
    BY <1>2 DEF AcknowledgedSurvives, Known
  <2>1. CASE g = f
    <3>1. merged /\ Known(f) /\ clone[h] = memory[f] /\ r = clone[h]
      BY <1>1, <1>14, <2>1 DEF HistoryInv, BeforeMerge, Earlier, EarlierIn, Known, f
    <3>2. acked[f] \subseteq memory[f].has
      BY <2>1, <3>1 DEF HistoryInv, AcknowledgedSurvives
    <3> QED BY <1>1, <1>3, <2>1, <3>1, <3>2 DEF Known
  <2>2. CASE g # f
    BY <1>3, <2>2 DEF HistoryInv, AcknowledgedSurvives, Known
  <2> QED BY <2>1, <2>2
<1>15. ReadableInv'
  <2>1. r = Unreadable => overlapped[f]
    BY <1>1, <1>13, RecordFacts
  <2> QED BY <1>2, <1>3, <2>1 DEF HistoryInv, ReadableInv
<1> QED BY <1>5, <1>6, <1>7, <1>8, <1>9, <1>10, <1>11, <1>15 DEF HistoryInv

\* A call whose temporary file another has renamed writes its clone to the file.
LEMMA WriteThroughHistory ==
  ASSUME RecordsInv, HistoryInv, NEW h \in Handlers, WriteThrough(h)
  PROVE  HistoryInv'
<1> DEFINE f == fn[h]
<1>1. /\ f \in Functions /\ clone[h] \in Record /\ overlapped[f]
      /\ ~early[f] => Earlier(clone[h], f)
  BY DEF WriteThrough, Persisting, HistoryInv, CloneInv, RecordsInv, TypeOK
<1>2. PICK r \in {clone[h], Unreadable} : disk' = [disk EXCEPT ![f] = r]
  BY DEF WriteThrough
<1>3. UNCHANGED <<memory, found, merged, callVars, updates, restarts, history>>
  BY DEF WriteThrough
<1>9. pc[h] = "persist"
  BY DEF WriteThrough
<1> HIDE DEF f
<1>4. disk'[f] = r /\ \A g \in Functions \ {f} : disk'[g] = disk[g]
  BY <1>1, <1>2 DEF RecordsInv, TypeOK
<1>5. /\ Numbered(r)
      /\ ~early[f] /\ r # Unreadable => Earlier(r, f)
  BY <1>1, <1>2 DEF HistoryInv, Numbered
<1>6. /\ \A g \in Functions : Numbered(memory[g])' /\ Numbered(disk[g])' /\ Numbered(found[g])'
      /\ \A k \in Handlers : Numbered(clone[k])' /\ \A s \in others'[k] : Numbered(s)'
  BY <1>3, <1>4, <1>5 DEF callVars, HistoryInv, Numbered
<1>7. MergeUndoesNoCall' /\ CloneInv'
  BY <1>3 DEF callVars, history, HistoryInv, MergeUndoesNoCall, CloneInv, PersistingOf, Persisting,
       Earlier, EarlierIn, Known
<1>8. /\ AfterMerge' /\ ReadableInv' /\ AcknowledgedSurvives'
  BY <1>1, <1>3, <1>4, <1>5 DEF history, HistoryInv, AfterMerge, ReadableInv, AcknowledgedSurvives,
       Earlier, EarlierIn, Known
<1>10. BeforeMerge'
  <2>1. ~merged /\ ~early[f] => FALSE
    BY <1>1, <1>9 DEF HistoryInv, BeforeMerge, Persisting, f
  <2> QED BY <1>3, <1>4, <2>1 DEF callVars, history, HistoryInv, BeforeMerge, Persisting, Loaded
<1> QED BY <1>6, <1>7, <1>8, <1>10 DEF HistoryInv

\* With a restart only what is on disk is left of a function; the merge is what
\* brings it back.
LEMMA HistoryStep == RecordsInv /\ HistoryInv /\ [Next]_vars => HistoryInv'
<1> SUFFICES ASSUME RecordsInv, HistoryInv, [Next]_vars PROVE HistoryInv'
  OBVIOUS
<1>1. ASSUME NEW h \in Handlers, NEW f \in Functions, NEW r \in Record, Changes(h, f, r)
      PROVE  HistoryInv'
  BY <1>1, ChangeHistory
<1>2. ASSUME NEW h \in Handlers, Persist(h) PROVE HistoryInv'
  BY <1>2, PersistHistory
<1>7. ASSUME NEW h \in Handlers, WriteThrough(h) PROVE HistoryInv'
  BY <1>7, WriteThroughHistory
<1>3. ASSUME NEW h \in Handlers, PersistFails(h) PROVE HistoryInv'
  <2>1. /\ UNCHANGED <<memory, disk, found, merged, fn, updates, acked, early, overlapped>>
        /\ \A k \in Handlers : Persisting(k)' =>
             /\ Persisting(k) /\ clone'[k] = clone[k] /\ fresh'[k] = fresh[k]
             /\ others'[k] = others[k] /\ moved'[k] = moved[k]
        /\ \A k \in Handlers : clone'[k] \in {clone[k], Nothing} /\ others'[k] \subseteq others[k]
    BY <1>3 DEF PersistFails, Answer, RecordsInv, TypeOK, Persisting
  <2>2. \A k \in Handlers : Numbered(clone[k])' /\ \A s \in others'[k] : Numbered(s)'
    BY <2>1 DEF HistoryInv, Numbered
  <2>3. \A f \in Functions : Numbered(memory[f])' /\ Numbered(disk[f])' /\ Numbered(found[f])'
    BY <2>1 DEF HistoryInv, Numbered
  <2>4. MergeUndoesNoCall'
    BY <2>1 DEF HistoryInv, MergeUndoesNoCall, Persisting, Known
  <2>6. CloneInv'
    BY <2>1 DEF HistoryInv, CloneInv, PersistingOf, Persisting, Earlier, EarlierIn
  <2>5. BeforeMerge' /\ AfterMerge' /\ ReadableInv' /\ AcknowledgedSurvives'
    BY <2>1 DEF HistoryInv, BeforeMerge, AfterMerge, ReadableInv, AcknowledgedSurvives, Loaded, Earlier,
         EarlierIn, Known
  <2> QED BY <2>2, <2>3, <2>4, <2>5, <2>6 DEF HistoryInv
<1>4. CASE Restart
  <2>1. /\ \A f \in Functions : memory'[f] = Nothing
        /\ \A f \in Functions : found'[f] = Loaded(f)
        /\ UNCHANGED <<disk, updates, history>>
        /\ merged' = (\A f \in Functions : Loaded(f) = Nothing)
        /\ \A h \in Handlers : clone'[h] = Nothing /\ others'[h] = {} /\ ~Persisting(h)'
    BY <1>4 DEF Restart, Persisting
  <2>2. \A f \in Functions : Numbered(memory[f])' /\ Numbered(disk[f])' /\ Numbered(found[f])'
    BY <2>1 DEF HistoryInv, Numbered, Loaded
  <2>3. \A h \in Handlers : Numbered(clone[h])' /\ \A s \in others'[h] : Numbered(s)'
    BY <2>1 DEF Numbered
  <2>4. MergeUndoesNoCall' /\ CloneInv'
    BY <2>1 DEF MergeUndoesNoCall, CloneInv, Persisting
  <2>5. BeforeMerge' /\ AfterMerge' /\ ReadableInv'
    BY <2>1 DEF HistoryInv, BeforeMerge, AfterMerge, ReadableInv, history, Loaded
  <2>6. AcknowledgedSurvives'
    BY <2>1 DEF HistoryInv, AcknowledgedSurvives, ReadableInv, Loaded, history
  <2> QED BY <2>2, <2>3, <2>4, <2>5, <2>6 DEF HistoryInv
<1>5. CASE Merge
  <2>1. /\ ~merged /\ merged' = TRUE
        /\ \A f \in Functions : memory'[f] = MergedInto(f) /\ found'[f] = Nothing
        /\ UNCHANGED <<disk, pc, fn, clone, fresh, others, moved, updates, acked, early, overlapped>>
    BY <1>5 DEF Merge, callVars, history
  <2>2. \A f \in Functions :
          /\ Known(f) => memory'[f] = memory[f]
          /\ ~Known(f) => memory'[f] = found[f]
    BY <2>1 DEF MergedInto
  <2>3. \A f \in Functions : ~early[f] => memory'[f] = Loaded(f)
    BY <2>1, <2>2 DEF HistoryInv, BeforeMerge, Known
  <2>4. \A f \in Functions : Numbered(memory[f])' /\ Numbered(disk[f])' /\ Numbered(found[f])'
    BY <2>1, <2>2 DEF HistoryInv, Numbered
  <2>5. \A h \in Handlers : Numbered(clone[h])' /\ \A s \in others'[h] : Numbered(s)'
    BY <2>1 DEF HistoryInv, Numbered
  <2>6. \A h \in Handlers : Persisting(h)' =>
          fn[h] \in Functions /\ Known(fn[h]) /\ memory'[fn[h]] = memory[fn[h]]
    BY <2>1, <2>2 DEF HistoryInv, MergeUndoesNoCall, Persisting, RecordsInv, TypeOK
  <2>7. MergeUndoesNoCall' /\ CloneInv'
    BY <2>1, <2>6 DEF HistoryInv, MergeUndoesNoCall, CloneInv, PersistingOf, Persisting, Earlier, EarlierIn, Known
  <2>8. BeforeMerge' /\ AfterMerge' /\ ReadableInv'
    BY <2>1, <2>3 DEF HistoryInv, BeforeMerge, AfterMerge, ReadableInv, Loaded, Earlier, EarlierIn, Known
  <2>9. AcknowledgedSurvives'
    BY <2>1, <2>3 DEF HistoryInv, ReadableInv, AcknowledgedSurvives, Loaded, Known
  <2> QED BY <2>4, <2>5, <2>7, <2>8, <2>9 DEF HistoryInv
<1>6. CASE UNCHANGED vars
  BY <1>6 DEF vars, callVars, history, HistoryInv, Numbered, MergeUndoesNoCall, CloneInv, PersistingOf, BeforeMerge,
       AfterMerge, ReadableInv, AcknowledgedSurvives, Persisting, Loaded, Earlier, EarlierIn, Known
<1> QED BY <1>1, <1>2, <1>3, <1>4, <1>5, <1>6, <1>7, StepCases

\* Both hold throughout.
LEMMA HistoryHolds == Spec => [](RecordsInv /\ HistoryInv)
<1>1. Init => RecordsInv /\ HistoryInv
  BY RecordsInit, HistoryInit
<1>2. RecordsInv /\ HistoryInv /\ [Next]_vars => RecordsInv' /\ HistoryInv'
  BY RecordsStep, HistoryStep
<1> QED BY <1>1, <1>2, PTL DEF Spec

\* An update whose record was persisted is on disk and, once a restart
\* has merged what is there, in memory, for functions whose calls did not overlap
\* and did not precede the merge.
THEOREM AcknowledgedStays == Spec => []AcknowledgedSurvives
<1>1. HistoryInv => AcknowledgedSurvives
  BY DEF HistoryInv
<1> QED BY <1>1, HistoryHolds, PTL

\* The task that merges at start takes nothing away from the calls it races.
THEOREM MergeIsHarmless == Spec => []MergeUndoesNoCall
<1>1. HistoryInv => MergeUndoesNoCall
  BY DEF HistoryInv
<1> QED BY <1>1, HistoryHolds, PTL

\* A record that can be read on disk is one that memory went through, even when
\* overlapping calls rename what others have written; only such calls leave a
\* file that cannot be read.
THEOREM DiskFollowsMemory == Spec => []DiskIsEarlierMemory
<1>1. HistoryInv => DiskIsEarlierMemory
  BY DEF HistoryInv, AfterMerge, ReadableInv, Earlier, EarlierIn, Known, DiskIsEarlierMemory
<1> QED BY <1>1, HistoryHolds, PTL
=============================================================================
