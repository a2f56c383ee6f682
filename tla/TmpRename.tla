------------------------------ MODULE TmpRename ------------------------------
(***************************************************************************)
(* src/mcp/server.rs, persist_conclusion_at and persist_program_state_at:  *)
(* a JSON file is written to <name>.json.tmp and renamed over the old one. *)
(*                                                                         *)
(* The callers have dropped the lock on the session state by then, so two  *)
(* of them may be here for the same file, with the same temporary name.    *)
(* The file system is modelled as far as that matters: two names, each     *)
(* bound to an inode; a descriptor keeps writing to the inode it opened,   *)
(* wherever that inode has been renamed to.  Contents are a datum, Empty   *)
(* after truncation, or Torn: a mixture that no longer parses.             *)
(***************************************************************************)
EXTENDS Naturals, FiniteSets

CONSTANTS
  Writers,    \* the calls that persist this file
  Data,       \* what they store
  Missing,    \* no such file
  Empty, Torn,
  MaxWrites,  \* bound: calls made
  FileFaults  \* "crash": the server is killed; "io": a write fails

ASSUME FileAssumption ==
  /\ Missing \notin Data /\ Empty \notin Data /\ Torn \notin Data
  /\ Missing # Empty /\ Missing # Torn /\ Empty # Torn
  /\ IsFiniteSet(Writers)
  /\ MaxWrites \in Nat
  /\ FileFaults \subseteq {"crash", "io"}

VARIABLES
  meta,     \* the inode the file's name is bound to, 0 for none
  tmp,      \* the inode the temporary name is bound to
  inode,    \* contents of every inode
  step,     \* where each writer is
  data,     \* what it stores
  fd,       \* the inode it has open
  answer,   \* what its last call returned
  interleaved, \* history: two calls have been under way at once
  writes    \* counted for the bound

fileVars == <<meta, tmp, inode, step, data, fd, answer, interleaved, writes>>

Inodes == 1 .. Cardinality(Writers) + 2

FileInit ==
  /\ meta = 0
  /\ tmp = 0
  /\ inode = [i \in Inodes |-> Empty]
  /\ step = [w \in Writers |-> "idle"]
  /\ data = [w \in Writers |-> Missing]
  /\ fd = [w \in Writers |-> 0]
  /\ answer = [w \in Writers |-> "none"]
  /\ interleaved = FALSE
  /\ writes = 0

Free == Inodes \ ({meta, tmp} \cup {fd[w] : w \in Writers})

Begin(w, d) ==
  /\ step[w] = "idle"
  /\ writes < MaxWrites
  /\ interleaved' = (interleaved \/ \E v \in Writers : step[v] # "idle")
  /\ writes' = writes + 1
  /\ data' = [data EXCEPT ![w] = d]
  /\ step' = [step EXCEPT ![w] = "open"]
  /\ answer' = [answer EXCEPT ![w] = "none"]
  /\ UNCHANGED <<meta, tmp, inode, fd>>

\* Mutant: the file itself is opened and truncated.
OpenMeta(w) ==
  /\ step[w] = "open"
  /\ LET i == IF meta # 0 THEN meta ELSE CHOOSE j \in Free : TRUE
     IN /\ meta' = i
        /\ inode' = [inode EXCEPT ![i] = Empty]
        /\ fd' = [fd EXCEPT ![w] = i]
  /\ step' = [step EXCEPT ![w] = "write"]
  /\ UNCHANGED <<tmp, data, answer, interleaved, writes>>

\* std::fs::write: the temporary file is created, or truncated.
Open(w) ==
  /\ step[w] = "open"
  /\ LET i == IF tmp # 0 THEN tmp ELSE CHOOSE j \in Free : TRUE
     IN /\ tmp' = i
        /\ inode' = [inode EXCEPT ![i] = Empty]
        /\ fd' = [fd EXCEPT ![w] = i]
  /\ step' = [step EXCEPT ![w] = "write"]
  /\ UNCHANGED <<meta, data, answer, interleaved, writes>>

\* Written from offset 0 over what another writer may have put there.
Write(w) ==
  /\ step[w] = "write"
  /\ \E c \in {data[w]} \cup (IF inode[fd[w]] = Empty THEN {} ELSE {Torn}) :
       inode' = [inode EXCEPT ![fd[w]] = c]
  /\ fd' = [fd EXCEPT ![w] = 0]
  /\ step' = [step EXCEPT ![w] = "rename"]
  /\ UNCHANGED <<meta, tmp, data, answer, interleaved, writes>>

\* Mutant: the old file is removed before the rename is tried.
MetaRemoved == 0

\* A rename that fails leaves the old file.
MetaKept == meta

\* Mutant: the temporary file is linked, not moved.
TmpLinked == tmp

\* The temporary name is gone after the rename.
TmpMoved == 0

\* std::fs::rename: whatever the temporary name is bound to becomes the file;
\* the old inode is gone.  ENOENT when another writer has renamed it already.
Rename(w) ==
  /\ step[w] = "rename"
  /\ IF tmp # 0
     THEN meta' = tmp /\ tmp' = TmpMoved /\ step' = [step EXCEPT ![w] = "return"] /\ UNCHANGED answer
     ELSE /\ meta' = MetaKept /\ tmp' = 0 /\ step' = [step EXCEPT ![w] = "idle"]
          /\ answer' = [answer EXCEPT ![w] = "error"]
  /\ data' = [data EXCEPT ![w] = IF tmp # 0 THEN @ ELSE Missing]
  /\ UNCHANGED <<inode, fd, interleaved, writes>>

Return(w) ==
  /\ step[w] = "return"
  /\ step' = [step EXCEPT ![w] = "idle"]
  /\ data' = [data EXCEPT ![w] = Missing]
  /\ answer' = [answer EXCEPT ![w] = "ok"]
  /\ UNCHANGED <<meta, tmp, inode, fd, interleaved, writes>>

\* create_dir_all, the write or the rename fails; a failed write may have
\* written a part.
Fails(w) ==
  /\ "io" \in FileFaults
  /\ step[w] \in {"open", "write", "rename"}
  /\ \/ UNCHANGED inode
     \/ step[w] = "write" /\ inode' = [inode EXCEPT ![fd[w]] = Torn]
  /\ step' = [step EXCEPT ![w] = "idle"]
  /\ data' = [data EXCEPT ![w] = Missing]
  /\ fd' = [fd EXCEPT ![w] = 0]
  /\ answer' = [answer EXCEPT ![w] = "error"]
  /\ UNCHANGED <<meta, tmp, interleaved, writes>>

\* The server is killed and started again; the files stay as they are.
Crash ==
  /\ "crash" \in FileFaults
  /\ \E w \in Writers : step[w] # "idle"
  /\ step' = [w \in Writers |-> "idle"]
  /\ data' = [w \in Writers |-> Missing]
  /\ fd' = [w \in Writers |-> 0]
  /\ answer' = [w \in Writers |-> "none"]
  /\ UNCHANGED <<meta, tmp, inode, interleaved, writes>>

FileFinished ==
  /\ writes = MaxWrites
  /\ \A w \in Writers : step[w] = "idle"
  /\ UNCHANGED fileVars

FileNext ==
  \/ \E w \in Writers : \/ \E d \in Data : Begin(w, d)
                        \/ Open(w) \/ Write(w) \/ Rename(w) \/ Return(w) \/ Fails(w)
  \/ Crash
  \/ FileFinished

FileSpec == FileInit /\ [][FileNext]_fileVars

-----------------------------------------------------------------------------
(* Properties.                                                             *)

\* Every variable keeps its type; the two names are never bound to one inode,
\* and a free inode is there for every writer that needs one.
FileTypeOK ==
  /\ meta \in {0} \cup Inodes /\ tmp \in {0} \cup Inodes
  /\ meta # 0 => meta # tmp
  /\ inode \in [Inodes -> Data \cup {Empty, Torn}]
  /\ step \in [Writers -> {"idle", "open", "write", "rename", "return"}]
  /\ data \in [Writers -> Data \cup {Missing}]
  /\ fd \in [Writers -> {0} \cup Inodes]
  /\ answer \in [Writers -> {"none", "ok", "error"}]
  /\ interleaved \in BOOLEAN /\ writes \in Nat
  /\ \A w \in Writers : /\ (data[w] = Missing) <=> (step[w] = "idle")
                        /\ (fd[w] # 0) <=> (step[w] = "write")

\* What load_conclusion_dir reads.
Visible == IF meta = 0 THEN Missing ELSE inode[meta]

\* As long as the callers take turns, the file is replaced atomically: once by
\* every call that succeeds, never by one that reports an error, and never by
\* anything but a whole datum, at whatever point the server is killed.
File == INSTANCE AtomicFile WITH
  contents <- Visible, writing <- data, stored <- [w \in Writers |-> step[w] = "return"]
ReplacesAtomically == File!Init /\ [][~interleaved' => [File!Next]_(File!vars)]_fileVars

\* Once written, the file is always there: a reader between two steps of any
\* number of writers never misses it, even when their renames collide.
NeverDisappears == [][Visible # Missing => Visible' # Missing]_fileVars
=============================================================================
