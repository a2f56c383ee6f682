-------------------------- MODULE MainInstanceProofs --------------------------
(***************************************************************************)
(* Proofs about MainInstance, for every number of tool calls, processes    *)
(* and faults.                                                             *)
(*                                                                         *)
(* Who owns a process is an argument about program counters: a call holds  *)
(* a child exactly at the points between the spawn and the install         *)
(* (ChildAtPc), so a call that returns from anywhere else drops none, and  *)
(* a call that installs has both a child and a connection to install       *)
(* (ConnAtPc), which is what keeps the client and the state together.      *)
(* OwnInv is that inductive invariant; the other parts of TypeOK are shown *)
(* to be kept one by one beside it.                                        *)
(*                                                                         *)
(* What a reload leaves, and what the lock freezes, is an argument about   *)
(* which process is meant: calls that raced may have installed the child   *)
(* of one with the connection to another, but a process that still answers *)
(* is then the installed child, since a live one has an owner (RefInv,     *)
(* SoloInv).                                                               *)
(***************************************************************************)
EXTENDS MainInstance, TLAPS

\* Where ensure_main_spawned holds a child that is not installed yet, and
\* where it also holds a client that is connected.
Owning == {"socket", "connect", "handshake", "installMain", "installClient"}
Connected == {"handshake", "installMain", "installClient"}

\* The types of the variables the ownership argument is about.
Spine ==
  /\ status \in [Processes -> {"none", "booting", "up", "dead"}]
  /\ socketFile \in 0 .. MaxSpawns
  /\ main.child \in 0 .. MaxSpawns
  /\ client \in 0 .. MaxSpawns
  /\ pc \in [Handlers -> {"idle"} \cup Reloading \cup Querying]
  /\ child \in [Handlers -> 0 .. MaxSpawns]
  /\ conn \in [Handlers -> 0 .. MaxSpawns]

\* A call owns a child at these points and at no other; it is connected to
\* some process when it is about to install.
ChildAtPc == \A h \in Handlers : child[h] # 0 <=> pc[h] \in Owning
ConnAtPc  == \A h \in Handlers : pc[h] \in Connected => conn[h] # 0

\* The inductive invariant.
OwnInv == Spine /\ ChildAtPc /\ ConnAtPc /\ ClientIffMain

\* The process that is spawned is one that has not been used.
LEMMA NewProcessUnused ==
  ASSUME NEW h \in Handlers, Spawn(h)
  PROVE  NewProcess \in Processes /\ status[NewProcess] = "none"
BY DEF Spawn, NewProcess

\* Every step keeps the ownership invariant.
LEMMA OwnStep == OwnInv /\ [Next]_vars => OwnInv'
<1> SUFFICES ASSUME OwnInv, [Next]_vars PROVE OwnInv'
  OBVIOUS
<1> USE MainAssumption DEF OwnInv, Spine, ChildAtPc, ConnAtPc, ClientIffMain, Processes, Goto, Return, Killed, Dropped, StartCall, None, Requesting, Reloading, Querying, Up, Parsed, Owning, Connected,
   processVars, serverVars, lockVars, taskVars, boundVars
<1>1. ASSUME NEW h \in Handlers, RequestFails(h) PROVE OwnInv'
  BY <1>1 DEF RequestFails
<1>2. ASSUME NEW h \in Handlers, GetFiles(h) PROVE OwnInv'
  BY <1>2 DEF GetFiles
<1>3. ASSUME NEW h \in Handlers, LockMain(h) PROVE OwnInv'
  BY <1>3 DEF LockMain
<1>4. ASSUME NEW h \in Handlers, Decide(h) PROVE OwnInv'
  <2>1. /\ pc[h] = "lockClient"
        /\ \/ pc' = [pc EXCEPT ![h] = "spawn"] /\ conn' = conn
           \/ pc' = [pc EXCEPT ![h] = "set0"] /\ conn' = [conn EXCEPT ![h] = client]
        /\ UNCHANGED <<status, socketFile, main, client, child>>
    BY <1>4 DEF Decide, NeedsRespawn
  <2>2. CASE pc' = [pc EXCEPT ![h] = "spawn"] /\ conn' = conn
    BY <2>1, <2>2
  <2>3. CASE pc' = [pc EXCEPT ![h] = "set0"] /\ conn' = [conn EXCEPT ![h] = client]
    BY <2>1, <2>3
  <2> QED BY <2>1, <2>2, <2>3
<1>5. ASSUME NEW h \in Handlers, Spawn(h) PROVE OwnInv'
  <2>1. NewProcess \in 1 .. MaxSpawns
    BY <1>5, NewProcessUnused
  <2> DEFINE p == NewProcess
  <2>2. /\ pc[h] = "spawn" /\ pc' = [pc EXCEPT ![h] = "socket"]
        /\ child' = [child EXCEPT ![h] = p]
        /\ status' = [status EXCEPT ![p] = "booting"]
        /\ socketFile' = 0
        /\ UNCHANGED <<main, client, conn>>
    BY <1>5 DEF Spawn
  <2> HIDE DEF p
  <2> QED BY <2>1, <2>2 DEF p
<1>6. ASSUME NEW h \in Handlers, SpawnFails(h) PROVE OwnInv'
  BY <1>6 DEF SpawnFails
<1>7. ASSUME NEW h \in Handlers, SocketReady(h) PROVE OwnInv'
  BY <1>7 DEF SocketReady
<1>8. ASSUME NEW h \in Handlers, SocketTimeout(h) PROVE OwnInv'
  BY <1>8 DEF SocketTimeout
<1>9. ASSUME NEW h \in Handlers, Connect(h) PROVE OwnInv'
  BY <1>9 DEF Connect
<1>10. ASSUME NEW h \in Handlers, Handshake(h) PROVE OwnInv'
  BY <1>10 DEF Handshake
<1>11. ASSUME NEW h \in Handlers, ConnectFails(h) PROVE OwnInv'
  BY <1>11 DEF ConnectFails
<1>12. ASSUME NEW h \in Handlers, InstallMain(h) PROVE OwnInv'
  BY <1>12 DEF InstallMain
<1>13. ASSUME NEW h \in Handlers, Install(h) PROVE OwnInv'
  BY <1>13 DEF Install
<1>14. ASSUME NEW h \in Handlers, Installed(h) PROVE OwnInv'
  BY <1>14 DEF Installed
<1>15. ASSUME NEW h \in Handlers, SetNoFiles(h) PROVE OwnInv'
  BY <1>15 DEF SetNoFiles
<1>16. ASSUME NEW h \in Handlers, SetFiles(h) PROVE OwnInv'
  BY <1>16 DEF SetFiles
<1>17. ASSUME NEW h \in Handlers, Compute(h) PROVE OwnInv'
  BY <1>17 DEF Compute
<1>18. ASSUME NEW h \in Handlers, EffectUnanswered(h) PROVE OwnInv'
  BY <1>18 DEF EffectUnanswered
<1>19. ASSUME NEW h \in Handlers, Recache(h) PROVE OwnInv'
  BY <1>19 DEF Recache
<1>20. ASSUME NEW h \in Handlers, Fetch(h) PROVE OwnInv'
  BY <1>20 DEF Fetch
<1>21. ASSUME NEW h \in Handlers, GetFunctions(h) PROVE OwnInv'
  BY <1>21 DEF GetFunctions
<1>22. ASSUME NEW h \in Handlers, Store(h) PROVE OwnInv'
  BY <1>22 DEF Store
<1>23. ASSUME NEW h \in Handlers, Ask(h) PROVE OwnInv'
  <2>1. /\ conn' = [conn EXCEPT ![h] = client] /\ client # 0
        /\ UNCHANGED <<status, socketFile, main, client, child>>
    BY <1>23 DEF Ask
  <2>2. CASE pc[h] = "ask" /\ pc' = [pc EXCEPT ![h] = "run"]
    BY <2>1, <2>2
  <2>3. CASE pc[h] = "askAgain" /\ pc' = [pc EXCEPT ![h] = "read"]
    BY <2>1, <2>3
  <2> QED BY <1>23, <2>2, <2>3 DEF Ask
<1>24. ASSUME NEW h \in Handlers, NoClient(h) PROVE OwnInv'
  BY <1>24 DEF NoClient
<1>25. ASSUME NEW h \in Handlers, Run(h) PROVE OwnInv'
  BY <1>25 DEF Run
<1>26. ASSUME NEW h \in Handlers, Read(h) PROVE OwnInv'
  BY <1>26 DEF Read
<1>27. ASSUME NEW h \in Handlers, Put(h) PROVE OwnInv'
  BY <1>27 DEF Put
<1>28. ASSUME NEW h \in Handlers, NEW rte \in BOOLEAN, NEW files \in BOOLEAN, ReloadCall(h, rte, files)
       PROVE  OwnInv'
  <2>1. pc[h] = "idle" /\ UNCHANGED <<status, socketFile, main, client, child>>
    BY <1>28 DEF ReloadCall
  <2>2. CASE pc' = [pc EXCEPT ![h] = "lockMain"] /\ conn' = conn
    BY <2>1, <2>2
  <2>3. CASE pc' = [pc EXCEPT ![h] = "files"] /\ conn' = [conn EXCEPT ![h] = client]
    BY <2>1, <2>3
  <2> QED BY <1>28, <2>2, <2>3 DEF ReloadCall
<1>29. ASSUME NEW h \in Handlers, NEW a \in Queries, QueryCall(h, a) PROVE OwnInv'
  BY <1>29 DEF QueryCall
<1>30. ASSUME NEW b \in BOOLEAN, SetLocked(b) PROVE OwnInv'
  BY <1>30 DEF SetLocked
<1>31. ASSUME NEW p \in Processes, Boot(p) PROVE OwnInv'
  BY <1>31 DEF Boot
<1>32. ASSUME NEW p \in Processes, Crash(p) PROVE OwnInv'
  BY <1>32 DEF Crash
<1>33. ASSUME UNCHANGED vars PROVE OwnInv'
  BY <1>33 DEF vars
<1> HIDE DEF OwnInv, Spine, ChildAtPc, ConnAtPc, ClientIffMain
<1> QED
  BY <1>1, <1>2, <1>3, <1>4, <1>5, <1>6, <1>7, <1>8, <1>9, <1>10, <1>11,
     <1>12, <1>13, <1>14, <1>15, <1>16, <1>17, <1>18, <1>19, <1>20, <1>21, <1>22,
     <1>23, <1>24, <1>25, <1>26, <1>27, <1>28, <1>29, <1>30, <1>31, <1>32, <1>33
     DEF Next, Step, Finished

\* Every step leaves each live process with an owner.
LEMMA OwnedStep == OwnInv /\ OwnInv' /\ LiveProcessesAreOwned /\ [Next]_vars => LiveProcessesAreOwned'
<1> SUFFICES ASSUME OwnInv, OwnInv', LiveProcessesAreOwned, [Next]_vars PROVE LiveProcessesAreOwned'
  OBVIOUS
<1> USE MainAssumption DEF OwnInv, Spine, ChildAtPc, LiveProcessesAreOwned, Live, Processes, Goto, Return, Killed, Dropped, StartCall, None, Requesting, Reloading, Querying, Up, Parsed, Owning, Connected,
   processVars, serverVars, lockVars, taskVars, boundVars
<1>1. ASSUME NEW h \in Handlers, RequestFails(h) PROVE LiveProcessesAreOwned'
  <2>1. pc[h] \notin Owning /\ child[h] = 0
    BY <1>1 DEF RequestFails
  <2>2. child' = child
    BY <1>1, <2>1 DEF RequestFails
  <2>3. status' = status /\ main' = main
    BY <1>1 DEF RequestFails
  <2> QED BY <2>2, <2>3
<1>2. ASSUME NEW h \in Handlers, GetFiles(h) PROVE LiveProcessesAreOwned'
  BY <1>2 DEF GetFiles
<1>3. ASSUME NEW h \in Handlers, LockMain(h) PROVE LiveProcessesAreOwned'
  BY <1>3 DEF LockMain
<1>4. ASSUME NEW h \in Handlers, Decide(h) PROVE LiveProcessesAreOwned'
  BY <1>4 DEF Decide
<1>5. ASSUME NEW h \in Handlers, Spawn(h) PROVE LiveProcessesAreOwned'
  <2>1. NewProcess \in Processes /\ child[h] = 0
    BY <1>5, NewProcessUnused DEF Spawn
  <2> DEFINE p == NewProcess
  <2>2. /\ child' = [child EXCEPT ![h] = p]
        /\ status' = [status EXCEPT ![p] = "booting"]
        /\ main' = main
    BY <1>5 DEF Spawn
  <2> HIDE DEF p
  <2>3. child'[h] = p
    BY <2>1, <2>2
  <2>4. \A g \in Handlers : child[g] # 0 => child'[g] = child[g]
    BY <2>1, <2>2
  <2>5. \A q \in Processes : q # p => status'[q] = status[q]
    BY <2>2
  <2> QED BY <2>1, <2>2, <2>3, <2>4, <2>5
<1>6. ASSUME NEW h \in Handlers, SpawnFails(h) PROVE LiveProcessesAreOwned'
  <2>1. pc[h] \notin Owning /\ child[h] = 0
    BY <1>6 DEF SpawnFails
  <2>2. child' = child
    BY <1>6, <2>1 DEF SpawnFails
  <2>3. status' = status /\ main' = main
    BY <1>6 DEF SpawnFails
  <2> QED BY <2>2, <2>3
<1>7. ASSUME NEW h \in Handlers, SocketReady(h) PROVE LiveProcessesAreOwned'
  BY <1>7 DEF SocketReady
<1>8. ASSUME NEW h \in Handlers, SocketTimeout(h) PROVE LiveProcessesAreOwned'
  BY <1>8 DEF SocketTimeout
<1>9. ASSUME NEW h \in Handlers, Connect(h) PROVE LiveProcessesAreOwned'
  BY <1>9 DEF Connect
<1>10. ASSUME NEW h \in Handlers, Handshake(h) PROVE LiveProcessesAreOwned'
  BY <1>10 DEF Handshake
<1>11. ASSUME NEW h \in Handlers, ConnectFails(h) PROVE LiveProcessesAreOwned'
  BY <1>11 DEF ConnectFails
<1>12. ASSUME NEW h \in Handlers, InstallMain(h) PROVE LiveProcessesAreOwned'
  BY <1>12 DEF InstallMain
<1>13. ASSUME NEW h \in Handlers, Install(h) PROVE LiveProcessesAreOwned'
  BY <1>13 DEF Install
<1>14. ASSUME NEW h \in Handlers, Installed(h) PROVE LiveProcessesAreOwned'
  BY <1>14 DEF Installed
<1>15. ASSUME NEW h \in Handlers, SetNoFiles(h) PROVE LiveProcessesAreOwned'
  BY <1>15 DEF SetNoFiles
<1>16. ASSUME NEW h \in Handlers, SetFiles(h) PROVE LiveProcessesAreOwned'
  BY <1>16 DEF SetFiles
<1>17. ASSUME NEW h \in Handlers, Compute(h) PROVE LiveProcessesAreOwned'
  BY <1>17 DEF Compute
<1>18. ASSUME NEW h \in Handlers, EffectUnanswered(h) PROVE LiveProcessesAreOwned'
  <2>1. pc[h] \notin Owning /\ child[h] = 0
    BY <1>18 DEF EffectUnanswered
  <2>2. child' = child
    BY <1>18, <2>1 DEF EffectUnanswered
  <2>3. status' = status /\ main' = main
    BY <1>18 DEF EffectUnanswered
  <2> QED BY <2>2, <2>3
<1>19. ASSUME NEW h \in Handlers, Recache(h) PROVE LiveProcessesAreOwned'
  BY <1>19 DEF Recache
<1>20. ASSUME NEW h \in Handlers, Fetch(h) PROVE LiveProcessesAreOwned'
  BY <1>20 DEF Fetch
<1>21. ASSUME NEW h \in Handlers, GetFunctions(h) PROVE LiveProcessesAreOwned'
  BY <1>21 DEF GetFunctions
<1>22. ASSUME NEW h \in Handlers, Store(h) PROVE LiveProcessesAreOwned'
  <2>1. pc[h] \notin Owning /\ child[h] = 0
    BY <1>22 DEF Store
  <2>2. child' = child
    BY <1>22, <2>1 DEF Store
  <2>3. status' = status /\ main' = main
    BY <1>22 DEF Store
  <2> QED BY <2>2, <2>3
<1>23. ASSUME NEW h \in Handlers, Ask(h) PROVE LiveProcessesAreOwned'
  BY <1>23 DEF Ask
<1>24. ASSUME NEW h \in Handlers, NoClient(h) PROVE LiveProcessesAreOwned'
  <2>1. pc[h] \notin Owning /\ child[h] = 0
    BY <1>24 DEF NoClient
  <2>2. child' = child
    BY <1>24, <2>1 DEF NoClient
  <2>3. status' = status /\ main' = main
    BY <1>24 DEF NoClient
  <2> QED BY <2>2, <2>3
<1>25. ASSUME NEW h \in Handlers, Run(h) PROVE LiveProcessesAreOwned'
  BY <1>25 DEF Run
<1>26. ASSUME NEW h \in Handlers, Read(h) PROVE LiveProcessesAreOwned'
  BY <1>26 DEF Read
<1>27. ASSUME NEW h \in Handlers, Put(h) PROVE LiveProcessesAreOwned'
  <2>1. pc[h] \notin Owning /\ child[h] = 0
    BY <1>27 DEF Put
  <2>2. child' = child
    BY <1>27, <2>1 DEF Put
  <2>3. status' = status /\ main' = main
    BY <1>27 DEF Put
  <2> QED BY <2>2, <2>3
<1>28. ASSUME NEW h \in Handlers, NEW rte \in BOOLEAN, NEW files \in BOOLEAN, ReloadCall(h, rte, files)
       PROVE  LiveProcessesAreOwned'
  BY <1>28 DEF ReloadCall
<1>29. ASSUME NEW h \in Handlers, NEW a \in Queries, QueryCall(h, a) PROVE LiveProcessesAreOwned'
  BY <1>29 DEF QueryCall
<1>30. ASSUME NEW b \in BOOLEAN, SetLocked(b) PROVE LiveProcessesAreOwned'
  BY <1>30 DEF SetLocked
<1>31. ASSUME NEW p \in Processes, Boot(p) PROVE LiveProcessesAreOwned'
  BY <1>31 DEF Boot
<1>32. ASSUME NEW p \in Processes, Crash(p) PROVE LiveProcessesAreOwned'
  BY <1>32 DEF Crash
<1>33. ASSUME UNCHANGED vars PROVE LiveProcessesAreOwned'
  BY <1>33 DEF vars
<1> HIDE DEF OwnInv, Spine, ChildAtPc, LiveProcessesAreOwned, Live
<1> QED
  BY <1>1, <1>2, <1>3, <1>4, <1>5, <1>6, <1>7, <1>8, <1>9, <1>10, <1>11,
     <1>12, <1>13, <1>14, <1>15, <1>16, <1>17, <1>18, <1>19, <1>20, <1>21, <1>22,
     <1>23, <1>24, <1>25, <1>26, <1>27, <1>28, <1>29, <1>30, <1>31, <1>32, <1>33
     DEF Next, Step, Finished

\* A function to numbers stays one when a number is put into it.
LEMMA PutNat ==
  ASSUME NEW S, NEW f \in [S -> Nat], NEW x \in S, NEW v \in Nat
  PROVE  [f EXCEPT ![x] = v] \in [S -> Nat]
OBVIOUS

\* A bound that grows to m still holds when something up to m is put in.
LEMMA PutBelow ==
  ASSUME NEW S, NEW n \in Nat, NEW m \in Nat, n <= m,
         NEW f \in [S -> Nat], \A y \in S : f[y] <= n,
         NEW x \in S, NEW v \in Nat, v <= m
  PROVE  \A y \in S : [f EXCEPT ![x] = v][y] <= m
OBVIOUS

\* Every counter is a natural number, whatever it counts.
CountPart ==
  /\ parses \in Nat
  /\ ast \in [Processes -> Nat]
  /\ proofs \in [Processes -> Nat]
  /\ cache \in [Analyses -> Nat]
  /\ query \in [Handlers -> Analyses]
  /\ got \in [Handlers -> Nat]
  /\ calls \in Nat /\ flips \in Nat

\* No process, cache or answer describes a parse that was not made.
BoundPart ==
  /\ \A p \in Processes : ast[p] <= parses
  /\ \A a \in Analyses : cache[a] <= parses
  /\ \A h \in Handlers : got[h] <= parses

\* A step keeps CountPart.
LEMMA CountStep == OwnInv /\ CountPart /\ [Next]_vars => CountPart'
<1> SUFFICES ASSUME OwnInv, CountPart, [Next]_vars PROVE CountPart'
  OBVIOUS
<1> USE MainAssumption DEF OwnInv, Spine, CountPart, Analyses, Invalidated, Processes, Goto, Return, Killed, Dropped, StartCall, None, Requesting, Reloading, Querying, Up, Parsed, Owning, Connected,
   processVars, serverVars, lockVars, taskVars, boundVars
<1>1. ASSUME NEW h \in Handlers, RequestFails(h) PROVE CountPart'
  BY <1>1 DEF RequestFails
<1>2. ASSUME NEW h \in Handlers, GetFiles(h) PROVE CountPart'
  BY <1>2 DEF GetFiles
<1>3. ASSUME NEW h \in Handlers, LockMain(h) PROVE CountPart'
  BY <1>3 DEF LockMain
<1>4. ASSUME NEW h \in Handlers, Decide(h) PROVE CountPart'
  BY <1>4 DEF Decide
<1>5. ASSUME NEW h \in Handlers, Spawn(h) PROVE CountPart'
  BY <1>5 DEF Spawn
<1>6. ASSUME NEW h \in Handlers, SpawnFails(h) PROVE CountPart'
  BY <1>6 DEF SpawnFails
<1>7. ASSUME NEW h \in Handlers, SocketReady(h) PROVE CountPart'
  BY <1>7 DEF SocketReady
<1>8. ASSUME NEW h \in Handlers, SocketTimeout(h) PROVE CountPart'
  BY <1>8 DEF SocketTimeout
<1>9. ASSUME NEW h \in Handlers, Connect(h) PROVE CountPart'
  BY <1>9 DEF Connect
<1>10. ASSUME NEW h \in Handlers, Handshake(h) PROVE CountPart'
  <2>1. conn[h] \in Processes
    BY <1>10 DEF Handshake, ConnAtPc
  <2>2. PICK fetched \in {0, ast[conn[h]]} : cache' = [cache EXCEPT !["functions"] = fetched]
    BY <1>10 DEF Handshake
  <2>3. UNCHANGED <<parses, ast, proofs, query, got, calls, flips>>
    BY <1>10 DEF Handshake
  <2>4. "functions" \in Analyses /\ fetched \in Nat
    BY <2>1, <2>2
  <2>5. cache' \in [Analyses -> Nat]
    BY <2>2, <2>4, PutNat
  <2> QED BY <2>3, <2>5
<1>11. ASSUME NEW h \in Handlers, ConnectFails(h) PROVE CountPart'
  BY <1>11 DEF ConnectFails
<1>12. ASSUME NEW h \in Handlers, InstallMain(h) PROVE CountPart'
  BY <1>12 DEF InstallMain
<1>13. ASSUME NEW h \in Handlers, Install(h) PROVE CountPart'
  BY <1>13 DEF Install
<1>14. ASSUME NEW h \in Handlers, Installed(h) PROVE CountPart'
  BY <1>14 DEF Installed
<1>15. ASSUME NEW h \in Handlers, SetNoFiles(h) PROVE CountPart'
  BY <1>15 DEF SetNoFiles
<1>16. ASSUME NEW h \in Handlers, SetFiles(h) PROVE CountPart'
  BY <1>16 DEF SetFiles
<1>17. ASSUME NEW h \in Handlers, Compute(h) PROVE CountPart'
  <2>1. conn[h] \in Processes
    BY <1>17 DEF Compute
  <2>2. /\ parses' = parses + 1 /\ ast' = [ast EXCEPT ![conn[h]] = parses + 1]
        /\ UNCHANGED <<proofs, cache, query, got, calls, flips>>
    BY <1>17 DEF Compute
  <2> HIDE DEF Processes, Analyses, Spine, OwnInv
  <2>3. ast' \in [Processes -> Nat]
    BY <2>1, <2>2, PutNat
  <2> QED BY <2>2, <2>3
<1>18. ASSUME NEW h \in Handlers, EffectUnanswered(h) PROVE CountPart'
  <2>1. conn[h] \in Processes
    BY <1>18 DEF EffectUnanswered
  <2>2. /\ \/ parses' = parses /\ ast' = [ast EXCEPT ![conn[h]] = 0]
           \/ parses' = parses + 1 /\ ast' = [ast EXCEPT ![conn[h]] = parses + 1]
        /\ got' = [got EXCEPT ![h] = 0]
        /\ UNCHANGED <<proofs, cache, query, calls, flips>>
    BY <1>18 DEF EffectUnanswered
  <2> HIDE DEF Processes, Analyses, Spine, OwnInv
  <2>3. ast' \in [Processes -> Nat]
    <3>1. CASE ast' = [ast EXCEPT ![conn[h]] = 0]
      BY <2>1, <3>1, PutNat
    <3>2. CASE ast' = [ast EXCEPT ![conn[h]] = parses + 1]
      BY <2>1, <3>2, PutNat
    <3> QED BY <2>2, <3>1, <3>2
  <2>4. got' \in [Handlers -> Nat]
    BY <2>2, PutNat
  <2> QED BY <2>2, <2>3, <2>4
<1>19. ASSUME NEW h \in Handlers, Recache(h) PROVE CountPart'
  BY <1>19 DEF Recache
<1>20. ASSUME NEW h \in Handlers, Fetch(h) PROVE CountPart'
  BY <1>20 DEF Fetch
<1>21. ASSUME NEW h \in Handlers, GetFunctions(h) PROVE CountPart'
  <2>1. conn[h] \in Processes
    BY <1>21 DEF GetFunctions
  <2>2. /\ got' = [got EXCEPT ![h] = ast[conn[h]]]
        /\ UNCHANGED <<parses, ast, proofs, cache, query, calls, flips>>
    BY <1>21 DEF GetFunctions
  <2> HIDE DEF Processes, Analyses, Spine, OwnInv
  <2>3. got' \in [Handlers -> Nat]
    BY <2>1, <2>2, PutNat
  <2> QED BY <2>2, <2>3
<1>22. ASSUME NEW h \in Handlers, Store(h) PROVE CountPart'
  BY <1>22 DEF Store
<1>23. ASSUME NEW h \in Handlers, Ask(h) PROVE CountPart'
  BY <1>23 DEF Ask
<1>24. ASSUME NEW h \in Handlers, NoClient(h) PROVE CountPart'
  BY <1>24 DEF NoClient
<1>25. ASSUME NEW h \in Handlers, Run(h) PROVE CountPart'
  <2>1. conn[h] \in Processes
    BY <1>25 DEF Run
  <2>2. proofs[conn[h]] + 1 \in Nat /\ ast[conn[h]] \in Nat
    BY <2>1
  <2>3. proofs' \in [Processes -> Nat]
    BY <1>25, <2>1, <2>2 DEF Run
  <2>4. got' = [got EXCEPT ![h] = ast[conn[h]]]
    BY <1>25 DEF Run
  <2>5. UNCHANGED <<parses, ast, cache, query, calls, flips>>
    BY <1>25 DEF Run
  <2> QED BY <2>2, <2>3, <2>4, <2>5
<1>26. ASSUME NEW h \in Handlers, Read(h) PROVE CountPart'
  <2>1. conn[h] \in Processes
    BY <1>26 DEF Read
  <2>2. PICK v \in {got[h], ast[conn[h]]} : got' = [got EXCEPT ![h] = v]
    BY <1>26 DEF Read
  <2>3. UNCHANGED <<parses, ast, proofs, cache, query, calls, flips>>
    BY <1>26 DEF Read
  <2> HIDE DEF Processes, Analyses, Spine, OwnInv
  <2>4. got' \in [Handlers -> Nat]
    BY <2>1, <2>2, PutNat
  <2> QED BY <2>3, <2>4
<1>27. ASSUME NEW h \in Handlers, Put(h) PROVE CountPart'
  BY <1>27 DEF Put
<1>28. ASSUME NEW h \in Handlers, NEW rte \in BOOLEAN, NEW files \in BOOLEAN, ReloadCall(h, rte, files)
       PROVE  CountPart'
  <2>1. calls' = calls + 1 /\ UNCHANGED <<parses, ast, proofs, cache, query, got, flips>>
    BY <1>28 DEF ReloadCall
  <2>2. calls' \in Nat
    BY <2>1
  <2> HIDE DEF Processes, Analyses, Spine, OwnInv
  <2> QED BY <2>1, <2>2
<1>29. ASSUME NEW h \in Handlers, NEW a \in Queries, QueryCall(h, a) PROVE CountPart'
  <2>1. a \in Analyses
    BY <1>29
  <2>2. query' \in [Handlers -> Analyses]
    BY <1>29, <2>1 DEF QueryCall
  <2>3. calls' \in Nat /\ UNCHANGED <<parses, ast, proofs, cache, got, flips>>
    BY <1>29 DEF QueryCall
  <2> QED BY <2>2, <2>3
<1>30. ASSUME NEW b \in BOOLEAN, SetLocked(b) PROVE CountPart'
  BY <1>30 DEF SetLocked
<1>31. ASSUME NEW p \in Processes, Boot(p) PROVE CountPart'
  <2>1. /\ parses' = parses + 1 /\ ast' = [ast EXCEPT ![p] = parses + 1]
        /\ UNCHANGED <<proofs, cache, query, got, calls, flips>>
    BY <1>31 DEF Boot
  <2> HIDE DEF Processes, Analyses, Spine, OwnInv
  <2>2. ast' \in [Processes -> Nat]
    BY <2>1, PutNat
  <2> QED BY <2>1, <2>2
<1>32. ASSUME NEW p \in Processes, Crash(p) PROVE CountPart'
  BY <1>32 DEF Crash
<1>33. ASSUME UNCHANGED vars PROVE CountPart'
  BY <1>33 DEF vars
<1> HIDE DEF OwnInv, Spine, CountPart
<1> QED
  BY <1>1, <1>2, <1>3, <1>4, <1>5, <1>6, <1>7, <1>8, <1>9, <1>10, <1>11,
     <1>12, <1>13, <1>14, <1>15, <1>16, <1>17, <1>18, <1>19, <1>20, <1>21, <1>22,
     <1>23, <1>24, <1>25, <1>26, <1>27, <1>28, <1>29, <1>30, <1>31, <1>32, <1>33
     DEF Next, Step, Finished

\* A step keeps BoundPart.
LEMMA BoundStep == OwnInv /\ CountPart /\ CountPart' /\ BoundPart /\ [Next]_vars => BoundPart'
<1> SUFFICES ASSUME OwnInv, CountPart, CountPart', BoundPart, [Next]_vars PROVE BoundPart'
  OBVIOUS
<1> USE MainAssumption DEF OwnInv, Spine, CountPart, BoundPart, Analyses, Invalidated, Processes, Goto, Return, Killed, Dropped, StartCall, None, Requesting, Reloading, Querying, Up, Parsed, Owning, Connected,
   processVars, serverVars, lockVars, taskVars, boundVars
<1>1. ASSUME NEW h \in Handlers, RequestFails(h) PROVE BoundPart'
  BY <1>1 DEF RequestFails
<1>2. ASSUME NEW h \in Handlers, GetFiles(h) PROVE BoundPart'
  BY <1>2 DEF GetFiles
<1>3. ASSUME NEW h \in Handlers, LockMain(h) PROVE BoundPart'
  BY <1>3 DEF LockMain
<1>4. ASSUME NEW h \in Handlers, Decide(h) PROVE BoundPart'
  BY <1>4 DEF Decide
<1>5. ASSUME NEW h \in Handlers, Spawn(h) PROVE BoundPart'
  BY <1>5 DEF Spawn
<1>6. ASSUME NEW h \in Handlers, SpawnFails(h) PROVE BoundPart'
  BY <1>6 DEF SpawnFails
<1>7. ASSUME NEW h \in Handlers, SocketReady(h) PROVE BoundPart'
  BY <1>7 DEF SocketReady
<1>8. ASSUME NEW h \in Handlers, SocketTimeout(h) PROVE BoundPart'
  BY <1>8 DEF SocketTimeout
<1>9. ASSUME NEW h \in Handlers, Connect(h) PROVE BoundPart'
  BY <1>9 DEF Connect
<1>10. ASSUME NEW h \in Handlers, Handshake(h) PROVE BoundPart'
  <2>1. conn[h] \in Processes
    BY <1>10 DEF Handshake, ConnAtPc
  <2>2. PICK fetched \in {0, ast[conn[h]]} : cache' = [cache EXCEPT !["functions"] = fetched]
    BY <1>10 DEF Handshake
  <2>3. UNCHANGED <<parses, ast, proofs, query, got, calls, flips>>
    BY <1>10 DEF Handshake
  <2> HIDE DEF Processes, Analyses, Spine, OwnInv
  <2>4. fetched <= parses
    BY <2>1, <2>2
  <2>5. \A a \in Analyses : cache'[a] <= parses
    BY <2>2, <2>4
  <2> QED BY <2>3, <2>5
<1>11. ASSUME NEW h \in Handlers, ConnectFails(h) PROVE BoundPart'
  BY <1>11 DEF ConnectFails
<1>12. ASSUME NEW h \in Handlers, InstallMain(h) PROVE BoundPart'
  BY <1>12 DEF InstallMain
<1>13. ASSUME NEW h \in Handlers, Install(h) PROVE BoundPart'
  BY <1>13 DEF Install
<1>14. ASSUME NEW h \in Handlers, Installed(h) PROVE BoundPart'
  BY <1>14 DEF Installed
<1>15. ASSUME NEW h \in Handlers, SetNoFiles(h) PROVE BoundPart'
  <2>1. conn[h] \in Processes
    BY <1>15 DEF SetNoFiles
  <2>2. ast' = [ast EXCEPT ![conn[h]] = 0] /\ UNCHANGED <<parses, cache, got>>
    BY <1>15 DEF SetNoFiles
  <2> HIDE DEF Processes, Analyses, Spine, OwnInv
  <2>3. \A q \in Processes : ast'[q] <= parses
    BY <2>1, <2>2
  <2> QED BY <2>2, <2>3
<1>16. ASSUME NEW h \in Handlers, SetFiles(h) PROVE BoundPart'
  BY <1>16 DEF SetFiles
<1>17. ASSUME NEW h \in Handlers, Compute(h) PROVE BoundPart'
  <2>1. conn[h] \in Processes
    BY <1>17 DEF Compute
  <2>2. /\ parses' = parses + 1 /\ ast' = [ast EXCEPT ![conn[h]] = parses + 1]
        /\ UNCHANGED <<proofs, cache, query, got, calls, flips>>
    BY <1>17 DEF Compute
  <2> HIDE DEF Processes, Analyses, Spine, OwnInv
  <2>3. parses' \in Nat /\ parses <= parses' /\ parses + 1 <= parses'
    BY <2>2
  <2>4. \A q \in Processes : ast'[q] <= parses'
    BY <2>1, <2>2, <2>3, PutBelow
  <2> QED BY <2>2, <2>3, <2>4
<1>18. ASSUME NEW h \in Handlers, EffectUnanswered(h) PROVE BoundPart'
  <2>1. conn[h] \in Processes
    BY <1>18 DEF EffectUnanswered
  <2>2. /\ \/ parses' = parses /\ ast' = [ast EXCEPT ![conn[h]] = 0]
           \/ parses' = parses + 1 /\ ast' = [ast EXCEPT ![conn[h]] = parses + 1]
        /\ got' = [got EXCEPT ![h] = 0]
        /\ UNCHANGED <<proofs, cache, query, calls, flips>>
    BY <1>18 DEF EffectUnanswered
  <2> HIDE DEF Processes, Analyses, Spine, OwnInv
  <2>3. \A q \in Processes : ast'[q] <= parses'
    <3>1. CASE parses' = parses /\ ast' = [ast EXCEPT ![conn[h]] = 0]
      BY <2>1, <3>1, PutBelow
    <3>2. CASE parses' = parses + 1 /\ ast' = [ast EXCEPT ![conn[h]] = parses + 1]
      <4>1. parses + 1 \in Nat /\ parses <= parses + 1
        OBVIOUS
      <4> QED BY <2>1, <3>2, <4>1, PutBelow
    <3> QED BY <2>2, <3>1, <3>2
  <2>4. \A g \in Handlers : got'[g] <= parses'
    BY <2>2
  <2> QED BY <2>2, <2>3, <2>4
<1>19. ASSUME NEW h \in Handlers, Recache(h) PROVE BoundPart'
  BY <1>19 DEF Recache
<1>20. ASSUME NEW h \in Handlers, Fetch(h) PROVE BoundPart'
  BY <1>20 DEF Fetch
<1>21. ASSUME NEW h \in Handlers, GetFunctions(h) PROVE BoundPart'
  BY <1>21 DEF GetFunctions
<1>22. ASSUME NEW h \in Handlers, Store(h) PROVE BoundPart'
  BY <1>22 DEF Store
<1>23. ASSUME NEW h \in Handlers, Ask(h) PROVE BoundPart'
  BY <1>23 DEF Ask
<1>24. ASSUME NEW h \in Handlers, NoClient(h) PROVE BoundPart'
  BY <1>24 DEF NoClient
<1>25. ASSUME NEW h \in Handlers, Run(h) PROVE BoundPart'
  BY <1>25 DEF Run
<1>26. ASSUME NEW h \in Handlers, Read(h) PROVE BoundPart'
  BY <1>26 DEF Read
<1>27. ASSUME NEW h \in Handlers, Put(h) PROVE BoundPart'
  BY <1>27 DEF Put
<1>28. ASSUME NEW h \in Handlers, NEW rte \in BOOLEAN, NEW files \in BOOLEAN, ReloadCall(h, rte, files)
       PROVE  BoundPart'
  BY <1>28 DEF ReloadCall
<1>29. ASSUME NEW h \in Handlers, NEW a \in Queries, QueryCall(h, a) PROVE BoundPart'
  BY <1>29 DEF QueryCall
<1>30. ASSUME NEW b \in BOOLEAN, SetLocked(b) PROVE BoundPart'
  BY <1>30 DEF SetLocked
<1>31. ASSUME NEW p \in Processes, Boot(p) PROVE BoundPart'
  <2>1. parses' = parses + 1 /\ ast' = [ast EXCEPT ![p] = parses + 1] /\ UNCHANGED <<cache, got>>
    BY <1>31 DEF Boot
  <2> HIDE DEF Processes, Analyses, Spine, OwnInv
  <2>2. \A q \in Processes : ast'[q] <= parses'
    BY <2>1, PutBelow
  <2>3. parses <= parses'
    BY <2>1
  <2>4. /\ \A a \in Analyses : cache'[a] <= parses'
        /\ \A g \in Handlers : got'[g] <= parses'
    BY <2>1, <2>3
  <2> QED BY <2>2, <2>4
<1>32. ASSUME NEW p \in Processes, Crash(p) PROVE BoundPart'
  BY <1>32 DEF Crash
<1>33. ASSUME UNCHANGED vars PROVE BoundPart'
  BY <1>33 DEF vars
<1> HIDE DEF OwnInv, Spine, CountPart, BoundPart
<1> QED
  BY <1>1, <1>2, <1>3, <1>4, <1>5, <1>6, <1>7, <1>8, <1>9, <1>10, <1>11,
     <1>12, <1>13, <1>14, <1>15, <1>16, <1>17, <1>18, <1>19, <1>20, <1>21, <1>22,
     <1>23, <1>24, <1>25, <1>26, <1>27, <1>28, <1>29, <1>30, <1>31, <1>32, <1>33
     DEF Next, Step, Finished

\* The Boolean variables, and the flag of the installed child.
FlagPart ==
  /\ main \in [child : 0 .. MaxSpawns, rte : BOOLEAN]
  /\ rteOf \in [Processes -> BOOLEAN]
  /\ want \in [Handlers -> BOOLEAN]
  /\ loaded \in BOOLEAN /\ locked \in BOOLEAN
  /\ alone \in [Handlers -> BOOLEAN]

\* A step keeps FlagPart.
LEMMA FlagStep == OwnInv /\ FlagPart /\ [Next]_vars => FlagPart'
<1> SUFFICES ASSUME OwnInv, FlagPart, [Next]_vars PROVE FlagPart'
  OBVIOUS
<1> USE MainAssumption DEF OwnInv, Spine, FlagPart, Processes, Goto, Return, Killed, Dropped, StartCall, None, Requesting, Reloading, Querying, Up, Parsed, Owning, Connected,
   processVars, serverVars, lockVars, taskVars, boundVars
<1>1. ASSUME NEW h \in Handlers, RequestFails(h) PROVE FlagPart'
  BY <1>1 DEF RequestFails
<1>2. ASSUME NEW h \in Handlers, GetFiles(h) PROVE FlagPart'
  BY <1>2 DEF GetFiles
<1>3. ASSUME NEW h \in Handlers, LockMain(h) PROVE FlagPart'
  BY <1>3 DEF LockMain
<1>4. ASSUME NEW h \in Handlers, Decide(h) PROVE FlagPart'
  BY <1>4 DEF Decide
<1>5. ASSUME NEW h \in Handlers, Spawn(h) PROVE FlagPart'
  BY <1>5 DEF Spawn
<1>6. ASSUME NEW h \in Handlers, SpawnFails(h) PROVE FlagPart'
  BY <1>6 DEF SpawnFails
<1>7. ASSUME NEW h \in Handlers, SocketReady(h) PROVE FlagPart'
  BY <1>7 DEF SocketReady
<1>8. ASSUME NEW h \in Handlers, SocketTimeout(h) PROVE FlagPart'
  BY <1>8 DEF SocketTimeout
<1>9. ASSUME NEW h \in Handlers, Connect(h) PROVE FlagPart'
  BY <1>9 DEF Connect
<1>10. ASSUME NEW h \in Handlers, Handshake(h) PROVE FlagPart'
  BY <1>10 DEF Handshake
<1>11. ASSUME NEW h \in Handlers, ConnectFails(h) PROVE FlagPart'
  BY <1>11 DEF ConnectFails
<1>12. ASSUME NEW h \in Handlers, InstallMain(h) PROVE FlagPart'
  BY <1>12 DEF InstallMain
<1>13. ASSUME NEW h \in Handlers, Install(h) PROVE FlagPart'
  BY <1>13 DEF Install
<1>14. ASSUME NEW h \in Handlers, Installed(h) PROVE FlagPart'
  BY <1>14 DEF Installed
<1>15. ASSUME NEW h \in Handlers, SetNoFiles(h) PROVE FlagPart'
  BY <1>15 DEF SetNoFiles
<1>16. ASSUME NEW h \in Handlers, SetFiles(h) PROVE FlagPart'
  BY <1>16 DEF SetFiles
<1>17. ASSUME NEW h \in Handlers, Compute(h) PROVE FlagPart'
  BY <1>17 DEF Compute
<1>18. ASSUME NEW h \in Handlers, EffectUnanswered(h) PROVE FlagPart'
  BY <1>18 DEF EffectUnanswered
<1>19. ASSUME NEW h \in Handlers, Recache(h) PROVE FlagPart'
  BY <1>19 DEF Recache
<1>20. ASSUME NEW h \in Handlers, Fetch(h) PROVE FlagPart'
  BY <1>20 DEF Fetch
<1>21. ASSUME NEW h \in Handlers, GetFunctions(h) PROVE FlagPart'
  BY <1>21 DEF GetFunctions
<1>22. ASSUME NEW h \in Handlers, Store(h) PROVE FlagPart'
  BY <1>22 DEF Store
<1>23. ASSUME NEW h \in Handlers, Ask(h) PROVE FlagPart'
  BY <1>23 DEF Ask
<1>24. ASSUME NEW h \in Handlers, NoClient(h) PROVE FlagPart'
  BY <1>24 DEF NoClient
<1>25. ASSUME NEW h \in Handlers, Run(h) PROVE FlagPart'
  BY <1>25 DEF Run
<1>26. ASSUME NEW h \in Handlers, Read(h) PROVE FlagPart'
  BY <1>26 DEF Read
<1>27. ASSUME NEW h \in Handlers, Put(h) PROVE FlagPart'
  BY <1>27 DEF Put
<1>28. ASSUME NEW h \in Handlers, NEW rte \in BOOLEAN, NEW files \in BOOLEAN, ReloadCall(h, rte, files)
       PROVE  FlagPart'
  BY <1>28 DEF ReloadCall
<1>29. ASSUME NEW h \in Handlers, NEW a \in Queries, QueryCall(h, a) PROVE FlagPart'
  BY <1>29 DEF QueryCall
<1>30. ASSUME NEW b \in BOOLEAN, SetLocked(b) PROVE FlagPart'
  BY <1>30 DEF SetLocked
<1>31. ASSUME NEW p \in Processes, Boot(p) PROVE FlagPart'
  BY <1>31 DEF Boot
<1>32. ASSUME NEW p \in Processes, Crash(p) PROVE FlagPart'
  BY <1>32 DEF Crash
<1>33. ASSUME UNCHANGED vars PROVE FlagPart'
  BY <1>33 DEF vars
<1> HIDE DEF OwnInv, Spine, FlagPart
<1> QED
  BY <1>1, <1>2, <1>3, <1>4, <1>5, <1>6, <1>7, <1>8, <1>9, <1>10, <1>11,
     <1>12, <1>13, <1>14, <1>15, <1>16, <1>17, <1>18, <1>19, <1>20, <1>21, <1>22,
     <1>23, <1>24, <1>25, <1>26, <1>27, <1>28, <1>29, <1>30, <1>31, <1>32, <1>33
     DEF Next, Step, Finished

\* Each mutex is held by the task whose program counter says so.
LockPart ==
  /\ mainLock \in Handlers \cup {NoHandler}
  /\ clientLock \in Handlers \cup {NoHandler}
  /\ \A h \in Handlers : (pc[h] \in HoldsMain) <=> (mainLock = h)
  /\ \A h \in Handlers : (pc[h] \in HoldsClient) <=> (clientLock = h)

\* A step keeps LockPart.
LEMMA LockStep == OwnInv /\ LockPart /\ [Next]_vars => LockPart'
<1> SUFFICES ASSUME OwnInv, LockPart, [Next]_vars PROVE LockPart'
  OBVIOUS
<1> USE MainAssumption DEF OwnInv, Spine, LockPart, HoldsMain, HoldsClient, Goto, Return, Killed, Dropped, StartCall, None, Requesting, Reloading, Querying, Up, Parsed, Owning, Connected,
   processVars, serverVars, lockVars, taskVars, boundVars
<1>1. ASSUME NEW h \in Handlers, RequestFails(h) PROVE LockPart'
  BY <1>1 DEF RequestFails
<1>2. ASSUME NEW h \in Handlers, GetFiles(h) PROVE LockPart'
  BY <1>2 DEF GetFiles
<1>3. ASSUME NEW h \in Handlers, LockMain(h) PROVE LockPart'
  BY <1>3 DEF LockMain
<1>4. ASSUME NEW h \in Handlers, Decide(h) PROVE LockPart'
  BY <1>4 DEF Decide, ReleaseMain, NeedsRespawn
<1>5. ASSUME NEW h \in Handlers, Spawn(h) PROVE LockPart'
  BY <1>5 DEF Spawn
<1>6. ASSUME NEW h \in Handlers, SpawnFails(h) PROVE LockPart'
  BY <1>6 DEF SpawnFails
<1>7. ASSUME NEW h \in Handlers, SocketReady(h) PROVE LockPart'
  BY <1>7 DEF SocketReady
<1>8. ASSUME NEW h \in Handlers, SocketTimeout(h) PROVE LockPart'
  BY <1>8 DEF SocketTimeout
<1>9. ASSUME NEW h \in Handlers, Connect(h) PROVE LockPart'
  BY <1>9 DEF Connect
<1>10. ASSUME NEW h \in Handlers, Handshake(h) PROVE LockPart'
  BY <1>10 DEF Handshake
<1>11. ASSUME NEW h \in Handlers, ConnectFails(h) PROVE LockPart'
  BY <1>11 DEF ConnectFails
<1>12. ASSUME NEW h \in Handlers, InstallMain(h) PROVE LockPart'
  BY <1>12 DEF InstallMain
<1>13. ASSUME NEW h \in Handlers, Install(h) PROVE LockPart'
  BY <1>13 DEF Install
<1>14. ASSUME NEW h \in Handlers, Installed(h) PROVE LockPart'
  BY <1>14 DEF Installed
<1>15. ASSUME NEW h \in Handlers, SetNoFiles(h) PROVE LockPart'
  BY <1>15 DEF SetNoFiles
<1>16. ASSUME NEW h \in Handlers, SetFiles(h) PROVE LockPart'
  BY <1>16 DEF SetFiles
<1>17. ASSUME NEW h \in Handlers, Compute(h) PROVE LockPart'
  BY <1>17 DEF Compute
<1>18. ASSUME NEW h \in Handlers, EffectUnanswered(h) PROVE LockPart'
  BY <1>18 DEF EffectUnanswered
<1>19. ASSUME NEW h \in Handlers, Recache(h) PROVE LockPart'
  BY <1>19 DEF Recache
<1>20. ASSUME NEW h \in Handlers, Fetch(h) PROVE LockPart'
  BY <1>20 DEF Fetch
<1>21. ASSUME NEW h \in Handlers, GetFunctions(h) PROVE LockPart'
  BY <1>21 DEF GetFunctions
<1>22. ASSUME NEW h \in Handlers, Store(h) PROVE LockPart'
  BY <1>22 DEF Store
<1>23. ASSUME NEW h \in Handlers, Ask(h) PROVE LockPart'
  BY <1>23 DEF Ask
<1>24. ASSUME NEW h \in Handlers, NoClient(h) PROVE LockPart'
  BY <1>24 DEF NoClient
<1>25. ASSUME NEW h \in Handlers, Run(h) PROVE LockPart'
  BY <1>25 DEF Run
<1>26. ASSUME NEW h \in Handlers, Read(h) PROVE LockPart'
  BY <1>26 DEF Read
<1>27. ASSUME NEW h \in Handlers, Put(h) PROVE LockPart'
  BY <1>27 DEF Put
<1>28. ASSUME NEW h \in Handlers, NEW rte \in BOOLEAN, NEW files \in BOOLEAN, ReloadCall(h, rte, files)
       PROVE  LockPart'
  BY <1>28 DEF ReloadCall
<1>29. ASSUME NEW h \in Handlers, NEW a \in Queries, QueryCall(h, a) PROVE LockPart'
  BY <1>29 DEF QueryCall
<1>30. ASSUME NEW b \in BOOLEAN, SetLocked(b) PROVE LockPart'
  BY <1>30 DEF SetLocked
<1>31. ASSUME NEW p \in Processes, Boot(p) PROVE LockPart'
  BY <1>31 DEF Boot
<1>32. ASSUME NEW p \in Processes, Crash(p) PROVE LockPart'
  BY <1>32 DEF Crash
<1>33. ASSUME UNCHANGED vars PROVE LockPart'
  BY <1>33 DEF vars
<1> HIDE DEF OwnInv, Spine, LockPart
<1> QED
  BY <1>1, <1>2, <1>3, <1>4, <1>5, <1>6, <1>7, <1>8, <1>9, <1>10, <1>11,
     <1>12, <1>13, <1>14, <1>15, <1>16, <1>17, <1>18, <1>19, <1>20, <1>21, <1>22,
     <1>23, <1>24, <1>25, <1>26, <1>27, <1>28, <1>29, <1>30, <1>31, <1>32, <1>33
     DEF Next, Step, Finished

\* The state a server starts in satisfies every part.
LEMMA Initially ==
  Init => OwnInv /\ LiveProcessesAreOwned /\ CountPart /\ BoundPart /\ FlagPart /\ LockPart
<1> SUFFICES ASSUME Init
             PROVE  OwnInv /\ LiveProcessesAreOwned /\ CountPart /\ BoundPart /\ FlagPart /\ LockPart
  OBVIOUS
<1> USE MainAssumption DEF Init, None
<1>1. OwnInv
  BY DEF OwnInv, Spine, ChildAtPc, ConnAtPc, ClientIffMain, Owning, Connected
<1>2. LiveProcessesAreOwned
  BY DEF LiveProcessesAreOwned, Live
<1>3. CountPart /\ BoundPart
  BY DEF CountPart, BoundPart, Analyses
<1>4. FlagPart
  <2>1. main \in [child : 0 .. MaxSpawns, rte : BOOLEAN]
    OBVIOUS
  <2>2. rteOf \in [Processes -> BOOLEAN] /\ loaded \in BOOLEAN /\ locked \in BOOLEAN
    OBVIOUS
  <2>3. want \in [Handlers -> BOOLEAN] /\ alone \in [Handlers -> BOOLEAN]
    OBVIOUS
  <2> QED BY <2>1, <2>2, <2>3 DEF FlagPart
<1>5. LockPart
  BY DEF LockPart, HoldsMain, HoldsClient
<1> QED BY <1>1, <1>2, <1>3, <1>4, <1>5

-----------------------------------------------------------------------------

\* The ownership invariant holds in every reachable state.
LEMMA Ownership == Spec => []OwnInv
<1>1. Init => OwnInv
  BY Initially
<1> QED BY <1>1, OwnStep, PTL DEF Spec

\* "client <=> state" (server.rs:710-749): the two are installed together and
\* from a call that has both, so branch 3 always finds a client.
THEOREM ClientComesWithState == Spec => []ClientIffMain
BY Ownership, PTL DEF OwnInv

\* A Frama-C process that is alive is the installed child or belongs to a call
\* that is still between its spawn and its install, whatever races or fails:
\* kill_on_drop leaves no process behind.
THEOREM NoProcessLeftBehind == Spec => []LiveProcessesAreOwned
<1>1. Init => LiveProcessesAreOwned
  BY Initially
<1> QED BY <1>1, Ownership, OwnedStep, PTL DEF Spec

\* The two together: whatever races, fails or crashes in ensure_main_spawned,
\* processes, child and client belong to somebody.
THEOREM OwnersAreKept == Spec => []NothingIsLeftBehind
BY NoProcessLeftBehind, ClientComesWithState, PTL DEF NothingIsLeftBehind

\* Every variable keeps its type, and each mutex its holder.
THEOREM TypeCorrect == Spec => []TypeOK
<1>1. Init => CountPart /\ BoundPart /\ FlagPart /\ LockPart
  BY Initially
<1>2. OwnInv /\ CountPart /\ BoundPart /\ FlagPart /\ LockPart => TypeOK
  <2> SUFFICES ASSUME OwnInv, CountPart, BoundPart, FlagPart, LockPart PROVE TypeOK
    OBVIOUS
  <2>1. ast \in [Processes -> 0 .. parses]
    BY DEF CountPart, BoundPart
  <2>2. cache \in [Analyses -> 0 .. parses]
    BY DEF CountPart, BoundPart
  <2>3. got \in [Handlers -> 0 .. parses]
    BY DEF CountPart, BoundPart
  <2> QED BY <2>1, <2>2, <2>3 DEF TypeOK, OwnInv, Spine, CountPart, FlagPart, LockPart
<1> QED BY <1>1, <1>2, Ownership, CountStep, BoundStep, FlagStep, LockStep, PTL DEF Spec

-----------------------------------------------------------------------------
(* Which process is meant.                                                 *)

\* A process that has bound its socket, alive or not.
Booted(p) == status[p] \in {"up", "dead"}

\* Connections, and the socket, are of processes that have booted; a child was
\* started with the flag that is recorded for it, or that its call was given.
RefInv ==
  /\ socketFile # 0 => Booted(socketFile)
  /\ client # 0 => Booted(client)
  /\ \A h \in Handlers : conn[h] # 0 => Booted(conn[h])
  /\ main.child # 0 => status[main.child] # "none" /\ rteOf[main.child] = main.rte
  /\ \A h \in Handlers : child[h] # 0 => status[child[h]] # "none" /\ rteOf[child[h]] = want[h]

\* A step keeps connections to processes that have booted, and the flags.
LEMMA RefStep == OwnInv /\ FlagPart /\ RefInv /\ [Next]_vars => RefInv'
<1> SUFFICES ASSUME OwnInv, FlagPart, RefInv, [Next]_vars PROVE RefInv'
  OBVIOUS
<1> USE MainAssumption DEF OwnInv, Spine, FlagPart, Processes, Goto, Return, Killed, Dropped, StartCall, None,
   Up, Parsed, processVars, serverVars, lockVars, taskVars, boundVars, RefInv, Booted, ChildAtPc, Owning
<1>1. ASSUME NEW h \in Handlers, RequestFails(h) PROVE RefInv'
  BY <1>1 DEF RequestFails
<1>2. ASSUME NEW h \in Handlers, GetFiles(h) PROVE RefInv'
  BY <1>2 DEF GetFiles
<1>3. ASSUME NEW h \in Handlers, LockMain(h) PROVE RefInv'
  BY <1>3 DEF LockMain
<1>4. ASSUME NEW h \in Handlers, Decide(h) PROVE RefInv'
  BY <1>4 DEF Decide
<1>5. ASSUME NEW h \in Handlers, Spawn(h) PROVE RefInv'
  <2>1. PICK p \in Processes : p = NewProcess /\ status[p] = "none"
    BY <1>5, NewProcessUnused
  <2>2. /\ pc[h] = "spawn" /\ child' = [child EXCEPT ![h] = p]
        /\ status' = [status EXCEPT ![p] = "booting"]
        /\ rteOf' = [rteOf EXCEPT ![p] = want[h]]
        /\ socketFile' = 0
        /\ UNCHANGED <<main, client, conn, want>>
    BY <1>5, <2>1 DEF Spawn
  <2> QED BY <2>1, <2>2
<1>6. ASSUME NEW h \in Handlers, SpawnFails(h) PROVE RefInv'
  BY <1>6 DEF SpawnFails
<1>7. ASSUME NEW h \in Handlers, SocketReady(h) PROVE RefInv'
  BY <1>7 DEF SocketReady
<1>8. ASSUME NEW h \in Handlers, SocketTimeout(h) PROVE RefInv'
  BY <1>8 DEF SocketTimeout
<1>9. ASSUME NEW h \in Handlers, Connect(h) PROVE RefInv'
  BY <1>9 DEF Connect
<1>10. ASSUME NEW h \in Handlers, Handshake(h) PROVE RefInv'
  BY <1>10 DEF Handshake
<1>11. ASSUME NEW h \in Handlers, ConnectFails(h) PROVE RefInv'
  BY <1>11 DEF ConnectFails
<1>12. ASSUME NEW h \in Handlers, InstallMain(h) PROVE RefInv'
  BY <1>12 DEF InstallMain
<1>13. ASSUME NEW h \in Handlers, Install(h) PROVE RefInv'
  BY <1>13 DEF Install
<1>14. ASSUME NEW h \in Handlers, Installed(h) PROVE RefInv'
  BY <1>14 DEF Installed
<1>15. ASSUME NEW h \in Handlers, SetNoFiles(h) PROVE RefInv'
  BY <1>15 DEF SetNoFiles
<1>16. ASSUME NEW h \in Handlers, SetFiles(h) PROVE RefInv'
  BY <1>16 DEF SetFiles
<1>17. ASSUME NEW h \in Handlers, Compute(h) PROVE RefInv'
  BY <1>17 DEF Compute
<1>18. ASSUME NEW h \in Handlers, EffectUnanswered(h) PROVE RefInv'
  BY <1>18 DEF EffectUnanswered
<1>19. ASSUME NEW h \in Handlers, Recache(h) PROVE RefInv'
  BY <1>19 DEF Recache
<1>20. ASSUME NEW h \in Handlers, Fetch(h) PROVE RefInv'
  BY <1>20 DEF Fetch
<1>21. ASSUME NEW h \in Handlers, GetFunctions(h) PROVE RefInv'
  BY <1>21 DEF GetFunctions
<1>22. ASSUME NEW h \in Handlers, Store(h) PROVE RefInv'
  BY <1>22 DEF Store
<1>23. ASSUME NEW h \in Handlers, Ask(h) PROVE RefInv'
  BY <1>23 DEF Ask
<1>24. ASSUME NEW h \in Handlers, NoClient(h) PROVE RefInv'
  BY <1>24 DEF NoClient
<1>25. ASSUME NEW h \in Handlers, Run(h) PROVE RefInv'
  BY <1>25 DEF Run
<1>26. ASSUME NEW h \in Handlers, Read(h) PROVE RefInv'
  BY <1>26 DEF Read
<1>27. ASSUME NEW h \in Handlers, Put(h) PROVE RefInv'
  BY <1>27 DEF Put
<1>28. ASSUME NEW h \in Handlers, NEW rte \in BOOLEAN, NEW files \in BOOLEAN, ReloadCall(h, rte, files)
       PROVE  RefInv'
  <2>1. /\ pc[h] = "idle" /\ want' = [want EXCEPT ![h] = rte]
        /\ UNCHANGED <<status, rteOf, socketFile, main, client, child>>
        /\ conn' = conn \/ (client # 0 /\ conn' = [conn EXCEPT ![h] = client])
    BY <1>28 DEF ReloadCall
  <2>2. child[h] = 0
    BY <2>1
  <2>3. \A k \in Handlers : conn'[k] # 0 => conn'[k] = client \/ conn'[k] = conn[k]
    BY <2>1
  <2> QED BY <2>1, <2>2, <2>3
<1>29. ASSUME NEW h \in Handlers, NEW a \in Queries, QueryCall(h, a) PROVE RefInv'
  BY <1>29 DEF QueryCall
<1>30. ASSUME NEW b \in BOOLEAN, SetLocked(b) PROVE RefInv'
  BY <1>30 DEF SetLocked
<1>31. ASSUME NEW p \in Processes, Boot(p) PROVE RefInv'
  BY <1>31 DEF Boot
<1>32. ASSUME NEW p \in Processes, Crash(p) PROVE RefInv'
  BY <1>32 DEF Crash
<1>33. ASSUME UNCHANGED vars PROVE RefInv'
  BY <1>33 DEF vars
<1> HIDE DEF OwnInv, Spine, FlagPart, RefInv, ChildAtPc
<1> QED
  BY <1>1, <1>2, <1>3, <1>4, <1>5, <1>6, <1>7, <1>8, <1>9, <1>10, <1>11,
     <1>12, <1>13, <1>14, <1>15, <1>16, <1>17, <1>18, <1>19, <1>20, <1>21, <1>22,
     <1>23, <1>24, <1>25, <1>26, <1>27, <1>28, <1>29, <1>30, <1>31, <1>32, <1>33
     DEF Next, Step, Finished

\* While a call is alone every other is idle; from where reload_project has a
\* client that fits, nothing else replaces it, and what it stores was read
\* from the installed child as it still is.
SoloInv ==
  \A h \in Handlers : alone[h] /\ pc[h] # "idle" =>
    /\ \A k \in Handlers \ {h} : pc[k] = "idle"
    /\ pc[h] \in {"set0", "set1", "compute", "recache", "installed", "fetch", "get", "store"} =>
         main.child # 0 /\ main.rte = want[h]
    /\ pc[h] \in {"get", "store"} => conn[h] = client
    /\ pc[h] = "store" => client = main.child /\ got[h] = ast[client]

\* A step keeps what a call that is alone relies on.
LEMMA SoloStep == OwnInv /\ FlagPart /\ CountPart /\ LiveProcessesAreOwned /\ RefInv /\ SoloInv /\ [Next]_vars => SoloInv'
<1> SUFFICES ASSUME OwnInv, FlagPart, CountPart, LiveProcessesAreOwned, RefInv, SoloInv, [Next]_vars PROVE SoloInv'
  OBVIOUS
<1> USE MainAssumption DEF OwnInv, Spine, FlagPart, Processes, Goto, Return, Killed, Dropped, StartCall, None,
   Up, Parsed, processVars, serverVars, lockVars, taskVars, boundVars, CountPart, SoloInv
<1>1. ASSUME NEW h \in Handlers, RequestFails(h) PROVE SoloInv'
  BY <1>1 DEF RequestFails
<1>2. ASSUME NEW h \in Handlers, GetFiles(h) PROVE SoloInv'
  BY <1>2 DEF GetFiles
<1>3. ASSUME NEW h \in Handlers, LockMain(h) PROVE SoloInv'
  BY <1>3 DEF LockMain
<1>4. ASSUME NEW h \in Handlers, Decide(h) PROVE SoloInv'
  <2>1. /\ pc[h] = "lockClient" /\ UNCHANGED <<alone, ast, main, client, want, got>>
        /\ \A k \in Handlers \ {h} : pc'[k] = pc[k] /\ conn'[k] = conn[k]
        /\ pc'[h] = "spawn" \/ (pc'[h] = "set0" /\ ~NeedsRespawn(h))
    BY <1>4 DEF Decide
  <2> QED BY <2>1 DEF NeedsRespawn
<1>5. ASSUME NEW h \in Handlers, Spawn(h) PROVE SoloInv'
  BY <1>5 DEF Spawn
<1>6. ASSUME NEW h \in Handlers, SpawnFails(h) PROVE SoloInv'
  BY <1>6 DEF SpawnFails
<1>7. ASSUME NEW h \in Handlers, SocketReady(h) PROVE SoloInv'
  BY <1>7 DEF SocketReady
<1>8. ASSUME NEW h \in Handlers, SocketTimeout(h) PROVE SoloInv'
  BY <1>8 DEF SocketTimeout
<1>9. ASSUME NEW h \in Handlers, Connect(h) PROVE SoloInv'
  BY <1>9 DEF Connect
<1>10. ASSUME NEW h \in Handlers, Handshake(h) PROVE SoloInv'
  BY <1>10 DEF Handshake
<1>11. ASSUME NEW h \in Handlers, ConnectFails(h) PROVE SoloInv'
  BY <1>11 DEF ConnectFails
<1>12. ASSUME NEW h \in Handlers, InstallMain(h) PROVE SoloInv'
  BY <1>12 DEF InstallMain
<1>13. ASSUME NEW h \in Handlers, Install(h) PROVE SoloInv'
  <2>1. /\ pc[h] = "installClient" /\ pc'[h] = "installed"
        /\ main'.child = child[h] /\ main'.rte = want[h]
        /\ \A k \in Handlers \ {h} : pc'[k] = pc[k]
        /\ UNCHANGED <<alone, want>>
    BY <1>13 DEF Install
  <2>2. child[h] # 0
    BY <2>1 DEF ChildAtPc, Owning
  <2>3. \A k \in Handlers \ {h} : ~(alone[k] /\ pc[k] # "idle")
    BY <2>1
  <2>4. \A k \in Handlers : alone'[k] /\ pc'[k] # "idle" => k = h
    BY <2>1, <2>3
  <2>5. alone[h] => \A k \in Handlers \ {h} : pc'[k] = "idle"
    <3>1. alone[h] /\ pc[h] # "idle" => \A k \in Handlers \ {h} : pc[k] = "idle"
      BY DEF SoloInv
    <3>2. pc[h] # "idle"
      BY <2>1
    <3> QED BY <2>1, <3>1, <3>2
  <2> QED BY <2>1, <2>2, <2>4, <2>5
<1>14. ASSUME NEW h \in Handlers, Installed(h) PROVE SoloInv'
  BY <1>14 DEF Installed
<1>15. ASSUME NEW h \in Handlers, SetNoFiles(h) PROVE SoloInv'
  BY <1>15 DEF SetNoFiles
<1>16. ASSUME NEW h \in Handlers, SetFiles(h) PROVE SoloInv'
  BY <1>16 DEF SetFiles
<1>17. ASSUME NEW h \in Handlers, Compute(h) PROVE SoloInv'
  BY <1>17 DEF Compute
<1>18. ASSUME NEW h \in Handlers, EffectUnanswered(h) PROVE SoloInv'
  BY <1>18 DEF EffectUnanswered
<1>19. ASSUME NEW h \in Handlers, Recache(h) PROVE SoloInv'
  BY <1>19 DEF Recache
<1>20. ASSUME NEW h \in Handlers, Fetch(h) PROVE SoloInv'
  BY <1>20 DEF Fetch
<1>21. ASSUME NEW h \in Handlers, GetFunctions(h) PROVE SoloInv'
  <2>1. /\ pc[h] = "get" /\ conn[h] # 0 /\ status[conn[h]] = "up"
        /\ pc' = [pc EXCEPT ![h] = "store"] /\ got' = [got EXCEPT ![h] = ast[conn[h]]]
        /\ UNCHANGED <<alone, ast, main, client, conn, want>>
    BY <1>21 DEF GetFunctions
  <2>2. ASSUME alone[h]
        PROVE  conn[h] = client /\ client = main.child
    <3>1. conn[h] = client /\ \A k \in Handlers \ {h} : pc[k] = "idle"
      BY <2>1, <2>2
    <3>2. \A k \in Handlers : child[k] = 0
      BY <2>1, <3>1 DEF ChildAtPc, Owning
    <3>3. conn[h] \in Processes /\ Live(conn[h])
      BY <2>1 DEF Live
    <3> QED BY <2>1, <3>1, <3>2, <3>3 DEF LiveProcessesAreOwned
  <2>3. /\ pc'[h] = "store" /\ got'[h] = ast[conn[h]]
        /\ \A k \in Handlers \ {h} : pc'[k] = pc[k] /\ got'[k] = got[k]
    BY <2>1
  <2> QED BY <2>1, <2>2, <2>3
<1>22. ASSUME NEW h \in Handlers, Store(h) PROVE SoloInv'
  BY <1>22 DEF Store
<1>23. ASSUME NEW h \in Handlers, Ask(h) PROVE SoloInv'
  BY <1>23 DEF Ask
<1>24. ASSUME NEW h \in Handlers, NoClient(h) PROVE SoloInv'
  BY <1>24 DEF NoClient
<1>25. ASSUME NEW h \in Handlers, Run(h) PROVE SoloInv'
  BY <1>25 DEF Run
<1>26. ASSUME NEW h \in Handlers, Read(h) PROVE SoloInv'
  BY <1>26 DEF Read
<1>27. ASSUME NEW h \in Handlers, Put(h) PROVE SoloInv'
  BY <1>27 DEF Put
<1>28. ASSUME NEW h \in Handlers, NEW rte \in BOOLEAN, NEW files \in BOOLEAN, ReloadCall(h, rte, files)
       PROVE  SoloInv'
  <2>1. /\ pc[h] = "idle" /\ alone' = [g \in Handlers |-> g = h /\ \A x \in Handlers \ {h} : pc[x] = "idle"]
        /\ pc' = [pc EXCEPT ![h] = "lockMain"] \/ pc' = [pc EXCEPT ![h] = "files"]
    BY <1>28 DEF ReloadCall
  <2>2. pc'[h] = "lockMain" \/ pc'[h] = "files"
    BY <2>1
  <2>3. \A k \in Handlers \ {h} : pc'[k] = pc[k]
    BY <2>1
  <2>4. \A k \in Handlers : alone'[k] => k = h
    BY <2>1
  <2>5. alone'[h] => \A k \in Handlers \ {h} : pc'[k] = "idle"
    BY <2>1, <2>3
  <2> QED BY <2>2, <2>4, <2>5
<1>29. ASSUME NEW h \in Handlers, NEW a \in Queries, QueryCall(h, a) PROVE SoloInv'
  BY <1>29 DEF QueryCall
<1>30. ASSUME NEW b \in BOOLEAN, SetLocked(b) PROVE SoloInv'
  BY <1>30 DEF SetLocked
<1>31. ASSUME NEW p \in Processes, Boot(p) PROVE SoloInv'
  <2>1. /\ status[p] = "booting" /\ \A q \in Processes \ {p} : ast'[q] = ast[q]
        /\ UNCHANGED <<alone, pc, main, client, conn, want, got>>
    BY <1>31 DEF Boot
  <2>2. \A h \in Handlers : alone[h] /\ pc[h] = "store" => ast'[client] = ast[client]
    BY <2>1 DEF RefInv, Booted
  <2> QED BY <2>1, <2>2
<1>32. ASSUME NEW p \in Processes, Crash(p) PROVE SoloInv'
  BY <1>32 DEF Crash
<1>33. ASSUME UNCHANGED vars PROVE SoloInv'
  BY <1>33 DEF vars
<1> HIDE DEF OwnInv, Spine, FlagPart, CountPart, SoloInv
<1> QED
  BY <1>1, <1>2, <1>3, <1>4, <1>5, <1>6, <1>7, <1>8, <1>9, <1>10, <1>11,
     <1>12, <1>13, <1>14, <1>15, <1>16, <1>17, <1>18, <1>19, <1>20, <1>21, <1>22,
     <1>23, <1>24, <1>25, <1>26, <1>27, <1>28, <1>29, <1>30, <1>31, <1>32, <1>33
     DEF Next, Step, Finished

\* A call leaves its store only by storing.
LEMMA StoreOnly ==
  ASSUME OwnInv, Next, NEW h \in Handlers, pc[h] = "store", pc'[h] = "idle"
  PROVE  Store(h)
<1>1. ASSUME NEW k \in Handlers, Step(k) PROVE Store(h)
  <2>1. \E l : pc' = [pc EXCEPT ![k] = l]
    BY <1>1 DEF Step, RequestFails, GetFiles, LockMain, Decide, Spawn, SpawnFails, SocketReady,
       SocketTimeout, Connect, Handshake, ConnectFails, InstallMain, Install, Installed, SetNoFiles,
       SetFiles, Compute, EffectUnanswered, Recache, Fetch, GetFunctions, Store, Ask, NoClient, Run,
       Read, Put, Goto, Return
  <2>2. k = h
    BY <2>1 DEF OwnInv, Spine
  <2> QED BY <1>1, <2>2 DEF Step, RequestFails, GetFiles, LockMain, Decide, Spawn, SpawnFails, SocketReady,
       SocketTimeout, Connect, Handshake, ConnectFails, InstallMain, Install, Installed, SetNoFiles,
       SetFiles, Compute, EffectUnanswered, Recache, Fetch, GetFunctions, Ask, NoClient, Run,
       Read, Put, Requesting
<1>2. ASSUME NEW k \in Handlers, pc[k] = "idle", \E l : pc' = [pc EXCEPT ![k] = l] PROVE FALSE
  BY <1>2 DEF OwnInv, Spine
<1>3. ASSUME NEW k \in Handlers, NEW rte \in BOOLEAN, NEW files \in BOOLEAN, ReloadCall(k, rte, files)
      PROVE  FALSE
  BY <1>2, <1>3 DEF ReloadCall, StartCall, Goto
<1>4. ASSUME NEW k \in Handlers, NEW a \in Queries, QueryCall(k, a) PROVE FALSE
  BY <1>2, <1>4 DEF QueryCall, StartCall, Goto
<1>5. pc' # pc
  OBVIOUS
<1> QED
  BY <1>1, <1>3, <1>4, <1>5 DEF Next, SetLocked, Boot, Crash, Finished, vars, taskVars

\* A step keeps the promise of a reload that is alone.
LEMMA FreshStep ==
  ASSUME OwnInv, FlagPart, CountPart, RefInv, SoloInv, [Next]_vars,
         NEW h \in Handlers, pc[h] = "store", pc'[h] = "idle", alone[h]
  PROVE  /\ loaded' /\ client' # 0
         /\ client' = main'.child
         /\ rteOf'[client'] = want[h] /\ main'.rte = want[h]
         /\ \A a \in Analyses : cache'[a] = IF a = "functions" THEN ast'[client'] ELSE 0
<1>1. Store(h)
  <2>1. Next
    BY DEF vars, taskVars
  <2> QED BY <2>1, StoreOnly
<1>2. /\ loaded' = TRUE /\ client' = client /\ main' = main /\ rteOf' = rteOf /\ ast' = ast
      /\ cache' = [Invalidated EXCEPT !["functions"] = got[h]]
  BY <1>1 DEF Store, processVars
<1>3. main.child # 0 /\ main.rte = want[h] /\ client = main.child /\ got[h] = ast[client]
  BY DEF SoloInv
<1>4. rteOf[client] = want[h]
  BY <1>3 DEF RefInv
<1> QED BY <1>2, <1>3, <1>4 DEF Invalidated, Analyses

\* While the project is locked and no call touches the main instance, a step
\* lets none begin to and leaves the instance alone.
LEMMA FreezeStep ==
  ASSUME OwnInv, CountPart, RefInv, [Next]_vars, locked, Quiet, locked'
  PROVE  /\ Quiet'
         /\ main' = main /\ client' = client
         /\ client # 0 => ast'[client] = ast[client] /\ proofs'[client] = proofs[client]
<1> USE DEF processVars, serverVars, lockVars, taskVars, boundVars
<1> DEFINE Frozen == /\ main' = main /\ client' = client
                     /\ client # 0 => ast'[client] = ast[client] /\ proofs'[client] = proofs[client]
<1>1. ASSUME NEW h \in Handlers, Step(h) PROVE Quiet' /\ Frozen
  <2>1. pc[h] \notin Reloading /\ (pc[h] \in Querying => query[h] # "wp")
    BY DEF Quiet, Touching
  <2>2. Ask(h) \/ NoClient(h) \/ Run(h) \/ Read(h) \/ Put(h) \/ RequestFails(h)
    BY <1>1, <2>1 DEF Reloading, Step, GetFiles, LockMain, Decide, Spawn, SpawnFails, SocketReady,
       SocketTimeout, Connect, Handshake, ConnectFails, InstallMain, Install, Installed, SetNoFiles,
       SetFiles, Compute, EffectUnanswered, Recache, Fetch, GetFunctions, Store
  <2>3. UNCHANGED <<main, client, ast, query>>
    BY <2>2 DEF Ask, NoClient, Run, Read, Put, RequestFails, Return
  <2>4. proofs' = proofs
    BY <2>1, <2>2 DEF Ask, NoClient, Run, Read, Put, RequestFails, Querying
  <2>5. \E l \in {"idle", "run", "read", "askAgain", "put"} : pc' = [pc EXCEPT ![h] = l]
    BY <2>2 DEF Ask, NoClient, Run, Read, Put, RequestFails, Return, Goto
  <2>6. pc[h] \in Querying
    BY <2>1, <2>2 DEF Ask, NoClient, Run, Read, Put, RequestFails, Requesting, Reloading, Querying
  <2>7. Quiet'
    <3>1. \A k \in Handlers \ {h} : pc'[k] = pc[k]
      BY <2>5 DEF OwnInv, Spine
    <3>2. pc'[h] \notin Reloading
      BY <2>5 DEF OwnInv, Spine, Reloading
    <3> QED BY <2>1, <2>3, <2>6, <3>1, <3>2 DEF Quiet, Touching
  <2> QED BY <2>3, <2>4, <2>7
<1>2. ASSUME NEW h \in Handlers, NEW a \in Queries, QueryCall(h, a) PROVE Quiet' /\ Frozen
  <2>1. /\ a # "wp" /\ pc' = [pc EXCEPT ![h] = "ask"] /\ query' = [query EXCEPT ![h] = a]
        /\ UNCHANGED <<main, client, ast, proofs>>
    BY <1>2 DEF QueryCall, QueryAllowed, Goto
  <2>2. /\ \A k \in Handlers \ {h} : pc'[k] = pc[k] /\ query'[k] = query[k]
        /\ pc'[h] = "ask" /\ query'[h] # "wp"
    BY <2>1 DEF OwnInv, Spine, CountPart
  <2>3. "ask" \notin Reloading
    BY DEF Reloading
  <2>4. Quiet'
    BY <2>2, <2>3 DEF Quiet, Touching
  <2> QED BY <2>1, <2>4
<1>3. ASSUME NEW h \in Handlers, NEW rte \in BOOLEAN, NEW files \in BOOLEAN, ReloadCall(h, rte, files)
      PROVE  FALSE
  BY <1>3 DEF ReloadCall, ReloadAllowed
<1>4. ASSUME NEW b \in BOOLEAN, SetLocked(b) PROVE Quiet' /\ Frozen
  BY <1>4 DEF SetLocked, Quiet, Touching
<1>5. ASSUME NEW p \in Processes, Boot(p) PROVE Quiet' /\ Frozen
  <2>1. /\ status[p] = "booting" /\ \A q \in Processes \ {p} : ast'[q] = ast[q]
        /\ UNCHANGED <<main, client, proofs, pc, query>>
    BY <1>5 DEF Boot, CountPart
  <2>2. client # 0 => client \in Processes /\ client # p
    BY <2>1 DEF RefInv, Booted, OwnInv, Spine, Processes
  <2> QED BY <2>1, <2>2 DEF Quiet, Touching
<1>6. ASSUME NEW p \in Processes, Crash(p) PROVE Quiet' /\ Frozen
  BY <1>6 DEF Crash, Quiet, Touching
<1>7. ASSUME UNCHANGED vars PROVE Quiet' /\ Frozen
  BY <1>7 DEF vars, Quiet, Touching
<1> HIDE DEF Frozen
<1>8. Quiet' /\ Frozen
  BY <1>1, <1>2, <1>3, <1>4, <1>5, <1>6, <1>7 DEF Next, Finished
<1> QED BY <1>8 DEF Frozen

\* The invariants the two properties below rest on.
LEMMA FreshInvariants == Spec => [](OwnInv /\ FlagPart /\ CountPart /\ LiveProcessesAreOwned /\ RefInv /\ SoloInv)
<1>1. Init => OwnInv /\ FlagPart /\ CountPart /\ LiveProcessesAreOwned
  BY Initially
<1>2. Init => RefInv /\ SoloInv
  BY DEF Init, RefInv, SoloInv, None
<1> QED BY <1>1, <1>2, OwnStep, FlagStep, CountStep, OwnedStep, RefStep, SoloStep, PTL DEF Spec

\* A reload that met no other call and succeeded (reload_project, server.rs)
\* leaves client, child, flag and caches in agreement, whatever raced, failed
\* or crashed before it or dies meanwhile.
THEOREM SoloReloadRepairs == Spec => SoloReloadIsFresh
<1>1. OwnInv /\ FlagPart /\ CountPart /\ RefInv /\ SoloInv /\ [Next]_vars =>
        [\A h \in Handlers :
           pc[h] = "store" /\ pc'[h] = "idle" /\ alone[h] =>
             /\ loaded' /\ client' # 0
             /\ client' = main'.child
             /\ rteOf'[client'] = want[h] /\ main'.rte = want[h]
             /\ \A a \in Analyses : cache'[a] = IF a = "functions" THEN ast'[client'] ELSE 0]_vars
  BY FreshStep
<1> QED BY <1>1, FreshInvariants, PTL DEF Spec, SoloReloadIsFresh

\* Once the calls that passed the lock check have returned, lock_project holds
\* the main instance still: it is not replaced, reparsed or used for WP.
THEOREM LockFreezes == Spec => LockFreezesOnceQuiet
<1>1. OwnInv /\ CountPart /\ RefInv /\ [Next]_vars =>
        [locked /\ Quiet /\ locked' =>
           /\ Quiet'
           /\ main' = main /\ client' = client
           /\ client # 0 => ast'[client] = ast[client] /\ proofs'[client] = proofs[client]]_vars
  BY FreezeStep
<1> QED BY <1>1, FreshInvariants, PTL DEF Spec, LockFreezesOnceQuiet
=============================================================================
