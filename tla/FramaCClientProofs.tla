-------------------------- MODULE FramaCClientProofs --------------------------
(***************************************************************************)
(* Theorems about FramaCClient, for any set of handlers, any bounds and    *)
(* any faults of the peer: answers reach the call they are of, nothing     *)
(* runs on unwatched, and the connection implements RequestReply; and      *)
(* about Codec below it, for any base and numbers of digits and any        *)
(* payloads: receiving inverts sending.                                    *)
(***************************************************************************)
EXTENDS FramaCClient, ListingProofs, SequenceTheorems, TLAPS

\* Handshake and poll frames are commands.
LEMMA NothingIsCommand == Nothing \in Command /\ Poll \in Command
BY DEF Nothing, Poll, Command, Kinds

\* So is a KILL, for every id.
LEMMA KillIsCommand == \A id \in Nat : Kill(id) \in Command
BY DEF Kill, Command, Kinds

\* What a server handler sends is a response, damaged or not.
LEMMA WrittenType ==
  ASSUME NEW m \in Response, NEW w \in Written(m)
  PROVE  w \in Response
BY DEF Written, Response, Reply

\* A request that runs puts one response into the socket.
LEMMA RanWrites ==
  ASSUME NEW m \in Command, Ran(m)
  PROVE  \E f \in Response : toClient' = Append(toClient, f)
<1>1. \A s \in {"DATA", "ERROR"} : Reply(s, m.id, m.call) \in Response
  BY DEF Command, Reply, Response
<1> QED BY <1>1, WrittenType DEF Ran

\* Running a request appends its call to executed and one response to the socket.
LEMMA RanType ==
  ASSUME TypeOK, NEW m \in Command, Ran(m)
  PROVE  /\ executed' \in Seq(Nat)
         /\ toClient' \in Seq(Response)
<1>1. m.id \in Nat /\ m.call \in Nat
  BY DEF Command
<1>2. PICK s \in {"DATA", "ERROR"} :
        \E w \in Written(Reply(s, m.id, m.call)) : toClient' = Append(toClient, w)
  BY DEF Ran
<1>3. PICK w \in Written(Reply(s, m.id, m.call)) : toClient' = Append(toClient, w)
  BY <1>2
<1>4. Reply(s, m.id, m.call) \in Response
  BY <1>1 DEF Reply, Response
<1>5. w \in Response
  BY <1>3, <1>4, WrittenType
<1>6. QED
  BY <1>1, <1>3, <1>5 DEF Ran, TypeOK

\* A call that ends leaves the client's variables typed.
LEMMA ReturnType ==
  ASSUME TypeOK, NEW c \in Callers, NEW out \in Outcomes, NEW d \in Nat,
         Return(c, out, d)
  PROVE  /\ phase' \in {"handshake", "ready", "failed"}
         /\ counter' \in Nat
         /\ holder' \in Callers \cup {NoCaller}
         /\ waiters' \in Seq(Callers)
         /\ pc' \in [Callers -> Holding \cup {"idle", "queued"}]
         /\ req' \in [Callers -> Request]
         /\ rounds' \in [Callers -> Nat]
         /\ calls' \in Nat
         /\ returned' \subseteq Returned
<1>1. NoRequest \in Request
  BY DEF NoRequest, Request, Kinds
<1>2. req[c].call \in Nat
  BY DEF TypeOK, Request
<1>3. [call |-> req[c].call, out |-> out, data |-> d] \in Returned
  BY <1>2 DEF Returned
<1>4. QED
  BY <1>1, <1>3 DEF Return, TypeOK

\* Moving a caller on keeps the program counters typed.
LEMMA GotoType ==
  ASSUME TypeOK, NEW c \in Callers, NEW label \in Holding, Goto(c, label)
  PROVE  /\ phase' \in {"handshake", "ready", "failed"}
         /\ counter' \in Nat
         /\ holder' \in Callers \cup {NoCaller}
         /\ waiters' \in Seq(Callers)
         /\ pc' \in [Callers -> Holding \cup {"idle", "queued"}]
         /\ req' \in [Callers -> Request]
         /\ rounds' \in [Callers -> Nat]
         /\ calls' \in Nat
         /\ returned' \subseteq Returned
BY DEF Goto, TypeOK

\* Reading a frame leaves the wire typed.
LEMMA HeadTailClient ==
  ASSUME TypeOK, toClient # <<>>
  PROVE  /\ Head(toClient) \in Response
         /\ Tail(toClient) \in Seq(Response)
BY DEF TypeOK

\* What is read from the socket to the server is a command.
LEMMA HeadTailServer ==
  ASSUME TypeOK, toServer # <<>>
  PROVE  /\ Head(toServer) \in Command
         /\ Tail(toServer) \in Seq(Command)
BY DEF TypeOK

\* What is taken from the queue is a command.
LEMMA HeadTailQueue ==
  ASSUME TypeOK, queue # <<>>
  PROVE  /\ Head(queue) \in Command
         /\ Tail(queue) \in Seq(Command)
BY DEF TypeOK

-----------------------------------------------------------------------------
(* Type correctness.                                                       *)

\* The handshake keeps the types.
LEMMA HandshakeTypeOK == TypeOK /\ Handshake => TypeOK'
<1> SUFFICES ASSUME TypeOK, Handshake PROVE TypeOK'
  OBVIOUS
<1>1. CASE HandshakeRecv
  BY <1>1, HeadTailClient DEF HandshakeRecv, TypeOK, serverVars
<1>2. CASE HandshakeSilence
  BY <1>2 DEF HandshakeSilence, TypeOK, serverVars, wireVars
<1>3. CASE HandshakeClosed
  BY <1>3 DEF HandshakeClosed, TypeOK, serverVars, wireVars
<1>4. QED
  BY <1>1, <1>2, <1>3 DEF Handshake

\* Every step of a caller keeps the types.
LEMMA ClientTypeOK ==
  ASSUME TypeOK, NEW c \in Callers, Call(c) \/ ClientStep(c)
  PROVE  TypeOK'
<1>1. CASE Call(c)
  BY <1>1 DEF Call, TypeOK, serverVars, wireVars
<1>2. ASSUME NEW k \in Kinds, Begin(c, k) PROVE TypeOK'
  <2>1. [id |-> counter, call |-> calls + 1, kind |-> k] \in Request
    BY <1>2 DEF TypeOK, Request
  <2>2. NextId \in Nat
    BY DEF NextId, TypeOK
  <2>3. QED
    BY <1>2, <2>1, <2>2 DEF Begin, TypeOK, Holding, serverVars, wireVars
<1>3. CASE Send(c)
  <2>1. [cmd |-> req[c].kind, id |-> req[c].id, call |-> req[c].call] \in Command
    BY DEF TypeOK, Request, Command
  <2>2. QED
    BY <1>3, <2>1, GotoType DEF Send, TypeOK, Holding, serverVars
<1>4. CASE SendFails(c)
  BY <1>4, ReturnType DEF SendFails, TypeOK, Outcomes, serverVars, wireVars
<1>5. CASE RecvAnswer(c)
  <2>1. OutcomeOf(Head(toClient).res) \in Outcomes /\ Head(toClient).data \in Nat
    BY <1>5, HeadTailClient DEF RecvAnswer, OutcomeOf, Outcomes, Response
  <2>2. QED
    BY <1>5, <2>1, ReturnType, HeadTailClient DEF RecvAnswer, TypeOK, serverVars
<1>6. CASE RecvSkipped(c)
  BY <1>6, GotoType, HeadTailClient DEF RecvSkipped, TypeOK, Holding, serverVars
<1>7. CASE RecvMalformed(c)
  BY <1>7, ReturnType, HeadTailClient DEF RecvMalformed, TypeOK, Outcomes, serverVars
<1>8. CASE RecvSilence(c)
  BY <1>8, ReturnType, GotoType
     DEF RecvSilence, TypeOK, Outcomes, Holding, serverVars, wireVars
<1>9. CASE RecvClosed(c)
  BY <1>9, ReturnType DEF RecvClosed, TypeOK, Outcomes, serverVars, wireVars
<1>10. CASE SendPoll(c)
  BY <1>10, NothingIsCommand DEF SendPoll, TypeOK, Holding, serverVars
<1>11. CASE GiveUp(c)
  <2>1. Kill(req[c].id) \in Command
    BY KillIsCommand DEF TypeOK, Request
  <2>2. toServer' \in Seq(Command)
    BY <1>11, <2>1 DEF GiveUp, TypeOK
  <2>3. QED
    BY <1>11, <2>2, ReturnType DEF GiveUp, TypeOK, Outcomes, serverVars
<1>12. QED
  BY <1>1, <1>2, <1>3, <1>4, <1>5, <1>6, <1>7, <1>8, <1>9, <1>10, <1>11
     DEF ClientStep

\* What one command of the client can make the server do.
LEMMA ReplyType ==
  ASSUME NEW id \in Nat,
         NEW s \in {"REJECTED", "KILLED", "SIGNAL", "CMDLINEON", "CMDLINEOFF"}
  PROVE  Reply(s, id, 0) \in Response
BY DEF Reply, Response

\* Every step of the server keeps the types.
LEMMA ServerTypeOK == TypeOK /\ Server => TypeOK'
<1> SUFFICES ASSUME TypeOK, Server PROVE TypeOK'
  OBVIOUS
<1> USE DEF clientVars, serverVars
<1>1. CASE SrvGet
  BY <1>1, RanType, HeadTailServer DEF SrvGet, NextCommand, TypeOK
<1>2. CASE SrvReject
  <2>1. Reply("REJECTED", Head(toServer).id, 0) \in Response
    BY <1>2, ReplyType, HeadTailServer DEF SrvReject, NextCommand, Command
  <2>2. QED
    BY <1>2, <2>1, HeadTailServer DEF SrvReject, NextCommand, TypeOK
<1>3. CASE SrvEnqueue
  BY <1>3, HeadTailServer DEF SrvEnqueue, NextCommand, TypeOK
<1>4. CASE SrvPollBusy
  <2>1. Reply("SIGNAL", running.id, 0) \in Response
    BY ReplyType DEF TypeOK, Command
  <2>2. QED
    BY <1>4, <2>1, HeadTailServer DEF SrvPollBusy, NextCommand, TypeOK
<1>5. CASE SrvPollIdle
  BY <1>5, HeadTailServer DEF SrvPollIdle, NextCommand, TypeOK
<1>6. CASE SrvPollSet
  BY <1>6, RanType, HeadTailServer, HeadTailQueue DEF SrvPollSet, NextCommand, TypeOK
<1>7. CASE SrvPollExec
  BY <1>7, HeadTailServer, HeadTailQueue DEF SrvPollExec, NextCommand, TypeOK
<1>8. CASE SrvExecEnds
  <2>1. running \in Command
    BY DEF TypeOK
  <2>2. QED
    BY <1>8, <2>1, RanType, NothingIsCommand DEF SrvExecEnds, TypeOK
<1>9. CASE SrvKillQueued
  <2>1. Reply("KILLED", Head(toServer).id, 0) \in Response
    BY <1>9, ReplyType, HeadTailServer DEF SrvKillQueued, NextCommand, Command
  <2>2. queue' \in Seq(Command)
    BY <1>9 DEF SrvKillQueued, TypeOK
  <2>3. QED
    BY <1>9, <2>1, <2>2, HeadTailServer DEF SrvKillQueued, NextCommand, TypeOK
<1>10. CASE SrvKillRunning
  <2>1. Reply("KILLED", Head(toServer).id, 0) \in Response
    BY <1>10, ReplyType, HeadTailServer DEF SrvKillRunning, NextCommand, Command
  <2>2. QED
    BY <1>10, <2>1, HeadTailServer, NothingIsCommand
       DEF SrvKillRunning, NextCommand, TypeOK
<1>11. CASE SrvKillLate
  BY <1>11, HeadTailServer DEF SrvKillLate, NextCommand, TypeOK
<1>12. CASE SrvCmdline
  <2>1. Reply("CMDLINEON", 0, 0) \in Response /\ Reply("CMDLINEOFF", 0, 0) \in Response
    BY ReplyType
  <2>2. /\ toClient' \in {Append(toClient, Reply("CMDLINEON", 0, 0)),
                          Append(toClient, Reply("CMDLINEOFF", 0, 0))}
        /\ cmdline' \in {"on", "off"}
    BY <1>12, Zenon DEF SrvCmdline
  <2>3. toClient' \in Seq(Response)
    <3>1. toClient \in Seq(Response)
      BY DEF TypeOK
    <3>2. QED
      BY <2>1, <2>2, <3>1
  <2>4. UNCHANGED <<clientVars, toServer, queue, running, alive, executed>>
    BY <1>12 DEF SrvCmdline
  <2>5. QED
    BY <2>2, <2>3, <2>4 DEF TypeOK
<1>13. CASE SrvCrash
  <2>1. alive' \in BOOLEAN
    BY <1>13 DEF SrvCrash
  <2>2. /\ toServer' \in Seq(Command)
        /\ queue' \in Seq(Command)
        /\ running' \in Command
        /\ UNCHANGED <<clientVars, toClient, cmdline, executed>>
    BY <1>13, NothingIsCommand DEF SrvCrash
  <2>3. QED
    BY <2>1, <2>2 DEF TypeOK
<1>14. QED
  BY <1>1, <1>2, <1>3, <1>4, <1>5, <1>6, <1>7, <1>8, <1>9, <1>10, <1>11, <1>12,
     <1>13 DEF Server

\* The connection starts typed.
LEMMA TypeInit == Init => TypeOK
<1>1. NoRequest \in Request
  BY DEF NoRequest, Request, Kinds
<1>2. <<[cmd |-> "GET", id |-> 0, call |-> 0]>> \in Seq(Command)
  BY DEF Command, Kinds
<1>3. QED
  BY <1>1, <1>2, NothingIsCommand DEF Init, TypeOK

\* Every step keeps the types.
LEMMA TypeStep == ASSUME TypeOK, [Next]_vars PROVE TypeOK'
<1>1. CASE Handshake
  BY <1>1, HandshakeTypeOK
<1>2. ASSUME NEW c \in Callers, Call(c) \/ ClientStep(c) PROVE TypeOK'
  BY <1>2, ClientTypeOK
<1>3. CASE Server
  BY <1>3, ServerTypeOK
<1>4. CASE UNCHANGED vars
  BY <1>4 DEF vars, clientVars, serverVars, wireVars, TypeOK
<1>5. QED
  BY <1>1, <1>2, <1>3, <1>4 DEF Next, Finished

\* Every variable keeps its type, whatever the handlers ask and the server does.
THEOREM TypeCorrect == Spec => []TypeOK
BY TypeInit, TypeStep, PTL DEF Spec

-----------------------------------------------------------------------------
(* Answers are matched to calls.                                           *)
(* ReplyIsForThisCall is not inductive: it needs that an id names one call *)
(* only, all the way from next_id through the server back to the socket.   *)

Genuine(m) == m.res = "DATA" => m.data = m.id
Paired(m)  == m.cmd \in Kinds => m.id = m.call

ServerPart ==
  /\ \A i \in 1..Len(queue) : queue[i].id = queue[i].call
  /\ running.id = running.call

WirePart ==
  /\ \A i \in 1..Len(toServer) : Paired(toServer[i])
  /\ \A i \in 1..Len(toClient) : Genuine(toClient[i])

ClientPart ==
  /\ ReplyIsForThisCall
  /\ counter = calls + 1
  /\ \A c \in Callers : req[c].id = req[c].call

MatchInv == TypeOK /\ ServerPart /\ WirePart /\ ClientPart

\* Adding a genuine response leaves all responses genuine.
LEMMA AppendGenuine ==
  ASSUME NEW s \in Seq(Response), NEW m \in Response, Genuine(m),
         \A i \in 1..Len(s) : Genuine(s[i])
  PROVE  \A i \in 1..Len(Append(s, m)) : Genuine(Append(s, m)[i])
OBVIOUS

\* So does taking one.
LEMMA TailGenuine ==
  ASSUME NEW s \in Seq(Response), s # <<>>,
         \A i \in 1..Len(s) : Genuine(s[i])
  PROVE  /\ Genuine(Head(s))
         /\ \A i \in 1..Len(Tail(s)) : Genuine(Tail(s)[i])
OBVIOUS

\* The answer the server writes carries the call its id names.
LEMMA RanGenuine ==
  ASSUME TypeOK, WirePart, NEW m \in Command, m.id = m.call, Ran(m)
  PROVE  \A i \in 1..Len(toClient') : Genuine(toClient'[i])
<1>1. PICK s \in {"DATA", "ERROR"} :
        \E w \in Written(Reply(s, m.id, m.call)) : toClient' = Append(toClient, w)
  BY DEF Ran
<1>2. PICK w \in Written(Reply(s, m.id, m.call)) : toClient' = Append(toClient, w)
  BY <1>1
<1>3. Reply(s, m.id, m.call) \in Response /\ Genuine(Reply(s, m.id, m.call))
  BY DEF Reply, Response, Command, Genuine
<1>4. w \in Response
  BY <1>2, <1>3, WrittenType
<1>5. Genuine(w)
  BY <1>2, <1>3 DEF Written, Reply, Genuine
<1>6. QED
  BY <1>2, <1>4, <1>5, AppendGenuine DEF TypeOK, WirePart

\* A frame without data is genuine.
LEMMA NoticeGenuine ==
  ASSUME TypeOK, WirePart, NEW id \in Nat,
         NEW s \in {"REJECTED", "KILLED", "SIGNAL", "CMDLINEON", "CMDLINEOFF"},
         toClient' = Append(toClient, Reply(s, id, 0))
  PROVE  \A i \in 1..Len(toClient') : Genuine(toClient'[i])
<1>1. Reply(s, id, 0) \in Response /\ Genuine(Reply(s, id, 0))
  BY ReplyType DEF Reply, Genuine
<1>2. QED
  BY <1>1, AppendGenuine DEF TypeOK, WirePart

\* A call that ends with anything but data, or with its own data.
LEMMA ReturnMatches ==
  ASSUME TypeOK, ClientPart, NEW c \in Callers, NEW out, NEW d, Return(c, out, d),
         out = "data" => d = req[c].call
  PROVE  ClientPart'
<1>1. NoRequest.id = NoRequest.call
  BY DEF NoRequest
<1>2. QED
  BY <1>1 DEF TypeOK, ClientPart, ReplyIsForThisCall, Return

\* Moving a caller on keeps its part of the invariant.
LEMMA GotoMatches ==
  ASSUME ClientPart, NEW c \in Callers, NEW label, Goto(c, label)
  PROVE  ClientPart'
BY DEF ClientPart, ReplyIsForThisCall, Goto

\* Each part depends on its own variables only.
LEMMA ServerPartKept ==
  ASSUME ServerPart, UNCHANGED serverVars PROVE ServerPart'
BY DEF ServerPart, serverVars

\* A step that leaves the wire alone keeps its part.
LEMMA WirePartKept ==
  ASSUME WirePart, UNCHANGED wireVars PROVE WirePart'
BY DEF WirePart, wireVars

\* A step that leaves the callers alone keeps theirs.
LEMMA ClientPartKept ==
  ASSUME ClientPart, UNCHANGED clientVars PROVE ClientPart'
BY DEF ClientPart, ReplyIsForThisCall, clientVars

\* Reading a frame keeps the wire genuine.
LEMMA ReadKeepsWire ==
  ASSUME TypeOK, WirePart, toClient # <<>>,
         toClient' = Tail(toClient), UNCHANGED toServer
  PROVE  WirePart' /\ Genuine(Head(toClient))
BY TailGenuine DEF WirePart, TypeOK

\* Writing a command whose id names its call keeps it so.
LEMMA AppendPaired ==
  ASSUME NEW s \in Seq(Command), NEW m \in Command, Paired(m),
         \A i \in 1..Len(s) : Paired(s[i])
  PROVE  \A i \in 1..Len(Append(s, m)) : Paired(Append(s, m)[i])
OBVIOUS

\* A command whose id is that of its call may be written.
LEMMA WriteKeepsWire ==
  ASSUME TypeOK, WirePart, NEW m \in Command, Paired(m),
         toServer' = Append(toServer, m), UNCHANGED toClient
  PROVE  WirePart'
BY AppendPaired DEF WirePart, TypeOK

\* The handshake keeps the invariant.
LEMMA HandshakeMatches ==
  ASSUME MatchInv, Handshake
  PROVE  ServerPart' /\ WirePart' /\ ClientPart'
<1> USE DEF MatchInv
<1>1. UNCHANGED serverVars /\ UNCHANGED <<counter, req, calls, returned>>
  BY DEF Handshake, HandshakeRecv, HandshakeSilence, HandshakeClosed
<1>2. ClientPart'
  BY <1>1 DEF ClientPart, ReplyIsForThisCall
<1>3. WirePart'
  BY ReadKeepsWire, WirePartKept
     DEF Handshake, HandshakeRecv, HandshakeSilence, HandshakeClosed
<1>4. QED
  BY <1>1, <1>2, <1>3, ServerPartKept

\* Every step of a caller keeps the invariant.
LEMMA ClientMatches ==
  ASSUME MatchInv, NEW c \in Callers, Call(c) \/ ClientStep(c)
  PROVE  ServerPart' /\ WirePart' /\ ClientPart'
<1> USE DEF MatchInv
<1>1. CASE Call(c)
  BY <1>1, ServerPartKept, WirePartKept DEF Call, ClientPart, ReplyIsForThisCall
<1>2. ASSUME NEW k \in Kinds, Begin(c, k) PROVE ServerPart' /\ WirePart' /\ ClientPart'
  <2>1. ClientPart'
    BY <1>2 DEF Begin, NextId, ClientPart, ReplyIsForThisCall, TypeOK
  <2>2. QED
    BY <1>2, <2>1, ServerPartKept, WirePartKept DEF Begin
<1>3. CASE Send(c)
  <2> DEFINE m == [cmd |-> req[c].kind, id |-> req[c].id, call |-> req[c].call]
  <2>1. m \in Command /\ Paired(m)
    BY DEF TypeOK, Request, Command, Paired, ClientPart
  <2>2. QED
    BY <1>3, <2>1, GotoMatches, WriteKeepsWire, ServerPartKept DEF Send
<1>4. CASE SendFails(c)
  BY <1>4, ReturnMatches, WirePartKept, ServerPartKept DEF SendFails
<1>5. CASE RecvAnswer(c)
  <2>1. Genuine(Head(toClient)) /\ WirePart'
    BY <1>5, ReadKeepsWire DEF RecvAnswer
  <2>2. OutcomeOf(Head(toClient).res) = "data" => Head(toClient).data = req[c].call
    BY <1>5, <2>1 DEF RecvAnswer, Answers, Mine, OutcomeOf, Genuine, Terminal, ClientPart
  <2>3. QED
    BY <1>5, <2>1, <2>2, ReturnMatches, ServerPartKept DEF RecvAnswer
<1>6. CASE RecvSkipped(c)
  BY <1>6, GotoMatches, ReadKeepsWire, ServerPartKept DEF RecvSkipped
<1>7. CASE RecvMalformed(c)
  <2>1. WirePart'
    BY <1>7, ReadKeepsWire, WirePartKept DEF RecvMalformed, wireVars
  <2>2. QED
    BY <1>7, <2>1, ReturnMatches, ServerPartKept DEF RecvMalformed
<1>8. CASE RecvSilence(c)
  BY <1>8, ReturnMatches, GotoMatches, WirePartKept, ServerPartKept DEF RecvSilence
<1>9. CASE RecvClosed(c)
  BY <1>9, ReturnMatches, WirePartKept, ServerPartKept DEF RecvClosed
<1>10. CASE SendPoll(c)
  <2>1. Paired(Poll)
    BY DEF Paired, Poll
  <2>2. ClientPart'
    BY <1>10 DEF SendPoll, ClientPart, ReplyIsForThisCall
  <2>3. QED
    BY <1>10, <2>1, <2>2, NothingIsCommand, WriteKeepsWire, ServerPartKept DEF SendPoll
<1>11. CASE GiveUp(c)
  <2>1. Kill(req[c].id) \in Command /\ Paired(Kill(req[c].id))
    BY KillIsCommand DEF TypeOK, Request, Paired, Kill, Kinds
  <2>2. QED
    BY <1>11, <2>1, ReturnMatches, WriteKeepsWire, ServerPartKept DEF GiveUp
<1>12. QED
  BY <1>1, <1>2, <1>3, <1>4, <1>5, <1>6, <1>7, <1>8, <1>9, <1>10, <1>11
     DEF ClientStep

\* The queue without its head, or without any one of its requests.
LEMMA TailSameId ==
  ASSUME NEW s \in Seq(Command), s # <<>>, \A i \in 1..Len(s) : s[i].id = s[i].call
  PROVE  /\ Head(s) \in Command
         /\ Head(s).id = Head(s).call
         /\ \A i \in 1..Len(Tail(s)) : Tail(s)[i].id = Tail(s)[i].call
OBVIOUS

\* What is left of a sequence after a cut was in it before.
LEMMA CutElements ==
  ASSUME NEW S, NEW s \in Seq(S), NEW k \in 1..Len(s),
         NEW i \in 1..Len(SubSeq(s, 1, k - 1) \o SubSeq(s, k + 1, Len(s)))
  PROVE  \E j \in 1..Len(s) :
           (SubSeq(s, 1, k - 1) \o SubSeq(s, k + 1, Len(s)))[i] = s[j]
<1> DEFINE n == Len(s)
           a == SubSeq(s, 1, k - 1)
           b == SubSeq(s, k + 1, n)
<1>1. n \in Nat /\ k \in 1..n
  OBVIOUS
<1>2. /\ a \in Seq(S) /\ Len(a) = k - 1
      /\ \A j \in 1..(k - 1) : a[j] = s[j]
  BY SubSeqProperties
<1>3. /\ b \in Seq(S) /\ Len(b) = n - k
      /\ \A j \in 1..(n - k) : b[j] = s[k + j]
  BY SubSeqProperties
<1>4. i \in 1..Len(a \o b)
  OBVIOUS
<1>5. SUFFICES \E j \in 1..n : (a \o b)[i] = s[j]
  OBVIOUS
<1> HIDE DEF a, b, n
<1>6. /\ Len(a \o b) = Len(a) + Len(b)
      /\ \A j \in 1..Len(a) + Len(b) :
           (a \o b)[j] = IF j <= Len(a) THEN a[j] ELSE b[j - Len(a)]
  BY <1>2, <1>3, ConcatProperties, Zenon
<1>7. i \in 1..(k - 1) + (n - k)
  BY <1>2, <1>3, <1>4, <1>6
<1>8. (a \o b)[i] = IF i <= k - 1 THEN a[i] ELSE b[i - (k - 1)]
  BY <1>2, <1>3, <1>6, <1>7
<1>9. CASE i <= k - 1
  BY <1>1, <1>2, <1>7, <1>8, <1>9
<1>10. CASE ~(i <= k - 1)
  <2>1. i - (k - 1) \in 1..(n - k)
    BY <1>1, <1>7, <1>10
  <2>2. (a \o b)[i] = s[k + (i - (k - 1))]
    BY <1>3, <1>8, <1>10, <2>1
  <2>3. k + (i - (k - 1)) \in 1..n
    BY <1>1, <1>7, <2>1
  <2>4. QED
    BY <2>2, <2>3
<1>11. QED
  BY <1>9, <1>10

\* The server takes the next command; the rest of the channel stays paired.
LEMMA TakeKeepsPaired ==
  ASSUME TypeOK, WirePart, NEW K, NextCommand(K)
  PROVE  /\ Head(toServer) \in Command
         /\ Paired(Head(toServer))
         /\ \A i \in 1..Len(toServer') : Paired(toServer'[i])
BY HeadTailServer DEF NextCommand, WirePart, TypeOK

\* Every step of the server keeps the invariant.
LEMMA ServerMatches ==
  ASSUME MatchInv, Server
  PROVE  ServerPart' /\ WirePart' /\ ClientPart'
<1> USE DEF MatchInv
<1>1. ClientPart'
  BY ClientPartKept
     DEF Server, SrvGet, SrvReject, SrvEnqueue, SrvPollBusy, SrvPollIdle, SrvPollSet,
         SrvPollExec, SrvExecEnds, SrvKillQueued, SrvKillRunning, SrvKillLate,
         SrvCmdline, SrvCrash
<1>2. ASSUME NEW K, NextCommand(K), UNCHANGED toClient PROVE WirePart'
  BY <1>2, TakeKeepsPaired DEF WirePart
<1>3. ASSUME NEW K, NextCommand(K), NEW id \in Nat,
             NEW s \in {"REJECTED", "KILLED", "SIGNAL"},
             toClient' = Append(toClient, Reply(s, id, 0))
      PROVE  WirePart'
  BY <1>3, TakeKeepsPaired, NoticeGenuine DEF WirePart
<1>4. CASE SrvGet
  <2>1. Head(toServer) \in Command /\ Head(toServer).id = Head(toServer).call
    BY <1>4, TakeKeepsPaired DEF SrvGet, NextCommand, Paired, Kinds
  <2>2. WirePart'
    BY <1>4, <2>1, TakeKeepsPaired, RanGenuine DEF SrvGet, WirePart
  <2>3. ServerPart'
    BY <1>4 DEF SrvGet, ServerPart
  <2>4. QED
    BY <1>1, <2>2, <2>3
<1>5. CASE SrvReject
  <2>1. Head(toServer).id \in Nat
    BY <1>5, TakeKeepsPaired DEF SrvReject, Command
  <2>2. QED
    BY <1>1, <1>3, <1>5, <2>1, ServerPartKept DEF SrvReject
<1>6. CASE SrvEnqueue
  <2>1. Head(toServer) \in Command /\ Head(toServer).id = Head(toServer).call
    BY <1>6, TakeKeepsPaired DEF SrvEnqueue, NextCommand, Paired, Kinds
  <2>2. ServerPart'
    BY <1>6, <2>1 DEF SrvEnqueue, ServerPart, TypeOK
  <2>3. QED
    BY <1>1, <1>2, <1>6, <2>2 DEF SrvEnqueue
<1>7. CASE SrvPollBusy
  <2>1. running.id \in Nat
    BY DEF TypeOK, Command
  <2>2. QED
    BY <1>1, <1>3, <1>7, <2>1, ServerPartKept DEF SrvPollBusy
<1>8. CASE SrvPollIdle
  BY <1>1, <1>2, <1>8, ServerPartKept DEF SrvPollIdle
<1>9. ASSUME queue # <<>>
      PROVE  /\ Head(queue) \in Command
             /\ Head(queue).id = Head(queue).call
             /\ \A i \in 1..Len(Tail(queue)) : Tail(queue)[i].id = Tail(queue)[i].call
  BY <1>9, TailSameId DEF ServerPart, TypeOK
<1>10. CASE SrvPollSet
  <2>1. WirePart'
    BY <1>9, <1>10, TakeKeepsPaired, RanGenuine DEF SrvPollSet, WirePart
  <2>2. ServerPart'
    BY <1>9, <1>10 DEF SrvPollSet, ServerPart
  <2>3. QED
    BY <1>1, <2>1, <2>2
<1>11. CASE SrvPollExec
  <2>1. ServerPart'
    BY <1>9, <1>11 DEF SrvPollExec, ServerPart
  <2>2. QED
    BY <1>1, <1>2, <1>11, <2>1 DEF SrvPollExec
<1>12. CASE SrvExecEnds
  <2>1. \A i \in 1..Len(toClient') : Genuine(toClient'[i])
    BY <1>12, RanGenuine DEF SrvExecEnds, ServerPart, TypeOK
  <2>2. WirePart'
    BY <1>12, <2>1 DEF SrvExecEnds, WirePart
  <2>3. ServerPart'
    BY <1>12 DEF SrvExecEnds, ServerPart, Nothing
  <2>4. QED
    BY <1>1, <2>2, <2>3
<1>13. CASE SrvKillQueued
  <2>1. Head(toServer).id \in Nat
    BY <1>13, TakeKeepsPaired DEF SrvKillQueued, Command
  <2>2. WirePart'
    BY <1>3, <1>13, <2>1 DEF SrvKillQueued
  <2>3. ServerPart'
    <3>1. PICK k \in 1..Len(queue) :
            queue' = SubSeq(queue, 1, k - 1) \o SubSeq(queue, k + 1, Len(queue))
      BY <1>13 DEF SrvKillQueued
    <3>2. queue \in Seq(Command)
      BY DEF TypeOK
    <3>3. \A i \in 1..Len(queue') : \E j \in 1..Len(queue) : queue'[i] = queue[j]
      BY <3>1, <3>2, CutElements
    <3>4. QED
      BY <1>13, <3>3 DEF SrvKillQueued, ServerPart
  <2>4. QED
    BY <1>1, <2>2, <2>3
<1>14. CASE SrvKillRunning
  <2>1. Head(toServer).id \in Nat
    BY <1>14, TakeKeepsPaired DEF SrvKillRunning, Command
  <2>2. WirePart'
    BY <1>3, <1>14, <2>1 DEF SrvKillRunning
  <2>3. ServerPart'
    BY <1>14 DEF SrvKillRunning, ServerPart, Nothing
  <2>4. QED
    BY <1>1, <2>2, <2>3
<1>15. CASE SrvKillLate
  BY <1>1, <1>2, <1>15, ServerPartKept DEF SrvKillLate
<1>16. CASE SrvCmdline
  <2>1. PICK s \in {"CMDLINEON", "CMDLINEOFF"} :
          toClient' = Append(toClient, Reply(s, 0, 0))
    BY <1>16, Zenon DEF SrvCmdline
  <2>2. UNCHANGED <<toServer, queue, running>>
    BY <1>16 DEF SrvCmdline
  <2>3. WirePart'
    BY <2>1, <2>2, NoticeGenuine DEF WirePart
  <2>4. QED
    BY <1>1, <2>2, <2>3 DEF ServerPart
<1>17. CASE SrvCrash
  <2>1. WirePart'
    BY <1>17 DEF SrvCrash, WirePart
  <2>2. ServerPart'
    BY <1>17 DEF SrvCrash, ServerPart, Nothing
  <2>3. QED
    BY <1>1, <2>1, <2>2
<1>18. QED
  BY <1>4, <1>5, <1>6, <1>7, <1>8, <1>10, <1>11, <1>12, <1>13, <1>14, <1>15,
     <1>16, <1>17 DEF Server

\* The probe is the only command on the wire and its id is its call.
LEMMA MatchInit == Init => MatchInv
<1>1. Init => ServerPart /\ WirePart /\ ClientPart
  BY DEF Init, ServerPart, WirePart, ClientPart, ReplyIsForThisCall, NoRequest,
         Nothing, Paired
<1> QED BY <1>1, TypeInit DEF MatchInv

\* No step lets an id name two calls.
LEMMA MatchStep == ASSUME MatchInv, [Next]_vars PROVE MatchInv'
<1>1. TypeOK'
  BY TypeStep DEF MatchInv
<1>2. CASE Handshake
  BY <1>1, <1>2, HandshakeMatches DEF MatchInv
<1>3. ASSUME NEW c \in Callers, Call(c) \/ ClientStep(c) PROVE MatchInv'
  BY <1>1, <1>3, ClientMatches DEF MatchInv
<1>4. CASE Server
  BY <1>1, <1>4, ServerMatches DEF MatchInv
<1>5. CASE UNCHANGED vars
  BY <1>1, <1>5, ServerPartKept, WirePartKept, ClientPartKept DEF vars, MatchInv
<1>6. QED
  BY <1>2, <1>3, <1>4, <1>5 DEF Next, Finished

\* No call is ever handed the data of another one, whatever was given up
\* before it and whatever the peer does to its frames.
THEOREM RepliesMatch == Spec => []ReplyIsForThisCall
<1>1. MatchInv => ReplyIsForThisCall
  BY DEF MatchInv, ClientPart
<1> QED BY <1>1, MatchInit, MatchStep, PTL DEF Spec

-----------------------------------------------------------------------------
(* What becomes of a request, and the refinement of RequestReply.          *)
(*                                                                         *)
(* The requests that may still run are in the socket to the server, queued *)
(* or running (Live).  They are in the order of their calls (OrderInv), so *)
(* only a GET, which the server answers as it reads it, could overtake an  *)
(* earlier SET or EXEC.  It does not, because that one has run, was        *)
(* refused, or has its KILL before the GET in the socket (Watched), unless *)
(* its caller was told of a frame that does not decode (Decoded).          *)

Elements(s) == {s[i] : i \in 1..Len(s)}

\* Nothing has cmd "POLL", and is not among them.
Live ==
  {m \in Elements(toServer) \cup Elements(queue) \cup {running} : m.cmd \in Kinds}

Decoded(n) == \E r \in returned : r.call = n /\ r.out = "decode"

\* The call has been on the wire; it has ended; it has been refused for good.
Out(n)  == n \in Nat /\ (n < calls \/ (n = calls /\ \A c \in Callers : pc[c] # "send"))
Over(n) == n \in Nat /\ (n < calls \/ (n = calls /\ holder = NoCaller))
Gone(n) == Out(n) /\ n \notin Elements(executed) /\ \A m \in Live : m.call # n

\* The order of two commands of one connection.
Before(a, b) ==
  /\ a.cmd \in Kinds /\ b.cmd \in Kinds => a.call < b.call
  /\ a.cmd = "KILL" /\ b.cmd \in Kinds => a.id < b.call
  /\ a.cmd \in Kinds /\ b.cmd = "KILL" => a.call <= b.id

InOrder(s) == \A i, j \in 1..Len(s) : i < j => Before(s[i], s[j])

\* Whoever holds the mutex is the one caller in a request, the last one made.
MutexInv ==
  /\ \A c \in Callers : pc[c] \in Holding <=> holder = c
  /\ \A c \in Callers :
       IF pc[c] \in Holding THEN calls > 0 /\ req[c].call = calls ELSE req[c].call = 0
  /\ \A c \in Callers : pc[c] = "wait" => req[c].kind = "GET"
  /\ \A c \in Callers : pc[c] \in {"first", "top", "poll"} => req[c].kind # "GET"
  /\ phase = "handshake" => waiters = <<>> /\ \A c \in Callers : pc[c] = "idle"
  /\ \A r \in returned : Over(r.call)

OrderInv ==
  /\ InOrder(toServer) /\ InOrder(queue)
  /\ \A m \in Elements(queue) : m.cmd \in {"SET", "EXEC"}
  /\ running # Nothing => running.cmd = "EXEC"
  /\ \A a \in Elements(queue), b \in Elements(toServer) : b.cmd \in Kinds => a.call < b.call
  /\ running # Nothing =>
       \A b \in Elements(queue) \cup Elements(toServer) :
         b.cmd \in Kinds => running.call < b.call
  /\ \A m \in Elements(toServer) :
       (m.cmd \in Kinds => Out(m.call)) /\ (m.cmd = "KILL" => Over(m.id))
  /\ \A m \in Live : Out(m.call) /\ m.id = m.call

\* Somebody waits for the request, or its KILL is on the way.
Watched(m) ==
  \/ m.cmd = "GET"
  \/ holder # NoCaller /\ m.call = calls
  \/ Kill(m.call) \in Elements(toServer)
  \/ Decoded(m.call)

LiveFacts(m) ==
  /\ m.call \notin Elements(executed)
  /\ Decoded(m.call) \/ \A n \in Elements(executed) : n < m.call
  /\ Watched(m)
  /\ \A c \in Callers : req[c].call = m.call /\ pc[c] \in Holding => req[c].kind = m.cmd

LiveInv ==
  /\ \A m \in Live : LiveFacts(m)
  /\ ~alive => Live = {} /\ toServer = <<>>
  /\ \A n \in Elements(executed) : Out(n)

\* What an answer on its way tells.
Told(f) ==
  /\ f.res \in {"DATA", "ERROR"} => f.data = f.id /\ f.id \in Elements(executed)
  /\ f.res \in {"REJECTED", "KILLED"} => f.data = 0 /\ Gone(f.id)
  /\ f.res = "KILLED" => Over(f.id)

AnswerInv ==
  /\ \A f \in Elements(toClient) : Told(f)
  /\ \A r \in returned : r.out \in {"rejected", "killed"} => Gone(r.call)

CallInv == MatchInv /\ MutexInv /\ OrderInv /\ LiveInv /\ AnswerInv

\* What a sequence holds after a command is added or the first is taken.
LEMMA ElementsAppend ==
  ASSUME NEW S, NEW s \in Seq(S), NEW x \in S
  PROVE  Elements(Append(s, x)) = Elements(s) \cup {x}
<1>1. /\ Append(s, x) \in Seq(S) /\ Len(Append(s, x)) = Len(s) + 1 /\ Len(s) \in Nat
      /\ \A i \in 1..Len(s) : Append(s, x)[i] = s[i]
      /\ Append(s, x)[Len(s) + 1] = x
  OBVIOUS
<1>2. 1..(Len(s) + 1) = 1..Len(s) \cup {Len(s) + 1}
  BY <1>1
<1> HIDE <1>1
<1>3. Elements(Append(s, x)) = {Append(s, x)[i] : i \in 1..Len(s) \cup {Len(s) + 1}}
  BY <1>1, <1>2 DEF Elements
<1> QED BY <1>1, <1>3 DEF Elements

\* What is taken from a sequence was its head.
LEMMA ElementsTail ==
  ASSUME NEW S, NEW s \in Seq(S), s # <<>>
  PROVE  Elements(s) = {Head(s)} \cup Elements(Tail(s))
<1>1. /\ Head(s) = s[1] /\ Len(Tail(s)) = Len(s) - 1 /\ Len(s) \in Nat /\ Len(s) >= 1
      /\ \A i \in 1..(Len(s) - 1) : Tail(s)[i] = s[i + 1]
  OBVIOUS
<1>2. ASSUME NEW x \in Elements(s) PROVE x \in {Head(s)} \cup Elements(Tail(s))
  <2>1. PICK i \in 1..Len(s) : x = s[i]
    BY DEF Elements
  <2>2. CASE i = 1
    BY <1>1, <2>1, <2>2
  <2>3. CASE i # 1
    <3>1. i - 1 \in 1..Len(Tail(s)) /\ Tail(s)[i - 1] = x
      BY <1>1, <2>1, <2>3
    <3> QED BY <3>1 DEF Elements
  <2> QED BY <2>2, <2>3
<1>3. ASSUME NEW x \in {Head(s)} \cup Elements(Tail(s)) PROVE x \in Elements(s)
  <2>1. CASE x = Head(s)
    BY <1>1, <2>1 DEF Elements
  <2>2. CASE x \in Elements(Tail(s))
    <3>1. PICK i \in 1..Len(Tail(s)) : x = Tail(s)[i]
      BY <2>2 DEF Elements
    <3>2. i + 1 \in 1..Len(s) /\ x = s[i + 1]
      BY <1>1, <3>1
    <3> QED BY <3>2 DEF Elements
  <2> QED BY <2>1, <2>2
<1> QED BY <1>2, <1>3

\* An empty sequence holds nothing.
LEMMA ElementsEmpty == Elements(<<>>) = {}
  BY DEF Elements

\* A sequence over S holds members of S.
LEMMA ElementsType ==
  ASSUME NEW S, NEW s \in Seq(S) PROVE Elements(s) \subseteq S
  BY DEF Elements

\* A sequence stays in order when what is added is after all it holds.
LEMMA SortedAppend ==
  ASSUME NEW s \in Seq(Command), NEW x \in Command, InOrder(s),
         \A m \in Elements(s) : Before(m, x)
  PROVE  InOrder(Append(s, x))
<1> DEFINE t == Append(s, x)
<1>1. /\ Len(t) = Len(s) + 1 /\ Len(s) \in Nat
      /\ \A i \in 1..Len(s) : t[i] = s[i]
      /\ t[Len(s) + 1] = x
  OBVIOUS
<1>2. \A i \in 1..Len(s) : Before(s[i], x)
  BY DEF Elements
<1> HIDE DEF t
<1>3. ASSUME NEW i \in 1..Len(t), NEW j \in 1..Len(t), i < j PROVE Before(t[i], t[j])
  <2>1. i \in 1..Len(s) /\ (j \in 1..Len(s) \/ j = Len(s) + 1)
    BY <1>1, <1>3
  <2> QED BY <1>1, <1>2, <1>3, <2>1 DEF InOrder
<1> QED BY <1>3 DEF InOrder, t

\* What follows the head is in order, and after it.
LEMMA SortedTail ==
  ASSUME NEW s \in Seq(Command), s # <<>>, InOrder(s)
  PROVE  InOrder(Tail(s)) /\ \A m \in Elements(Tail(s)) : Before(Head(s), m)
<1> DEFINE t == Tail(s)
<1>1. /\ Head(s) = s[1] /\ Len(t) = Len(s) - 1 /\ Len(s) \in Nat /\ Len(s) >= 1
      /\ \A i \in 1..(Len(s) - 1) : t[i] = s[i + 1]
  OBVIOUS
<1> HIDE DEF t
<1>2. ASSUME NEW i \in 1..Len(t), NEW j \in 1..Len(t), i < j PROVE Before(t[i], t[j])
  BY <1>1, <1>2 DEF InOrder
<1>3. ASSUME NEW i \in 1..Len(t) PROVE Before(Head(s), t[i])
  BY <1>1 DEF InOrder
<1> QED BY <1>2, <1>3 DEF InOrder, Elements, t

\* The requests that are left when one is taken out of the queue.
LEMMA CutQueue ==
  ASSUME NEW s \in Seq(Command), InOrder(s), \A m \in Elements(s) : m.cmd \in Kinds,
         NEW k \in 1..Len(s)
  PROVE  LET t == SubSeq(s, 1, k - 1) \o SubSeq(s, k + 1, Len(s))
         IN InOrder(t) /\ Elements(t) = Elements(s) \ {s[k]}
              /\ \A m \in Elements(t) : m.call # s[k].call
<1> DEFINE a == SubSeq(s, 1, k - 1)
           b == SubSeq(s, k + 1, Len(s))
           t == a \o b
           n == Len(s)
           pos(i) == IF i <= k - 1 THEN i ELSE i + 1
<1>1. n \in Nat /\ k \in 1..n
  OBVIOUS
<1>2. /\ a \in Seq(Command) /\ Len(a) = k - 1
      /\ \A j \in 1..(k - 1) : a[j] = s[j]
  BY SubSeqProperties
<1>3. /\ b \in Seq(Command) /\ Len(b) = n - k
      /\ \A j \in 1..(n - k) : b[j] = s[k + j]
  BY SubSeqProperties
<1>4. \A i \in 1..n : s[i] \in Command /\ s[i].cmd \in Kinds
  BY DEF Elements
<1>5. \A i, j \in 1..n : i < j => s[i].call < s[j].call
  BY <1>4 DEF InOrder, Before
<1> HIDE DEF a, b
<1>6. /\ Len(t) = Len(a) + Len(b)
      /\ \A j \in 1..Len(a) + Len(b) :
           t[j] = IF j <= Len(a) THEN a[j] ELSE b[j - Len(a)]
  BY <1>2, <1>3, ConcatProperties, Zenon
<1> HIDE DEF t, n
<1>7. Len(t) = n - 1
  BY <1>1, <1>2, <1>3, <1>6
<1>8. ASSUME NEW i \in 1..Len(t)
      PROVE  t[i] = s[pos(i)] /\ pos(i) \in 1..n /\ pos(i) # k
  <2>1. i \in 1..(k - 1) + (n - k) /\ i \in 1..(n - 1)
    BY <1>1, <1>7
  <2>2. t[i] = IF i <= k - 1 THEN a[i] ELSE b[i - (k - 1)]
    BY <1>2, <1>3, <1>6, <2>1
  <2>3. CASE i <= k - 1
    BY <1>1, <1>2, <2>1, <2>2, <2>3
  <2>4. CASE ~(i <= k - 1)
    <3>1. i - (k - 1) \in 1..(n - k) /\ k + (i - (k - 1)) = i + 1
      BY <1>1, <2>1, <2>4
    <3> QED BY <1>1, <1>3, <2>1, <2>2, <2>4, <3>1
  <2> QED BY <2>3, <2>4
<1>9. ASSUME NEW i \in 1..n, i # k PROVE \E j \in 1..Len(t) : t[j] = s[i]
  <2>1. CASE i < k
    <3>1. i \in 1..Len(t) /\ pos(i) = i
      BY <1>1, <1>7, <2>1
    <3> QED BY <1>8, <3>1
  <2>2. CASE i > k
    <3>1. i - 1 \in 1..Len(t) /\ pos(i - 1) = i
      BY <1>1, <1>7, <2>2
    <3> QED BY <1>8, <3>1
  <2> QED BY <1>1, <1>9, <2>1, <2>2
<1>10. \A i, j \in 1..Len(t) : i < j => pos(i) < pos(j)
  BY <1>1, <1>7
<1> HIDE DEF pos
<1>11. InOrder(t)
  BY <1>8, <1>10, n = Len(s) DEF InOrder, n
<1>12. \A m \in Elements(t) : m \in Elements(s) /\ m.call # s[k].call
  <2>1. ASSUME NEW i \in 1..Len(t) PROVE t[i] \in Elements(s) /\ t[i].call # s[k].call
    <3>1. t[i] = s[pos(i)] /\ pos(i) \in 1..n /\ pos(i) # k
      BY <1>8
    <3>2. s[pos(i)].call \in Nat /\ s[k].call \in Nat
      BY <1>1, <1>4, <3>1 DEF Command
    <3>3. s[pos(i)].call # s[k].call
      BY <1>1, <1>5, <3>1, <3>2
    <3> QED BY <3>1, <3>3 DEF Elements, n
  <2> QED BY <2>1 DEF Elements
<1>13. \A m \in Elements(s) : m # s[k] => m \in Elements(t)
  BY <1>9 DEF Elements, n
<1>14. InOrder(t) /\ Elements(t) = Elements(s) \ {s[k]} /\ \A m \in Elements(t) : m.call # s[k].call
  BY <1>11, <1>12, <1>13
<1> QED BY <1>14 DEF t, a, b, n

\* The requests that may still run, and their parts.
LEMMA CommandParts ==
  ASSUME NEW m \in Command PROVE m.id \in Nat /\ m.call \in Nat
BY DEF Command

\* A request that may still run is one of the three kinds.
LEMMA LiveType ==
  ASSUME TypeOK, NEW m \in Live
  PROVE  m \in Command /\ m.cmd \in Kinds /\ m.id \in Nat /\ m.call \in Nat
<1>1. toServer \in Seq(Command) /\ queue \in Seq(Command) /\ running \in Command
  BY DEF TypeOK
<1>2. Elements(toServer) \subseteq Command /\ Elements(queue) \subseteq Command
  BY <1>1, ElementsType
<1>3. m \in Command /\ m.cmd \in Kinds
  BY <1>1, <1>2 DEF Live
<1> QED BY <1>3, CommandParts

\* No two requests that may still run are of one call.
LEMMA UniqueLive ==
  ASSUME TypeOK, OrderInv, NEW a \in Live, NEW b \in Live, a.call = b.call
  PROVE  a = b
<1>1. ASSUME NEW s \in Seq(Command), InOrder(s), NEW x \in Elements(s), NEW y \in Elements(s),
             x.cmd \in Kinds, y.cmd \in Kinds, x.call = y.call
      PROVE  x = y
  <2>1. PICK i \in 1..Len(s), j \in 1..Len(s) : x = s[i] /\ y = s[j]
    BY DEF Elements
  <2>2. x.call \in Nat /\ y.call \in Nat /\ i \in Int /\ j \in Int
    BY <2>1, CommandParts
  <2>3. ~(i < j) /\ ~(j < i)
    BY <1>1, <2>1, <2>2 DEF InOrder, Before
  <2> QED BY <2>1, <2>2, <2>3
<1>2. /\ toServer \in Seq(Command) /\ queue \in Seq(Command) /\ running \in Command
      /\ Elements(toServer) \subseteq Command /\ Elements(queue) \subseteq Command
  BY ElementsType DEF TypeOK
<1>3. /\ a.cmd \in Kinds /\ b.cmd \in Kinds
      /\ a \in Elements(toServer) \cup Elements(queue) \cup {running}
      /\ b \in Elements(toServer) \cup Elements(queue) \cup {running}
  BY DEF Live
<1>4. a.call \in Nat /\ b.call \in Nat
  BY <1>2, <1>3 DEF Command
<1>5. running.cmd \in Kinds => running # Nothing
  BY DEF Nothing, Kinds
<1>6. CASE a \in Elements(toServer) /\ b \in Elements(toServer)
  BY <1>1, <1>2, <1>3, <1>6 DEF OrderInv
<1>7. CASE a \in Elements(queue) /\ b \in Elements(queue)
  BY <1>1, <1>2, <1>3, <1>7 DEF OrderInv
<1>8. CASE a = running /\ b # running
  BY <1>3, <1>4, <1>5, <1>8 DEF OrderInv
<1>9. CASE b = running /\ a # running
  BY <1>3, <1>4, <1>5, <1>9 DEF OrderInv
<1>10. CASE \/ a \in Elements(queue) /\ b \in Elements(toServer)
            \/ b \in Elements(queue) /\ a \in Elements(toServer)
  BY <1>3, <1>4, <1>10 DEF OrderInv
<1> QED BY <1>3, <1>6, <1>7, <1>8, <1>9, <1>10

\* The server reads a command.
LEMMA TakeHead ==
  ASSUME TypeOK, OrderInv, NEW K, NextCommand(K)
  PROVE  /\ Head(toServer) \in Command /\ Head(toServer).cmd \in K
         /\ toServer # <<>> /\ toServer' = Tail(toServer)
         /\ Elements(toServer) = {Head(toServer)} \cup Elements(toServer')
         /\ \A m \in Elements(toServer') : m \in Command /\ Before(Head(toServer), m)
         /\ InOrder(toServer') /\ toServer' \in Seq(Command)
         /\ Head(toServer).cmd \in Kinds =>
              /\ Head(toServer) \notin Elements(toServer') \cup Elements(queue)
              /\ running # Nothing => Head(toServer) # running
<1>1. /\ toServer \in Seq(Command) /\ toServer # <<>> /\ toServer' = Tail(toServer)
      /\ Head(toServer).cmd \in K
  BY DEF NextCommand, TypeOK
<1>2. /\ Head(toServer) \in Command /\ toServer' \in Seq(Command)
      /\ Elements(toServer) = {Head(toServer)} \cup Elements(toServer')
  BY <1>1, ElementsTail
<1>3. InOrder(toServer') /\ \A m \in Elements(toServer') : Before(Head(toServer), m)
  BY <1>1, SortedTail DEF OrderInv
<1>4. \A m \in Elements(toServer') : m \in Command
  BY <1>2, ElementsType
<1>5. Head(toServer).call \in Nat
  BY <1>2 DEF Command
<1>6. ASSUME Head(toServer).cmd \in Kinds
      PROVE  /\ Head(toServer) \notin Elements(toServer') \cup Elements(queue)
             /\ running # Nothing => Head(toServer) # running
  <2>1. Head(toServer) \notin Elements(toServer')
    BY <1>3, <1>5, <1>6 DEF Before
  <2> QED BY <1>2, <1>5, <1>6, <2>1 DEF OrderInv
<1> QED BY <1>1, <1>2, <1>3, <1>4, <1>6

\* What the kinds of commands are.
LEMMA KindFacts ==
  /\ Kinds = {"GET", "SET", "EXEC"}
  /\ Nothing.cmd = "POLL" /\ Poll.cmd = "POLL" /\ Nothing.cmd \notin Kinds /\ Poll.cmd \notin Kinds
  /\ \A n : Kill(n).cmd = "KILL" /\ Kill(n).cmd \notin Kinds /\ Kill(n).id = n
BY DEF Kinds, Nothing, Poll, Kill

-----------------------------------------------------------------------------
(* The steps of the server, by what they do to the requests that may run.   *)

\* The KILLs that matter stay on their way.
KillsKept ==
  \A m \in Live' : Kill(m.call) \in Elements(toServer) => Kill(m.call) \in Elements(toServer')

RunStep ==
  /\ alive /\ UNCHANGED alive /\ KillsKept
  /\ \E m \in Live :
       /\ Live' = Live \ {m} /\ Ran(m) /\ m \in Command
       /\ \A x \in Live : x.call < m.call => Decoded(x.call)

RefuseStep ==
  /\ alive /\ UNCHANGED <<alive, executed>> /\ KillsKept
  /\ \E m \in Live, s \in {"REJECTED", "KILLED"} :
       /\ Live' = Live \ {m} /\ m \in Command
       /\ toClient' = Append(toClient, Reply(s, m.id, 0))
       /\ s = "KILLED" => Over(m.call)

NoticeStep ==
  /\ alive /\ UNCHANGED <<alive, executed>> /\ KillsKept
  /\ Live' = Live
  /\ \/ UNCHANGED toClient
     \/ \E id \in Nat, s \in {"SIGNAL", "CMDLINEON", "CMDLINEOFF"} :
          toClient' = Append(toClient, Reply(s, id, 0))

CrashStep ==
  /\ UNCHANGED <<executed, toClient>>
  /\ Live' = {} /\ toServer' = <<>> /\ alive' = FALSE

ServerStep == RunStep \/ RefuseStep \/ NoticeStep \/ CrashStep

\* KILLs that are not read by a step are kept.
LEMMA HeadKept ==
  ASSUME TypeOK, OrderInv, NEW K, NextCommand(K),
         Head(toServer).cmd # "KILL" \/ \A m \in Live' : m.call # Head(toServer).id
  PROVE  KillsKept
<1>1. Elements(toServer) = {Head(toServer)} \cup Elements(toServer')
  BY TakeHead
<1>2. \A n : Kill(n).cmd = "KILL" /\ Kill(n).id = n
  BY KindFacts
<1>3. ASSUME NEW m \in Live', Kill(m.call) \in Elements(toServer)
      PROVE  Kill(m.call) \in Elements(toServer')
  BY <1>1, <1>2, <1>3
<1> QED BY <1>3 DEF KillsKept

\* A GET is answered at once: nothing older is there to be overtaken, but for
\* requests that nobody cancels.
LEMMA GetRuns == ASSUME TypeOK, OrderInv, LiveInv, SrvGet PROVE RunStep
<1> DEFINE h == Head(toServer)
<1>1. NextCommand({"GET"}) /\ Ran(h) /\ UNCHANGED <<queue, running, alive>> /\ alive
  BY DEF SrvGet, NextCommand
<1>2. /\ h \in Command /\ h.cmd = "GET" /\ h.cmd \in Kinds
      /\ Elements(toServer) = {h} \cup Elements(toServer')
      /\ \A m \in Elements(toServer') : m \in Command /\ Before(h, m)
      /\ h \notin Elements(toServer') \cup Elements(queue)
  BY <1>1, TakeHead DEF Kinds
<1>3. h # running
  BY <1>1, <1>2, KindFacts DEF OrderInv
<1>4. h \in Live /\ Live' = Live \ {h}
  BY <1>1, <1>2, <1>3 DEF Live
<1>5. KillsKept
  BY <1>1, <1>2, HeadKept
<1>6. ASSUME NEW x \in Live, x.call < h.call PROVE Decoded(x.call)
  <2>1. x.cmd \in Kinds /\ x \in Command /\ x.call \in Nat /\ h.call \in Nat /\ calls \in Nat
    BY <1>2, LiveType, CommandParts DEF TypeOK
  <2>2. x \notin Elements(toServer)
    BY <1>2, <1>6, <2>1 DEF Before
  <2>3. x.cmd # "GET"
    BY <2>1, <2>2, KindFacts DEF Live, OrderInv
  <2>4. ~(holder # NoCaller /\ x.call = calls)
    <3>1. Out(h.call)
      BY <1>4 DEF OrderInv
    <3> QED BY <1>6, <2>1, <3>1 DEF Out
  <2>5. Kill(x.call) \notin Elements(toServer)
    BY <1>2, <1>6, <2>1, KindFacts DEF Before
  <2> QED BY <2>3, <2>4, <2>5 DEF LiveInv, LiveFacts, Watched
<1> QED BY <1>1, <1>2, <1>4, <1>5, <1>6 DEF RunStep

\* The head of the queue runs, when nothing is running: it is the oldest.
LEMMA SetRuns == ASSUME TypeOK, OrderInv, SrvPollSet PROVE RunStep
<1> DEFINE q == Head(queue)
<1>1. /\ NextCommand({"POLL"}) /\ running = Nothing /\ queue # <<>> /\ q.cmd = "SET"
      /\ queue' = Tail(queue) /\ Ran(q) /\ UNCHANGED <<running, alive>> /\ alive
  BY DEF SrvPollSet, NextCommand
<1>2. /\ queue \in Seq(Command) /\ q \in Command /\ Elements(queue) = {q} \cup Elements(queue')
      /\ \A m \in Elements(queue') : m \in Command /\ Before(q, m)
  BY <1>1, ElementsTail, ElementsType, SortedTail DEF TypeOK, OrderInv
<1>3. /\ Head(toServer).cmd = "POLL" /\ Head(toServer).cmd \notin Kinds
      /\ Elements(toServer) = {Head(toServer)} \cup Elements(toServer')
      /\ \A m \in Elements(toServer') : m \in Command
  BY <1>1, TakeHead DEF Kinds
<1>4. /\ \A m \in Elements(queue') : m.cmd \in Kinds => q.call < m.call
      /\ \A m \in Elements(toServer) : m.cmd \in Kinds => q.call < m.call
      /\ q.cmd \in Kinds /\ q.call \in Nat
  BY <1>1, <1>2, KindFacts DEF Before, OrderInv, Command
<1>5. q \notin Elements(queue') \cup Elements(toServer) \cup {running}
  BY <1>1, <1>4, KindFacts
<1>6. q \in Live /\ Live' = Live \ {q}
  BY <1>1, <1>2, <1>3, <1>4, <1>5 DEF Live
<1>7. KillsKept
  BY <1>1, <1>3, HeadKept
<1>8. ASSUME NEW x \in Live, x.call < q.call PROVE FALSE
  <2>1. x.cmd \in Kinds /\ x \in Command /\ x.call \in Nat
    BY LiveType
  <2> QED BY <1>1, <1>2, <1>4, <1>8, <2>1, KindFacts DEF Live
<1> QED BY <1>1, <1>2, <1>6, <1>7, <1>8 DEF RunStep

\* What is running is older than all that waits.
LEMMA ExecRuns == ASSUME TypeOK, OrderInv, SrvExecEnds PROVE RunStep
<1>1. /\ alive /\ running # Nothing /\ Ran(running) /\ running' = Nothing
      /\ UNCHANGED <<toServer, queue, alive>>
  BY DEF SrvExecEnds
<1>2. /\ running \in Command /\ running.cmd \in Kinds /\ running.call \in Nat
      /\ \A m \in Elements(queue) \cup Elements(toServer) :
           m.cmd \in Kinds => running.call < m.call
  BY <1>1, KindFacts DEF TypeOK, OrderInv, Command
<1>3. running \in Live /\ Live' = Live \ {running}
  BY <1>1, <1>2, KindFacts DEF Live
<1>4. KillsKept
  BY <1>1 DEF KillsKept
<1>5. ASSUME NEW x \in Live, x.call < running.call PROVE FALSE
  <2>1. x.cmd \in Kinds /\ x \in Command /\ x.call \in Nat
    BY LiveType
  <2> QED BY <1>2, <1>5, <2>1 DEF Live
<1> QED BY <1>1, <1>2, <1>3, <1>4, <1>5 DEF RunStep

\* REJECTED: the request read will never run.
LEMMA RejectRefuses == ASSUME TypeOK, OrderInv, SrvReject PROVE RefuseStep
<1> DEFINE h == Head(toServer)
<1>1. /\ NextCommand(Kinds) /\ UNCHANGED <<queue, running, alive, executed>> /\ alive
      /\ toClient' = Append(toClient, Reply("REJECTED", h.id, 0))
  BY DEF SrvReject, NextCommand, serverVars
<1>2. /\ h \in Command /\ h.cmd \in Kinds
      /\ Elements(toServer) = {h} \cup Elements(toServer')
      /\ h \notin Elements(toServer') \cup Elements(queue)
      /\ running # Nothing => h # running
  BY <1>1, TakeHead
<1>3. h # running
  BY <1>2, KindFacts
<1>4. h \in Live /\ Live' = Live \ {h}
  BY <1>1, <1>2, <1>3 DEF Live
<1>5. KillsKept
  BY <1>1, <1>2, KindFacts, HeadKept
<1> QED BY <1>1, <1>2, <1>4, <1>5 DEF RefuseStep

\* KILL takes out of the queue the one request with its id.
LEMMA KillQueuedRefuses == ASSUME TypeOK, OrderInv, SrvKillQueued PROVE RefuseStep
<1> DEFINE h == Head(toServer)
<1>1. /\ NextCommand({"KILL"}) /\ UNCHANGED <<running, alive, executed>> /\ alive
      /\ toClient' = Append(toClient, Reply("KILLED", h.id, 0))
  BY DEF SrvKillQueued, NextCommand
<1>2. PICK k \in 1..Len(queue) :
        /\ queue[k].id = h.id
        /\ queue' = SubSeq(queue, 1, k - 1) \o SubSeq(queue, k + 1, Len(queue))
  BY DEF SrvKillQueued
<1>3. /\ h \in Command /\ h.cmd = "KILL" /\ h.cmd \notin Kinds
      /\ Elements(toServer) = {h} \cup Elements(toServer')
  BY <1>1, TakeHead DEF Kinds
<1>4. queue \in Seq(Command) /\ InOrder(queue) /\ \A m \in Elements(queue) : m.cmd \in Kinds
  BY DEF TypeOK, OrderInv, Kinds
<1>5. Elements(queue') = Elements(queue) \ {queue[k]}
  BY <1>2, <1>4, CutQueue
<1>6. queue[k] \in Elements(queue)
  BY DEF Elements
<1>7. queue[k] \in Live
  BY <1>4, <1>6 DEF Live
<1>8. queue[k] \notin Elements(toServer) /\ (running # Nothing => queue[k] # running)
  <2>1. queue[k].call \in Nat /\ queue[k].cmd \in Kinds
    BY <1>7, LiveType
  <2> QED BY <1>6, <2>1 DEF OrderInv
<1>9. Live' = Live \ {queue[k]}
  BY <1>1, <1>3, <1>5, <1>8, KindFacts DEF Live
<1>10. queue[k].id = queue[k].call
  BY <1>7 DEF OrderInv
<1>11. \A m \in Live' : m.call # h.id
  BY <1>2, <1>7, <1>9, <1>10, UniqueLive
<1>12. KillsKept
  BY <1>1, <1>11, HeadKept
<1>13. Over(queue[k].call)
  BY <1>2, <1>3, <1>10 DEF OrderInv
<1>14. toClient' = Append(toClient, Reply("KILLED", queue[k].id, 0)) /\ queue[k] \in Command
  BY <1>1, <1>2, <1>7, LiveType
<1> QED BY <1>1, <1>7, <1>9, <1>12, <1>13, <1>14 DEF RefuseStep

\* KILL ends the one request that is running.
LEMMA KillRunningRefuses == ASSUME TypeOK, OrderInv, SrvKillRunning PROVE RefuseStep
<1> DEFINE h == Head(toServer)
<1>1. /\ NextCommand({"KILL"}) /\ UNCHANGED <<queue, alive, executed>> /\ alive
      /\ toClient' = Append(toClient, Reply("KILLED", h.id, 0))
      /\ running # Nothing /\ running.id = h.id /\ running' = Nothing
  BY DEF SrvKillRunning, NextCommand
<1>2. /\ h \in Command /\ h.cmd = "KILL" /\ h.cmd \notin Kinds
      /\ Elements(toServer) = {h} \cup Elements(toServer')
  BY <1>1, TakeHead DEF Kinds
<1>3. running \in Live
  BY <1>1, KindFacts DEF OrderInv, Live
<1>4. running.call \in Nat /\ running \in Command /\ running.cmd \in Kinds
  BY <1>3, LiveType
<1>5. running \notin Elements(toServer) \cup Elements(queue)
  BY <1>1, <1>4 DEF OrderInv
<1>6. Live' = Live \ {running}
  BY <1>1, <1>2, <1>5, KindFacts DEF Live
<1>7. running.id = running.call
  BY <1>3 DEF OrderInv
<1>8. \A m \in Live' : m.call # h.id
  BY <1>1, <1>3, <1>6, <1>7, UniqueLive
<1>9. KillsKept
  BY <1>1, <1>8, HeadKept
<1>10. Over(running.call)
  BY <1>1, <1>2, <1>7 DEF OrderInv
<1>11. toClient' = Append(toClient, Reply("KILLED", running.id, 0))
  BY <1>1
<1> QED BY <1>1, <1>3, <1>4, <1>6, <1>9, <1>10, <1>11 DEF RefuseStep

\* The other steps move requests along and run none of them.
LEMMA OthersNotice ==
  ASSUME TypeOK, OrderInv,
         \/ SrvEnqueue \/ SrvPollBusy \/ SrvPollIdle \/ SrvPollExec \/ SrvKillLate
         \/ SrvCmdline
  PROVE  NoticeStep
<1> DEFINE h == Head(toServer)
<1>1. CASE SrvEnqueue
  <2>1. /\ NextCommand({"SET", "EXEC"}) /\ queue' = Append(queue, h)
        /\ UNCHANGED <<toClient, running, alive, executed>> /\ alive
    BY <1>1 DEF SrvEnqueue, NextCommand
  <2>2. /\ h \in Command /\ h.cmd \in {"SET", "EXEC"}
        /\ Elements(toServer) = {h} \cup Elements(toServer')
    BY <2>1, TakeHead
  <2>3. queue \in Seq(Command) /\ h.cmd # "KILL"
    BY <2>2 DEF TypeOK
  <2>4. Elements(queue') = Elements(queue) \cup {h}
    BY <2>1, <2>2, <2>3, ElementsAppend
  <2>5. Live' = Live
    BY <2>1, <2>2, <2>4 DEF Live
  <2>6. KillsKept
    BY <2>1, <2>3, HeadKept
  <2> QED BY <2>1, <2>5, <2>6 DEF NoticeStep
<1>2. CASE SrvPollBusy \/ SrvPollIdle
  <2>1. /\ NextCommand({"POLL"}) /\ UNCHANGED <<queue, running, alive, executed>> /\ alive
        /\ toClient' = toClient \/ toClient' = Append(toClient, Reply("SIGNAL", running.id, 0))
    BY <1>2 DEF SrvPollBusy, SrvPollIdle, NextCommand, serverVars
  <2>2. /\ h.cmd = "POLL" /\ h.cmd \notin Kinds
        /\ Elements(toServer) = {h} \cup Elements(toServer')
    BY <2>1, TakeHead DEF Kinds
  <2>3. Live' = Live
    BY <2>1, <2>2 DEF Live
  <2>4. KillsKept
    BY <2>1, <2>2, HeadKept
  <2>5. running.id \in Nat
    BY CommandParts DEF TypeOK
  <2> QED BY <2>1, <2>3, <2>4, <2>5 DEF NoticeStep
<1>3. CASE SrvPollExec
  <2>1. /\ NextCommand({"POLL"}) /\ running = Nothing /\ queue # <<>>
        /\ queue' = Tail(queue) /\ running' = Head(queue)
        /\ UNCHANGED <<toClient, alive, executed>> /\ alive
    BY <1>3 DEF SrvPollExec, NextCommand
  <2>2. /\ h.cmd = "POLL" /\ h.cmd \notin Kinds
        /\ Elements(toServer) = {h} \cup Elements(toServer')
    BY <2>1, TakeHead DEF Kinds
  <2>3. Elements(queue) = {running'} \cup Elements(queue')
    <3>1. queue \in Seq(Command)
      BY DEF TypeOK
    <3> QED BY <2>1, <3>1, ElementsTail
  <2>4. Live' = Live
    BY <2>1, <2>2, <2>3, KindFacts DEF Live
  <2>5. KillsKept
    BY <2>1, <2>2, HeadKept
  <2> QED BY <2>1, <2>4, <2>5 DEF NoticeStep
<1>4. CASE SrvKillLate
  <2>1. /\ NextCommand({"KILL"}) /\ UNCHANGED <<toClient, queue, running, alive, executed>>
        /\ alive /\ (running = Nothing \/ running.id # h.id)
        /\ \A i \in 1..Len(queue) : queue[i].id # h.id
    BY <1>4 DEF SrvKillLate, NextCommand, serverVars
  <2>2. /\ h.cmd = "KILL" /\ h.cmd \notin Kinds /\ h.id \in Nat
        /\ Elements(toServer) = {h} \cup Elements(toServer')
        /\ \A m \in Elements(toServer') : Before(h, m)
    BY <2>1, TakeHead, CommandParts DEF Kinds
  <2>3. Live' = Live
    BY <2>1, <2>2 DEF Live
  <2>4. ASSUME NEW m \in Live, m.call = h.id PROVE FALSE
    <3>1. m.cmd \in Kinds /\ m.call \in Nat /\ m.id = m.call
      BY LiveType DEF OrderInv
    <3>2. m \notin Elements(toServer')
      BY <2>2, <2>4, <3>1 DEF Before
    <3>3. m \notin Elements(queue)
      BY <2>1, <2>4, <3>1 DEF Elements
    <3> QED BY <2>1, <2>2, <2>4, <3>1, <3>2, <3>3, KindFacts DEF Live
  <2>5. KillsKept
    BY <2>1, <2>3, <2>4, HeadKept
  <2> QED BY <2>1, <2>3, <2>5 DEF NoticeStep
<1>5. CASE SrvCmdline
  <2>1. PICK s \in {"CMDLINEON", "CMDLINEOFF"} :
          toClient' = Append(toClient, Reply(s, 0, 0))
    BY <1>5, Zenon DEF SrvCmdline
  <2>2. UNCHANGED <<toServer, queue, running, alive, executed>> /\ alive
    BY <1>5 DEF SrvCmdline
  <2>3. Live' = Live /\ KillsKept
    BY <2>2 DEF Live, KillsKept
  <2> QED BY <2>1, <2>2, <2>3 DEF NoticeStep
<1> QED BY <1>1, <1>2, <1>3, <1>4, <1>5

\* Every step of the server is one of the four.
LEMMA ServerSteps ==
  ASSUME TypeOK, OrderInv, LiveInv, Server
  PROVE  ServerStep /\ UNCHANGED clientVars
<1>1. CASE SrvCrash
  <2>1. toServer' = <<>> /\ queue' = <<>> /\ running' = Nothing
    BY <1>1 DEF SrvCrash
  <2>2. Live' = {}
    BY <2>1, ElementsEmpty, KindFacts DEF Live
  <2> QED BY <1>1, <2>1, <2>2 DEF SrvCrash, ServerStep, CrashStep
<1>2. CASE SrvGet \/ SrvPollSet \/ SrvExecEnds
  BY <1>2, GetRuns, SetRuns, ExecRuns DEF ServerStep, SrvGet, SrvPollSet, SrvExecEnds
<1>3. CASE SrvReject \/ SrvKillQueued \/ SrvKillRunning
  BY <1>3, RejectRefuses, KillQueuedRefuses, KillRunningRefuses
     DEF ServerStep, SrvReject, SrvKillQueued, SrvKillRunning
<1>4. CASE \/ SrvEnqueue \/ SrvPollBusy \/ SrvPollIdle \/ SrvPollExec \/ SrvKillLate
           \/ SrvCmdline
  BY <1>4, OthersNotice
     DEF ServerStep, SrvEnqueue, SrvPollBusy, SrvPollIdle, SrvPollExec, SrvKillLate,
         SrvCmdline
<1> QED BY <1>1, <1>2, <1>3, <1>4 DEF Server

\* The order stands under every step of the server.
LEMMA ServerOrder == ASSUME TypeOK, OrderInv, LiveInv, Server PROVE OrderInv'
<1> DEFINE h == Head(toServer)
<1>1. UNCHANGED clientVars /\ ServerStep
  BY ServerSteps
<1>2. \A n : (Out(n)' <=> Out(n)) /\ (Over(n)' <=> Over(n))
  BY <1>1 DEF clientVars, Out, Over
<1>3. Live' \subseteq Live
  BY <1>1 DEF ServerStep, RunStep, RefuseStep, NoticeStep, CrashStep
<1>4. \A m \in Live' : Out(m.call)' /\ m.id = m.call
  BY <1>2, <1>3 DEF OrderInv
<1>5. ASSUME \/ /\ UNCHANGED toServer
             \/ \E K : NextCommand(K)
      PROVE  /\ InOrder(toServer') /\ Elements(toServer') \subseteq Elements(toServer)
             /\ \A m \in Elements(toServer)' :
                  /\ m.cmd \in Kinds => Out(m.call)'
                  /\ m.cmd = "KILL" => Over(m.id)'
  <2>1. InOrder(toServer') /\ Elements(toServer') \subseteq Elements(toServer)
    BY <1>5, TakeHead DEF OrderInv
  <2> QED BY <1>2, <2>1 DEF OrderInv
<1>6. CASE SrvGet \/ SrvReject \/ SrvPollBusy \/ SrvPollIdle \/ SrvKillLate \/ SrvCmdline
  <2>1. UNCHANGED <<queue, running>> /\ (UNCHANGED toServer \/ \E K : NextCommand(K))
    BY <1>6 DEF SrvGet, SrvReject, SrvPollBusy, SrvPollIdle, SrvKillLate, SrvCmdline, serverVars
  <2> QED BY <1>4, <1>5, <2>1 DEF OrderInv
<1>7. CASE SrvEnqueue
  <2>1. /\ NextCommand({"SET", "EXEC"}) /\ queue' = Append(queue, h) /\ UNCHANGED running
    BY <1>7 DEF SrvEnqueue
  <2>2. /\ h \in Command /\ h.cmd \in {"SET", "EXEC"} /\ h.cmd \in Kinds /\ h.call \in Nat
        /\ h \in Elements(toServer)
        /\ \A m \in Elements(toServer') : Before(h, m)
    BY <2>1, TakeHead, CommandParts DEF Kinds
  <2>3. queue \in Seq(Command)
    BY DEF TypeOK
  <2>4. \A m \in Elements(queue) : Before(m, h)
    BY <2>2, KindFacts DEF OrderInv, Before
  <2>5. InOrder(queue') /\ Elements(queue') = Elements(queue) \cup {h}
    BY <2>1, <2>2, <2>3, <2>4, ElementsAppend, SortedAppend DEF OrderInv
  <2>6. \A a \in Elements(queue'), b \in Elements(toServer') : b.cmd \in Kinds => a.call < b.call
    BY <1>5, <2>1, <2>2, <2>5 DEF OrderInv, Before
  <2>7. running # Nothing => /\ running.cmd = "EXEC"
          /\ \A b \in Elements(queue') \cup Elements(toServer') :
               b.cmd \in Kinds => running.call < b.call
    BY <1>5, <2>1, <2>2, <2>5 DEF OrderInv
  <2> QED BY <1>4, <1>5, <2>1, <2>2, <2>5, <2>6, <2>7 DEF OrderInv
<1>8. ASSUME queue # <<>>
      PROVE  /\ Head(queue) \in Elements(queue) /\ Head(queue).cmd \in {"SET", "EXEC"}
             /\ Elements(Tail(queue)) \subseteq Elements(queue)
             /\ InOrder(Tail(queue))
             /\ \A m \in Elements(Tail(queue)) : m.cmd \in Kinds => Head(queue).call < m.call
  <2>1. queue \in Seq(Command)
    BY DEF TypeOK
  <2>2. Elements(queue) = {Head(queue)} \cup Elements(Tail(queue))
    BY <1>8, <2>1, ElementsTail
  <2>3. InOrder(Tail(queue)) /\ \A m \in Elements(Tail(queue)) : Before(Head(queue), m)
    BY <1>8, <2>1, SortedTail DEF OrderInv
  <2> QED BY <2>2, <2>3, KindFacts DEF OrderInv, Before
<1>9. CASE SrvPollSet
  <2>1. /\ NextCommand({"POLL"}) /\ queue # <<>> /\ queue' = Tail(queue) /\ UNCHANGED running
    BY <1>9 DEF SrvPollSet
  <2> QED BY <1>4, <1>5, <1>8, <2>1 DEF OrderInv
<1>10. CASE SrvPollExec
  <2>1. /\ NextCommand({"POLL"}) /\ queue # <<>> /\ queue' = Tail(queue)
        /\ running' = Head(queue) /\ Head(queue).cmd = "EXEC"
    BY <1>10 DEF SrvPollExec
  <2>2. \A b \in Elements(queue') \cup Elements(toServer') :
          b.cmd \in Kinds => running'.call < b.call
    BY <1>5, <1>8, <2>1 DEF OrderInv
  <2> QED BY <1>4, <1>5, <1>8, <2>1, <2>2 DEF OrderInv
<1>11. CASE SrvExecEnds
  <2>1. UNCHANGED <<toServer, queue>> /\ running' = Nothing
    BY <1>11 DEF SrvExecEnds
  <2> QED BY <1>4, <1>5, <2>1 DEF OrderInv, Nothing
<1>12. CASE SrvKillQueued
  <2>1. NextCommand({"KILL"}) /\ UNCHANGED running
    BY <1>12 DEF SrvKillQueued
  <2>2. PICK k \in 1..Len(queue) :
          queue' = SubSeq(queue, 1, k - 1) \o SubSeq(queue, k + 1, Len(queue))
    BY <1>12 DEF SrvKillQueued
  <2>3. queue \in Seq(Command) /\ InOrder(queue) /\ \A m \in Elements(queue) : m.cmd \in Kinds
    BY DEF TypeOK, OrderInv, Kinds
  <2>4. InOrder(queue') /\ Elements(queue') \subseteq Elements(queue)
    BY <2>2, <2>3, CutQueue
  <2> QED BY <1>4, <1>5, <2>1, <2>4 DEF OrderInv
<1>13. CASE SrvKillRunning
  <2>1. NextCommand({"KILL"}) /\ running' = Nothing /\ UNCHANGED queue
    BY <1>13 DEF SrvKillRunning
  <2> QED BY <1>4, <1>5, <2>1 DEF OrderInv, Nothing
<1>14. CASE SrvCrash
  <2>1. toServer' = <<>> /\ queue' = <<>> /\ running' = Nothing
    BY <1>14 DEF SrvCrash
  <2>2. InOrder(<<>>)
    BY DEF InOrder
  <2> QED BY <1>4, <2>1, <2>2, ElementsEmpty DEF OrderInv, Nothing
<1> QED
  BY <1>6, <1>7, <1>9, <1>10, <1>11, <1>12, <1>13, <1>14 DEF Server

-----------------------------------------------------------------------------
(* The mutex.                                                              *)

\* What a client's step is for the requests that may run: nothing, the start
\* of a call, a command written, or the end of a call.
QuietStep ==
  /\ UNCHANGED <<calls, req, holder, returned>> /\ UNCHANGED serverVars
  /\ UNCHANGED toServer \/ (toServer' = Append(toServer, Poll) /\ alive)
  /\ \A c \in Callers : /\ pc'[c] \in Holding <=> pc[c] \in Holding
                        /\ pc'[c] = "send" <=> pc[c] = "send"
  /\ UNCHANGED toClient \/ (toClient # <<>> /\ toClient' = Tail(toClient))

BeginStep == \E c \in Callers, k \in Kinds : Begin(c, k)

SendStep == \E c \in Callers : Send(c)

\* A call ends with an answer of its own, or with a failure: the connection is
\* gone, the answer does not decode, or time is up, for a GET or after a KILL.
EndStep(c, out, d) ==
  /\ pc[c] \in Holding /\ Return(c, out, d) /\ UNCHANGED serverVars
  /\ UNCHANGED toClient \/ (toClient # <<>> /\ toClient' = Tail(toClient))
  /\ \/ /\ pc[c] # "send" /\ UNCHANGED toServer
        /\ toClient # <<>> /\ Answers(c, Head(toClient))
        /\ out = OutcomeOf(Head(toClient).res) /\ d = Head(toClient).data
     \/ out = "io" /\ d = 0 /\ ~alive /\ UNCHANGED toServer
     \/ out = "decode" /\ d = 0 /\ UNCHANGED toServer
     \/ out = "timeout" /\ d = 0 /\ req[c].kind = "GET" /\ UNCHANGED toServer
     \/ /\ out = "timeout" /\ d = 0 /\ pc[c] = "top" /\ alive
        /\ toServer' = Append(toServer, Kill(req[c].id))

\* A task that only moves on in its request leaves the others alone.
LEMMA GotoQuiet ==
  ASSUME TypeOK, NEW c \in Callers, NEW label \in Holding \ {"send"}, Goto(c, label),
         pc[c] \in Holding \ {"send"}, UNCHANGED serverVars,
         UNCHANGED toServer \/ (toServer' = Append(toServer, Poll) /\ alive),
         UNCHANGED toClient \/ (toClient # <<>> /\ toClient' = Tail(toClient))
  PROVE  QuietStep
<1>1. pc \in [Callers -> Holding \cup {"idle", "queued"}]
  BY DEF TypeOK
<1>2. pc' = [pc EXCEPT ![c] = label] /\ UNCHANGED <<calls, req, holder, returned>>
  BY DEF Goto
<1>3. \A d \in Callers : /\ pc'[d] \in Holding <=> pc[d] \in Holding
                         /\ pc'[d] = "send" <=> pc[d] = "send"
  BY <1>1, <1>2
<1> QED BY <1>2, <1>3 DEF QuietStep

\* Every step of a handler is one of the four kinds.
LEMMA ClientKinds ==
  ASSUME TypeOK, MutexInv, NEW c \in Callers, Call(c) \/ ClientStep(c)
  PROVE  QuietStep \/ BeginStep \/ SendStep
           \/ \E out \in Outcomes, d \in Nat : EndStep(c, out, d)
<1>1. CASE Call(c)
  <2>1. pc \in [Callers -> Holding \cup {"idle", "queued"}]
    BY DEF TypeOK
  <2>2. /\ pc[c] = "idle" /\ pc' = [pc EXCEPT ![c] = "queued"]
        /\ UNCHANGED <<calls, req, holder, returned, toServer, toClient>>
        /\ UNCHANGED serverVars
    BY <1>1 DEF Call, wireVars
  <2>3. \A d \in Callers : /\ pc'[d] \in Holding <=> pc[d] \in Holding
                           /\ pc'[d] = "send" <=> pc[d] = "send"
    BY <2>1, <2>2 DEF Holding
  <2> QED BY <2>2, <2>3 DEF QuietStep
<1>2. CASE \E k \in Kinds : Begin(c, k)
  BY <1>2 DEF BeginStep
<1>3. CASE Send(c)
  BY <1>3 DEF SendStep
<1>4. CASE SendFails(c)
  <2>1. EndStep(c, "io", 0)
    BY <1>4 DEF SendFails, EndStep, Holding, wireVars
  <2> QED BY <2>1 DEF Outcomes
<1>5. CASE RecvAnswer(c)
  <2>1. EndStep(c, OutcomeOf(Head(toClient).res), Head(toClient).data)
    BY <1>5 DEF RecvAnswer, EndStep, Holding, Receiving
  <2>2. OutcomeOf(Head(toClient).res) \in Outcomes /\ Head(toClient).data \in Nat
    BY <1>5, HeadTailClient DEF RecvAnswer, OutcomeOf, Outcomes, Response
  <2> QED BY <2>1, <2>2
<1>6. CASE RecvSkipped(c)
  <2>1. pc[c] \in Holding \ {"send"}
        /\ (IF pc[c] = "wait" THEN "wait" ELSE "top") \in Holding \ {"send"}
    BY <1>6 DEF RecvSkipped, Receiving, Holding
  <2> QED BY <1>6, <2>1, GotoQuiet DEF RecvSkipped
<1>7. CASE RecvMalformed(c)
  <2>1. UNCHANGED toClient \/ (toClient # <<>> /\ toClient' = Tail(toClient))
    BY <1>7 DEF RecvMalformed
  <2>2. pc[c] \in Holding /\ Return(c, "decode", 0) /\ UNCHANGED toServer /\ UNCHANGED serverVars
    BY <1>7 DEF RecvMalformed, Holding, Receiving
  <2>3. EndStep(c, "decode", 0)
    BY <2>1, <2>2 DEF EndStep
  <2> QED BY <2>3 DEF Outcomes
<1>8. CASE RecvSilence(c)
  <2>1. pc[c] \in Receiving /\ UNCHANGED <<toServer, toClient>> /\ UNCHANGED serverVars
    BY <1>8 DEF RecvSilence, wireVars
  <2>2. CASE pc[c] = "wait"
    <3>1. Return(c, "timeout", 0) /\ req[c].kind = "GET"
      BY <1>8, <2>2 DEF RecvSilence, MutexInv
    <3>2. EndStep(c, "timeout", 0)
      BY <2>1, <3>1 DEF EndStep, Holding, Receiving
    <3> QED BY <3>2 DEF Outcomes
  <2>3. CASE pc[c] # "wait"
    <3>1. Goto(c, "top") /\ "top" \in Holding \ {"send"} /\ pc[c] \in Holding \ {"send"}
      BY <1>8, <2>1, <2>3 DEF RecvSilence, Holding, Receiving
    <3> QED BY <2>1, <3>1, GotoQuiet
  <2> QED BY <2>2, <2>3
<1>9. CASE RecvClosed(c)
  <2>1. EndStep(c, "io", 0)
    BY <1>9 DEF RecvClosed, EndStep, Holding, Receiving, wireVars
  <2> QED BY <2>1 DEF Outcomes
<1>10. CASE SendPoll(c)
  <2>1. pc \in [Callers -> Holding \cup {"idle", "queued"}]
    BY DEF TypeOK
  <2>2. /\ pc[c] = "top" /\ pc' = [pc EXCEPT ![c] = "poll"] /\ alive
        /\ UNCHANGED <<calls, req, holder, returned, toClient>> /\ UNCHANGED serverVars
        /\ toServer' = Append(toServer, Poll)
    BY <1>10 DEF SendPoll
  <2>3. \A d \in Callers : /\ pc'[d] \in Holding <=> pc[d] \in Holding
                           /\ pc'[d] = "send" <=> pc[d] = "send"
    BY <2>1, <2>2 DEF Holding
  <2> QED BY <2>2, <2>3 DEF QuietStep
<1>11. CASE GiveUp(c)
  <2>1. EndStep(c, "timeout", 0)
    BY <1>11 DEF GiveUp, EndStep, Holding
  <2> QED BY <2>1 DEF Outcomes
<1> QED
  BY <1>1, <1>2, <1>3, <1>4, <1>5, <1>6, <1>7, <1>8, <1>9, <1>10, <1>11 DEF ClientStep

\* The handshake only reads frames.
LEMMA HandshakeQuiet == ASSUME Handshake PROVE QuietStep /\ UNCHANGED <<pc, waiters, toServer>>
<1>1. /\ UNCHANGED <<calls, req, holder, returned, pc, waiters, toServer>>
      /\ UNCHANGED toClient \/ (toClient # <<>> /\ toClient' = Tail(toClient))
  BY DEF Handshake, HandshakeRecv, HandshakeSilence, HandshakeClosed, wireVars
<1>2. UNCHANGED serverVars
  BY DEF Handshake, HandshakeRecv, HandshakeSilence, HandshakeClosed
<1> QED BY <1>1, <1>2 DEF QuietStep

\* What has been sent, has ended, or does not decode, stays so.
LEMMA QuietKeeps ==
  ASSUME QuietStep
  PROVE  \A n : (Out(n)' <=> Out(n)) /\ (Over(n)' <=> Over(n)) /\ (Decoded(n)' <=> Decoded(n))
BY DEF QuietStep, Out, Over, Decoded

\* The next call is later than all that were on the wire or have ended.
LEMMA BeginKeeps ==
  ASSUME TypeOK, NEW c \in Callers, NEW k \in Kinds, Begin(c, k)
  PROVE  /\ \A n : Out(n) => Out(n)' /\ n < calls'
         /\ \A n : Over(n) => Over(n)' /\ n < calls'
         /\ calls' = calls + 1 /\ calls \in Nat
BY DEF TypeOK, Begin, Out, Over

\* The call that is sent is the last one, and was not on the wire.
LEMMA SendKeeps ==
  ASSUME TypeOK, MutexInv, NEW c \in Callers, Send(c)
  PROVE  /\ \A n : (Out(n) => Out(n)' /\ n < calls) /\ (Over(n)' <=> Over(n))
         /\ Out(calls)' /\ calls' = calls /\ req[c].call = calls /\ holder = c /\ holder' = c
<1>1. /\ pc[c] = "send" /\ pc \in [Callers -> Holding \cup {"idle", "queued"}]
      /\ UNCHANGED <<calls, holder, req>> /\ calls \in Nat
      /\ pc' = [pc EXCEPT ![c] = IF req[c].kind = "GET" THEN "wait" ELSE "first"]
  BY DEF Send, Goto, TypeOK
<1>2. holder = c /\ req[c].call = calls
  BY <1>1 DEF MutexInv, Holding
<1>3. \A d \in Callers : d # c => pc[d] # "send"
  BY <1>2 DEF MutexInv, Holding
<1>4. \A d \in Callers : pc'[d] # "send"
  BY <1>1, <1>3
<1> QED BY <1>1, <1>2, <1>4 DEF Out, Over

\* When a call ends, every call so far has ended.
LEMMA EndKeeps ==
  ASSUME TypeOK, MutexInv, NEW c \in Callers, pc[c] \in Holding, NEW out, NEW d,
         Return(c, out, d)
  PROVE  /\ \A n : (Out(n) => Out(n)') /\ (Over(n) => Over(n)') /\ (Decoded(n) => Decoded(n)')
         /\ holder = c /\ holder' = NoCaller /\ calls' = calls /\ calls \in Nat
         /\ req[c].call = calls /\ Over(calls)'
         /\ \A n \in Nat : n <= calls => Over(n)'
         /\ returned' = returned \cup {[call |-> calls, out |-> out, data |-> d]}
         /\ \A e \in Callers : pc'[e] \notin Holding
<1>1. /\ pc \in [Callers -> Holding \cup {"idle", "queued"}] /\ calls \in Nat
      /\ calls' = calls /\ holder' = NoCaller /\ pc' = [pc EXCEPT ![c] = "idle"]
  BY DEF Return, TypeOK
<1>2. holder = c /\ req[c].call = calls
  BY DEF MutexInv
<1>3. \A e \in Callers : e # c => pc[e] \notin Holding
  BY <1>2 DEF MutexInv
<1>4. \A e \in Callers : pc'[e] \notin Holding
  BY <1>1, <1>3 DEF Holding
<1>5. \A e \in Callers : pc'[e] # "send"
  BY <1>4 DEF Holding
<1>6. returned' = returned \cup {[call |-> calls, out |-> out, data |-> d]}
  BY <1>2 DEF Return
<1>7. \A n : Decoded(n) => Decoded(n)'
  BY <1>6 DEF Decoded
<1> QED BY <1>1, <1>2, <1>4, <1>5, <1>6, <1>7 DEF Out, Over

\* A call that ends gives the mutex back.
LEMMA MutexEnd ==
  ASSUME TypeOK, MutexInv, NEW c \in Callers, pc[c] \in Holding, NEW out, NEW d,
         Return(c, out, d)
  PROVE  MutexInv'
<1>1. /\ holder = c /\ holder' = NoCaller /\ calls' = calls /\ calls \in Nat /\ Over(calls)'
      /\ returned' = returned \cup {[call |-> calls, out |-> out, data |-> d]}
      /\ \A e \in Callers : pc'[e] \notin Holding
      /\ \A n : Over(n) => Over(n)'
  BY EndKeeps
<1>2. \A e \in Callers : pc'[e] \in Holding <=> holder' = e
  BY <1>1, ClientAssumption
<1>3. \A e \in Callers : req'[e].call = 0
  <2>1. req \in [Callers -> Request] /\ req' = [req EXCEPT ![c] = NoRequest]
    BY DEF TypeOK, Return
  <2>2. \A e \in Callers : e # c => req[e].call = 0
    BY <1>1 DEF MutexInv
  <2> QED BY <2>1, <2>2 DEF NoRequest
<1>4. phase # "handshake" /\ phase' = phase
  BY DEF MutexInv, Holding, Return
<1>5. \A r \in returned' : Over(r.call)'
  BY <1>1 DEF MutexInv
<1> QED BY <1>1, <1>2, <1>3, <1>4, <1>5 DEF MutexInv, Holding

\* A request that goes on keeps the mutex.
LEMMA MutexGoto ==
  ASSUME TypeOK, MutexInv, NEW c \in Callers, pc[c] \in Holding,
         NEW label \in Holding \ {"send"}, Goto(c, label),
         label = "wait" => req[c].kind = "GET", label # "wait" => req[c].kind # "GET"
  PROVE  MutexInv'
<1>1. /\ pc \in [Callers -> Holding \cup {"idle", "queued"}]
      /\ pc' = [pc EXCEPT ![c] = label]
      /\ UNCHANGED <<phase, holder, waiters, req, calls, returned>>
  BY DEF Goto, TypeOK
<1>2. \A n : Over(n)' <=> Over(n)
  BY <1>1 DEF Over
<1>3. phase # "handshake"
  BY DEF MutexInv, Holding
<1> QED BY <1>1, <1>2, <1>3 DEF MutexInv, Holding

\* Every step keeps the mutex exclusive.
LEMMA MutexStep == ASSUME TypeOK, MutexInv, [Next]_vars PROVE MutexInv'
<1>1. CASE UNCHANGED <<phase, counter, holder, waiters, pc, req, rounds, calls, returned>>
  BY <1>1 DEF MutexInv, Over
<1>2. CASE Handshake
  <2>1. UNCHANGED <<calls, req, holder, returned, pc, waiters>>
    BY <1>2, HandshakeQuiet DEF QuietStep
  <2>2. phase = "handshake"
    BY <1>2 DEF Handshake, HandshakeRecv, HandshakeSilence, HandshakeClosed
  <2> QED BY <2>1, <2>2 DEF MutexInv, Over
<1>3. CASE Server
  BY <1>1, <1>3 DEF Server, SrvGet, SrvReject, SrvEnqueue, SrvPollBusy, SrvPollIdle, SrvPollSet,
     SrvPollExec, SrvExecEnds, SrvKillQueued, SrvKillRunning, SrvKillLate, SrvCmdline,
     SrvCrash, clientVars
<1>4. ASSUME NEW c \in Callers, Call(c) PROVE MutexInv'
  <2>1. /\ pc \in [Callers -> Holding \cup {"idle", "queued"}] /\ phase = "ready"
        /\ pc[c] = "idle" /\ pc' = [pc EXCEPT ![c] = "queued"]
        /\ UNCHANGED <<phase, holder, req, calls, returned>>
    BY <1>4 DEF Call, TypeOK
  <2>2. \A n : Over(n)' <=> Over(n)
    BY <2>1 DEF Over
  <2> QED BY <2>1, <2>2 DEF MutexInv, Holding
<1>5. ASSUME NEW c \in Callers, NEW k \in Kinds, Begin(c, k) PROVE MutexInv'
  <2>1. /\ pc \in [Callers -> Holding \cup {"idle", "queued"}] /\ req \in [Callers -> Request]
        /\ holder = NoCaller /\ holder' = c /\ waiters # <<>>
        /\ pc' = [pc EXCEPT ![c] = "send"]
        /\ req' = [req EXCEPT ![c] = [id |-> counter, call |-> calls + 1, kind |-> k]]
        /\ UNCHANGED <<phase, returned>>
    BY <1>5 DEF Begin, TypeOK
  <2>2. /\ calls' = calls + 1 /\ calls \in Nat
        /\ \A n : Over(n) => Over(n)'
    BY <1>5, BeginKeeps
  <2>3. \A d \in Callers : pc[d] \notin Holding
    BY <2>1, ClientAssumption DEF MutexInv
  <2>4. \A d \in Callers : pc'[d] \in Holding <=> d = c
    BY <2>1, <2>3 DEF Holding
  <2>5. \A d \in Callers : d # c => pc'[d] = pc[d] /\ req'[d] = req[d]
    BY <2>1
  <2>6. pc'[c] = "send" /\ req'[c].call = calls'
    BY <2>1, <2>2
  <2>7. \A d \in Callers : pc'[d] \notin {"wait", "first", "top", "poll"}
    BY <2>3, <2>5, <2>6 DEF Holding
  <2>8. phase' # "handshake"
    BY <2>1 DEF MutexInv
  <2> QED BY <2>1, <2>2, <2>3, <2>4, <2>5, <2>6, <2>7, <2>8 DEF MutexInv
<1>6. ASSUME NEW c \in Callers, ClientStep(c), ~\E k \in Kinds : Begin(c, k) PROVE MutexInv'
  <2>1. CASE Send(c)
    BY <2>1, MutexGoto DEF Send, Holding
  <2>2. CASE RecvSkipped(c)
    BY <2>2, MutexGoto DEF RecvSkipped, Receiving, Holding, MutexInv
  <2>3. CASE SendPoll(c)
    <3>1. /\ pc \in [Callers -> Holding \cup {"idle", "queued"}]
          /\ pc[c] = "top" /\ pc' = [pc EXCEPT ![c] = "poll"]
          /\ UNCHANGED <<phase, holder, waiters, req, calls, returned>>
      BY <2>3 DEF SendPoll, TypeOK
    <3>2. \A n : Over(n)' <=> Over(n)
      BY <3>1 DEF Over
    <3>3. phase # "handshake"
      BY <3>1 DEF MutexInv
    <3> QED BY <3>1, <3>2, <3>3 DEF MutexInv, Holding
  <2>4. CASE SendFails(c) \/ RecvAnswer(c) \/ RecvMalformed(c) \/ RecvClosed(c) \/ GiveUp(c)
    <3>1. pc[c] \in Holding
      BY <2>4 DEF SendFails, RecvAnswer, RecvMalformed, RecvClosed, GiveUp, Receiving, Holding
    <3>2. \E out, d : Return(c, out, d)
      BY <2>4 DEF SendFails, RecvAnswer, RecvMalformed, RecvClosed, GiveUp
    <3> QED BY <3>1, <3>2, MutexEnd
  <2>5. CASE RecvSilence(c)
    <3>1. pc[c] \in Holding /\ pc[c] \in Receiving
      BY <2>5 DEF RecvSilence, Receiving, Holding
    <3>2. CASE pc[c] = "wait"
      BY <2>5, <3>1, <3>2, MutexEnd DEF RecvSilence
    <3>3. CASE pc[c] # "wait"
      <4>1. Goto(c, "top") /\ req[c].kind # "GET"
        BY <2>5, <3>1, <3>3 DEF RecvSilence, Receiving, MutexInv
      <4> QED BY <3>1, <4>1, MutexGoto DEF Holding
    <3> QED BY <3>2, <3>3
  <2> QED BY <1>6, <2>1, <2>2, <2>3, <2>4, <2>5 DEF ClientStep
<1> QED BY <1>1, <1>2, <1>3, <1>4, <1>5, <1>6 DEF Next, Finished, vars, clientVars

-----------------------------------------------------------------------------
(* The client's steps.                                                     *)

\* Adding a command to the socket adds what it is to the requests that may run.
LEMMA Write ==
  ASSUME TypeOK, NEW m \in Command, toServer' = Append(toServer, m), UNCHANGED serverVars
  PROVE  /\ Elements(toServer') = Elements(toServer) \cup {m}
         /\ m.cmd \in Kinds => Live' = Live \cup {m}
         /\ m.cmd \notin Kinds => Live' = Live
         /\ UNCHANGED <<queue, running, alive, executed>>
<1>1. toServer \in Seq(Command)
  BY DEF TypeOK
<1>2. Elements(toServer') = Elements(toServer) \cup {m}
  BY <1>1, ElementsAppend
<1>3. UNCHANGED <<queue, running, alive, executed>>
  BY DEF serverVars
<1> QED BY <1>2, <1>3 DEF Live

\* Nothing written, nothing more to run.
LEMMA NoWrite ==
  ASSUME UNCHANGED toServer, UNCHANGED serverVars
  PROVE  Live' = Live /\ UNCHANGED <<queue, running, alive, executed>>
BY DEF Live, serverVars

\* The order stands when a later command is written.
LEMMA OrderWrite ==
  ASSUME TypeOK, OrderInv, NEW m \in Command, toServer' = Append(toServer, m),
         UNCHANGED serverVars,
         \A n : Out(n) => Out(n)', \A n : Over(n) => Over(n)',
         m.cmd \in Kinds =>
           m.id = m.call /\ Out(m.call)' /\ \A n : Out(n) \/ Over(n) => n < m.call,
         m.cmd = "KILL" => Over(m.id)' /\ \A n : Out(n) => n <= m.id
  PROVE  OrderInv'
<1>1. /\ Elements(toServer') = Elements(toServer) \cup {m}
      /\ Live' \subseteq Live \cup {m}
      /\ UNCHANGED <<queue, running>>
  BY Write
<1>2. toServer \in Seq(Command)
  BY DEF TypeOK
<1>3. \A a \in Elements(toServer) : Before(a, m)
  BY KindFacts DEF OrderInv, Before
<1>4. InOrder(toServer')
  BY <1>2, <1>3, SortedAppend DEF OrderInv
<1>5. \A a \in Elements(queue) : a \in Live
  BY DEF OrderInv, Live, Kinds
<1>6. running # Nothing => running \in Live
  BY DEF OrderInv, Live, Kinds
<1>7. /\ \A a \in Elements(queue), b \in Elements(toServer') : b.cmd \in Kinds => a.call < b.call
      /\ running # Nothing =>
           \A b \in Elements(queue) \cup Elements(toServer') :
             b.cmd \in Kinds => running.call < b.call
  BY <1>1, <1>5, <1>6 DEF OrderInv
<1>8. \A a \in Elements(toServer') :
        (a.cmd \in Kinds => Out(a.call)') /\ (a.cmd = "KILL" => Over(a.id)')
  BY <1>1 DEF OrderInv
<1>9. \A a \in Live' : Out(a.call)' /\ a.id = a.call
  <2>1. m \in Live' => m.cmd \in Kinds
    BY DEF Live
  <2> QED BY <1>1, <2>1 DEF OrderInv
<1> QED BY <1>1, <1>4, <1>7, <1>8, <1>9 DEF OrderInv

\* The order stands when nothing is written.
LEMMA OrderNoWrite ==
  ASSUME OrderInv, UNCHANGED toServer, UNCHANGED serverVars,
         \A n : Out(n) => Out(n)', \A n : Over(n) => Over(n)'
  PROVE  OrderInv'
<1>1. Live' = Live /\ UNCHANGED <<queue, running>>
  BY NoWrite
<1> QED BY <1>1 DEF OrderInv

\* A step writes the request itself; the id is that of the call.
LEMMA SendFacts ==
  ASSUME MatchInv, MutexInv, NEW c \in Callers, Send(c)
  PROVE  \E m \in Command :
           /\ toServer' = Append(toServer, m) /\ m.cmd \in Kinds /\ m.cmd = req[c].kind
           /\ m.id = calls /\ m.call = calls /\ alive /\ UNCHANGED serverVars
           /\ UNCHANGED toClient
<1> DEFINE m == [cmd |-> req[c].kind, id |-> req[c].id, call |-> req[c].call]
<1>1. m \in Command /\ m.cmd \in Kinds
  BY DEF MatchInv, TypeOK, Request, Command
<1>2. req[c].call = calls /\ req[c].id = calls
  BY SendKeeps DEF MatchInv, ClientPart
<1>3. /\ toServer' = Append(toServer, m) /\ alive /\ UNCHANGED serverVars /\ UNCHANGED toClient
  BY DEF Send
<1> QED BY <1>1, <1>2, <1>3

\* A call that ends writes nothing, or the KILL of its own request.
LEMMA EndKills ==
  ASSUME MatchInv, MutexInv, NEW c \in Callers, NEW out, NEW d, EndStep(c, out, d)
  PROVE  \/ UNCHANGED toServer
         \/ alive /\ toServer' = Append(toServer, Kill(calls)) /\ Kill(calls) \in Command
              /\ out = "timeout"
<1>1. req[c].id = calls /\ calls \in Nat
  BY EndKeeps DEF EndStep, MatchInv, ClientPart
<1> QED BY <1>1, KillIsCommand DEF EndStep

\* The order stands under every step of the client.
LEMMA ClientOrder ==
  ASSUME MatchInv, MutexInv, OrderInv,
         \/ QuietStep \/ BeginStep \/ SendStep
         \/ \E c \in Callers, out \in Outcomes, d \in Nat : EndStep(c, out, d)
  PROVE  OrderInv'
<1> USE DEF MatchInv
<1>1. CASE QuietStep
  <2>1. UNCHANGED serverVars /\ (UNCHANGED toServer \/ toServer' = Append(toServer, Poll))
    BY <1>1 DEF QuietStep
  <2>2. (\A n : Out(n) => Out(n)') /\ (\A n : Over(n) => Over(n)')
    BY <1>1, QuietKeeps
  <2>3. Poll \in Command /\ Poll.cmd \notin Kinds /\ Poll.cmd # "KILL"
    BY KindFacts, NothingIsCommand
  <2>4. CASE toServer' = Append(toServer, Poll)
    BY <2>1, <2>2, <2>3, <2>4, OrderWrite
  <2> QED BY <2>1, <2>2, <2>4, OrderNoWrite
<1>2. ASSUME NEW c \in Callers, NEW k \in Kinds, Begin(c, k) PROVE OrderInv'
  <2>1. UNCHANGED serverVars /\ UNCHANGED toServer
    BY <1>2 DEF Begin, wireVars
  <2> QED BY <1>2, <2>1, BeginKeeps, OrderNoWrite
<1>3. ASSUME NEW c \in Callers, Send(c) PROVE OrderInv'
  <2>1. PICK m \in Command :
          /\ toServer' = Append(toServer, m) /\ m.cmd \in Kinds /\ m.id = calls /\ m.call = calls
          /\ UNCHANGED serverVars
    BY <1>3, SendFacts
  <2>2. /\ \A n : (Out(n) => Out(n)' /\ n < calls) /\ (Over(n)' <=> Over(n))
        /\ Out(calls)' /\ calls' = calls /\ holder = c
    BY <1>3, SendKeeps
  <2>3. \A n : Over(n) => n < calls
    <3>1. holder # NoCaller
      BY <2>2, ClientAssumption
    <3> QED BY <3>1 DEF Over
  <2>4. m.cmd # "KILL"
    BY <2>1 DEF Kinds
  <2>5. \A n : Out(n) => Out(n)'
    BY <2>2
  <2>6. \A n : Over(n) => Over(n)'
    BY <2>2
  <2>7. m.id = m.call /\ \A n : Out(n) \/ Over(n) => n < m.call
    BY <2>1, <2>2, <2>3
  <2>8. Out(m.call)'
    BY <2>1, <2>2 DEF Out
  <2> QED BY <2>1, <2>4, <2>5, <2>6, <2>7, <2>8, OrderWrite
<1>4. ASSUME NEW c \in Callers, NEW out \in Outcomes, NEW d \in Nat, EndStep(c, out, d)
      PROVE  OrderInv'
  <2>1. /\ \A n : Out(n) => Out(n)'
        /\ \A n : Over(n) => Over(n)'
        /\ Over(calls)' /\ calls \in Nat /\ calls' = calls
    BY <1>4, EndKeeps DEF EndStep
  <2>2. UNCHANGED serverVars
    BY <1>4 DEF EndStep
  <2>3. \A n : Out(n) => n <= calls
    BY <2>1 DEF Out
  <2>4. CASE UNCHANGED toServer
    BY <2>1, <2>2, <2>4, OrderNoWrite
  <2>5. CASE toServer' = Append(toServer, Kill(calls)) /\ Kill(calls) \in Command
    <3>1. PICK m \in Command : toServer' = Append(toServer, m) /\ m = Kill(calls)
      BY <2>5
    <3>2. m.cmd = "KILL" /\ m.cmd \notin Kinds /\ m.id = calls
      BY <3>1, KindFacts
    <3>3. \A n : Out(n) => n <= m.id
      BY <2>3, <3>2
    <3>4. Over(m.id)'
      BY <2>1, <3>2 DEF Over
    <3> QED BY <2>1, <2>2, <3>1, <3>2, <3>3, <3>4, OrderWrite
  <2> QED BY <1>4, <2>4, <2>5, EndKills
<1> QED BY <1>1, <1>2, <1>3, <1>4 DEF BeginStep, SendStep

-----------------------------------------------------------------------------
(* Every request that may still run has not, is in order and is watched;   *)
(* what is told of the others is true.                                     *)

\* Quiet steps leave the requests that may run as they are.
LEMMA LiveQuiet ==
  ASSUME MatchInv, LiveInv, QuietStep
  PROVE  LiveInv' /\ Live' = Live /\ UNCHANGED executed
<1>1. /\ Live' = Live /\ UNCHANGED <<alive, executed>>
      /\ Elements(toServer) \subseteq Elements(toServer')
      /\ ~alive => UNCHANGED toServer
  BY Write, NoWrite, NothingIsCommand, KindFacts DEF QuietStep, MatchInv
<1>2. \A n : (Out(n)' <=> Out(n)) /\ (Decoded(n)' <=> Decoded(n))
  BY QuietKeeps
<1>3. \A m : Watched(m) => Watched(m)'
  BY <1>1, <1>2 DEF Watched, QuietStep
<1>4. \A m \in Live : LiveFacts(m)'
  BY <1>1, <1>2, <1>3 DEF LiveInv, LiveFacts, QuietStep
<1>5. LiveInv'
  BY <1>1, <1>2, <1>4 DEF LiveInv
<1> QED BY <1>1, <1>5

\* The mutex is taken when the last call is over: its request is a GET, is
\* being killed, or is one nobody cancels.
LEMMA LiveBegin ==
  ASSUME MatchInv, MutexInv, OrderInv, LiveInv, NEW c \in Callers, NEW k \in Kinds, Begin(c, k)
  PROVE  LiveInv' /\ Live' = Live /\ UNCHANGED executed
<1>1. /\ Live' = Live /\ UNCHANGED <<alive, executed, toServer, returned>>
      /\ holder = NoCaller
  BY NoWrite DEF Begin, wireVars
<1>2. /\ \A n : Out(n) => Out(n)' /\ n < calls'
      /\ calls' = calls + 1 /\ calls \in Nat
  BY BeginKeeps DEF MatchInv
<1>3. \A n : Decoded(n)' <=> Decoded(n)
  BY <1>1 DEF Decoded
<1>4. \A m \in Live : Watched(m)'
  BY <1>1, <1>3 DEF LiveInv, LiveFacts, Watched
<1>5. \A d \in Callers : pc[d] \notin Holding
  BY <1>1, ClientAssumption DEF MutexInv
<1>6. \A d \in Callers : pc'[d] \in Holding => req'[d].call = calls'
  <2>1. /\ pc \in [Callers -> Holding \cup {"idle", "queued"}] /\ req \in [Callers -> Request]
        /\ pc' = [pc EXCEPT ![c] = "send"]
        /\ req' = [req EXCEPT ![c] = [id |-> counter, call |-> calls + 1, kind |-> k]]
    BY DEF Begin, MatchInv, TypeOK
  <2> QED BY <1>2, <1>5, <2>1
<1>7. \A m \in Live : m.call < calls'
  BY <1>2 DEF OrderInv
<1>8. ASSUME NEW m \in Live PROVE LiveFacts(m)'
  <2>1. m.call \in Nat /\ calls' \in Nat
    BY <1>2, LiveType DEF MatchInv
  <2>2. \A d \in Callers : ~(req'[d].call = m.call /\ pc'[d] \in Holding)
    BY <1>6, <1>7, <2>1
  <2>3. LiveFacts(m)
    BY DEF LiveInv
  <2> QED BY <1>1, <1>3, <1>4, <2>2, <2>3 DEF LiveFacts
<1>9. LiveInv'
  BY <1>1, <1>2, <1>8 DEF LiveInv
<1> QED BY <1>1, <1>9

\* The request sent has not run, is later than all that have, and is waited for.
LEMMA LiveSend ==
  ASSUME MatchInv, MutexInv, OrderInv, LiveInv, NEW c \in Callers, Send(c)
  PROVE  /\ LiveInv' /\ UNCHANGED executed
         /\ \A x \in Live' : x \in Live \/ x.call = calls
<1>1. PICK m \in Command :
        /\ toServer' = Append(toServer, m) /\ m.cmd \in Kinds /\ m.cmd = req[c].kind
        /\ m.call = calls /\ alive /\ UNCHANGED serverVars
  BY SendFacts
<1>2. /\ Elements(toServer') = Elements(toServer) \cup {m} /\ Live' = Live \cup {m}
      /\ UNCHANGED <<alive, executed>>
  BY <1>1, Write DEF MatchInv
<1>3. /\ \A n : Out(n) => Out(n)' /\ n < calls
      /\ calls' = calls /\ holder = c /\ holder' = c /\ req[c].call = calls
  BY SendKeeps DEF MatchInv
<1>4. /\ UNCHANGED <<req, returned>> /\ calls \in Nat
      /\ \A d \in Callers : pc'[d] \in Holding => pc[d] \in Holding
  <2>1. /\ pc \in [Callers -> Holding \cup {"idle", "queued"}] /\ pc[c] = "send"
        /\ pc' = [pc EXCEPT ![c] = IF req[c].kind = "GET" THEN "wait" ELSE "first"]
        /\ UNCHANGED <<req, returned>> /\ calls \in Nat
    BY DEF Send, Goto, MatchInv, TypeOK
  <2> QED BY <2>1 DEF Holding
<1>5. \A n : Decoded(n)' <=> Decoded(n)
  BY <1>4 DEF Decoded
<1>6. \A d \in Callers : pc[d] \in Holding => d = c
  BY <1>3 DEF MutexInv
<1>7. ASSUME NEW x \in Live PROVE LiveFacts(x)'
  <2>1. Watched(x)'
    BY <1>2, <1>3, <1>5 DEF LiveInv, LiveFacts, Watched
  <2> QED BY <1>2, <1>4, <1>5, <2>1 DEF LiveInv, LiveFacts
<1>8. LiveFacts(m)'
  <2>1. \A n \in Elements(executed) : n < calls /\ n \in Nat
    BY <1>3 DEF LiveInv, Out
  <2>2. Watched(m)'
    BY <1>1, <1>3, ClientAssumption DEF Watched
  <2>3. m.call \notin Elements(executed)
    BY <1>1, <1>4, <2>1
  <2> QED BY <1>1, <1>2, <1>4, <1>6, <2>1, <2>2, <2>3 DEF LiveFacts
<1>9. LiveInv'
  BY <1>1, <1>2, <1>3, <1>7, <1>8 DEF LiveInv
<1> QED BY <1>1, <1>2, <1>9

\* What the caller is told of the call that ends is true.
EndTrue(out, d) ==
  /\ out \in {"data", "error"} => d = calls /\ calls \in Elements(executed)
  /\ out \in {"rejected", "killed"} => d = 0 /\ Gone(calls)

\* A call ends: it has been answered, it is hopeless, its caller is told of a
\* frame that does not decode, it is a GET, or its KILL is sent.
LEMMA LiveEnd ==
  ASSUME MatchInv, MutexInv, OrderInv, LiveInv, AnswerInv,
         NEW c \in Callers, NEW out, NEW d, EndStep(c, out, d)
  PROVE  /\ LiveInv' /\ Live' = Live /\ UNCHANGED executed
         /\ EndTrue(out, d)
<1>1. /\ \A n : Out(n) => Out(n)'
      /\ \A n : Decoded(n) => Decoded(n)'
      /\ holder = c /\ calls' = calls /\ calls \in Nat /\ req[c].call = calls
      /\ returned' = returned \cup {[call |-> calls, out |-> out, data |-> d]}
      /\ \A e \in Callers : pc'[e] \notin Holding
      /\ pc[c] \in Holding
  BY EndKeeps DEF EndStep, MatchInv
<1>2. req[c].id = calls
  BY <1>1 DEF MatchInv, ClientPart
<1>3. /\ Live' = Live /\ UNCHANGED <<alive, executed>>
      /\ Elements(toServer) \subseteq Elements(toServer')
      /\ UNCHANGED toServer \/ alive
  BY EndKills, Write, NoWrite, KindFacts DEF EndStep, MatchInv
<1>4. ASSUME toClient # <<>>, Answers(c, Head(toClient)), out = OutcomeOf(Head(toClient).res),
             d = Head(toClient).data
      PROVE  /\ \A m \in Live : m.call # calls
             /\ EndTrue(out, d)
  <2>1. Head(toClient) \in Elements(toClient)
    BY <1>4, ElementsTail DEF MatchInv, TypeOK
  <2>2. Told(Head(toClient)) /\ Head(toClient).id = calls
    BY <1>2, <1>4, <2>1 DEF AnswerInv, Answers, Mine
  <2>3. \/ Head(toClient).res \in {"DATA", "ERROR"} /\ calls \in Elements(executed)
           /\ d = calls /\ out \in {"data", "error"}
        \/ Head(toClient).res \in {"REJECTED", "KILLED"} /\ d = 0 /\ Gone(calls)
           /\ out \in {"rejected", "killed"}
    BY <1>4, <2>2 DEF Told, Answers, Terminal, OutcomeOf
  <2>4. CASE calls \in Elements(executed) /\ d = calls /\ out \in {"data", "error"}
    BY <2>4 DEF LiveInv, LiveFacts, EndTrue
  <2>5. CASE d = 0 /\ Gone(calls) /\ out \in {"rejected", "killed"}
    BY <2>5 DEF Gone, EndTrue
  <2> QED BY <2>3, <2>4, <2>5
<1>5. EndTrue(out, d)
  BY <1>4 DEF EndStep, EndTrue
<1>6. ASSUME NEW m \in Live, m.call = calls PROVE Watched(m)'
  <2>1. alive /\ req[c].kind = m.cmd
    BY <1>1, <1>6 DEF LiveInv, LiveFacts
  <2>2. \/ out = "decode"
        \/ req[c].kind = "GET"
        \/ toServer' = Append(toServer, Kill(calls)) /\ Kill(calls) \in Command
    BY <1>1, <1>2, <1>4, <1>6, <2>1, KillIsCommand DEF EndStep
  <2>3. CASE out = "decode"
    BY <1>1, <1>6, <2>3 DEF Watched, Decoded
  <2>4. CASE req[c].kind = "GET"
    BY <2>1, <2>4 DEF Watched
  <2>5. CASE toServer' = Append(toServer, Kill(calls)) /\ Kill(calls) \in Command
    <3>1. Kill(m.call) \in Elements(toServer')
      BY <1>6, <2>5, Write DEF EndStep, MatchInv
    <3> QED BY <3>1 DEF Watched, Kill
  <2> QED BY <2>2, <2>3, <2>4, <2>5
<1>7. ASSUME NEW m \in Live PROVE LiveFacts(m)'
  <2>1. LiveFacts(m)
    BY DEF LiveInv
  <2>2. Watched(m)'
    BY <1>1, <1>3, <1>6, <2>1 DEF LiveFacts, Watched, Kill
  <2> QED BY <1>1, <1>3, <2>1, <2>2 DEF LiveFacts
<1>8. LiveInv'
  BY <1>1, <1>3, <1>7 DEF LiveInv
<1> QED BY <1>3, <1>5, <1>8

\* The server runs the oldest request but for those that nobody cancels.
LEMMA LiveServer ==
  ASSUME TypeOK, OrderInv, LiveInv, ServerStep, UNCHANGED clientVars
  PROVE  LiveInv'
<1>1. UNCHANGED <<calls, holder, pc, req, returned>>
  BY DEF clientVars
<1>2. \A n : (Out(n)' <=> Out(n)) /\ (Decoded(n)' <=> Decoded(n))
  BY <1>1 DEF Out, Decoded
<1>3. ASSUME KillsKept, Live' \subseteq Live
      PROVE  \A m \in Live' : Watched(m)'
  <2>1. SUFFICES ASSUME NEW m \in Live' PROVE Watched(m)'
    OBVIOUS
  <2>2. Watched(m)
    BY <1>3 DEF LiveInv, LiveFacts
  <2>3. Kill(m.call) \in Elements(toServer) => Kill(m.call) \in Elements(toServer)'
    BY <1>3 DEF KillsKept
  <2> QED BY <1>1, <1>2, <2>2, <2>3 DEF Watched, Kill
<1>4. CASE RunStep
  <2>1. alive /\ UNCHANGED alive /\ KillsKept
    BY <1>4 DEF RunStep
  <2>2. PICK m \in Live :
          /\ Live' = Live \ {m} /\ executed' = Append(executed, m.call)
          /\ \A x \in Live : x.call < m.call => Decoded(x.call)
    BY <1>4 DEF RunStep, Ran
  <2>3. executed \in Seq(Nat) /\ m.call \in Nat
    BY LiveType DEF TypeOK
  <2>4. Elements(executed') = Elements(executed) \cup {m.call}
    BY <2>2, <2>3, ElementsAppend
  <2>5. Out(m.call)
    BY DEF OrderInv
  <2>6. ASSUME NEW x \in Live' PROVE LiveFacts(x)'
    <3>1. x \in Live /\ LiveFacts(x) /\ x # m
      BY <2>2 DEF LiveInv
    <3>2. x.call # m.call /\ x.call \in Nat
      BY <3>1, UniqueLive, LiveType
    <3>3. x.call < m.call => Decoded(x.call)
      BY <2>2, <3>1
    <3>4. Decoded(x.call) \/ \A n \in Elements(executed') : n < x.call
      BY <2>3, <2>4, <3>1, <3>2, <3>3 DEF LiveFacts
    <3>5. Watched(x)'
      BY <1>3, <2>1, <2>2
    <3> QED BY <1>1, <1>2, <2>4, <3>1, <3>2, <3>4, <3>5 DEF LiveFacts
  <2> QED BY <1>2, <2>1, <2>4, <2>5, <2>6 DEF LiveInv
<1>5. CASE RefuseStep \/ NoticeStep
  <2>1. alive /\ UNCHANGED <<alive, executed>> /\ KillsKept /\ Live' \subseteq Live
    BY <1>5 DEF RefuseStep, NoticeStep
  <2>2. \A m \in Live' : LiveFacts(m)'
    BY <1>1, <1>2, <1>3, <2>1 DEF LiveInv, LiveFacts
  <2> QED BY <1>2, <2>1, <2>2 DEF LiveInv
<1>6. CASE CrashStep
  BY <1>2, <1>6 DEF LiveInv, CrashStep
<1> QED BY <1>4, <1>5, <1>6 DEF ServerStep

-----------------------------------------------------------------------------
(* What the answers tell stays true.                                       *)

\* A call that is refused stays refused while nothing runs.
LEMMA GoneKept ==
  ASSUME UNCHANGED executed, \A n : Out(n) => Out(n)',
         \A x \in Live' : x \in Live \/ \A n : Out(n) => n # x.call
  PROVE  \A n : Gone(n) => Gone(n)'
BY DEF Gone

\* What the answers tell stays true while nothing runs.
LEMMA AnswersKept ==
  ASSUME AnswerInv, UNCHANGED executed, \A n : Gone(n) => Gone(n)',
         \A n : Over(n) => Over(n)', Elements(toClient') \subseteq Elements(toClient)
  PROVE  /\ \A f \in Elements(toClient') : Told(f)'
         /\ \A r \in returned : r.out \in {"rejected", "killed"} => Gone(r.call)'
BY DEF AnswerInv, Told

\* A read adds no frame.
LEMMA FramesRead ==
  ASSUME TypeOK, UNCHANGED toClient \/ (toClient # <<>> /\ toClient' = Tail(toClient))
  PROVE  Elements(toClient') \subseteq Elements(toClient)
<1>1. toClient \in Seq(Response)
  BY DEF TypeOK
<1> QED BY <1>1, ElementsTail

\* The steps of the client keep the requests watched and the answers true.
LEMMA AnswerClient ==
  ASSUME MatchInv, MutexInv, OrderInv, LiveInv, AnswerInv,
         \/ QuietStep \/ BeginStep \/ SendStep
         \/ \E c \in Callers, out \in Outcomes, d \in Nat : EndStep(c, out, d)
  PROVE  LiveInv' /\ AnswerInv'
<1>1. CASE QuietStep
  <2>1. LiveInv' /\ Live' = Live /\ UNCHANGED <<executed, returned>>
    BY <1>1, LiveQuiet DEF QuietStep
  <2>2. \A n : (Out(n)' <=> Out(n)) /\ (Over(n)' <=> Over(n))
    BY <1>1, QuietKeeps
  <2>3. \A n : Gone(n) => Gone(n)'
    BY <2>1, <2>2, GoneKept
  <2>4. Elements(toClient') \subseteq Elements(toClient)
    BY <1>1, FramesRead DEF QuietStep, MatchInv
  <2> QED BY <2>1, <2>2, <2>3, <2>4, AnswersKept DEF AnswerInv
<1>2. ASSUME NEW c \in Callers, NEW k \in Kinds, Begin(c, k) PROVE LiveInv' /\ AnswerInv'
  <2>1. LiveInv' /\ Live' = Live /\ UNCHANGED <<executed, returned, toClient>>
    BY <1>2, LiveBegin DEF Begin, wireVars
  <2>2. \A n : Out(n) => Out(n)'
    BY <1>2, BeginKeeps DEF MatchInv
  <2>3. \A n : Over(n) => Over(n)'
    BY <1>2, BeginKeeps DEF MatchInv
  <2>4. \A n : Gone(n) => Gone(n)'
    BY <2>1, <2>2, GoneKept
  <2> QED BY <2>1, <2>3, <2>4, AnswersKept DEF AnswerInv
<1>3. ASSUME NEW c \in Callers, Send(c) PROVE LiveInv' /\ AnswerInv'
  <2>1. LiveInv' /\ UNCHANGED <<executed, returned, toClient>>
    BY <1>3, LiveSend DEF Send, Goto
  <2>2. \A x \in Live' : x \in Live \/ x.call = calls
    BY <1>3, LiveSend
  <2>3. \A n : Out(n) => Out(n)' /\ n < calls /\ n \in Nat
    BY <1>3, SendKeeps DEF MatchInv, Out
  <2>4. \A n : Over(n) => Over(n)'
    BY <1>3, SendKeeps DEF MatchInv
  <2>5. calls \in Nat
    BY DEF MatchInv, TypeOK
  <2>6. \A x \in Live' : x \in Live \/ \A n : Out(n) => n # x.call
    BY <2>2, <2>3, <2>5
  <2>7. \A n : Out(n) => Out(n)'
    BY <2>3
  <2>8. \A n : Gone(n) => Gone(n)'
    BY <2>1, <2>6, <2>7, GoneKept
  <2> QED BY <2>1, <2>4, <2>8, AnswersKept DEF AnswerInv
<1>4. ASSUME NEW c \in Callers, NEW out \in Outcomes, NEW d \in Nat, EndStep(c, out, d)
      PROVE  LiveInv' /\ AnswerInv'
  <2>1. LiveInv' /\ Live' = Live /\ UNCHANGED executed
    BY <1>4, LiveEnd
  <2>2. /\ \A n : Out(n) => Out(n)'
        /\ \A n : Over(n) => Over(n)'
        /\ returned' = returned \cup {[call |-> calls, out |-> out, data |-> d]}
        /\ calls \in Nat
    BY <1>4, EndKeeps DEF EndStep, MatchInv
  <2>3. \A n : Gone(n) => Gone(n)'
    BY <2>1, <2>2, GoneKept
  <2>4. Elements(toClient') \subseteq Elements(toClient)
    BY <1>4, FramesRead DEF EndStep, MatchInv
  <2>5. out \in {"rejected", "killed"} => Gone(calls)
    BY <1>4, LiveEnd DEF EndTrue
  <2>6. /\ \A f \in Elements(toClient') : Told(f)'
        /\ \A r \in returned : r.out \in {"rejected", "killed"} => Gone(r.call)'
    BY <2>1, <2>2, <2>3, <2>4, AnswersKept
  <2>7. PICK new : new = [call |-> calls, out |-> out, data |-> d]
    OBVIOUS
  <2>8. new.out \in {"rejected", "killed"} => Gone(new.call)'
    <3>1. new.call = calls /\ new.out = out
      BY <2>7
    <3> QED BY <2>3, <2>5, <3>1
  <2>9. \A r \in returned' : r.out \in {"rejected", "killed"} => Gone(r.call)'
    BY <2>2, <2>6, <2>7, <2>8
  <2> QED BY <2>1, <2>6, <2>9 DEF AnswerInv
<1> QED BY <1>1, <1>2, <1>3, <1>4 DEF BeginStep, SendStep

\* So do the steps of the server: what it writes is true when it is written.
LEMMA AnswerServer ==
  ASSUME TypeOK, OrderInv, LiveInv, AnswerInv, ServerStep, UNCHANGED clientVars
  PROVE  AnswerInv'
<1>1. UNCHANGED <<calls, holder, pc, returned>> /\ toClient \in Seq(Response)
  BY DEF clientVars, TypeOK
<1>2. \A n : (Out(n)' <=> Out(n)) /\ (Over(n)' <=> Over(n))
  BY <1>1 DEF Out, Over
<1>3. CASE RunStep
  <2>1. PICK m \in Live :
          /\ Live' = Live \ {m} /\ Ran(m) /\ m \in Command
          /\ executed' = Append(executed, m.call)
    BY <1>3 DEF RunStep, Ran
  <2>2. PICK s \in {"DATA", "ERROR"} : \E w \in Written(Reply(s, m.id, m.call)) :
          toClient' = Append(toClient, w)
    BY <2>1 DEF Ran
  <2>11. PICK w \in Written(Reply(s, m.id, m.call)) : toClient' = Append(toClient, w)
    BY <2>2
  <2>3. executed \in Seq(Nat) /\ m.call \in Nat /\ m.id = m.call
    BY LiveType DEF TypeOK, OrderInv
  <2>4. Elements(executed') = Elements(executed) \cup {m.call}
    BY <2>1, <2>3, ElementsAppend
  <2>5. \A n : Gone(n) => Gone(n)'
    BY <1>2, <2>1, <2>4 DEF Gone
  <2>6. \A f \in Elements(toClient) : Told(f)'
    BY <1>2, <2>4, <2>5 DEF AnswerInv, Told
  <2>7. Told(w)'
    BY <2>11, <2>3, <2>4 DEF Written, Reply, Told
  <2>8. w \in Response
    BY <2>1, <2>11, <2>3, WrittenType DEF Reply, Response
  <2>9. Elements(toClient') = Elements(toClient) \cup {w}
    BY <1>1, <2>11, <2>8, ElementsAppend
  <2>10. \A f \in Elements(toClient') : Told(f)'
    BY <2>6, <2>7, <2>9
  <2> QED BY <1>1, <2>5, <2>10 DEF AnswerInv
<1>4. ASSUME UNCHANGED executed, Live' \subseteq Live,
             NEW f \in Response, toClient' = Append(toClient, f), Told(f)'
      PROVE  AnswerInv'
  <2>1. \A n : Gone(n) => Gone(n)'
    BY <1>2, <1>4 DEF Gone
  <2>2. \A g \in Elements(toClient) : Told(g)'
    BY <1>2, <1>4, <2>1 DEF AnswerInv, Told
  <2>3. Elements(toClient') = Elements(toClient) \cup {f}
    BY <1>1, <1>4, ElementsAppend
  <2>4. \A g \in Elements(toClient') : Told(g)'
    BY <1>4, <2>2, <2>3
  <2> QED BY <1>1, <2>1, <2>4 DEF AnswerInv
<1>5. CASE RefuseStep
  <2>1. UNCHANGED executed
    BY <1>5 DEF RefuseStep
  <2>2. PICK m \in Live, s \in {"REJECTED", "KILLED"} :
          /\ Live' = Live \ {m} /\ toClient' = Append(toClient, Reply(s, m.id, 0))
          /\ s = "KILLED" => Over(m.call)
    BY <1>5 DEF RefuseStep
  <2>3. m.id \in Nat /\ m.id = m.call /\ Out(m.call)
    BY LiveType DEF OrderInv
  <2>4. Gone(m.call)'
    <3>1. m.call \notin Elements(executed)
      BY DEF LiveInv, LiveFacts
    <3>2. \A x \in Live' : x.call # m.call
      BY <2>2, UniqueLive
    <3> QED BY <1>2, <2>1, <2>3, <3>1, <3>2 DEF Gone
  <2>5. PICK f : f = Reply(s, m.id, 0)
    OBVIOUS
  <2>6. f \in Response /\ f.res = s /\ f.id = m.call /\ f.data = 0
    BY <2>3, <2>5 DEF Reply, Response
  <2>7. Told(f)'
    BY <1>2, <2>2, <2>4, <2>6 DEF Told
  <2> QED BY <1>4, <2>1, <2>2, <2>5, <2>6, <2>7
<1>6. CASE NoticeStep /\ ~UNCHANGED toClient
  <2>1. PICK id \in Nat, s \in {"SIGNAL", "CMDLINEON", "CMDLINEOFF"} :
          toClient' = Append(toClient, Reply(s, id, 0))
    BY <1>6 DEF NoticeStep
  <2>2. PICK f : f = Reply(s, id, 0)
    OBVIOUS
  <2>3. f \in Response /\ f.res = s
    BY <2>2 DEF Reply, Response
  <2>4. Told(f)'
    BY <2>3 DEF Told
  <2>5. UNCHANGED executed /\ Live' = Live
    BY <1>6 DEF NoticeStep
  <2> QED BY <1>4, <2>1, <2>2, <2>3, <2>4, <2>5
<1>7. CASE UNCHANGED toClient /\ (NoticeStep \/ CrashStep)
  <2>1. UNCHANGED executed /\ Live' \subseteq Live
    BY <1>7 DEF NoticeStep, CrashStep
  <2>2. \A n : Gone(n) => Gone(n)'
    BY <1>2, <2>1 DEF Gone
  <2> QED BY <1>1, <1>2, <1>7, <2>1, <2>2, AnswersKept DEF AnswerInv
<1> QED BY <1>3, <1>5, <1>6, <1>7 DEF ServerStep, CrashStep

-----------------------------------------------------------------------------
(* The invariant.                                                          *)

\* The invariant holds of a new connection.
LEMMA CallInit == Init => CallInv
<1> SUFFICES ASSUME Init PROVE CallInv
  OBVIOUS
<1> DEFINE probe == [cmd |-> "GET", id |-> 0, call |-> 0]
<1>1. MatchInv
  BY MatchInit
<1>2. MutexInv
  BY ClientAssumption DEF Init, MutexInv, Holding, NoRequest
<1>3. probe \in Command /\ <<probe>> \in Seq(Command) /\ toServer = <<probe>>
  BY DEF Init, Command, Kinds
<1>4. Elements(toServer) = {probe}
  BY <1>3 DEF Elements
<1>5. queue = <<>> /\ running = Nothing /\ toClient = <<>> /\ executed = <<>> /\ returned = {}
  BY DEF Init
<1>6. Live = {probe}
  BY <1>4, <1>5, ElementsEmpty, KindFacts DEF Live
<1>7. Out(0) /\ alive
  BY DEF Init, Out
<1>8. InOrder(<<probe>>) /\ InOrder(<<>>)
  BY DEF InOrder
<1>9. OrderInv
  BY <1>3, <1>4, <1>5, <1>6, <1>7, <1>8, ElementsEmpty DEF OrderInv
<1>10. LiveInv
  BY <1>5, <1>6, <1>7, ElementsEmpty, ClientAssumption
     DEF LiveInv, LiveFacts, Watched, Init, Holding
<1>11. AnswerInv
  BY <1>5, ElementsEmpty DEF AnswerInv
<1> QED BY <1>1, <1>2, <1>9, <1>10, <1>11 DEF CallInv

\* The invariant is inductive.
LEMMA CallStep == ASSUME CallInv, [Next]_vars PROVE CallInv'
<1> USE DEF CallInv
<1>1. TypeOK
  BY DEF MatchInv
<1>2. MatchInv'
  BY MatchStep
<1>3. MutexInv'
  BY <1>1, MutexStep
<1>4. ASSUME \/ QuietStep \/ BeginStep \/ SendStep
             \/ \E c \in Callers, out \in Outcomes, d \in Nat : EndStep(c, out, d)
      PROVE  OrderInv' /\ LiveInv' /\ AnswerInv'
  BY <1>4, ClientOrder, AnswerClient
<1>5. CASE Handshake
  BY <1>2, <1>3, <1>4, <1>5, HandshakeQuiet
<1>6. ASSUME NEW c \in Callers, Call(c) \/ ClientStep(c)
      PROVE  OrderInv' /\ LiveInv' /\ AnswerInv'
  BY <1>1, <1>4, <1>6, ClientKinds
<1>7. CASE Server
  BY <1>1, <1>2, <1>3, <1>7, ServerOrder, ServerSteps, LiveServer, AnswerServer
<1>8. CASE UNCHANGED vars
  <2>1. UNCHANGED <<calls, req, holder, returned, pc, toServer, toClient>> /\ UNCHANGED serverVars
    BY <1>8 DEF vars, clientVars, wireVars
  <2>2. QuietStep
    BY <2>1 DEF QuietStep
  <2> QED BY <1>2, <1>3, <1>4, <2>2
<1> QED BY <1>2, <1>3, <1>5, <1>6, <1>7, <1>8 DEF Next, Finished

\* The invariant holds throughout.
LEMMA CallsCorrect == Spec => []CallInv
BY CallInit, CallStep, PTL DEF Spec

-----------------------------------------------------------------------------
(* Three consequences.                                                     *)

\* Whatever the server has queued or evaluates is waited for or is about to be
\* killed, unless its caller was told of a frame that does not decode.
THEOREM AbandonedKilled == Spec => []AbandonedIsKilled
<1>1. ASSUME CallInv PROVE AbandonedIsKilled
  <2> USE <1>1 DEF CallInv
  <2>1. SUFFICES ASSUME NEW m \in Elements(queue)
                               \cup (IF running = Nothing THEN {} ELSE {running})
                 PROVE  \/ \E c \in Callers : pc[c] \in Holding /\ req[c].id = m.id
                        \/ \E i \in 1..Len(toServer) : toServer[i] = Kill(m.id)
                        \/ \E r \in returned : r.call = m.call /\ r.out = "decode"
    BY DEF AbandonedIsKilled, Elements
  <2>2. m.cmd \in {"SET", "EXEC"}
    BY <2>1 DEF OrderInv
  <2>3. m \in Live
    BY <2>1, <2>2 DEF Live, Kinds
  <2>4. m.id = m.call /\ Watched(m)
    BY <2>3 DEF OrderInv, LiveInv, LiveFacts
  <2>5. CASE holder # NoCaller /\ m.call = calls
    <3>1. holder \in Callers
      BY <2>5 DEF MatchInv, TypeOK
    <3>2. pc[holder] \in Holding /\ req[holder].call = calls
      BY <3>1 DEF MutexInv
    <3>3. req[holder].id = m.id
      BY <2>4, <2>5, <3>1, <3>2 DEF MatchInv, ClientPart
    <3> QED BY <3>1, <3>2, <3>3
  <2>6. CASE Kill(m.call) \in Elements(toServer)
    BY <2>4, <2>6 DEF Elements
  <2>7. CASE Decoded(m.call)
    BY <2>7 DEF Decoded
  <2> QED BY <2>2, <2>4, <2>5, <2>6, <2>7 DEF Watched
<1> QED BY <1>1, CallsCorrect, PTL

\* A call that ends is one more that has been told something.
LEMMA EndTells ==
  ASSUME TypeOK, MutexInv, NEW c \in Callers, pc[c] \in Holding, NEW out, NEW d,
         Return(c, out, d)
  PROVE  returned' # returned
<1>1. /\ returned' = returned \cup {[call |-> calls, out |-> out, data |-> d]}
      /\ holder = c /\ calls \in Nat
  BY EndKeeps
<1>2. holder # NoCaller
  BY <1>1, ClientAssumption
<1>3. \A r \in returned : r.call # calls
  BY <1>1, <1>2 DEF MutexInv, Over
<1>4. PICK new : new = [call |-> calls, out |-> out, data |-> d]
  OBVIOUS
<1>5. new \in returned' /\ new.call = calls
  BY <1>1, <1>4
<1> QED BY <1>3, <1>5

\* No read throws away the answer to the request that is waited for.
THEOREM OwnAnswers == Spec => OwnAnswerNeverSkipped
<1> DEFINE A(c) == pc[c] \in Receiving /\ toClient # <<>> /\ toClient' = Tail(toClient)
                     /\ req[c].id = Head(toClient).id
                     /\ Head(toClient).res \in {"DATA", "ERROR", "REJECTED", "KILLED"}
                   => returned' # returned
<1>1. ASSUME CallInv, [Next]_vars PROVE [\A c \in Callers : A(c)]_vars
  <2> USE <1>1 DEF CallInv
  <2> SUFFICES ASSUME NEW c \in Callers, pc[c] \in Receiving, toClient # <<>>,
                      toClient' = Tail(toClient), req[c].id = Head(toClient).id,
                      Head(toClient).res \in {"DATA", "ERROR", "REJECTED", "KILLED"}
               PROVE  returned' # returned
    OBVIOUS
  <2>1. pc[c] \in Holding /\ holder = c /\ holder # NoCaller
    BY ClientAssumption DEF Receiving, Holding, MutexInv
  <2>2. TypeOK /\ toClient \in Seq(Response) /\ calls \in Nat
    BY DEF MatchInv, TypeOK
  <2>3. Head(toClient).id = calls
    BY <2>1 DEF MutexInv, MatchInv, ClientPart
  <2>4. Head(toClient).res # "KILLED"
    <3>1. Told(Head(toClient))
      BY <2>2, ElementsTail DEF AnswerInv
    <3> QED BY <2>1, <2>2, <2>3, <3>1 DEF Told, Over
  <2>5. Answers(c, Head(toClient)) /\ ~Malformed(Head(toClient))
    BY <2>4 DEF Answers, Mine, Terminal, Malformed
  <2>6. toClient' # toClient /\ \A f \in Response : toClient' # Append(toClient, f)
    <3>1. Len(toClient') = Len(toClient) - 1 /\ Len(toClient) \in Nat
      BY <2>2
    <3>2. \A f \in Response : Len(Append(toClient, f)) = Len(toClient) + 1
      BY <2>2
    <3>3. ASSUME NEW f \in Response, toClient' = Append(toClient, f) PROVE FALSE
      <4>1. Len(toClient') = Len(toClient) + 1
        BY <3>2, <3>3
      <4> QED BY <3>1, <4>1
    <3>4. ASSUME toClient' = toClient PROVE FALSE
      <4>1. Len(toClient') = Len(toClient)
        BY <3>4
      <4> QED BY <3>1, <4>1
    <3> QED BY <3>3, <3>4
  <2>7. CASE Handshake
    <3>1. phase # "handshake"
      BY <2>1 DEF MutexInv, Holding
    <3> QED BY <2>7, <3>1 DEF Handshake, HandshakeRecv, HandshakeSilence, HandshakeClosed
  <2>8. ASSUME NEW e \in Callers, Call(e) \/ ClientStep(e) PROVE returned' # returned
    <3>1. CASE RecvAnswer(e) \/ RecvSkipped(e) \/ RecvMalformed(e)
      <4>1. pc[e] \in Holding
        BY <3>1 DEF RecvAnswer, RecvSkipped, RecvMalformed, Receiving, Holding
      <4>2. e = c
        BY <2>1, <4>1 DEF MutexInv
      <4>3. \E out, d : Return(e, out, d)
        BY <2>5, <3>1, <4>2 DEF RecvAnswer, RecvSkipped, RecvMalformed
      <4> QED BY <2>2, <4>1, <4>3, EndTells
    <3>2. CASE \/ Call(e) \/ Send(e) \/ SendFails(e) \/ RecvSilence(e) \/ RecvClosed(e)
               \/ SendPoll(e) \/ GiveUp(e) \/ \E k \in Kinds : Begin(e, k)
      <4>1. UNCHANGED toClient
        BY <3>2 DEF Call, Send, SendFails, RecvSilence, RecvClosed, SendPoll, GiveUp, Begin,
                    wireVars
      <4> QED BY <2>6, <4>1
    <3> QED BY <2>8, <3>1, <3>2 DEF ClientStep
  <2>9. CASE Server
    <3>1. ServerStep
      BY <2>2, <2>9, ServerSteps
    <3>2. CASE RunStep
      <4>1. \E m \in Command : Ran(m)
        BY <3>2 DEF RunStep
      <4>2. \E f \in Response : toClient' = Append(toClient, f)
        BY <4>1, RanWrites
      <4> QED BY <2>6, <4>2
    <3>3. CASE RefuseStep
      <4>1. PICK m \in Command, s \in {"REJECTED", "KILLED"} :
              toClient' = Append(toClient, Reply(s, m.id, 0))
        BY <3>3 DEF RefuseStep
      <4>2. Reply(s, m.id, 0) \in Response
        BY CommandParts DEF Reply, Response
      <4> QED BY <2>6, <4>1, <4>2
    <3>4. CASE NoticeStep
      <4>1. \A id \in Nat, s \in {"SIGNAL", "CMDLINEON", "CMDLINEOFF"} :
              Reply(s, id, 0) \in Response
        BY DEF Reply, Response
      <4> QED BY <2>6, <3>4, <4>1 DEF NoticeStep
    <3> QED BY <2>6, <3>1, <3>2, <3>3, <3>4 DEF ServerStep, CrashStep
  <2>10. CASE UNCHANGED vars
    BY <2>6, <2>10 DEF vars, wireVars
  <2> QED BY <2>7, <2>8, <2>9, <2>10 DEF Next, Finished
<1> QED BY <1>1, CallsCorrect, PTL DEF Spec, OwnAnswerNeverSkipped

-----------------------------------------------------------------------------
(* The connection implements the one-call-at-a-time service.               *)

Pending == [c \in Callers |-> req[c].call]

\* A call that gets the mutex is asked of the service.
LEMMA BeginAsks ==
  ASSUME CallInv, NEW c \in Callers, NEW k \in Kinds, Begin(c, k)
  PROVE  Service!Ask(c)
<1>1. /\ holder = NoCaller /\ calls' = calls + 1 /\ UNCHANGED <<executed, returned>>
      /\ req' = [req EXCEPT ![c] = [id |-> counter, call |-> calls + 1, kind |-> k]]
  BY DEF Begin, serverVars
<1>2. req \in [Callers -> Request]
  BY DEF CallInv, MatchInv, TypeOK
<1>3. \A d \in Callers : req[d].call = 0
  BY <1>1, ClientAssumption DEF CallInv, MutexInv
<1>4. Pending' = [Pending EXCEPT ![c] = calls + 1]
  BY <1>1, <1>2 DEF Pending
<1> QED BY <1>1, <1>3, <1>4 DEF Service!Ask, Pending

\* A call that ends is answered, refused or fails.
LEMMA EndTellsTrue ==
  ASSUME CallInv, NEW c \in Callers, NEW out \in Outcomes, NEW d, EndStep(c, out, d)
  PROVE  Service!Answer(c) \/ Service!Refuse(c) \/ Service!Fail(c)
<1> USE DEF CallInv
<1>1. /\ calls' = calls /\ calls \in Nat /\ req[c].call = calls
      /\ returned' = returned \cup {[call |-> calls, out |-> out, data |-> d]}
  BY EndKeeps DEF EndStep, MatchInv
<1>2. calls > 0
  BY DEF EndStep, MutexInv
<1>3. UNCHANGED executed /\ EndTrue(out, d)
  BY LiveEnd
<1>4. req' = [req EXCEPT ![c] = NoRequest] /\ req \in [Callers -> Request]
  BY DEF EndStep, Return, MatchInv, TypeOK
<1>5. Pending' = [Pending EXCEPT ![c] = 0] /\ Pending[c] = calls
  BY <1>1, <1>4 DEF Pending, NoRequest
<1>6. Service!Tell(c, out, d)
  BY <1>1, <1>2, <1>3, <1>5 DEF Service!Tell, Pending
<1>7. CASE out \in {"data", "error"}
  <2>1. d = Pending[c] /\ calls \in Elements(executed)
    BY <1>3, <1>5, <1>7 DEF EndTrue
  <2>2. Service!HasRun(Pending[c])
    BY <1>5, <2>1 DEF Service!HasRun, Elements
  <2>3. Service!Tell(c, out, Pending[c])
    BY <1>1, <1>2, <1>3, <1>5, <2>1 DEF Service!Tell, Pending
  <2>4. Service!Answer(c)
    BY <1>7, <2>2, <2>3 DEF Service!Answer, Service!Answered, Pending
  <2> QED BY <2>4
<1>8. CASE out \in {"rejected", "killed"}
  <2>1. d = 0 /\ calls \notin Elements(executed)
    BY <1>3, <1>8 DEF EndTrue, Gone
  <2>2. ~Service!HasRun(Pending[c])
    BY <1>5, <2>1 DEF Service!HasRun, Elements
  <2> QED BY <1>6, <1>8, <2>1, <2>2 DEF Service!Refuse, Service!Refused, Pending
<1>9. CASE out \in {"timeout", "io", "decode"}
  <2>1. d = 0
    <3>1. out # OutcomeOf(Head(toClient).res)
      BY <1>9 DEF OutcomeOf
    <3> QED BY <3>1 DEF EndStep
  <2> QED BY <1>6, <1>9, <2>1 DEF Service!Fail, Service!Failed
<1> QED BY <1>7, <1>8, <1>9 DEF Outcomes

\* A request the server runs is a call made, not run before and not refused,
\* and no later one has run, unless nobody cancelled it.
LEMMA RunRuns ==
  ASSUME CallInv, RunStep, UNCHANGED clientVars
  PROVE  \E n \in 0..calls : Service!Run(n)
<1> USE DEF CallInv
<1>1. PICK m \in Live : executed' = Append(executed, m.call)
  BY DEF RunStep, Ran
<1>2. m.call \in 0..calls
  <2>1. m.call \in Nat /\ Out(m.call) /\ calls \in Nat
    BY LiveType DEF MatchInv, TypeOK, OrderInv
  <2> QED BY <2>1 DEF Out
<1>3. LiveFacts(m)
  BY DEF LiveInv
<1>4. ~Service!HasRun(m.call)
  BY <1>3 DEF LiveFacts, Service!HasRun, Elements
<1>5. \/ \A i \in 1..Len(executed) : executed[i] < m.call
      \/ \E t \in returned : t.call = m.call /\ t.out = "decode"
  BY <1>3 DEF LiveFacts, Decoded, Elements
<1>6. \A t \in returned : t.call = m.call => t.out \notin {"rejected", "killed"}
  BY DEF AnswerInv, Gone
<1>7. UNCHANGED <<calls, req, returned>>
  BY DEF clientVars
<1>8. Pending' = Pending
  BY <1>7 DEF Pending
<1>9. Service!Run(m.call)
  BY <1>1, <1>4, <1>5, <1>6, <1>7, <1>8 DEF Service!Run, Service!Refused, Pending
<1> QED BY <1>2, <1>9

\* A step that changes nothing the service speaks of is a stutter.
LEMMA Stutters ==
  ASSUME UNCHANGED <<calls, req, executed, returned>>
  PROVE  UNCHANGED Service!vars
BY DEF Service!vars

\* What the tools are told of their requests is what a service that takes one
\* call at a time would tell them: run in the order of the calls and at most
\* once, answered with their own data, and never run after a refusal.
THEOREM Refines == Spec => ImplementsRequestReply
<1>1. Init => Service!Init
  BY DEF Init, Service!Init, NoRequest
<1>2. ASSUME CallInv, [Next]_vars PROVE [Service!Next]_(Service!vars)
  <2> USE <1>2
  <2>1. TypeOK /\ OrderInv /\ LiveInv /\ MutexInv
    BY DEF CallInv, MatchInv
  <2>2. CASE QuietStep
    BY <2>2, Stutters DEF QuietStep, serverVars
  <2>3. ASSUME NEW c \in Callers, Call(c) \/ ClientStep(c)
        PROVE  [Service!Next]_(Service!vars)
    <3>1. CASE BeginStep
      BY <3>1, BeginAsks DEF BeginStep, Service!Next
    <3>2. CASE SendStep
      BY <3>2, Stutters DEF SendStep, Send, Goto, serverVars
    <3>3. CASE \E out \in Outcomes, d \in Nat : EndStep(c, out, d)
      BY <3>3, EndTellsTrue DEF Service!Next
    <3> QED BY <2>1, <2>2, <2>3, <3>1, <3>2, <3>3, ClientKinds
  <2>4. CASE Server
    <3>1. ServerStep /\ UNCHANGED clientVars
      BY <2>1, <2>4, ServerSteps
    <3>2. CASE RunStep
      BY <3>1, <3>2, RunRuns DEF Service!Next
    <3>3. CASE RefuseStep \/ NoticeStep \/ CrashStep
      BY <3>1, <3>3, Stutters DEF RefuseStep, NoticeStep, CrashStep, clientVars
    <3> QED BY <3>1, <3>2, <3>3 DEF ServerStep
  <2>5. CASE UNCHANGED vars
    BY <2>5, Stutters DEF vars, clientVars, serverVars
  <2> QED BY <2>2, <2>3, <2>4, <2>5, HandshakeQuiet DEF Next, Finished
<1> QED BY <1>1, <1>2, CallsCorrect, PTL DEF Spec, ImplementsRequestReply, Service!Spec

-----------------------------------------------------------------------------
(* Numbers and their digits.                                               *)

\* Division with a remainder.
LEMMA DivMod ==
  ASSUME NEW n \in Nat
  PROVE  n \div Base \in Nat /\ n % Base \in 0 .. Base - 1 /\ (n \div Base) * Base + (n % Base) = n
<1>1. Base \in Nat /\ Base > 0
  BY CodecAssumption
<1> QED BY <1>1

\* What is left of a number with one digit less.
LEMMA DivLess ==
  ASSUME NEW n \in Nat, NEW p \in Nat, n < Base * p
  PROVE  n \div Base < p
<1>1. Base \in Nat /\ Base > 0
  BY CodecAssumption
<1> DEFINE q == n \div Base
<1>2. q \in Nat /\ q * Base <= n
  BY <1>1, DivMod
<1> HIDE DEF q
<1>3. ASSUME ~(q < p) PROVE FALSE
  <2>1. q >= p /\ q - p \in Nat
    BY <1>2, <1>3
  <2>2. (q - p) * Base \in Nat
    BY <1>1, <2>1
  <2>3. q * Base = (q - p) * Base + p * Base
    BY <1>1, <1>2, <2>1
  <2>4. q * Base \in Nat /\ p * Base \in Nat /\ p * Base = Base * p
    BY <1>1, <1>2
  <2> QED BY <1>2, <2>2, <2>3, <2>4
<1> QED BY <1>3 DEF q

\* Powers are what their definition says.
LEMMA PowerFacts ==
  ASSUME NEW n \in Nat
  PROVE  \E p \in [0 .. n -> Nat] :
           p[0] = 1 /\ (\A i \in 1 .. n : p[i] = Base * p[i - 1]) /\ Power(n) = p[n]
<1> DEFINE Fixed(f) == f = [i \in 0 .. n |-> IF i = 0 THEN 1 ELSE Base * f[i - 1]]
           F == CHOOSE f : Fixed(f)
<1>1. Power(n) = F[n]
  BY DEF Power
<1>2. PICK p \in [0 .. n -> Nat] : p[0] = 1 /\ \A i \in 1 .. n : p[i] = Base * p[i - 1]
  <2>1. PICK step \in [Nat -> Nat] : \A x \in Nat : step[x] = Base * x
    <3>1. [x \in Nat |-> Base * x] \in [Nat -> Nat]
      BY CodecAssumption
    <3> QED BY <3>1
  <2>4. PICK p : Steps(p, Nat, 1, n, step)
    <3>1. 1 \in Nat
      OBVIOUS
    <3> QED BY <3>1, StepsExist
  <2>2. p \in [0 .. n -> Nat] /\ p[0] = 1 /\ \A i \in 1 .. n : p[i] = step[p[i - 1]]
    BY <2>4 DEF Steps
  <2>3. \A i \in 1 .. n : i - 1 \in 0 .. n /\ p[i - 1] \in Nat
    BY <2>2
  <2> QED BY <2>1, <2>2, <2>3
<1>3. Fixed(p)
  BY <1>2
<1>4. Fixed(F)
  <2> HIDE DEF Fixed
  <2> QED BY <1>3
<1> HIDE DEF F
<1>5. F[0] = 1 /\ \A i \in 1 .. n : F[i] = Base * F[i - 1]
  <2>1. PICK G : G = F
    OBVIOUS
  <2>2. F = [i \in 0 .. n |-> IF i = 0 THEN 1 ELSE Base * G[i - 1]]
    BY <1>4, <2>1
  <2> QED BY <2>1, <2>2
<1>6. \A i \in 0 .. n : F[i] = p[i]
  <2>1. StepAlike(F, p, n)
    BY <1>2, <1>5 DEF StepAlike
  <2>2. F[0] = p[0]
    BY <1>2, <1>5
  <2> QED BY <2>1, <2>2, SameSteps
<1>7. n \in 0 .. n
  OBVIOUS
<1> QED BY <1>1, <1>2, <1>6, <1>7

\* A power is a number.
LEMMA PowerType == ASSUME NEW n \in Nat PROVE Power(n) \in Nat
<1>1. PICK p \in [0 .. n -> Nat] : Power(n) = p[n]
  BY PowerFacts
<1>2. n \in 0 .. n
  OBVIOUS
<1> QED BY <1>1, <1>2

\* Numbers of so many digits have nothing left after those digits.
LEMMA LeftFacts ==
  ASSUME NEW number \in Nat, NEW n \in Nat, number < Power(n),
         NEW m \in Nat, n <= m, NEW left \in [0 .. m -> Nat],
         left[0] = number, \A i \in 1 .. m : left[i] = left[i - 1] \div Base
  PROVE  left[n] = 0
<1>1. PICK p \in [0 .. n -> Nat] :
        p[0] = 1 /\ (\A i \in 1 .. n : p[i] = Base * p[i - 1]) /\ Power(n) = p[n]
  BY PowerFacts
<1> DEFINE A == {i \in 0 .. n : left[i] < p[n - i]}
<1>2. 0 \in A
  BY <1>1
<1>3. ASSUME NEW i \in A, i < n PROVE i + 1 \in A
  <2>1. i + 1 \in 1 .. m /\ (i + 1) - 1 = i /\ i + 1 \in 0 .. n /\ i \in 0 .. m
    BY <1>3
  <2>2. n - i \in 1 .. n /\ (n - i) - 1 = n - (i + 1) /\ n - (i + 1) \in 0 .. n
    BY <1>3
  <2>3. left[i + 1] = left[i] \div Base /\ left[i] \in Nat
    BY <2>1
  <2>4. p[n - i] = Base * p[n - (i + 1)] /\ p[n - (i + 1)] \in Nat
    BY <1>1, <2>2
  <2>5. left[i] \div Base < p[n - (i + 1)]
    BY <2>3, <2>4, DivLess
  <2> QED BY <2>1, <2>3, <2>5
<1>4. A \in SUBSET (0 .. n) /\ n \in 0 .. n /\ 0 \in Nat /\ 0 <= n
  OBVIOUS
<1> HIDE DEF A
<1>5. A = 0 .. n
  BY <1>2, <1>3, <1>4, CountUp
<1>6. left[n] < p[n - n]
  BY <1>4, <1>5 DEF A
<1>7. n - n = 0 /\ n \in 0 .. m
  OBVIOUS
<1>8. left[n] < 1 /\ left[n] \in Nat
  BY <1>1, <1>6, <1>7
<1> QED BY <1>8

\* A number that has so many digits gets them, the last the smallest.
LEMMA HexFacts ==
  ASSUME NEW number \in Nat, NEW n \in Nat, number < Power(n)
  PROVE  \E left \in [0 .. n -> Nat] :
           /\ left[0] = number /\ left[n] = 0
           /\ \A i \in 1 .. n : left[i] = left[i - 1] \div Base
           /\ Hex(number, n) = [k \in 1 .. n |-> left[n - k] % Base]
<1> DEFINE m == n + number
           Fixed(f) == f = [i \in 0 .. m |-> IF i = 0 THEN number ELSE f[i - 1] \div Base]
           F == CHOOSE f : Fixed(f)
           width(f) == CHOOSE w \in n .. m : f[w] = 0 /\ \A v \in n .. w - 1 : f[v] # 0
<1>1. Hex(number, n) = [k \in 1 .. width(F) |-> F[width(F) - k] % Base]
  BY DEF Hex
<1>2. m \in Nat /\ n <= m
  OBVIOUS
<1> HIDE DEF m
<1>3. PICK left \in [0 .. m -> Nat] :
        left[0] = number /\ \A i \in 1 .. m : left[i] = left[i - 1] \div Base
  <2>1. PICK step \in [Nat -> Nat] : \A x \in Nat : step[x] = x \div Base
    <3>1. [x \in Nat |-> x \div Base] \in [Nat -> Nat]
      BY DivMod
    <3> QED BY <3>1
  <2>2. PICK f : Steps(f, Nat, number, m, step)
    BY <1>2, <2>1, StepsExist
  <2>3. f \in [0 .. m -> Nat] /\ f[0] = number /\ \A i \in 1 .. m : f[i] = step[f[i - 1]]
    BY <2>2 DEF Steps
  <2>4. \A i \in 1 .. m : i - 1 \in 0 .. m
    BY <1>2
  <2>5. \A i \in 1 .. m : f[i] = f[i - 1] \div Base
    BY <2>1, <2>3, <2>4
  <2> QED BY <2>3, <2>5
<1>4. Fixed(left)
  BY <1>3
<1>5. Fixed(F)
  <2> HIDE DEF Fixed
  <2> QED BY <1>4
<1> HIDE DEF F
<1>6. F \in [0 .. m -> Nat] /\ F[0] = number /\ \A i \in 1 .. m : F[i] = F[i - 1] \div Base
  <2>1. PICK G : G = F
    OBVIOUS
  <2>2. F = [i \in 0 .. m |-> IF i = 0 THEN number ELSE G[i - 1] \div Base]
    BY <1>5, <2>1
  <2>3. F[0] = number /\ \A i \in 1 .. m : F[i] = F[i - 1] \div Base
    BY <1>2, <2>1, <2>2
  <2>4. StepAlike(F, left, m)
    BY <1>3, <2>3 DEF StepAlike
  <2>5. F[0] = left[0]
    BY <1>3, <2>3
  <2>8. \A i \in 0 .. m : F[i] = left[i]
    BY <1>2, <2>4, <2>5, SameSteps
  <2>9. \A i \in 0 .. m : F[i] \in Nat
    BY <1>3, <2>8
  <2> QED BY <2>2, <2>3, <2>9
<1>7. F[n] = 0
  BY <1>2, <1>6, LeftFacts
<1>8. width(F) = n
  <2> DEFINE W(w) == w \in n .. m /\ F[w] = 0 /\ \A v \in n .. w - 1 : F[v] # 0
  <2>1. W(n)
    BY <1>2, <1>7
  <2>2. ASSUME NEW w, W(w) PROVE w = n
    <3>1. CASE n \in n .. w - 1
      BY <1>7, <2>2, <3>1
    <3>2. CASE n \notin n .. w - 1
      BY <1>2, <2>2, <3>2
    <3> QED BY <3>1, <3>2
  <2>3. width(F) = CHOOSE w : W(w)
    OBVIOUS
  <2> HIDE DEF W, width
  <2> QED BY <2>1, <2>2, <2>3
<1>9. Hex(number, n) = [k \in 1 .. n |-> F[n - k] % Base]
  BY <1>1, <1>8
<1> DEFINE g == [i \in 0 .. n |-> F[i]]
<1>10. \A i \in 0 .. n : i \in 0 .. m
  BY <1>2
<1>11. \A i \in 1 .. n : i \in 0 .. n /\ i - 1 \in 0 .. n /\ i \in 1 .. m
  BY <1>2
<1>12. \A k \in 1 .. n : n - k \in 0 .. n
  OBVIOUS
<1>13. g \in [0 .. n -> Nat] /\ \A i \in 0 .. n : g[i] = F[i]
  BY <1>6, <1>10
<1> HIDE DEF g, Fixed, width
<1>14. g[0] = number /\ g[n] = 0 /\ \A i \in 1 .. n : g[i] = g[i - 1] \div Base
  <2>1. 0 \in 0 .. n /\ n \in 0 .. n
    OBVIOUS
  <2>2. \A i \in 1 .. n : g[i] = F[i] /\ g[i - 1] = F[i - 1] /\ F[i] = F[i - 1] \div Base
    BY <1>6, <1>11, <1>13
  <2> QED BY <1>6, <1>7, <1>13, <2>1, <2>2
<1>15. Hex(number, n) = [k \in 1 .. n |-> g[n - k] % Base]
  BY <1>9, <1>12, <1>13
<1> QED BY <1>13, <1>14, <1>15

\* from_str_radix returns the number the digits were made of.
LEMMA NumberOfHex ==
  ASSUME NEW number \in Nat, NEW n \in Nat, number < Power(n)
  PROVE  /\ Hex(number, n) \in [1 .. n -> 0 .. Base - 1]
         /\ Number(Hex(number, n)) = number
<1>1. PICK left \in [0 .. n -> Nat] :
        /\ left[0] = number /\ left[n] = 0
        /\ \A i \in 1 .. n : left[i] = left[i - 1] \div Base
        /\ Hex(number, n) = [k \in 1 .. n |-> left[n - k] % Base]
  BY HexFacts
<1>2. PICK d : d = Hex(number, n)
  OBVIOUS
<1>3. ASSUME NEW k \in 1 .. n
      PROVE  n - k \in 0 .. n /\ left[n - k] \in Nat /\ left[n - k] % Base \in 0 .. Base - 1
  <2>1. n - k \in 0 .. n
    OBVIOUS
  <2>2. left[n - k] \in Nat
    BY <2>1
  <2> QED BY <2>1, <2>2, DivMod
<1>4. d \in [1 .. n -> 0 .. Base - 1] /\ \A k \in 1 .. n : d[k] = left[n - k] % Base
  BY <1>1, <1>2, <1>3
<1>5. Len(d) = n
  BY <1>4
<1> DEFINE Fixed(f) == f = [k \in 0 .. n |-> IF k = 0 THEN 0 ELSE f[k - 1] * Base + d[k]]
           F == CHOOSE f : Fixed(f)
           g == [k \in 0 .. n |-> left[n - k]]
<1>6. Number(d) = F[n]
  BY <1>5 DEF Number
<1>7. Fixed(g)
  <2>1. ASSUME NEW k \in 1 .. n PROVE g[k] = g[k - 1] * Base + d[k]
    <3>1. k \in 0 .. n /\ k - 1 \in 0 .. n /\ n - (k - 1) \in 1 .. n /\ (n - (k - 1)) - 1 = n - k
      OBVIOUS
    <3>2. n - (k - 1) = (n - k) + 1
      OBVIOUS
    <3>3. g[k] = left[n - k] /\ g[k - 1] = left[n - (k - 1)]
      BY <3>1
    <3>4. left[n - (k - 1)] = left[n - k] \div Base
      BY <1>1, <3>1
    <3>5. (left[n - k] \div Base) * Base + (left[n - k] % Base) = left[n - k]
      BY <1>3, DivMod
    <3> QED BY <1>4, <3>3, <3>4, <3>5
  <2>2. g[0] = 0
    BY <1>1
  <2>3. PICK h : h = g
    OBVIOUS
  <2>4. \A k \in 0 .. n : k = 0 \/ k \in 1 .. n
    OBVIOUS
  <2>5. h = [k \in 0 .. n |-> h[k]] /\ h[0] = 0 /\ \A k \in 1 .. n : h[k] = h[k - 1] * Base + d[k]
    BY <2>1, <2>2, <2>3
  <2>6. Fixed(h)
    BY <2>4, <2>5
  <2> QED BY <2>3, <2>6
<1>8. Fixed(F)
  <2> HIDE DEF Fixed
  <2> QED BY <1>7
<1>9. \A k \in 0 .. n : g[k] = left[n - k]
  OBVIOUS
<1> HIDE DEF F, g
<1>10. /\ F[0] = 0 /\ \A k \in 1 .. n : F[k] = F[k - 1] * Base + d[k]
       /\ g[0] = 0 /\ \A k \in 1 .. n : g[k] = g[k - 1] * Base + d[k]
  <2>1. PICK G : G = F
    OBVIOUS
  <2>2. F = [k \in 0 .. n |-> IF k = 0 THEN 0 ELSE G[k - 1] * Base + d[k]]
    BY <1>8, <2>1
  <2>3. PICK H : H = g
    OBVIOUS
  <2>4. g = [k \in 0 .. n |-> IF k = 0 THEN 0 ELSE H[k - 1] * Base + d[k]]
    BY <1>7, <2>3
  <2> QED BY <2>1, <2>2, <2>3, <2>4
<1>11. \A k \in 0 .. n : F[k] = g[k]
  <2>1. StepAlike(F, g, n)
    BY <1>10 DEF StepAlike
  <2>2. F[0] = g[0]
    BY <1>10
  <2> QED BY <2>1, <2>2, SameSteps
<1>13. n \in 0 .. n /\ n - n = 0
  OBVIOUS
<1>15. F[n] = g[n]
  BY <1>11, <1>13
<1>16. g[n] = left[0]
  BY <1>9, <1>13
<1> QED BY <1>1, <1>2, <1>4, <1>6, <1>15, <1>16

-----------------------------------------------------------------------------
(* Frames and the buffer.                                                  *)

\* The bytes of a frame: its letter, the digits of its length, its payload.
IsFrame(e, i, p) ==
  /\ i \in 1 .. 3 /\ p \in Seq(Nat) /\ Len(p) \in Nat /\ Digits[i] \in Nat \ {0}
  /\ e \in Seq(Nat) /\ Len(e) = 1 + Digits[i] + Len(p)
  /\ e[1] = Base + i
  /\ \A k \in 1 .. Digits[i] : e[k + 1] \in 0 .. Base - 1
  /\ Number([k \in 1 .. Digits[i] |-> e[k + 1]]) = Len(p)
  /\ \A k \in 1 .. Len(p) : e[1 + Digits[i] + k] = p[k]

\* What can be sent: any bytes, of a length that is.
Sendable == {p \in Seq(Nat) : Len(p) \in PayloadLengths}

\* Encode makes them.
LEMMA EncodeFacts ==
  ASSUME NEW p \in Sendable, NEW e, e = Encode(p)
  PROVE  \E i : IsFrame(e, i, p)
<1>3. PICK n : n = Len(p)
  OBVIOUS
<1>4. p \in Seq(Nat) /\ Len(p) = n /\ n \in PayloadLengths
  BY <1>3 DEF Sendable
<1>1. n \in Nat /\ Base \in Nat /\ \A i \in 1 .. 3 : Digits[i] \in Nat /\ Digits[i] # 0
  BY <1>4, CodecAssumption
<1>2. \A i \in 1 .. 3 : Power(Digits[i]) \in Nat
  <2> TAKE i \in 1 .. 3
  <2>1. PICK d : d = Digits[i]
    OBVIOUS
  <2>2. d \in Nat
    BY <1>1, <2>1
  <2> QED BY <2>1, <2>2, PowerType
<1>5. PICK i : i = Width(n)
  OBVIOUS
<1>6. i \in 1 .. 3 /\ n < Power(Digits[i])
  <2>1. n < Power(Digits[3])
    BY <1>4, CodecAssumption
  <2>2. \A j \in 1 .. 3 : n <= Largest(j) => n < Power(Digits[j])
    BY <1>1, <1>2 DEF Largest
  <2> QED BY <1>5, <2>1, <2>2 DEF Width
<1>7. PICK D : D = Digits[i]
  OBVIOUS
<1>8. D \in Nat /\ D # 0 /\ n < Power(D)
  BY <1>1, <1>6, <1>7
<1>9. PICK h : h = Hex(n, D)
  OBVIOUS
<1>10. h \in [1 .. D -> 0 .. Base - 1] /\ Number(h) = n
  BY <1>1, <1>8, <1>9, NumberOfHex
<1>11. h \in Seq(Nat) /\ Len(h) = D /\ \A k \in 1 .. D : h[k] \in 0 .. Base - 1
  BY <1>1, <1>8, <1>10
<1>12. e = <<Base + i>> \o h \o p
  BY <1>3, <1>4, <1>5, <1>7, <1>9 DEF Encode, Letter
<1>13. Base + i \in Nat /\ <<Base + i>> \in Seq(Nat) /\ Len(<<Base + i>>) = 1
  BY <1>1, <1>6
<1>14. PICK a : a = <<Base + i>> \o h
  OBVIOUS
<1>15. /\ a \in Seq(Nat) /\ Len(a) = 1 + D /\ a[1] = Base + i
       /\ \A k \in 1 .. D : a[k + 1] = h[k]
  BY <1>8, <1>11, <1>13, <1>14
<1>16. /\ e \in Seq(Nat) /\ Len(e) = 1 + D + n
       /\ \A k \in 1 .. 1 + D : e[k] = a[k]
       /\ \A k \in 1 .. n : e[1 + D + k] = p[k]
  <2>1. e = a \o p
    BY <1>12, <1>14
  <2>7. a \in Seq(Nat) /\ p \in Seq(Nat)
    BY <1>4, <1>15
  <2>8. /\ e \in Seq(Nat) /\ Len(e) = Len(a) + Len(p)
        /\ \A k \in 1 .. Len(a) + Len(p) : e[k] = IF k <= Len(a) THEN a[k] ELSE p[k - Len(a)]
    BY <2>1, <2>7, ConcatProperties
  <2>2. e \in Seq(Nat) /\ Len(e) = 1 + D + n
    BY <1>4, <1>15, <2>8
  <2>3. \A k \in 1 .. 1 + D : e[k] = a[k]
    BY <1>1, <1>4, <1>8, <1>15, <2>1
  <2>4. \A k \in 1 .. n : (1 + D + k) \in 1 .. Len(a) + Len(p) /\ ~(1 + D + k <= Len(a))
    BY <1>1, <1>4, <1>8, <1>15
  <2>5. \A k \in 1 .. n : (1 + D + k) - Len(a) = k
    BY <1>1, <1>8, <1>15
  <2>6. \A k \in 1 .. n : e[1 + D + k] = p[k]
    BY <2>4, <2>5, <2>8
  <2> QED BY <2>2, <2>3, <2>6
<1>17. \A k \in 1 .. D : k + 1 \in 1 .. 1 + D
  BY <1>8
<1>18. \A k \in 1 .. D : e[k + 1] = h[k]
  BY <1>15, <1>16, <1>17
<1>19. h = [k \in 1 .. D |-> e[k + 1]]
  BY <1>10, <1>18
<1>20. e[1] = Base + i
  <2>1. 1 \in 1 .. 1 + D
    BY <1>8
  <2> QED BY <1>15, <1>16, <2>1
<1>21. IsFrame(e, i, p)
  BY <1>1, <1>4, <1>6, <1>7, <1>8, <1>10, <1>11, <1>16, <1>18, <1>19, <1>20 DEF IsFrame
<1> QED BY <1>21

\* What has arrived begins with the frame, or is the beginning of it.
Follows(b, e) == b \in Seq(Nat) /\ \A k \in 1 .. Len(b) : k <= Len(e) => b[k] = e[k]

\* Decode waits for the frame until it is there and then returns its payload.
LEMMA DecodeFrame ==
  ASSUME NEW e, NEW i, NEW p, IsFrame(e, i, p), NEW b, Follows(b, e)
  PROVE  Decode(b) = IF Len(b) < Len(e) THEN [result |-> "incomplete"]
                     ELSE [result |-> "frame", payload |-> p, consumed |-> Len(e)]
<1>1. PICK D, n : D = Digits[i] /\ n = Len(p)
  OBVIOUS
<1>2. /\ Base \in Nat /\ i \in 1 .. 3 /\ n \in Nat /\ p \in Seq(Nat) /\ Len(p) = n /\ D \in Nat /\ D # 0
      /\ b \in Seq(Nat) /\ Len(b) \in Nat /\ Len(e) = 1 + D + n
  BY <1>1, CodecAssumption DEF IsFrame, Follows
<1>3. CASE b = <<>>
  BY <1>2, <1>3 DEF Decode
<1>4. CASE b # <<>>
  <2> DEFINE header == 1 + Digits[Head(b) - Base]
             digits == SubSeq(b, 2, header)
             total  == header + Number(digits)
  <2>1. Len(b) >= 1 /\ Head(b) = b[1] /\ b[1] = Base + i
    <3>1. 1 \in 1 .. Len(b) /\ 1 <= Len(e)
      BY <1>2, <1>4
    <3> QED BY <1>2, <1>4, <3>1 DEF Follows, IsFrame
  <2>2. Head(b) \in {Letter(j) : j \in 1 .. 3} /\ header = 1 + D
    <3>1. PICK x : x = Head(b)
      OBVIOUS
    <3>2. x = Base + i /\ x - Base = i
      BY <1>2, <2>1, <3>1
    <3>3. x \in {Letter(j) : j \in 1 .. 3}
      BY <1>2, <3>2 DEF Letter
    <3> QED BY <1>1, <3>1, <3>2, <3>3
  <2>3. Decode(b) = IF Len(b) < header THEN [result |-> "incomplete"]
                    ELSE IF \E digit \in ToSet(digits) : digit >= Base THEN [result |-> "malformed"]
                    ELSE IF Len(b) < total THEN [result |-> "incomplete"]
                    ELSE [result |-> "frame", payload |-> SubSeq(b, header + 1, total), consumed |-> total]
    BY <1>4, <2>2 DEF Decode
  <2> HIDE DEF header
  <2>4. CASE Len(b) < 1 + D
    BY <1>2, <2>2, <2>3, <2>4
  <2>5. CASE ~(Len(b) < 1 + D)
    <3>1. \A k \in 1 .. D : k + 1 \in 1 .. Len(b) /\ k + 1 <= Len(e) /\ k + 2 - 1 = k + 1
      BY <1>2, <2>5
    <3>2. digits = [k \in 1 .. D |-> b[k + 2 - 1]]
      BY <1>2, <2>2, <2>5
    <3> HIDE DEF digits
    <3>3. \A k \in 1 .. D : b[k + 2 - 1] = e[k + 1]
      BY <1>2, <3>1 DEF Follows
    <3>4. digits = [k \in 1 .. D |-> e[k + 1]]
      BY <3>2, <3>3
    <3>5. Number(digits) = n /\ \A k \in 1 .. D : digits[k] \in 0 .. Base - 1
      BY <1>1, <3>4 DEF IsFrame
    <3>6. ~ \E digit \in ToSet(digits) : digit >= Base
      BY <1>2, <3>4, <3>5 DEF ToSet
    <3>7. total = Len(e)
      BY <1>2, <2>2, <3>5
    <3>8. Decode(b) = IF Len(b) < Len(e) THEN [result |-> "incomplete"]
                      ELSE [result |-> "frame", payload |-> SubSeq(b, 1 + D + 1, Len(e)), consumed |-> Len(e)]
      BY <2>2, <2>3, <2>5, <3>6, <3>7
    <3>9. ASSUME ~(Len(b) < Len(e)) PROVE SubSeq(b, 1 + D + 1, Len(e)) = p
      <4>1. Len(e) <= Len(b)
        BY <1>2, <3>9
      <4>2. SubSeq(b, 1 + D + 1, Len(e)) = [k \in 1 .. n |-> b[k + (1 + D + 1) - 1]]
        BY <1>2, <4>1
      <4>3. ASSUME NEW k \in 1 .. n PROVE b[k + (1 + D + 1) - 1] = p[k]
        <5>1. /\ k + (1 + D + 1) - 1 = 1 + D + k /\ 1 + D + k \in 1 .. Len(b)
              /\ 1 + D + k <= Len(e)
          BY <1>2, <4>1
        <5>2. b[1 + D + k] = e[1 + D + k]
          BY <5>1 DEF Follows
        <5>3. e[1 + D + k] = p[k]
          BY <1>1 DEF IsFrame
        <5> QED BY <5>1, <5>2, <5>3
      <4>4. p = [k \in 1 .. n |-> p[k]]
        BY <1>2
      <4> QED BY <4>2, <4>3, <4>4
    <3> QED BY <3>8, <3>9
  <2> QED BY <2>4, <2>5
<1> QED BY <1>3, <1>4

-----------------------------------------------------------------------------
(* Frames that follow one another.                                         *)

\* One sequence begins with another.
Extends(s, t) == Len(t) <= Len(s) /\ \A j \in 1 .. Len(t) : s[j] = t[j]

\* Extending goes on.
LEMMA ExtendsMore ==
  ASSUME NEW S, NEW s \in Seq(S), NEW t \in Seq(S), NEW u \in Seq(S), Extends(s, t)
  PROVE  Extends(s \o u, t)
<1>1. PICK r : r = s \o u
  OBVIOUS
<1>2. /\ Len(r) = Len(s) + Len(u) /\ Len(s) \in Nat /\ Len(u) \in Nat /\ Len(t) \in Nat
      /\ \A k \in 1 .. Len(s) + Len(u) : r[k] = IF k <= Len(s) THEN s[k] ELSE u[k - Len(s)]
  BY <1>1, ConcatProperties
<1>3. Len(t) <= Len(s)
  BY DEF Extends
<1>4. \A j \in 1 .. Len(t) : j \in 1 .. Len(s) + Len(u) /\ j <= Len(s)
  BY <1>2, <1>3
<1>5. \A j \in 1 .. Len(t) : r[j] = t[j]
  BY <1>2, <1>4 DEF Extends
<1>6. Len(t) <= Len(r)
  BY <1>2, <1>3
<1> QED BY <1>1, <1>5, <1>6 DEF Extends

\* What is joined later begins with what was joined before, and it is as long as
\* there are parts, if none is empty.
LEMMA JoinExtends ==
  ASSUME NEW S, NEW ss \in Seq(Seq(S)), NEW f, IsJoin(f, ss, S),
         \A i \in 1 .. Len(ss) : Len(ss[i]) # 0
  PROVE  \A k \in 0 .. Len(ss) : /\ Len(f[k]) \in Nat /\ Len(f[k]) >= k
                                 /\ \A n \in k .. Len(ss) : Extends(f[n], f[k])
<1>1. Len(ss) \in Nat /\ \A i \in 1 .. Len(ss) : ss[i] \in Seq(S)
  OBVIOUS
<1>2. PICK N : N = Len(ss)
  OBVIOUS
<1>3. /\ N \in Nat /\ \A i \in 0 .. N : f[i] \in Seq(S)
      /\ f[0] = <<>> /\ \A i \in 1 .. N : f[i] = f[i - 1] \o ss[i]
  BY <1>1, <1>2 DEF IsJoin
<1>4. \A i \in 0 .. N : Len(f[i]) \in Nat
  BY <1>3, LenProperties
<1>5. \A k \in 0 .. N : Len(f[k]) >= k
  <2> DEFINE A == {k \in 0 .. N : Len(f[k]) >= k}
  <2>1. 0 \in A
    BY <1>3
  <2>2. ASSUME NEW k \in A, k < N PROVE k + 1 \in A
    <3>1. k + 1 \in 1 .. N /\ (k + 1) - 1 = k /\ k + 1 \in 0 .. N /\ k \in 0 .. N
      BY <1>3, <2>2
    <3>2. f[k] \in Seq(S) /\ ss[k + 1] \in Seq(S) /\ f[k + 1] = f[k] \o ss[k + 1]
      BY <1>1, <1>2, <1>3, <3>1
    <3>3. Len(f[k + 1]) = Len(f[k]) + Len(ss[k + 1])
      BY <3>2, ConcatProperties
    <3>4. Len(ss[k + 1]) \in Nat /\ Len(ss[k + 1]) # 0
      BY <1>2, <3>1, <3>2, LenProperties
    <3>5. Len(f[k]) >= k /\ Len(f[k]) \in Nat
      BY <1>4, <3>1
    <3>6. k \in Nat
      BY <3>1
    <3>8. PICK x, y, z : x = Len(f[k]) /\ y = Len(ss[k + 1]) /\ z = Len(f[k + 1])
      OBVIOUS
    <3>9. z = x + y /\ y \in Nat /\ y # 0 /\ x \in Nat /\ x >= k
      BY <3>3, <3>4, <3>5, <3>8
    <3>7. z >= k + 1
      BY <3>6, <3>9
    <3> QED BY <3>1, <3>7, <3>8
  <2>3. A \in SUBSET (0 .. N) /\ 0 \in Nat /\ 0 <= N
    BY <1>3
  <2> HIDE DEF A
  <2>4. A = 0 .. N
    BY <1>3, <2>1, <2>2, <2>3, CountUp
  <2> QED BY <2>4 DEF A
<1>6. ASSUME NEW k \in 0 .. N, NEW n \in k .. N PROVE Extends(f[n], f[k])
  <2> DEFINE A == {m \in k .. N : Extends(f[m], f[k])}
  <2>1. k \in Nat /\ k <= N /\ A \in SUBSET (k .. N)
    BY <1>3
  <2>2. k \in A
    BY <1>3, <1>4, <2>1 DEF Extends
  <2>3. ASSUME NEW m \in A, m < N PROVE m + 1 \in A
    <3>1. m + 1 \in 1 .. N /\ (m + 1) - 1 = m /\ m + 1 \in k .. N /\ m \in 0 .. N
      BY <1>3, <2>3
    <3>2. /\ f[m] \in Seq(S) /\ ss[m + 1] \in Seq(S) /\ f[m + 1] = f[m] \o ss[m + 1]
          /\ f[k] \in Seq(S)
      BY <1>1, <1>2, <1>3, <3>1
    <3>3. Extends(f[m] \o ss[m + 1], f[k])
      BY <3>2, ExtendsMore
    <3> QED BY <3>1, <3>2, <3>3
  <2> HIDE DEF A
  <2>4. A = k .. N
    BY <1>3, <2>1, <2>2, <2>3, CountUp
  <2> QED BY <2>4 DEF A
<1> QED BY <1>2, <1>4, <1>5, <1>6

\* The beginnings of the join are the joins of the beginnings.
LEMMA JoinBegins ==
  ASSUME NEW S, NEW ss \in Seq(Seq(S)), NEW f, IsJoin(f, ss, S), NEW k \in 0 .. Len(ss)
  PROVE  FlattenSeq(SubSeq(ss, 1, k)) = f[k]
<1>1. PICK ts : ts = SubSeq(ss, 1, k)
  OBVIOUS
<1>2. Len(ss) \in Nat /\ k \in Nat /\ k <= Len(ss)
  OBVIOUS
<1>3. ts \in Seq(Seq(S)) /\ Len(ts) = k /\ \A i \in 1 .. k : ts[i] = ss[i]
  BY <1>1, <1>2
<1>4. PICK g : IsJoin(g, ts, S) /\ FlattenSeq(ts) = g[Len(ts)]
  BY <1>3, FlattenJoins
<1>5. StepAlike(g, f, k)
  <2>1. \A i \in 1 .. k : i \in 1 .. Len(ss)
    BY <1>2
  <2>2. \A i \in 1 .. k : g[i] = g[i - 1] \o ss[i]
    BY <1>3, <1>4 DEF IsJoin
  <2>3. \A i \in 1 .. k : f[i] = f[i - 1] \o ss[i]
    BY <2>1 DEF IsJoin
  <2> QED BY <2>2, <2>3 DEF StepAlike
<1>6. g[0] = f[0]
  BY <1>4 DEF IsJoin
<1>7. \A i \in 0 .. k : g[i] = f[i]
  BY <1>2, <1>5, <1>6, SameSteps
<1> QED BY <1>1, <1>2, <1>3, <1>4, <1>7

\* The bytes of the payloads, after each of them.
SentAs(f, payloads) ==
  /\ f[0] = <<>> /\ \A i \in 1 .. Len(payloads) : f[i] = f[i - 1] \o Encode(payloads[i])
  /\ \A k \in 0 .. Len(payloads) : /\ f[k] \in Seq(Nat) /\ Len(f[k]) \in Nat /\ Len(f[k]) >= k
                                   /\ Sent(SubSeq(payloads, 1, k)) = f[k]
                                   /\ \A n \in k .. Len(payloads) : Extends(f[n], f[k])
  /\ Sent(payloads) = f[Len(payloads)]

\* Sent joins the frames.
LEMMA SentFacts ==
  ASSUME NEW payloads \in Seq(Sendable)
  PROVE  \E f : SentAs(f, payloads)
<1>1. PICK N : N = Len(payloads)
  OBVIOUS
<1>2. N \in Nat /\ DOMAIN payloads = 1 .. N /\ \A i \in 1 .. N : payloads[i] \in Sendable
  BY <1>1
<1>3. \A i \in 1 .. N : Encode(payloads[i]) \in Seq(Nat) /\ Len(Encode(payloads[i])) # 0
  <2> TAKE i \in 1 .. N
  <2>1. PICK j : IsFrame(Encode(payloads[i]), j, payloads[i])
    BY <1>2, EncodeFacts
  <2> QED BY <2>1 DEF IsFrame
<1>4. PICK ss : ss = [i \in 1 .. N |-> Encode(payloads[i])]
  OBVIOUS
<1>5. ss \in Seq(Seq(Nat)) /\ Len(ss) = N /\ \A i \in 1 .. N : ss[i] = Encode(payloads[i])
  <2>1. ss \in [1 .. N -> Seq(Nat)]
    BY <1>3, <1>4
  <2> QED BY <1>2, <1>4, <2>1
<1>6. Sent(payloads) = FlattenSeq(ss)
  BY <1>2, <1>4 DEF Sent
<1>7. PICK f : IsJoin(f, ss, Nat) /\ FlattenSeq(ss) = f[N]
  BY <1>5, FlattenJoins
<1>8. \A k \in 0 .. N : /\ Len(f[k]) \in Nat /\ Len(f[k]) >= k
                        /\ \A n \in k .. N : Extends(f[n], f[k])
  BY <1>3, <1>5, <1>7, JoinExtends
<1>9. \A k \in 0 .. N : Sent(SubSeq(payloads, 1, k)) = f[k]
  <2> TAKE k \in 0 .. N
  <2>1. PICK q : q = SubSeq(payloads, 1, k)
    OBVIOUS
  <2>2. k \in Nat /\ k <= N
    BY <1>2
  <2>3. DOMAIN q = 1 .. k /\ \A i \in 1 .. k : q[i] = payloads[i]
    BY <1>1, <1>2, <2>1, <2>2
  <2>4. \A i \in 1 .. k : i \in 1 .. N
    BY <1>2, <2>2
  <2>5. PICK ts : ts = SubSeq(ss, 1, k)
    OBVIOUS
  <2>6. ts = [i \in 1 .. k |-> ss[i]]
    BY <1>5, <2>2, <2>5
  <2>7. ts = [i \in DOMAIN q |-> Encode(q[i])]
    BY <1>5, <2>3, <2>4, <2>6
  <2>8. FlattenSeq(ts) = f[k]
    BY <1>5, <1>7, <2>5, JoinBegins
  <2> QED BY <2>1, <2>7, <2>8 DEF Sent
<1>10. f[0] = <<>> /\ \A i \in 1 .. N : f[i] = f[i - 1] \o Encode(payloads[i])
  BY <1>5, <1>7 DEF IsJoin
<1>11. \A k \in 0 .. N : f[k] \in Seq(Nat)
  BY <1>5, <1>7 DEF IsJoin
<1> QED BY <1>1, <1>6, <1>7, <1>8, <1>9, <1>10, <1>11 DEF SentAs

\* What is kept of what has arrived, after the frames it begins with, is the
\* beginning of the next frame and what follows it.
LEMMA KeptFacts ==
  ASSUME NEW payloads \in Seq(Sendable), NEW f, SentAs(f, payloads),
         NEW N, N = Len(payloads), NEW c \in 0 .. N,
         NEW arrived \in Nat, Len(f[c]) <= arrived, arrived <= Len(f[N]),
         NEW b, b = SubSeq(f[N], Len(f[c]) + 1, arrived)
  PROVE  /\ IsMiddle(b, f[N], Len(f[c]), arrived, Nat)
         /\ c < N => /\ Follows(b, Encode(payloads[c + 1]))
                     /\ Len(f[c + 1]) = Len(f[c]) + Len(Encode(payloads[c + 1]))
<1>1. N \in Nat /\ N \in 0 .. N /\ c \in Nat /\ c <= N
  OBVIOUS
<1>2. PICK l : l = Len(f[c])
  OBVIOUS
<1>3. l \in Nat /\ f[N] \in Seq(Nat) /\ f[c] \in Seq(Nat) /\ Len(f[N]) \in Nat
  BY <1>1, <1>2 DEF SentAs
<1>4. PICK s : s = f[N]
  OBVIOUS
<1>5. /\ IsMiddle(b, s, l, arrived, Nat) /\ b \in Seq(Nat) /\ Len(b) = arrived - l
      /\ \A m \in 1 .. Len(b) : b[m] = s[l + m]
  <2>1. l <= arrived /\ arrived <= Len(s) /\ s \in Seq(Nat)
    BY <1>2, <1>3, <1>4
  <2>2. b = SubSeq(s, l + 1, arrived)
    BY <1>2, <1>4
  <2>3. IsMiddle(b, s, l, arrived, Nat)
    BY <1>3, <2>1, <2>2, Middle
  <2> QED BY <2>3 DEF IsMiddle
<1>6. ASSUME c < N
      PROVE  /\ Follows(b, Encode(payloads[c + 1]))
             /\ Len(f[c + 1]) = l + Len(Encode(payloads[c + 1]))
  <2>1. c + 1 \in 1 .. N /\ (c + 1) - 1 = c /\ c + 1 \in 0 .. N /\ N \in c + 1 .. N
    BY <1>1, <1>6
  <2>2. PICK e : e = Encode(payloads[c + 1])
    OBVIOUS
  <2>3. PICK g : g = f[c + 1]
    OBVIOUS
  <2>4. g = f[c] \o e /\ Extends(s, g)
    BY <1>4, <2>1, <2>2, <2>3 DEF SentAs
  <2>5. e \in Seq(Nat)
    <3>1. payloads[c + 1] \in Sendable
      BY <2>1
    <3>2. PICK j : IsFrame(e, j, payloads[c + 1])
      BY <2>2, <3>1, EncodeFacts
    <3> QED BY <3>2 DEF IsFrame
  <2>6. /\ Len(g) = l + Len(e) /\ Len(e) \in Nat
        /\ \A k \in 1 .. l + Len(e) : g[k] = IF k <= l THEN f[c][k] ELSE e[k - l]
    BY <1>2, <1>3, <2>4, <2>5, ConcatProperties
  <2>7. ASSUME NEW k \in 1 .. Len(b), k <= Len(e) PROVE b[k] = e[k]
    <3>1. k \in Nat /\ l + k \in 1 .. l + Len(e) /\ ~(l + k <= l) /\ (l + k) - l = k
      BY <1>3, <1>5, <2>6, <2>7
    <3>2. g[l + k] = e[k]
      BY <2>6, <3>1
    <3>3. s[l + k] = g[l + k]
      BY <2>4, <2>6, <3>1 DEF Extends
    <3> QED BY <1>5, <3>2, <3>3
  <2>8. Follows(b, e)
    BY <1>5, <2>7 DEF Follows
  <2> QED BY <2>2, <2>3, <2>6, <2>8
<1> QED BY <1>2, <1>4, <1>5, <1>6

\* recv_frame leads from states of a set to states of it.
Closed(S) == \A s \in S : RecvFrame(s) \in S

\* The states that calls of recv_frame lead through.
Calls(f, first, n) == f[0] = first /\ \A i \in 1 .. n : f[i] = RecvFrame(f[i - 1])

\* Receive calls recv_frame one time after the other, whatever states S that goes
\* through.
LEMMA ReceiveFacts ==
  ASSUME NEW bytes \in Seq(Nat), NEW S,
         NEW first, first = [payloads |-> <<>>, buffer |-> bytes, result |-> "frame"],
         first \in S, Closed(S)
  PROVE  \E f : Calls(f, first, Len(bytes) + 1) /\ Receive(bytes) = f[Len(bytes) + 1]
<1>1. PICK n : n = Len(bytes) + 1
  OBVIOUS
<1>2. n \in Nat
  BY <1>1
<1> DEFINE Fixed(f) == f = [call \in 0 .. n |->
                              IF call = 0 THEN [payloads |-> <<>>, buffer |-> bytes, result |-> "frame"]
                              ELSE RecvFrame(f[call - 1])]
           F == CHOOSE f : Fixed(f)
<1>3. Receive(bytes) = F[n]
  BY <1>1 DEF Receive
<1>4. PICK step \in [S -> S] : \A s \in S : step[s] = RecvFrame(s)
  <2>1. [s \in S |-> RecvFrame(s)] \in [S -> S]
    BY DEF Closed
  <2> QED BY <2>1
<1>5. PICK g : Steps(g, S, first, n, step)
  BY <1>2, <1>4, StepsExist
<1>6. g \in [0 .. n -> S] /\ g[0] = first /\ \A i \in 1 .. n : g[i] = RecvFrame(g[i - 1])
  <2>1. g \in [0 .. n -> S] /\ g[0] = first /\ \A i \in 1 .. n : g[i] = step[g[i - 1]]
    BY <1>5 DEF Steps
  <2>2. \A i \in 1 .. n : i - 1 \in 0 .. n
    BY <1>2
  <2>3. \A i \in 1 .. n : g[i - 1] \in S
    BY <2>1, <2>2
  <2> QED BY <1>4, <2>1, <2>3
<1>7. Fixed(g)
  <2>1. \A call \in 0 .. n : call = 0 \/ call \in 1 .. n
    BY <1>2
  <2>2. g = [call \in 0 .. n |-> g[call]]
    BY <1>6
  <2>3. \A call \in 0 .. n : g[call] = IF call = 0 THEN first ELSE RecvFrame(g[call - 1])
    BY <1>6, <2>1
  <2>4. g = [call \in 0 .. n |-> IF call = 0 THEN first ELSE RecvFrame(g[call - 1])]
    BY <2>2, <2>3
  <2> QED BY <2>4
<1>8. Fixed(F)
  <2> HIDE DEF Fixed
  <2> QED BY <1>7
<1> HIDE DEF F
<1>9. F[0] = first /\ \A i \in 1 .. n : F[i] = RecvFrame(F[i - 1])
  <2>1. PICK G : G = F
    OBVIOUS
  <2>2. F = [call \in 0 .. n |-> IF call = 0 THEN first ELSE RecvFrame(G[call - 1])]
    BY <1>8, <2>1
  <2>3. 0 \in 0 .. n /\ \A i \in 1 .. n : i \in 0 .. n /\ i # 0
    BY <1>2
  <2> QED BY <2>1, <2>2, <2>3
<1> QED BY <1>1, <1>3, <1>9 DEF Calls

\* Transport after it has returned so many frames of what has arrived.
After(payloads, f, arrived, c) ==
  [payloads |-> SubSeq(payloads, 1, c),
   buffer   |-> SubSeq(f[Len(payloads)], Len(f[c]) + 1, arrived),
   result   |-> "frame"]

\* recv_frame returns one more where one more is there, and waits where it is not.
LEMMA RecvFrameFacts ==
  ASSUME NEW payloads \in Seq(Sendable), NEW f, SentAs(f, payloads),
         NEW N, N = Len(payloads), NEW c \in 0 .. N,
         NEW arrived \in Nat, Len(f[c]) <= arrived, arrived <= Len(f[N]),
         NEW now, now = After(payloads, f, arrived, c)
  PROVE  IF c < N /\ Len(f[c + 1]) <= arrived
           THEN RecvFrame(now) = After(payloads, f, arrived, c + 1)
           ELSE /\ RecvFrame(now) = [now EXCEPT !.result = "incomplete"]
                /\ RecvFrame([now EXCEPT !.result = "incomplete"])
                     = [now EXCEPT !.result = "incomplete"]
<1>1. PICK b : b = SubSeq(f[N], Len(f[c]) + 1, arrived)
  OBVIOUS
<1>2. PICK ps : ps = SubSeq(payloads, 1, c)
  OBVIOUS
<1>3. now = [payloads |-> ps, buffer |-> b, result |-> "frame"]
  BY <1>1, <1>2 DEF After
<1>10. /\ IsMiddle(b, f[N], Len(f[c]), arrived, Nat)
       /\ c < N => /\ Follows(b, Encode(payloads[c + 1]))
                   /\ Len(f[c + 1]) = Len(f[c]) + Len(Encode(payloads[c + 1]))
  BY <1>1, KeptFacts
<1>4. /\ b \in Seq(Nat) /\ Len(b) = arrived - Len(f[c])
      /\ \A m \in 1 .. Len(b) : b[m] = f[N][Len(f[c]) + m]
  BY <1>10 DEF IsMiddle
<1>5. N \in Nat /\ c \in Nat /\ c <= N /\ N \in 0 .. N
  OBVIOUS
<1>6. PICK l : l = Len(f[c])
  OBVIOUS
<1>7. l \in Nat
  BY <1>6 DEF SentAs
<1>8. CASE c < N /\ Len(f[c + 1]) <= arrived
  <2>1. c + 1 \in 1 .. N /\ payloads[c + 1] \in Sendable
    BY <1>5, <1>8
  <2>2. PICK p, e : p = payloads[c + 1] /\ e = Encode(p)
    OBVIOUS
  <2>3. PICK i : IsFrame(e, i, p)
    BY <2>1, <2>2, EncodeFacts
  <2>4. Len(e) \in Nat
    BY <2>3, CodecAssumption DEF IsFrame
  <2>5. PICK m : m = Len(f[c + 1])
    OBVIOUS
  <2>11. m = l + Len(e)
    BY <1>6, <1>8, <1>10, <2>2, <2>5
  <2>12. m <= arrived
    BY <1>8, <2>5
  <2>13. Len(b) = arrived - l
    BY <1>4, <1>6
  <2>6. m = l + Len(e) /\ m <= arrived /\ Len(b) = arrived - l /\ ~(Len(b) < Len(e))
    BY <1>7, <2>4, <2>11, <2>12, <2>13
  <2>7. Decode(b) = [result |-> "frame", payload |-> p, consumed |-> Len(e)]
    BY <1>8, <1>10, <2>2, <2>3, <2>6, DecodeFrame
  <2>8. RecvFrame(now) = [payloads |-> Append(ps, p),
                          buffer |-> SubSeq(b, Len(e) + 1, Len(b)), result |-> "frame"]
    <3>1. PICK d : d = Decode(b)
      OBVIOUS
    <3>2. d.result = "frame" /\ d.payload = p /\ d.consumed = Len(e)
      BY <2>7, <3>1
    <3>3. now.payloads = ps /\ now.buffer = b /\ now.result = "frame"
      BY <1>3
    <3>4. RecvFrame(now) = [payloads |-> Append(now.payloads, d.payload),
                            buffer |-> SubSeq(now.buffer, d.consumed + 1, Len(now.buffer)),
                            result |-> "frame"]
      BY <3>1, <3>2, <3>3 DEF RecvFrame
    <3> QED BY <3>2, <3>3, <3>4
  <2>9. Append(ps, p) = SubSeq(payloads, 1, c + 1)
    BY <1>2, <1>5, <1>8, <2>1, <2>2
  <2>10. SubSeq(b, Len(e) + 1, Len(b)) = SubSeq(f[N], m + 1, arrived)
    <3>1. PICK x, y : x = SubSeq(b, Len(e) + 1, Len(b)) /\ y = SubSeq(f[N], m + 1, arrived)
      OBVIOUS
    <3>2. Len(b) \in Nat /\ Len(e) <= Len(b)
      BY <1>7, <2>4, <2>6
    <3>8. IsMiddle(x, b, Len(e), Len(b), Nat)
      BY <1>4, <2>4, <3>1, <3>2, Middle
    <3>3. x \in Seq(Nat) /\ Len(x) = Len(b) - Len(e) /\ \A k \in 1 .. Len(b) - Len(e) : x[k] = b[Len(e) + k]
      BY <3>8 DEF IsMiddle
    <3>4. f[N] \in Seq(Nat) /\ m \in Nat
      BY <1>5, <1>7, <2>4, <2>6 DEF SentAs
    <3>9. IsMiddle(y, f[N], m, arrived, Nat)
      BY <2>6, <3>1, <3>4, Middle
    <3>5. y \in Seq(Nat) /\ Len(y) = arrived - m /\ \A k \in 1 .. arrived - m : y[k] = f[N][m + k]
      BY <3>9 DEF IsMiddle
    <3>6. Len(b) - Len(e) = arrived - m
      BY <1>7, <2>4, <2>6
    <3>7. ASSUME NEW k \in 1 .. arrived - m PROVE x[k] = y[k]
      <4>1. Len(e) + k \in 1 .. Len(b) /\ l + (Len(e) + k) = m + k
        BY <1>7, <2>4, <2>6, <3>4
      <4>2. x[k] = b[Len(e) + k]
        BY <3>3, <3>6
      <4>3. b[Len(e) + k] = f[N][l + (Len(e) + k)]
        BY <1>4, <1>6, <4>1
      <4> QED BY <3>5, <4>1, <4>2, <4>3
    <3>10. x = y
      BY <3>3, <3>5, <3>6, <3>7
    <3> QED BY <3>1, <3>10
  <2> QED BY <1>8, <2>5, <2>8, <2>9, <2>10 DEF After
<1>9. CASE ~(c < N /\ Len(f[c + 1]) <= arrived)
  <2>1. Decode(b).result = "incomplete"
    <3>1. CASE c < N
      <4>1. c + 1 \in 1 .. N /\ payloads[c + 1] \in Sendable
        BY <1>5, <3>1
      <4>2. PICK e : e = Encode(payloads[c + 1])
        OBVIOUS
      <4>3. PICK i : IsFrame(e, i, payloads[c + 1])
        BY <4>1, <4>2, EncodeFacts
      <4>4. PICK m : m = Len(f[c + 1])
        OBVIOUS
      <4>5. Len(e) \in Nat
        BY <4>3, CodecAssumption DEF IsFrame
      <4>6. m = l + Len(e) /\ ~(m <= arrived) /\ Len(b) = arrived - l
        BY <1>4, <1>6, <1>9, <1>10, <3>1, <4>2, <4>4
      <4>7. Len(b) < Len(e)
        BY <1>7, <4>5, <4>6
      <4>8. Decode(b) = [result |-> "incomplete"]
        BY <1>10, <3>1, <4>2, <4>3, <4>7, DecodeFrame
      <4> QED BY <4>8
    <3>2. CASE ~(c < N)
      <4>1. c = N /\ Len(f[c]) = arrived
        BY <1>5, <1>6, <1>7, <3>2
      <4>2. Len(b) = 0
        BY <1>4, <1>6, <1>7, <4>1
      <4>3. b = <<>>
        BY <1>4, <4>2
      <4> QED BY <4>3 DEF Decode
    <3> QED BY <3>1, <3>2
  <2>2. RecvFrame(now) = [now EXCEPT !.result = "incomplete"]
    <3>1. PICK d : d = Decode(b)
      OBVIOUS
    <3>2. now.buffer = b /\ d.result = "incomplete"
      BY <1>3, <2>1, <3>1
    <3>3. RecvFrame(now) = [now EXCEPT !.result = d.result]
      BY <3>1, <3>2 DEF RecvFrame
    <3> QED BY <3>2, <3>3
  <2>3. PICK last : last = [now EXCEPT !.result = "incomplete"]
    OBVIOUS
  <2>4. last = [payloads |-> ps, buffer |-> b, result |-> "incomplete"]
    BY <1>3, <2>3
  <2>5. RecvFrame(last) = [last EXCEPT !.result = "incomplete"]
    <3>1. PICK d : d = Decode(b)
      OBVIOUS
    <3>2. last.buffer = b /\ d.result = "incomplete"
      BY <2>1, <2>4, <3>1
    <3>3. RecvFrame(last) = [last EXCEPT !.result = d.result]
      BY <3>1, <3>2 DEF RecvFrame
    <3> QED BY <3>2, <3>3
  <2>6. [last EXCEPT !.result = "incomplete"] = last
    BY <2>4
  <2> QED BY <1>9, <2>2, <2>3, <2>5, <2>6
<1> QED BY <1>8, <1>9

\* Some number of frames has arrived whole, and the next has not.
LEMMA WholeFacts ==
  ASSUME NEW payloads \in Seq(Sendable), NEW f, SentAs(f, payloads),
         NEW N, N = Len(payloads), NEW arrived \in Nat
  PROVE  /\ \E k \in 0 .. N : Len(f[k]) <= arrived /\ (k = N \/ Len(f[k + 1]) > arrived)
         /\ \A k \in 0 .. N, c \in 0 .. N :
              c <= k /\ Len(f[k]) <= arrived => Len(f[c]) <= arrived /\ k <= arrived
<1>1. N \in Nat /\ \A k \in 0 .. N : Len(f[k]) \in Nat /\ Len(f[k]) >= k
  BY DEF SentAs
<1> DEFINE A == {k \in 0 .. N : k = N \/ Len(f[k + 1]) > arrived}
<1>2. N \in A /\ A \in SUBSET Nat /\ A # {}
  BY <1>1
<1>3. PICK k \in A : \A m \in A : k <= m
  <2> HIDE DEF A
  <2> QED BY <1>2, Least
<1>4. Len(f[k]) <= arrived
  <2>1. CASE k = 0
    <3>1. f[k] = <<>>
      BY <2>1 DEF SentAs
    <3> QED BY <3>1
  <2>2. CASE k # 0
    <3>1. k - 1 \in 0 .. N /\ k - 1 # N /\ ~(k <= k - 1) /\ (k - 1) + 1 = k /\ k \in 0 .. N
      BY <1>1, <2>2
    <3>2. k - 1 \notin A
      BY <1>3, <3>1
    <3>3. ~(Len(f[k]) > arrived)
      BY <3>1, <3>2
    <3>4. Len(f[k]) \in Nat
      BY <1>1, <3>1
    <3> QED BY <3>3, <3>4
  <2> QED BY <2>1, <2>2
<1>5. ASSUME NEW m \in 0 .. N, NEW c \in 0 .. N, c <= m, Len(f[m]) <= arrived
      PROVE  Len(f[c]) <= arrived /\ m <= arrived
  <2>1. m \in c .. N
    BY <1>1, <1>5
  <2>2. Extends(f[m], f[c])
    BY <2>1 DEF SentAs
  <2>3. PICK x, y : x = Len(f[c]) /\ y = Len(f[m])
    OBVIOUS
  <2>4. x <= y /\ x \in Nat /\ y \in Nat /\ y >= m /\ y <= arrived /\ m \in Nat
    BY <1>1, <1>5, <2>2, <2>3 DEF Extends
  <2>5. x <= arrived /\ m <= arrived
    BY <2>4
  <2> QED BY <2>3, <2>5
<1> QED BY <1>3, <1>4, <1>5

\* Receive returns what has arrived whole, for any number of payloads.
LEMMA ReceiveReturns ==
  ASSUME NEW payloads \in Seq(Sendable), NEW f, SentAs(f, payloads),
         NEW N, N = Len(payloads), NEW arrived \in Nat, arrived <= Len(f[N]),
         NEW w \in 0 .. N, Len(f[w]) <= arrived, w = N \/ Len(f[w + 1]) > arrived
  PROVE  Receive(SubSeq(f[N], 1, arrived))
           = [After(payloads, f, arrived, w) EXCEPT !.result = "incomplete"]
<1>1. N \in Nat /\ w \in Nat /\ w <= N /\ 0 \in 0 .. w /\ w \in 0 .. w
  OBVIOUS
<1>2. /\ w <= arrived
      /\ \A c \in 0 .. w : c \in 0 .. N /\ Len(f[c]) <= arrived
  <2>1. \A c \in 0 .. w : c \in 0 .. N /\ c <= w
    BY <1>1
  <2> QED BY <1>1, <2>1, WholeFacts
<1>3. PICK now : now = [c \in 0 .. w |-> After(payloads, f, arrived, c)]
  OBVIOUS
<1>4. PICK last : last = [now[w] EXCEPT !.result = "incomplete"]
  OBVIOUS
<1>5. \A c \in 0 .. w : now[c] = After(payloads, f, arrived, c)
  BY <1>3
<1>6. ASSUME NEW c \in 0 .. w, c < w PROVE RecvFrame(now[c]) = now[c + 1]
  <2>1. c + 1 \in 0 .. w /\ c < N
    BY <1>1, <1>6
  <2>2. c \in 0 .. N /\ Len(f[c]) <= arrived /\ Len(f[c + 1]) <= arrived
    BY <1>2, <2>1
  <2>3. RecvFrame(now[c]) = After(payloads, f, arrived, c + 1)
    BY <1>5, <2>1, <2>2, RecvFrameFacts
  <2> QED BY <1>5, <2>1, <2>3
<1>7. RecvFrame(now[w]) = last /\ RecvFrame(last) = last
  <2>1. ~(w < N /\ Len(f[w + 1]) <= arrived)
    <3>1. CASE w = N
      BY <1>1, <3>1
    <3>2. CASE w # N
      <4>1. w + 1 \in 0 .. N
        BY <1>1, <3>2
      <4>2. Len(f[w + 1]) \in Nat
        BY <4>1 DEF SentAs
      <4> QED BY <3>2, <4>2
    <3> QED BY <3>1, <3>2
  <2>2. now[w] = After(payloads, f, arrived, w)
    BY <1>1, <1>5
  <2>3. /\ RecvFrame(now[w]) = [now[w] EXCEPT !.result = "incomplete"]
        /\ RecvFrame([now[w] EXCEPT !.result = "incomplete"]) = [now[w] EXCEPT !.result = "incomplete"]
    BY <2>1, <2>2, RecvFrameFacts
  <2> QED BY <1>4, <2>3
<1>8. PICK S : S = {now[c] : c \in 0 .. w} \cup {last}
  OBVIOUS
<1>9. Closed(S)
  <2>1. ASSUME NEW c \in 0 .. w PROVE RecvFrame(now[c]) \in S
    <3>1. CASE c < w
      <4>1. c + 1 \in 0 .. w
        BY <1>1, <3>1
      <4> QED BY <1>6, <1>8, <3>1, <4>1
    <3>2. CASE ~(c < w)
      <4>1. c = w
        BY <1>1, <3>2
      <4> QED BY <1>7, <1>8, <4>1
    <3> QED BY <3>1, <3>2
  <2>2. RecvFrame(last) \in S
    BY <1>7, <1>8
  <2> QED BY <1>8, <2>1, <2>2 DEF Closed
<1>10. PICK b : b = SubSeq(f[N], 1, arrived)
  OBVIOUS
<1>11. b \in Seq(Nat) /\ Len(b) = arrived
  <2>1. f[N] \in Seq(Nat)
    BY <1>1 DEF SentAs
  <2>2. IsMiddle(SubSeq(f[N], 0 + 1, arrived), f[N], 0, arrived, Nat)
    BY <2>1, Middle
  <2>3. 0 + 1 = 1 /\ arrived - 0 = arrived
    OBVIOUS
  <2>4. IsMiddle(b, f[N], 0, arrived, Nat)
    BY <1>10, <2>2, <2>3
  <2> QED BY <2>3, <2>4 DEF IsMiddle
<1>12. now[0] = [payloads |-> <<>>, buffer |-> b, result |-> "frame"]
  <2>1. f[0] = <<>> /\ Len(f[0]) + 1 = 1
    BY DEF SentAs
  <2>2. SubSeq(payloads, 1, 0) = <<>>
    OBVIOUS
  <2> QED BY <1>1, <1>5, <1>10, <2>1, <2>2 DEF After
<1>13. now[0] \in S
  BY <1>1, <1>8
<1>23. PICK g : Calls(g, now[0], arrived + 1) /\ Receive(b) = g[arrived + 1]
  BY <1>9, <1>11, <1>12, <1>13, ReceiveFacts
<1>14. g[0] = now[0] /\ \A i \in 1 .. arrived + 1 : g[i] = RecvFrame(g[i - 1])
  BY <1>23 DEF Calls
<1>15. \A c \in 0 .. w : g[c] = now[c]
  <2>1. StepAlike(g, now, w)
    <3>1. ASSUME NEW i \in 1 .. w, g[i - 1] = now[i - 1] PROVE g[i] = now[i]
      <4>1. i \in 1 .. arrived + 1 /\ i - 1 \in 0 .. w /\ i - 1 < w /\ (i - 1) + 1 = i
        BY <1>1, <1>2
      <4>2. g[i] = RecvFrame(g[i - 1])
        BY <1>14, <4>1
      <4>3. RecvFrame(now[i - 1]) = now[i]
        BY <1>6, <4>1
      <4> QED BY <3>1, <4>2, <4>3
    <3> QED BY <3>1 DEF StepAlike
  <2>2. g[0] = now[0] /\ w \in Nat
    BY <1>1, <1>14
  <2> QED BY <2>1, <2>2, SameSteps
<1>16. w + 1 \in 1 .. arrived + 1 /\ (w + 1) - 1 = w
  BY <1>1, <1>2
<1>17. g[w + 1] = last
  <2>1. g[w + 1] = RecvFrame(g[w])
    BY <1>14, <1>16
  <2> QED BY <1>1, <1>7, <1>15, <2>1
<1> DEFINE A == {i \in w + 1 .. arrived + 1 : g[i] = last}
<1>18. /\ w + 1 \in Nat /\ arrived + 1 \in Nat /\ w + 1 <= arrived + 1
       /\ A \in SUBSET (w + 1 .. arrived + 1) /\ arrived + 1 \in w + 1 .. arrived + 1
  BY <1>1, <1>2
<1>19. w + 1 \in A
  BY <1>17, <1>18
<1>20. ASSUME NEW i \in A, i < arrived + 1 PROVE i + 1 \in A
  <2>1. i + 1 \in w + 1 .. arrived + 1 /\ i + 1 \in 1 .. arrived + 1 /\ (i + 1) - 1 = i
    BY <1>1, <1>20
  <2>2. g[i + 1] = RecvFrame(g[i])
    BY <1>14, <2>1
  <2>3. g[i] = last
    OBVIOUS
  <2> QED BY <1>7, <2>1, <2>2, <2>3
<1> HIDE DEF A
<1>21. A = w + 1 .. arrived + 1
  BY <1>18, <1>19, <1>20, CountUp
<1>22. g[arrived + 1] = last
  BY <1>18, <1>21 DEF A
<1> QED BY <1>1, <1>4, <1>5, <1>10, <1>22, <1>23

\* Whatever payloads are sent and whatever part of their frames has arrived, the
\* payloads that arrived whole are received, in order, and nothing else
\* (codec.rs:33 encode_frame, codec.rs:52 decode_frame, transport.rs:29 recv_frame).
THEOREM ReceiveInvertsSend == \A payloads \in Seq(Sendable) : ReceiveInverts(payloads)
<1> SUFFICES ASSUME NEW payloads \in Seq(Sendable) PROVE ReceiveInverts(payloads)
  OBVIOUS
<1>1. PICK f : SentAs(f, payloads)
  BY SentFacts
<1>2. PICK N : N = Len(payloads)
  OBVIOUS
<1>3. N \in Nat /\ N \in 0 .. N
  BY <1>2
<1>4. PICK bytes : bytes = Sent(payloads)
  OBVIOUS
<1>5. bytes = f[N]
  BY <1>1, <1>2, <1>4 DEF SentAs
<1>6. ASSUME NEW arrived \in 0 .. Len(bytes)
      PROVE  LET received == Receive(SubSeq(bytes, 1, arrived))
                 whole == CHOOSE k \in 0 .. N :
                            /\ Len(Sent(SubSeq(payloads, 1, k))) <= arrived
                            /\ k = N \/ Len(Sent(SubSeq(payloads, 1, k + 1))) > arrived
             IN /\ received.result = "incomplete"
                /\ received.payloads = SubSeq(payloads, 1, whole)
                /\ received.buffer = SubSeq(bytes, Len(Sent(SubSeq(payloads, 1, whole))) + 1, arrived)
  <2>1. arrived \in Nat /\ arrived <= Len(f[N])
    <3>1. Len(bytes) \in Nat
      BY <1>1, <1>2, <1>3, <1>5 DEF SentAs
    <3> QED BY <1>5, <3>1
  <2>2. \A k \in 0 .. N : Sent(SubSeq(payloads, 1, k)) = f[k]
    BY <1>1, <1>2 DEF SentAs
  <2> DEFINE Whole(k) == /\ k \in 0 .. N
                         /\ Len(Sent(SubSeq(payloads, 1, k))) <= arrived
                         /\ k = N \/ Len(Sent(SubSeq(payloads, 1, k + 1))) > arrived
             whole == CHOOSE k : Whole(k)
  <2>3. \A k \in 0 .. N : k = N \/ k + 1 \in 0 .. N
    BY <1>3
  <2>4. PICK k \in 0 .. N : Len(f[k]) <= arrived /\ (k = N \/ Len(f[k + 1]) > arrived)
    BY <1>1, <1>2, <2>1, WholeFacts
  <2>5. Whole(k)
    BY <2>2, <2>3, <2>4
  <2>6. Whole(whole)
    <3> HIDE DEF Whole
    <3> QED BY <2>5
  <2>7. PICK w : w = whole
    OBVIOUS
  <2>8. w \in 0 .. N /\ Len(f[w]) <= arrived /\ (w = N \/ Len(f[w + 1]) > arrived)
    <3>1. Whole(w)
      BY <2>6, <2>7
    <3> QED BY <2>2, <2>3, <3>1
  <2>9. PICK received : received = Receive(SubSeq(f[N], 1, arrived))
    OBVIOUS
  <2>10. received = [After(payloads, f, arrived, w) EXCEPT !.result = "incomplete"]
    BY <1>1, <1>2, <2>1, <2>8, <2>9, ReceiveReturns
  <2>11. /\ received.result = "incomplete" /\ received.payloads = SubSeq(payloads, 1, w)
         /\ received.buffer = SubSeq(f[N], Len(f[w]) + 1, arrived)
    BY <1>2, <2>10 DEF After
  <2>12. whole = CHOOSE j \in 0 .. N :
                   /\ Len(Sent(SubSeq(payloads, 1, j))) <= arrived
                   /\ j = N \/ Len(Sent(SubSeq(payloads, 1, j + 1))) > arrived
    OBVIOUS
  <2> HIDE DEF whole
  <2> QED BY <1>5, <2>2, <2>7, <2>8, <2>9, <2>11, <2>12
<1> QED BY <1>2, <1>4, <1>6 DEF ReceiveInverts

\* The payloads the runs send are of that kind.
THEOREM EveryTwoFrames == DecodeInvertsEncode
<1> SUFFICES ASSUME NEW m \in PayloadLengths, NEW n \in PayloadLengths
             PROVE  ReceiveInverts(<<Payload(m), Payload(n)>>)
  BY DEF DecodeInvertsEncode
<1>1. \A l \in PayloadLengths : Payload(l) \in Sendable
  <2> TAKE l \in PayloadLengths
  <2>1. l \in Nat
    BY CodecAssumption
  <2>2. Payload(l) \in Seq(Nat) /\ Len(Payload(l)) = l
    BY <2>1 DEF Payload
  <2> QED BY <2>2 DEF Sendable
<1>2. <<Payload(m), Payload(n)>> \in Seq(Sendable)
  BY <1>1
<1> QED BY <1>2, ReceiveInvertsSend

\* So the answers on their way are received as they were sent, whatever the base
\* of the digits and their numbers.
THEOREM AnswersSurvive == Spec => []FramesSurvive
<1>1. FramesSurvive
  BY EveryTwoFrames DEF FramesSurvive
<1> QED BY <1>1, PTL
=============================================================================
