----------------------------- MODULE FramaCClient -----------------------------
(***************************************************************************)
(* src/frama_c/client.rs: the client that every tool handler shares, and   *)
(* the Frama-C server process at the other end of its Unix socket.         *)
(*                                                                         *)
(* A tool handler runs as a task of its own (a Caller).  get, set and exec *)
(* take the Mutex<ClientInner> for a whole request, so requests follow one *)
(* another on the wire; but a request may be given up (deadline, I/O       *)
(* error) while the server still owes it an answer, and that answer then   *)
(* reaches the socket during a later request.                              *)
(*                                                                         *)
(* The server is external code.  It is modelled from what client.rs relies *)
(* on: GET is answered when it is read, SET and EXEC wait in a queue that  *)
(* only POLL advances, KILL cancels a queued or running request by id.     *)
(***************************************************************************)
EXTENDS Naturals, Sequences, FiniteSets, Codec

CONSTANTS
  Callers,      \* the concurrent tool handlers
  NoCaller,     \* the mutex is free
  MaxRequests,  \* bound: requests made on the connection
  MaxRounds,    \* bound: POLL rounds before the deadline of a SET or EXEC
  Faults        \* the faults of the peer: "crash", "badjson", "badframe"

ASSUME ClientAssumption ==
  /\ NoCaller \notin Callers
  /\ MaxRequests \in Nat
  /\ MaxRounds \in Nat
  /\ Faults \subseteq {"crash", "badjson", "badframe"}

VARIABLES
  phase,     \* connect: "handshake", then "ready" or "failed"
  counter,   \* ClientInner.counter
  holder,    \* the task that holds Mutex<ClientInner>
  waiters,   \* the tasks queued on that mutex, in order
  pc,        \* where each task is in get / set / exec
  req,       \* its request: id on the wire, the call it is for, its kind
  rounds,    \* POLLs it has sent
  calls,     \* calls begun: the n-th call that gets the mutex is call n
  toServer,  \* commands written to the socket and not read by the server
  queue,     \* SET and EXEC the server has queued
  running,   \* the EXEC the server is evaluating, or Nothing
  toClient,  \* responses written by the server and not read by the client
  cmdline,   \* the server's command-line phase: "pending", "on", "off"
  alive,     \* the server process exists and its socket is open
  executed,  \* history: the calls whose request the server ran, in order
  returned   \* history: what each call was told

clientVars == <<phase, counter, holder, waiters, pc, req, rounds, calls, returned>>
serverVars == <<queue, running, cmdline, alive, executed>>
wireVars   == <<toServer, toClient>>
vars == <<clientVars, serverVars, wireVars>>

Kinds     == {"GET", "SET", "EXEC"}
Holding   == {"send", "wait", "first", "top", "poll"}
Receiving == {"wait", "first", "poll"}
Outcomes  == {"data", "error", "rejected", "killed", "timeout", "io", "decode"}

Request  == [id : Nat, call : Nat, kind : Kinds]
Command  == [cmd : Kinds \cup {"POLL", "KILL"}, id : Nat, call : Nat]
Response == [res : {"DATA", "ERROR", "REJECTED", "KILLED", "SIGNAL",
                    "CMDLINEON", "CMDLINEOFF", "BADJSON", "BADFRAME"},
             id : Nat, data : Nat]
Returned == [call : Nat, out : Outcomes, data : Nat]

NoRequest    == [id |-> 0, call |-> 0, kind |-> "GET"]
Poll         == [cmd |-> "POLL", id |-> 0, call |-> 0]
Kill(id)     == [cmd |-> "KILL", id |-> id, call |-> 0]
Nothing      == [cmd |-> "POLL", id |-> 0, call |-> 0]
Reply(s, id, d) == [res |-> s, id |-> id, data |-> d]

-----------------------------------------------------------------------------
(* connect: the probe GET RQ.0, then frames are read until CMDLINEOFF.     *)

Init ==
  /\ phase = "handshake"
  /\ counter = 1
  /\ holder = NoCaller
  /\ waiters = <<>>
  /\ pc = [c \in Callers |-> "idle"]
  /\ req = [c \in Callers |-> NoRequest]
  /\ rounds = [c \in Callers |-> 0]
  /\ calls = 0
  /\ toServer = <<[cmd |-> "GET", id |-> 0, call |-> 0]>>
  /\ queue = <<>>
  /\ running = Nothing
  /\ toClient = <<>>
  /\ cmdline = "pending"
  /\ alive = TRUE
  /\ executed = <<>>
  /\ returned = {}

\* A frame arrives during the handshake.  Only CMDLINEOFF ends it; a frame
\* that does not decode makes connect fail.
HandshakeRecv ==
  /\ phase = "handshake"
  /\ toClient # <<>>
  /\ toClient' = Tail(toClient)
  /\ phase' = CASE Head(toClient).res = "CMDLINEOFF" -> "ready"
                [] Head(toClient).res \in {"BADJSON", "BADFRAME"} -> "failed"
                [] OTHER -> "handshake"
  /\ UNCHANGED <<counter, holder, waiters, pc, req, rounds, calls, returned,
                 toServer, serverVars>>

\* No frame until the read times out ("proceeding anyway"), or the deadline
\* is found exhausted at the top of the loop (ConnectTimeout).
HandshakeSilence ==
  /\ phase = "handshake"
  /\ alive
  /\ phase' \in {"ready", "failed"}
  /\ UNCHANGED <<counter, holder, waiters, pc, req, rounds, calls, returned,
                 wireVars, serverVars>>

HandshakeClosed ==
  /\ phase = "handshake"
  /\ ~alive
  /\ toClient = <<>>
  /\ phase' = "failed"
  /\ UNCHANGED <<counter, holder, waiters, pc, req, rounds, calls, returned,
                 wireVars, serverVars>>

-----------------------------------------------------------------------------
(* get, set, exec.                                                         *)

\* A handler makes a request and waits for the mutex (FIFO in tokio).
Call(c) ==
  /\ phase = "ready"
  /\ pc[c] = "idle"
  /\ calls + Len(waiters) < MaxRequests
  /\ pc' = [pc EXCEPT ![c] = "queued"]
  /\ waiters' = Append(waiters, c)
  /\ UNCHANGED <<phase, counter, holder, req, rounds, calls, returned, wireVars,
                 serverVars>>

\* Mutant: the counter is not advanced.
NextIdStuck == counter

\* next_id.
NextId == counter + 1

\* The mutex is granted to the first waiter, which draws its request id.
Begin(c, k) ==
  /\ holder = NoCaller
  /\ waiters # <<>>
  /\ c = Head(waiters)
  /\ holder' = c
  /\ waiters' = Tail(waiters)
  /\ calls' = calls + 1
  /\ req' = [req EXCEPT ![c] = [id |-> counter, call |-> calls + 1, kind |-> k]]
  /\ counter' = NextId
  /\ pc' = [pc EXCEPT ![c] = "send"]
  /\ UNCHANGED <<phase, rounds, returned, wireVars, serverVars>>

\* The request ends: its result goes to the handler, its locals and the mutex
\* guard are dropped.
Return(c, out, d) ==
  /\ pc' = [pc EXCEPT ![c] = "idle"]
  /\ holder' = NoCaller
  /\ returned' = returned \cup {[call |-> req[c].call, out |-> out, data |-> d]}
  /\ req' = [req EXCEPT ![c] = NoRequest]
  /\ rounds' = [rounds EXCEPT ![c] = 0]
  /\ UNCHANGED <<phase, counter, waiters, calls>>

\* Nothing but the point the task has reached changes on the client's side.
Goto(c, label) ==
  /\ pc' = [pc EXCEPT ![c] = label]
  /\ UNCHANGED <<phase, counter, holder, waiters, req, rounds, calls, returned>>

\* send_command: the request is written, or the write fails.
Send(c) ==
  /\ pc[c] = "send"
  /\ alive
  /\ toServer' = Append(toServer, [cmd |-> req[c].kind, id |-> req[c].id,
                                   call |-> req[c].call])
  /\ Goto(c, IF req[c].kind = "GET" THEN "wait" ELSE "first")
  /\ UNCHANGED <<toClient, serverVars>>

\* Also the failing write of POLL and of KILL (the ? of send_command).
SendFails(c) ==
  /\ pc[c] \in {"send", "top"}
  /\ ~alive
  /\ Return(c, "io", 0)
  /\ UNCHANGED <<wireVars, serverVars>>

\* Mutant: REJECTED is treated as noise.
TerminalNoRejected(label) == {"DATA", "ERROR"}

\* The answers each receive point returns to the handler; any other frame is
\* skipped.  wait_for_id and the first read of poll_loop skip KILLED even
\* when it carries the id they wait for.
Terminal(label) ==
  IF label = "poll" THEN {"DATA", "ERROR", "REJECTED", "KILLED"}
                    ELSE {"DATA", "ERROR", "REJECTED"}

\* Mutant: the tag of the frame is handed on unconverted.
OutcomeRaw(res) == res

OutcomeOf(res) ==
  CASE res = "DATA"     -> "data"
    [] res = "ERROR"    -> "error"
    [] res = "REJECTED" -> "rejected"
    [] OTHER            -> "killed"

\* Mutant: the first answer in the socket is taken for the own one.
AnyMine(c, m) == TRUE

\* The id test of every match arm: `id == request_id`.
Mine(c, m) == m.id = req[c].id

Answers(c, m) == m.res \in Terminal(pc[c]) /\ Mine(c, m)
Malformed(m)  == m.res \in {"BADJSON", "BADFRAME"}

RecvAnswer(c) ==
  /\ pc[c] \in Receiving
  /\ toClient # <<>>
  /\ Answers(c, Head(toClient))
  /\ toClient' = Tail(toClient)
  /\ Return(c, OutcomeOf(Head(toClient).res), Head(toClient).data)
  /\ UNCHANGED <<toServer, serverVars>>

\* A signal, a CMDLINE notice or an answer to an earlier request: wait_for_id
\* reads on, poll_loop goes (back) to the top of its loop.
RecvSkipped(c) ==
  /\ pc[c] \in Receiving
  /\ toClient # <<>>
  /\ ~Answers(c, Head(toClient))
  /\ ~Malformed(Head(toClient))
  /\ toClient' = Tail(toClient)
  /\ Goto(c, IF pc[c] = "wait" THEN "wait" ELSE "top")
  /\ UNCHANGED <<toServer, serverVars>>

\* The frame or the JSON in it does not decode: the error ends the request.
\* decode_frame fails before the buffer is advanced, so a bad frame stays at
\* its head for every later read; bad JSON has been consumed.
RecvMalformed(c) ==
  /\ pc[c] \in Receiving
  /\ toClient # <<>>
  /\ Malformed(Head(toClient))
  /\ toClient' = IF Head(toClient).res = "BADFRAME" THEN toClient ELSE Tail(toClient)
  /\ Return(c, "decode", 0)
  /\ UNCHANGED <<toServer, serverVars>>

\* Mutant: a GET has no deadline of its own.
RecvSilencePatient(c) ==
  /\ pc[c] \in Receiving
  /\ alive
  /\ Goto(c, IF pc[c] = "wait" THEN "wait" ELSE "top")
  /\ UNCHANGED <<wireVars, serverVars>>

\* Mutant: a silent POLL round is taken for the end of the request.
RecvSilenceEnds(c) ==
  /\ pc[c] \in Receiving
  /\ alive
  /\ Return(c, "timeout", 0)
  /\ UNCHANGED <<wireVars, serverVars>>

\* The read times out (recv_frame returns None), also while a frame is still
\* on its way.  For a GET that is the request's own deadline.
RecvSilence(c) ==
  /\ pc[c] \in Receiving
  /\ alive
  /\ IF pc[c] = "wait" THEN Return(c, "timeout", 0) ELSE Goto(c, "top")
  /\ UNCHANGED <<wireVars, serverVars>>

\* End of file once the frames that had arrived are read.
RecvClosed(c) ==
  /\ pc[c] \in Receiving
  /\ ~alive
  /\ toClient = <<>>
  /\ Return(c, "io", 0)
  /\ UNCHANGED <<wireVars, serverVars>>

\* Top of poll_loop before the deadline: sleep, POLL, read.
SendPoll(c) ==
  /\ pc[c] = "top"
  /\ rounds[c] < MaxRounds
  /\ alive
  /\ toServer' = Append(toServer, Poll)
  /\ rounds' = [rounds EXCEPT ![c] = @ + 1]
  /\ pc' = [pc EXCEPT ![c] = "poll"]
  /\ UNCHANGED <<phase, counter, holder, waiters, req, calls, returned, toClient,
                 serverVars>>

\* Mutant: the request is given up without KILL.
GiveUpSilently(c) ==
  /\ pc[c] = "top"
  /\ alive
  /\ Return(c, "timeout", 0)
  /\ UNCHANGED <<wireVars, serverVars>>

\* Top of poll_loop after the deadline, which may pass at any round and has
\* passed after MaxRounds: KILL is sent and its answer is not awaited.
GiveUp(c) ==
  /\ pc[c] = "top"
  /\ alive
  /\ toServer' = Append(toServer, Kill(req[c].id))
  /\ Return(c, "timeout", 0)
  /\ UNCHANGED <<toClient, serverVars>>

ClientStep(c) ==
  \/ \E k \in Kinds : Begin(c, k)
  \/ Send(c) \/ SendFails(c)
  \/ RecvAnswer(c) \/ RecvSkipped(c) \/ RecvMalformed(c) \/ RecvSilence(c)
  \/ RecvClosed(c) \/ SendPoll(c) \/ GiveUp(c)

Handshake == HandshakeRecv \/ HandshakeSilence \/ HandshakeClosed

-----------------------------------------------------------------------------
(* The Frama-C server (external).                                          *)

\* A response as it reaches the socket: itself, or damaged under a fault.
Written(m) ==
  {m} \cup (IF "badjson" \in Faults THEN {Reply("BADJSON", 0, 0)} ELSE {})
      \cup (IF "badframe" \in Faults THEN {Reply("BADFRAME", 0, 0)} ELSE {})

\* The handler of a request has run: the call is recorded, its answer sent.
Ran(m) ==
  /\ executed' = Append(executed, m.call)
  /\ \E s \in {"DATA", "ERROR"} : \E w \in Written(Reply(s, m.id, m.call)) :
       toClient' = Append(toClient, w)

NextCommand(kinds) ==
  /\ alive
  /\ toServer # <<>>
  /\ Head(toServer).cmd \in kinds
  /\ toServer' = Tail(toServer)

\* GET is answered at once, also while an EXEC runs.
SrvGet ==
  /\ NextCommand({"GET"})
  /\ Ran(Head(toServer))
  /\ UNCHANGED <<clientVars, queue, running, cmdline, alive>>

\* A request the server does not know.
SrvReject ==
  /\ NextCommand(Kinds)
  /\ toClient' = Append(toClient, Reply("REJECTED", Head(toServer).id, 0))
  /\ UNCHANGED <<clientVars, serverVars>>

SrvEnqueue ==
  /\ NextCommand({"SET", "EXEC"})
  /\ queue' = Append(queue, Head(toServer))
  /\ UNCHANGED <<clientVars, toClient, running, cmdline, alive, executed>>

\* POLL while an EXEC runs: a SIGNAL says it is still running.
SrvPollBusy ==
  /\ NextCommand({"POLL"})
  /\ running # Nothing
  /\ toClient' = Append(toClient, Reply("SIGNAL", running.id, 0))
  /\ UNCHANGED <<clientVars, serverVars>>

\* POLL otherwise: the head of the queue is processed, if there is one.
SrvPollIdle ==
  /\ NextCommand({"POLL"})
  /\ running = Nothing
  /\ queue = <<>>
  /\ UNCHANGED <<clientVars, toClient, serverVars>>

SrvPollSet ==
  /\ NextCommand({"POLL"})
  /\ running = Nothing
  /\ queue # <<>>
  /\ Head(queue).cmd = "SET"
  /\ queue' = Tail(queue)
  /\ Ran(Head(queue))
  /\ UNCHANGED <<clientVars, running, cmdline, alive>>

SrvPollExec ==
  /\ NextCommand({"POLL"})
  /\ running = Nothing
  /\ queue # <<>>
  /\ Head(queue).cmd = "EXEC"
  /\ queue' = Tail(queue)
  /\ running' = Head(queue)
  /\ UNCHANGED <<clientVars, toClient, cmdline, alive, executed>>

SrvExecEnds ==
  /\ alive
  /\ running # Nothing
  /\ Ran(running)
  /\ running' = Nothing
  /\ UNCHANGED <<clientVars, toServer, queue, cmdline, alive>>

\* KILL of a request that is queued, running, or already answered.
SrvKillQueued ==
  /\ NextCommand({"KILL"})
  /\ \E i \in 1..Len(queue) :
       /\ queue[i].id = Head(toServer).id
       /\ queue' = SubSeq(queue, 1, i - 1) \o SubSeq(queue, i + 1, Len(queue))
  /\ toClient' = Append(toClient, Reply("KILLED", Head(toServer).id, 0))
  /\ UNCHANGED <<clientVars, running, cmdline, alive, executed>>

SrvKillRunning ==
  /\ NextCommand({"KILL"})
  /\ running # Nothing
  /\ running.id = Head(toServer).id
  /\ running' = Nothing
  /\ toClient' = Append(toClient, Reply("KILLED", Head(toServer).id, 0))
  /\ UNCHANGED <<clientVars, queue, cmdline, alive, executed>>

SrvKillLate ==
  /\ NextCommand({"KILL"})
  /\ running = Nothing \/ running.id # Head(toServer).id
  /\ \A i \in 1..Len(queue) : queue[i].id # Head(toServer).id
  /\ UNCHANGED <<clientVars, toClient, serverVars>>

\* The command line of the process: CMDLINEON, then CMDLINEOFF.
SrvCmdline ==
  /\ alive
  /\ \/ cmdline = "pending" /\ cmdline' = "on"
        /\ toClient' = Append(toClient, Reply("CMDLINEON", 0, 0))
     \/ cmdline = "on" /\ cmdline' = "off"
        /\ toClient' = Append(toClient, Reply("CMDLINEOFF", 0, 0))
  /\ UNCHANGED <<clientVars, toServer, queue, running, alive, executed>>

SrvCrash ==
  /\ "crash" \in Faults
  /\ alive
  /\ alive' = FALSE
  /\ toServer' = <<>>
  /\ queue' = <<>>
  /\ running' = Nothing
  /\ UNCHANGED <<clientVars, toClient, cmdline, executed>>

Server ==
  \/ SrvGet \/ SrvReject \/ SrvEnqueue \/ SrvPollBusy \/ SrvPollIdle
  \/ SrvPollSet \/ SrvPollExec \/ SrvExecEnds
  \/ SrvKillQueued \/ SrvKillRunning \/ SrvKillLate
  \/ SrvCmdline \/ SrvCrash

-----------------------------------------------------------------------------

\* The bound on requests is reached and everybody has been answered, or there
\* is no connection to make one on.
Finished ==
  /\ \A c \in Callers : pc[c] = "idle"
  /\ phase = "failed" \/ calls = MaxRequests
  /\ UNCHANGED vars

Next ==
  \/ Handshake
  \/ \E c \in Callers : Call(c) \/ ClientStep(c)
  \/ Server
  \/ Finished

Spec == Init /\ [][Next]_vars

\* The runtime polls a ready task and every timer fires; the server owes the
\* client nothing.
FairSpec == Spec /\ WF_vars(Handshake) /\ \A c \in Callers : WF_vars(ClientStep(c))

-----------------------------------------------------------------------------
(* Properties.                                                             *)

TypeOK ==
  /\ phase \in {"handshake", "ready", "failed"}
  /\ counter \in Nat
  /\ holder \in Callers \cup {NoCaller}
  /\ waiters \in Seq(Callers)
  /\ pc \in [Callers -> Holding \cup {"idle", "queued"}]
  /\ req \in [Callers -> Request]
  /\ rounds \in [Callers -> Nat]
  /\ calls \in Nat
  /\ toServer \in Seq(Command)
  /\ queue \in Seq(Command)
  /\ running \in Command
  /\ toClient \in Seq(Response)
  /\ cmdline \in {"pending", "on", "off"}
  /\ alive \in BOOLEAN
  /\ executed \in Seq(Nat)
  /\ returned \subseteq Returned

\* A call that is told "data" gets the data of that very call, although the
\* answers of requests given up earlier are still coming out of the socket
\* (client.rs:50, the match on id).
ReplyIsForThisCall ==
  \A r \in returned : r.out = "data" => r.data = r.call

\* Whatever the server has queued or is evaluating is the request somebody is
\* waiting for, or its cancellation is already on the wire (client.rs:112-118):
\* no operation survives unwatched behind the session's back, except those of
\* calls that were told of a frame that does not decode.
AbandonedIsKilled ==
  \A m \in {queue[i] : i \in 1..Len(queue)}
             \cup (IF running = Nothing THEN {} ELSE {running}) :
    \/ \E c \in Callers : pc[c] \in Holding /\ req[c].id = m.id
    \/ \E i \in 1..Len(toServer) : toServer[i] = Kill(m.id)
    \/ \E r \in returned : r.call = m.call /\ r.out = "decode"

\* An answer to the request being waited for is never thrown away: what
\* wait_for_id and poll_loop skip are signals and the answers of other
\* requests (client.rs:60-75, 94-107, 142-145).
OwnAnswerNeverSkipped ==
  [][\A c \in Callers :
        pc[c] \in Receiving /\ toClient # <<>> /\ toClient' = Tail(toClient)
          /\ req[c].id = Head(toClient).id
          /\ Head(toClient).res \in {"DATA", "ERROR", "REJECTED", "KILLED"}
        => returned' # returned]_vars

\* The answers on their way reach poll_loop as they were sent, wherever the
\* socket cuts the bytes and a read times out: the lengths of the payloads are
\* left open here, so two of them may be any, on either side of the limits of
\* the widths (codec.rs:35).
FramesSurvive ==
  Len(toClient) >= 2 => DecodeInvertsEncode

\* The connection behaves like the one-call-at-a-time service of RequestReply:
\* requests run in call order and at most once, answers are their own, and
\* nothing a caller was refused, or gave up on, takes effect after a later
\* call did, unless its caller was told of a frame that does not decode.
Service == INSTANCE RequestReply WITH
  serial  <- calls,
  pending <- [c \in Callers |-> req[c].call],
  ran     <- executed,
  told    <- returned

ImplementsRequestReply == Service!Spec

\* Every handler that asks for the connection gets an answer, even if the
\* server hangs, dies, or never answers (deadlines of 10 s and 30 s, KILL, EOF).
EveryCallReturns ==
  \A c \in Callers : (pc[c] = "queued") ~> (pc[c] = "idle")
=============================================================================
