------------------------------ MODULE Protocol ------------------------------
(***************************************************************************)
(* The client library (Client.cpp) and the connection threads of the       *)
(* server (Server.cpp: run, handleClient), over sockets that may be cut.   *)
(*                                                                         *)
(* A socket carries the parts of requests and answers in their order: a    *)
(* part is what one call of sendAll sends.  A part of which the end is     *)
(* lost counts as lost, since its reader waits for all of it.              *)
(***************************************************************************)
EXTENDS Integers, Sequences, FiniteSets

CONSTANTS
    Client,         \* programs that use the library
    Socket,         \* the connections there can be
    NoSocket,       \* sockFd = -1
    Asks,           \* of each client, those it may send at any time
    Size,           \* of each: "empty", "fits" or "tooLong"
    Answers,        \* the results that processQuery may obtain for each text
    Encoded(_),     \* the text the server makes of a result: Json of Wire
    ErrorFlag(_),   \* the byte before it: Status of Wire
    Decoded(_, _),  \* what the library reads from both: parseResponse of Wire
    Expected(_),    \* what a caller should read from a result: ShownResult of Wire
    MaxCalls        \* bounds the calls of execute they make

Request == DOMAIN Answers   \* the texts that may be sent

ASSUME SocketAssumption  == NoSocket \notin Socket
ASSUME RequestAssumption ==
    /\ Size \in [Request -> {"empty", "fits", "tooLong"}]
    /\ Asks \in [Client -> SUBSET Request]
ASSUME FlagAssumption ==
    \A r \in Request : \A result \in Answers[r] : ErrorFlag(Encoded(result)) \in {0, 1}
ASSUME MaxCallsAssumption == MaxCalls \in Nat

VARIABLES
    serving,        \* the process accepts connections
    client,         \* of each client: its Impl, and where in execute it is
    conn,           \* of each socket: its two ends and what is under way
    thread,         \* of each socket: the thread that serves it
    calls           \* history: every call of execute, its runs and its outcome

vars == <<serving, client, conn, thread, calls>>

Promise == INSTANCE Rpc WITH Shows <- Expected

-----------------------------------------------------------------------------
(* Sockets.                                                                *)

NewConn == [used |-> FALSE, clientEnd |-> FALSE, serverEnd |-> FALSE, cut |-> FALSE,
            up |-> <<>>, down |-> <<>>]

Part(name, call, val) == [part |-> name, call |-> call, val |-> val]

\* Nothing that is sent to this end arrives any more.
ServerGone(s) == conn[s].cut \/ ~conn[s].serverEnd
ClientGone(s) == conn[s].cut \/ ~conn[s].clientEnd

SendUp(s, part)   == [conn EXCEPT ![s].up = IF ServerGone(s) THEN @ ELSE Append(@, part)]
SendDown(s, part) == [conn EXCEPT ![s].down = IF ClientGone(s) THEN @ ELSE Append(@, part)]

\* What is under way may still arrive or not, and then both ends see an error.
Cut(s) ==
    /\ conn[s].used /\ ~conn[s].cut
    /\ conn' = [conn EXCEPT ![s].cut = TRUE]
    /\ UNCHANGED <<serving, client, thread, calls>>

-----------------------------------------------------------------------------
(* Client::connect, disconnect and execute.                                *)

Idle(c) == client[c].at = "idle"

NextSocket == CHOOSE s \in Socket : ~conn[s].used

\* The socket the client had before stays open: connect overwrites sockFd.
Connect(c) ==
    /\ Idle(c) /\ serving /\ \E s \in Socket : ~conn[s].used
    /\ LET s == NextSocket
       IN  /\ conn' = [conn EXCEPT ![s] = [NewConn EXCEPT !.used = TRUE, !.clientEnd = TRUE,
                                                         !.serverEnd = TRUE]]
           /\ client' = [client EXCEPT ![c].fd = s, ![c].connected = TRUE]
    /\ UNCHANGED <<serving, thread, calls>>

\* "connected" keeps the value it had.
ConnectFails(c) ==
    /\ Idle(c)
    /\ client' = [client EXCEPT ![c].fd = NoSocket]
    /\ UNCHANGED <<serving, conn, thread, calls>>

Disconnect(c) ==
    /\ Idle(c) /\ client[c].fd # NoSocket
    /\ conn' = [conn EXCEPT ![client[c].fd].clientEnd = FALSE, ![client[c].fd].down = <<>>]
    /\ client' = [client EXCEPT ![c].fd = NoSocket, ![c].connected = FALSE]
    /\ UNCHANGED <<serving, thread, calls>>

Execute(c, r) ==
    /\ Idle(c)
    /\ IF client[c].connected
       THEN /\ calls' = Append(calls, Promise!NewCall(c, r, Promise!Open))
            /\ client' = [client EXCEPT ![c].at = "sendLength", ![c].call = Len(calls) + 1]
       ELSE /\ calls' = Append(calls, Promise!NewCall(c, r, Promise!Refused))
            /\ UNCHANGED client
    /\ UNCHANGED <<serving, conn, thread>>

SendLength(c) ==
    /\ client[c].at = "sendLength" /\ client[c].fd # NoSocket
    /\ conn' = SendUp(client[c].fd, Part("length", client[c].call, Size[calls[client[c].call].request]))
    /\ client' = [client EXCEPT ![c].at = "sendSql"]
    /\ UNCHANGED <<serving, thread, calls>>

\* Of an empty text nothing is sent.
SendSql(c) ==
    LET r == calls[client[c].call].request
    IN  /\ client[c].at = "sendSql" /\ client[c].fd # NoSocket
        /\ conn' = IF Size[r] = "empty" THEN conn
                   ELSE SendUp(client[c].fd, Part("sql", client[c].call, r))
        /\ client' = [client EXCEPT ![c].at = "recvStatus"]
        /\ UNCHANGED <<serving, thread, calls>>

Arrived(c, label) ==
    client[c].at = label /\ client[c].fd # NoSocket /\ conn[client[c].fd].down # <<>>

Received(c) == Head(conn[client[c].fd].down).val
TakeDown(c) == conn' = [conn EXCEPT ![client[c].fd].down = Tail(@)]

RecvStatus(c) ==
    /\ Arrived(c, "recvStatus")
    /\ TakeDown(c)
    /\ client' = [client EXCEPT ![c].at = "recvLength", ![c].status = Received(c)]
    /\ UNCHANGED <<serving, thread, calls>>

RecvLength(c) ==
    /\ Arrived(c, "recvLength")
    /\ TakeDown(c)
    /\ client' = [client EXCEPT ![c].at = "recvJson"]
    /\ UNCHANGED <<serving, thread, calls>>

\* execute returns.
Returns(c, connected) ==
    client' = [client EXCEPT ![c] = [@ EXCEPT !.at = "idle", !.call = 0, !.status = 0,
                                              !.connected = connected]]

RecvJson(c) ==
    /\ Arrived(c, "recvJson")
    /\ TakeDown(c)
    /\ Returns(c, TRUE)
    /\ calls' = [calls EXCEPT ![client[c].call].outcome =
                    Promise!Returned(Decoded(client[c].status, Received(c)))]
    /\ UNCHANGED <<serving, thread>>

\* Mutant: the connection counts as good.
ThrowStayingConnected(c) ==
    /\ ~Idle(c)
    /\ Returns(c, TRUE)
    /\ calls' = [calls EXCEPT ![client[c].call].outcome = Promise!Lost]
    /\ UNCHANGED <<serving, conn, thread>>

\* send or recv fails; the socket stays open.
Throw(c) ==
    /\ ~Idle(c)
    /\ Returns(c, FALSE)
    /\ calls' = [calls EXCEPT ![client[c].call].outcome = Promise!Lost]
    /\ UNCHANGED <<serving, conn, thread>>

Receiving(c) == client[c].at \in {"recvStatus", "recvLength", "recvJson"}

\* Mutant: a recv that returns 0 is tried again.
AtEndOnCut(c) == IF client[c].fd = NoSocket THEN TRUE ELSE conn[client[c].fd].cut

\* A failure that comes by itself.
AtEnd(c) ==
    IF client[c].fd = NoSocket THEN TRUE
    ELSE IF Receiving(c)
         THEN conn[client[c].fd].cut
              \/ (conn[client[c].fd].down = <<>> /\ ~conn[client[c].fd].serverEnd)
         ELSE ServerGone(client[c].fd)

-----------------------------------------------------------------------------
(* Server::run and handleClient.                                           *)

NewThread == [at |-> "none", call |-> 0, sql |-> <<>>, json |-> <<>>]

Accept(s) ==
    /\ serving /\ conn[s].used /\ conn[s].serverEnd /\ thread[s].at = "none"
    /\ thread' = [thread EXCEPT ![s].at = "readLength"]
    /\ UNCHANGED <<serving, client, conn, calls>>

\* The thread ends and its descriptor is closed.
Close(s) ==
    /\ thread' = [thread EXCEPT ![s] = [NewThread EXCEPT !.at = "ended"]]
    /\ conn' = [conn EXCEPT ![s].serverEnd = FALSE, ![s].up = <<>>]
    /\ UNCHANGED <<serving, client, calls>>

Take(s, next) ==
    /\ conn' = [conn EXCEPT ![s].up = Tail(@)]
    /\ thread' = [thread EXCEPT ![s] = next]
    /\ UNCHANGED <<serving, client, calls>>

ReadLength(s) ==
    /\ thread[s].at = "readLength" /\ conn[s].up # <<>>
    /\ Head(conn[s].up).val = "fits"
    /\ Take(s, [thread[s] EXCEPT !.at = "readSql"])

\* No answer to a length of 0 or above 1 MiB.
BadLength(s) ==
    /\ thread[s].at = "readLength" /\ conn[s].up # <<>>
    /\ Head(conn[s].up).val \in {"empty", "tooLong"}
    /\ Close(s)

ReadSql(s) ==
    /\ thread[s].at = "readSql" /\ conn[s].up # <<>>
    /\ Take(s, [thread[s] EXCEPT !.at = "process", !.call = Head(conn[s].up).call,
                                 !.sql = Head(conn[s].up).val])

\* Mutant: a recv that returns 0 is not an error.
EndOfInputOnCut(s) ==
    /\ thread[s].at \in {"readLength", "readSql"}
    /\ conn[s].cut
    /\ Close(s)

\* The other end has hung up, or the connection is lost.
EndOfInput(s) ==
    /\ thread[s].at \in {"readLength", "readSql"}
    /\ conn[s].cut \/ (conn[s].up = <<>> /\ ~conn[s].clientEnd)
    /\ Close(s)

processQuery(s) ==
    /\ thread[s].at = "process"
    /\ \E result \in Answers[thread[s].sql] :
          /\ calls' = [calls EXCEPT ![thread[s].call].runs = Append(@, result)]
          /\ thread' = [thread EXCEPT ![s].at = "sendStatus", ![s].json = Encoded(result)]
    /\ UNCHANGED <<serving, client, conn>>

Send(s, label, part, next) ==
    /\ thread[s].at = label
    /\ conn' = SendDown(s, part)
    /\ thread' = [thread EXCEPT ![s] = next]
    /\ UNCHANGED <<serving, client, calls>>

\* Mutant: the length goes before the status.
SendAnswerLengthFirst(s) ==
    LET answer(name, val) == Part(name, thread[s].call, val)
        json == thread[s].json
    IN  \/ Send(s, "sendStatus", answer("length", Len(json)), [thread[s] EXCEPT !.at = "sendLength"])
        \/ Send(s, "sendLength", answer("status", ErrorFlag(json)), [thread[s] EXCEPT !.at = "sendJson"])
        \/ Send(s, "sendJson", answer("json", json), [NewThread EXCEPT !.at = "readLength"])

SendAnswer(s) ==
    LET answer(name, val) == Part(name, thread[s].call, val)
        json == thread[s].json
    IN  \/ Send(s, "sendStatus", answer("status", ErrorFlag(json)), [thread[s] EXCEPT !.at = "sendLength"])
        \/ Send(s, "sendLength", answer("length", Len(json)), [thread[s] EXCEPT !.at = "sendJson"])
        \/ Send(s, "sendJson", answer("json", json), [NewThread EXCEPT !.at = "readLength"])

SendFails(s) ==
    /\ thread[s].at \in {"sendStatus", "sendLength", "sendJson"} /\ ClientGone(s)
    /\ Close(s)

\* main returns: nothing waits for the threads.  Answers under way may still arrive.
Stop ==
    /\ serving
    /\ serving' = FALSE
    /\ thread' = [s \in Socket |-> IF conn[s].used THEN [NewThread EXCEPT !.at = "ended"] ELSE NewThread]
    /\ conn' = [s \in Socket |-> [conn[s] EXCEPT !.serverEnd = FALSE, !.up = <<>>]]
    /\ UNCHANGED <<client, calls>>

-----------------------------------------------------------------------------

NewClient == [fd |-> NoSocket, connected |-> FALSE, at |-> "idle", call |-> 0, status |-> 0]

Init ==
    /\ serving = TRUE
    /\ client = [c \in Client |-> NewClient]
    /\ conn = [s \in Socket |-> NewConn]
    /\ thread = [s \in Socket |-> NewThread]
    /\ calls = <<>>

\* What the library does inside execute if no signal interrupts a recv.
Proceed(c) ==
    \/ SendLength(c) \/ SendSql(c) \/ RecvStatus(c) \/ RecvLength(c) \/ RecvJson(c)
    \/ ~Idle(c) /\ AtEnd(c) /\ Throw(c)

Serve(s) ==
    \/ Accept(s) \/ ReadLength(s) \/ BadLength(s) \/ ReadSql(s) \/ EndOfInput(s)
    \/ processQuery(s) \/ SendAnswer(s) \/ SendFails(s)

Use(c) ==
    \/ Connect(c) \/ ConnectFails(c) \/ Disconnect(c)
    \/ Len(calls) < MaxCalls /\ \E r \in Asks[c] : Execute(c, r)

System ==
    \/ \E c \in Client : Proceed(c) \/ (Receiving(c) /\ Throw(c))
    \/ \E s \in Socket : Serve(s) \/ Cut(s)
    \/ Stop

Next == System \/ \E c \in Client : Use(c)

Spec == Init /\ [][Next]_vars

\* Clients and connection threads are scheduled; nobody has to call, and no
\* fault has to happen.
Fairness ==
    /\ \A c \in Client : WF_vars(Proceed(c))
    /\ \A s \in Socket : WF_vars(Serve(s))

-----------------------------------------------------------------------------
(* Properties.                                                             *)

Named(queue) == \A k \in DOMAIN queue : queue[k].part \in {"length", "sql", "status", "json"}

TypeOK ==
    /\ serving \in BOOLEAN
    /\ client \in [Client -> [fd : Socket \cup {NoSocket}, connected : BOOLEAN, call : Nat, status : {0, 1},
                             at : {"idle", "sendLength", "sendSql", "recvStatus", "recvLength", "recvJson"}]]
    /\ \A s \in Socket :
          /\ {conn[s].used, conn[s].cut, conn[s].clientEnd, conn[s].serverEnd} \subseteq BOOLEAN
          /\ Named(conn[s].up) /\ Named(conn[s].down)
          /\ thread[s].at \in {"none", "readLength", "readSql", "process", "sendStatus", "sendLength",
                                "sendJson", "ended"}
          /\ thread[s].call \in Nat
    /\ \A i \in DOMAIN calls : calls[i].by \in Client /\ calls[i].request \in Request

\* What a client sends for call i, and what a thread sends back for it, part by part.
RequestPart(i, n) ==
    IF n = 1 THEN Part("length", i, Size[calls[i].request]) ELSE Part("sql", i, calls[i].request)

ReplyPart(i, n) ==
    LET json == Encoded(calls[i].runs[1])
    IN  IF n = 1 THEN Part("status", i, ErrorFlag(json))
        ELSE IF n = 2 THEN Part("length", i, Len(json)) ELSE Part("json", i, json)

\* How many of them the thread has read, and of its answer to call i has sent.
PartsRead(s) ==
    IF thread[s].at \in {"none", "readLength"} THEN 0 ELSE IF thread[s].at = "readSql" THEN 1 ELSE 2

PartsSent(s, i) ==
    IF thread[s].at = "sendLength" THEN 1
    ELSE IF thread[s].at = "sendJson" THEN 2
    ELSE IF thread[s].at = "readLength" /\ calls[i].runs # <<>> THEN 3 ELSE 0

PartsTaken(c) ==
    IF client[c].at = "recvLength" THEN 1 ELSE IF client[c].at = "recvJson" THEN 2 ELSE 0

Answering(s) == thread[s].at \in {"sendStatus", "sendLength", "sendJson"}

\* Call i may still be run from here.
Carries(s, i) ==
    \/ \E k \in DOMAIN conn[s].up : conn[s].up[k].call = i
    \/ thread[s].at = "process" /\ thread[s].call = i

NotRun(i) == i \in DOMAIN calls /\ calls[i].runs = <<>> /\ calls[i].outcome # Promise!Refused

CallsOk ==
    /\ \A i \in DOMAIN calls :
          calls[i].runs # <<>> => \E result \in Answers[calls[i].request] : calls[i].runs = <<result>>
    /\ \A c \in Client :
          /\ \A i \in DOMAIN calls : calls[i].by = c /\ calls[i].outcome = Promise!Open
                                         => ~Idle(c) /\ i = client[c].call
          /\ ~Idle(c) => /\ client[c].connected /\ client[c].call \in DOMAIN calls
                         /\ calls[client[c].call].by = c
                         /\ calls[client[c].call].outcome = Promise!Open

SocketsOk ==
    /\ \A c \in Client : client[c].fd # NoSocket => conn[client[c].fd].used /\ conn[client[c].fd].clientEnd
    /\ \A c, d \in Client : client[c].fd = client[d].fd /\ client[c].fd # NoSocket => c = d
    /\ \A s, r \in Socket : \A i \in DOMAIN calls : Carries(s, i) /\ Carries(r, i) => s = r

ThreadOk(s) ==
    /\ ~conn[s].used => thread[s].at = "none"
    /\ conn[s].used => (thread[s].at = "ended" <=> ~conn[s].serverEnd)
    /\ thread[s].at = "process" => /\ NotRun(thread[s].call)
                                   /\ thread[s].sql = calls[thread[s].call].request
    /\ Answering(s) => /\ thread[s].call \in DOMAIN calls
                       /\ calls[thread[s].call].runs # <<>>
                       /\ thread[s].json = Encoded(calls[thread[s].call].runs[1])
    /\ Len(conn[s].up) + PartsRead(s) <= 2 \/ conn[s].up = <<>>
    /\ \A k \in DOMAIN conn[s].up :
          /\ NotRun(conn[s].up[k].call)
          /\ conn[s].up[k] = RequestPart(conn[s].up[k].call, PartsRead(s) + k)

\* A client between two calls of a good connection.
IdleOk(c, s) ==
    conn[s].up = <<>> /\ conn[s].down = <<>> /\ thread[s].at \in {"none", "readLength", "ended"}

\* A client in its call i.
BusyOk(c, s, i) ==
    /\ \A k \in DOMAIN conn[s].up : conn[s].up[k].call = i
    /\ Answering(s) \/ thread[s].at = "process" => thread[s].call = i
    /\ thread[s].at \in {"none", "readSql"} => calls[i].runs = <<>>
    /\ \A k \in DOMAIN conn[s].down : conn[s].down[k] = ReplyPart(i, PartsTaken(c) + k)
    /\ PartsTaken(c) + Len(conn[s].down) <= 3
    /\ PartsTaken(c) + Len(conn[s].down) > 0 => calls[i].runs # <<>>
    /\ thread[s].at # "ended" => /\ PartsTaken(c) + Len(conn[s].down) <= PartsSent(s, i)
                                 /\ conn[s].cut \/ PartsTaken(c) + Len(conn[s].down) = PartsSent(s, i)
    /\ client[c].at = "sendLength" =>
          conn[s].up = <<>> /\ thread[s].at \in {"none", "readLength", "ended"}
    /\ client[c].at = "sendSql" => thread[s].at \in {"none", "readLength", "readSql", "ended"}
    /\ client[c].at = "sendSql" /\ thread[s].at # "ended" =>
          /\ Len(conn[s].up) + PartsRead(s) <= 1
          /\ conn[s].cut \/ Len(conn[s].up) + PartsRead(s) = 1
    /\ PartsTaken(c) > 0 => client[c].status = ErrorFlag(Encoded(calls[i].runs[1]))

ClientOk(c) ==
    LET s == client[c].fd
        i == client[c].call
    IN  /\ Idle(c) /\ client[c].connected /\ s # NoSocket => IdleOk(c, s)
        /\ ~Idle(c) /\ s # NoSocket => BusyOk(c, s, i)
        /\ ~Idle(c) => /\ \A r \in Socket : Carries(r, i) => r = s
                       /\ client[c].at \in {"sendLength", "sendSql"} => calls[i].runs = <<>>

(* What is under way to the server is not run yet and is under way once;   *)
(* what is under way on the connection of a waiting client, and what its   *)
(* thread still has to send, is the rest of the answer to the call he is   *)
(* in, in its order; and a connection on which he may call again is empty  *)
(* (Client.cpp:259-283, Server.cpp:131-158).                               *)
ConnectionsInStep ==
    /\ TypeOK /\ CallsOk /\ SocketsOk
    /\ \A s \in Socket : ThreadOk(s)
    /\ \A c \in Client : ClientOk(c)

(* The library and the server together are the remote call of Rpc: no      *)
(* request is run twice, whatever is cut, interrupted, closed or connected *)
(* again; an answer is that of the call which returns it, and shows what   *)
(* the statement returned (Client.cpp:259-283, Server.cpp:131-189).        *)
ImplementsRpc == Promise!Spec

(* execute comes back: with an answer, or with an error when the           *)
(* connection is gone, the server stops or the length is refused           *)
(* (Client.cpp:264-282, Server.cpp:137-142).                               *)
EveryCallReturns == \A c \in Client : ~Idle(c) ~> Idle(c)

(* The thread of a connection the client has closed comes to its end, also *)
(* when it was about to answer (Server.cpp:70-73, 137-157).                *)
ThreadsEnd == \A s \in Socket : conn[s].used /\ ~conn[s].clientEnd ~> thread[s].at = "ended"
=============================================================================
