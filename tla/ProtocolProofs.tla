--------------------------- MODULE ProtocolProofs ---------------------------
(***************************************************************************)
(* Proofs about Protocol, for any number of clients, sockets and calls:    *)
(* a connection is always in step, and so the library and the server       *)
(* together are the remote call of Rpc.                                    *)
(*                                                                         *)
(* A step touches one socket, and the client or the thread at its end:     *)
(* what is said of the others stays true because a call is under way on    *)
(* one socket only, and a socket belongs to one client.                    *)
(***************************************************************************)
EXTENDS Protocol, TLAPS

USE SocketAssumption, RequestAssumption, FlagAssumption

-----------------------------------------------------------------------------
(* Types.                                                                  *)

\* The texts that may be sent back.
Body == {Encoded(result) : result \in UNION {Answers[r] : r \in Request}}

UpPart   == [part : {"length"}, call : Nat, val : {"empty", "fits", "tooLong"}]
            \cup [part : {"sql"}, call : Nat, val : Request]
DownPart == [part : {"status", "length", "json"}, call : Nat,
             val : {0, 1} \cup {Len(json) : json \in Body} \cup Body]

ClientType == [fd : Socket \cup {NoSocket}, connected : BOOLEAN, call : Nat, status : {0, 1},
               at : {"idle", "sendLength", "sendSql", "recvStatus", "recvLength", "recvJson"}]

ConnType == [used : BOOLEAN, clientEnd : BOOLEAN, serverEnd : BOOLEAN, cut : BOOLEAN,
             up : Seq(UpPart), down : Seq(DownPart)]

ThreadType == [at : {"none", "readLength", "readSql", "process", "sendStatus", "sendLength", "sendJson",
                     "ended"},
               call : Nat, sql : Request \cup {<<>>}, json : Body \cup {<<>>}]

Outcome == {Promise!Open, Promise!Lost, Promise!Refused}
           \cup {Promise!Returned(Decoded(status, json)) : status \in {0, 1}, json \in Body}

CallType == [by : Client, request : Request, runs : Seq(UNION {Answers[r] : r \in Request}), outcome : Outcome]

TypeInv ==
    /\ serving \in BOOLEAN
    /\ client \in [Client -> ClientType]
    /\ conn \in [Socket -> ConnType]
    /\ thread \in [Socket -> ThreadType]
    /\ calls \in Seq(CallType)

\* ConnectionsInStep over the full types: the inductive invariant.
IInv == TypeInv /\ CallsOk /\ SocketsOk /\ (\A s \in Socket : ThreadOk(s)) /\ (\A c \in Client : ClientOk(c))

\* The step leaves what the other parts depend on in call i.
CallKept(i) ==
    /\ i \in DOMAIN calls'
    /\ calls'[i].request = calls[i].request
    /\ calls'[i].runs = calls[i].runs
    /\ calls'[i].outcome = Promise!Refused <=> calls[i].outcome = Promise!Refused

-----------------------------------------------------------------------------
(* What a step leaves alone.                                               *)

\* A socket of which the thread and the way up do not change.
LEMMA ThreadFrame ==
    ASSUME TypeInv, NEW s \in Socket, ThreadOk(s), thread'[s] = thread[s],
           conn'[s].up = conn[s].up, conn'[s].used = conn[s].used, conn'[s].serverEnd = conn[s].serverEnd,
           \A i \in DOMAIN calls : calls[i].runs # <<>> \/ Carries(s, i) => CallKept(i)
    PROVE  ThreadOk(s)'
<1>1. PartsRead(s)' = PartsRead(s) /\ Answering(s)' = Answering(s)
  BY DEF PartsRead, Answering
<1>2. \A i : Carries(s, i) /\ NotRun(i) => NotRun(i)'
  BY DEF NotRun, CallKept
<1>3. \A k \in DOMAIN conn[s].up : /\ NotRun(conn[s].up[k].call)'
                                  /\ conn[s].up[k] = RequestPart(conn[s].up[k].call, PartsRead(s) + k)'
  <2> SUFFICES ASSUME NEW k \in DOMAIN conn[s].up
               PROVE  /\ NotRun(conn[s].up[k].call)'
                      /\ conn[s].up[k] = RequestPart(conn[s].up[k].call, PartsRead(s) + k)'
    OBVIOUS
  <2> DEFINE i == conn[s].up[k].call
  <2>1. Carries(s, i) /\ NotRun(i) /\ conn[s].up[k] = RequestPart(i, PartsRead(s) + k)
    BY DEF ThreadOk, Carries
  <2>2. CallKept(i)
    BY <2>1 DEF NotRun
  <2>3. calls'[i].request = calls[i].request
    BY <2>2 DEF CallKept
  <2>4. RequestPart(i, PartsRead(s) + k)' = RequestPart(i, PartsRead(s) + k)
    BY <2>3, <1>1 DEF RequestPart
  <2> QED BY <2>1, <2>4, <1>2
<1>4. thread[s].at = "process" => /\ NotRun(thread[s].call)'
                                 /\ thread[s].sql = calls'[thread[s].call].request
  BY <1>2 DEF ThreadOk, Carries, CallKept, NotRun
<1>5. Answering(s) => /\ thread[s].call \in DOMAIN calls'
                      /\ calls'[thread[s].call].runs # <<>>
                      /\ thread[s].json = Encoded(calls'[thread[s].call].runs[1])
  BY DEF ThreadOk, CallKept
<1> QED
  BY <1>1, <1>3, <1>4, <1>5 DEF ThreadOk

\* A client that does not move, on a socket that does not change.
LEMMA ClientFrame ==
    ASSUME TypeInv, NEW c \in Client, ClientOk(c), client'[c] = client[c],
           client[c].fd # NoSocket => conn'[client[c].fd] = conn[client[c].fd]
                                      /\ thread'[client[c].fd] = thread[client[c].fd],
           ~Idle(c) => CallKept(client[c].call),
           ~Idle(c) => \A r \in Socket : Carries(r, client[c].call)' => Carries(r, client[c].call)
    PROVE  ClientOk(c)'
<1> PICK s, i : s = client[c].fd /\ i = client[c].call
  OBVIOUS
<1>1. Idle(c)' = Idle(c) /\ PartsTaken(c)' = PartsTaken(c)
  BY DEF Idle, PartsTaken
<1>2. Idle(c) /\ client[c].connected /\ s # NoSocket => IdleOk(c, s)'
  BY DEF ClientOk, IdleOk
<1>3. ASSUME ~Idle(c), s # NoSocket PROVE BusyOk(c, s, i)'
  <2>1. BusyOk(c, s, i) /\ calls'[i].runs = calls[i].runs /\ conn'[s] = conn[s] /\ thread'[s] = thread[s]
    BY <1>3 DEF ClientOk, CallKept
  <2>2. PartsSent(s, i)' = PartsSent(s, i) /\ Answering(s)' = Answering(s) /\ PartsRead(s)' = PartsRead(s)
    BY <2>1 DEF PartsSent, Answering, PartsRead
  <2>3. \A n : ReplyPart(i, n)' = ReplyPart(i, n)
    BY <2>1 DEF ReplyPart
  <2> QED BY <2>1, <2>2, <2>3, <1>1, SMTT(30) DEF BusyOk
<1>4. ~Idle(c) => /\ \A r \in Socket : Carries(r, i)' => r = s
                  /\ client[c].at \in {"sendLength", "sendSql"} => calls'[i].runs = <<>>
  BY DEF ClientOk, CallKept
<1> QED BY <1>1, <1>2, <1>3, <1>4 DEF ClientOk

LEMMA SetUp ==
    ASSUME TypeInv, NEW s \in Socket, NEW queue \in Seq(UpPart),
           conn' = [conn EXCEPT ![s].up = queue]
    PROVE  /\ conn' \in [Socket -> ConnType]
           /\ \A r \in Socket : r # s => conn'[r] = conn[r]
           /\ conn'[s].up = queue /\ conn'[s].down = conn[s].down
           /\ conn'[s].used = conn[s].used /\ conn'[s].cut = conn[s].cut
           /\ conn'[s].clientEnd = conn[s].clientEnd /\ conn'[s].serverEnd = conn[s].serverEnd
<1>1. conn[s] \in ConnType /\ conn \in [Socket -> ConnType]
  BY DEF TypeInv
<1>2. [conn[s] EXCEPT !.up = queue] \in ConnType
  BY <1>1 DEF ConnType
<1>3. conn'[s] = [conn[s] EXCEPT !.up = queue] /\ conn' \in [Socket -> ConnType]
  BY <1>1, <1>2
<1>4. \A r \in Socket : r # s => conn'[r] = conn[r]
  BY <1>1
<1> QED
  BY <1>1, <1>3, <1>4 DEF ConnType

LEMMA SetDown ==
    ASSUME TypeInv, NEW s \in Socket, NEW queue \in Seq(DownPart),
           conn' = [conn EXCEPT ![s].down = queue]
    PROVE  /\ conn' \in [Socket -> ConnType]
           /\ \A r \in Socket : r # s => conn'[r] = conn[r]
           /\ conn'[s].down = queue /\ conn'[s].up = conn[s].up
           /\ conn'[s].used = conn[s].used /\ conn'[s].cut = conn[s].cut
           /\ conn'[s].clientEnd = conn[s].clientEnd /\ conn'[s].serverEnd = conn[s].serverEnd
<1>1. conn[s] \in ConnType /\ conn \in [Socket -> ConnType]
  BY DEF TypeInv
<1>2. [conn[s] EXCEPT !.down = queue] \in ConnType
  BY <1>1 DEF ConnType
<1>3. conn'[s] = [conn[s] EXCEPT !.down = queue] /\ conn' \in [Socket -> ConnType]
  BY <1>1, <1>2
<1>4. \A r \in Socket : r # s => conn'[r] = conn[r]
  BY <1>1
<1> QED
  BY <1>1, <1>3, <1>4 DEF ConnType

LEMMA SetClient ==
    ASSUME TypeInv, NEW c \in Client, NEW new \in ClientType, client' = [client EXCEPT ![c] = new]
    PROVE  /\ client' \in [Client -> ClientType]
           /\ client'[c] = new
           /\ \A d \in Client : d # c => client'[d] = client[d]
  BY DEF TypeInv

LEMMA SetThread ==
    ASSUME TypeInv, NEW s \in Socket, NEW new \in ThreadType, thread' = [thread EXCEPT ![s] = new]
    PROVE  /\ thread' \in [Socket -> ThreadType]
           /\ thread'[s] = new
           /\ \A r \in Socket : r # s => thread'[r] = thread[r]
  BY DEF TypeInv

LEMMA Outcomes ==
    /\ Promise!Open # Promise!Refused /\ Promise!Open # Promise!Lost /\ Promise!Lost # Promise!Refused
    /\ \A x : Promise!Returned(x) # Promise!Refused /\ Promise!Returned(x) # Promise!Open
  BY DEF Promise!Open, Promise!Refused, Promise!Lost, Promise!Returned

\* What is known of a client in its call, on its socket.
LEMMA BusyFacts ==
    ASSUME IInv, NEW c \in Client, ~Idle(c), client[c].fd # NoSocket
    PROVE  LET s == client[c].fd
               i == client[c].call
           IN  /\ s \in Socket /\ i \in DOMAIN calls /\ i \in Nat /\ calls[i] \in CallType
               /\ conn[s] \in ConnType /\ thread[s] \in ThreadType /\ client[c] \in ClientType
               /\ conn[s].used /\ conn[s].clientEnd
               /\ calls[i].outcome = Promise!Open /\ client[c].connected
               /\ BusyOk(c, s, i) /\ ThreadOk(s)
               /\ \A r \in Socket : Carries(r, i) => r = s
               /\ client[c].at \in {"sendLength", "sendSql"} => calls[i].runs = <<>>
               /\ \A d \in Client : client[d].fd = s => d = c
               /\ \A d \in Client : ~Idle(d) /\ client[d].call = i => d = c
<1>1. /\ client[c] \in ClientType /\ client[c].fd \in Socket /\ client[c].call \in DOMAIN calls
      /\ \A i \in DOMAIN calls : calls[i] \in CallType /\ i \in Nat
  BY DEF IInv, TypeInv, CallsOk, ClientType
<1>2. conn[client[c].fd] \in ConnType /\ thread[client[c].fd] \in ThreadType
  BY <1>1 DEF IInv, TypeInv
<1>3. \A d \in Client : ~Idle(d) => calls[client[d].call].by = d
  BY DEF IInv, CallsOk
<1>4. /\ conn[client[c].fd].used /\ conn[client[c].fd].clientEnd
      /\ \A d \in Client : client[d].fd = client[c].fd => d = c
  BY <1>1 DEF IInv, SocketsOk
<1>5. client[c].connected /\ calls[client[c].call].outcome = Promise!Open
  BY DEF IInv, CallsOk
<1>6. ThreadOk(client[c].fd) /\ ClientOk(c)
  BY <1>1 DEF IInv
<1> QED
  BY <1>1, <1>2, <1>3, <1>4, <1>5, <1>6 DEF ClientOk

\* A step on socket s that neither opens it nor closes it at the client's end.
LEMMA LocalStep ==
    ASSUME IInv, NEW s \in Socket, TypeInv', calls' = calls,
           \A r \in Socket : r # s => conn'[r] = conn[r] /\ thread'[r] = thread[r],
           conn'[s].used = conn[s].used, conn'[s].clientEnd = conn[s].clientEnd,
           \A d \in Client : client[d].fd # s => client'[d] = client[d],
           \A d \in Client : client'[d].fd = client[d].fd /\ client'[d].call = client[d].call
                             /\ client'[d].connected = client[d].connected /\ Idle(d)' = Idle(d),
           NEW i, \A j : Carries(s, j)' => Carries(s, j) \/ j = i,
           \A r \in Socket : Carries(r, i) => r = s,
           \A d \in Client : ~Idle(d) /\ client[d].fd # s => client[d].call # i,
           ThreadOk(s)',
           \A d \in Client : client[d].fd = s => ClientOk(d)'
    PROVE  IInv'
<1>1. CallsOk'
  <2>1. \A c \in Client : /\ client'[c].call = client[c].call
                          /\ client'[c].connected = client[c].connected /\ Idle(c)' = Idle(c)
    OBVIOUS
  <2>2. CallsOk
    BY DEF IInv
  <2> QED BY <2>1, <2>2 DEF CallsOk
<1>2. \A r \in Socket : r # s => \A j : Carries(r, j)' = Carries(r, j)
  BY DEF Carries
<1>3. SocketsOk'
  <2>1. \A r \in Socket : conn'[r].used = conn[r].used /\ conn'[r].clientEnd = conn[r].clientEnd
    OBVIOUS
  <2>2. \A d \in Client : client[d].fd \in Socket \cup {NoSocket}
    BY DEF IInv, TypeInv, ClientType
  <2>3. \A r, t \in Socket : \A j \in DOMAIN calls : Carries(r, j) /\ Carries(t, j) => r = t
    BY DEF IInv, SocketsOk
  <2>4. \A r, t \in Socket : \A j \in DOMAIN calls : Carries(r, j)' /\ Carries(t, j)' => r = t
    BY <2>3, <1>2
  <2>5. \A d \in Client : client'[d].fd = client[d].fd
    OBVIOUS
  <2> QED BY <2>1, <2>2, <2>4, <2>5 DEF IInv, SocketsOk
<1>4. \A j \in DOMAIN calls : CallKept(j)
  BY DEF CallKept
<1>5. ASSUME NEW r \in Socket PROVE ThreadOk(r)'
  <2>1. CASE r # s
    BY <2>1, <1>4, ThreadFrame DEF IInv
  <2> QED BY <2>1
<1>6. ASSUME NEW d \in Client PROVE ClientOk(d)'
  <2>1. CASE client[d].fd # s
    <3>1. client[d].fd # NoSocket => client[d].fd \in Socket
      BY DEF IInv, TypeInv, ClientType
    <3>2. ~Idle(d) => CallKept(client[d].call) /\ client[d].call # i
      BY <2>1, <1>4 DEF IInv, CallsOk
    <3>3. ~Idle(d) => \A r \in Socket : Carries(r, client[d].call)' => Carries(r, client[d].call)
      BY <1>2, <3>2
    <3> QED BY <2>1, <3>1, <3>2, <3>3, ClientFrame DEF IInv
  <2> QED BY <2>1
<1> QED BY <1>1, <1>3, <1>5, <1>6 DEF IInv

\* A step of a client in its call.
LEMMA BusyStep ==
    ASSUME IInv, NEW c \in Client, ~Idle(c), NEW s \in Socket, s = client[c].fd,
           NEW i, i = client[c].call,
           TypeInv', calls' = calls, thread' = thread,
           \A r \in Socket : r # s => conn'[r] = conn[r],
           conn'[s].used = conn[s].used, conn'[s].clientEnd = conn[s].clientEnd,
           \A d \in Client : d # c => client'[d] = client[d],
           client'[c].fd = s, client'[c].call = i, client'[c].connected = client[c].connected, ~Idle(c)',
           \A j : Carries(s, j)' => Carries(s, j) \/ j = i,
           ThreadOk(s)', ClientOk(c)'
    PROVE  IInv'
<1>1. /\ \A r \in Socket : Carries(r, i) => r = s
      /\ \A d \in Client : client[d].fd = s => d = c
      /\ \A d \in Client : ~Idle(d) /\ client[d].call = i => d = c
  BY BusyFacts
<1>2. \A d \in Client : client[d].fd # s => client'[d] = client[d]
  BY <1>1
<1>3. \A d \in Client : client'[d].fd = client[d].fd /\ client'[d].call = client[d].call
                        /\ client'[d].connected = client[d].connected /\ Idle(d)' = Idle(d)
  BY DEF Idle
<1>4. \A d \in Client : ~Idle(d) /\ client[d].fd # s => client[d].call # i
  BY <1>1
<1>5. \A d \in Client : client[d].fd = s => ClientOk(d)'
  BY <1>1
<1> QED BY <1>1, <1>2, <1>3, <1>4, <1>5, LocalStep

-----------------------------------------------------------------------------
(* The client sends its request and takes the first parts of the answer.   *)

LEMMA SendLengthStep ==
    ASSUME IInv, NEW c \in Client, SendLength(c)
    PROVE  IInv'
<1>1. ~Idle(c) /\ client[c].fd # NoSocket
  BY DEF SendLength, Idle
<1> PICK s, i : s = client[c].fd /\ i = client[c].call
  OBVIOUS
<1> DEFINE part == Part("length", i, Size[calls[i].request])
<1>2. /\ s \in Socket /\ i \in DOMAIN calls /\ i \in Nat /\ calls[i] \in CallType
      /\ conn[s] \in ConnType /\ thread[s] \in ThreadType /\ client[c] \in ClientType
      /\ conn[s].used /\ conn[s].clientEnd
      /\ calls[i].outcome = Promise!Open /\ client[c].connected
      /\ BusyOk(c, s, i) /\ ThreadOk(s)
      /\ \A r \in Socket : Carries(r, i) => r = s
      /\ \A d \in Client : client[d].fd = s => d = c
      /\ \A d \in Client : ~Idle(d) /\ client[d].call = i => d = c
  BY <1>1, BusyFacts
<1>3. /\ conn[s].up = <<>> /\ thread[s].at \in {"none", "readLength", "ended"}
      /\ calls[i].runs = <<>> /\ PartsTaken(c) = 0
  BY <1>1, <1>2, BusyFacts DEF BusyOk, SendLength, PartsTaken
<1>4. /\ part \in UpPart /\ part = RequestPart(i, 1) /\ part.call = i
  BY <1>2 DEF Part, UpPart, CallType, RequestPart
<1> HIDE DEF part
<1> DEFINE queue == IF ServerGone(s) THEN <<>> ELSE <<part>>
           new   == [client[c] EXCEPT !.at = "sendSql"]
<1>5. queue \in Seq(UpPart) /\ new \in ClientType
  BY <1>2, <1>4 DEF ClientType
<1>6. /\ client' = [client EXCEPT ![c] = new]
      /\ conn' = [conn EXCEPT ![s].up = queue]
      /\ thread' = thread /\ calls' = calls /\ serving' = serving
  BY <1>3 DEF SendLength, SendUp, part
<1>7. /\ new.at = "sendSql" /\ new.fd = s /\ new.call = i
      /\ new.connected = client[c].connected /\ new.status = client[c].status
  BY <1>2 DEF ClientType
<1> HIDE DEF queue, new
<1>8. /\ conn' \in [Socket -> ConnType]
      /\ \A r \in Socket : r # s => conn'[r] = conn[r]
      /\ conn'[s].up = queue /\ conn'[s].down = conn[s].down
      /\ conn'[s].used = conn[s].used /\ conn'[s].cut = conn[s].cut
      /\ conn'[s].clientEnd = conn[s].clientEnd /\ conn'[s].serverEnd = conn[s].serverEnd
  BY <1>2, <1>5, <1>6, SetUp DEF IInv
<1>9. /\ client' \in [Client -> ClientType]
      /\ client'[c] = new
      /\ \A d \in Client : d # c => client'[d] = client[d]
  BY <1>5, <1>6, SetClient DEF IInv
<1>10. TypeInv'
  BY <1>6, <1>8, <1>9 DEF IInv, TypeInv
<1>11. \A j : Carries(s, j)' => Carries(s, j) \/ j = i
  <2>1. \A k \in DOMAIN conn'[s].up : conn'[s].up[k].call = i
    BY <1>4, <1>8 DEF queue
  <2>2. thread'[s] = thread[s]
    BY <1>6
  <2> QED BY <2>1, <2>2 DEF Carries
<1>12. PartsRead(s)' = PartsRead(s) /\ (thread[s].at # "ended" => PartsRead(s) = 0)
  BY <1>3, <1>6 DEF PartsRead
<1>13. ServerGone(s) <=> conn[s].cut \/ thread[s].at = "ended"
  BY <1>2 DEF ThreadOk, ServerGone
<1>14. ThreadOk(s)'
  <2>1. NotRun(i)' /\ (\A n : RequestPart(i, n)' = RequestPart(i, n))
    BY <1>2, <1>3, <1>6, Outcomes DEF NotRun, RequestPart
  <2>2. conn'[s].up = <<>> \/ (conn'[s].up = <<part>> /\ PartsRead(s) = 0)
    BY <1>8, <1>12, <1>13 DEF queue
  <2>3. ASSUME NEW k \in DOMAIN conn'[s].up
        PROVE  /\ NotRun(conn[s].up[k].call)'
               /\ (conn[s].up[k] = RequestPart(conn[s].up[k].call, PartsRead(s) + k))'
    <3>1. k = 1 /\ conn'[s].up[k] = part /\ PartsRead(s)' + k = 1
      BY <2>2, <2>3, <1>12
    <3>2. NotRun(conn[s].up[k].call)'
      BY <3>1, <1>4, <2>1
    <3>3. RequestPart(conn[s].up[k].call, PartsRead(s) + k)' = RequestPart(i, 1)'
      BY <3>1, <1>4
    <3> QED BY <3>1, <3>2, <3>3, <1>4, <2>1
  <2>4. Len(conn'[s].up) + PartsRead(s)' <= 2 \/ conn'[s].up = <<>>
    <3>1. Len(<<part>>) = 1
      OBVIOUS
    <3>2. CASE conn'[s].up = <<part>> /\ PartsRead(s) = 0
      <4>1. Len(conn'[s].up) = 1 /\ PartsRead(s)' = 0
        BY <3>1, <3>2, <1>12
      <4> QED BY <4>1
    <3> QED BY <3>2, <2>2
  <2> QED BY <2>3, <2>4, <1>2, <1>3, <1>6, <1>8, <1>12 DEF ThreadOk, Answering
<1>15. ClientOk(c)'
  <2>1. BusyOk(c, s, i)'
    <3>1. PartsTaken(c)' = 0 /\ ~Answering(s)' /\ thread'[s].at # "process"
      BY <1>3, <1>6, <1>7, <1>9 DEF PartsTaken, Answering
    <3>2. Len(conn[s].down) = 0 /\ conn[s].down = <<>> /\ conn'[s].down = <<>>
      BY <1>2, <1>3, <1>8 DEF BusyOk, ConnType
    <3>3. thread[s].at # "ended" => PartsSent(s, i)' = 0
      BY <1>3, <1>6 DEF PartsSent
    <3>4. thread'[s].at # "ended" => /\ Len(conn'[s].up) + PartsRead(s) <= 1
                                     /\ conn[s].cut \/ Len(conn'[s].up) + PartsRead(s) = 1
      <4>1. Len(<<part>>) = 1 /\ Len(<<>>) = 0
        OBVIOUS
      <4> QED BY <4>1, <1>6, <1>8, <1>12, <1>13 DEF queue
    <3>5. \A k \in DOMAIN conn'[s].up : conn'[s].up[k].call = i
      BY <1>4, <1>8 DEF queue
    <3> QED
      BY <3>1, <3>2, <3>3, <3>4, <3>5, <1>3, <1>6, <1>7, <1>8, <1>9, <1>12 DEF BusyOk
  <2>2. \A r \in Socket : Carries(r, i)' => r = s
    BY <1>2, <1>6, <1>8 DEF Carries
  <2> QED BY <2>1, <2>2, <1>3, <1>6, <1>7, <1>9 DEF ClientOk, Idle
<1>16. ~Idle(c)'
  BY <1>7, <1>9 DEF Idle
<1> QED BY <1>1, <1>2, <1>6, <1>7, <1>8, <1>9, <1>10, <1>11, <1>14, <1>15, <1>16, BusyStep, ZenonT(60)

\* Before all of it is sent, nothing of the answer is on its way.
LEMMA NothingBack ==
    ASSUME IInv, NEW c \in Client, client[c].at \in {"sendLength", "sendSql"}, client[c].fd # NoSocket
    PROVE  /\ conn[client[c].fd].down = <<>> /\ Len(conn[client[c].fd].down) = 0 /\ PartsTaken(c) = 0
           /\ calls[client[c].call].runs = <<>>
<1>1. ~Idle(c)
  BY DEF Idle
<1> PICK s, i : s = client[c].fd /\ i = client[c].call
  OBVIOUS
<1>2. PartsTaken(c) = 0
  BY DEF PartsTaken
<1>3. calls[i].runs = <<>> /\ BusyOk(c, s, i) /\ conn[s] \in ConnType
  BY <1>1, BusyFacts
<1>4. Len(conn[s].down) = 0
  BY <1>2, <1>3 DEF BusyOk, ConnType
<1> QED BY <1>2, <1>3, <1>4 DEF ConnType

LEMMA SendSqlStep ==
    ASSUME IInv, NEW c \in Client, SendSql(c)
    PROVE  IInv'
<1>1. ~Idle(c) /\ client[c].fd # NoSocket /\ client[c].at = "sendSql"
  BY DEF SendSql, Idle
<1> PICK s, i : s = client[c].fd /\ i = client[c].call
  OBVIOUS
<1> DEFINE part == Part("sql", i, calls[i].request)
<1>2. /\ s \in Socket /\ i \in DOMAIN calls /\ i \in Nat /\ calls[i] \in CallType
      /\ conn[s] \in ConnType /\ thread[s] \in ThreadType /\ client[c] \in ClientType
      /\ calls[i].outcome = Promise!Open /\ client[c].connected
      /\ BusyOk(c, s, i) /\ ThreadOk(s) /\ conn[s].used
      /\ \A r \in Socket : Carries(r, i) => r = s
  BY <1>1, BusyFacts
<1>3. /\ thread[s].at \in {"none", "readLength", "readSql", "ended"}
      /\ thread[s].at # "ended" => /\ Len(conn[s].up) + PartsRead(s) <= 1
                                   /\ conn[s].cut \/ Len(conn[s].up) + PartsRead(s) = 1
      /\ calls[i].runs = <<>> /\ conn[s].down = <<>> /\ Len(conn[s].down) = 0
  BY <1>1, <1>2, NothingBack DEF BusyOk
<1>4. /\ part \in UpPart /\ part = RequestPart(i, 2) /\ part.call = i
  BY <1>2 DEF Part, UpPart, CallType, RequestPart
<1>5. ServerGone(s) <=> conn[s].cut \/ thread[s].at = "ended"
  BY <1>2 DEF ThreadOk, ServerGone
<1> DEFINE sent  == Size[calls[i].request] # "empty" /\ ~ServerGone(s)
           queue == IF sent THEN Append(conn[s].up, part) ELSE conn[s].up
           new   == [client[c] EXCEPT !.at = "recvStatus"]
<1>6. /\ client' = [client EXCEPT ![c] = new]
      /\ conn' = conn \/ conn' = [conn EXCEPT ![s].up = queue]
      /\ conn' = conn => ~sent \/ conn'[s].up = queue
      /\ thread' = thread /\ calls' = calls /\ serving' = serving
  <2> HIDE DEF part
  <2>1. client' = [client EXCEPT ![c] = new] /\ thread' = thread /\ calls' = calls /\ serving' = serving
    BY DEF SendSql
  <2>2. CASE Size[calls[i].request] = "empty"
    BY <2>1, <2>2 DEF SendSql
  <2>3. CASE Size[calls[i].request] # "empty"
    <3>1. conn' = [conn EXCEPT ![s].up = queue]
      BY <2>3 DEF SendSql, SendUp, part
    <3>2. conn' = conn => conn'[s].up = queue
      <4>1. conn'[s].up = queue
        BY <3>1, <1>2 DEF IInv, TypeInv, ConnType
      <4> QED BY <4>1
    <3> QED BY <2>1, <3>1, <3>2
  <2> QED BY <2>2, <2>3
<1>7. queue \in Seq(UpPart) /\ new \in ClientType
  BY <1>2, <1>4 DEF ClientType, ConnType
<1>8. /\ new.at = "recvStatus" /\ new.fd = s /\ new.call = i
      /\ new.connected = client[c].connected /\ new.status = client[c].status
  BY <1>2 DEF ClientType
<1>9. /\ queue = conn[s].up \/ (queue = Append(conn[s].up, part) /\ ~ServerGone(s))
      /\ ~sent => queue = conn[s].up
  OBVIOUS
<1> HIDE DEF part, queue, new, sent
<1>10. /\ conn' \in [Socket -> ConnType]
       /\ \A r \in Socket : r # s => conn'[r] = conn[r]
       /\ conn'[s].up = queue /\ conn'[s].down = conn[s].down
       /\ conn'[s].used = conn[s].used /\ conn'[s].cut = conn[s].cut
       /\ conn'[s].clientEnd = conn[s].clientEnd /\ conn'[s].serverEnd = conn[s].serverEnd
  <2>1. CASE conn' = conn
    BY <2>1, <1>6, <1>9 DEF IInv, TypeInv
  <2>2. CASE conn' = [conn EXCEPT ![s].up = queue]
    BY <2>2, <1>2, <1>7, SetUp DEF IInv
  <2> QED BY <2>1, <2>2, <1>6
<1>11. /\ client' \in [Client -> ClientType]
       /\ client'[c] = new
       /\ \A d \in Client : d # c => client'[d] = client[d]
  BY <1>6, <1>7, SetClient DEF IInv
<1>12. TypeInv'
  BY <1>6, <1>10, <1>11 DEF IInv, TypeInv
<1>13. /\ Len(conn[s].up) \in Nat /\ PartsRead(s) \in Nat /\ PartsRead(s)' = PartsRead(s)
       /\ DOMAIN conn[s].up = 1 .. Len(conn[s].up)
       /\ DOMAIN Append(conn[s].up, part) = 1 .. Len(conn[s].up) + 1
       /\ Append(conn[s].up, part)[Len(conn[s].up) + 1] = part
       /\ \A q \in Seq(UpPart) : Len(Append(q, part)) = Len(q) + 1
       /\ conn[s].up \in Seq(UpPart)
  <2>1. conn[s].up \in Seq(UpPart)
    BY <1>2 DEF ConnType
  <2>2. PartsRead(s) \in Nat /\ PartsRead(s)' = PartsRead(s)
    BY <1>6 DEF PartsRead
  <2>3. \A q \in Seq(UpPart) : /\ Len(q) \in Nat /\ DOMAIN q = 1 .. Len(q)
                                /\ Len(Append(q, part)) = Len(q) + 1
                                /\ DOMAIN Append(q, part) = 1 .. Len(q) + 1
                                /\ Append(q, part)[Len(q) + 1] = part
    BY <1>4
  <2> QED BY <2>1, <2>2, <2>3
<1>14. queue # conn[s].up => /\ queue = Append(conn[s].up, part) /\ thread[s].at # "ended"
                            /\ Len(conn[s].up) + PartsRead(s) = 1
  BY <1>3, <1>5, <1>9, <1>13
<1>15. \A k \in DOMAIN queue : \/ k \in DOMAIN conn[s].up /\ queue[k] = conn[s].up[k]
                               \/ queue[k] = part /\ PartsRead(s) + k = 2
  <2>1. CASE queue = conn[s].up
    BY <2>1
  <2>2. CASE queue # conn[s].up
    <3>1. queue = Append(conn[s].up, part) /\ Len(conn[s].up) + PartsRead(s) = 1
      BY <2>2, <1>14
    <3> PICK l \in Nat, n \in Nat : l = Len(conn[s].up) /\ n = PartsRead(s)
      BY <1>13
    <3>2. l + n = 1
      BY <3>1
    <3>3. n + (l + 1) = 2
      BY <3>2
    <3>4. DOMAIN queue = 1 .. l + 1 /\ queue[l + 1] = part /\ DOMAIN conn[s].up = 1 .. l
      BY <3>1, <1>13
    <3>5. \A k \in 1 .. l : Append(conn[s].up, part)[k] = conn[s].up[k]
      BY <1>4, <1>13
    <3>6. \A k \in 1 .. l : queue[k] = conn[s].up[k]
      BY <3>1, <3>5
    <3>7. \A k \in 1 .. l + 1 : k \in 1 .. l \/ k = l + 1
      OBVIOUS
    <3> QED BY <3>3, <3>4, <3>6, <3>7
  <2> QED BY <2>1, <2>2
<1>16. \A j : Carries(s, j)' => Carries(s, j) \/ j = i
  BY <1>4, <1>6, <1>10, <1>15, ZenonT(60) DEF Carries
<1>17. ThreadOk(s)'
  <2>1. \A j \in DOMAIN calls : CallKept(j)
    BY <1>6 DEF CallKept
  <2>2. \A j, n : NotRun(j)' = NotRun(j) /\ RequestPart(j, n)' = RequestPart(j, n)
    BY <1>6 DEF NotRun, RequestPart
  <2>3. NotRun(i)
    BY <1>2, <1>3, Outcomes DEF NotRun
  <2>4. ASSUME NEW k \in DOMAIN conn'[s].up
        PROVE  /\ NotRun(conn[s].up[k].call)'
               /\ (conn[s].up[k] = RequestPart(conn[s].up[k].call, PartsRead(s) + k))'
    <3>1. CASE k \in DOMAIN conn[s].up /\ queue[k] = conn[s].up[k]
      BY <3>1, <2>2, <1>10, <1>13, <1>2, ZenonT(60) DEF ThreadOk
    <3>2. CASE queue[k] = part /\ PartsRead(s) + k = 2
      <4>1. conn'[s].up[k] = part /\ PartsRead(s)' + k = 2
        BY <3>2, <1>10, <1>13
      <4>2. RequestPart(conn[s].up[k].call, PartsRead(s) + k)' = RequestPart(i, 2)'
        BY <4>1, <1>4
      <4> QED BY <4>1, <4>2, <2>2, <2>3, <1>4
    <3> QED BY <2>4, <3>1, <3>2, <1>10, <1>15
  <2>5. Len(conn'[s].up) + PartsRead(s)' <= 2 \/ conn'[s].up = <<>>
    <3>1. CASE queue = conn[s].up
      BY <3>1, <1>2, <1>10, <1>13 DEF ThreadOk
    <3>2. CASE queue # conn[s].up
      <4>1. Len(queue) = Len(conn[s].up) + 1 /\ Len(conn[s].up) + PartsRead(s) = 1
        BY <3>2, <1>13, <1>14
      <4>2. Len(queue) + PartsRead(s) = 2
        BY <4>1, <1>13
      <4> QED BY <4>2, <1>10, <1>13
    <3> QED BY <3>1, <3>2
  <2> QED BY <2>2, <2>4, <2>5, <1>2, <1>3, <1>6, <1>10 DEF ThreadOk, Answering
<1>18. ClientOk(c)'
  <2>1. BusyOk(c, s, i)'
    <3>1. PartsTaken(c)' = 0 /\ ~Answering(s)' /\ thread'[s].at # "process"
      BY <1>3, <1>6, <1>8, <1>11 DEF PartsTaken, Answering
    <3>2. thread[s].at # "ended" => PartsSent(s, i)' = 0
      BY <1>3, <1>6 DEF PartsSent
    <3>3. \A k \in DOMAIN conn'[s].up : conn'[s].up[k].call = i
      <4>1. \A k \in DOMAIN conn[s].up : conn[s].up[k].call = i
        BY <1>2 DEF BusyOk
      <4> QED BY <4>1, <1>4, <1>10, <1>15
    <3> QED
      BY <3>1, <3>2, <3>3, <1>3, <1>6, <1>8, <1>10, <1>11 DEF BusyOk
  <2>2. \A r \in Socket : Carries(r, i)' => r = s
    BY <1>2, <1>6, <1>10 DEF Carries
  <2> QED BY <2>1, <2>2, <1>3, <1>6, <1>8, <1>11 DEF ClientOk, Idle
<1>19. ~Idle(c)'
  BY <1>8, <1>11 DEF Idle
<1> QED BY <1>1, <1>2, <1>6, <1>8, <1>10, <1>11, <1>12, <1>16, <1>17, <1>18, <1>19, BusyStep

\* The status or the length is taken: the answer still to come gets shorter by it.
LEMMA RecvStep ==
    ASSUME IInv, NEW c \in Client, NEW next,
           \/ client[c].at = "recvStatus" /\ next = "recvLength"
           \/ client[c].at = "recvLength" /\ next = "recvJson",
           Arrived(c, client[c].at), TakeDown(c),
           client' = [client EXCEPT ![c].at = next,
                                   ![c].status = IF next = "recvLength" THEN Received(c) ELSE @],
           thread' = thread, calls' = calls, serving' = serving
    PROVE  IInv'
<1>1. ~Idle(c) /\ client[c].fd # NoSocket /\ client[c].at # next /\ conn[client[c].fd].down # <<>>
  BY DEF Arrived, Idle
<1> PICK s, i : s = client[c].fd /\ i = client[c].call
  OBVIOUS
<1>2. /\ s \in Socket /\ i \in DOMAIN calls /\ i \in Nat /\ calls[i] \in CallType
      /\ conn[s] \in ConnType /\ thread[s] \in ThreadType /\ client[c] \in ClientType
      /\ client[c].connected /\ BusyOk(c, s, i) /\ ThreadOk(s)
      /\ \A r \in Socket : Carries(r, i) => r = s
  BY <1>1, BusyFacts
<1> DEFINE queue == Tail(conn[s].down)
           flag  == ErrorFlag(Encoded(calls[i].runs[1]))
           new   == [client[c] EXCEPT !.at = next, !.status = flag]
<1>3. /\ conn[s].down \in Seq(DownPart) /\ queue \in Seq(DownPart)
      /\ Len(queue) = Len(conn[s].down) - 1 /\ Len(conn[s].down) \in Nat \ {0}
      /\ \A k \in DOMAIN queue : k + 1 \in DOMAIN conn[s].down /\ queue[k] = conn[s].down[k + 1]
      /\ Head(conn[s].down) = conn[s].down[1] /\ 1 \in DOMAIN conn[s].down
  BY <1>1, <1>2 DEF ConnType
<1>4. PartsTaken(c) = (IF next = "recvLength" THEN 0 ELSE 1) /\ PartsTaken(c) + Len(conn[s].down) > 0
  <2>1. PartsTaken(c) = IF next = "recvLength" THEN 0 ELSE 1
    BY DEF PartsTaken
  <2>2. \A l \in Nat \ {0} : (IF next = "recvLength" THEN 0 ELSE 1) + l > 0
    OBVIOUS
  <2> QED BY <2>1, <2>2, <1>3
<1>5. calls[i].runs # <<>> /\ flag \in {0, 1}
  <2>1. calls[i].runs # <<>>
    BY <1>2, <1>4 DEF BusyOk
  <2>2. PICK result \in Answers[calls[i].request] : calls[i].runs = <<result>>
    BY <2>1, <1>2 DEF IInv, CallsOk
  <2> QED BY <2>1, <2>2, <1>2 DEF CallType
<1>6. flag = IF next = "recvLength" THEN Received(c) ELSE client[c].status
  <2>1. CASE next = "recvLength"
    <3>1. PartsTaken(c) = 0
      BY <2>1 DEF PartsTaken
    <3>2. conn[s].down[1] = ReplyPart(i, 1)
      BY <1>2, <1>3, <3>1, SMTT(30) DEF BusyOk
    <3> QED BY <2>1, <3>2, <1>3, SMTT(30) DEF Received, ReplyPart, Part
  <2>2. CASE next # "recvLength"
    BY <2>2, <1>2 DEF BusyOk, PartsTaken
  <2> QED BY <2>1, <2>2
<1>7. /\ client' = [client EXCEPT ![c] = new]
      /\ conn' = [conn EXCEPT ![s].down = queue]
  BY <1>6 DEF TakeDown
<1>8. new \in ClientType
  BY <1>2, <1>5 DEF ClientType
<1>9. /\ new.at = next /\ new.fd = s /\ new.call = i
      /\ new.connected = client[c].connected /\ new.status = flag
  BY <1>2 DEF ClientType
<1> HIDE DEF queue, new, flag
<1>10. /\ conn' \in [Socket -> ConnType]
       /\ \A r \in Socket : r # s => conn'[r] = conn[r]
       /\ conn'[s].down = queue /\ conn'[s].up = conn[s].up
       /\ conn'[s].used = conn[s].used /\ conn'[s].cut = conn[s].cut
       /\ conn'[s].clientEnd = conn[s].clientEnd /\ conn'[s].serverEnd = conn[s].serverEnd
  BY <1>2, <1>3, <1>7, SetDown DEF IInv
<1>11. /\ client' \in [Client -> ClientType]
       /\ client'[c] = new
       /\ \A d \in Client : d # c => client'[d] = client[d]
  BY <1>7, <1>8, SetClient DEF IInv
<1>12. TypeInv'
  BY <1>10, <1>11 DEF IInv, TypeInv
<1>13. \A r \in Socket : \A j : Carries(r, j)' = Carries(r, j)
  BY <1>10 DEF Carries
<1>14. ThreadOk(s)'
  <2>1. \A j \in DOMAIN calls : CallKept(j)
    BY DEF CallKept
  <2> QED BY <2>1, <1>2, <1>10, ThreadFrame DEF IInv
<1>15. PartsTaken(c)' = PartsTaken(c) + 1
  BY <1>4, <1>9, <1>11 DEF PartsTaken
<1>16. BusyOk(c, s, i)'
  <2>1. Answering(s)' = Answering(s) /\ PartsSent(s, i)' = PartsSent(s, i)
        /\ (\A n : ReplyPart(i, n)' = ReplyPart(i, n))
    BY DEF Answering, PartsSent, ReplyPart
  <2>2. PartsTaken(c) \in Nat
    BY <1>4
  <2> PICK n \in Nat, l \in Nat \ {0} : n = PartsTaken(c) /\ l = Len(conn[s].down)
    BY <1>3, <2>2
  <2>3. /\ PartsTaken(c)' = n + 1 /\ Len(conn'[s].down) = l - 1
        /\ (n + 1) + (l - 1) = n + l
    BY <1>3, <1>10, <1>15, SMTT(30)
  <2>4. ASSUME NEW k \in DOMAIN conn'[s].down
        PROVE  conn'[s].down[k] = ReplyPart(i, PartsTaken(c)' + k)
    <3>1. conn'[s].down[k] = conn[s].down[k + 1] /\ k + 1 \in DOMAIN conn[s].down /\ k \in Nat
      BY <1>3, <1>10
    <3>2. conn[s].down[k + 1] = ReplyPart(i, PartsTaken(c) + (k + 1))
      BY <3>1, <1>2 DEF BusyOk
    <3>3. n + (k + 1) = (n + 1) + k
      BY <3>1
    <3> QED BY <3>1, <3>2, <3>3, <2>3
  <2>5. client'[c].at \notin {"sendLength", "sendSql"}
    BY <1>9, <1>11
  <2>6. n + l <= 3 /\ (thread[s].at # "ended" => /\ n + l <= PartsSent(s, i)
                                                 /\ (conn[s].cut \/ n + l = PartsSent(s, i)))
    BY <1>2 DEF BusyOk
  <2>7. PartsTaken(c)' + Len(conn'[s].down) = n + l
    BY <2>3
  <2>8. (\A k \in DOMAIN conn[s].down : conn[s].down[k] = ReplyPart(i, PartsTaken(c) + k))'
    BY <2>1, <2>4
  <2>9. (thread[s].at # "ended" => /\ PartsTaken(c) + Len(conn[s].down) <= PartsSent(s, i)
                                   /\ conn[s].cut \/ PartsTaken(c) + Len(conn[s].down) = PartsSent(s, i))'
    BY <2>1, <2>6, <2>7, <1>10, SMTT(30)
  <2>10. (PartsTaken(c) + Len(conn[s].down) <= 3)'
    BY <2>6, <2>7
  <2>11. client'[c].status = flag /\ ErrorFlag(Encoded(calls'[i].runs[1])) = flag /\ calls'[i].runs # <<>>
    BY <1>5, <1>9, <1>11 DEF flag
  <2>12. /\ (\A k \in DOMAIN conn[s].up : conn[s].up[k].call = i)'
         /\ (Answering(s) \/ thread[s].at = "process" => thread[s].call = i)'
         /\ (thread[s].at \in {"none", "readSql"} => calls[i].runs = <<>>)'
    BY <2>1, <1>2, <1>10, ZenonT(60) DEF BusyOk
  <2>13. /\ (PartsTaken(c) + Len(conn[s].down) > 0 => calls[i].runs # <<>>)'
         /\ (PartsTaken(c) > 0 => client[c].status = ErrorFlag(Encoded(calls[i].runs[1])))'
    BY <2>11
  <2> HIDE DEF flag
  <2> QED BY ONLY <2>5, <2>8, <2>9, <2>10, <2>12, <2>13 DEF BusyOk
<1>17. ClientOk(c)' /\ ~Idle(c)'
  <2>1. ~Idle(c)' /\ client'[c].at \notin {"sendLength", "sendSql"}
    BY <1>9, <1>11 DEF Idle
  <2> QED BY <2>1, <1>2, <1>9, <1>11, <1>13, <1>16 DEF ClientOk
<1> QED BY <1>1, <1>2, <1>9, <1>10, <1>11, <1>12, <1>13, <1>14, <1>17, BusyStep

-----------------------------------------------------------------------------
(* The threads of the server.                                              *)

\* What is under way to the server has not been run.
LEMMA CarriedCalls ==
    ASSUME IInv, NEW s \in Socket, NEW j, Carries(s, j)
    PROVE  j \in DOMAIN calls /\ NotRun(j)
  BY DEF IInv, ThreadOk, Carries, NotRun

\* What is known of a socket and of the client that has it.
LEMMA SocketFacts ==
    ASSUME IInv, NEW s \in Socket
    PROVE  /\ conn[s] \in ConnType /\ thread[s] \in ThreadType /\ ThreadOk(s)
           /\ \A c \in Client : client[c].fd = s /\ Idle(c) /\ client[c].connected => IdleOk(c, s)
           /\ \A c \in Client : client[c].fd = s /\ ~Idle(c) => BusyOk(c, s, client[c].call)
           /\ \A c \in Client : client[c].fd = s => conn[s].used /\ conn[s].clientEnd
  BY DEF IInv, TypeInv, ClientOk, SocketsOk

\* A step of the thread of s, or of the network under it.
LEMMA ThreadStep ==
    ASSUME IInv, NEW s \in Socket, TypeInv', client' = client, calls' = calls,
           \A r \in Socket : r # s => conn'[r] = conn[r] /\ thread'[r] = thread[r],
           conn'[s].used = conn[s].used, conn'[s].clientEnd = conn[s].clientEnd,
           \A j : Carries(s, j)' => Carries(s, j),
           ThreadOk(s)',
           \A c \in Client : client[c].fd = s /\ Idle(c) /\ client[c].connected => IdleOk(c, s)',
           \A c \in Client : client[c].fd = s /\ ~Idle(c) => BusyOk(c, s, client[c].call)'
    PROVE  IInv'
<1>1. 0 \notin DOMAIN calls
  BY DEF IInv, TypeInv
<1>2. \A r \in Socket : ~Carries(r, 0)
  BY <1>1, CarriedCalls
<1>3. \A d \in Client : ~Idle(d) => client[d].call # 0
  BY <1>1 DEF IInv, CallsOk
<1>4. \A d \in Client : Idle(d)' = Idle(d)
  BY DEF Idle
<1>5. \A j : Carries(s, j)' => Carries(s, j) \/ j = 0
  OBVIOUS
<1>6. ASSUME NEW d \in Client, client[d].fd = s PROVE ClientOk(d)'
  <2>1. ~Idle(d) => \A r \in Socket : Carries(r, client[d].call)' => r = s
    <3>1. \A r \in Socket : r # s => \A j : Carries(r, j)' = Carries(r, j)
      BY DEF Carries
    <3>2. ~Idle(d) => \A r \in Socket : Carries(r, client[d].call) => r = s
      BY <1>6 DEF IInv, ClientOk
    <3> QED BY <3>1, <3>2
  <2>2. ~Idle(d) /\ client[d].at \in {"sendLength", "sendSql"} => calls[client[d].call].runs = <<>>
    BY DEF IInv, ClientOk
  <2> QED BY <1>4, <1>6, <2>1, <2>2 DEF ClientOk
<1> QED BY <1>2, <1>3, <1>4, <1>5, <1>6, LocalStep

LEMMA AcceptStep ==
    ASSUME IInv, NEW s \in Socket, Accept(s)
    PROVE  IInv'
<1> DEFINE new == [thread[s] EXCEPT !.at = "readLength"]
<1>1. /\ conn[s] \in ConnType /\ thread[s] \in ThreadType /\ ThreadOk(s)
      /\ \A c \in Client : client[c].fd = s /\ Idle(c) /\ client[c].connected => IdleOk(c, s)
      /\ \A c \in Client : client[c].fd = s /\ ~Idle(c) => BusyOk(c, s, client[c].call)
  BY SocketFacts
<1>2. new \in ThreadType /\ new.at = "readLength"
  BY <1>1 DEF ThreadType
<1>3. thread' = [thread EXCEPT ![s] = new] /\ UNCHANGED <<serving, client, conn, calls>>
  BY DEF Accept
<1> HIDE DEF new
<1>4. /\ thread' \in [Socket -> ThreadType] /\ thread'[s].at = "readLength"
      /\ \A r \in Socket : r # s => thread'[r] = thread[r]
  BY <1>2, <1>3, SetThread DEF IInv
<1>5. thread[s].at = "none" /\ conn[s].used /\ conn[s].serverEnd
  BY DEF Accept
<1>6. TypeInv'
  BY <1>3, <1>4 DEF IInv, TypeInv
<1>7. PartsRead(s) = 0 /\ PartsRead(s)' = 0 /\ ~Answering(s)'
  BY <1>4, <1>5 DEF PartsRead, Answering
<1>8. ThreadOk(s)'
  <2>1. \A j, n : NotRun(j)' = NotRun(j) /\ RequestPart(j, n)' = RequestPart(j, n)
    BY <1>3 DEF NotRun, RequestPart
  <2> QED BY <2>1, <1>1, <1>3, <1>4, <1>5, <1>7 DEF ThreadOk
<1>9. \A j : Carries(s, j)' => Carries(s, j)
  BY <1>3, <1>4 DEF Carries
<1>10. \A c \in Client : IdleOk(c, s) => IdleOk(c, s)'
  BY <1>3, <1>4 DEF IdleOk
<1>11. ASSUME NEW c \in Client, NEW i, BusyOk(c, s, i) PROVE BusyOk(c, s, i)'
  <2>1. PartsTaken(c)' = PartsTaken(c) /\ \A n : ReplyPart(i, n)' = ReplyPart(i, n)
    BY <1>3 DEF PartsTaken, ReplyPart
  <2>2. PartsSent(s, i) = 0 /\ PartsSent(s, i)' = 0
    BY <1>3, <1>4, <1>5, <1>11 DEF PartsSent, BusyOk
  <2> QED BY <2>1, <2>2, <1>3, <1>4, <1>5, <1>7, <1>11 DEF BusyOk
<1> QED BY <1>1, <1>3, <1>4, <1>6, <1>8, <1>9, <1>10, <1>11, ThreadStep

LEMMA CloseStep ==
    ASSUME IInv, NEW s \in Socket, Close(s), thread[s].at # "none"
    PROVE  IInv'
<1> DEFINE new  == [NewThread EXCEPT !.at = "ended"]
           left == [conn[s] EXCEPT !.serverEnd = FALSE, !.up = <<>>]
<1>1. /\ conn[s] \in ConnType /\ thread[s] \in ThreadType /\ ThreadOk(s)
      /\ \A c \in Client : client[c].fd = s /\ Idle(c) /\ client[c].connected => IdleOk(c, s)
      /\ \A c \in Client : client[c].fd = s /\ ~Idle(c) => BusyOk(c, s, client[c].call)
  BY SocketFacts
<1>2. /\ new \in ThreadType /\ new.at = "ended" /\ new.call = 0
      /\ left \in ConnType /\ left.up = <<>> /\ left.down = conn[s].down /\ left.used = conn[s].used
      /\ left.clientEnd = conn[s].clientEnd /\ ~left.serverEnd
  <2>1. new = [at |-> "ended", call |-> 0, sql |-> <<>>, json |-> <<>>]
    BY DEF NewThread
  <2>2. new \in ThreadType /\ new.at = "ended" /\ new.call = 0
    BY <2>1 DEF ThreadType
  <2>3. <<>> \in Seq(UpPart)
    OBVIOUS
  <2> QED BY <1>1, <2>2, <2>3 DEF ConnType
<1>3. /\ thread' = [thread EXCEPT ![s] = new] /\ conn' = [conn EXCEPT ![s] = left]
      /\ UNCHANGED <<serving, client, calls>>
  BY DEF Close
<1> HIDE DEF new, left
<1>4. /\ thread' \in [Socket -> ThreadType] /\ thread'[s].at = "ended"
      /\ \A r \in Socket : r # s => thread'[r] = thread[r]
  BY <1>2, <1>3, SetThread DEF IInv
<1>5. /\ conn' \in [Socket -> ConnType] /\ conn'[s] = left
      /\ \A r \in Socket : r # s => conn'[r] = conn[r]
  BY <1>2, <1>3 DEF IInv, TypeInv
<1>6. TypeInv'
  BY <1>3, <1>4, <1>5 DEF IInv, TypeInv
<1>7. ThreadOk(s)'
  BY <1>1, <1>2, <1>4, <1>5 DEF ThreadOk, Answering
<1>8. \A j : ~Carries(s, j)'
  BY <1>2, <1>4, <1>5 DEF Carries
<1>9. \A c \in Client : IdleOk(c, s) => IdleOk(c, s)'
  BY <1>2, <1>4, <1>5 DEF IdleOk
<1>10. ASSUME NEW c \in Client, NEW i, BusyOk(c, s, i) PROVE BusyOk(c, s, i)'
  <2>1. PartsTaken(c)' = PartsTaken(c) /\ \A n : ReplyPart(i, n)' = ReplyPart(i, n)
    BY <1>3 DEF PartsTaken, ReplyPart
  <2> QED BY <2>1, <1>2, <1>3, <1>4, <1>5, <1>10 DEF BusyOk, Answering
<1> QED BY <1>1, <1>2, <1>3, <1>4, <1>5, <1>6, <1>7, <1>8, <1>9, <1>10, ThreadStep

LEMMA CutStep ==
    ASSUME IInv, NEW s \in Socket, Cut(s)
    PROVE  IInv'
<1> DEFINE left == [conn[s] EXCEPT !.cut = TRUE]
<1>1. /\ conn[s] \in ConnType /\ thread[s] \in ThreadType /\ ThreadOk(s)
      /\ \A c \in Client : client[c].fd = s /\ Idle(c) /\ client[c].connected => IdleOk(c, s)
      /\ \A c \in Client : client[c].fd = s /\ ~Idle(c) => BusyOk(c, s, client[c].call)
  BY SocketFacts
<1>2. /\ left \in ConnType /\ left.up = conn[s].up /\ left.down = conn[s].down
      /\ left.used = conn[s].used /\ left.clientEnd = conn[s].clientEnd
      /\ left.serverEnd = conn[s].serverEnd /\ left.cut
  BY <1>1 DEF ConnType
<1>3. conn' = [conn EXCEPT ![s] = left] /\ UNCHANGED <<serving, client, thread, calls>>
  BY DEF Cut
<1> HIDE DEF left
<1>4. /\ conn' \in [Socket -> ConnType] /\ conn'[s] = left
      /\ \A r \in Socket : r # s => conn'[r] = conn[r]
  BY <1>2, <1>3 DEF IInv, TypeInv
<1>5. TypeInv'
  BY <1>3, <1>4 DEF IInv, TypeInv
<1>6. ThreadOk(s)'
  <2>1. \A j \in DOMAIN calls : CallKept(j)
    BY <1>3 DEF CallKept
  <2> QED BY <2>1, <1>1, <1>2, <1>3, <1>4, ThreadFrame DEF IInv
<1>7. \A j : Carries(s, j)' => Carries(s, j)
  BY <1>2, <1>3, <1>4 DEF Carries
<1>8. \A c \in Client : IdleOk(c, s) => IdleOk(c, s)'
  BY <1>2, <1>3, <1>4 DEF IdleOk
<1>9. ASSUME NEW c \in Client, NEW i, BusyOk(c, s, i) PROVE BusyOk(c, s, i)'
  <2>1. /\ PartsTaken(c)' = PartsTaken(c) /\ PartsSent(s, i)' = PartsSent(s, i)
        /\ PartsRead(s)' = PartsRead(s) /\ Answering(s)' = Answering(s)
        /\ \A n : ReplyPart(i, n)' = ReplyPart(i, n)
    BY <1>3 DEF PartsTaken, ReplyPart, PartsSent, PartsRead, Answering
  <2> QED BY <2>1, <1>2, <1>3, <1>4, <1>9 DEF BusyOk
<1> QED BY <1>1, <1>2, <1>3, <1>4, <1>5, <1>6, <1>7, <1>8, <1>9, ThreadStep

\* The thread takes the next part of a request.
LEMMA TakeStep ==
    ASSUME IInv, NEW s \in Socket, NEW next \in ThreadType, conn[s].up # <<>>, Take(s, next),
           \/ thread[s].at = "readLength" /\ next.at = "readSql"
           \/ thread[s].at = "readSql" /\ next.at = "process" /\ next.call = conn[s].up[1].call
              /\ next.sql = calls[conn[s].up[1].call].request
    PROVE  IInv'
<1> DEFINE queue == Tail(conn[s].up)
<1>1. /\ conn[s] \in ConnType /\ thread[s] \in ThreadType /\ ThreadOk(s)
      /\ \A c \in Client : client[c].fd = s /\ Idle(c) /\ client[c].connected => IdleOk(c, s)
      /\ \A c \in Client : client[c].fd = s /\ ~Idle(c) => BusyOk(c, s, client[c].call)
  BY SocketFacts
<1>2. /\ conn[s].up \in Seq(UpPart) /\ queue \in Seq(UpPart)
      /\ Len(queue) = Len(conn[s].up) - 1 /\ Len(conn[s].up) \in Nat \ {0}
      /\ DOMAIN queue = 1 .. Len(queue)
      /\ \A k \in DOMAIN queue : k \in Nat /\ k + 1 \in DOMAIN conn[s].up /\ queue[k] = conn[s].up[k + 1]
      /\ 1 \in DOMAIN conn[s].up
  BY <1>1 DEF ConnType
<1>3. /\ thread' = [thread EXCEPT ![s] = next] /\ conn' = [conn EXCEPT ![s].up = queue]
      /\ UNCHANGED <<serving, client, calls>>
  BY DEF Take
<1> HIDE DEF queue
<1>4. /\ thread' \in [Socket -> ThreadType] /\ thread'[s] = next
      /\ \A r \in Socket : r # s => thread'[r] = thread[r]
  BY <1>3, SetThread DEF IInv
<1>5. /\ conn' \in [Socket -> ConnType]
      /\ \A r \in Socket : r # s => conn'[r] = conn[r]
      /\ conn'[s].up = queue /\ conn'[s].down = conn[s].down
      /\ conn'[s].used = conn[s].used /\ conn'[s].cut = conn[s].cut
      /\ conn'[s].clientEnd = conn[s].clientEnd /\ conn'[s].serverEnd = conn[s].serverEnd
  BY <1>2, <1>3, SetUp DEF IInv
<1>6. TypeInv'
  BY <1>3, <1>4, <1>5 DEF IInv, TypeInv
<1>7. PICK n \in {0, 1} : PartsRead(s) = n /\ PartsRead(s)' = n + 1 /\ ~Answering(s) /\ ~Answering(s)'
                          /\ (next.at = "readSql" <=> n = 0)
  BY <1>4 DEF PartsRead, Answering
<1>8. PICK l \in Nat \ {0} : l = Len(conn[s].up) /\ Len(conn'[s].up) = l - 1 /\ l + n <= 2
  BY <1>1, <1>2, <1>5, <1>7 DEF ThreadOk
<1>9. \A j, m : NotRun(j)' = NotRun(j) /\ RequestPart(j, m)' = RequestPart(j, m)
  BY <1>3 DEF NotRun, RequestPart
<1>10. ThreadOk(s)'
  <2>1. ASSUME NEW k \in DOMAIN conn'[s].up
        PROVE  /\ NotRun(conn[s].up[k].call)'
               /\ (conn[s].up[k] = RequestPart(conn[s].up[k].call, PartsRead(s) + k))'
    <3>1. conn'[s].up[k] = conn[s].up[k + 1] /\ k + 1 \in DOMAIN conn[s].up /\ k \in Nat
      BY <1>2, <1>5
    <3>2. /\ NotRun(conn[s].up[k + 1].call)
          /\ conn[s].up[k + 1] = RequestPart(conn[s].up[k + 1].call, n + (k + 1))
      BY <3>1, <1>1, <1>7 DEF ThreadOk
    <3>3. n + (k + 1) = (n + 1) + k
      BY <3>1
    <3> QED BY <3>1, <3>2, <3>3, <1>7, <1>9
  <2>2. Len(conn'[s].up) + PartsRead(s)' <= 2
    <3>1. (l - 1) + (n + 1) <= 2
      BY <1>8
    <3> QED BY <3>1, <1>7, <1>8
  <2>3. thread'[s].at = "process" => /\ NotRun(thread[s].call)'
                                    /\ thread'[s].sql = calls'[thread'[s].call].request
    <3>1. NotRun(conn[s].up[1].call)
      BY <1>1, <1>2 DEF ThreadOk
    <3> QED BY <3>1, <1>3, <1>4, <1>9
  <2>4. /\ conn[s].used /\ conn'[s].used /\ conn'[s].serverEnd /\ thread'[s].at \notin {"ended", "none"}
    BY <1>1, <1>4, <1>5 DEF ThreadOk
  <2>5. \A k \in DOMAIN conn'[s].up : /\ NotRun(conn[s].up[k].call)'
                                      /\ (conn[s].up[k] = RequestPart(conn[s].up[k].call, PartsRead(s) + k))'
    BY <2>1
  <2> HIDE DEF NotRun, RequestPart
  <2> QED BY <2>2, <2>3, <2>4, <2>5, <1>7 DEF ThreadOk
<1>11. \A j : Carries(s, j)' => Carries(s, j)
  BY <1>2, <1>4, <1>5 DEF Carries
<1>12. \A c \in Client : ~IdleOk(c, s)
  BY DEF IdleOk
<1>13. ASSUME NEW c \in Client, NEW i, BusyOk(c, s, i) PROVE BusyOk(c, s, i)'
  <2>1. PartsTaken(c)' = PartsTaken(c) /\ \A m : ReplyPart(i, m)' = ReplyPart(i, m)
    BY <1>3 DEF PartsTaken, ReplyPart
  <2>2. conn[s].up[1].call = i /\ calls[i].runs = <<>>
    <3>1. conn[s].up[1].call = i
      BY <1>2, <1>13 DEF BusyOk
    <3> QED BY <3>1, <1>1, <1>2 DEF ThreadOk, NotRun
  <2>3. PartsSent(s, i) = 0 /\ PartsSent(s, i)' = 0
    BY <2>2, <1>3, <1>4 DEF PartsSent
  <2>4. (\A k \in DOMAIN conn[s].up : conn[s].up[k].call = i)'
    BY <1>2, <1>5, <1>13 DEF BusyOk
  <2>5. client[c].at # "sendLength"
    BY <1>13 DEF BusyOk
  <2>6. client[c].at = "sendSql" => /\ l + n <= 1 /\ n = 0 /\ l = 1
                                   /\ (Len(conn[s].up) + PartsRead(s) = 1)'
    <3>1. client[c].at = "sendSql" => l + n <= 1
      BY <1>7, <1>8, <1>13 DEF BusyOk
    <3>2. client[c].at = "sendSql" => n = 0 /\ l = 1
      BY <3>1
    <3>3. (l = 1 /\ n = 0) => Len(conn'[s].up) = 0 /\ PartsRead(s)' = 1
      BY <1>7, <1>8
    <3> QED BY <3>1, <3>2, <3>3
  <2>7. (client[c].at = "sendSql" => /\ thread[s].at \in {"none", "readLength", "readSql", "ended"}
                                    /\ Len(conn[s].up) + PartsRead(s) <= 1
                                    /\ Len(conn[s].up) + PartsRead(s) = 1)'
    BY <2>6, <1>3, <1>4, <1>7
  <2>8. (\A k \in DOMAIN conn[s].down : conn[s].down[k] = ReplyPart(i, PartsTaken(c) + k))'
    BY <2>1, <1>5, <1>13 DEF BusyOk
  <2>9. /\ (PartsTaken(c) + Len(conn[s].down) <= 3)'
        /\ (PartsTaken(c) + Len(conn[s].down) > 0 => calls[i].runs # <<>>)'
        /\ (/\ PartsTaken(c) + Len(conn[s].down) <= PartsSent(s, i)
            /\ conn[s].cut \/ PartsTaken(c) + Len(conn[s].down) = PartsSent(s, i))'
    BY <2>1, <2>3, <1>3, <1>5, <1>13 DEF BusyOk
  <2>10. /\ (Answering(s) \/ thread[s].at = "process" => thread[s].call = i)'
         /\ (thread[s].at \in {"none", "readSql"} => calls[i].runs = <<>>)'
         /\ (PartsTaken(c) > 0 => client[c].status = ErrorFlag(Encoded(calls[i].runs[1])))'
    BY <2>1, <2>2, <1>3, <1>4, <1>7, <1>13 DEF BusyOk
  <2>11. client'[c].at # "sendLength"
    BY <2>5, <1>3
  <2> QED BY ONLY <2>4, <2>7, <2>8, <2>9, <2>10, <2>11 DEF BusyOk
<1> QED BY <1>1, <1>3, <1>4, <1>5, <1>6, <1>10, <1>11, <1>12, <1>13, ThreadStep

LEMMA ReadLengthStep ==
    ASSUME IInv, NEW s \in Socket, ReadLength(s)
    PROVE  IInv'
<1>1. [thread[s] EXCEPT !.at = "readSql"] \in ThreadType
  BY SocketFacts DEF ThreadType
<1>2. [thread[s] EXCEPT !.at = "readSql"].at = "readSql"
  BY SocketFacts DEF ThreadType
<1> QED BY <1>1, <1>2, TakeStep DEF ReadLength

LEMMA ReadSqlStep ==
    ASSUME IInv, NEW s \in Socket, ReadSql(s)
    PROVE  IInv'
<1> DEFINE next == [thread[s] EXCEPT !.at = "process", !.call = Head(conn[s].up).call,
                                     !.sql = Head(conn[s].up).val]
<1>1. /\ thread[s] \in ThreadType /\ ThreadOk(s) /\ conn[s].up \in Seq(UpPart) /\ conn[s].up # <<>>
      /\ thread[s].at = "readSql"
  BY SocketFacts DEF ConnType, ReadSql
<1>2. /\ Head(conn[s].up) = conn[s].up[1] /\ 1 \in DOMAIN conn[s].up
  BY <1>1
<1> PICK j : j = conn[s].up[1].call
  OBVIOUS
<1>3. NotRun(j) /\ conn[s].up[1] = RequestPart(j, 2)
  <2>1. PartsRead(s) + 1 = 2
    BY <1>1 DEF PartsRead
  <2> QED BY <2>1, <1>1, <1>2 DEF ThreadOk
<1>4. conn[s].up[1].val = calls[j].request /\ j \in Nat /\ calls[j].request \in Request
  <2>1. j \in DOMAIN calls /\ calls \in Seq(CallType)
    BY <1>3 DEF NotRun, IInv, TypeInv
  <2>2. calls[j] \in CallType /\ j \in Nat
    BY <2>1
  <2> QED BY <2>2, <1>3 DEF RequestPart, Part, CallType
<1>5. next \in ThreadType /\ next.at = "process" /\ next.call = j /\ next.sql = calls[j].request
  BY <1>1, <1>2, <1>4 DEF ThreadType
<1>6. Take(s, next)
  BY DEF ReadSql
<1> HIDE DEF next
<1> QED BY <1>1, <1>5, <1>6, TakeStep

LEMMA SetConn ==
    ASSUME TypeInv, NEW s \in Socket, NEW new \in ConnType, conn' = [conn EXCEPT ![s] = new]
    PROVE  /\ conn' \in [Socket -> ConnType]
           /\ conn'[s] = new
           /\ \A r \in Socket : r # s => conn'[r] = conn[r]
  BY DEF TypeInv

\* What the thread sends next is the next part of the answer.
LEMMA SendStep ==
    ASSUME IInv, NEW s \in Socket, NEW next \in ThreadType, NEW n \in {0, 1, 2},
           NEW part \in DownPart, Answering(s), conn' = SendDown(s, part), thread' = [thread EXCEPT ![s] = next],
           UNCHANGED <<serving, client, calls>>, part = ReplyPart(thread[s].call, n + 1),
           \/ thread[s].at = "sendStatus" /\ n = 0 /\ next.at = "sendLength"
              /\ next.call = thread[s].call /\ next.json = thread[s].json
           \/ thread[s].at = "sendLength" /\ n = 1 /\ next.at = "sendJson"
              /\ next.call = thread[s].call /\ next.json = thread[s].json
           \/ thread[s].at = "sendJson" /\ n = 2 /\ next.at = "readLength"
    PROVE  IInv'
<1> DEFINE queue == IF ClientGone(s) THEN conn[s].down ELSE Append(conn[s].down, part)
<1>1. /\ conn[s] \in ConnType /\ thread[s] \in ThreadType /\ ThreadOk(s)
      /\ \A c \in Client : client[c].fd = s /\ Idle(c) /\ client[c].connected => IdleOk(c, s)
      /\ \A c \in Client : client[c].fd = s /\ ~Idle(c) => BusyOk(c, s, client[c].call)
      /\ \A c \in Client : client[c].fd = s => conn[s].used /\ conn[s].clientEnd
  BY SocketFacts
<1>2. /\ conn[s].down \in Seq(DownPart) /\ queue \in Seq(DownPart) /\ Len(conn[s].down) \in Nat
      /\ DOMAIN conn[s].down = 1 .. Len(conn[s].down)
      /\ Len(Append(conn[s].down, part)) = Len(conn[s].down) + 1
      /\ DOMAIN Append(conn[s].down, part) = 1 .. Len(conn[s].down) + 1
      /\ Append(conn[s].down, part)[Len(conn[s].down) + 1] = part
      /\ \A k \in DOMAIN conn[s].down : Append(conn[s].down, part)[k] = conn[s].down[k]
  BY <1>1 DEF ConnType
<1>3. conn' = [conn EXCEPT ![s].down = queue]
  BY DEF SendDown
<1>4. /\ thread' \in [Socket -> ThreadType] /\ thread'[s] = next
      /\ \A r \in Socket : r # s => thread'[r] = thread[r]
  BY SetThread DEF IInv
<1>5. \/ queue = conn[s].down /\ (conn[s].cut \/ ~conn[s].clientEnd)
      \/ queue = Append(conn[s].down, part) /\ ~conn[s].cut
  BY DEF ClientGone
<1> HIDE DEF queue
<1>6. /\ conn' \in [Socket -> ConnType]
      /\ \A r \in Socket : r # s => conn'[r] = conn[r]
      /\ conn'[s].down = queue /\ conn'[s].up = conn[s].up
      /\ conn'[s].used = conn[s].used /\ conn'[s].cut = conn[s].cut
      /\ conn'[s].clientEnd = conn[s].clientEnd /\ conn'[s].serverEnd = conn[s].serverEnd
  BY <1>2, <1>3, SetDown DEF IInv
<1>7. TypeInv'
  BY <1>4, <1>6 DEF IInv, TypeInv
<1>8. /\ next.at \in {"sendLength", "sendJson", "readLength"}
      /\ thread[s].at \in {"sendStatus", "sendLength", "sendJson"} /\ conn[s].up = <<>>
      /\ thread[s].call \in DOMAIN calls /\ calls[thread[s].call].runs # <<>>
      /\ thread[s].json = Encoded(calls[thread[s].call].runs[1])
  <2>1. PartsRead(s) = 2 /\ thread[s].at \in {"sendStatus", "sendLength", "sendJson"}
    BY DEF Answering, PartsRead
  <2>2. \A l \in Nat : l + 2 <= 2 => l = 0
    OBVIOUS
  <2>3. conn[s].up = <<>> \/ Len(conn[s].up) = 0
    BY <2>1, <2>2, <1>1 DEF ThreadOk, ConnType
  <2>4. conn[s].up = <<>>
    BY <2>3, <1>1 DEF ConnType
  <2> QED BY <2>1, <2>4, <1>1 DEF ThreadOk
<1>9. ThreadOk(s)'
  <2>1. DOMAIN conn'[s].up = {}
    BY <1>6, <1>8
  <2> QED BY <2>1, <1>1, <1>4, <1>6, <1>8 DEF ThreadOk, Answering
<1>10. \A j : ~Carries(s, j)'
  <2>1. DOMAIN conn'[s].up = {}
    BY <1>6, <1>8
  <2> QED BY <2>1, <1>4, <1>8 DEF Carries
<1>11. \A c \in Client : ~IdleOk(c, s)
  BY <1>8 DEF IdleOk
<1>12. ASSUME NEW c \in Client, NEW i, client[c].fd = s, BusyOk(c, s, i) PROVE BusyOk(c, s, i)'
  <2>1. PartsTaken(c)' = PartsTaken(c) /\ (\A m : ReplyPart(i, m)' = ReplyPart(i, m)) /\ thread[s].call = i
    BY <1>8, <1>12 DEF PartsTaken, ReplyPart, BusyOk, Answering
  <2>2. PartsSent(s, i) = n /\ PartsSent(s, i)' = n + 1
    BY <2>1, <1>4, <1>8 DEF PartsSent
  <2>3. PICK t \in {0, 1, 2} : PartsTaken(c) = t
    BY DEF PartsTaken
  <2>4. PICK l \in Nat : Len(conn[s].down) = l
    BY <1>2
  <2>5. t + l <= n /\ (conn[s].cut \/ t + l = n)
    BY <2>2, <2>3, <2>4, <1>8, <1>12 DEF BusyOk
  <2>6. \/ queue = conn[s].down /\ conn[s].cut
        \/ queue = Append(conn[s].down, part) /\ ~conn[s].cut
    BY <1>1, <1>5, <1>12
  <2>7. PICK m \in Nat : Len(queue) = m /\ t + m <= n + 1 /\ (conn[s].cut \/ t + m = n + 1)
    <3>1. CASE queue = conn[s].down /\ conn[s].cut
      BY <3>1, <2>4, <2>5
    <3>2. CASE queue = Append(conn[s].down, part)
      <4>1. Len(queue) = l + 1 /\ l + 1 \in Nat /\ t + (l + 1) <= n + 1
            /\ (conn[s].cut \/ t + (l + 1) = n + 1)
        BY <3>2, <2>4, <2>5, <1>2
      <4> QED BY <4>1
    <3> QED BY <3>1, <3>2, <2>6
  <2>8. ASSUME NEW k \in DOMAIN queue PROVE queue[k] = ReplyPart(i, t + k)
    <3>1. CASE k \in DOMAIN conn[s].down /\ queue[k] = conn[s].down[k]
      BY <3>1, <2>3, <1>12 DEF BusyOk
    <3>2. CASE queue = Append(conn[s].down, part) /\ k \notin DOMAIN conn[s].down
      <4>1. k = l + 1 /\ queue[k] = part
        BY <3>2, <2>4, <1>2
      <4>2. ~conn[s].cut
        BY <3>2, <2>6, <1>2
      <4>3. t + k = n + 1
        BY <4>1, <4>2, <2>5
      <4> QED BY <4>1, <4>3, <2>1
    <3> QED BY <2>6, <2>8, <3>1, <3>2, <1>2
  <2>9. /\ (t + m > 0 => calls[i].runs # <<>>) /\ n + 1 <= 3 /\ t + m <= 3
        /\ client[c].at \notin {"sendLength", "sendSql"}
    BY <2>1, <2>7, <1>8, <1>12 DEF BusyOk
  <2>10. (\A k \in DOMAIN conn[s].down : conn[s].down[k] = ReplyPart(i, PartsTaken(c) + k))'
    BY <2>1, <2>3, <2>8, <1>6
  <2>11. PartsTaken(c)' + Len(conn'[s].down) = t + m
    BY <2>1, <2>3, <2>7, <1>6
  <2>12. /\ (PartsTaken(c) + Len(conn[s].down) <= 3)'
         /\ (PartsTaken(c) + Len(conn[s].down) > 0 => calls[i].runs # <<>>)'
         /\ (thread[s].at # "ended" => /\ PartsTaken(c) + Len(conn[s].down) <= PartsSent(s, i)
                                       /\ conn[s].cut \/ PartsTaken(c) + Len(conn[s].down) = PartsSent(s, i))'
    BY <2>2, <2>7, <2>9, <2>11, <1>6
  <2>13. /\ (\A k \in DOMAIN conn[s].up : conn[s].up[k].call = i)'
         /\ (Answering(s) \/ thread[s].at = "process" => thread[s].call = i)'
         /\ (thread[s].at \in {"none", "readSql"} => calls[i].runs = <<>>)'
         /\ (PartsTaken(c) > 0 => client[c].status = ErrorFlag(Encoded(calls[i].runs[1])))'
         /\ (client[c].at \notin {"sendLength", "sendSql"})'
    BY <2>1, <2>9, <1>4, <1>6, <1>8, <1>12 DEF BusyOk, Answering
  <2> QED BY ONLY <2>10, <2>12, <2>13 DEF BusyOk
<1> QED BY <1>1, <1>4, <1>6, <1>7, <1>9, <1>10, <1>11, <1>12, ThreadStep

\* The three parts of an answer, each at its place.
LEMMA SendAnswerStep ==
    ASSUME IInv, NEW s \in Socket, SendAnswer(s)
    PROVE  IInv'
<1> PICK i, json : i = thread[s].call /\ json = thread[s].json
  OBVIOUS
<1>1. Answering(s) /\ thread[s].at \in {"sendStatus", "sendLength", "sendJson"}
  BY DEF SendAnswer, Send, Answering
<1>2. thread[s] \in ThreadType /\ i \in DOMAIN calls /\ calls[i].runs # <<>> /\ json = Encoded(calls[i].runs[1])
  BY <1>1, SocketFacts DEF ThreadOk
<1>3. PICK result \in Answers[calls[i].request] : calls[i].runs = <<result>>
  BY <1>2 DEF IInv, CallsOk
<1>4. i \in Nat /\ calls[i].request \in Request
  <2>1. calls \in Seq(CallType)
    BY DEF IInv, TypeInv
  <2>2. calls[i] \in CallType /\ i \in Nat
    BY <2>1, <1>2
  <2> QED BY <2>2 DEF CallType
<1>5. json \in Body /\ ErrorFlag(json) \in {0, 1} /\ Len(json) \in {Len(text) : text \in Body}
  <2>1. json = Encoded(result)
    BY <1>2, <1>3
  <2>2. json \in Body
    BY <2>1, <1>3, <1>4 DEF Body
  <2> QED BY <2>1, <2>2, <1>3, <1>4
<1>6. /\ Part("status", i, ErrorFlag(json)) \in DownPart /\ Part("status", i, ErrorFlag(json)) = ReplyPart(i, 1)
      /\ Part("length", i, Len(json)) \in DownPart /\ Part("length", i, Len(json)) = ReplyPart(i, 2)
      /\ Part("json", i, json) \in DownPart /\ Part("json", i, json) = ReplyPart(i, 3)
  BY <1>2, <1>4, <1>5, SMTT(30) DEF Part, DownPart, ReplyPart
<1>7. CASE Send(s, "sendStatus", Part("status", i, ErrorFlag(json)), [thread[s] EXCEPT !.at = "sendLength"])
  <2> DEFINE next == [thread[s] EXCEPT !.at = "sendLength"]
  <2>1. next \in ThreadType /\ next.at = "sendLength" /\ next.call = thread[s].call /\ next.json = thread[s].json
    BY <1>2 DEF ThreadType
  <2>2. /\ thread[s].at = "sendStatus" /\ conn' = SendDown(s, Part("status", i, ErrorFlag(json)))
        /\ thread' = [thread EXCEPT ![s] = next] /\ UNCHANGED <<serving, client, calls>>
    BY <1>7 DEF Send
  <2>3. Part("status", i, ErrorFlag(json)) = ReplyPart(thread[s].call, 0 + 1)
    BY <1>6
  <2> HIDE DEF next
  <2> QED BY <2>1, <2>2, <2>3, <1>1, <1>6, SendStep
<1>8. CASE Send(s, "sendLength", Part("length", i, Len(json)), [thread[s] EXCEPT !.at = "sendJson"])
  <2> DEFINE next == [thread[s] EXCEPT !.at = "sendJson"]
  <2>1. next \in ThreadType /\ next.at = "sendJson" /\ next.call = thread[s].call /\ next.json = thread[s].json
    BY <1>2 DEF ThreadType
  <2>2. /\ thread[s].at = "sendLength" /\ conn' = SendDown(s, Part("length", i, Len(json)))
        /\ thread' = [thread EXCEPT ![s] = next] /\ UNCHANGED <<serving, client, calls>>
    BY <1>8 DEF Send
  <2>3. Part("length", i, Len(json)) = ReplyPart(thread[s].call, 1 + 1)
    BY <1>6
  <2> HIDE DEF next
  <2> QED BY <2>1, <2>2, <2>3, <1>1, <1>6, SendStep
<1>9. CASE Send(s, "sendJson", Part("json", i, json), [NewThread EXCEPT !.at = "readLength"])
  <2> DEFINE next == [NewThread EXCEPT !.at = "readLength"]
  <2>1. next = [at |-> "readLength", call |-> 0, sql |-> <<>>, json |-> <<>>]
    BY DEF NewThread
  <2>2. next \in ThreadType /\ next.at = "readLength"
    BY <2>1 DEF ThreadType
  <2>3. /\ thread[s].at = "sendJson" /\ conn' = SendDown(s, Part("json", i, json))
        /\ thread' = [thread EXCEPT ![s] = next] /\ UNCHANGED <<serving, client, calls>>
    BY <1>9 DEF Send
  <2>4. Part("json", i, json) = ReplyPart(thread[s].call, 2 + 1)
    BY <1>6
  <2> HIDE DEF next
  <2> QED BY <2>2, <2>3, <2>4, <1>1, <1>6, SendStep
<1> QED BY <1>7, <1>8, <1>9 DEF SendAnswer

\* The ways in which a thread ends by itself.
LEMMA ServeCloses ==
    ASSUME IInv, NEW s \in Socket, BadLength(s) \/ EndOfInput(s) \/ SendFails(s)
    PROVE  IInv'
  BY CloseStep DEF BadLength, EndOfInput, SendFails

\* A request is run, for the first time and on the only socket that carried it.
LEMMA ProcessStep ==
    ASSUME IInv, NEW s \in Socket, processQuery(s)
    PROVE  /\ IInv'
           /\ NotRun(thread[s].call)
           /\ \E result \in Answers[calls[thread[s].call].request] :
                 calls' = [calls EXCEPT ![thread[s].call].runs = <<result>>]
<1> PICK i : i = thread[s].call
  OBVIOUS
<1>1. thread[s].at = "process" /\ thread[s] \in ThreadType /\ conn[s] \in ConnType /\ ThreadOk(s)
  BY SocketFacts DEF processQuery
<1>2. /\ NotRun(i) /\ thread[s].sql = calls[i].request /\ i \in DOMAIN calls /\ calls[i].runs = <<>>
      /\ calls \in Seq(CallType)
  BY <1>1 DEF ThreadOk, NotRun, IInv, TypeInv
<1>3. calls[i] \in CallType /\ calls[i].request \in Request /\ calls[i].outcome # Promise!Refused
  <2>1. calls[i] \in CallType
    BY <1>2
  <2> QED BY <2>1, <1>2 DEF CallType, NotRun
<1>4. PICK result \in Answers[calls[i].request] :
          /\ calls' = [calls EXCEPT ![i].runs = Append(@, result)]
          /\ thread' = [thread EXCEPT ![s].at = "sendStatus", ![s].json = Encoded(result)]
  BY <1>2 DEF processQuery
<1>5. UNCHANGED <<serving, client, conn>>
  BY DEF processQuery
<1> DEFINE next == [thread[s] EXCEPT !.at = "sendStatus", !.json = Encoded(result)]
           call == [calls[i] EXCEPT !.runs = <<result>>]
<1>6. /\ thread' = [thread EXCEPT ![s] = next] /\ next \in ThreadType
      /\ next.at = "sendStatus" /\ next.call = i /\ next.json = Encoded(result)
  <2>1. Encoded(result) \in Body
    BY <1>3 DEF Body
  <2> QED BY <2>1, <1>1, <1>4 DEF ThreadType, IInv, TypeInv
<1>7. /\ calls' = [calls EXCEPT ![i] = call] /\ call \in CallType
      /\ call.by = calls[i].by /\ call.request = calls[i].request /\ call.runs = <<result>>
      /\ call.outcome = calls[i].outcome
      /\ calls' = [calls EXCEPT ![i].runs = <<result>>]
  <2>1. Append(calls[i].runs, result) = <<result>>
    BY <1>2
  <2>2. <<result>> \in Seq(UNION {Answers[r] : r \in Request})
    BY <1>3
  <2>3. calls' = [calls EXCEPT ![i].runs = <<result>>]
    BY <2>1, <1>4
  <2> QED BY <2>2, <2>3, <1>3 DEF CallType
<1> HIDE DEF next, call
<1>8. /\ thread' \in [Socket -> ThreadType] /\ thread'[s] = next
      /\ \A r \in Socket : r # s => thread'[r] = thread[r]
  BY <1>6, SetThread DEF IInv
<1>9. /\ calls' \in Seq(CallType) /\ DOMAIN calls' = DOMAIN calls /\ calls'[i] = call
      /\ \A j \in DOMAIN calls : j # i => calls'[j] = calls[j]
  BY <1>2, <1>7
<1>10. TypeInv'
  BY <1>5, <1>8, <1>9 DEF IInv, TypeInv
<1>11. conn[s].up = <<>> /\ DOMAIN conn[s].up = {} /\ conn[s].used /\ Carries(s, i)
  <2>1. PartsRead(s) = 2
    BY <1>1 DEF PartsRead
  <2>2. \A l \in Nat : l + 2 <= 2 => l = 0
    OBVIOUS
  <2>3. conn[s].up = <<>> \/ Len(conn[s].up) = 0
    BY <2>1, <2>2, <1>1 DEF ThreadOk, ConnType
  <2> QED BY <2>3, <1>1 DEF ThreadOk, ConnType, Carries
<1>12. \A j : j # i => CallKept(j) \/ j \notin DOMAIN calls
  BY <1>9 DEF CallKept
<1>13. /\ \A j : ~Carries(s, j)'
       /\ \A r \in Socket : r # s => \A j : Carries(r, j)' = Carries(r, j)
       /\ \A r \in Socket : r # s => ~Carries(r, i)
  <2>1. \A j : ~Carries(s, j)'
    BY <1>5, <1>6, <1>8, <1>11 DEF Carries
  <2>2. \A r \in Socket : r # s => \A j : Carries(r, j)' = Carries(r, j)
    BY <1>5, <1>8 DEF Carries
  <2>3. \A r \in Socket : Carries(r, i) => r = s
    BY <1>2, <1>11 DEF IInv, SocketsOk
  <2> QED BY <2>1, <2>2, <2>3
<1>14. CallsOk'
  <2>1. \A j \in DOMAIN calls : /\ calls'[j].by = calls[j].by /\ calls'[j].request = calls[j].request
                                /\ calls'[j].outcome = calls[j].outcome
                                /\ calls'[j].runs = calls[j].runs \/ (j = i /\ calls'[j].runs = <<result>>)
    BY <1>7, <1>9
  <2>2. \A c \in Client : Idle(c)' = Idle(c)
    BY <1>5 DEF Idle
  <2>3. \A j \in DOMAIN calls' : calls'[j].runs # <<>> =>
            \E answer \in Answers[calls'[j].request] : calls'[j].runs = <<answer>>
    BY <2>1, <1>9 DEF IInv, CallsOk
  <2> QED BY <2>1, <2>2, <2>3, <1>5, <1>9 DEF IInv, CallsOk
<1>15. SocketsOk'
  BY <1>5, <1>9, <1>13 DEF IInv, SocketsOk
<1>16. ASSUME NEW r \in Socket PROVE ThreadOk(r)'
  <2>1. CASE r = s
    <3>1. /\ thread'[s].at = "sendStatus" /\ conn'[s].used /\ conn'[s].serverEnd /\ conn'[s].up = <<>>
          /\ DOMAIN conn'[s].up = {}
      BY <1>1, <1>5, <1>6, <1>8, <1>11 DEF ThreadOk
    <3>2. /\ thread'[s].call = i /\ i \in DOMAIN calls' /\ calls'[i].runs = <<result>>
          /\ thread'[s].json = Encoded(result)
      BY <1>2, <1>6, <1>7, <1>8, <1>9
    <3>3. calls'[i].runs # <<>> /\ calls'[i].runs[1] = result
      BY <3>2
    <3> QED BY <2>1, <3>1, <3>2, <3>3 DEF ThreadOk, Answering
  <2>2. CASE r # s
    <3>1. \A j \in DOMAIN calls : calls[j].runs # <<>> \/ Carries(r, j) => CallKept(j)
      BY <2>2, <1>2, <1>12, <1>13
    <3> QED BY <2>2, <3>1, <1>5, <1>8, ThreadFrame DEF IInv
  <2> QED BY <2>1, <2>2
<1>17. ASSUME NEW d \in Client PROVE ClientOk(d)'
  <2>1. CASE client[d].fd = s
    <3>1. Idle(d)' = Idle(d) /\ ~IdleOk(d, s)
      BY <1>1, <1>5 DEF Idle, IdleOk
    <3>2. Idle(d) => ~client[d].connected
      BY <2>1, <3>1, SocketFacts
    <3>3. ASSUME ~Idle(d) PROVE BusyOk(d, s, client[d].call)' /\ client[d].at \notin {"sendLength", "sendSql"}
      <4>1. BusyOk(d, s, client[d].call) /\ client[d].call = i
        BY <2>1, <3>3, <1>1, SocketFacts DEF BusyOk
      <4>2. PartsSent(s, i) = 0 /\ PartsSent(s, i)' = 0 /\ PartsTaken(d)' = PartsTaken(d)
        BY <1>1, <1>5, <1>6, <1>8 DEF PartsSent, PartsTaken
      <4>3. PICK t \in {0, 1, 2} : PartsTaken(d) = t
        BY DEF PartsTaken
      <4>4. PICK l \in Nat : Len(conn[s].down) = l
        BY <1>1 DEF ConnType
      <4>5. t + l <= 0
        BY <4>1, <4>2, <4>3, <4>4, <1>1 DEF BusyOk
      <4>6. t = 0 /\ l = 0
        BY <4>5
      <4>7. DOMAIN conn[s].down = {} /\ Len(conn[s].down) = 0
        BY <4>4, <4>6, <1>1 DEF ConnType
      <4>8. client[d].at \notin {"sendLength", "sendSql"}
        BY <4>1, <1>1 DEF BusyOk
      <4>9. /\ PartsTaken(d)' = 0 /\ PartsTaken(d)' + Len(conn'[s].down) = 0
            /\ DOMAIN conn'[s].down = {} /\ DOMAIN conn'[s].up = {}
            /\ client'[d].at \notin {"sendLength", "sendSql"}
        BY <4>2, <4>3, <4>6, <4>7, <4>8, <1>5, <1>11
      <4> QED BY <4>1, <4>2, <4>8, <4>9, <1>5, <1>6, <1>8 DEF BusyOk, Answering
    <3>4. \A r \in Socket : Carries(r, client[d].call)' => Carries(r, client[d].call)
      BY <1>5, <1>13
    <3>5. ~Idle(d) => \A r \in Socket : Carries(r, client[d].call)' => r = s
      BY <2>1, <3>4 DEF IInv, ClientOk
    <3> QED BY <2>1, <3>1, <3>2, <3>3, <3>5, <1>5 DEF ClientOk
  <2>2. CASE client[d].fd # s
    <3>1. client[d].fd # NoSocket => client[d].fd \in Socket
      BY DEF IInv, TypeInv, ClientType
    <3>2. ~Idle(d) => client[d].call # i /\ CallKept(client[d].call)
      <4>1. ~Idle(d) => client[d].call # i
        BY <2>2, <1>11 DEF IInv, ClientOk
      <4>2. ~Idle(d) => client[d].call \in DOMAIN calls
        BY DEF IInv, CallsOk
      <4> QED BY <4>1, <4>2, <1>12
    <3>3. \A r \in Socket : \A j : Carries(r, j)' => Carries(r, j)
      BY <1>13
    <3> QED BY <2>2, <3>1, <3>2, <3>3, <1>5, <1>8, ClientFrame DEF IInv
  <2> QED BY <2>1, <2>2
<1>18. IInv'
  BY <1>10, <1>14, <1>15, <1>16, <1>17 DEF IInv
<1> QED BY <1>2, <1>7, <1>18

-----------------------------------------------------------------------------
(* Calls begin and end; sockets are opened and closed.                     *)

Ends(c, outcome) == calls' = [calls EXCEPT ![client[c].call].outcome = outcome]

\* execute comes back, with an answer or an error.
LEMMA ReturnStep ==
    ASSUME IInv, NEW c \in Client, ~Idle(c), NEW s, s = client[c].fd,
           NEW new \in ClientType, new.at = "idle", new.fd = s, client' = [client EXCEPT ![c] = new],
           NEW outcome \in Outcome, outcome # Promise!Open, outcome # Promise!Refused,
           Ends(c, outcome), thread' = thread, serving' = serving, conn' \in [Socket -> ConnType],
           \A r \in Socket : /\ conn'[r].up = conn[r].up /\ conn'[r].used = conn[r].used
                             /\ conn'[r].clientEnd = conn[r].clientEnd
                             /\ conn'[r].serverEnd = conn[r].serverEnd
                             /\ r # s => conn'[r] = conn[r],
           ClientOk(c)'
    PROVE  /\ IInv'
           /\ client[c].call \in DOMAIN calls /\ calls[client[c].call].outcome = Promise!Open
<1> PICK i : i = client[c].call
  OBVIOUS
<1>1. /\ i \in DOMAIN calls /\ calls[i].by = c /\ calls[i].outcome = Promise!Open
      /\ calls \in Seq(CallType) /\ client[c] \in ClientType
  BY DEF IInv, TypeInv, CallsOk
<1> DEFINE call == [calls[i] EXCEPT !.outcome = outcome]
<1>2. /\ calls' = [calls EXCEPT ![i] = call] /\ call \in CallType
      /\ call.by = c /\ call.request = calls[i].request /\ call.runs = calls[i].runs /\ call.outcome = outcome
  <2>1. calls[i] \in CallType
    BY <1>1
  <2> QED BY <2>1, <1>1 DEF CallType, Ends
<1> HIDE DEF call
<1>4. /\ calls' \in Seq(CallType) /\ DOMAIN calls' = DOMAIN calls /\ calls'[i] = call
      /\ \A j \in DOMAIN calls : j # i => calls'[j] = calls[j]
  BY <1>1, <1>2
<1>5. /\ client' \in [Client -> ClientType] /\ client'[c] = new
      /\ \A d \in Client : d # c => client'[d] = client[d]
  BY SetClient DEF IInv
<1>6. TypeInv'
  BY <1>4, <1>5 DEF IInv, TypeInv
<1>7. \A j \in DOMAIN calls : CallKept(j)
  BY <1>1, <1>2, <1>4, Outcomes DEF CallKept
<1>8. \A r \in Socket : \A j : Carries(r, j)' = Carries(r, j)
  BY DEF Carries
<1>9. /\ Idle(c)' /\ \A d \in Client : d # c => Idle(d)' = Idle(d)
  BY <1>5 DEF Idle
<1>10. CallsOk'
  <2>1. \A j \in DOMAIN calls' : calls'[j].runs # <<>> =>
            \E answer \in Answers[calls'[j].request] : calls'[j].runs = <<answer>>
    BY <1>4, <1>7 DEF IInv, CallsOk, CallKept
  <2>2. \A j \in DOMAIN calls : calls'[j].by = calls[j].by
    BY <1>1, <1>2, <1>4
  <2>3. \A j \in DOMAIN calls : calls'[j].outcome = Promise!Open => calls[j].outcome = Promise!Open /\ j # i
    BY <1>2, <1>4
  <2>4. ASSUME NEW d \in Client, NEW j \in DOMAIN calls', calls'[j].by = d, calls'[j].outcome = Promise!Open
        PROVE  ~Idle(d)' /\ j = client'[d].call
    <3>1. calls[j].by = d /\ calls[j].outcome = Promise!Open /\ j # i /\ j \in DOMAIN calls
      BY <2>2, <2>3, <2>4, <1>4
    <3>2. ~Idle(d) /\ j = client[d].call
      BY <3>1 DEF IInv, CallsOk
    <3>3. d # c
      BY <3>1, <3>2
    <3> QED BY <3>2, <3>3, <1>5, <1>9
  <2>5. ASSUME NEW d \in Client, ~Idle(d)'
        PROVE  /\ client'[d].connected /\ client'[d].call \in DOMAIN calls'
               /\ calls'[client'[d].call].by = d /\ calls'[client'[d].call].outcome = Promise!Open
    <3>1. d # c /\ ~Idle(d) /\ client'[d] = client[d]
      BY <2>5, <1>5, <1>9
    <3>2. /\ client[d].connected /\ client[d].call \in DOMAIN calls /\ calls[client[d].call].by = d
          /\ calls[client[d].call].outcome = Promise!Open
      BY <3>1 DEF IInv, CallsOk
    <3>3. client[d].call # i
      BY <3>1, <3>2, <1>1
    <3> QED BY <3>1, <3>2, <3>3, <1>4
  <2> QED BY <2>1, <2>4, <2>5 DEF CallsOk
<1>11. SocketsOk'
  <2>1. \A d \in Client : client'[d].fd = client[d].fd /\ client[d].fd \in Socket \cup {NoSocket}
    BY <1>5 DEF IInv, TypeInv, ClientType
  <2>2. \A r, t \in Socket : \A j \in DOMAIN calls : Carries(r, j)' /\ Carries(t, j)' => r = t
    BY <1>8 DEF IInv, SocketsOk
  <2>3. \A d \in Client : client'[d].fd # NoSocket => conn'[client'[d].fd].used /\ conn'[client'[d].fd].clientEnd
    BY <2>1 DEF IInv, SocketsOk
  <2>4. \A d, e \in Client : client'[d].fd = client'[e].fd /\ client'[d].fd # NoSocket => d = e
    BY <2>1 DEF IInv, SocketsOk
  <2> QED BY <2>2, <2>3, <2>4, <1>4 DEF SocketsOk
<1>12. ASSUME NEW r \in Socket PROVE ThreadOk(r)'
  <2>1. \A j \in DOMAIN calls : calls[j].runs # <<>> \/ Carries(r, j) => CallKept(j)
    BY <1>7
  <2> QED BY <2>1, ThreadFrame DEF IInv
<1>13. ASSUME NEW d \in Client PROVE ClientOk(d)'
  <2>1. CASE d = c
    BY <2>1
  <2>2. CASE d # c
    <3>1. client[d].fd # NoSocket => client[d].fd \in Socket /\ client[d].fd # client[c].fd
      BY <2>2 DEF IInv, TypeInv, ClientType, SocketsOk
    <3>2. ~Idle(d) => CallKept(client[d].call)
      BY <1>7 DEF IInv, CallsOk
    <3> QED BY <2>2, <3>1, <3>2, <1>5, <1>8, ClientFrame DEF IInv
  <2> QED BY <2>1, <2>2
<1> QED BY <1>1, <1>6, <1>10, <1>11, <1>12, <1>13 DEF IInv

LEMMA ThrowStep ==
    ASSUME IInv, NEW c \in Client, Throw(c)
    PROVE  /\ IInv'
           /\ client[c].call \in DOMAIN calls /\ calls[client[c].call].outcome = Promise!Open
<1>1. /\ ~Idle(c) /\ Returns(c, FALSE) /\ UNCHANGED <<serving, conn, thread>>
      /\ Ends(c, Promise!Lost)
  BY DEF Throw, Ends
<1>2. Promise!Lost \in Outcome /\ Promise!Lost # Promise!Open /\ Promise!Lost # Promise!Refused
  BY Outcomes DEF Outcome
<1>3. conn' \in [Socket -> ConnType]
  BY <1>1 DEF IInv, TypeInv
<1> PICK s : s = client[c].fd
  OBVIOUS
<1> DEFINE new == [client[c] EXCEPT !.at = "idle", !.call = 0, !.status = 0, !.connected = FALSE]
<1>4. client' = [client EXCEPT ![c] = new] /\ new \in ClientType /\ new.at = "idle" /\ new.fd = s
      /\ ~new.connected
  <2>1. client[c] \in ClientType
    BY DEF IInv, TypeInv
  <2>2. client' = [client EXCEPT ![c] = new]
    BY <1>1 DEF Returns
  <2>3. new \in ClientType /\ new.at = "idle" /\ new.fd = s
    BY <2>1 DEF ClientType
  <2>4. ~new.connected
    BY <2>1 DEF ClientType
  <2> QED BY <2>2, <2>3, <2>4
<1> HIDE DEF new
<1>5. ClientOk(c)'
  <2>1. client'[c] = new
    BY <1>4 DEF IInv, TypeInv
  <2> QED BY <2>1, <1>4 DEF ClientOk, Idle
<1> QED BY <1>1, <1>2, <1>3, <1>4, <1>5, ReturnStep

\* The last part of the answer.
LEMMA RecvJsonStep ==
    ASSUME IInv, NEW c \in Client, RecvJson(c)
    PROVE  /\ IInv'
           /\ client[c].call \in DOMAIN calls /\ calls[client[c].call].outcome = Promise!Open
           /\ \E result \in Answers[calls[client[c].call].request] :
                 /\ calls[client[c].call].runs = <<result>> /\ calls[client[c].call].request \in Request
                 /\ client[c].status = ErrorFlag(Encoded(result)) /\ Received(c) = Encoded(result)
<1>1. /\ ~Idle(c) /\ client[c].at = "recvJson" /\ client[c].fd # NoSocket /\ conn[client[c].fd].down # <<>>
      /\ TakeDown(c) /\ Returns(c, TRUE) /\ UNCHANGED <<serving, thread>>
      /\ calls' = [calls EXCEPT ![client[c].call].outcome =
                      Promise!Returned(Decoded(client[c].status, Received(c)))]
  BY DEF RecvJson, Arrived, Idle
<1> PICK s, i : s = client[c].fd /\ i = client[c].call
  OBVIOUS
<1>2. /\ s \in Socket /\ i \in DOMAIN calls /\ i \in Nat /\ calls[i] \in CallType
      /\ conn[s] \in ConnType /\ thread[s] \in ThreadType /\ client[c] \in ClientType
      /\ BusyOk(c, s, i) /\ ThreadOk(s) /\ calls[i].outcome = Promise!Open
      /\ \A d \in Client : client[d].fd = s => d = c
  BY <1>1, BusyFacts
<1> DEFINE queue == Tail(conn[s].down)
<1>3. PartsTaken(c) = 2
  BY <1>1 DEF PartsTaken
<1>4. PICK l \in Nat \ {0} : l = Len(conn[s].down)
  BY <1>1, <1>2 DEF ConnType
<1>5. l = 1 /\ 2 + l <= 3 /\ 2 + l > 0 /\ 2 + l = 3
  <2>1. 2 + l <= 3
    BY <1>2, <1>3, <1>4 DEF BusyOk
  <2> QED BY <2>1
<1>6. /\ queue = <<>> /\ queue \in Seq(DownPart) /\ Head(conn[s].down) = conn[s].down[1]
      /\ 1 \in DOMAIN conn[s].down
  <2>1. conn[s].down \in Seq(DownPart) /\ Len(conn[s].down) = 1 /\ conn[s].down # <<>>
    BY <1>1, <1>2, <1>4, <1>5 DEF ConnType
  <2>2. Len(queue) = 0 /\ queue \in Seq(DownPart)
    BY <2>1
  <2> HIDE DEF queue
  <2>3. queue = <<>>
    BY <2>2
  <2> QED BY <2>1, <2>2, <2>3
<1>7. calls[i].runs # <<>>
  BY <1>2, <1>3, <1>4, <1>5 DEF BusyOk
<1>8. PICK result \in Answers[calls[i].request] : calls[i].runs = <<result>>
  BY <1>7, <1>2 DEF IInv, CallsOk
<1>9. /\ client[c].status = ErrorFlag(Encoded(result)) /\ Received(c) = Encoded(result)
      /\ Encoded(result) \in Body /\ client[c].status \in {0, 1} /\ calls[i].request \in Request
  <2>1. client[c].status = ErrorFlag(Encoded(result))
    <3>1. PartsTaken(c) > 0
      BY <1>3
    <3> QED BY <3>1, <1>2, <1>8 DEF BusyOk
  <2>2. conn[s].down[1] = ReplyPart(i, 3)
    <3>1. PartsTaken(c) + 1 = 3
      BY <1>3
    <3> QED BY <3>1, <1>2, <1>6 DEF BusyOk
  <2>3. Received(c) = Encoded(result)
    BY <2>2, <1>6, <1>8 DEF Received, ReplyPart, Part
  <2>4. calls[i].request \in Request /\ client[c].status \in {0, 1}
    BY <1>2 DEF CallType, ClientType
  <2>5. Encoded(result) \in Body
    BY <2>4 DEF Body
  <2> QED BY <2>1, <2>3, <2>4, <2>5
<1>10. conn' = [conn EXCEPT ![s].down = queue]
  BY <1>1 DEF TakeDown
<1> HIDE DEF queue
<1>11. /\ conn' \in [Socket -> ConnType]
       /\ \A r \in Socket : r # s => conn'[r] = conn[r]
       /\ conn'[s].down = <<>> /\ conn'[s].up = conn[s].up
       /\ conn'[s].used = conn[s].used /\ conn'[s].cut = conn[s].cut
       /\ conn'[s].clientEnd = conn[s].clientEnd /\ conn'[s].serverEnd = conn[s].serverEnd
  BY <1>2, <1>6, <1>10, SetDown DEF IInv
<1>12. thread[s].at \in {"none", "readLength", "ended"} /\ conn[s].up = <<>>
  <2>1. thread[s].at # "ended" => 3 <= PartsSent(s, i)
    BY <1>2, <1>3, <1>4, <1>5 DEF BusyOk
  <2>2. thread[s].at \in {"readLength", "ended"}
    BY <2>1 DEF PartsSent
  <2>3. ASSUME conn[s].up # <<>> PROVE FALSE
    <3>1. 1 \in DOMAIN conn[s].up
      BY <2>3, <1>2 DEF ConnType
    <3>2. NotRun(conn[s].up[1].call) /\ conn[s].up[1].call = i
      BY <3>1, <1>2 DEF ThreadOk, BusyOk
    <3> QED BY <3>2, <1>7 DEF NotRun
  <2> QED BY <2>2, <2>3
<1>13. IdleOk(c, s)'
  BY <1>1, <1>11, <1>12 DEF IdleOk
<1> DEFINE got == Promise!Returned(Decoded(client[c].status, Received(c)))
<1>14. got \in Outcome /\ got # Promise!Open /\ got # Promise!Refused
  BY <1>9, Outcomes DEF Outcome
<1> DEFINE back == [client[c] EXCEPT !.at = "idle", !.call = 0, !.status = 0, !.connected = TRUE]
<1>15. client' = [client EXCEPT ![c] = back] /\ back \in ClientType /\ back.at = "idle" /\ back.fd = s
  BY <1>1, <1>2 DEF Returns, ClientType
<1>16. IInv'
  <2>1. Ends(c, got)
    BY <1>1 DEF Ends
  <2>2. ClientOk(c)'
    <3>1. client'[c] = back
      BY <1>15 DEF IInv, TypeInv
    <3> QED BY <3>1, <1>13, <1>15 DEF ClientOk, Idle
  <2> HIDE DEF got, back
  <2> QED BY <2>1, <2>2, <1>1, <1>11, <1>14, <1>15, ReturnStep, ZenonT(60)
<1> QED BY <1>2, <1>8, <1>9, <1>16

Held(s) == conn[s].used /\ conn[s].clientEnd

\* A client that is in no call changes its socket t.
LEMMA IdleStep ==
    ASSUME IInv, NEW c \in Client, Idle(c), NEW new \in ClientType, new.at = "idle",
           client' = [client EXCEPT ![c] = new], UNCHANGED <<serving, thread, calls>>,
           conn' \in [Socket -> ConnType], NEW t,
           \A r \in Socket : r # t => conn'[r] = conn[r],
           \A d \in Client : d # c /\ client[d].fd \in Socket => client[d].fd # t,
           new.fd = NoSocket \/ (new.fd = t /\ Held(t)'),
           \A r \in Socket : r = t => ThreadOk(r)',
           \A r \in Socket : \A j : r = t /\ Carries(r, j)' => Carries(r, j),
           ClientOk(c)'
    PROVE  IInv'
<1>1. /\ client' \in [Client -> ClientType] /\ client'[c] = new
      /\ \A d \in Client : d # c => client'[d] = client[d]
  BY SetClient DEF IInv
<1>2. TypeInv'
  BY <1>1 DEF IInv, TypeInv
<1>3. \A j \in DOMAIN calls : CallKept(j)
  BY DEF CallKept
<1>4. \A r \in Socket : \A j : Carries(r, j)' => Carries(r, j)
  <2>1. \A r \in Socket : r # t => \A j : Carries(r, j)' = Carries(r, j)
    BY DEF Carries
  <2> QED BY <2>1
<1>5. Idle(c)' /\ \A d \in Client : d # c => Idle(d)' = Idle(d)
  BY <1>1 DEF Idle
<1>6. CallsOk'
  BY <1>1, <1>5 DEF IInv, CallsOk
<1>7. SocketsOk'
  <2>1. \A d \in Client : client[d].fd \in Socket \cup {NoSocket}
    BY DEF IInv, TypeInv, ClientType
  <2>2. \A d \in Client : client'[d].fd # NoSocket => conn'[client'[d].fd].used /\ conn'[client'[d].fd].clientEnd
    <3> SUFFICES ASSUME NEW d \in Client, client'[d].fd # NoSocket
                 PROVE  conn'[client'[d].fd].used /\ conn'[client'[d].fd].clientEnd
      OBVIOUS
    <3>1. CASE d = c
      BY <3>1, <1>1 DEF Held
    <3>2. CASE d # c
      <4>1. client'[d].fd = client[d].fd /\ client[d].fd \in Socket /\ client[d].fd # t
        BY <2>1, <3>2, <1>1
      <4> QED BY <4>1 DEF IInv, SocketsOk
    <3> QED BY <3>1, <3>2
  <2>3. \A d, e \in Client : client'[d].fd = client'[e].fd /\ client'[d].fd # NoSocket => d = e
    <3> SUFFICES ASSUME NEW d \in Client, NEW e \in Client, client'[d].fd = client'[e].fd,
                        client'[d].fd # NoSocket, d # e
                 PROVE  FALSE
      OBVIOUS
    <3>1. CASE d = c
      BY <3>1, <2>1, <1>1
    <3>2. CASE e = c
      BY <3>2, <2>1, <1>1
    <3>3. CASE d # c /\ e # c
      BY <3>3, <1>1 DEF IInv, SocketsOk
    <3> QED BY <3>1, <3>2, <3>3
  <2>4. \A r, q \in Socket : \A j \in DOMAIN calls : Carries(r, j)' /\ Carries(q, j)' => r = q
    BY <1>4 DEF IInv, SocketsOk
  <2> QED BY <2>2, <2>3, <2>4 DEF SocketsOk
<1>8. ASSUME NEW r \in Socket PROVE ThreadOk(r)'
  <2>1. CASE r # t
    BY <2>1, <1>3, ThreadFrame DEF IInv
  <2> QED BY <2>1
<1>9. ASSUME NEW d \in Client PROVE ClientOk(d)'
  <2>1. CASE d # c
    <3>1. client[d].fd # NoSocket => client[d].fd \in Socket /\ client[d].fd # t
      BY <2>1 DEF IInv, TypeInv, ClientType
    <3>2. ~Idle(d) => CallKept(client[d].call)
      BY <1>3 DEF IInv, CallsOk
    <3> QED BY <2>1, <3>1, <3>2, <1>1, <1>4, ClientFrame DEF IInv
  <2> QED BY <2>1
<1> QED BY <1>2, <1>6, <1>7, <1>8, <1>9 DEF IInv

LEMMA ConnectStep ==
    ASSUME IInv, NEW c \in Client, Connect(c)
    PROVE  IInv'
<1> PICK t : t = NextSocket
  OBVIOUS
<1>1. t \in Socket /\ ~conn[t].used
  BY DEF Connect, NextSocket
<1> DEFINE fresh == [NewConn EXCEPT !.used = TRUE, !.clientEnd = TRUE, !.serverEnd = TRUE]
           new   == [client[c] EXCEPT !.fd = t, !.connected = TRUE]
<1>2. /\ Idle(c) /\ conn' = [conn EXCEPT ![t] = fresh] /\ client' = [client EXCEPT ![c] = new]
      /\ UNCHANGED <<serving, thread, calls>>
  BY DEF Connect
<1>3. NewConn \in ConnType /\ NewConn.up = <<>> /\ NewConn.down = <<>>
  <2>1. <<>> \in Seq(UpPart) /\ <<>> \in Seq(DownPart)
    OBVIOUS
  <2> QED BY <2>1 DEF NewConn, ConnType
<1>4. fresh \in ConnType /\ fresh.used /\ fresh.clientEnd /\ fresh.serverEnd /\ fresh.up = <<>> /\ fresh.down = <<>>
  BY <1>3 DEF ConnType
<1>5. client[c] \in ClientType
  BY DEF IInv, TypeInv
<1>6. new \in ClientType /\ new.at = "idle" /\ new.fd = t
  BY <1>1, <1>2, <1>5 DEF ClientType, Idle
<1> HIDE DEF fresh, new
<1>7. /\ conn' \in [Socket -> ConnType] /\ conn'[t] = fresh
      /\ \A r \in Socket : r # t => conn'[r] = conn[r]
  BY <1>1, <1>2, <1>4, SetConn DEF IInv
<1>8. \A d \in Client : client[d].fd \in Socket => client[d].fd # t
  BY <1>1 DEF IInv, SocketsOk
<1>9. thread[t].at = "none" /\ ThreadOk(t) /\ thread' = thread
  BY <1>1, <1>2 DEF IInv, ThreadOk
<1>10. DOMAIN conn'[t].up = {} /\ conn'[t].up = <<>> /\ conn'[t].down = <<>>
  BY <1>4, <1>7
<1>11. ThreadOk(t)'
  BY <1>4, <1>7, <1>9, <1>10 DEF ThreadOk, Answering
<1>12. \A j : ~Carries(t, j)'
  BY <1>9, <1>10 DEF Carries
<1>13. client'[c] = new
  BY <1>2 DEF IInv, TypeInv
<1>14. ClientOk(c)'
  <2>1. IdleOk(c, t)'
    BY <1>9, <1>10 DEF IdleOk
  <2> QED BY <2>1, <1>6, <1>13 DEF ClientOk, Idle
<1>15. /\ \A r \in Socket : r = t => ThreadOk(r)'
       /\ \A r \in Socket : \A j : r = t /\ Carries(r, j)' => Carries(r, j)
  BY <1>11, <1>12
<1>16. Held(t)'
  BY <1>4, <1>7 DEF Held
<1> QED BY <1>2, <1>6, <1>7, <1>8, <1>14, <1>15, <1>16, IdleStep

LEMMA ConnectFailsStep ==
    ASSUME IInv, NEW c \in Client, ConnectFails(c)
    PROVE  IInv'
<1> DEFINE new == [client[c] EXCEPT !.fd = NoSocket]
<1>1. Idle(c) /\ client' = [client EXCEPT ![c] = new] /\ UNCHANGED <<serving, conn, thread, calls>>
  BY DEF ConnectFails
<1>2. client[c] \in ClientType
  BY DEF IInv, TypeInv
<1>3. new \in ClientType /\ new.at = "idle" /\ new.fd = NoSocket
  BY <1>1, <1>2 DEF ClientType, Idle
<1> HIDE DEF new
<1>4. client'[c] = new /\ conn' \in [Socket -> ConnType] /\ \A r \in Socket : conn'[r] = conn[r]
  BY <1>1 DEF IInv, TypeInv
<1>5. ClientOk(c)'
  BY <1>3, <1>4 DEF ClientOk, Idle
<1> PICK t : t = NoSocket
  OBVIOUS
<1>6. t \notin Socket
  OBVIOUS
<1> QED BY <1>1, <1>3, <1>4, <1>5, <1>6, IdleStep

LEMMA DisconnectStep ==
    ASSUME IInv, NEW c \in Client, Disconnect(c)
    PROVE  IInv'
<1> PICK t : t = client[c].fd
  OBVIOUS
<1>1. client[c] \in ClientType /\ t \in Socket /\ t # NoSocket
  BY DEF Disconnect, IInv, TypeInv, ClientType
<1> DEFINE left == [conn[t] EXCEPT !.clientEnd = FALSE, !.down = <<>>]
           new  == [client[c] EXCEPT !.fd = NoSocket, !.connected = FALSE]
<1>2. /\ Idle(c) /\ conn' = [conn EXCEPT ![t] = left] /\ client' = [client EXCEPT ![c] = new]
      /\ UNCHANGED <<serving, thread, calls>>
  BY DEF Disconnect
<1>3. conn[t] \in ConnType
  BY <1>1 DEF IInv, TypeInv
<1>4. /\ left \in ConnType /\ left.used = conn[t].used /\ left.serverEnd = conn[t].serverEnd
      /\ left.up = conn[t].up
  <2>1. <<>> \in Seq(DownPart)
    OBVIOUS
  <2> QED BY <2>1, <1>3 DEF ConnType
<1>5. new \in ClientType /\ new.at = "idle" /\ new.fd = NoSocket
  BY <1>1, <1>2 DEF ClientType, Idle
<1> HIDE DEF left, new
<1>6. /\ conn' \in [Socket -> ConnType] /\ conn'[t] = left
      /\ \A r \in Socket : r # t => conn'[r] = conn[r]
  BY <1>1, <1>2, <1>4, SetConn DEF IInv
<1>7. \A d \in Client : d # c /\ client[d].fd \in Socket => client[d].fd # t
  BY <1>1 DEF IInv, SocketsOk
<1>8. ThreadOk(t)'
  <2>1. \A j \in DOMAIN calls : CallKept(j)
    BY <1>2 DEF CallKept
  <2> QED BY <2>1, <1>1, <1>2, <1>4, <1>6, ThreadFrame DEF IInv
<1>9. \A j : Carries(t, j)' => Carries(t, j)
  BY <1>2, <1>4, <1>6 DEF Carries
<1>10. client'[c] = new
  BY <1>2 DEF IInv, TypeInv
<1>11. ClientOk(c)'
  BY <1>5, <1>10 DEF ClientOk, Idle
<1>12. /\ \A r \in Socket : r = t => ThreadOk(r)'
       /\ \A r \in Socket : \A j : r = t /\ Carries(r, j)' => Carries(r, j)
  BY <1>8, <1>9
<1>13. IInv /\ c \in Client
  OBVIOUS
<1> QED BY ONLY <1>2, <1>5, <1>6, <1>7, <1>11, <1>12, <1>13, IdleStep

\* A call is added, and nothing is sent yet.
LEMMA AddCall ==
    ASSUME IInv, NEW call \in CallType, call.runs = <<>>, calls' = Append(calls, call), conn' = conn,
           thread' = thread, NEW n, n = Len(calls) + 1
    PROVE  /\ n \in Nat /\ n \notin DOMAIN calls /\ calls' \in Seq(CallType)
           /\ DOMAIN calls' = DOMAIN calls \cup {n} /\ calls'[n] = call
           /\ \A j \in DOMAIN calls : calls'[j] = calls[j] /\ CallKept(j)
           /\ \A r \in Socket : \A j : Carries(r, j)' = Carries(r, j)
           /\ \A r \in Socket : ~Carries(r, n)'
           /\ \A r \in Socket : ThreadOk(r)'
           /\ \A j \in DOMAIN calls' : calls'[j].runs # <<>> =>
                  \E result \in Answers[calls'[j].request] : calls'[j].runs = <<result>>
           /\ \A r, q \in Socket : \A j \in DOMAIN calls' : Carries(r, j)' /\ Carries(q, j)' => r = q
<1>1. calls \in Seq(CallType)
  BY DEF IInv, TypeInv
<1>2. /\ n \in Nat /\ n \notin DOMAIN calls /\ calls' \in Seq(CallType)
      /\ DOMAIN calls' = DOMAIN calls \cup {n} /\ calls'[n] = call
      /\ \A j \in DOMAIN calls : calls'[j] = calls[j]
  <2>1. DOMAIN calls = 1 .. Len(calls) /\ Len(calls) \in Nat
    BY <1>1
  <2>2. DOMAIN calls' = 1 .. Len(calls) + 1 /\ calls' \in Seq(CallType) /\ calls'[n] = call
    BY <1>1
  <2>3. \A j \in DOMAIN calls : calls'[j] = calls[j]
    BY <1>1
  <2>4. 1 .. Len(calls) + 1 = (1 .. Len(calls)) \cup {n}
    BY <2>1
  <2> QED BY <2>1, <2>2, <2>3, <2>4
<1>3. \A j \in DOMAIN calls : CallKept(j)
  BY <1>2 DEF CallKept
<1>4. \A r \in Socket : \A j : Carries(r, j)' = Carries(r, j)
  BY DEF Carries
<1>5. \A r \in Socket : \A j : Carries(r, j) => j \in DOMAIN calls
  BY CarriedCalls
<1>6. ASSUME NEW r \in Socket PROVE ThreadOk(r)'
  BY <1>3, ThreadFrame DEF IInv
<1>7. \A j \in DOMAIN calls' : calls'[j].runs # <<>> =>
          \E result \in Answers[calls'[j].request] : calls'[j].runs = <<result>>
  BY <1>2 DEF IInv, CallsOk
<1>8. \A r, q \in Socket : \A j \in DOMAIN calls' : Carries(r, j)' /\ Carries(q, j)' => r = q
  BY <1>2, <1>4, <1>5 DEF IInv, SocketsOk
<1> QED BY <1>2, <1>3, <1>4, <1>5, <1>6, <1>7, <1>8

LEMMA ExecuteStep ==
    ASSUME IInv, NEW c \in Client, NEW r \in Asks[c], Execute(c, r)
    PROVE  IInv'
<1> PICK n : n = Len(calls) + 1
  OBVIOUS
<1>1. r \in Request
  OBVIOUS
<1>2. Idle(c) /\ UNCHANGED <<serving, conn, thread>>
  BY DEF Execute
<1>3. client[c] \in ClientType
  BY DEF IInv, TypeInv
<1>4. \A o \in {Promise!Open, Promise!Refused} :
          /\ Promise!NewCall(c, r, o) \in CallType /\ Promise!NewCall(c, r, o).runs = <<>>
          /\ Promise!NewCall(c, r, o).by = c /\ Promise!NewCall(c, r, o).outcome = o
  <2>1. <<>> \in Seq(UNION {Answers[q] : q \in Request})
    OBVIOUS
  <2> QED BY <2>1, <1>1 DEF Promise!NewCall, CallType, Outcome
<1>5. \A j \in DOMAIN calls : calls[j].by = c => calls[j].outcome # Promise!Open
  BY <1>2 DEF IInv, CallsOk
<1>6. CASE client[c].connected
  <2> PICK call \in CallType : call = Promise!NewCall(c, r, Promise!Open)
    BY <1>4
  <2> DEFINE new == [client[c] EXCEPT !.at = "sendLength", !.call = n]
  <2>1. calls' = Append(calls, call) /\ client' = [client EXCEPT ![c] = new]
    BY <1>6 DEF Execute
  <2>2. call.runs = <<>> /\ call.by = c /\ call.outcome = Promise!Open
    BY <1>4
  <2>3. /\ n \in Nat /\ n \notin DOMAIN calls /\ calls' \in Seq(CallType)
        /\ DOMAIN calls' = DOMAIN calls \cup {n} /\ calls'[n] = call
        /\ \A j \in DOMAIN calls : calls'[j] = calls[j] /\ CallKept(j)
        /\ \A q \in Socket : \A j : Carries(q, j)' = Carries(q, j)
        /\ \A q \in Socket : ~Carries(q, n)'
        /\ \A q \in Socket : ThreadOk(q)'
        /\ \A j \in DOMAIN calls' : calls'[j].runs # <<>> =>
               \E result \in Answers[calls'[j].request] : calls'[j].runs = <<result>>
        /\ \A p, q \in Socket : \A j \in DOMAIN calls' : Carries(p, j)' /\ Carries(q, j)' => p = q
    BY <2>1, <2>2, <1>2, AddCall
  <2>4. /\ new \in ClientType /\ new.at = "sendLength" /\ new.fd = client[c].fd /\ new.call = n
        /\ new.connected
    BY <2>3, <1>3, <1>6 DEF ClientType
  <2> HIDE DEF new
  <2>5. /\ client' \in [Client -> ClientType] /\ client'[c] = new
        /\ \A d \in Client : d # c => client'[d] = client[d]
    BY <2>1, <2>4, SetClient DEF IInv
  <2>6. TypeInv'
    BY <2>3, <2>5, <1>2 DEF IInv, TypeInv
  <2>7. ~Idle(c)' /\ \A d \in Client : d # c => Idle(d)' = Idle(d)
    BY <2>4, <2>5 DEF Idle
  <2>8. CallsOk'
    <3>1. ASSUME NEW d \in Client, NEW j \in DOMAIN calls', calls'[j].by = d, calls'[j].outcome = Promise!Open
          PROVE  ~Idle(d)' /\ j = client'[d].call
      <4>1. CASE j = n
        BY <4>1, <3>1, <2>2, <2>3, <2>4, <2>5, <2>7
      <4>2. CASE j # n
        <5>1. j \in DOMAIN calls /\ calls[j].by = d /\ calls[j].outcome = Promise!Open
          BY <4>2, <3>1, <2>3
        <5>2. d # c
          BY <5>1, <1>5
        <5> QED BY <5>1, <5>2, <2>5, <2>7 DEF IInv, CallsOk
      <4> QED BY <4>1, <4>2
    <3>2. ASSUME NEW d \in Client, ~Idle(d)'
          PROVE  /\ client'[d].connected /\ client'[d].call \in DOMAIN calls'
                 /\ calls'[client'[d].call].by = d /\ calls'[client'[d].call].outcome = Promise!Open
      <4>1. CASE d = c
        BY <4>1, <2>2, <2>3, <2>4, <2>5
      <4>2. CASE d # c
        BY <4>2, <3>2, <2>3, <2>5, <2>7 DEF IInv, CallsOk
      <4> QED BY <4>1, <4>2
    <3> QED BY <2>3, <3>1, <3>2 DEF CallsOk
  <2>9. SocketsOk'
    <3>1. \A d \in Client : client'[d].fd = client[d].fd
      BY <2>4, <2>5
    <3> QED BY <3>1, <2>3, <1>2 DEF IInv, SocketsOk
  <2>10. ASSUME NEW d \in Client PROVE ClientOk(d)'
    <3>1. CASE d # c
      <4>1. client[d].fd # NoSocket => client[d].fd \in Socket
        BY DEF IInv, TypeInv, ClientType
      <4>2. ~Idle(d) => CallKept(client[d].call)
        BY <2>3 DEF IInv, CallsOk
      <4>3. \A q \in Socket : \A j : Carries(q, j)' => Carries(q, j)
        BY <2>3
      <4> QED BY <3>1, <4>1, <4>2, <4>3, <2>5, <1>2, ClientFrame DEF IInv
    <3>2. CASE d = c
      <4> PICK s : s = client[c].fd
        OBVIOUS
      <4>1. calls'[n].runs = <<>>
        BY <2>2, <2>3
      <4>2. ASSUME s # NoSocket PROVE BusyOk(c, s, n)'
        <5>1. s \in Socket
          BY <4>2, <1>3 DEF ClientType
        <5>2. IdleOk(c, s)
          BY <4>2, <1>2, <1>6 DEF IInv, ClientOk
        <5>3. /\ conn'[s].up = <<>> /\ conn'[s].down = <<>> /\ Len(conn'[s].down) = 0
              /\ DOMAIN conn'[s].up = {} /\ DOMAIN conn'[s].down = {}
              /\ thread'[s].at \in {"none", "readLength", "ended"}
          BY <5>2, <1>2 DEF IdleOk
        <5>4. PartsTaken(c)' = 0 /\ ~Answering(s)'
          BY <5>3, <2>4, <2>5 DEF PartsTaken, Answering
        <5>5. PartsSent(s, n)' = 0
          BY <5>3, <4>1 DEF PartsSent
        <5> QED BY <5>3, <5>4, <5>5, <4>1, <2>4, <2>5 DEF BusyOk
      <4> QED BY <3>2, <4>1, <4>2, <2>3, <2>4, <2>5, <2>7 DEF ClientOk
    <3> QED BY <3>1, <3>2
  <2> QED BY <2>3, <2>6, <2>8, <2>9, <2>10 DEF IInv
<1>7. CASE ~client[c].connected
  <2> PICK call \in CallType : call = Promise!NewCall(c, r, Promise!Refused)
    BY <1>4
  <2>1. calls' = Append(calls, call) /\ client' = client
    BY <1>7 DEF Execute
  <2>2. call.runs = <<>> /\ call.by = c /\ call.outcome = Promise!Refused
    BY <1>4
  <2>3. /\ n \in Nat /\ n \notin DOMAIN calls /\ calls' \in Seq(CallType)
        /\ DOMAIN calls' = DOMAIN calls \cup {n} /\ calls'[n] = call
        /\ \A j \in DOMAIN calls : calls'[j] = calls[j] /\ CallKept(j)
        /\ \A q \in Socket : \A j : Carries(q, j)' = Carries(q, j)
        /\ \A q \in Socket : ThreadOk(q)'
        /\ \A j \in DOMAIN calls' : calls'[j].runs # <<>> =>
               \E result \in Answers[calls'[j].request] : calls'[j].runs = <<result>>
        /\ \A p, q \in Socket : \A j \in DOMAIN calls' : Carries(p, j)' /\ Carries(q, j)' => p = q
    BY <2>1, <2>2, <1>2, AddCall
  <2>4. TypeInv'
    BY <2>1, <2>3, <1>2 DEF IInv, TypeInv
  <2>5. \A d \in Client : Idle(d)' = Idle(d)
    BY <2>1 DEF Idle
  <2>6. CallsOk'
    <3>1. \A j \in DOMAIN calls' : calls'[j].outcome = Promise!Open => j \in DOMAIN calls /\ calls'[j] = calls[j]
      BY <2>2, <2>3, Outcomes
    <3>2. \A j \in DOMAIN calls : calls'[j] = calls[j] /\ j \in DOMAIN calls'
      BY <2>3
    <3>3. \A j \in DOMAIN calls' : calls'[j].runs # <<>> =>
              \E result \in Answers[calls'[j].request] : calls'[j].runs = <<result>>
      BY <2>3
    <3> QED BY <3>1, <3>2, <3>3, <2>1, <2>5 DEF IInv, CallsOk
  <2>7. SocketsOk'
    BY <2>1, <2>3, <1>2 DEF IInv, SocketsOk
  <2>8. ASSUME NEW d \in Client PROVE ClientOk(d)'
    <3>1. ~Idle(d) => CallKept(client[d].call)
      BY <2>3 DEF IInv, CallsOk
    <3>2. \A q \in Socket : \A j : Carries(q, j)' => Carries(q, j)
      BY <2>3
    <3> QED BY <3>1, <3>2, <2>1, <1>2, ClientFrame DEF IInv
  <2> QED BY <2>3, <2>4, <2>6, <2>7, <2>8 DEF IInv
<1> QED BY <1>6, <1>7

\* The process ends: every thread is gone, and what was under way to it is lost.
LEMMA StopStep ==
    ASSUME IInv, Stop
    PROVE  IInv'
<1>1. NewThread \in ThreadType /\ NewThread.at = "none"
  BY DEF NewThread, ThreadType
<1>2. [NewThread EXCEPT !.at = "ended"] \in ThreadType /\ [NewThread EXCEPT !.at = "ended"].at = "ended"
  BY <1>1 DEF ThreadType
<1>3. /\ thread' \in [Socket -> ThreadType]
      /\ \A s \in Socket : thread'[s].at = IF conn[s].used THEN "ended" ELSE "none"
  <2>1. thread' = [s \in Socket |-> IF conn[s].used THEN [NewThread EXCEPT !.at = "ended"] ELSE NewThread]
    BY DEF Stop
  <2> QED BY <2>1, <1>1, <1>2
<1>4. ASSUME NEW s \in Socket
      PROVE  /\ conn'[s] \in ConnType /\ ~conn'[s].serverEnd /\ conn'[s].up = <<>> /\ DOMAIN conn'[s].up = {}
             /\ conn'[s].used = conn[s].used /\ conn'[s].clientEnd = conn[s].clientEnd
             /\ conn'[s].down = conn[s].down
  <2>1. conn[s] \in ConnType
    BY DEF IInv, TypeInv
  <2>2. conn'[s] = [conn[s] EXCEPT !.serverEnd = FALSE, !.up = <<>>]
    BY DEF Stop
  <2>3. <<>> \in Seq(UpPart)
    OBVIOUS
  <2> PICK left : left = [conn[s] EXCEPT !.serverEnd = FALSE, !.up = <<>>]
    OBVIOUS
  <2>4. /\ left \in ConnType /\ ~left.serverEnd /\ left.up = <<>>
        /\ left.used = conn[s].used /\ left.clientEnd = conn[s].clientEnd /\ left.down = conn[s].down
    BY <2>1, <2>3 DEF ConnType
  <2>5. conn'[s] = left
    BY <2>2
  <2> QED BY <2>4, <2>5
<1>5. conn' \in [Socket -> ConnType]
  <2>1. conn' = [s \in Socket |-> [conn[s] EXCEPT !.serverEnd = FALSE, !.up = <<>>]]
    BY DEF Stop
  <2>2. \A s \in Socket : [conn[s] EXCEPT !.serverEnd = FALSE, !.up = <<>>] \in ConnType
    BY <1>4, <2>1
  <2> QED BY <2>1, <2>2
<1>6. serving' = FALSE /\ UNCHANGED <<client, calls>>
  BY DEF Stop
<1>7. TypeInv'
  BY <1>3, <1>5, <1>6 DEF IInv, TypeInv
<1>8. \A s \in Socket : \A j : ~Carries(s, j)'
  BY <1>3, <1>4 DEF Carries
<1>9. \A c \in Client : Idle(c)' = Idle(c)
  BY <1>6 DEF Idle
<1>10. CallsOk'
  BY <1>6, <1>9 DEF IInv, CallsOk
<1>11. \A c \in Client : client[c].fd # NoSocket => /\ client[c].fd \in Socket /\ conn[client[c].fd].used
                                                   /\ conn[client[c].fd].clientEnd
  BY DEF IInv, TypeInv, ClientType, SocketsOk
<1>12. SocketsOk'
  BY <1>4, <1>6, <1>8, <1>11 DEF IInv, SocketsOk
<1>13. ASSUME NEW s \in Socket PROVE ThreadOk(s)'
  <2>1. ~Answering(s)' /\ thread'[s].at # "process"
    BY <1>3 DEF Answering
  <2> QED BY <2>1, <1>3, <1>4 DEF ThreadOk
<1>14. ASSUME NEW c \in Client PROVE ClientOk(c)'
  <2> PICK s, i : s = client[c].fd /\ i = client[c].call
    OBVIOUS
  <2>1. ASSUME s # NoSocket, IdleOk(c, s) PROVE IdleOk(c, s)'
    BY <2>1, <1>3, <1>4, <1>11 DEF IdleOk
  <2>2. ASSUME s # NoSocket, BusyOk(c, s, i) PROVE BusyOk(c, s, i)'
    <3>1. thread'[s].at = "ended" /\ s \in Socket
      BY <2>2, <1>3, <1>11
    <3>2. PartsTaken(c)' = PartsTaken(c) /\ ~Answering(s)' /\ \A n : ReplyPart(i, n)' = ReplyPart(i, n)
      BY <3>1, <1>6 DEF PartsTaken, Answering, ReplyPart
    <3> QED BY <3>1, <3>2, <2>2, <1>4, <1>6 DEF BusyOk
  <2>3. ~Idle(c) => (client[c].at \in {"sendLength", "sendSql"} => calls[i].runs = <<>>)
    BY DEF IInv, ClientOk
  <2> QED BY <2>1, <2>2, <2>3, <1>6, <1>8, <1>9 DEF IInv, ClientOk
<1> QED BY <1>7, <1>10, <1>12, <1>13, <1>14 DEF IInv

-----------------------------------------------------------------------------
(* The theorems.                                                           *)

LEMMA InitOk == Init => IInv
<1> SUFFICES ASSUME Init PROVE IInv
  OBVIOUS
<1>1. NewConn \in ConnType /\ ~NewConn.used /\ NewConn.up = <<>> /\ DOMAIN NewConn.up = {}
  <2>1. <<>> \in Seq(UpPart) /\ <<>> \in Seq(DownPart)
    OBVIOUS
  <2> QED BY <2>1 DEF NewConn, ConnType
<1>2. NewThread \in ThreadType /\ NewThread.at = "none"
  BY DEF NewThread, ThreadType
<1>3. NewClient \in ClientType /\ NewClient.at = "idle" /\ NewClient.fd = NoSocket
  BY DEF NewClient, ClientType
<1>4. calls = <<>> /\ calls \in Seq(CallType) /\ DOMAIN calls = {}
  BY DEF Init
<1>5. /\ \A s \in Socket : conn[s] = NewConn /\ thread[s] = NewThread
      /\ \A c \in Client : client[c] = NewClient
  BY DEF Init
<1>6. TypeInv
  BY <1>1, <1>2, <1>3, <1>4 DEF Init, TypeInv
<1>7. \A c \in Client : Idle(c)
  BY <1>3, <1>5 DEF Idle
<1>8. CallsOk
  BY <1>4, <1>7 DEF CallsOk
<1>9. SocketsOk
  BY <1>3, <1>4, <1>5 DEF SocketsOk
<1>10. ASSUME NEW s \in Socket PROVE ThreadOk(s)
  BY <1>1, <1>2, <1>5 DEF ThreadOk, Answering
<1>11. ASSUME NEW c \in Client PROVE ClientOk(c)
  BY <1>3, <1>5, <1>7 DEF ClientOk
<1> QED BY <1>6, <1>8, <1>9, <1>10, <1>11 DEF IInv

LEMMA NextOk ==
    ASSUME IInv, [Next]_vars
    PROVE  IInv'
<1>1. ASSUME NEW c \in Client, SendLength(c) PROVE IInv'
  BY <1>1, SendLengthStep
<1>2. ASSUME NEW c \in Client, SendSql(c) PROVE IInv'
  BY <1>2, SendSqlStep
<1>3. ASSUME NEW c \in Client, RecvStatus(c) PROVE IInv'
  <2>1. /\ client[c].at = "recvStatus" /\ Arrived(c, client[c].at) /\ TakeDown(c)
        /\ client' = [client EXCEPT ![c].at = "recvLength", ![c].status = Received(c)]
        /\ thread' = thread /\ calls' = calls /\ serving' = serving
    BY <1>3 DEF RecvStatus, Arrived
  <2> QED BY <2>1, RecvStep
<1>4. ASSUME NEW c \in Client, RecvLength(c) PROVE IInv'
  <2>1. /\ client[c].at = "recvLength" /\ Arrived(c, client[c].at) /\ TakeDown(c)
        /\ client' = [client EXCEPT ![c].at = "recvJson"]
        /\ thread' = thread /\ calls' = calls /\ serving' = serving
    BY <1>4 DEF RecvLength, Arrived
  <2> QED BY <2>1, RecvStep
<1>5. ASSUME NEW c \in Client, RecvJson(c) \/ Throw(c) PROVE IInv'
  BY <1>5, RecvJsonStep, ThrowStep
<1>6. ASSUME NEW s \in Socket, Serve(s) PROVE IInv'
  BY <1>6, AcceptStep, ReadLengthStep, ReadSqlStep, ServeCloses, ProcessStep, SendAnswerStep DEF Serve
<1>7. ASSUME NEW s \in Socket, Cut(s) PROVE IInv'
  BY <1>7, CutStep
<1>8. ASSUME NEW c \in Client, Use(c) PROVE IInv'
  BY <1>8, ConnectStep, ConnectFailsStep, DisconnectStep, ExecuteStep DEF Use
<1>9. ASSUME UNCHANGED vars PROVE IInv'
  <2>1. UNCHANGED <<serving, client, conn, thread, calls>>
    BY <1>9 DEF vars
  <2>2. TypeInv'
    BY <2>1 DEF IInv, TypeInv
  <2>3. \A i \in DOMAIN calls : CallKept(i)
    BY <2>1 DEF CallKept
  <2>4. \A s \in Socket : \A j : Carries(s, j)' = Carries(s, j)
    BY <2>1 DEF Carries
  <2>5. CallsOk' /\ SocketsOk'
    <3>1. \A c \in Client : Idle(c)' = Idle(c)
      BY <2>1 DEF Idle
    <3>2. CallsOk'
      BY <2>1, <3>1 DEF IInv, CallsOk
    <3>3. SocketsOk'
      BY <2>1, <2>4 DEF IInv, SocketsOk
    <3> QED BY <3>2, <3>3
  <2>6. ASSUME NEW s \in Socket PROVE ThreadOk(s)'
    BY <2>1, <2>3, ThreadFrame DEF IInv
  <2>7. ASSUME NEW c \in Client PROVE ClientOk(c)'
    <3>1. ~Idle(c) => CallKept(client[c].call)
      BY <2>3 DEF IInv, CallsOk
    <3> QED BY <2>1, <2>4, <3>1, ClientFrame DEF IInv, TypeInv, ClientType
  <2> QED BY <2>2, <2>5, <2>6, <2>7 DEF IInv
<1>10. CASE Stop
  BY <1>10, StopStep
<1> QED BY <1>1, <1>2, <1>3, <1>4, <1>5, <1>6, <1>7, <1>8, <1>9, <1>10 DEF Next, System, Proceed

\* IInv says no less than the property.
LEMMA StrongerOk == IInv => ConnectionsInStep
<1> SUFFICES ASSUME IInv PROVE ConnectionsInStep
  OBVIOUS
<1>1. serving \in BOOLEAN /\ client \in [Client -> ClientType]
  BY DEF IInv, TypeInv
<1>2. ASSUME NEW s \in Socket
      PROVE  /\ {conn[s].used, conn[s].cut, conn[s].clientEnd, conn[s].serverEnd} \subseteq BOOLEAN
             /\ Named(conn[s].up) /\ Named(conn[s].down)
             /\ thread[s].at \in {"none", "readLength", "readSql", "process", "sendStatus", "sendLength",
                                   "sendJson", "ended"}
             /\ thread[s].call \in Nat
  <2>1. conn[s] \in ConnType /\ thread[s] \in ThreadType
    BY DEF IInv, TypeInv
  <2>2. conn[s].up \in Seq(UpPart) /\ conn[s].down \in Seq(DownPart)
    BY <2>1 DEF ConnType
  <2>3. \A k \in DOMAIN conn[s].up : conn[s].up[k] \in UpPart
    BY <2>2
  <2>4. \A k \in DOMAIN conn[s].down : conn[s].down[k] \in DownPart
    BY <2>2
  <2>5. Named(conn[s].up)
    BY <2>3 DEF Named, UpPart
  <2>6. Named(conn[s].down)
    BY <2>4 DEF Named, DownPart
  <2> QED BY <2>1, <2>5, <2>6 DEF ConnType, ThreadType
<1>3. ASSUME NEW i \in DOMAIN calls PROVE calls[i].by \in Client /\ calls[i].request \in Request
  <2>1. calls \in Seq(CallType)
    BY DEF IInv, TypeInv
  <2>2. calls[i] \in CallType
    BY <2>1
  <2> QED BY <2>2 DEF CallType
<1>4. TypeOK
  BY <1>1, <1>2, <1>3 DEF TypeOK, ClientType
<1> QED BY <1>4 DEF IInv, ConnectionsInStep

(* Whatever clients do, and whatever is cut, interrupted or stopped, what  *)
(* is on a connection is the rest of the exchange of the call its client   *)
(* is in, and what is under way to the server is not run yet               *)
(* (Client.cpp:259-283, Server.cpp:131-158).                               *)
THEOREM InStep == Spec => []ConnectionsInStep
<1>1. IInv /\ [Next]_vars => IInv'
  BY NextOk
<1> QED BY <1>1, InitOk, StrongerOk, PTL DEF Spec

\* The library reads back what the server wrote (toJson and parseResponse).
AnswersSurvive ==
    \A r \in Request : \A result \in Answers[r] :
        Decoded(ErrorFlag(Encoded(result)), Encoded(result)) = Expected(result)

\* A step runs a call, ends it, begins one, or is none of the caller's business.
LEMMA RpcStep ==
    ASSUME AnswersSurvive, IInv, [Next]_vars
    PROVE  [Promise!Next]_calls
<1>1. ASSUME NEW c \in Client, NEW r \in Asks[c], Execute(c, r) PROVE Promise!Next
  <2>1. Idle(c) /\ r \in DOMAIN Answers
    BY <1>1 DEF Execute, Request
  <2>2. Promise!Free(c)
    BY <2>1 DEF IInv, CallsOk, Promise!Free
  <2>3. \E outcome \in {Promise!Open, Promise!Refused} :
            calls' = Append(calls, Promise!NewCall(c, r, outcome))
    BY <1>1 DEF Execute
  <2> QED BY <2>1, <2>2, <2>3 DEF Promise!Next, Promise!Call
<1>2. ASSUME NEW s \in Socket, processQuery(s) PROVE Promise!Next
  <2> PICK i : i = thread[s].call
    OBVIOUS
  <2>1. NotRun(i) /\ \E result \in Answers[calls[i].request] : calls' = [calls EXCEPT ![i].runs = <<result>>]
    BY <1>2, ProcessStep
  <2> QED BY <2>1 DEF NotRun, Promise!Next, Promise!Run
<1>3. ASSUME NEW c \in Client, RecvJson(c) PROVE Promise!Next
  <2> PICK i : i = client[c].call
    OBVIOUS
  <2>1. /\ i \in DOMAIN calls /\ calls[i].outcome = Promise!Open /\ calls[i].request \in Request
        /\ \E result \in Answers[calls[i].request] :
              /\ calls[i].runs = <<result>>
              /\ client[c].status = ErrorFlag(Encoded(result)) /\ Received(c) = Encoded(result)
    BY <1>3, RecvJsonStep
  <2>2. PICK result \in Answers[calls[i].request] :
            /\ calls[i].runs = <<result>>
            /\ client[c].status = ErrorFlag(Encoded(result)) /\ Received(c) = Encoded(result)
    BY <2>1
  <2>3. Decoded(client[c].status, Received(c)) = Expected(calls[i].runs[1]) /\ calls[i].runs # <<>>
    BY <2>1, <2>2 DEF AnswersSurvive
  <2>4. calls' = [calls EXCEPT ![i].outcome = Promise!Returned(Decoded(client[c].status, Received(c)))]
    BY <1>3 DEF RecvJson
  <2> QED BY <2>1, <2>3, <2>4 DEF Promise!Next, Promise!Return
<1>4. ASSUME NEW c \in Client, Throw(c) PROVE Promise!Next
  <2> PICK i : i = client[c].call
    OBVIOUS
  <2>1. i \in DOMAIN calls /\ calls[i].outcome = Promise!Open
    BY <1>4, ThrowStep
  <2>2. calls' = [calls EXCEPT ![i].outcome = Promise!Lost]
    BY <1>4 DEF Throw
  <2> QED BY <2>1, <2>2 DEF Promise!Next, Promise!Lose
<1>5. ASSUME NEW c \in Client, SendLength(c) \/ SendSql(c) \/ RecvStatus(c) \/ RecvLength(c) PROVE calls' = calls
  BY <1>5 DEF SendLength, SendSql, RecvStatus, RecvLength
<1>6. ASSUME NEW c \in Client, Connect(c) \/ ConnectFails(c) \/ Disconnect(c) PROVE calls' = calls
  BY <1>6 DEF Connect, ConnectFails, Disconnect
<1>7. ASSUME NEW s \in Socket, Serve(s) PROVE processQuery(s) \/ calls' = calls
  BY <1>7 DEF Serve, Accept, ReadLength, BadLength, ReadSql, EndOfInput, SendAnswer, SendFails, Close, Take, Send
<1>8. ASSUME (\E s \in Socket : Cut(s)) \/ Stop \/ UNCHANGED vars PROVE calls' = calls
  BY <1>8 DEF Cut, Stop, vars
<1> QED BY <1>1, <1>2, <1>3, <1>4, <1>5, <1>6, <1>7, <1>8 DEF Next, System, Proceed, Use

(* No request is run twice and no caller gets the answer to another one's  *)
(* request, if the library reads back what the server wrote: the library   *)
(* and the server implement Rpc (Client.cpp:259-283, Server.cpp:131-189).  *)
THEOREM RemoteCall ==
    ASSUME AnswersSurvive
    PROVE  Spec => ImplementsRpc
<1>1. Init => Promise!Init
  BY DEF Init, Promise!Init
<1>2. IInv /\ [Next]_vars => IInv'
  BY NextOk
<1>3. IInv /\ [Next]_vars => [Promise!Next]_calls
  BY RpcStep
<1> QED BY <1>1, <1>2, <1>3, InitOk, PTL DEF Spec, ImplementsRpc, Promise!Spec
=============================================================================
