------------------------------ MODULE Connection ------------------------------
(***************************************************************************)
(* A client and the server on their connections: sendMsg and readMsg of    *)
(* the client's thread, the pings the window sends from its own thread,    *)
(* TServerSocket with its overlapping async_write calls, and the executors *)
(* that answer.                                                            *)
(*                                                                         *)
(* A message is written in one piece, or in two when it is long.  A        *)
(* connection is a number; an answer to a connection that the client has   *)
(* closed is lost.                                                         *)
(***************************************************************************)
EXTENDS MessageCodec, FiniteSets

CONSTANTS Executors,
          Names,   \* texts a user can have for a name, or a file for a path
          Long,    \* the kinds of messages that take two writes
          MaxRequests, MaxPings, MaxBreaks  \* bounds

ASSUME ConnectionAssumption ==
  /\ Long \subseteq {"request", "answer"}
  /\ {MaxRequests, MaxPings, MaxBreaks} \subseteq Nat

VARIABLES name,     \* the user and the path this behaviour is about
          pc,       \* what the client's thread does
          id,       \* its current request
          token,    \* the token of the session; an error ends the session
          attempts, \* how often sendMsg or readMsg still tries
          conn,     \* the open connection of the client, or 0
          used,     \* how many there were
          up,       \* what is on its way to the server, by connection
          part,     \* the line the server has read a part of, by connection
          down,     \* what is on its way to the client
          queue,    \* the message queue of the server
          exec,     \* what each executor handles
          writes,   \* the async_write calls under way, in fOutQueue
          taken,    \* the answer to the current request
          pings
sockets == <<conn, used, up, part, down>>
serverside == <<queue, exec, writes>>
vars == <<name, pc, id, token, attempts, sockets, serverside, taken, pings>>

Connections == 1..MaxBreaks + 1
Nothing == [kind |-> "none"]

\* The first request of a session brings the user, the others token and path.
Items == IF token = <<>> THEN << <<"START">>, name >> ELSE << <<"ADD">>, name >>
Request == [kind |-> "request", id |-> id, text |-> encodeMessage(Items), token |-> token]
Ping == [kind |-> "ping", id |-> 0]
AnswerTo(m) ==
  IF m.kind = "ping" THEN [kind |-> "pong", id |-> 0]
  ELSE [kind |-> "answer", id |-> m.id,
        token |-> IF m.token = <<>> THEN getUniqueToken(decodeMessage(m.text, 2)[2])
                  ELSE m.token]

Parts(m) == IF m.kind \in Long THEN 2 ELSE 1
Piece(m, i) == [msg |-> m, part |-> i, ends |-> i = Parts(m)]
\* A line with all pieces of one message and no other is that message; pieces of
\* two have too many fields, or no name, and are ignored.
MessageIn(line) ==
  LET m == line[1].msg IN
  IF line = [i \in 1..Parts(m) |-> Piece(m, i)] THEN m ELSE Nothing
\* The first line of a stream.
LineEnds(s) == {i \in DOMAIN s : s[i].ends}
FirstEnd(s) == CHOOSE i \in LineEnds(s) : \A j \in LineEnds(s) : i <= j

TypeOK ==
  /\ name \in Names
  /\ pc \in {"idle", "write", "wrote", "read"}
  /\ id \in 0..MaxRequests
  /\ token \in {<<>>, getUniqueToken(name)}
  /\ attempts \in 0..2
  /\ conn \in {0, used} /\ used \in 0..MaxBreaks + 1
  /\ \A k \in Connections : k > used => up[k] = <<>> /\ part[k] = <<>>
  /\ \A k \in Connections : \A i \in DOMAIN part[k] : ~ part[k][i].ends
  /\ \A w \in writes : w.sent < Parts(w.msg)
  /\ \A e \in Executors : exec[e] # Nothing => exec[e].conn \in 1..used
  /\ conn = 0 => down = <<>> /\ writes = {}
  /\ pings \in 0..MaxPings

Init ==
  /\ name \in Names
  /\ pc = "idle" /\ id = 0 /\ token = <<>> /\ attempts = 0
  /\ conn = 0 /\ used = 0
  /\ up = [k \in Connections |-> <<>>]
  /\ part = [k \in Connections |-> <<>>]
  /\ down = <<>>
  /\ queue = <<>>
  /\ exec = [e \in Executors |-> Nothing]
  /\ writes = {}
  /\ taken = Nothing
  /\ pings = 0

------------------------------------------------------------------------------
(* The client.                                                             *)

Send(p) == up' = [up EXCEPT ![conn] = Append(@, p)]

StartRequest ==
  /\ pc = "idle" /\ id < MaxRequests
  /\ id' = id + 1
  /\ pc' = "write"
  /\ attempts' = 2
  /\ taken' = Nothing
  /\ UNCHANGED <<name, token, sockets, serverside, pings>>

Connect ==
  /\ pc \in {"write", "read"}
  /\ conn = 0 /\ used <= MaxBreaks
  /\ used' = used + 1
  /\ conn' = used'
  /\ UNCHANGED <<name, pc, id, token, attempts, up, part, down, serverside, taken, pings>>

\* boost::asio::write, piece by piece; then readMsg has its own two attempts.
SendMsg ==
  /\ conn # 0
  /\ \/ /\ pc = "write"
        /\ Send(Piece(Request, 1))
        /\ pc' = IF Parts(Request) = 1 THEN "read" ELSE "wrote"
     \/ /\ pc = "wrote"
        /\ Send(Piece(Request, 2))
        /\ pc' = "read"
  /\ attempts' = IF pc' = "read" THEN 2 ELSE attempts
  /\ UNCHANGED <<name, id, token, conn, used, part, down, serverside, taken, pings>>

\* The timer of the window: the same socket, another thread.
PingServer ==
  /\ conn # 0 /\ pings < MaxPings
  /\ pings' = pings + 1
  /\ Send(Piece(Ping, 1))
  /\ UNCHANGED <<name, pc, id, token, attempts, conn, used, part, down, serverside, taken>>

\* read_until takes what has arrived, and what it has read after the first line
\* goes with the buffer.  filterPingMsgs skips the answers to pings.
ReadMsg ==
  /\ pc = "read" /\ conn # 0
  /\ LineEnds(down) # {}
  /\ LET n == FirstEnd(down)
         m == MessageIn(SubSeq(down, 1, n))
     IN /\ \E ahead \in n..Len(down) : down' = SubSeq(down, ahead + 1, Len(down))
        /\ IF m.kind = "pong"
             THEN UNCHANGED <<pc, token, taken>>
             ELSE /\ pc' = "idle"
                  /\ taken' = m
                  /\ token' = IF m = Nothing THEN <<>> ELSE m.token
  /\ attempts' = IF pc' = "read" THEN 2 ELSE attempts
  /\ UNCHANGED <<name, id, conn, used, up, part, serverside, pings>>

\* A slip: the old connection is read on.
KeepConnection == UNCHANGED <<conn, down, writes>>
Disconnect == conn' = 0 /\ down' = <<>> /\ writes' = {}

\* The connection breaks: some of the last pieces do not arrive.
Break ==
  /\ pc # "idle" /\ conn # 0 /\ used <= MaxBreaks
  /\ Disconnect
  /\ \E n \in 0..Len(up[conn]) : up' = [up EXCEPT ![conn] = SubSeq(@, 1, n)]
  /\ attempts' = attempts - 1
  /\ pc' = IF attempts = 1 THEN "idle" ELSE IF pc = "wrote" THEN "write" ELSE pc
  /\ token' = IF attempts = 1 THEN <<>> ELSE token
  /\ UNCHANGED <<name, id, used, part, queue, exec, taken, pings>>

------------------------------------------------------------------------------
(* The server.                                                             *)

\* handleRead: the line goes into the queue when its name is known.
HandleRead(k) ==
  /\ up[k] # <<>>
  /\ LET line == Append(part[k], Head(up[k])) IN
     IF Head(up[k]).ends
       THEN /\ part' = [part EXCEPT ![k] = <<>>]
            /\ queue' = IF MessageIn(line) = Nothing THEN queue
                        ELSE Append(queue, [conn |-> k, msg |-> MessageIn(line)])
       ELSE part' = [part EXCEPT ![k] = line] /\ UNCHANGED queue
  /\ up' = [up EXCEPT ![k] = Tail(@)]
  /\ UNCHANGED <<name, pc, id, token, attempts, conn, used, down, exec, writes, taken, pings>>

\* The client has closed it: the connection is removed, with half a line.
HandleReadError(k) ==
  /\ k # conn /\ up[k] = <<>> /\ part[k] # <<>>
  /\ part' = [part EXCEPT ![k] = <<>>]
  /\ UNCHANGED <<name, pc, id, token, attempts, conn, used, up, down, serverside, taken, pings>>

GetMessageToProcess(e) ==
  /\ exec[e] = Nothing /\ queue # <<>>
  /\ exec' = [exec EXCEPT ![e] = Head(queue)]
  /\ queue' = Tail(queue)
  /\ UNCHANGED <<name, pc, id, token, attempts, sockets, writes, taken, pings>>

\* A request with another number of fields is not answered.
Decodes(m) == m.kind = "ping" \/ decodeMessage(m.text, 2) # <<>>

\* The handler, up to doSend.
ProcessMessage(e) ==
  /\ exec[e] # Nothing
  /\ exec' = [exec EXCEPT ![e] = Nothing]
  /\ LET m == exec[e].msg IN
     writes' = writes \cup
       IF Decodes(m) /\ exec[e].conn = conn
         THEN {[by |-> e, msg |-> AnswerTo(m), sent |-> 0]} ELSE {}
  /\ UNCHANGED <<name, pc, id, token, attempts, sockets, queue, taken, pings>>

\* A slip: handleWrite leaves the buffer where it is.
WriteAndKeep(w) ==
  /\ down' = Append(down, Piece(w.msg, w.sent + 1))
  /\ writes' = (writes \ {w}) \cup {[w EXCEPT !.sent = @ + 1]}
  /\ UNCHANGED <<name, pc, id, token, attempts, conn, used, up, part, queue, exec, taken, pings>>

\* async_write_some of one of the calls; handleWrite takes the last buffer away.
WriteSome(w) ==
  /\ down' = Append(down, Piece(w.msg, w.sent + 1))
  /\ writes' = (writes \ {w}) \cup
       IF w.sent + 1 = Parts(w.msg) THEN {} ELSE {[w EXCEPT !.sent = @ + 1]}
  /\ UNCHANGED <<name, pc, id, token, attempts, conn, used, up, part, queue, exec, taken, pings>>

Client == StartRequest \/ Connect \/ SendMsg \/ ReadMsg
Server == \/ \E k \in Connections : HandleRead(k) \/ HandleReadError(k)
          \/ \E e \in Executors : GetMessageToProcess(e) \/ ProcessMessage(e)
          \/ \E w \in writes : WriteSome(w)

Next == Client \/ Server \/ PingServer \/ Break

Spec == Init /\ [][Next]_vars
FairSpec == Spec /\ WF_vars(Client) /\ WF_vars(Server)

------------------------------------------------------------------------------
(* Properties.                                                             *)

\* The answer the client takes is the one to its current request: neither a ping
\* nor a connection that broke brings it that of another one.
AnswerMatches == taken # Nothing => taken.kind = "answer" /\ taken.id = id

\* What a handler works on is what the client has sent: a name that holds the
\* escape text or its digits comes back as it was, and no other is accepted.
FieldsSurvive ==
  \A e \in Executors :
    exec[e] # Nothing /\ exec[e].msg.kind = "request" /\ Decodes(exec[e].msg) =>
      decodeMessage(exec[e].msg.text, 2)[2] = name

\* The user the server takes from a token is the one it was made for.
TokenNamesUser == token # <<>> => getUserFromToken(token) = name

\* Every request gets an answer or an error.
RequestEnds == pc # "idle" ~> pc = "idle"
================================================================================
