-------------------------- MODULE ConnectionProofs --------------------------
(***************************************************************************)
(* For any number of executors, requests, pings and connections that       *)
(* break: the answer the client takes is the one to its request.           *)
(*                                                                         *)
(* Nothing is proved of the texts.  What is used of the codec is RoundTrip,*)
(* for the type of the client's token; that fields and tokens come through *)
(* the codec is what the run connection evaluates for every small text.    *)
(***************************************************************************)
EXTENDS Connection, WellFoundedInduction, TLAPS

\* The name in a session's first request, when it is accepted, is the one sent.
RoundTrip ==
  \A n \in Names :
    LET started == decodeMessage(encodeMessage(<< <<"START">>, n >>), 2)
    IN started # <<>> => started[2] = n

------------------------------------------------------------------------------
(* Sequences, whatever their elements are.                                 *)

Sequence(s) == s \in Seq({s[i] : i \in DOMAIN s})

LEMMA SequenceShape ==
  ASSUME NEW s, Sequence(s)
  PROVE  /\ Len(s) \in Nat
         /\ DOMAIN s = 1..Len(s)
         /\ s = <<>> <=> Len(s) = 0
BY DEF Sequence

LEMMA EmptySequence == Sequence(<<>>) /\ Len(<<>>) = 0 /\ DOMAIN <<>> = {}
BY DEF Sequence

\* A sequence is one over its own elements.
LEMMA OwnElements ==
  ASSUME NEW S, NEW t \in Seq(S)
  PROVE  Sequence(t)
<1> DEFINE T == {t[i] : i \in DOMAIN t}
<1>1. Len(t) \in Nat /\ DOMAIN t = 1..Len(t) /\ t = [i \in 1..Len(t) |-> t[i]]
  OBVIOUS
<1>2. \A i \in 1..Len(t) : t[i] \in T
  BY <1>1
<1> HIDE DEF T
<1>3. t \in [1..Len(t) -> T]
  BY <1>1, <1>2
<1>4. t \in Seq(T)
  BY <1>1, <1>3
<1> QED
  BY <1>4 DEF Sequence, T

LEMMA AppendSequence ==
  ASSUME NEW s, Sequence(s), NEW x
  PROVE  /\ Sequence(Append(s, x))
         /\ DOMAIN Append(s, x) = 1..Len(s) + 1
         /\ \A i \in DOMAIN s : Append(s, x)[i] = s[i]
         /\ Append(s, x)[Len(s) + 1] = x
<1> DEFINE S == {s[i] : i \in DOMAIN s} \cup {x}
           t == Append(s, x)
<1>1. s \in Seq(S) /\ x \in S
  <2>1. Len(s) \in Nat /\ DOMAIN s = 1..Len(s) /\ \A i \in 1..Len(s) : s[i] \in S
    BY DEF Sequence
  <2>2. s \in Seq({s[i] : i \in DOMAIN s})
    BY DEF Sequence
  <2> QED
    BY <2>1, <2>2
<1>2. /\ t \in Seq(S)
      /\ Len(t) = Len(s) + 1
      /\ \A i \in 1..Len(s) : t[i] = s[i]
      /\ t[Len(s) + 1] = x
      /\ DOMAIN s = 1..Len(s) /\ DOMAIN t = 1..Len(t) /\ Len(s) \in Nat /\ Len(t) \in Nat
  <2> HIDE DEF S
  <2> QED
    BY <1>1
<1> HIDE DEF t
<1>3. Sequence(t)
  BY <1>2, OwnElements
<1> QED
  BY <1>2, <1>3 DEF t

LEMMA TailSequence ==
  ASSUME NEW s, Sequence(s), s # <<>>
  PROVE  /\ Sequence(Tail(s))
         /\ 1 \in DOMAIN s
         /\ Head(s) = s[1]
         /\ DOMAIN Tail(s) = 1..Len(s) - 1
         /\ \A i \in DOMAIN Tail(s) : i + 1 \in DOMAIN s /\ Tail(s)[i] = s[i + 1]
<1> DEFINE S == {s[i] : i \in DOMAIN s}
           t == Tail(s)
<1>1. s \in Seq(S)
  BY DEF Sequence
<1>2. /\ t \in Seq(S)
      /\ Len(t) = Len(s) - 1
      /\ \A i \in 1..Len(t) : t[i] = s[i + 1]
      /\ DOMAIN s = 1..Len(s) /\ DOMAIN t = 1..Len(t) /\ Len(s) \in Nat /\ Len(t) \in Nat /\ Len(s) >= 1
      /\ Head(s) = s[1]
  <2> HIDE DEF S
  <2> QED
    BY <1>1
<1> HIDE DEF t
<1>3. Sequence(t)
  BY <1>2, OwnElements
<1>4. \A i \in DOMAIN t : i + 1 \in DOMAIN s /\ t[i] = s[i + 1]
  BY <1>2
<1>5. DOMAIN t = 1..Len(s) - 1 /\ 1 \in DOMAIN s
  BY <1>2
<1> QED
  BY <1>2, <1>4, <1>5, <1>3 DEF t

LEMMA SubSequence ==
  ASSUME NEW s, Sequence(s), NEW m \in Nat, NEW n \in Nat, m >= 1, n <= Len(s), m <= n + 1
  PROVE  /\ Sequence(SubSeq(s, m, n))
         /\ DOMAIN SubSeq(s, m, n) = 1..n + 1 - m
         /\ \A i \in DOMAIN SubSeq(s, m, n) :
              m + i - 1 \in DOMAIN s /\ SubSeq(s, m, n)[i] = s[m + i - 1]
<1> DEFINE S == {s[i] : i \in DOMAIN s}
           t == SubSeq(s, m, n)
<1>1. s \in Seq(S)
  BY DEF Sequence
<1>2. /\ t \in Seq(S)
      /\ Len(t) = n + 1 - m
      /\ \A i \in 1..Len(t) : t[i] = s[m + i - 1]
      /\ DOMAIN s = 1..Len(s) /\ DOMAIN t = 1..Len(t) /\ Len(s) \in Nat /\ Len(t) \in Nat
  <2> HIDE DEF S
  <2> QED
    BY <1>1
<1> HIDE DEF t
<1>3. Sequence(t)
  BY <1>2, OwnElements
<1>4. \A i \in DOMAIN t : m + i - 1 \in DOMAIN s /\ t[i] = s[m + i - 1]
  BY <1>2
<1>5. DOMAIN t = 1..n + 1 - m
  BY <1>2
<1> QED
  BY <1>4, <1>5, <1>3 DEF t

LEMMA SmallestOf ==
  ASSUME NEW S \in SUBSET Nat, S # {}
  PROVE  \E i \in S : \A j \in S : i <= j
<1> DEFINE R == OpToRel(<, Nat)
<1>1. IsWellFoundedOn(R, Nat)
  BY NatLessThanWellFounded
<1>2. \A i, j \in Nat : i < j => <<i, j>> \in R
  BY DEF OpToRel
<1> HIDE DEF R
<1>3. PICK i \in S : \A j \in S : <<j, i>> \notin R
  BY <1>1, WFMin
<1>4. ASSUME NEW j \in S
      PROVE  i <= j
  <2>1. i \in Nat /\ j \in Nat /\ ~ j < i
    BY <1>2, <1>3
  <2> QED
    BY <2>1
<1> QED
  BY <1>4

------------------------------------------------------------------------------
(* The lines.                                                              *)

RequestText(n, t) ==
  encodeMessage(IF t = <<>> THEN << <<"START">>, n >> ELSE << <<"ADD">>, n >>)
GoodToken(n, t) == t \in {<<>>, getUniqueToken(n)}

\* What a client of that name sends, and what the server answers.
Sent(n, m) ==
  \/ m.kind = "ping"
  \/ m.kind = "request" /\ GoodToken(n, m.token) /\ m.text = RequestText(n, m.token)
Replied(n, m) == m.kind = "pong" \/ (m.kind = "answer" /\ GoodToken(n, m.token))

PieceOf(p) == p.part \in 1..Parts(p.msg) /\ p = Piece(p.msg, p.part)

ShapeInv ==
  /\ DOMAIN up = Connections /\ DOMAIN part = Connections /\ DOMAIN exec = Executors
  /\ \A k \in Connections : Sequence(up[k]) /\ Sequence(part[k])
  /\ Sequence(queue) /\ Sequence(down)

\* Every line holds pieces of messages that were sent on this connection.
LinesInv ==
  /\ \A k \in Connections : \A i \in DOMAIN up[k] : PieceOf(up[k][i]) /\ Sent(name, up[k][i].msg)
  /\ \A k \in Connections : \A i \in DOMAIN part[k] : PieceOf(part[k][i]) /\ Sent(name, part[k][i].msg)
  /\ \A i \in DOMAIN queue : queue[i].conn \in 1..used /\ Sent(name, queue[i].msg)
  /\ \A e \in Executors : exec[e] # Nothing => Sent(name, exec[e].msg)
  /\ \A w \in writes : w.sent \in Nat /\ Replied(name, w.msg)
  /\ \A i \in DOMAIN down : PieceOf(down[i]) /\ Replied(name, down[i].msg)

\* An attempt is left while the client works on a request; only a long one has a
\* second piece.
ClientInv ==
  /\ GoodToken(name, token)
  /\ pc # "idle" => attempts \in 1..2
  /\ pc = "wrote" => "request" \in Long

IInv == TypeOK /\ ShapeInv /\ LinesInv /\ ClientInv

LEMMA PiecesOfMessage ==
  ASSUME NEW m, NEW i \in 1..Parts(m)
  PROVE  /\ PieceOf(Piece(m, i)) /\ Piece(m, i).msg = m /\ Piece(m, i).part = i
         /\ Piece(m, i).ends <=> i = Parts(m)
         /\ Parts(m) \in {1, 2}
BY DEF PieceOf, Piece, Parts

\* A line that is accepted is the message of its last piece.
LEMMA AcceptedLine ==
  ASSUME NEW line, Sequence(line), line # <<>>, MessageIn(line) # Nothing
  PROVE  /\ MessageIn(line) = line[Len(line)].msg
         /\ MessageIn(line) = line[1].msg
         /\ Len(line) = Parts(line[1].msg)
<1> DEFINE m == line[1].msg
<1>1. line = [i \in 1..Parts(m) |-> Piece(m, i)] /\ MessageIn(line) = m
  BY DEF MessageIn
<1>2. Parts(m) \in {1, 2}
  BY DEF Parts
<1> HIDE DEF m
<1>3. DOMAIN line = 1..Parts(m) /\ line[Parts(m)] = Piece(m, Parts(m))
  BY <1>1, <1>2
<1>4. Len(line) = Parts(m)
  <2>1. Len(line) \in Nat /\ DOMAIN line = 1..Len(line)
    BY SequenceShape
  <2> QED
    BY <1>2, <1>3, <2>1
<1> QED
  BY <1>1, <1>3, <1>4 DEF Piece, m

LEMMA RequestIsSent ==
  ASSUME ClientInv
  PROVE  Sent(name, Request) /\ Request.kind = "request" /\ Request.id = id
BY DEF ClientInv, Sent, Request, Items, RequestText

LEMMA PingIsSent ==
  Sent(name, Ping) /\ Ping.kind = "ping" /\ Parts(Ping) = 1
BY ConnectionAssumption DEF Sent, Ping, Parts

\* The answer has the token of the session, or a new one of its user.
LEMMA AnswerIsReplied ==
  ASSUME RoundTrip, TypeOK, NEW m, Sent(name, m), Decodes(m)
  PROVE  /\ Replied(name, AnswerTo(m))
         /\ AnswerTo(m).kind = "answer" <=> m.kind = "request"
         /\ m.kind = "request" => AnswerTo(m).id = m.id
<1>1. CASE m.kind = "ping"
  BY <1>1 DEF Replied, AnswerTo
<1>2. CASE m.kind = "request" /\ m.token # <<>>
  BY <1>2 DEF Replied, AnswerTo, Sent
<1>3. CASE m.kind = "request" /\ m.token = <<>>
  <2>1. /\ m.text = encodeMessage(<< <<"START">>, name >>)
        /\ decodeMessage(m.text, 2) # <<>>
        /\ name \in Names
    BY <1>3 DEF Sent, RequestText, Decodes, TypeOK
  <2>2. decodeMessage(m.text, 2)[2] = name
    BY <2>1 DEF RoundTrip
  <2> QED
    BY <1>3, <2>2 DEF Replied, AnswerTo, GoodToken
<1> QED
  BY <1>1, <1>2, <1>3 DEF Sent

------------------------------------------------------------------------------
(* Each step of the client.                                                *)

LEMMA SendStep ==
  ASSUME IInv, conn # 0, NEW p, PieceOf(p), Sent(name, p.msg), Send(p)
  PROVE  /\ DOMAIN up' = Connections
         /\ conn \in Connections /\ Sequence(up[conn])
         /\ up'[conn] = Append(up[conn], p)
         /\ \A k \in Connections : k # conn => up'[k] = up[k]
         /\ \A k \in Connections :
              /\ Sequence(up'[k])
              /\ \A i \in DOMAIN up'[k] : PieceOf(up'[k][i]) /\ Sent(name, up'[k][i].msg)
              /\ k > used => up'[k] = <<>>
<1>1. /\ conn \in Connections /\ conn = used /\ DOMAIN up = Connections
      /\ \A k \in Connections : Sequence(up[k])
      /\ \A k \in Connections : \A i \in DOMAIN up[k] : PieceOf(up[k][i]) /\ Sent(name, up[k][i].msg)
      /\ \A k \in Connections : k > used => up[k] = <<>>
  BY ConnectionAssumption DEF IInv, TypeOK, ShapeInv, LinesInv, Connections
<1>2. /\ DOMAIN up' = Connections /\ up'[conn] = Append(up[conn], p)
      /\ \A k \in Connections : k # conn => up'[k] = up[k]
  BY <1>1 DEF Send
<1>3. /\ Sequence(up'[conn])
      /\ DOMAIN up'[conn] = 1..Len(up[conn]) + 1
      /\ \A i \in DOMAIN up[conn] : up'[conn][i] = up[conn][i]
      /\ up'[conn][Len(up[conn]) + 1] = p
  BY <1>1, <1>2, AppendSequence
<1>4. Len(up[conn]) \in Nat /\ DOMAIN up[conn] = 1..Len(up[conn])
  BY <1>1, SequenceShape
<1>5. \A i \in DOMAIN up'[conn] : PieceOf(up'[conn][i]) /\ Sent(name, up'[conn][i].msg)
  BY <1>1, <1>3, <1>4
<1>6. ~ conn > used
  BY <1>1 DEF TypeOK, IInv
<1> QED
  BY <1>1, <1>2, <1>3, <1>5, <1>6

LEMMA StartRequestKeeps ==
  ASSUME IInv, StartRequest
  PROVE  IInv'
<1> USE DEF IInv, StartRequest, sockets, serverside
<1>1. TypeOK'
  BY ConnectionAssumption DEF TypeOK
<1>2. ShapeInv' /\ ClientInv'
  BY DEF ShapeInv, ClientInv
<1>3. LinesInv'
  BY DEF LinesInv
<1> QED
  BY <1>1, <1>2, <1>3

LEMMA ConnectKeeps ==
  ASSUME IInv, Connect
  PROVE  IInv'
<1> USE DEF IInv, Connect, serverside
<1>1. TypeOK'
  BY ConnectionAssumption DEF TypeOK, Connections
<1>2. ShapeInv' /\ ClientInv'
  BY DEF ShapeInv, ClientInv
<1>3. LinesInv'
  BY DEF LinesInv, TypeOK
<1> QED
  BY <1>1, <1>2, <1>3

LEMMA SendMsgKeeps ==
  ASSUME IInv, SendMsg
  PROVE  IInv'
<1>1. PICK i \in 1..Parts(Request) : Send(Piece(Request, i))
  BY DEF SendMsg, Parts, IInv, ClientInv, Request
<1>2. /\ PieceOf(Piece(Request, i)) /\ Sent(name, Piece(Request, i).msg) /\ conn # 0
      /\ UNCHANGED <<name, id, token, conn, used, part, down, queue, exec, writes, taken, pings>>
  BY PiecesOfMessage, RequestIsSent DEF SendMsg, serverside, IInv
<1>3. /\ DOMAIN up' = Connections
      /\ \A k \in Connections :
           /\ Sequence(up'[k])
           /\ \A j \in DOMAIN up'[k] : PieceOf(up'[k][j]) /\ Sent(name, up'[k][j].msg)
           /\ k > used => up'[k] = <<>>
  BY <1>1, <1>2, SendStep
<1>4. TypeOK'
  BY <1>2, <1>3 DEF IInv, TypeOK, SendMsg
<1>5. ShapeInv'
  BY <1>2, <1>3 DEF IInv, ShapeInv
<1>6. LinesInv'
  BY <1>2, <1>3 DEF IInv, LinesInv
<1>7. ClientInv'
  BY <1>2 DEF IInv, ClientInv, SendMsg, Parts, Request
<1> QED
  BY <1>4, <1>5, <1>6, <1>7 DEF IInv

LEMMA PingServerKeeps ==
  ASSUME IInv, PingServer
  PROVE  IInv'
<1>1. Send(Piece(Ping, 1)) /\ conn # 0 /\ 1 \in 1..Parts(Ping)
  BY PingIsSent DEF PingServer
<1>2. PieceOf(Piece(Ping, 1)) /\ Sent(name, Piece(Ping, 1).msg)
  BY <1>1, PiecesOfMessage, PingIsSent
<1>3. /\ DOMAIN up' = Connections
      /\ \A k \in Connections :
           /\ Sequence(up'[k])
           /\ \A j \in DOMAIN up'[k] : PieceOf(up'[k][j]) /\ Sent(name, up'[k][j].msg)
           /\ k > used => up'[k] = <<>>
  BY <1>1, <1>2, SendStep
<1>4. /\ UNCHANGED <<name, pc, id, token, attempts, conn, used, part, down, queue, exec, writes, taken>>
      /\ pings' \in 0..MaxPings
  BY ConnectionAssumption DEF PingServer, serverside, IInv, TypeOK
<1>5. TypeOK'
  BY <1>3, <1>4 DEF IInv, TypeOK
<1>6. ShapeInv'
  BY <1>3, <1>4 DEF IInv, ShapeInv
<1>7. LinesInv'
  BY <1>3, <1>4 DEF IInv, LinesInv
<1>8. ClientInv'
  BY <1>4 DEF IInv, ClientInv
<1> QED
  BY <1>5, <1>6, <1>7, <1>8 DEF IInv

\* The line readMsg takes, and what stays on the socket.
LEMMA ReadLine ==
  ASSUME IInv, LineEnds(down) # {}
  PROVE  /\ FirstEnd(down) \in 1..Len(down)
         /\ down[FirstEnd(down)].ends
         /\ LET line == SubSeq(down, 1, FirstEnd(down)) IN
            /\ Sequence(line) /\ line # <<>>
            /\ MessageIn(line) # Nothing =>
                 MessageIn(line) = down[1].msg /\ Replied(name, MessageIn(line))
<1>1. Sequence(down) /\ Len(down) \in Nat /\ DOMAIN down = 1..Len(down)
  BY SequenceShape DEF IInv, ShapeInv
<1>2. FirstEnd(down) \in LineEnds(down)
  <2> DEFINE E == LineEnds(down)
  <2>1. E \subseteq Nat /\ E # {}
    BY <1>1 DEF LineEnds
  <2> HIDE DEF E
  <2>2. \E i \in E : \A j \in E : i <= j
    BY <2>1, SmallestOf
  <2> QED
    BY <2>2 DEF FirstEnd, E
<1> DEFINE n == FirstEnd(down)
           line == SubSeq(down, 1, n)
<1>3. n \in 1..Len(down) /\ down[n].ends
  BY <1>1, <1>2 DEF LineEnds
<1> HIDE DEF n
<1>4. /\ Sequence(line) /\ DOMAIN line = 1..n
      /\ \A i \in DOMAIN line : line[i] = down[i]
  BY <1>1, <1>3, SubSequence
<1>5. line # <<>> /\ line[1] = down[1] /\ 1 \in DOMAIN down
  BY <1>1, <1>3, <1>4, EmptySequence
<1> HIDE DEF line
<1>6. MessageIn(line) # Nothing => MessageIn(line) = down[1].msg
  BY <1>4, <1>5, AcceptedLine
<1>7. Replied(name, down[1].msg)
  BY <1>5 DEF IInv, LinesInv
<1> QED
  BY <1>3, <1>4, <1>5, <1>6, <1>7 DEF n, line

\* What readMsg leaves is the rest of what was on its way.
LEMMA Remainder ==
  ASSUME IInv, NEW ahead \in 1..Len(down), down' = SubSeq(down, ahead + 1, Len(down))
  PROVE  /\ Sequence(down')
         /\ \A i \in DOMAIN down' : ahead + i \in DOMAIN down /\ down'[i] = down[ahead + i]
<1>1. Sequence(down) /\ Len(down) \in Nat
  BY SequenceShape DEF IInv, ShapeInv
<1>2. /\ Sequence(SubSeq(down, ahead + 1, Len(down)))
      /\ \A i \in DOMAIN SubSeq(down, ahead + 1, Len(down)) :
           /\ ahead + 1 + i - 1 \in DOMAIN down
           /\ SubSeq(down, ahead + 1, Len(down))[i] = down[ahead + 1 + i - 1]
      /\ DOMAIN SubSeq(down, ahead + 1, Len(down)) = 1..Len(down) + 1 - (ahead + 1)
  BY <1>1, SubSequence
<1> QED
  BY <1>1, <1>2

LEMMA ReadMsgKeeps ==
  ASSUME IInv, ReadMsg
  PROVE  IInv'
<1> DEFINE n == FirstEnd(down)
           m == MessageIn(SubSeq(down, 1, n))
<1>1. /\ n \in 1..Len(down)
      /\ m # Nothing => Replied(name, m)
  BY ReadLine DEF ReadMsg
<1>2. /\ \E ahead \in n..Len(down) : down' = SubSeq(down, ahead + 1, Len(down))
      /\ \/ m.kind = "pong" /\ UNCHANGED <<pc, token, taken>>
         \/ /\ m.kind # "pong" /\ pc' = "idle" /\ taken' = m
            /\ token' = IF m = Nothing THEN <<>> ELSE m.token
      /\ attempts' = IF pc' = "read" THEN 2 ELSE attempts
      /\ UNCHANGED <<name, id, conn, used, up, part, queue, exec, writes, pings>>
      /\ pc = "read" /\ conn # 0
  BY DEF ReadMsg, serverside
<1> HIDE DEF m, n
<1>3. Len(down) \in Nat
  BY SequenceShape DEF IInv, ShapeInv
<1>4. PICK ahead \in 1..Len(down) : down' = SubSeq(down, ahead + 1, Len(down))
  BY <1>1, <1>2, <1>3
<1>5. GoodToken(name, token')
  BY <1>1, <1>2 DEF IInv, ClientInv, Replied, GoodToken
<1>6. ClientInv'
  BY <1>2, <1>5 DEF IInv, ClientInv
<1>7. ShapeInv'
  BY <1>2, <1>4, Remainder DEF IInv, ShapeInv
<1>8. LinesInv'
  BY <1>2, <1>4, Remainder DEF IInv, LinesInv
<1>9. TypeOK'
  BY <1>2, <1>5 DEF IInv, TypeOK, GoodToken
<1> QED
  BY <1>6, <1>7, <1>8, <1>9 DEF IInv

LEMMA BreakKeeps ==
  ASSUME IInv, Break
  PROVE  IInv'
<1>1. /\ conn \in Connections /\ Sequence(up[conn]) /\ Len(up[conn]) \in Nat
  BY SequenceShape, ConnectionAssumption DEF Break, IInv, TypeOK, ShapeInv, Connections
<1>2. PICK n \in 0..Len(up[conn]) : up' = [up EXCEPT ![conn] = SubSeq(@, 1, n)]
  BY DEF Break
<1>3. /\ Sequence(SubSeq(up[conn], 1, n))
      /\ \A i \in DOMAIN SubSeq(up[conn], 1, n) :
           i \in DOMAIN up[conn] /\ SubSeq(up[conn], 1, n)[i] = up[conn][i]
  BY <1>1, SubSequence
<1>4. /\ DOMAIN up' = Connections
      /\ up'[conn] = SubSeq(up[conn], 1, n)
      /\ \A k \in Connections : k # conn => up'[k] = up[k]
  BY <1>1, <1>2 DEF IInv, ShapeInv
<1>5. /\ UNCHANGED <<name, id, used, part, queue, exec, taken, pings>>
      /\ conn' = 0 /\ down' = <<>> /\ writes' = {}
      /\ attempts' = attempts - 1 /\ pc # "idle" /\ conn # 0
      /\ pc' = IF attempts = 1 THEN "idle" ELSE IF pc = "wrote" THEN "write" ELSE pc
      /\ token' = IF attempts = 1 THEN <<>> ELSE token
  BY DEF Break, Disconnect
<1>6. ClientInv'
  BY <1>5 DEF IInv, ClientInv, GoodToken
<1>7. ShapeInv'
  BY <1>3, <1>4, <1>5, EmptySequence DEF IInv, ShapeInv
<1>8. \A k \in Connections : \A i \in DOMAIN up'[k] : PieceOf(up'[k][i]) /\ Sent(name, up'[k][i].msg)
  BY <1>1, <1>3, <1>4 DEF IInv, LinesInv
<1>9. LinesInv'
  BY <1>5, <1>8, EmptySequence DEF IInv, LinesInv
<1>10. \A k \in Connections : k > used => up'[k] = <<>>
  <2>1. ~ conn > used
    BY <1>5 DEF IInv, TypeOK
  <2> QED
    BY <1>4, <2>1 DEF IInv, TypeOK
<1>11. TypeOK'
  BY <1>5, <1>10 DEF IInv, TypeOK, ClientInv
<1> QED
  BY <1>6, <1>7, <1>9, <1>11 DEF IInv

------------------------------------------------------------------------------
(* Each step of the server.                                                *)

\* The line handleRead has after the next piece.
LEMMA NextLine ==
  ASSUME IInv, NEW k \in Connections, up[k] # <<>>
  PROVE  LET line == Append(part[k], Head(up[k])) IN
         /\ Sequence(line) /\ line # <<>>
         /\ k \in 1..used
         /\ \A i \in DOMAIN line : PieceOf(line[i]) /\ Sent(name, line[i].msg)
         /\ ~ Head(up[k]).ends => \A i \in DOMAIN line : ~ line[i].ends
         /\ MessageIn(line) # Nothing =>
              MessageIn(line) = Head(up[k]).msg /\ Sent(name, MessageIn(line))
<1> DEFINE p == Head(up[k])
           line == Append(part[k], p)
<1>1. Sequence(up[k]) /\ Sequence(part[k])
  BY DEF IInv, ShapeInv
<1>2. PieceOf(p) /\ Sent(name, p.msg)
  BY <1>1, TailSequence DEF IInv, LinesInv
<1>3. k \in 1..used
  BY ConnectionAssumption DEF IInv, TypeOK, Connections
<1> HIDE DEF p
<1>4. /\ Sequence(line) /\ DOMAIN line = 1..Len(part[k]) + 1
      /\ \A i \in DOMAIN part[k] : line[i] = part[k][i]
      /\ line[Len(part[k]) + 1] = p
      /\ Len(part[k]) \in Nat /\ DOMAIN part[k] = 1..Len(part[k])
  BY <1>1, AppendSequence, SequenceShape
<1> HIDE DEF line
<1>5. line # <<>> /\ Len(line) = Len(part[k]) + 1
  BY <1>4, SequenceShape
<1>6. \A i \in DOMAIN line : i \in DOMAIN part[k] \/ line[i] = p
  BY <1>4
<1>7. /\ \A i \in DOMAIN line : PieceOf(line[i]) /\ Sent(name, line[i].msg)
      /\ ~ p.ends => \A i \in DOMAIN line : ~ line[i].ends
  BY <1>2, <1>4, <1>6 DEF IInv, TypeOK, LinesInv
<1>8. MessageIn(line) # Nothing => MessageIn(line) = p.msg
  BY <1>4, <1>5, AcceptedLine
<1> QED
  BY <1>2, <1>3, <1>4, <1>5, <1>7, <1>8 DEF p, line

LEMMA HandleReadKeeps ==
  ASSUME IInv, NEW k \in Connections, HandleRead(k)
  PROVE  IInv'
<1> DEFINE p == Head(up[k])
           line == Append(part[k], p)
<1>1. /\ Sequence(line)
      /\ k \in 1..used
      /\ \A i \in DOMAIN line : PieceOf(line[i]) /\ Sent(name, line[i].msg)
      /\ ~ p.ends => \A i \in DOMAIN line : ~ line[i].ends
      /\ MessageIn(line) # Nothing => Sent(name, MessageIn(line))
  BY NextLine DEF HandleRead
<1>2. /\ \/ part' = [part EXCEPT ![k] = <<>>]
         \/ ~ p.ends /\ part' = [part EXCEPT ![k] = line]
      /\ \/ queue' = queue
         \/ MessageIn(line) # Nothing /\ queue' = Append(queue, [conn |-> k, msg |-> MessageIn(line)])
      /\ up' = [up EXCEPT ![k] = Tail(@)]
      /\ up[k] # <<>>
      /\ UNCHANGED <<name, pc, id, token, attempts, conn, used, down, exec, writes, taken, pings>>
  BY DEF HandleRead
<1> HIDE DEF p, line
<1>3. /\ DOMAIN part' = Connections
      /\ part'[k] = <<>> \/ (~ p.ends /\ part'[k] = line)
      /\ \A j \in Connections : j # k => part'[j] = part[j]
  BY <1>2 DEF IInv, ShapeInv
<1>4. /\ DOMAIN up' = Connections
      /\ up'[k] = Tail(up[k])
      /\ \A j \in Connections : j # k => up'[j] = up[j]
  BY <1>2 DEF IInv, ShapeInv
<1>5. /\ Sequence(up'[k])
      /\ \A i \in DOMAIN up'[k] : i + 1 \in DOMAIN up[k] /\ up'[k][i] = up[k][i + 1]
  BY <1>2, <1>4, TailSequence DEF IInv, ShapeInv
<1>6. /\ Sequence(queue')
      /\ \A i \in DOMAIN queue' : queue'[i].conn \in 1..used /\ Sent(name, queue'[i].msg)
  <2>1. CASE queue' = queue
    BY <2>1 DEF IInv, ShapeInv, LinesInv
  <2>2. CASE MessageIn(line) # Nothing /\ queue' = Append(queue, [conn |-> k, msg |-> MessageIn(line)])
    <3>1. Sequence(queue) /\ Len(queue) \in Nat /\ DOMAIN queue = 1..Len(queue)
      BY SequenceShape DEF IInv, ShapeInv
    <3>2. /\ Sequence(queue') /\ DOMAIN queue' = 1..Len(queue) + 1
          /\ \A i \in DOMAIN queue : queue'[i] = queue[i]
          /\ queue'[Len(queue) + 1] = [conn |-> k, msg |-> MessageIn(line)]
      BY <2>2, <3>1, AppendSequence
    <3>3. \A i \in DOMAIN queue' : i \in DOMAIN queue \/ i = Len(queue) + 1
      BY <3>1, <3>2
    <3> QED
      BY <1>1, <2>2, <3>2, <3>3 DEF IInv, LinesInv
  <2> QED
    BY <1>2, <2>1, <2>2
<1>7. \A j \in Connections :
        /\ Sequence(part'[j])
        /\ \A i \in DOMAIN part'[j] :
             PieceOf(part'[j][i]) /\ Sent(name, part'[j][i].msg) /\ ~ part'[j][i].ends
        /\ j > used => part'[j] = <<>>
  <2> TAKE j \in Connections
  <2>1. CASE j # k
    BY <1>3, <2>1 DEF IInv, ShapeInv, LinesInv, TypeOK
  <2>2. CASE j = k
    <3>1. ~ k > used
      BY <1>1 DEF IInv, TypeOK
    <3> QED
      BY <1>1, <1>3, <2>2, <3>1, EmptySequence
  <2> QED
    BY <2>1, <2>2
<1>8. \A j \in Connections :
        /\ Sequence(up'[j])
        /\ \A i \in DOMAIN up'[j] : PieceOf(up'[j][i]) /\ Sent(name, up'[j][i].msg)
        /\ j > used => up'[j] = <<>>
  <2> TAKE j \in Connections
  <2>1. CASE j # k
    BY <1>4, <2>1 DEF IInv, ShapeInv, LinesInv, TypeOK
  <2>2. CASE j = k
    <3>1. ~ k > used
      BY <1>1 DEF IInv, TypeOK
    <3> QED
      BY <1>5, <2>2, <3>1 DEF IInv, LinesInv
  <2> QED
    BY <2>1, <2>2
<1>9. ShapeInv' /\ ClientInv'
  BY <1>2, <1>3, <1>4, <1>6, <1>7, <1>8 DEF IInv, ShapeInv, ClientInv
<1>10. LinesInv'
  BY <1>2, <1>6, <1>7, <1>8 DEF IInv, LinesInv
<1>11. TypeOK'
  BY <1>2, <1>7, <1>8 DEF IInv, TypeOK
<1> QED
  BY <1>9, <1>10, <1>11 DEF IInv

LEMMA HandleReadErrorKeeps ==
  ASSUME IInv, NEW k \in Connections, HandleReadError(k)
  PROVE  IInv'
<1>1. /\ DOMAIN part' = Connections
      /\ \A j \in Connections : part'[j] = <<>> \/ part'[j] = part[j]
      /\ UNCHANGED <<name, pc, id, token, attempts, conn, used, up, down, queue, exec, writes, taken, pings>>
  BY DEF HandleReadError, serverside, IInv, ShapeInv
<1>2. ShapeInv' /\ ClientInv'
  BY <1>1, EmptySequence DEF IInv, ShapeInv, ClientInv
<1>3. LinesInv'
  BY <1>1, EmptySequence DEF IInv, LinesInv
<1>4. TypeOK'
  BY <1>1, EmptySequence DEF IInv, TypeOK
<1> QED
  BY <1>2, <1>3, <1>4 DEF IInv

LEMMA GetMessageKeeps ==
  ASSUME IInv, NEW e \in Executors, GetMessageToProcess(e)
  PROVE  IInv'
<1>1. /\ Sequence(queue') /\ 1 \in DOMAIN queue /\ Head(queue) = queue[1]
      /\ \A i \in DOMAIN queue' : i + 1 \in DOMAIN queue /\ queue'[i] = queue[i + 1]
  BY TailSequence DEF GetMessageToProcess, IInv, ShapeInv
<1>2. queue[1].conn \in 1..used /\ Sent(name, queue[1].msg)
  BY <1>1 DEF IInv, LinesInv
<1>3. /\ DOMAIN exec' = Executors
      /\ \A x \in Executors : exec'[x] = exec[x] \/ exec'[x] = queue[1]
      /\ UNCHANGED <<name, pc, id, token, attempts, conn, used, up, part, down, writes, taken, pings>>
  BY <1>1 DEF GetMessageToProcess, sockets, IInv, ShapeInv
<1>4. ShapeInv' /\ ClientInv'
  BY <1>1, <1>3 DEF IInv, ShapeInv, ClientInv
<1>5. \A x \in Executors : exec'[x] # Nothing => exec'[x].conn \in 1..used /\ Sent(name, exec'[x].msg)
  BY <1>2, <1>3 DEF IInv, LinesInv, TypeOK
<1>6. \A i \in DOMAIN queue' : queue'[i].conn \in 1..used /\ Sent(name, queue'[i].msg)
  BY <1>1 DEF IInv, LinesInv
<1>7. LinesInv'
  BY <1>3, <1>5, <1>6 DEF IInv, LinesInv
<1>8. TypeOK'
  BY <1>3, <1>5 DEF IInv, TypeOK
<1> QED
  BY <1>4, <1>7, <1>8 DEF IInv

LEMMA ProcessMessageKeeps ==
  ASSUME RoundTrip, IInv, NEW e \in Executors, ProcessMessage(e)
  PROVE  IInv'
<1> DEFINE m == exec[e].msg
           answer == [by |-> e, msg |-> AnswerTo(m), sent |-> 0]
<1>1. /\ DOMAIN exec' = Executors
      /\ \A x \in Executors : exec'[x] = exec[x] \/ exec'[x] = Nothing
      /\ UNCHANGED <<name, pc, id, token, attempts, conn, used, up, part, down, queue, taken, pings>>
      /\ \A w \in writes' : w \in writes \/ (Decodes(m) /\ exec[e].conn = conn /\ w = answer)
  BY DEF ProcessMessage, sockets, IInv, ShapeInv
<1>2. exec[e].conn \in 1..used /\ Sent(name, m) /\ (Decodes(m) => Replied(name, AnswerTo(m)))
  BY AnswerIsReplied DEF ProcessMessage, IInv, TypeOK, LinesInv
<1>3. answer.msg = AnswerTo(m) /\ answer.sent = 0 /\ Parts(AnswerTo(m)) \in {1, 2}
  BY DEF Parts
<1> HIDE DEF m, answer
<1>4. ShapeInv' /\ ClientInv'
  BY <1>1 DEF IInv, ShapeInv, ClientInv
<1>5. LinesInv'
  BY <1>1, <1>2, <1>3 DEF IInv, LinesInv
<1>6. TypeOK'
  <2>1. \A w \in writes' : w.sent < Parts(w.msg)
    BY <1>1, <1>3 DEF IInv, TypeOK
  <2>2. conn = 0 => writes' = {}
    BY <1>1, <1>2 DEF IInv, TypeOK
  <2> QED
    BY <1>1, <2>1, <2>2 DEF IInv, TypeOK
<1> QED
  BY <1>4, <1>5, <1>6 DEF IInv

LEMMA WriteSomeKeeps ==
  ASSUME IInv, NEW w \in writes, WriteSome(w)
  PROVE  IInv'
<1> DEFINE p == Piece(w.msg, w.sent + 1)
           rest == [w EXCEPT !.sent = @ + 1]
<1>1. /\ w.sent \in Nat /\ w.sent < Parts(w.msg) /\ Replied(name, w.msg) /\ Parts(w.msg) \in {1, 2}
  BY DEF IInv, LinesInv, TypeOK, Parts
<1>2. PieceOf(p) /\ p.msg = w.msg
  BY <1>1, PiecesOfMessage
<1>3. /\ down' = Append(down, p)
      /\ \A v \in writes' : v \in writes \/ (w.sent + 1 # Parts(w.msg) /\ v = rest)
      /\ UNCHANGED <<name, pc, id, token, attempts, conn, used, up, part, queue, exec, taken, pings>>
  BY DEF WriteSome
<1>4. \A v \in writes' : v \in writes \/ (v.msg = w.msg /\ v.sent = w.sent + 1 /\ v.sent # Parts(w.msg))
  <2>1. w.sent + 1 # Parts(w.msg) => rest.msg = w.msg /\ rest.sent = w.sent + 1
    OBVIOUS
  <2> QED
    BY <1>3, <2>1
<1> HIDE DEF p, rest
<1>5. /\ Sequence(down) /\ Len(down) \in Nat /\ DOMAIN down = 1..Len(down)
      /\ Sequence(down') /\ DOMAIN down' = 1..Len(down) + 1
      /\ \A i \in DOMAIN down : down'[i] = down[i]
      /\ down'[Len(down) + 1] = p
  BY <1>3, AppendSequence, SequenceShape DEF IInv, ShapeInv
<1>6. \A i \in DOMAIN down' : PieceOf(down'[i]) /\ Replied(name, down'[i].msg)
  <2>1. \A i \in DOMAIN down' : i \in DOMAIN down \/ i = Len(down) + 1
    BY <1>5
  <2> QED
    BY <1>1, <1>2, <1>5, <2>1 DEF IInv, LinesInv
<1>7. ShapeInv' /\ ClientInv'
  BY <1>3, <1>5 DEF IInv, ShapeInv, ClientInv
<1>8. \A v \in writes' : v.sent \in Nat /\ v.sent < Parts(v.msg) /\ Replied(name, v.msg)
  BY <1>1, <1>4 DEF IInv, LinesInv, TypeOK
<1>9. LinesInv'
  BY <1>3, <1>6, <1>8 DEF IInv, LinesInv
<1>10. TypeOK'
  BY <1>3, <1>8 DEF IInv, TypeOK
<1> QED
  BY <1>7, <1>9, <1>10 DEF IInv

LEMMA IInvInit == Init => IInv
<1> SUFFICES ASSUME Init PROVE IInv
  OBVIOUS
<1>1. ShapeInv /\ LinesInv /\ ClientInv
  BY EmptySequence DEF Init, ShapeInv, LinesInv, ClientInv, GoodToken
<1>2. TypeOK
  BY EmptySequence, ConnectionAssumption DEF Init, TypeOK
<1> QED
  BY <1>1, <1>2 DEF IInv

LEMMA IInvStep ==
  ASSUME RoundTrip, IInv, [Next]_vars
  PROVE  IInv'
<1>1. CASE Client
  BY <1>1, StartRequestKeeps, ConnectKeeps, SendMsgKeeps, ReadMsgKeeps DEF Client
<1>2. CASE Server
  BY <1>2, HandleReadKeeps, HandleReadErrorKeeps, GetMessageKeeps, ProcessMessageKeeps,
     WriteSomeKeeps DEF Server
<1>3. CASE PingServer \/ Break
  BY <1>3, PingServerKeeps, BreakKeeps
<1>4. CASE UNCHANGED vars
  BY <1>4 DEF vars, sockets, serverside, IInv, TypeOK, ShapeInv, LinesInv, ClientInv
<1> QED
  BY <1>1, <1>2, <1>3, <1>4 DEF Next

LEMMA Inductive ==
  ASSUME RoundTrip
  PROVE  Spec => []IInv
BY IInvInit, IInvStep, PTL DEF Spec

\* The client's thread, its connections and the server's keep their types, for
\* any number of executors and of connections that break: among others, attempts
\* are left while a request is worked on, and nothing is under way to a client
\* that has no connection (sendMsg, readMsg, TServerSocket).
THEOREM TypeCorrect == RoundTrip => (Spec => []TypeOK)
<1> SUFFICES ASSUME RoundTrip PROVE Spec => []TypeOK
  OBVIOUS
<1>1. IInv => TypeOK
  BY DEF IInv
<1> QED
  BY <1>1, Inductive, PTL

------------------------------------------------------------------------------
(* The one request.                                                        *)

\* Where the request of the client's connection is, or its answer.
AtSocket == {i \in DOMAIN up[conn] : up[conn][i].ends /\ up[conn][i].msg.kind = "request"}
InQueue == {i \in DOMAIN queue : queue[i].conn = conn /\ queue[i].msg.kind = "request"}
AtExecutor == {e \in Executors : /\ exec[e] # Nothing
                                 /\ exec[e].conn = conn /\ exec[e].msg.kind = "request"}
InWrites == {w \in writes : w.msg.kind = "answer"}
OnItsWay == {i \in DOMAIN down : down[i].msg.kind = "answer"}

AtMostOne(S) == \A x, y \in S : x = y
AllEmpty(A, B, C, D, E) == A = {} /\ B = {} /\ C = {} /\ D = {} /\ E = {}
OnePlace(A, B, C, D, E) ==
  \/ AtMostOne(A) /\ AllEmpty({}, B, C, D, E)
  \/ AtMostOne(B) /\ AllEmpty(A, {}, C, D, E)
  \/ AtMostOne(C) /\ AllEmpty(A, B, {}, D, E)
  \/ AtMostOne(D) /\ AllEmpty(A, B, C, {}, E)
  \/ AtMostOne(E) /\ AllEmpty(A, B, C, D, {})

CurrentInv ==
  /\ \A i \in AtSocket : up[conn][i].msg.id = id
  /\ \A i \in InQueue : queue[i].msg.id = id
  /\ \A e \in AtExecutor : exec[e].msg.id = id
  /\ \A w \in InWrites : w.msg.id = id
  /\ \A i \in OnItsWay : down[i].msg.id = id

\* It is in one place, it is the current one, and it is there only while the
\* client waits for the answer.
OneInv ==
  conn # 0 =>
    /\ CurrentInv
    /\ OnePlace(AtSocket, InQueue, AtExecutor, InWrites, OnItsWay)
    /\ pc # "read" => AllEmpty(AtSocket, InQueue, AtExecutor, InWrites, OnItsWay)

LEMMA OneKept ==
  ASSUME OneInv, UNCHANGED <<conn, id, pc, up, queue, exec, writes, down>>
  PROVE  OneInv'
BY DEF OneInv, CurrentInv, AtSocket, InQueue, AtExecutor, InWrites, OnItsWay

LEMMA StartRequestOne ==
  ASSUME OneInv, StartRequest
  PROVE  OneInv'
<1>1. UNCHANGED <<conn, up, queue, exec, writes, down>> /\ pc = "idle"
  BY DEF StartRequest, sockets, serverside
<1>2. /\ AtSocket' = AtSocket /\ InQueue' = InQueue /\ AtExecutor' = AtExecutor
      /\ InWrites' = InWrites /\ OnItsWay' = OnItsWay
  BY <1>1 DEF AtSocket, InQueue, AtExecutor, InWrites, OnItsWay
<1> QED
  BY <1>1, <1>2 DEF OneInv, CurrentInv, AllEmpty, OnePlace, AtMostOne

LEMMA ConnectOne ==
  ASSUME IInv, Connect
  PROVE  OneInv'
<1>1. /\ UNCHANGED <<up, queue, exec, writes, down>> /\ conn' = used + 1
      /\ conn' \in Connections /\ down = <<>> /\ writes = {} /\ up[conn'] = <<>>
      /\ \A i \in DOMAIN queue : queue[i].conn # conn'
      /\ \A e \in Executors : exec[e] # Nothing => exec[e].conn # conn'
  BY ConnectionAssumption DEF Connect, serverside, IInv, TypeOK, LinesInv, Connections
<1>2. AllEmpty(AtSocket, InQueue, AtExecutor, InWrites, OnItsWay)'
  BY <1>1, EmptySequence DEF AllEmpty, AtSocket, InQueue, AtExecutor, InWrites, OnItsWay
<1> QED
  BY <1>2 DEF OneInv, CurrentInv, AllEmpty, OnePlace, AtMostOne

LEMMA SendMsgOne ==
  ASSUME IInv, OneInv, SendMsg
  PROVE  OneInv'
<1>1. /\ conn # 0 /\ UNCHANGED <<conn, id, queue, exec, writes, down>>
      /\ pc \in {"write", "wrote"}
  BY DEF SendMsg, serverside
<1>2. PICK j \in 1..Parts(Request) :
        Send(Piece(Request, j)) /\ (j = Parts(Request) => pc' = "read")
  BY DEF SendMsg, Parts, IInv, ClientInv, Request
<1>3. AllEmpty(AtSocket, InQueue, AtExecutor, InWrites, OnItsWay)
  BY <1>1 DEF OneInv
<1>4. AllEmpty({}, InQueue', AtExecutor', InWrites', OnItsWay')
  BY <1>1, <1>3 DEF AllEmpty, InQueue, AtExecutor, InWrites, OnItsWay
<1>5. /\ PieceOf(Piece(Request, j)) /\ Piece(Request, j).msg = Request
      /\ Piece(Request, j).ends <=> j = Parts(Request)
      /\ Sent(name, Request) /\ Request.id = id
  BY PiecesOfMessage, RequestIsSent DEF IInv
<1>6. up'[conn] = Append(up[conn], Piece(Request, j)) /\ Sequence(up[conn])
  BY <1>1, <1>2, <1>5, SendStep
<1>7. /\ DOMAIN up[conn] = 1..Len(up[conn]) /\ Len(up[conn]) \in Nat
      /\ DOMAIN up'[conn] = 1..Len(up[conn]) + 1
      /\ \A i \in DOMAIN up[conn] : up'[conn][i] = up[conn][i]
      /\ up'[conn][Len(up[conn]) + 1] = Piece(Request, j)
  BY <1>6, AppendSequence, SequenceShape
<1>8. \A i \in AtSocket' : /\ i = Len(up[conn]) + 1
                           /\ up'[conn][i].msg.id = id
                           /\ pc' = "read"
  <2> SUFFICES ASSUME NEW i \in DOMAIN up'[conn], up'[conn][i].ends, up'[conn][i].msg.kind = "request"
               PROVE  /\ i = Len(up[conn]) + 1
                      /\ up'[conn][i].msg.id = id
                      /\ pc' = "read"
    BY <1>1 DEF AtSocket
  <2>1. i \notin DOMAIN up[conn]
    BY <1>3, <1>7 DEF AllEmpty, AtSocket
  <2>2. i = Len(up[conn]) + 1
    BY <1>7, <2>1
  <2> QED
    BY <1>2, <1>5, <1>7, <2>2
<1> QED
  BY <1>1, <1>4, <1>8 DEF OneInv, CurrentInv, OnePlace, AllEmpty, AtMostOne

LEMMA PingServerOne ==
  ASSUME IInv, OneInv, PingServer
  PROVE  OneInv'
<1>1. /\ conn # 0 /\ UNCHANGED <<conn, id, pc, queue, exec, writes, down>>
      /\ Send(Piece(Ping, 1)) /\ 1 \in 1..Parts(Ping)
  BY PingIsSent DEF PingServer, serverside
<1>2. PieceOf(Piece(Ping, 1)) /\ Piece(Ping, 1).msg = Ping /\ Sent(name, Ping) /\ Ping.kind = "ping"
  BY <1>1, PiecesOfMessage, PingIsSent
<1>3. up'[conn] = Append(up[conn], Piece(Ping, 1)) /\ Sequence(up[conn])
  BY <1>1, <1>2, SendStep
<1>4. /\ DOMAIN up[conn] = 1..Len(up[conn]) /\ Len(up[conn]) \in Nat
      /\ DOMAIN up'[conn] = 1..Len(up[conn]) + 1
      /\ \A i \in DOMAIN up[conn] : up'[conn][i] = up[conn][i]
      /\ up'[conn][Len(up[conn]) + 1] = Piece(Ping, 1)
  BY <1>3, AppendSequence, SequenceShape
<1>5. \A i \in DOMAIN up'[conn] : i \in DOMAIN up[conn] \/ up'[conn][i].msg.kind = "ping"
  <2>1. \A i \in DOMAIN up'[conn] : i \in DOMAIN up[conn] \/ i = Len(up[conn]) + 1
    BY <1>4
  <2> QED
    BY <1>2, <1>4, <2>1
<1>6. AtSocket' = AtSocket /\ \A i \in AtSocket : up'[conn][i] = up[conn][i]
  BY <1>1, <1>4, <1>5 DEF AtSocket
<1>7. InQueue' = InQueue /\ AtExecutor' = AtExecutor /\ InWrites' = InWrites /\ OnItsWay' = OnItsWay
  BY <1>1 DEF InQueue, AtExecutor, InWrites, OnItsWay
<1> QED
  BY <1>1, <1>6, <1>7 DEF OneInv, CurrentInv

\* An answer that is written at once is a line of its own.
LEMMA ShortLine ==
  ASSUME "answer" \notin Long, IInv, LineEnds(down) # {}
  PROVE  /\ 1 \in DOMAIN down
         /\ FirstEnd(down) = 1
         /\ MessageIn(SubSeq(down, 1, FirstEnd(down))) = down[1].msg
         /\ Replied(name, down[1].msg)
<1>1. Sequence(down) /\ Len(down) \in Nat /\ DOMAIN down = 1..Len(down)
  BY SequenceShape DEF IInv, ShapeInv
<1>2. \A i \in DOMAIN down :
        PieceOf(down[i]) /\ Replied(name, down[i].msg) /\ Parts(down[i].msg) = 1
  BY ConnectionAssumption DEF IInv, LinesInv, Replied, Parts
<1>3. ASSUME NEW i \in DOMAIN down
      PROVE  down[i] = Piece(down[i].msg, 1) /\ down[i].ends
  <2>1. down[i].part \in 1..1 /\ down[i] = Piece(down[i].msg, down[i].part)
    BY <1>2 DEF PieceOf
  <2>2. down[i].part = 1
    BY <2>1
  <2>3. down[i] = Piece(down[i].msg, 1) /\ Piece(down[i].msg, 1).ends
    BY <1>2, <2>1, <2>2 DEF Piece
  <2> QED
    BY <2>3
<1>4. LineEnds(down) = 1..Len(down) /\ 1 \in DOMAIN down
  BY <1>1, <1>3 DEF LineEnds
<1>5. FirstEnd(down) = 1
  <2>1. FirstEnd(down) \in 1..Len(down) /\ FirstEnd(down) <= 1
    BY <1>1, <1>4 DEF FirstEnd
  <2> QED
    BY <1>1, <2>1
<1> DEFINE line == SubSeq(down, 1, 1)
<1>6. Sequence(line) /\ DOMAIN line = 1..1 /\ \A i \in DOMAIN line : line[i] = down[i]
  BY <1>1, <1>4, SubSequence
<1> HIDE DEF line
<1>7. line[1] = down[1] /\ line = [i \in 1..1 |-> Piece(down[1].msg, i)]
  <2>1. line \in Seq({line[i] : i \in DOMAIN line}) /\ Len(line) = 1
    BY <1>6, SequenceShape DEF Sequence
  <2>2. line = [i \in 1..1 |-> line[i]]
    BY <1>6, <2>1
  <2>3. line[1] = down[1] /\ down[1] = Piece(down[1].msg, 1)
    BY <1>3, <1>4, <1>6
  <2> QED
    BY <2>2, <2>3
<1>8. MessageIn(line) = down[1].msg
  BY <1>2, <1>4, <1>7 DEF MessageIn
<1> QED
  BY <1>2, <1>4, <1>5, <1>8 DEF line

LEMMA ReadMsgOne ==
  ASSUME "answer" \notin Long, IInv, OneInv, AnswerMatches, ReadMsg
  PROVE  OneInv' /\ AnswerMatches'
<1> DEFINE m == down[1].msg
<1>1. 1 \in DOMAIN down /\ FirstEnd(down) = 1 /\ MessageIn(SubSeq(down, 1, 1)) = m /\ Replied(name, m)
  BY ShortLine DEF ReadMsg
<1>2. Len(down) \in Nat
  BY SequenceShape DEF IInv, ShapeInv
<1>3. /\ \E ahead \in 1..Len(down) : down' = SubSeq(down, ahead + 1, Len(down))
      /\ \/ m.kind = "pong" /\ UNCHANGED <<pc, taken>>
         \/ m.kind # "pong" /\ pc' = "idle" /\ taken' = m
      /\ UNCHANGED <<id, conn, up, queue, exec, writes>>
      /\ conn # 0
  BY <1>1 DEF ReadMsg, serverside
<1>4. PICK ahead \in 1..Len(down) : down' = SubSeq(down, ahead + 1, Len(down))
  BY <1>3
<1>5. \A i \in OnItsWay' : ahead + i \in OnItsWay /\ down'[i] = down[ahead + i] /\ i >= 1 /\ i \in Nat
  <2>1. Sequence(down')
    BY <1>4, Remainder
  <2>2. \A i \in DOMAIN down' : i >= 1 /\ i \in Nat
    BY <2>1, SequenceShape
  <2> QED
    BY <1>4, <2>2, Remainder DEF OnItsWay
<1>6. AtSocket' = AtSocket /\ InQueue' = InQueue /\ AtExecutor' = AtExecutor /\ InWrites' = InWrites
  BY <1>3 DEF AtSocket, InQueue, AtExecutor, InWrites
<1>7. CurrentInv'
  BY <1>3, <1>5, <1>6 DEF OneInv, CurrentInv
<1>8. OnePlace(AtSocket, InQueue, AtExecutor, InWrites, OnItsWay)
  BY <1>3 DEF OneInv
<1>9. OnItsWay # {} \/ OnItsWay' = {}
  BY <1>5
<1>10. AtMostOne(OnItsWay) => AtMostOne(OnItsWay')
  BY <1>5 DEF AtMostOne
<1>11. OnePlace(AtSocket, InQueue, AtExecutor, InWrites, OnItsWay)'
  BY <1>6, <1>8, <1>9, <1>10 DEF OnePlace, AllEmpty
<1>12. CASE m.kind = "pong"
  <2>1. AllEmpty(AtSocket, InQueue, AtExecutor, InWrites, OnItsWay) =>
          AllEmpty(AtSocket, InQueue, AtExecutor, InWrites, OnItsWay)'
    BY <1>6, <1>9 DEF AllEmpty
  <2> QED
    BY <1>3, <1>7, <1>11, <1>12, <2>1 DEF OneInv, AnswerMatches
<1>13. CASE m.kind = "answer"
  <2>1. 1 \in OnItsWay
    BY <1>1, <1>13 DEF OnItsWay
  <2>2. AllEmpty(AtSocket, InQueue, AtExecutor, InWrites, {}) /\ AtMostOne(OnItsWay)
    BY <1>8, <2>1 DEF OnePlace, AllEmpty
  <2>3. OnItsWay' = {}
    <3>1. SUFFICES ASSUME NEW i \in OnItsWay'
                   PROVE  FALSE
      OBVIOUS
    <3>2. ahead + i = 1 /\ i >= 1 /\ i \in Nat
      BY <1>5, <2>1, <2>2 DEF AtMostOne
    <3> QED
      BY <3>2
  <2>4. AllEmpty(AtSocket, InQueue, AtExecutor, InWrites, OnItsWay)'
    BY <1>6, <2>2, <2>3 DEF AllEmpty
  <2>5. AnswerMatches'
    BY <1>3, <1>13, <2>1 DEF AnswerMatches, OneInv, CurrentInv
  <2> QED
    BY <1>7, <1>11, <2>4, <2>5 DEF OneInv
<1> QED
  BY <1>1, <1>12, <1>13 DEF Replied

LEMMA HandleReadOne ==
  ASSUME IInv, OneInv, NEW k \in Connections, HandleRead(k)
  PROVE  OneInv'
<1> SUFFICES ASSUME conn # 0 PROVE OneInv'
  BY DEF OneInv, HandleRead
<1> DEFINE p == Head(up[k])
           line == Append(part[k], p)
           message == [conn |-> k, msg |-> p.msg]
<1>1. /\ MessageIn(line) # Nothing => MessageIn(line) = p.msg
      /\ up[k] # <<>>
  BY NextLine DEF HandleRead
<1>2. /\ p = up[k][1] /\ 1 \in DOMAIN up[k]
      /\ DOMAIN Tail(up[k]) = 1..Len(up[k]) - 1
      /\ \A i \in DOMAIN Tail(up[k]) : i + 1 \in DOMAIN up[k] /\ Tail(up[k])[i] = up[k][i + 1]
  BY <1>1, TailSequence DEF IInv, ShapeInv
<1>3. /\ queue' = queue \/ (p.ends /\ queue' = Append(queue, message))
      /\ up' = [up EXCEPT ![k] = Tail(@)]
      /\ UNCHANGED <<pc, id, conn, down, exec, writes>>
  BY <1>1 DEF HandleRead
<1>4. message.conn = k /\ message.msg = p.msg
  OBVIOUS
<1> HIDE DEF line, message, p
<1>5. /\ conn \in Connections /\ DOMAIN up = Connections
      /\ up'[k] = Tail(up[k])
      /\ \A j \in Connections : j # k => up'[j] = up[j]
  BY <1>3, ConnectionAssumption DEF IInv, TypeOK, ShapeInv, Connections
<1>6. \A j \in DOMAIN queue' :
        \/ j \in DOMAIN queue /\ queue'[j] = queue[j]
        \/ p.ends /\ j = Len(queue) + 1 /\ queue'[j] = message
  <2>1. Sequence(queue) /\ Len(queue) \in Nat /\ DOMAIN queue = 1..Len(queue)
    BY SequenceShape DEF IInv, ShapeInv
  <2>2. CASE queue' = queue
    BY <2>2
  <2>3. CASE p.ends /\ queue' = Append(queue, message)
    <3>1. /\ DOMAIN queue' = 1..Len(queue) + 1
          /\ \A i \in DOMAIN queue : queue'[i] = queue[i]
          /\ queue'[Len(queue) + 1] = message
      BY <2>1, <2>3, AppendSequence
    <3>2. \A j \in DOMAIN queue' : j \in DOMAIN queue \/ j = Len(queue) + 1
      BY <2>1, <3>1
    <3> QED
      BY <2>3, <3>1, <3>2
  <2> QED
    BY <1>3, <2>2, <2>3
<1>7. AtExecutor' = AtExecutor /\ InWrites' = InWrites /\ OnItsWay' = OnItsWay
  BY <1>3 DEF AtExecutor, InWrites, OnItsWay
<1>8. CASE k # conn
  <2>1. AtSocket' = AtSocket /\ up'[conn] = up[conn]
    BY <1>3, <1>5, <1>8 DEF AtSocket
  <2>2. \A j \in InQueue' : j \in InQueue /\ queue'[j] = queue[j]
    BY <1>3, <1>4, <1>6, <1>8 DEF InQueue
  <2>3. /\ InQueue = {} => InQueue' = {}
        /\ AtMostOne(InQueue) => AtMostOne(InQueue')
    BY <2>2 DEF AtMostOne
  <2>4. CurrentInv'
    BY <1>3, <1>7, <2>1, <2>2 DEF OneInv, CurrentInv
  <2>5. OnePlace(AtSocket, InQueue, AtExecutor, InWrites, OnItsWay)'
    BY <1>7, <2>1, <2>3 DEF OneInv, OnePlace, AllEmpty
  <2>6. pc' # "read" => AllEmpty(AtSocket, InQueue, AtExecutor, InWrites, OnItsWay)'
    BY <1>3, <1>7, <2>1, <2>3 DEF OneInv, AllEmpty
  <2> QED
    BY <2>4, <2>5, <2>6 DEF OneInv
<1>9. CASE k = conn
  <2>1. \A i \in AtSocket' : i + 1 \in AtSocket /\ i # 0 /\ i \in Nat /\ up'[conn][i] = up[conn][i + 1]
    <3>1. \A i \in DOMAIN Tail(up[k]) : i # 0 /\ i \in Nat
      BY <1>2
    <3> QED
      BY <1>2, <1>3, <1>5, <1>9, <3>1 DEF AtSocket
  <2>2. \A j \in InQueue' :
          \/ j \in InQueue /\ queue'[j] = queue[j]
          \/ 1 \in AtSocket /\ j = Len(queue) + 1 /\ queue'[j].msg = up[conn][1].msg
    BY <1>2, <1>3, <1>4, <1>6, <1>9 DEF InQueue, AtSocket
  <2>3. CASE 1 \in AtSocket
    <3>1. AllEmpty({}, InQueue, AtExecutor, InWrites, OnItsWay) /\ AtMostOne(AtSocket)
          /\ pc = "read" /\ up[conn][1].msg.id = id
      BY <2>3 DEF OneInv, OnePlace, AllEmpty, CurrentInv
    <3>2. AtSocket' = {}
      <4>1. SUFFICES ASSUME NEW i \in AtSocket' PROVE FALSE
        OBVIOUS
      <4>2. i + 1 = 1 /\ i # 0 /\ i \in Nat
        BY <2>1, <2>3, <3>1 DEF AtMostOne
      <4> QED
        BY <4>2
    <3>3. \A j \in InQueue' : j = Len(queue) + 1 /\ queue'[j].msg.id = id
      BY <2>2, <3>1 DEF AllEmpty
    <3> QED
      BY <1>3, <1>7, <3>1, <3>2, <3>3 DEF OneInv, CurrentInv, OnePlace, AllEmpty, AtMostOne
  <2>4. CASE 1 \notin AtSocket
    <3>1. \A j \in InQueue' : j \in InQueue /\ queue'[j] = queue[j]
      BY <2>2, <2>4
    <3>2. AtMostOne(AtSocket) => AtMostOne(AtSocket')
      <4> SUFFICES ASSUME AtMostOne(AtSocket), NEW x \in AtSocket', NEW y \in AtSocket'
                   PROVE  x = y
        BY DEF AtMostOne
      <4>1. x + 1 = y + 1 /\ x \in Nat /\ y \in Nat
        BY <2>1 DEF AtMostOne
      <4> QED
        BY <4>1
    <3>3. /\ AtSocket = {} => AtSocket' = {}
          /\ InQueue = {} => InQueue' = {}
          /\ AtMostOne(InQueue) => AtMostOne(InQueue')
      <4>1. AtSocket = {} => AtSocket' = {}
        BY <2>1
      <4>2. InQueue' \subseteq InQueue
        BY <3>1
      <4> QED
        BY <4>1, <4>2 DEF AtMostOne
    <3>4. CurrentInv'
      <4>1. CurrentInv
        BY DEF OneInv
      <4>2. \A i \in AtSocket' : up'[conn][i].msg.id = id
        BY <2>1, <4>1 DEF CurrentInv
      <4>3. \A j \in InQueue' : queue'[j].msg.id = id
        BY <3>1, <4>1 DEF CurrentInv
      <4>4. /\ \A e \in AtExecutor' : exec'[e].msg.id = id
            /\ \A w \in InWrites' : w.msg.id = id
            /\ \A i \in OnItsWay' : down'[i].msg.id = id
        BY <1>3, <1>7, <4>1 DEF CurrentInv
      <4> QED
        BY <1>3, <4>2, <4>3, <4>4 DEF CurrentInv
    <3>5. OnePlace(AtSocket, InQueue, AtExecutor, InWrites, OnItsWay)'
      BY <1>7, <3>2, <3>3 DEF OneInv, OnePlace, AllEmpty
    <3>6. pc' # "read" => AllEmpty(AtSocket, InQueue, AtExecutor, InWrites, OnItsWay)'
      BY <1>3, <1>7, <3>3 DEF OneInv, AllEmpty
    <3> QED
      BY <3>4, <3>5, <3>6 DEF OneInv
  <2> QED
    BY <2>3, <2>4
<1> QED
  BY <1>8, <1>9

LEMMA GetMessageOne ==
  ASSUME IInv, OneInv, NEW e \in Executors, GetMessageToProcess(e)
  PROVE  OneInv'
<1> SUFFICES ASSUME conn # 0 PROVE OneInv'
  BY DEF OneInv, GetMessageToProcess, sockets
<1>1. /\ 1 \in DOMAIN queue /\ Head(queue) = queue[1]
      /\ DOMAIN queue' = 1..Len(queue) - 1
      /\ \A i \in DOMAIN queue' : i + 1 \in DOMAIN queue /\ queue'[i] = queue[i + 1]
  BY TailSequence DEF GetMessageToProcess, IInv, ShapeInv
<1>2. /\ exec[e] = Nothing /\ exec'[e] = queue[1]
      /\ \A x \in Executors : x # e => exec'[x] = exec[x]
      /\ UNCHANGED <<pc, id, conn, up, down, writes>>
  BY <1>1 DEF GetMessageToProcess, sockets, IInv, ShapeInv
<1>3. AtSocket' = AtSocket /\ InWrites' = InWrites /\ OnItsWay' = OnItsWay
  BY <1>2 DEF AtSocket, InWrites, OnItsWay
<1>4. \A i \in InQueue' : i + 1 \in InQueue /\ i # 0 /\ i \in Nat /\ queue'[i] = queue[i + 1]
  <2>1. \A i \in DOMAIN queue' : i # 0 /\ i \in Nat
    BY <1>1
  <2> QED
    BY <1>1, <1>2, <2>1 DEF InQueue
<1>5. \A x \in AtExecutor' :
        \/ x \in AtExecutor /\ exec'[x] = exec[x]
        \/ 1 \in InQueue /\ x = e /\ exec'[x] = queue[1]
  BY <1>1, <1>2 DEF AtExecutor, InQueue
<1>6. CASE 1 \in InQueue
  <2>1. AllEmpty(AtSocket, {}, AtExecutor, InWrites, OnItsWay) /\ AtMostOne(InQueue)
        /\ pc = "read" /\ queue[1].msg.id = id
    BY <1>6 DEF OneInv, OnePlace, AllEmpty, CurrentInv
  <2>2. InQueue' = {}
    <3>1. SUFFICES ASSUME NEW i \in InQueue' PROVE FALSE
      OBVIOUS
    <3>2. i + 1 = 1 /\ i # 0 /\ i \in Nat
      BY <1>4, <1>6, <2>1 DEF AtMostOne
    <3> QED
      BY <3>2
  <2>3. \A x \in AtExecutor' : x = e /\ exec'[x].msg.id = id
    BY <1>5, <2>1 DEF AllEmpty
  <2> QED
    BY <1>2, <1>3, <2>1, <2>2, <2>3 DEF OneInv, CurrentInv, OnePlace, AllEmpty, AtMostOne
<1>7. CASE 1 \notin InQueue
  <2>1. \A x \in AtExecutor' : x \in AtExecutor /\ exec'[x] = exec[x]
    BY <1>5, <1>7
  <2>2. AtMostOne(InQueue) => AtMostOne(InQueue')
    <3> SUFFICES ASSUME AtMostOne(InQueue), NEW x \in InQueue', NEW y \in InQueue'
                 PROVE  x = y
      BY DEF AtMostOne
    <3>1. x + 1 = y + 1 /\ x \in Nat /\ y \in Nat
      BY <1>4 DEF AtMostOne
    <3> QED
      BY <3>1
  <2>3. /\ InQueue = {} => InQueue' = {}
        /\ AtExecutor = {} => AtExecutor' = {}
        /\ AtMostOne(AtExecutor) => AtMostOne(AtExecutor')
    BY <1>4, <2>1 DEF AtMostOne
  <2>4. CurrentInv'
    BY <1>2, <1>3, <1>4, <2>1 DEF OneInv, CurrentInv
  <2>5. OnePlace(AtSocket, InQueue, AtExecutor, InWrites, OnItsWay)'
    BY <1>3, <2>2, <2>3 DEF OneInv, OnePlace, AllEmpty
  <2>6. pc' # "read" => AllEmpty(AtSocket, InQueue, AtExecutor, InWrites, OnItsWay)'
    BY <1>2, <1>3, <2>3 DEF OneInv, AllEmpty
  <2> QED
    BY <2>4, <2>5, <2>6 DEF OneInv
<1> QED
  BY <1>6, <1>7

LEMMA ProcessMessageOne ==
  ASSUME RoundTrip, IInv, OneInv, NEW e \in Executors, ProcessMessage(e)
  PROVE  OneInv'
<1> SUFFICES ASSUME conn # 0 PROVE OneInv'
  BY DEF OneInv, ProcessMessage, sockets
<1> DEFINE m == exec[e].msg
           answer == [by |-> e, msg |-> AnswerTo(m), sent |-> 0]
<1>1. /\ exec[e] # Nothing /\ exec'[e] = Nothing
      /\ \A x \in Executors : x # e => exec'[x] = exec[x]
      /\ UNCHANGED <<pc, id, conn, up, down, queue>>
      /\ \A w \in writes' : w \in writes \/ (Decodes(m) /\ exec[e].conn = conn /\ w = answer)
  BY DEF ProcessMessage, sockets, IInv, ShapeInv
<1>2. Decodes(m) => /\ AnswerTo(m).kind = "answer" <=> m.kind = "request"
                    /\ m.kind = "request" => AnswerTo(m).id = m.id
  BY <1>1, AnswerIsReplied DEF IInv, LinesInv
<1>3. answer.msg = AnswerTo(m)
  OBVIOUS
<1> HIDE DEF answer
<1>4. AtSocket' = AtSocket /\ InQueue' = InQueue /\ OnItsWay' = OnItsWay
  BY <1>1 DEF AtSocket, InQueue, OnItsWay
<1>5. \A x \in AtExecutor' : x \in AtExecutor /\ x # e /\ exec'[x] = exec[x]
  BY <1>1 DEF AtExecutor
<1>6. \A w \in InWrites' :
        w \in InWrites \/ (e \in AtExecutor /\ w = answer /\ w.msg.id = exec[e].msg.id)
  BY <1>1, <1>2, <1>3 DEF InWrites, AtExecutor
<1> HIDE DEF m
<1>7. CASE e \in AtExecutor
  <2>1. AllEmpty(AtSocket, InQueue, {}, InWrites, OnItsWay) /\ AtMostOne(AtExecutor)
        /\ pc = "read" /\ exec[e].msg.id = id
    BY <1>7 DEF OneInv, OnePlace, AllEmpty, CurrentInv
  <2>2. AtExecutor' = {}
    BY <1>5, <1>7, <2>1 DEF AtMostOne
  <2>3. \A w \in InWrites' : w = answer /\ w.msg.id = id
    BY <1>6, <2>1 DEF AllEmpty
  <2> QED
    BY <1>1, <1>4, <2>1, <2>2, <2>3 DEF OneInv, CurrentInv, OnePlace, AllEmpty, AtMostOne
<1>8. CASE e \notin AtExecutor
  <2>1. \A w \in InWrites' : w \in InWrites
    BY <1>6, <1>8
  <2>2. /\ AtExecutor = {} => AtExecutor' = {}
        /\ AtMostOne(AtExecutor) => AtMostOne(AtExecutor')
        /\ InWrites = {} => InWrites' = {}
        /\ AtMostOne(InWrites) => AtMostOne(InWrites')
    BY <1>5, <2>1 DEF AtMostOne
  <2>3. CurrentInv'
    BY <1>1, <1>4, <1>5, <2>1 DEF OneInv, CurrentInv
  <2>4. OnePlace(AtSocket, InQueue, AtExecutor, InWrites, OnItsWay)'
    BY <1>4, <2>2 DEF OneInv, OnePlace, AllEmpty
  <2>5. pc' # "read" => AllEmpty(AtSocket, InQueue, AtExecutor, InWrites, OnItsWay)'
    BY <1>1, <1>4, <2>2 DEF OneInv, AllEmpty
  <2> QED
    BY <2>3, <2>4, <2>5 DEF OneInv
<1> QED
  BY <1>7, <1>8

LEMMA WriteSomeOne ==
  ASSUME "answer" \notin Long, IInv, OneInv, NEW w \in writes, WriteSome(w)
  PROVE  OneInv'
<1> SUFFICES ASSUME conn # 0 PROVE OneInv'
  BY DEF OneInv, WriteSome
<1> DEFINE p == Piece(w.msg, w.sent + 1)
<1>1. Replied(name, w.msg) /\ w.sent \in Nat /\ w.sent < Parts(w.msg) /\ Parts(w.msg) = 1
  BY ConnectionAssumption DEF IInv, LinesInv, TypeOK, Replied, Parts
<1>2. /\ down' = Append(down, p)
      /\ writes' = (writes \ {w})
      /\ UNCHANGED <<pc, id, conn, up, queue, exec>>
      /\ p.msg = w.msg
  <2>1. w.sent + 1 = Parts(w.msg)
    BY <1>1
  <2> QED
    BY <2>1 DEF WriteSome, Piece
<1> HIDE DEF p
<1>3. AtSocket' = AtSocket /\ InQueue' = InQueue /\ AtExecutor' = AtExecutor
  BY <1>2 DEF AtSocket, InQueue, AtExecutor
<1>4. InWrites' = InWrites \ {w}
  BY <1>2 DEF InWrites
<1>5. \A i \in OnItsWay' :
        \/ i \in OnItsWay /\ down'[i] = down[i]
        \/ w \in InWrites /\ i = Len(down) + 1 /\ down'[i].msg = w.msg
  <2>1. Sequence(down) /\ Len(down) \in Nat /\ DOMAIN down = 1..Len(down)
    BY SequenceShape DEF IInv, ShapeInv
  <2>2. /\ DOMAIN down' = 1..Len(down) + 1
        /\ \A i \in DOMAIN down : down'[i] = down[i]
        /\ down'[Len(down) + 1] = p
    BY <1>2, <2>1, AppendSequence
  <2>3. \A i \in DOMAIN down' : i \in DOMAIN down \/ i = Len(down) + 1
    BY <2>1, <2>2
  <2> QED
    BY <1>2, <2>2, <2>3 DEF OnItsWay, InWrites
<1>6. CASE w \in InWrites
  <2>1. AllEmpty(AtSocket, InQueue, AtExecutor, {}, OnItsWay) /\ AtMostOne(InWrites)
        /\ pc = "read" /\ w.msg.id = id
    BY <1>6 DEF OneInv, OnePlace, AllEmpty, CurrentInv
  <2>2. InWrites' = {}
    BY <1>4, <1>6, <2>1 DEF AtMostOne
  <2>3. \A i \in OnItsWay' : i = Len(down) + 1 /\ down'[i].msg.id = id
    BY <1>5, <2>1 DEF AllEmpty
  <2> QED
    BY <1>2, <1>3, <2>1, <2>2, <2>3 DEF OneInv, CurrentInv, OnePlace, AllEmpty, AtMostOne
<1>7. CASE w \notin InWrites
  <2>1. \A i \in OnItsWay' : i \in OnItsWay /\ down'[i] = down[i]
    BY <1>5, <1>7
  <2>2. InWrites' = InWrites
    BY <1>4, <1>7
  <2>3. /\ OnItsWay = {} => OnItsWay' = {}
        /\ AtMostOne(OnItsWay) => AtMostOne(OnItsWay')
    BY <2>1 DEF AtMostOne
  <2>4. CurrentInv'
    BY <1>2, <1>3, <2>1, <2>2 DEF OneInv, CurrentInv
  <2>5. OnePlace(AtSocket, InQueue, AtExecutor, InWrites, OnItsWay)'
    BY <1>3, <2>2, <2>3 DEF OneInv, OnePlace, AllEmpty
  <2>6. pc' # "read" => AllEmpty(AtSocket, InQueue, AtExecutor, InWrites, OnItsWay)'
    BY <1>2, <1>3, <2>2, <2>3 DEF OneInv, AllEmpty
  <2> QED
    BY <2>4, <2>5, <2>6 DEF OneInv
<1> QED
  BY <1>6, <1>7

LEMMA OneStep ==
  ASSUME RoundTrip, "answer" \notin Long, IInv, OneInv, AnswerMatches, [Next]_vars
  PROVE  OneInv' /\ AnswerMatches'
<1>1. CASE StartRequest
  BY <1>1, StartRequestOne DEF StartRequest, AnswerMatches
<1>2. CASE ReadMsg
  BY <1>2, ReadMsgOne
<1>3. CASE Break
  BY <1>3 DEF Break, Disconnect, OneInv, AnswerMatches
<1>4. CASE Connect \/ SendMsg \/ PingServer
  BY <1>4, ConnectOne, SendMsgOne, PingServerOne DEF Connect, SendMsg, PingServer, AnswerMatches
<1>5. ASSUME NEW k \in Connections, HandleRead(k) \/ HandleReadError(k)
      PROVE  OneInv' /\ AnswerMatches'
  BY <1>5, HandleReadOne, OneKept DEF HandleRead, HandleReadError, serverside, AnswerMatches
<1>6. ASSUME NEW e \in Executors, GetMessageToProcess(e) \/ ProcessMessage(e)
      PROVE  OneInv' /\ AnswerMatches'
  BY <1>6, GetMessageOne, ProcessMessageOne DEF GetMessageToProcess, ProcessMessage, AnswerMatches
<1>7. ASSUME NEW w \in writes, WriteSome(w)
      PROVE  OneInv' /\ AnswerMatches'
  BY <1>7, WriteSomeOne DEF WriteSome, AnswerMatches
<1>8. CASE UNCHANGED vars
  BY <1>8, OneKept DEF vars, sockets, serverside, AnswerMatches
<1> QED
  BY <1>1, <1>2, <1>3, <1>4, <1>5, <1>6, <1>7, <1>8 DEF Next, Client, Server

\* The client never takes the answer to a ping, to an earlier request or to one
\* it sent on a connection that broke for the answer to its request, as long as
\* answers are written at once: calls that overlap would mix two long ones
\* (filterPingMsgs, readMsg, doSend).
THEOREM AnswersMatch == RoundTrip /\ "answer" \notin Long => (Spec => []AnswerMatches)
<1> SUFFICES ASSUME RoundTrip, "answer" \notin Long PROVE Spec => []AnswerMatches
  OBVIOUS
<1> DEFINE Inv == IInv /\ OneInv /\ AnswerMatches
<1>1. Init => Inv
  BY IInvInit DEF Init, OneInv, AnswerMatches
<1>2. Inv /\ [Next]_vars => Inv'
  BY IInvStep, OneStep
<1>3. Inv => AnswerMatches
  OBVIOUS
<1> QED
  BY <1>1, <1>2, <1>3, PTL DEF Spec

==============================================================================
