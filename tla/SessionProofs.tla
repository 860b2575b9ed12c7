----------------------------- MODULE SessionProofs -----------------------------
(***************************************************************************)
(* What the handlers of StorageServer may rely on while no session times   *)
(* out.  They look a session up by its user and never compare its token,   *)
(* so nothing in a handler alone says that it works on the session of the  *)
(* client that asked: it follows from what all clients, threads and the    *)
(* table do together.                                                      *)
(***************************************************************************)
EXTENDS StorageServerProofs, SequenceTheorems

OneDevice == \A c, d \in Clients : UserOf[c] = UserOf[d] => c = d

\* No session expires, and the process dies only where a user has one device.
Undisturbed == ~ MaySleep /\ (MayCrash => OneDevice)

------------------------------------------------------------------------------
(* The requests of a client.                                               *)

Queue(c) == {m \in inbox : m.from = c /\ m.kind # "Ping"}
ServedBy(c) == {e \in Executors : exec[e].at \in Steps /\ exec[e].msg.from = c}

\* A client waits for the answer before it sends the next request.
OneRequest(c) ==
  \/ Queue(c) = {} /\ ServedBy(c) = {}
  \/ client[c].busy /\ (\E m \in inbox : Queue(c) = {m}) /\ ServedBy(c) = {}
  \/ client[c].busy /\ Queue(c) = {} /\ \E e \in Executors : ServedBy(c) = {e}

\* What a client sends is what its session allows.
SentIn(m) == IF m.kind \in {"UpdateStart", "RestoreVersion"}
               THEN "out" ELSE SessionKind(m)
QueueFits(c) == \A m \in Queue(c) : client[c].mode = SentIn(m)

------------------------------------------------------------------------------
(* The session of a client.                                                *)

Sess(c) == session[client[c].tok]
InTable(c) == client[c].mode # "out" /\ sessions[UserOf[c]] = client[c].tok

Committing == {"erase", "commit", "cleanup"}
Removed == {"commit", "cleanup"}
UpdateSteps == {"AddFile", "UpdateFile", "stored", "RemoveFile", "UpdateStop"}
                 \cup Committing

\* The session of a client is the one in the table from newSession until a
\* handler of the same client removes it, or the process dies.
TokenInv(c) ==
  /\ client[c].mode = "out" <=> client[c].tok = NoToken
  /\ client[c].mode # "out" =>
       /\ Sess(c) # Null
       /\ Sess(c).kind = client[c].mode
       /\ \/ InTable(c)
          \/ OneDevice /\ sessions[UserOf[c]] = NoToken
          \/ \E e \in ServedBy(c) : exec[e].at \in Removed

\* It has its version until terminateSession takes it out.
VersionInv(c) ==
  InTable(c) /\ Sess(c).version = Null =>
    \E e \in ServedBy(c) : exec[e].at \in {"erase", "restored"}

\* The client knows what its session lists.
Agrees(c, v) == client[c].view = Promised(v.files) /\ client[c].base = v.id
DraftInv(c) ==
  InTable(c) /\ client[c].mode = "update" /\ Sess(c).version # Null =>
    Agrees(c, Sess(c).version)

\* A handler works on the session of the client it serves.
HandlerOwns(c, e) ==
  /\ SessionKind(exec[e].msg) = client[c].mode
  /\ client[c].mode = IF exec[e].at \in UpdateSteps THEN "update" ELSE "restore"
  /\ exec[e].at # "first" => exec[e].tok = client[c].tok
  /\ exec[e].at \notin Removed => InTable(c)
  /\ exec[e].at \in Committing => Agrees(c, exec[e].ver)
  /\ exec[e].at = "stored" => exec[e].ver.id = client[c].base

Owned(c) ==
  /\ OneRequest(c)
  /\ QueueFits(c)
  /\ TokenInv(c)
  /\ VersionInv(c)
  /\ DraftInv(c)
  /\ \A e \in ServedBy(c) : HandlerOwns(c, e)

\* newSession hands out each token once.
Distinct ==
  \A c, d \in Clients : client[c].tok = client[d].tok /\ client[c].tok # NoToken => c = d

\* Without a time-out the session cleaner has nothing to do.
Awake == cleaner = Waiting /\ \A t \in Tokens : session[t] # Null => ~ session[t].idle

\* isValid refuses a version without files.
NoneEmpty == \A u \in Users : \A v \in DOMAIN db[u] : \E p \in Paths : db[u][v][p] # NoFile

SessionInv ==
  /\ NumberInv
  /\ \A c \in Clients : Owned(c)
  /\ Distinct
  /\ Awake
  /\ NoneEmpty

------------------------------------------------------------------------------
(* Threads, requests and answers.                                          *)

\* The thread that serves a client, and what is known of it.
LEMMA Serving ==
  ASSUME SessionInv, NEW e \in Executors, exec[e].at \in Steps,
         NEW c, c = exec[e].msg.from
  PROVE  /\ c \in Clients /\ User(exec[e].msg) = UserOf[c] /\ UserOf[c] \in Users
         /\ Owned(c) /\ HandlerOwns(c, e)
         /\ Queue(c) = {} /\ ServedBy(c) = {e} /\ client[c].busy
         /\ client[c].mode # "out"
<1>1. c \in Clients /\ User(exec[e].msg) = UserOf[c] /\ UserOf[c] \in Users
  BY BusyFields, UserAssumption DEF SessionInv, NumberInv, User
<1>2. e \in ServedBy(c)
  BY DEF ServedBy
<1>3. Owned(c) /\ HandlerOwns(c, e)
  BY <1>1, <1>2 DEF SessionInv, Owned
<1>4. Queue(c) = {} /\ ServedBy(c) = {e} /\ client[c].busy
  BY <1>2, <1>3 DEF Owned, OneRequest
<1>5. client[c].mode # "out"
  BY <1>3 DEF HandlerOwns
<1> QED BY <1>1, <1>3, <1>4, <1>5

\* Its session.
LEMMA ServingSession ==
  ASSUME SessionInv, NEW e \in Executors, exec[e].at \in Steps \ Removed,
         NEW c, c = exec[e].msg.from
  PROVE  /\ InTable(c) /\ client[c].tok \in Tokens /\ sessions[UserOf[c]] = client[c].tok
         /\ Sess(c) \in Session /\ Sess(c).kind = client[c].mode
         /\ exec[e].at # "first" => exec[e].tok = client[c].tok /\ Base(e) = Sess(c).version
         /\ exec[e].at \notin {"erase", "restored"} => Sess(c).version \in TVersion
<1>1. /\ c \in Clients /\ UserOf[c] \in Users /\ HandlerOwns(c, e) /\ ServedBy(c) = {e}
      /\ TokenInv(c) /\ VersionInv(c) /\ client[c].mode # "out"
  BY Serving DEF Owned
<1>2. InTable(c) /\ sessions[UserOf[c]] = client[c].tok
  BY <1>1 DEF HandlerOwns, InTable
<1>3. client[c].tok \in Tokens /\ Sess(c) \in Session /\ Sess(c).kind = client[c].mode
  BY <1>1 DEF TokenInv, Sess, SessionInv, NumberInv, TypeInv, TypeOK, Client
<1>4. exec[e].at # "first" => exec[e].tok = client[c].tok /\ Base(e) = Sess(c).version
  BY <1>1 DEF HandlerOwns, Base, Sess
<1>5. exec[e].at \notin {"erase", "restored"} => Sess(c).version \in TVersion
  BY <1>1, <1>2, <1>3 DEF VersionInv, Session
<1> QED BY <1>2, <1>3, <1>4, <1>5

LEMMA FinishServes ==
  ASSUME TypeInv, NEW e \in Executors, NEW c, ServedBy(c) = {e}, Finish(e)
  PROVE  /\ ServedBy(c)' = {}
         /\ \A d \in Clients \ {c} : ServedBy(d)' = ServedBy(d)
         /\ \A x \in Executors \ {e} : exec'[x] = exec[x]
<1>1. exec'[e] = Idle /\ \A x \in Executors \ {e} : exec'[x] = exec[x]
  BY DEF Finish, TypeInv, TypeOK
<1>2. "idle" \notin Steps
  BY DEF Steps
<1>3. exec[e].msg.from = c
  BY DEF ServedBy
<1> QED BY <1>1, <1>2, <1>3 DEF ServedBy, Idle

\* A thread goes on with its request.
LEMMA MoveServes ==
  ASSUME TypeInv, NEW e \in Executors, exec[e].at \in Steps, NEW at \in Steps,
         exec'[e].at = at, exec'[e].msg = exec[e].msg,
         \A x \in Executors \ {e} : exec'[x] = exec[x]
  PROVE  \A d : ServedBy(d)' = ServedBy(d)
BY DEF ServedBy

\* A thread starts with a request.
LEMMA GotoServes ==
  ASSUME TypeInv, NEW e \in Executors, exec[e] = Idle, NEW at \in Steps,
         NEW m, NEW t, NEW v, Goto(e, at, m, t, v), ServedBy(m.from) = {}
  PROVE  /\ ServedBy(m.from)' = {e}
         /\ \A d \in Clients \ {m.from} : ServedBy(d)' = ServedBy(d)
         /\ exec'[e] = [at |-> at, msg |-> m, tok |-> t, ver |-> v]
         /\ \A x \in Executors \ {e} : exec'[x] = exec[x]
<1>1. /\ exec'[e] = [at |-> at, msg |-> m, tok |-> t, ver |-> v]
      /\ \A x \in Executors \ {e} : exec'[x] = exec[x]
  BY DEF Goto, TypeInv, TypeOK
<1>2. "idle" \notin Steps
  BY DEF Steps
<1> QED BY <1>1, <1>2 DEF ServedBy, Idle

\* A request is taken from the queue: it is the only one of its client, whom no
\* thread serves yet.
LEMMA Taking ==
  ASSUME SessionInv, NEW e \in Executors, NEW m \in inbox, m.kind # "Ping",
         Take(e, m), NEW c, c = m.from
  PROVE  /\ m \in Message /\ c \in Clients /\ User(m) = UserOf[c] /\ UserOf[c] \in Users
         /\ Owned(c) /\ client[c].busy /\ client[c].mode = SentIn(m)
         /\ Queue(c) = {m} /\ ServedBy(c) = {}
         /\ Queue(c)' = {} /\ \A d \in Clients \ {c} : Queue(d)' = Queue(d)
<1>1. m \in Message /\ c \in Clients /\ User(m) = UserOf[c] /\ UserOf[c] \in Users
  BY MessageFields, UserType DEF SessionInv, NumberInv, TypeInv, TypeOK, User
<1>2. m \in Queue(c) /\ Owned(c)
  BY <1>1 DEF Queue, SessionInv
<1>3. Queue(c) = {m} /\ ServedBy(c) = {} /\ client[c].busy
  BY <1>2 DEF Owned, OneRequest
<1>4. client[c].mode = SentIn(m)
  BY <1>2 DEF Owned, QueueFits
<1>5. Queue(c)' = {} /\ \A d \in Clients \ {c} : Queue(d)' = Queue(d)
  BY <1>3 DEF Take, Queue
<1> QED BY <1>1, <1>2, <1>3, <1>4, <1>5

------------------------------------------------------------------------------
(* A step for one client leaves the others their sessions.                 *)

\* What such a step may change.  It enters only a session nobody has, and
\* removes only the client's own.
OnlyFor(c) ==
  /\ \A d \in Clients \ {c} :
       /\ client'[d] = client[d] /\ Queue(d)' = Queue(d) /\ ServedBy(d)' = ServedBy(d)
       /\ \A e \in ServedBy(d) : exec'[e] = exec[e]
  /\ \A t \in Tokens : session[t] # Null /\ t # client[c].tok => session'[t] = session[t]
  /\ \A u \in Users :
       \/ sessions'[u] = sessions[u]
       \/ /\ u = UserOf[c]
          /\ \/ /\ sessions[u] = NoToken
                /\ sessions'[u] \in Tokens /\ session[sessions'[u]] = Null
             \/ InTable(c) /\ sessions'[u] = NoToken

LEMMA OthersSession ==
  ASSUME SessionInv, NEW c \in Clients, OnlyFor(c), NEW d \in Clients, d # c
  PROVE  /\ client[d].mode # "out" => Sess(d)' = Sess(d)
         /\ InTable(d) => InTable(d)' /\ sessions'[UserOf[d]] = sessions[UserOf[d]]
         /\ InTable(d)' => InTable(d)
<1> DEFINE u == UserOf[d]
<1>1. client'[d] = client[d]
  BY DEF OnlyFor
<1>2. Owned(d) /\ u \in Users /\ client[d] \in Client
  BY UserAssumption DEF SessionInv, NumberInv, TypeInv, TypeOK
<1>3. ASSUME client[d].mode # "out"
      PROVE  /\ client[d].tok \in Tokens /\ Sess(d) # Null /\ Sess(d)' = Sess(d)
             /\ client[d].tok # client[c].tok
  <2>1. client[d].tok \in Tokens /\ client[d].tok # NoToken /\ Sess(d) # Null
    BY <1>2, <1>3, SentinelAssumption DEF Owned, TokenInv, Client
  <2>2. client[d].tok # client[c].tok
    BY <2>1 DEF SessionInv, Distinct
  <2> QED BY <1>1, <2>1, <2>2 DEF OnlyFor, Sess
<1>4. ASSUME InTable(d) PROVE InTable(d)' /\ sessions'[u] = sessions[u]
  <2>1. client[d].mode # "out" /\ sessions[u] = client[d].tok
    BY <1>4 DEF InTable
  <2>2. sessions[u] # NoToken /\ ~ (u = UserOf[c] /\ InTable(c))
    BY <1>3, <2>1, SentinelAssumption DEF InTable
  <2> QED BY <1>1, <1>2, <2>1, <2>2 DEF OnlyFor, InTable
<1>5. ASSUME InTable(d)' PROVE InTable(d)
  <2>1. client[d].mode # "out" /\ sessions'[u] = client[d].tok
    BY <1>1, <1>5 DEF InTable
  <2>2. client[d].tok \in Tokens /\ client[d].tok # NoToken /\ session[client[d].tok] # Null
    BY <1>3, <2>1, SentinelAssumption DEF Sess
  <2> QED BY <1>2, <2>1, <2>2 DEF OnlyFor, InTable
<1> QED BY <1>3, <1>4, <1>5

LEMMA OthersOwned ==
  ASSUME SessionInv, NEW c \in Clients, OnlyFor(c), NEW d \in Clients, d # c
  PROVE  Owned(d)'
<1> DEFINE u == UserOf[d]
<1>1. /\ client'[d] = client[d] /\ Queue(d)' = Queue(d) /\ ServedBy(d)' = ServedBy(d)
      /\ \A e \in ServedBy(d) : exec'[e] = exec[e]
  BY DEF OnlyFor
<1>2. Owned(d) /\ u \in Users
  BY UserAssumption DEF SessionInv
<1>3. OneRequest(d)' /\ QueueFits(d)'
  BY <1>1, <1>2 DEF Owned, OneRequest, QueueFits, Queue
<1>4. client[d].mode # "out" => Sess(d) # Null /\ Sess(d)' = Sess(d)
  BY <1>2, OthersSession DEF Owned, TokenInv
<1>5. InTable(d) => InTable(d)' /\ sessions'[u] = sessions[u]
  BY OthersSession
<1>6. InTable(d)' => InTable(d)
  BY OthersSession
<1>7. TokenInv(d)'
  <2>1. client'[d].mode = "out" <=> client'[d].tok = NoToken
    BY <1>1, <1>2 DEF Owned, TokenInv
  <2>2. ASSUME client[d].mode # "out"
        PROVE  /\ Sess(d)' # Null
               /\ Sess(d).kind' = client[d].mode
               /\ \/ InTable(d)'
                  \/ OneDevice /\ sessions'[u] = NoToken
                  \/ \E e \in ServedBy(d) : exec[e].at \in Removed
    <3>1. /\ Sess(d) # Null /\ Sess(d)' = Sess(d)
          /\ Sess(d).kind = client[d].mode
          /\ \/ InTable(d)
             \/ OneDevice /\ sessions[u] = NoToken
             \/ \E e \in ServedBy(d) : exec[e].at \in Removed
      BY <1>2, <1>4, <2>2 DEF Owned, TokenInv
    <3>2. ASSUME OneDevice PROVE sessions'[u] = sessions[u]
      BY <1>2, <3>2 DEF OneDevice, OnlyFor
    <3> QED BY <1>5, <3>1, <3>2
  <2> QED BY <1>1, <2>1, <2>2 DEF TokenInv
<1>8. VersionInv(d)' /\ DraftInv(d)'
  <2> SUFFICES ASSUME InTable(d)' PROVE VersionInv(d)' /\ DraftInv(d)'
    BY DEF VersionInv, DraftInv
  <2>1. InTable(d) /\ Sess(d)' = Sess(d)
    BY <1>4, <1>6 DEF InTable
  <2> QED BY <1>1, <1>2, <2>1 DEF Owned, VersionInv, DraftInv, Agrees
<1>9. \A e \in ServedBy(d) : HandlerOwns(d, e)'
  BY <1>1, <1>2, <1>5 DEF Owned, HandlerOwns, Agrees
<1> QED BY <1>1, <1>3, <1>7, <1>8, <1>9 DEF Owned

------------------------------------------------------------------------------
(* What a step for a client does to its own session.                       *)

\* A client keeps its token, loses it, or gets one nobody had.
TokenStep(c) ==
  \/ client'[c].tok \in {client[c].tok, NoToken}
  \/ client'[c].tok \in Tokens /\ session[client'[c].tok] = Null

ServesOnly(c) == OnlyFor(c) /\ Owned(c)' /\ TokenStep(c)

LEMMA ServingKeepsOwned ==
  ASSUME SessionInv, NEW c \in Clients, ServesOnly(c)
  PROVE  (\A d \in Clients : Owned(d)') /\ Distinct'
<1>1. \A d \in Clients : Owned(d)'
  BY OthersOwned DEF ServesOnly
<1>2. ASSUME NEW d \in Clients PROVE client[d].tok = NoToken \/ session[client[d].tok] # Null
  BY DEF SessionInv, Owned, TokenInv, Sess
<1>3. \A d \in Clients \ {c} : client'[d] = client[d]
  BY DEF ServesOnly, OnlyFor
<1> QED BY <1>1, <1>2, <1>3 DEF ServesOnly, TokenStep, SessionInv, Distinct

\* A thread that serves a client changes nothing of the others, when it leaves
\* their sessions alone.
LEMMA ServingIsOnlyFor ==
  ASSUME SessionInv, NEW e \in Executors, exec[e].at \in Steps,
         NEW c, c = exec[e].msg.from, inbox' = inbox,
         \A d \in Clients \ {c} : client'[d] = client[d] /\ ServedBy(d)' = ServedBy(d),
         \A x \in Executors \ {e} : exec'[x] = exec[x],
         \A t \in Tokens \ {client[c].tok} : session'[t] = session[t],
         \/ sessions' = sessions
         \/ InTable(c) /\ sessions' = [sessions EXCEPT ![UserOf[c]] = NoToken]
  PROVE  OnlyFor(c) /\ Queue(c)' = {}
<1>1. c \in Clients /\ UserOf[c] \in Users /\ Queue(c) = {} /\ ServedBy(c) = {e}
  BY Serving
<1>2. \A d : Queue(d)' = Queue(d)
  BY DEF Queue
<1>3. ASSUME NEW d \in Clients \ {c}, NEW x \in ServedBy(d) PROVE exec'[x] = exec[x]
  BY <1>1, <1>3 DEF ServedBy
<1>4. ASSUME NEW u \in Users
      PROVE  sessions'[u] = sessions[u] \/ (u = UserOf[c] /\ InTable(c) /\ sessions'[u] = NoToken)
  BY DEF SessionInv, NumberInv, TypeInv, TypeOK
<1> QED BY <1>1, <1>2, <1>3, <1>4 DEF OnlyFor

LEMMA DismissClient ==
  ASSUME client \in [Clients -> Client], NEW c \in Clients, Dismiss(c)
  PROVE  client'[c] = LoggedOut /\ \A d \in Clients \ {c} : client'[d] = client[d]
BY DEF Dismiss

LEMMA AnswerClient ==
  ASSUME client \in [Clients -> Client], NEW c \in Clients, NEW view, Answer(c, view)
  PROVE  /\ client'[c] = [client[c] EXCEPT !.busy = FALSE, !.view = view]
         /\ client'[c].mode = client[c].mode /\ client'[c].tok = client[c].tok
         /\ client'[c].base = client[c].base /\ client'[c].view = view
         /\ client'[c].offer = client[c].offer
         /\ \A d \in Clients \ {c} : client'[d] = client[d]
BY DEF Answer, Client

\* A client without a session needs nothing.
LEMMA OutIsOwned ==
  ASSUME NEW c, Queue(c)' = {}, ServedBy(c)' = {}, client'[c] = LoggedOut
  PROVE  Owned(c)' /\ TokenStep(c)
BY DEF Owned, OneRequest, QueueFits, TokenInv, VersionInv, DraftInv, InTable, LoggedOut,
       TokenStep

\* The request ends the session for the client.
LEMMA Dismissing ==
  ASSUME SessionInv, NEW e \in Executors, exec[e].at \in Steps,
         NEW c, c = exec[e].msg.from, inbox' = inbox, Dismiss(c), Finish(e),
         session' = session,
         \/ sessions' = sessions
         \/ InTable(c) /\ sessions' = [sessions EXCEPT ![UserOf[c]] = NoToken]
  PROVE  ServesOnly(c)
<1>1. c \in Clients /\ ServedBy(c) = {e}
  BY Serving
<1>2. client'[c] = LoggedOut /\ \A d \in Clients \ {c} : client'[d] = client[d]
  BY <1>1, DismissClient DEF SessionInv, NumberInv, TypeInv, TypeOK
<1>3. /\ ServedBy(c)' = {} /\ \A d \in Clients \ {c} : ServedBy(d)' = ServedBy(d)
      /\ \A x \in Executors \ {e} : exec'[x] = exec[x]
  BY <1>1, FinishServes DEF SessionInv, NumberInv
<1>4. OnlyFor(c) /\ Queue(c)' = {}
  BY <1>2, <1>3, ServingIsOnlyFor
<1> QED BY <1>2, <1>3, <1>4, OutIsOwned DEF ServesOnly

\* The request is answered, and the session goes on with a version v.
LEMMA Answering ==
  ASSUME SessionInv, NEW e \in Executors, exec[e].at \in Steps \ Removed,
         NEW c, c = exec[e].msg.from, inbox' = inbox, sessions' = sessions, Finish(e),
         \A d \in Clients \ {c} : client'[d] = client[d],
         client'[c].mode = client[c].mode, client'[c].tok = client[c].tok,
         client'[c].base = client[c].base,
         \A t \in Tokens \ {client[c].tok} : session'[t] = session[t],
         session'[client[c].tok] # Null,
         session'[client[c].tok].kind = Sess(c).kind,
         NEW v, v # Null, session'[client[c].tok].version = v,
         client[c].mode = "update" => client'[c].view = Promised(v.files) /\ v.id = client[c].base
  PROVE  ServesOnly(c)
<1>1. c \in Clients /\ ServedBy(c) = {e} /\ Owned(c) /\ UserOf[c] \in Users
  BY Serving
<1>2. /\ ServedBy(c)' = {} /\ \A d \in Clients \ {c} : ServedBy(d)' = ServedBy(d)
      /\ \A x \in Executors \ {e} : exec'[x] = exec[x]
  BY <1>1, FinishServes DEF SessionInv, NumberInv
<1>3. OnlyFor(c) /\ Queue(c)' = {}
  BY <1>2, ServingIsOnlyFor
<1>4. InTable(c) /\ Sess(c).kind = client[c].mode
  BY ServingSession
<1>5. InTable(c)' /\ Sess(c)' = session'[client[c].tok]
  BY <1>4 DEF InTable, Sess
<1>6. TokenInv(c)' /\ VersionInv(c)' /\ DraftInv(c)'
  BY <1>1, <1>4, <1>5 DEF Owned, TokenInv, VersionInv, DraftInv, Agrees
<1>7. OneRequest(c)' /\ QueueFits(c)'
  BY <1>2, <1>3 DEF OneRequest, QueueFits
<1> QED BY <1>2, <1>3, <1>6, <1>7 DEF ServesOnly, Owned, TokenStep

\* The thread goes on to another step with the request.
LEMMA GoingOn ==
  ASSUME SessionInv, NEW e \in Executors, exec[e].at \in Steps, NEW at \in Steps,
         NEW c, c = exec[e].msg.from, inbox' = inbox, client' = client,
         exec'[e].at = at, exec'[e].msg = exec[e].msg,
         \A x \in Executors \ {e} : exec'[x] = exec[x],
         \A t \in Tokens \ {client[c].tok} : session'[t] = session[t],
         \/ sessions' = sessions
         \/ InTable(c) /\ sessions' = [sessions EXCEPT ![UserOf[c]] = NoToken],
         TokenInv(c)', VersionInv(c)', DraftInv(c)', HandlerOwns(c, e)'
  PROVE  ServesOnly(c)
<1>1. c \in Clients /\ ServedBy(c) = {e} /\ client[c].busy
  BY Serving
<1>2. \A d : ServedBy(d)' = ServedBy(d)
  BY MoveServes DEF SessionInv, NumberInv
<1>3. OnlyFor(c) /\ Queue(c)' = {}
  BY <1>2, ServingIsOnlyFor
<1>4. OneRequest(c)' /\ QueueFits(c)'
  BY <1>1, <1>2, <1>3 DEF OneRequest, QueueFits
<1> QED BY <1>1, <1>2, <1>3, <1>4 DEF ServesOnly, Owned, TokenStep

------------------------------------------------------------------------------
(* The handlers of an update.                                              *)

\* What listing and removing files does to the contents a version promises.
LEMMA PromisedAdd ==
  ASSUME NEW v \in TVersion, NEW p \in Paths, NEW f \in Entry
  PROVE  Promised(AddFile(v, p, f).files) = [Promised(v.files) EXCEPT ![p] = f.date]
<1>1. AddFile(v, p, f).files = [v.files EXCEPT ![p] = f] /\ f # NoFile
  BY NoEntryAssumption DEF AddFile, TVersion
<1> QED BY <1>1 DEF Promised, TVersion, FileMap

LEMMA PromisedRemove ==
  ASSUME NEW v \in TVersion, NEW p \in Paths
  PROVE  Promised(RemoveFile(v, p).files) = [Promised(v.files) EXCEPT ![p] = NoFile]
<1>1. RemoveFile(v, p).files = [v.files EXCEPT ![p] = NoFile]
  BY DEF RemoveFile, TVersion, FileMap, Listed
<1> QED BY <1>1 DEF Promised, TVersion, FileMap

\* A new version of the session a thread holds.
LEMMA NewVersionOfSession ==
  ASSUME SessionInv, NEW e \in Executors, exec[e].at \in Steps \ (Removed \cup {"first"}),
         NEW c, c = exec[e].msg.from, NEW v, SetVersion(e, v)
  PROVE  /\ session' = [session EXCEPT ![client[c].tok] = [Sess(c) EXCEPT !.version = v]]
         /\ session'[client[c].tok] = [Sess(c) EXCEPT !.version = v]
         /\ session'[client[c].tok].kind = Sess(c).kind
         /\ session'[client[c].tok].version = v
         /\ \A t \in Tokens \ {client[c].tok} : session'[t] = session[t]
<1>1. client[c].tok \in Tokens /\ exec[e].tok = client[c].tok /\ Sess(c) \in Session
  BY ServingSession
<1>2. session' = [session EXCEPT ![client[c].tok] = [Sess(c) EXCEPT !.version = v]]
  BY <1>1 DEF SetVersion, Sess
<1> QED BY <1>1, <1>2 DEF SessionInv, NumberInv, TypeInv, TypeOK, Session

LEMMA RejectFileOwned ==
  ASSUME SessionInv, NEW e \in Executors, RejectFile(e), NEW c, c = exec[e].msg.from
  PROVE  ServesOnly(c)
<1>1. exec[e].at \in Steps \ Removed /\ exec[e].at \notin {"erase", "restored", "first"}
  BY DEF RejectFile, At, Steps, Removed
<1>2. CASE Dismiss(c)
  BY <1>1, <1>2, Dismissing DEF RejectFile
<1>3. CASE Answer(c, client[c].view)
  <2>1. c \in Clients /\ Owned(c) /\ client \in [Clients -> Client]
    BY <1>1, Serving DEF SessionInv, NumberInv, TypeInv, TypeOK
  <2>2. /\ InTable(c) /\ Sess(c).version \in TVersion /\ Sess(c) \in Session
        /\ client[c].tok \in Tokens
    BY <1>1, ServingSession
  <2>3. Sess(c).version # Null /\ session'[client[c].tok] = Sess(c) /\ Sess(c) # Null
    BY <2>2, NullAssumption DEF RejectFile, Sess
  <2>4. client[c].mode = "update" =>
          client[c].view = Promised(Sess(c).version.files) /\ Sess(c).version.id = client[c].base
    BY <2>1, <2>2, <2>3 DEF Owned, DraftInv, Agrees
  <2>5. /\ \A d \in Clients \ {c} : client'[d] = client[d]
        /\ client'[c].mode = client[c].mode /\ client'[c].tok = client[c].tok
        /\ client'[c].base = client[c].base /\ client'[c].view = client[c].view
    BY <1>3, <2>1, AnswerClient
  <2> QED BY <1>1, <2>3, <2>4, <2>5, Answering DEF RejectFile
<1> QED BY <1>2, <1>3 DEF RejectFile

LEMMA StoreContentOwned ==
  ASSUME SessionInv, NEW e \in Executors, StoreContent(e), NEW c, c = exec[e].msg.from
  PROVE  ServesOnly(c)
<1>1. /\ exec[e].at \in Steps \ (Removed \cup {"erase", "restored", "first"})
      /\ exec[e].at \in UpdateSteps /\ "stored" \in Steps
  BY DEF StoreContent, At, Steps, Removed, UpdateSteps
<1>2. /\ c \in Clients /\ Owned(c) /\ HandlerOwns(c, e) /\ ServedBy(c) = {e}
      /\ client[c].mode = "update"
  BY <1>1, Serving DEF HandlerOwns
<1>3. InTable(c) /\ Sess(c).version \in TVersion /\ Base(e) = Sess(c).version
  BY <1>1, ServingSession
<1>4. UNCHANGED <<client, session, sessions, inbox>>
  BY DEF StoreContent
<1>5. exec[e] \in [at : Steps, msg : Message, tok : Tokens \cup {NoToken},
                   ver : TVersion \cup {Null}]
  BY <1>1, BusyFields DEF SessionInv, NumberInv
<1>6. /\ exec'[e].at = "stored" /\ exec'[e].msg = exec[e].msg
      /\ exec'[e].tok = exec[e].tok /\ exec'[e].ver = Base(e)
      /\ \A x \in Executors \ {e} : exec'[x] = exec[x]
  BY <1>5 DEF StoreContent, SessionInv, NumberInv, TypeInv, TypeOK
<1>7. \A d : ServedBy(d)' = ServedBy(d)
  BY <1>1, <1>6, MoveServes DEF SessionInv, NumberInv
<1>8. TokenInv(c)' /\ VersionInv(c)' /\ DraftInv(c)'
  BY <1>2, <1>3, <1>4, <1>7, NullAssumption
     DEF Owned, TokenInv, VersionInv, DraftInv, Sess, InTable, Agrees
<1>9. HandlerOwns(c, e)'
  <2>1. Base(e).id = client[c].base
    BY <1>2, <1>3, NullAssumption DEF Owned, DraftInv, Agrees
  <2>2. "stored" \in UpdateSteps /\ "stored" \notin Removed \cup Committing \cup {"first"}
    BY DEF UpdateSteps, Removed, Committing
  <2>3. InTable(c)' /\ exec[e].tok = client[c].tok
    BY <1>1, <1>3, <1>4, ServingSession DEF InTable
  <2> QED BY <1>2, <1>4, <1>6, <2>1, <2>2, <2>3 DEF HandlerOwns, SessionKind
<1> QED BY <1>1, <1>4, <1>6, <1>8, <1>9, GoingOn

LEMMA ListFileOwned ==
  ASSUME SessionInv, NEW e \in Executors, ListFile(e), NEW c, c = exec[e].msg.from
  PROVE  ServesOnly(c)
<1> DEFINE m == exec[e].msg
           f == NewFile(exec[e].ver.id, m.date)
           v == IF m.kind = "AddFile" THEN AddFile(Base(e), m.path, f)
                                      ELSE UpdateFile(Base(e), m.path, f)
           view == IF m.kind = "AddFile" \/ m.path \in Listed(Base(e))
                     THEN [client[c].view EXCEPT ![m.path] = m.date] ELSE client[c].view
<1>1. /\ exec[e].at \in Steps \ (Removed \cup {"erase", "restored", "first"})
      /\ exec[e].at = "stored" /\ exec[e].at \in UpdateSteps
  BY DEF ListFile, At, Steps, Removed, UpdateSteps
<1>2. /\ c \in Clients /\ Owned(c) /\ HandlerOwns(c, e) /\ client[c].mode = "update"
      /\ client \in [Clients -> Client]
  BY <1>1, Serving DEF HandlerOwns, SessionInv, NumberInv, TypeInv, TypeOK
<1>3. /\ InTable(c) /\ Base(e) = Sess(c).version /\ Base(e) \in TVersion /\ Base(e) # Null
      /\ Sess(c) \in Session
  BY <1>1, ServingSession, NullAssumption
<1>4. m.path \in Paths /\ m.date \in Data /\ exec[e].ver \in TVersion
  BY <1>1, BusyFields, MessageFields
     DEF SessionInv, NumberInv, TypeInv, HandlersReady, Ready
<1>5. f \in Entry /\ f.date = m.date
  BY <1>4, NewFileType DEF TVersion, NewFile
<1>6. client[c].view = Promised(Base(e).files) /\ client[c].base = Base(e).id
  BY <1>2, <1>3 DEF Owned, DraftInv, Agrees
<1>7. Promised(v.files) = view /\ v \in TVersion /\ v.id = Base(e).id
  <2> HIDE DEF f
  <2>1. /\ AddFile(Base(e), m.path, f) \in TVersion
        /\ AddFile(Base(e), m.path, f).id = Base(e).id
        /\ Promised(AddFile(Base(e), m.path, f).files)
             = [client[c].view EXCEPT ![m.path] = m.date]
    <3>1. Promised(AddFile(Base(e), m.path, f).files)
            = [Promised(Base(e).files) EXCEPT ![m.path] = f.date]
      BY <1>3, <1>4, <1>5, PromisedAdd
    <3>2. /\ AddFile(Base(e), m.path, f) \in TVersion
          /\ AddFile(Base(e), m.path, f).id = Base(e).id
      BY <1>3, <1>4, <1>5, ChangeType
    <3> QED BY <1>5, <1>6, <3>1, <3>2
  <2>2. CASE m.kind = "AddFile" \/ m.path \in Listed(Base(e))
    BY <2>1, <2>2 DEF UpdateFile
  <2>3. CASE ~ (m.kind = "AddFile" \/ m.path \in Listed(Base(e)))
    BY <1>3, <1>6, <2>3 DEF UpdateFile
  <2> QED BY <2>2, <2>3
<1>8. SetVersion(e, v) /\ Answer(c, view)
  BY DEF ListFile
<1> HIDE DEF f, v, view
<1>9. /\ session'[client[c].tok].kind = Sess(c).kind /\ session'[client[c].tok].version = v
      /\ session'[client[c].tok] = [Sess(c) EXCEPT !.version = v]
      /\ \A t \in Tokens \ {client[c].tok} : session'[t] = session[t]
  BY <1>1, <1>8, NewVersionOfSession
<1>10. session'[client[c].tok] # Null /\ v # Null
  <2>1. [Sess(c) EXCEPT !.version = v] \in Session
    BY <1>3, <1>7 DEF Session
  <2> QED BY <1>7, <1>9, <2>1, NullAssumption
<1>11. /\ \A d \in Clients \ {c} : client'[d] = client[d]
       /\ client'[c].mode = client[c].mode /\ client'[c].tok = client[c].tok
       /\ client'[c].base = client[c].base /\ client'[c].view = view
  BY <1>2, <1>8, AnswerClient
<1>12. inbox' = inbox /\ sessions' = sessions /\ Finish(e)
  BY DEF ListFile
<1>13. client'[c].view = Promised(v.files) /\ v.id = client[c].base
  BY <1>6, <1>7, <1>11
<1> QED BY <1>1, <1>9, <1>10, <1>11, <1>12, <1>13, Answering

LEMMA RemoveFileOwned ==
  ASSUME SessionInv, NEW e \in Executors, ProcessRemoveFile(e), NEW c, c = exec[e].msg.from
  PROVE  ServesOnly(c)
<1> DEFINE m == exec[e].msg
<1>1. /\ exec[e].at \in Steps \ (Removed \cup {"erase", "restored", "first"})
      /\ exec[e].at = "RemoveFile" /\ exec[e].at \in UpdateSteps
  BY DEF ProcessRemoveFile, At, Steps, Removed, UpdateSteps
<1>2. /\ c \in Clients /\ Owned(c) /\ HandlerOwns(c, e) /\ client[c].mode = "update"
      /\ client \in [Clients -> Client]
  BY <1>1, Serving DEF HandlerOwns, SessionInv, NumberInv, TypeInv, TypeOK
<1>3. /\ InTable(c) /\ Base(e) = Sess(c).version /\ Base(e) \in TVersion /\ Base(e) # Null
      /\ Sess(c) \in Session
  BY <1>1, ServingSession, NullAssumption
<1>4. m.path \in Paths
  BY <1>1, BusyFields, MessageFields
     DEF SessionInv, NumberInv, TypeInv, HandlersReady, Ready
<1>5. client[c].view = Promised(Base(e).files) /\ client[c].base = Base(e).id
  BY <1>2, <1>3 DEF Owned, DraftInv, Agrees
<1>6. PICK v \in TVersion, view \in Contents :
        /\ v.id = Base(e).id /\ view = Promised(v.files) /\ Answer(c, view)
        /\ SetVersion(e, v) \/ (v = Base(e) /\ UNCHANGED session)
  <2>1. CASE SetVersion(e, RemoveFile(Base(e), m.path))
               /\ Answer(c, [client[c].view EXCEPT ![m.path] = NoFile])
    <3>1. RemoveFile(Base(e), m.path) \in TVersion /\ RemoveFile(Base(e), m.path).id = Base(e).id
      BY <1>3, <1>4 DEF RemoveFile, TVersion, FileMap
    <3>2. Promised(RemoveFile(Base(e), m.path).files) = [Promised(Base(e).files) EXCEPT ![m.path] = NoFile]
      BY <1>3, <1>4, PromisedRemove
    <3> QED BY <1>5, <2>1, <3>1, <3>2, PromisedType
  <2>2. CASE Answer(c, client[c].view) /\ UNCHANGED session
    BY <1>3, <1>5, <2>2, PromisedType
  <2> QED BY <2>1, <2>2 DEF ProcessRemoveFile
<1>7. /\ session'[client[c].tok].kind = Sess(c).kind /\ session'[client[c].tok].version = v
      /\ session'[client[c].tok] # Null
      /\ \A t \in Tokens \ {client[c].tok} : session'[t] = session[t]
  <2>1. CASE SetVersion(e, v)
    <3>1. /\ session'[client[c].tok].kind = Sess(c).kind /\ session'[client[c].tok].version = v
          /\ session'[client[c].tok] = [Sess(c) EXCEPT !.version = v]
          /\ \A t \in Tokens \ {client[c].tok} : session'[t] = session[t]
      BY <1>1, <2>1, NewVersionOfSession
    <3>2. [Sess(c) EXCEPT !.version = v] \in Session
      BY <1>3 DEF Session
    <3> QED BY <3>1, <3>2, NullAssumption
  <2>2. CASE v = Base(e) /\ UNCHANGED session
    BY <1>3, <2>2, NullAssumption DEF Sess
  <2> QED BY <1>6, <2>1, <2>2
<1>8. /\ \A d \in Clients \ {c} : client'[d] = client[d]
      /\ client'[c].mode = client[c].mode /\ client'[c].tok = client[c].tok
      /\ client'[c].base = client[c].base /\ client'[c].view = Promised(v.files)
  BY <1>2, <1>6, AnswerClient
<1>9. v # Null /\ v.id = client[c].base
  BY <1>5, <1>6, NullAssumption
<1>10. inbox' = inbox /\ sessions' = sessions /\ Finish(e)
  BY DEF ProcessRemoveFile
<1> QED BY <1>1, <1>7, <1>8, <1>9, <1>10, Answering

\* A thread that only changes its step and its version.
LEMMA MovedThread ==
  ASSUME SessionInv, NEW e \in Executors, exec[e].at \in Steps, NEW at, NEW v,
         exec' = [exec EXCEPT ![e].at = at, ![e].ver = v]
  PROVE  /\ exec'[e].at = at /\ exec'[e].msg = exec[e].msg
         /\ exec'[e].tok = exec[e].tok /\ exec'[e].ver = v
         /\ \A x \in Executors \ {e} : exec'[x] = exec[x]
<1>1. exec[e] \in [at : Steps, msg : Message, tok : Tokens \cup {NoToken},
                   ver : TVersion \cup {Null}]
  BY BusyFields DEF SessionInv, NumberInv
<1> QED BY <1>1 DEF SessionInv, NumberInv, TypeInv, TypeOK

LEMMA SteppedThread ==
  ASSUME SessionInv, NEW e \in Executors, exec[e].at \in Steps, NEW at,
         exec' = [exec EXCEPT ![e].at = at]
  PROVE  /\ exec'[e].at = at /\ exec'[e].msg = exec[e].msg
         /\ exec'[e].tok = exec[e].tok /\ exec'[e].ver = exec[e].ver
         /\ \A x \in Executors \ {e} : exec'[x] = exec[x]
<1>1. exec[e] \in [at : Steps, msg : Message, tok : Tokens \cup {NoToken},
                   ver : TVersion \cup {Null}]
  BY BusyFields DEF SessionInv, NumberInv
<1> QED BY <1>1 DEF SessionInv, NumberInv, TypeInv, TypeOK

\* From here on the version is the handler's: the session has none, and its
\* client is served by this thread.
LEMMA TerminateSessionOwned ==
  ASSUME SessionInv, NEW e \in Executors, TerminateSession(e), NEW c, c = exec[e].msg.from
  PROVE  ServesOnly(c)
<1>1. /\ exec[e].at \in Steps \ (Removed \cup {"erase", "restored", "first"})
      /\ exec[e].at \in UpdateSteps /\ "erase" \in Steps
      /\ "erase" \in UpdateSteps \cap Committing /\ "erase" \notin Removed \cup {"stored", "first"}
  BY DEF TerminateSession, At, Steps, Removed, UpdateSteps, Committing
<1>2. /\ c \in Clients /\ Owned(c) /\ HandlerOwns(c, e) /\ ServedBy(c) = {e}
      /\ client[c].mode = "update" /\ exec[e].tok = client[c].tok
  BY <1>1, Serving DEF HandlerOwns
<1>3. /\ InTable(c) /\ Sess(c).version \in TVersion /\ Base(e) = Sess(c).version
      /\ Sess(c) \in Session /\ Sess(c).kind = client[c].mode
  BY <1>1, ServingSession
<1>4. UNCHANGED <<client, sessions, inbox>> /\ SetVersion(e, Null)
  BY DEF TerminateSession
<1>5. /\ exec'[e].at = "erase" /\ exec'[e].msg = exec[e].msg
      /\ exec'[e].tok = exec[e].tok /\ exec'[e].ver = Base(e)
      /\ \A x \in Executors \ {e} : exec'[x] = exec[x]
  BY <1>1, MovedThread DEF TerminateSession
<1>6. \A d : ServedBy(d)' = ServedBy(d)
  BY <1>1, <1>5, MoveServes DEF SessionInv, NumberInv
<1>7. /\ session'[client[c].tok] = [Sess(c) EXCEPT !.version = Null]
      /\ session'[client[c].tok].kind = Sess(c).kind
      /\ session'[client[c].tok].version = Null
      /\ \A t \in Tokens \ {client[c].tok} : session'[t] = session[t]
  BY <1>1, <1>4, NewVersionOfSession
<1>8. Sess(c)' = [Sess(c) EXCEPT !.version = Null] /\ InTable(c)' /\ Sess(c)' \in Session
  BY <1>3, <1>4, <1>7 DEF Sess, InTable, Session
<1>9. TokenInv(c)' /\ VersionInv(c)' /\ DraftInv(c)'
  BY <1>2, <1>3, <1>4, <1>5, <1>6, <1>7, <1>8, NullAssumption
     DEF Owned, TokenInv, VersionInv, DraftInv, Sess
<1>10. HandlerOwns(c, e)'
  <2>1. Agrees(c, Base(e))
    BY <1>2, <1>3, NullAssumption DEF Owned, DraftInv
  <2> QED BY <1>1, <1>2, <1>4, <1>5, <1>8, <2>1 DEF HandlerOwns, SessionKind, Agrees
<1> QED BY <1>1, <1>4, <1>5, <1>7, <1>9, <1>10, GoingOn

LEMMA EraseSessionOwned ==
  ASSUME SessionInv, NEW e \in Executors, EraseSession(e), NEW c, c = exec[e].msg.from
  PROVE  ServesOnly(c)
<1>1. /\ exec[e].at \in Steps \ (Removed \cup {"first"})
      /\ exec[e].at \in UpdateSteps \cap Committing
      /\ "commit" \in Steps \cap UpdateSteps /\ "commit" \in Committing \cap Removed
      /\ "commit" \notin {"stored", "first"}
  BY DEF EraseSession, At, Steps, Removed, UpdateSteps, Committing
<1>2. /\ c \in Clients /\ Owned(c) /\ HandlerOwns(c, e) /\ ServedBy(c) = {e}
      /\ client[c].mode = "update" /\ exec[e].tok = client[c].tok
      /\ User(exec[e].msg) = UserOf[c] /\ UserOf[c] \in Users
  BY <1>1, Serving DEF HandlerOwns
<1>3. InTable(c) /\ client[c].tok \in Tokens
  BY <1>1, ServingSession
<1>4. /\ UNCHANGED <<client, session, inbox>>
      /\ sessions' = [sessions EXCEPT ![UserOf[c]] = NoToken]
  BY <1>2 DEF EraseSession, RemoveSession
<1>5. /\ exec'[e].at = "commit" /\ exec'[e].msg = exec[e].msg
      /\ exec'[e].tok = exec[e].tok /\ exec'[e].ver = exec[e].ver
      /\ \A x \in Executors \ {e} : exec'[x] = exec[x]
  BY <1>1, SteppedThread DEF EraseSession
<1>6. \A d : ServedBy(d)' = ServedBy(d)
  BY <1>1, <1>5, MoveServes DEF SessionInv, NumberInv
<1>7. ~ InTable(c)'
  BY <1>2, <1>3, <1>4, SentinelAssumption
     DEF InTable, SessionInv, NumberInv, TypeInv, TypeOK
<1>8. VersionInv(c)' /\ DraftInv(c)'
  BY <1>7 DEF VersionInv, DraftInv
<1>9. TokenInv(c)'
  <2>1. client' = client /\ Sess(c)' = Sess(c)
    BY <1>4 DEF Sess
  <2>2. e \in ServedBy(c)' /\ exec'[e].at \in Removed
    BY <1>1, <1>2, <1>5, <1>6
  <2>3. TokenInv(c)
    BY <1>2 DEF Owned
  <2> QED BY <2>1, <2>2, <2>3 DEF TokenInv
<1>10. HandlerOwns(c, e)'
  BY <1>1, <1>2, <1>4, <1>5 DEF HandlerOwns, SessionKind, Agrees
<1> QED BY <1>1, <1>3, <1>4, <1>5, <1>8, <1>9, <1>10, GoingOn

LEMMA FailToInsertOwned ==
  ASSUME SessionInv, NEW e \in Executors, FailToInsert(e), NEW c, c = exec[e].msg.from
  PROVE  ServesOnly(c)
<1>1. /\ exec[e].at \in Steps /\ exec[e].at \in UpdateSteps \cap Committing
      /\ exec[e].at \in Removed /\ exec[e].at # "first"
      /\ "cleanup" \in Steps \cap UpdateSteps /\ "cleanup" \in Committing \cap Removed
      /\ "cleanup" \notin {"stored", "first", "erase", "restored"}
  BY DEF FailToInsert, At, Steps, Removed, UpdateSteps, Committing
<1>2. /\ c \in Clients /\ Owned(c) /\ HandlerOwns(c, e) /\ ServedBy(c) = {e}
      /\ client[c].mode = "update" /\ exec[e].tok = client[c].tok
  BY <1>1, Serving DEF HandlerOwns
<1>3. UNCHANGED <<client, session, sessions, inbox>>
  BY DEF FailToInsert
<1>4. /\ exec'[e].at = "cleanup" /\ exec'[e].msg = exec[e].msg
      /\ exec'[e].tok = exec[e].tok /\ exec'[e].ver = exec[e].ver
      /\ \A x \in Executors \ {e} : exec'[x] = exec[x]
  BY <1>1, SteppedThread DEF FailToInsert
<1>5. \A d : ServedBy(d)' = ServedBy(d)
  BY <1>1, <1>4, MoveServes DEF SessionInv, NumberInv
<1>6. TokenInv(c)' /\ DraftInv(c)'
  BY <1>1, <1>2, <1>3, <1>4, <1>5 DEF Owned, TokenInv, DraftInv, Sess, InTable, Agrees
<1>7. VersionInv(c)'
  <2>1. exec[e].at \notin {"erase", "restored"}
    BY DEF FailToInsert, At
  <2> QED BY <1>2, <1>3, <2>1 DEF Owned, VersionInv, Sess, InTable
<1>8. HandlerOwns(c, e)'
  BY <1>1, <1>2, <1>3, <1>4 DEF HandlerOwns, SessionKind, Agrees
<1> QED BY <1>1, <1>3, <1>4, <1>6, <1>7, <1>8, GoingOn

\* The end of processUpdateStop, one way or the other.
LEMMA CommitEndsOwned ==
  ASSUME SessionInv, NEW e \in Executors,
         RefuseVersion(e) \/ InsertNewVersion(e) \/ CleanUp(e),
         NEW c, c = exec[e].msg.from
  PROVE  ServesOnly(c)
<1>1. exec[e].at \in Steps
  BY DEF RefuseVersion, InsertNewVersion, CleanUp, At, Steps
<1> QED BY <1>1, Dismissing DEF RefuseVersion, InsertNewVersion, CleanUp

------------------------------------------------------------------------------
(* The look-up of a session, and the opening of one.                       *)

\* A client whose request is taken finds its own session, or none.
LEMMA OwnSession ==
  ASSUME SessionInv, NEW c \in Clients, client[c].mode # "out",
         ServedBy(c) = {} \/ \E e \in Executors : ServedBy(c) = {e} /\ exec[e].at \notin Removed,
         sessions[UserOf[c]] # NoToken
  PROVE  InTable(c)
<1>1. Owned(c)
  BY DEF SessionInv
<1> QED BY <1>1 DEF Owned, TokenInv

LEMMA FindSessionOwned ==
  ASSUME SessionInv, NEW e \in Executors, NEW m \in inbox, FindSession(e, m),
         NEW c, c = m.from
  PROVE  ServesOnly(c)
<1>1. /\ m.kind \in {"AddFile", "UpdateFile", "RemoveFile", "UpdateStop", "RestoreFileAck"}
      /\ Take(e, m) /\ m.kind # "Ping" /\ exec[e] = Idle
      /\ UNCHANGED <<sessions, session>>
  BY DEF FindSession, Take
<1>2. /\ m \in Message /\ c \in Clients /\ User(m) = UserOf[c] /\ UserOf[c] \in Users
      /\ Owned(c) /\ client[c].busy /\ client[c].mode = SentIn(m)
      /\ Queue(c) = {m} /\ ServedBy(c) = {}
      /\ Queue(c)' = {} /\ \A d \in Clients \ {c} : Queue(d)' = Queue(d)
  BY <1>1, Taking
<1>3. CASE HasSession(m) /\ Goto(e, m.kind, m, sessions[User(m)], Null) /\ UNCHANGED client
  <2>1. m.kind \in Steps
    BY <1>1 DEF Steps
  <2>2. /\ ServedBy(c)' = {e}
        /\ \A d \in Clients \ {c} : ServedBy(d)' = ServedBy(d)
        /\ exec'[e] = [at |-> m.kind, msg |-> m, tok |-> sessions[User(m)], ver |-> Null]
        /\ \A x \in Executors \ {e} : exec'[x] = exec[x]
    BY <1>1, <1>2, <1>3, <2>1, GotoServes DEF SessionInv, NumberInv
  <2>3. client[c].mode = SessionKind(m) /\ client[c].mode # "out"
    BY <1>1, <1>2 DEF SentIn, SessionKind
  <2>4. InTable(c)
    BY <1>2, <1>3, <2>3, OwnSession DEF HasSession
  <2>5. OnlyFor(c)
    <3>1. \A d \in Clients \ {c} : e \notin ServedBy(d)
      BY <1>1 DEF ServedBy, Idle, Steps
    <3> QED BY <1>1, <1>2, <1>3, <2>2, <3>1 DEF OnlyFor, ServedBy
  <2>6. HandlerOwns(c, e)'
    <3>1. m.kind \notin Removed \cup Committing \cup {"stored", "first"}
      BY <1>1 DEF Removed, Committing
    <3>2. client[c].mode = IF m.kind \in UpdateSteps THEN "update" ELSE "restore"
      BY <1>1, <2>3 DEF SessionKind, UpdateSteps, Committing
    <3>3. sessions[User(m)] = client[c].tok /\ InTable(c)'
      BY <1>1, <1>2, <1>3, <2>4 DEF InTable
    <3> QED BY <1>3, <2>2, <2>3, <3>1, <3>2, <3>3 DEF HandlerOwns, SessionKind
  <2>7. TokenInv(c)' /\ VersionInv(c)' /\ DraftInv(c)'
    BY <1>1, <1>2, <1>3, <2>4
       DEF Owned, TokenInv, VersionInv, DraftInv, InTable, Sess, Agrees
  <2>8. OneRequest(c)' /\ QueueFits(c)'
    BY <1>2, <1>3, <2>2 DEF OneRequest, QueueFits
  <2> QED BY <1>3, <2>2, <2>5, <2>6, <2>7, <2>8 DEF ServesOnly, TokenStep, Owned
<1>4. CASE Dismiss(c) /\ UNCHANGED exec
  <2>1. \A d : ServedBy(d)' = ServedBy(d)
    BY <1>4 DEF ServedBy
  <2>2. client'[c] = LoggedOut /\ \A d \in Clients \ {c} : client'[d] = client[d]
    BY <1>2, <1>4, DismissClient DEF SessionInv, NumberInv, TypeInv, TypeOK
  <2>3. OnlyFor(c)
    BY <1>1, <1>2, <1>4, <2>1, <2>2 DEF OnlyFor
  <2> QED BY <1>2, <2>1, <2>2, <2>3, OutIsOwned DEF ServesOnly
<1> QED BY <1>3, <1>4 DEF FindSession

\* newSession enters a session for a client that has none.
LEMMA OpeningSession ==
  ASSUME SessionInv, NEW c \in Clients, NEW kind \in {"update", "restore"},
         NEW v \in TVersion, NEW t \in Tokens, NEW first \in Paths \cup {NoPath},
         NewSession(UserOf[c], kind, v, t, first),
         client'[c].mode = kind, client'[c].tok = t
  PROVE  /\ InTable(c)' /\ TokenInv(c)' /\ VersionInv(c)' /\ TokenStep(c)
         /\ Sess(c)'.version = v
         /\ \A x \in Tokens : session[x] # Null => session'[x] = session[x]
         /\ \A u \in Users : \/ sessions'[u] = sessions[u]
                             \/ /\ u = UserOf[c] /\ sessions[u] = NoToken
                                /\ sessions'[u] \in Tokens /\ session[sessions'[u]] = Null
<1>1. UserOf[c] \in Users
  BY UserAssumption
<1>2. /\ \A x \in Tokens : session[x] # Null => session'[x] = session[x]
      /\ session'[t] \in Session /\ session'[t].version = v
  BY <1>1, NewSessionType DEF SessionInv, NumberInv, TypeInv
<1>3. session'[t].kind = kind
  BY DEF NewSession, SessionInv, NumberInv, TypeInv, TypeOK
<1>4. /\ sessions[UserOf[c]] = NoToken /\ session[t] = Null
      /\ sessions'[UserOf[c]] = t
      /\ \A u \in Users : u # UserOf[c] => sessions'[u] = sessions[u]
  BY <1>1 DEF NewSession, SessionInv, NumberInv, TypeInv, TypeOK
<1>5. InTable(c)' /\ Sess(c)' = session'[t] /\ kind # "out" /\ t # NoToken
  BY <1>4, SentinelAssumption DEF InTable, Sess
<1>6. v # Null /\ Sess(c)' # Null
  BY <1>2, <1>5, NullAssumption
<1>7. TokenInv(c)' /\ VersionInv(c)' /\ TokenStep(c)
  BY <1>2, <1>3, <1>4, <1>5, <1>6 DEF TokenInv, VersionInv, TokenStep
<1> QED BY <1>2, <1>4, <1>5, <1>7

LEMMA UpdateStartOwned ==
  ASSUME SessionInv, NEW e \in Executors, NEW m \in inbox, ProcessUpdateStart(e, m),
         NEW c, c = m.from
  PROVE  ServesOnly(c)
<1>1. m.kind = "UpdateStart" /\ Take(e, m) /\ UNCHANGED exec
  BY DEF ProcessUpdateStart
<1>2. /\ m \in Message /\ c \in Clients /\ User(m) = UserOf[c] /\ UserOf[c] \in Users
      /\ ServedBy(c) = {} /\ Queue(c)' = {}
      /\ \A d \in Clients \ {c} : Queue(d)' = Queue(d)
  BY <1>1, Taking
<1>3. \A d : ServedBy(d)' = ServedBy(d)
  BY <1>1 DEF ServedBy
<1>4. CASE \E t \in Tokens :
             LET v == InitialVersion(User(m), NO_VERSION, NoPath)
             IN /\ NewSession(User(m), "update", v, t, NoPath)
                /\ client' = [client EXCEPT ![m.from] =
                     [LoggedOut EXCEPT !.mode = "update", !.tok = t,
                                       !.view = Promised(v.files),
                                       !.base = v.id]]
  <2> DEFINE v == InitialVersion(User(m), NO_VERSION, NoPath)
  <2>1. v \in TVersion
    BY <1>2, InitialVersionType DEF SessionInv, NumberInv, TypeInv
  <2> HIDE DEF v
  <2>2. PICK t \in Tokens :
          /\ NewSession(UserOf[c], "update", v, t, NoPath)
          /\ client' = [client EXCEPT ![c] =
               [LoggedOut EXCEPT !.mode = "update", !.tok = t,
                                 !.view = Promised(v.files), !.base = v.id]]
    BY <1>2, <1>4 DEF v
  <2>3. /\ client'[c].mode = "update" /\ client'[c].tok = t
        /\ client'[c].view = Promised(v.files) /\ client'[c].base = v.id
        /\ \A d \in Clients \ {c} : client'[d] = client[d]
    BY <1>2, <2>2 DEF LoggedOut, SessionInv, NumberInv, TypeInv, TypeOK
  <2>4. /\ TokenInv(c)' /\ VersionInv(c)' /\ TokenStep(c) /\ Sess(c)'.version = v
        /\ \A x \in Tokens : session[x] # Null => session'[x] = session[x]
        /\ \A u \in Users : \/ sessions'[u] = sessions[u]
                            \/ /\ u = UserOf[c] /\ sessions[u] = NoToken
                               /\ sessions'[u] \in Tokens /\ session[sessions'[u]] = Null
    BY <1>2, <2>1, <2>2, <2>3, OpeningSession
  <2>5. DraftInv(c)'
    BY <2>3, <2>4 DEF DraftInv, Agrees
  <2>6. OneRequest(c)' /\ QueueFits(c)' /\ \A x \in ServedBy(c)' : HandlerOwns(c, x)'
    BY <1>2, <1>3 DEF OneRequest, QueueFits
  <2>7. OnlyFor(c)
    BY <1>1, <1>2, <1>3, <2>3, <2>4 DEF OnlyFor
  <2> QED BY <2>4, <2>5, <2>6, <2>7 DEF ServesOnly, Owned
<1>5. CASE Dismiss(c) /\ UNCHANGED <<sessions, session>>
  <2>1. client'[c] = LoggedOut /\ \A d \in Clients \ {c} : client'[d] = client[d]
    BY <1>2, <1>5, DismissClient DEF SessionInv, NumberInv, TypeInv, TypeOK
  <2>2. OnlyFor(c)
    BY <1>1, <1>2, <1>3, <1>5, <2>1 DEF OnlyFor
  <2> QED BY <1>2, <1>3, <2>1, <2>2, OutIsOwned DEF ServesOnly
<1> QED BY <1>4, <1>5 DEF ProcessUpdateStart

LEMMA RestoreVersionOwned ==
  ASSUME SessionInv, NEW e \in Executors, NEW m \in inbox, ProcessRestoreVersion(e, m),
         NEW c, c = m.from
  PROVE  ServesOnly(c)
<1>1. m.kind = "RestoreVersion" /\ Take(e, m) /\ exec[e] = Idle
  BY DEF ProcessRestoreVersion, Take
<1>2. /\ m \in Message /\ c \in Clients /\ User(m) = UserOf[c] /\ UserOf[c] \in Users
      /\ ServedBy(c) = {} /\ Queue(c)' = {}
      /\ \A d \in Clients \ {c} : Queue(d)' = Queue(d)
  BY <1>1, Taking
<1> DEFINE v == InitialVersion(User(m), m.ver, m.file)
<1>3. CASE \E t \in Tokens :
             /\ \E first \in Cursor(Listed(v)) :
                  NewSession(User(m), "restore", v, t, first)
             /\ client' = [client EXCEPT ![m.from] =
                  [LoggedOut EXCEPT !.mode = "restore", !.tok = t, !.busy = TRUE]]
             /\ Goto(e, "first", m, NoToken, Null)
  <2>1. v \in TVersion
    BY <1>2, InitialVersionType DEF SessionInv, NumberInv, TypeInv
  <2> HIDE DEF v
  <2>2. PICK t \in Tokens, first \in Cursor(Listed(v)) :
          /\ NewSession(UserOf[c], "restore", v, t, first)
          /\ client' = [client EXCEPT ![c] =
               [LoggedOut EXCEPT !.mode = "restore", !.tok = t, !.busy = TRUE]]
          /\ Goto(e, "first", m, NoToken, Null)
    BY <1>2, <1>3
  <2>3. /\ client'[c].mode = "restore" /\ client'[c].tok = t /\ client'[c].busy
        /\ \A d \in Clients \ {c} : client'[d] = client[d]
    BY <1>2, <2>2 DEF LoggedOut, SessionInv, NumberInv, TypeInv, TypeOK
  <2>4. first \in Paths \cup {NoPath}
    BY DEF Cursor, Listed
  <2>5. /\ InTable(c)' /\ TokenInv(c)' /\ VersionInv(c)' /\ TokenStep(c)
        /\ \A x \in Tokens : session[x] # Null => session'[x] = session[x]
        /\ \A u \in Users : \/ sessions'[u] = sessions[u]
                            \/ /\ u = UserOf[c] /\ sessions[u] = NoToken
                               /\ sessions'[u] \in Tokens /\ session[sessions'[u]] = Null
    BY <1>2, <2>1, <2>2, <2>3, <2>4, OpeningSession
  <2>6. /\ ServedBy(c)' = {e}
        /\ \A d \in Clients \ {c} : ServedBy(d)' = ServedBy(d)
        /\ exec'[e] = [at |-> "first", msg |-> m, tok |-> NoToken, ver |-> Null]
        /\ \A x \in Executors \ {e} : exec'[x] = exec[x]
    BY <1>1, <1>2, <2>2, GotoServes DEF SessionInv, NumberInv, Steps
  <2>7. \A d \in Clients \ {c} : e \notin ServedBy(d)
    BY <1>1 DEF ServedBy, Idle, Steps
  <2>8. OnlyFor(c)
    <3>1. \A d \in Clients \ {c} : \A x \in ServedBy(d) : exec'[x] = exec[x]
      BY <2>6, <2>7 DEF ServedBy
    <3> QED BY <1>2, <2>3, <2>5, <2>6, <3>1 DEF OnlyFor
  <2>9. OneRequest(c)' /\ QueueFits(c)' /\ DraftInv(c)'
    BY <1>2, <2>3, <2>6 DEF OneRequest, QueueFits, DraftInv
  <2>10. HandlerOwns(c, e)'
    BY <1>1, <2>3, <2>5, <2>6 DEF HandlerOwns, SessionKind, UpdateSteps, Committing, Removed
  <2> QED BY <2>5, <2>6, <2>8, <2>9, <2>10 DEF ServesOnly, Owned
<1>4. CASE Dismiss(c) /\ UNCHANGED <<sessions, session, exec>>
  <2>1. client'[c] = LoggedOut /\ \A d \in Clients \ {c} : client'[d] = client[d]
    BY <1>2, <1>4, DismissClient DEF SessionInv, NumberInv, TypeInv, TypeOK
  <2>2. \A d : ServedBy(d)' = ServedBy(d)
    BY <1>4 DEF ServedBy
  <2>3. OnlyFor(c)
    BY <1>2, <1>4, <2>1, <2>2 DEF OnlyFor
  <2> QED BY <1>2, <2>1, <2>2, <2>3, OutIsOwned DEF ServesOnly
<1> QED BY <1>3, <1>4 DEF ProcessRestoreVersion

------------------------------------------------------------------------------
(* The handlers of a restore.                                              *)

LEMMA FindFirstOwned ==
  ASSUME SessionInv, NEW e \in Executors, FindFirst(e), NEW c, c = exec[e].msg.from
  PROVE  ServesOnly(c)
<1> DEFINE m == exec[e].msg
<1>1. /\ exec[e].at = "first" /\ exec[e].at \in Steps \ Removed
      /\ exec[e].at \notin UpdateSteps /\ "send" \in Steps
      /\ "send" \notin Removed \cup Committing \cup UpdateSteps \cup {"stored", "first"}
  BY DEF FindFirst, At, Steps, Removed, UpdateSteps, Committing
<1>2. /\ c \in Clients /\ Owned(c) /\ HandlerOwns(c, e) /\ ServedBy(c) = {e}
      /\ User(m) = UserOf[c] /\ client[c].mode = "restore" /\ SessionKind(m) = "restore"
  BY <1>1, Serving DEF HandlerOwns
<1>3. InTable(c) /\ Sess(c).version # Null /\ sessions[UserOf[c]] = client[c].tok
  BY <1>1, ServingSession, NullAssumption
<1>4. UNCHANGED <<session, sessions, inbox>>
  BY DEF FindFirst
<1>5. CASE Goto(e, "send", m, sessions[User(m)], Null) /\ UNCHANGED client
  <2>1. /\ exec'[e] = [at |-> "send", msg |-> m, tok |-> client[c].tok, ver |-> Null]
        /\ \A x \in Executors \ {e} : exec'[x] = exec[x]
    BY <1>2, <1>3, <1>5 DEF Goto, SessionInv, NumberInv, TypeInv, TypeOK
  <2>2. /\ exec'[e].at = "send" /\ exec'[e].msg = m /\ exec'[e].tok = client[c].tok
    BY <2>1
  <2>3. TokenInv(c)' /\ VersionInv(c)' /\ DraftInv(c)'
    BY <1>2, <1>3, <1>4, <1>5 DEF Owned, TokenInv, VersionInv, DraftInv, Sess, InTable, Agrees
  <2>4. HandlerOwns(c, e)'
    <3>1. InTable(c)'
      BY <1>3, <1>4, <1>5 DEF InTable
    <3> QED BY <1>1, <1>2, <1>5, <2>2, <3>1 DEF HandlerOwns, SessionKind
  <2> QED BY <1>1, <1>4, <1>5, <2>1, <2>2, <2>3, <2>4, GoingOn
<1>6. CASE Dismiss(c) /\ Finish(e)
  BY <1>1, <1>4, <1>6, Dismissing
<1> QED BY <1>5, <1>6 DEF FindFirst

\* What a step of a restore does to its session: the cursor moves, and past the
\* last file the version is taken out.
Moved(e, todo, p, v) ==
  LET t == exec[e].tok IN
  /\ session'[t].kind = session[t].kind /\ session'[t].version = v
  /\ session'[t].todo = todo /\ session'[t].cur = p
  /\ session'[t].idle = session[t].idle
  /\ session'[t] # Null
  /\ \A x \in Tokens \ {t} : session'[x] = session[x]

LEMMA CursorMoves ==
  ASSUME SessionInv, NEW e \in Executors, NEW t \in Tokens, t = exec[e].tok,
         session[t] \in Session,
         NEW todo \in SUBSET Paths, NEW p \in Paths \cup {NoPath},
         NEW v \in {session[t].version, Null},
         \/ /\ v = session[t].version
            /\ session' = [session EXCEPT ![t].todo = todo, ![t].cur = p]
         \/ /\ v = Null
            /\ session' = [session EXCEPT ![t].todo = todo, ![t].cur = p, ![t].version = Null]
  PROVE  Moved(e, todo, p, v)
<1> DEFINE s == [session[t] EXCEPT !.todo = todo, !.cur = p, !.version = v]
<1>1. /\ s \in Session /\ s.kind = session[t].kind /\ s.version = v
      /\ s.todo = todo /\ s.cur = p /\ s.idle = session[t].idle
  BY DEF Session
<1>2. session' = [session EXCEPT ![t] = s]
  <2>1. CASE /\ v = session[t].version
             /\ session' = [session EXCEPT ![t].todo = todo, ![t].cur = p]
    <3>1. [session[t] EXCEPT !.todo = todo, !.cur = p] = s
      BY <2>1 DEF Session
    <3>2. session' = [session EXCEPT ![t] = [session[t] EXCEPT !.todo = todo, !.cur = p]]
      BY <2>1 DEF SessionInv, NumberInv, TypeInv, TypeOK
    <3> QED BY <3>1, <3>2
  <2>2. CASE /\ v = Null
             /\ session' = [session EXCEPT ![t].todo = todo, ![t].cur = p, ![t].version = Null]
    BY <2>2 DEF SessionInv, NumberInv, TypeInv, TypeOK
  <2> QED BY <2>1, <2>2
<1> HIDE DEF s
<1>3. session'[t] = s /\ \A x \in Tokens \ {t} : session'[x] = session[x]
  BY <1>2 DEF SessionInv, NumberInv, TypeInv, TypeOK
<1> QED BY <1>1, <1>3, NullAssumption DEF Moved

\* The outcomes of processRestoreVersion's second half and of
\* processRestoreFileAck.
RestoreStep(e, todo, p) ==
  LET t == exec[e].tok
      m == exec[e].msg IN
  /\ todo = IF MovesOn(e) THEN Advance(t) ELSE session[t].todo
  /\ p \in IF MovesOn(e) THEN Cursor(todo) ELSE {session[t].cur}
  /\ \/ /\ p # NoPath /\ Moved(e, todo, p, Base(e)) /\ Finish(e)
        /\ OfferFile(User(m), t, m.from, p) \/ UNCHANGED client
     \/ /\ p = NoPath /\ Moved(e, todo, p, Null)
        /\ exec' = [exec EXCEPT ![e].at = "restored", ![e].ver = Base(e)]
        /\ UNCHANGED client

LEMMA SendFileSteps ==
  ASSUME SessionInv, NEW e \in Executors, SendFile(e)
  PROVE  \E todo \in SUBSET Paths, p \in Paths \cup {NoPath} : RestoreStep(e, todo, p)
<1> DEFINE t == exec[e].tok
           m == exec[e].msg
           todo == IF MovesOn(e) THEN Advance(t) ELSE session[t].todo
<1>1. exec[e].at \in Steps \ {"first"}
  BY DEF SendFile, At, Steps
<1>2. t \in Tokens /\ session[t] \in Session /\ Base(e) \in TVersion
  BY <1>1, HeldSession DEF SendFile, HasVersion, SessionInv, NumberInv
<1>3. todo \in SUBSET Paths
  BY <1>2 DEF Advance, Listed, Session
<1>8. todo = IF MovesOn(e) THEN Advance(t) ELSE session[t].todo
  OBVIOUS
<1> HIDE DEF todo
<1>4. PICK p \in (IF MovesOn(e) THEN Cursor(todo) ELSE {session[t].cur}) :
        \/ /\ session' = [session EXCEPT ![t].todo = todo, ![t].cur = p]
           /\ p # NoPath /\ Finish(e)
           /\ OfferFile(User(m), t, m.from, p) \/ UNCHANGED client
        \/ /\ session' = [session EXCEPT ![t].todo = todo, ![t].cur = p,
                                         ![t].version = Null]
           /\ p = NoPath
           /\ exec' = [exec EXCEPT ![e].at = "restored", ![e].ver = Base(e)]
           /\ UNCHANGED client
  BY DEF SendFile, todo
<1>5. p \in Paths \cup {NoPath}
  BY <1>2, <1>3 DEF Cursor, Session
<1>6. CASE /\ session' = [session EXCEPT ![t].todo = todo, ![t].cur = p]
           /\ p # NoPath /\ Finish(e)
           /\ OfferFile(User(m), t, m.from, p) \/ UNCHANGED client
  <2>1. Moved(e, todo, p, Base(e))
    BY <1>2, <1>3, <1>5, <1>6, CursorMoves DEF Base
  <2>2. RestoreStep(e, todo, p)
    BY <1>4, <1>6, <1>8, <2>1 DEF RestoreStep
  <2> QED BY <1>3, <1>5, <2>2
<1>7. CASE /\ session' = [session EXCEPT ![t].todo = todo, ![t].cur = p,
                                         ![t].version = Null]
           /\ p = NoPath
           /\ exec' = [exec EXCEPT ![e].at = "restored", ![e].ver = Base(e)]
           /\ UNCHANGED client
  <2>1. Moved(e, todo, p, Null)
    BY <1>2, <1>3, <1>5, <1>7, CursorMoves
  <2>2. RestoreStep(e, todo, p)
    BY <1>4, <1>7, <1>8, <2>1 DEF RestoreStep
  <2> QED BY <1>3, <1>5, <2>2
<1> QED BY <1>4, <1>6, <1>7

LEMMA SendFileOwned ==
  ASSUME SessionInv, NEW e \in Executors, SendFile(e), NEW c, c = exec[e].msg.from
  PROVE  ServesOnly(c)
<1>1. /\ exec[e].at \in Steps \ (Removed \cup {"erase", "restored", "first"})
      /\ exec[e].at \notin UpdateSteps /\ "restored" \in Steps
      /\ "restored" \notin Removed \cup Committing \cup UpdateSteps \cup {"stored", "first"}
  BY DEF SendFile, At, Steps, Removed, UpdateSteps, Committing
<1>2. /\ c \in Clients /\ Owned(c) /\ HandlerOwns(c, e) /\ ServedBy(c) = {e}
      /\ client[c].mode = "restore" /\ client \in [Clients -> Client]
  BY <1>1, Serving DEF HandlerOwns, SessionInv, NumberInv, TypeInv, TypeOK
<1>3. /\ InTable(c) /\ exec[e].tok = client[c].tok /\ Base(e) # Null
      /\ Sess(c).kind = "restore"
  BY <1>1, <1>2, ServingSession, NullAssumption
<1>4. UNCHANGED <<sessions, inbox>>
  BY DEF SendFile
<1>5. PICK todo \in SUBSET Paths, p \in Paths \cup {NoPath} :
        \/ /\ p # NoPath /\ Moved(e, todo, p, Base(e)) /\ Finish(e)
           /\ OfferFile(UserOf[c], exec[e].tok, c, p) \/ UNCHANGED client
        \/ /\ p = NoPath /\ Moved(e, todo, p, Null)
           /\ exec' = [exec EXCEPT ![e].at = "restored", ![e].ver = Base(e)]
           /\ UNCHANGED client
  BY SendFileSteps, Serving, <1>1 DEF RestoreStep
<1>6. CASE /\ Moved(e, todo, p, Base(e)) /\ Finish(e)
           /\ OfferFile(UserOf[c], exec[e].tok, c, p) \/ UNCHANGED client
  <2>1. /\ session'[client[c].tok].kind = Sess(c).kind
        /\ session'[client[c].tok].version = Base(e)
        /\ session'[client[c].tok] # Null
        /\ \A t \in Tokens \ {client[c].tok} : session'[t] = session[t]
    BY <1>3, <1>6 DEF Moved, Sess
  <2>2. /\ \A d \in Clients \ {c} : client'[d] = client[d]
        /\ client'[c].mode = client[c].mode /\ client'[c].tok = client[c].tok
        /\ client'[c].base = client[c].base
    BY <1>2, <1>6 DEF OfferFile, Client
  <2>3. client[c].mode # "update"
    BY <1>2
  <2> QED BY <1>1, <1>3, <1>4, <1>6, <2>1, <2>2, <2>3, Answering
<1>7. CASE /\ Moved(e, todo, p, Null) /\ UNCHANGED client
           /\ exec' = [exec EXCEPT ![e].at = "restored", ![e].ver = Base(e)]
  <2>1. /\ exec'[e].at = "restored" /\ exec'[e].msg = exec[e].msg
        /\ exec'[e].tok = exec[e].tok
        /\ \A x \in Executors \ {e} : exec'[x] = exec[x]
    BY <1>1, <1>7, MovedThread
  <2>2. /\ Sess(c)'.kind = "restore" /\ Sess(c)' # Null /\ InTable(c)'
        /\ \A t \in Tokens \ {client[c].tok} : session'[t] = session[t]
    BY <1>3, <1>4, <1>7 DEF Moved, Sess, InTable
  <2>3. \A d : ServedBy(d)' = ServedBy(d)
    BY <1>1, <2>1, MoveServes DEF SessionInv, NumberInv
  <2>4. TokenInv(c)' /\ VersionInv(c)' /\ DraftInv(c)'
    <3>1. TokenInv(c)' /\ DraftInv(c)'
      BY <1>2, <1>7, <2>2 DEF Owned, TokenInv, DraftInv
    <3>2. VersionInv(c)'
      BY <1>2, <2>1, <2>3 DEF VersionInv
    <3> QED BY <3>1, <3>2
  <2>5. HandlerOwns(c, e)'
    BY <1>1, <1>2, <1>3, <1>7, <2>1, <2>2 DEF HandlerOwns, SessionKind
  <2> QED BY <1>1, <1>4, <1>7, <2>1, <2>2, <2>4, <2>5, GoingOn
<1> QED BY <1>5, <1>6, <1>7

LEMMA StopRestoreOwned ==
  ASSUME SessionInv, NEW e \in Executors, StopRestore(e), NEW c, c = exec[e].msg.from
  PROVE  ServesOnly(c)
<1>1. exec[e].at \in Steps \ Removed
  BY DEF StopRestore, At, Steps, Removed
<1>2. User(exec[e].msg) = UserOf[c] /\ InTable(c)
  BY <1>1, Serving, ServingSession
<1> QED BY <1>1, <1>2, Dismissing DEF StopRestore, RemoveSession

------------------------------------------------------------------------------
(* The clients, the pings and the restart.                                 *)

\* Nothing of what the sessions are made of changes.
LEMMA SameOwned ==
  ASSUME SessionInv, UNCHANGED <<client, sessions, session, exec>>,
         \A d \in Clients : Queue(d)' = Queue(d)
  PROVE  (\A d \in Clients : Owned(d)') /\ Distinct'
<1>1. ASSUME NEW d \in Clients PROVE Owned(d)'
  <2>1. Owned(d) /\ Queue(d)' = Queue(d) /\ ServedBy(d)' = ServedBy(d)
    BY DEF SessionInv, ServedBy
  <2>2. OneRequest(d)' /\ QueueFits(d)'
    BY <2>1 DEF Owned, OneRequest, QueueFits, Queue
  <2>3. TokenInv(d)' /\ VersionInv(d)' /\ DraftInv(d)'
    BY <2>1 DEF Owned, TokenInv, VersionInv, DraftInv, InTable, Sess, Agrees
  <2>4. \A e \in ServedBy(d)' : HandlerOwns(d, e)'
    BY <2>1 DEF Owned, HandlerOwns, InTable, Agrees
  <2> QED BY <2>2, <2>3, <2>4 DEF Owned
<1>2. Distinct'
  BY DEF SessionInv, Distinct
<1> QED BY <1>1, <1>2

\* A client that waits for nothing sends a request its session allows.
LEMMA SendingOwned ==
  ASSUME SessionInv, NEW c \in Clients, ~ client[c].busy,
         NEW m \in Message, m.from = c, m.kind # "Ping", client[c].mode = SentIn(m),
         inbox' = inbox \cup {m}, UNCHANGED <<sessions, session, exec>>,
         \A d \in Clients \ {c} : client'[d] = client[d],
         client'[c].mode = client[c].mode, client'[c].tok = client[c].tok,
         client'[c].busy,
         client[c].mode = "update" =>
           client'[c].view = client[c].view /\ client'[c].base = client[c].base
  PROVE  ServesOnly(c)
<1>1. Owned(c) /\ Queue(c) = {} /\ ServedBy(c) = {}
  BY DEF SessionInv, Owned, OneRequest
<1>2. /\ Queue(c)' = {m} /\ \A d \in Clients \ {c} : Queue(d)' = Queue(d)
      /\ \A d : ServedBy(d)' = ServedBy(d)
  BY <1>1 DEF Queue, ServedBy
<1>3. OneRequest(c)' /\ QueueFits(c)'
  BY <1>1, <1>2 DEF OneRequest, QueueFits
<1>4. TokenInv(c)' /\ VersionInv(c)'
  BY <1>1, <1>2 DEF Owned, TokenInv, VersionInv, InTable, Sess
<1>5. DraftInv(c)'
  BY <1>1 DEF Owned, DraftInv, InTable, Sess, Agrees
<1>6. OnlyFor(c)
  BY <1>2 DEF OnlyFor
<1> QED BY <1>1, <1>2, <1>3, <1>4, <1>5, <1>6 DEF ServesOnly, Owned, TokenStep

LEMMA SendOwned ==
  ASSUME SessionInv, NEW c \in Clients, NEW m \in Message, Send(c, m), m.from = c,
         m.kind # "Ping", client[c].mode = SentIn(m)
  PROVE  ServesOnly(c)
<1>1. /\ \A d \in Clients \ {c} : client'[d] = client[d]
      /\ client'[c].mode = client[c].mode /\ client'[c].tok = client[c].tok
      /\ client'[c].view = client[c].view /\ client'[c].base = client[c].base
      /\ client'[c].busy
  BY DEF Send, Client, SessionInv, NumberInv, TypeInv, TypeOK
<1>2. inbox' = inbox \cup {m} /\ UNCHANGED <<sessions, session, exec>> /\ ~ client[c].busy
  BY DEF Send
<1> QED BY <1>1, <1>2, SendingOwned

LEMMA AckOwned ==
  ASSUME SessionInv, NEW c \in Clients, NEW ok \in BOOLEAN, AckFile(c, ok)
  PROVE  ServesOnly(c)
<1> DEFINE m == [kind |-> "RestoreFileAck", from |-> c, ok |-> ok]
<1>1. m \in Message /\ m.from = c /\ m.kind # "Ping" /\ SentIn(m) = "restore"
  BY DEF Message, SentIn, SessionKind
<1>2. /\ \A d \in Clients \ {c} : client'[d] = client[d]
      /\ client'[c].mode = client[c].mode /\ client'[c].tok = client[c].tok
      /\ client'[c].busy
  BY DEF AckFile, Client, SessionInv, NumberInv, TypeInv, TypeOK
<1>3. /\ inbox' = inbox \cup {m} /\ UNCHANGED <<sessions, session, exec>>
      /\ ~ client[c].busy /\ client[c].mode = "restore"
  BY DEF AckFile
<1> HIDE DEF m
<1>4. client[c].mode # "update"
  BY <1>3
<1> QED BY <1>1, <1>2, <1>3, <1>4, SendingOwned

LEMMA AbandonOwned ==
  ASSUME SessionInv, NEW c \in Clients, Abandon(c)
  PROVE  ServesOnly(c)
<1>1. Queue(c) = {} /\ ServedBy(c) = {} /\ Dismiss(c)
  BY DEF Abandon, SessionInv, Owned, OneRequest
<1>2. \A d : Queue(d)' = Queue(d) /\ ServedBy(d)' = ServedBy(d)
  BY DEF Abandon, Queue, ServedBy
<1>3. client'[c] = LoggedOut /\ \A d \in Clients \ {c} : client'[d] = client[d]
  BY <1>1, DismissClient DEF SessionInv, NumberInv, TypeInv, TypeOK
<1>4. OnlyFor(c)
  BY <1>2, <1>3 DEF OnlyFor, Abandon
<1> QED BY <1>1, <1>2, <1>3, <1>4, OutIsOwned DEF ServesOnly

\* What a client sends, but for pings and acknowledgements.
LEMMA Sent ==
  ASSUME SessionInv, NEW c \in Clients,
         StartUpdate(c) \/ SendChange(c) \/ StopUpdate(c) \/ StartRestore(c)
  PROVE  /\ client[c].mode # "restore"
         /\ \E m \in Message : /\ Send(c, m) /\ m.from = c /\ client[c].mode = SentIn(m)
                            /\ m.kind \notin {"Ping", "RestoreFileAck"}
<1>1. CASE StartUpdate(c)
  <2> DEFINE m == [kind |-> "UpdateStart", from |-> c]
  <2>1. /\ m \in Message /\ m.from = c /\ SentIn(m) = "out"
        /\ m.kind \notin {"Ping", "RestoreFileAck"}
    BY DEF Message, SentIn
  <2> QED BY <1>1, <2>1 DEF StartUpdate
<1>2. CASE SendChange(c)
  <2>1. PICK p \in Paths :
          \/ \E d \in Data, k \in {"AddFile", "UpdateFile"} :
               Send(c, [kind |-> k, from |-> c, path |-> p, date |-> d])
          \/ Send(c, [kind |-> "RemoveFile", from |-> c, path |-> p])
    BY <1>2 DEF SendChange
  <2>2. client[c].mode = "update"
    BY <1>2 DEF SendChange
  <2>3. ASSUME NEW d \in Data, NEW k \in {"AddFile", "UpdateFile"},
               Send(c, [kind |-> k, from |-> c, path |-> p, date |-> d])
        PROVE  \E m \in Message : /\ Send(c, m) /\ m.from = c /\ client[c].mode = SentIn(m)
                              /\ m.kind \notin {"Ping", "RestoreFileAck"}
    <3> DEFINE m == [kind |-> k, from |-> c, path |-> p, date |-> d]
    <3>1. /\ m \in Message /\ m.from = c /\ SentIn(m) = "update"
          /\ m.kind \notin {"Ping", "RestoreFileAck"}
      BY DEF Message, SentIn, SessionKind
    <3> QED BY <2>2, <2>3, <3>1
  <2>4. ASSUME Send(c, [kind |-> "RemoveFile", from |-> c, path |-> p])
        PROVE  \E m \in Message : /\ Send(c, m) /\ m.from = c /\ client[c].mode = SentIn(m)
                              /\ m.kind \notin {"Ping", "RestoreFileAck"}
    <3> DEFINE m == [kind |-> "RemoveFile", from |-> c, path |-> p]
    <3>1. /\ m \in Message /\ m.from = c /\ SentIn(m) = "update"
          /\ m.kind \notin {"Ping", "RestoreFileAck"}
      BY DEF Message, SentIn, SessionKind
    <3> QED BY <2>2, <2>4, <3>1
  <2> QED BY <2>1, <2>2, <2>3, <2>4
<1>3. CASE StopUpdate(c)
  <2> DEFINE m == [kind |-> "UpdateStop", from |-> c]
  <2>1. /\ m \in Message /\ m.from = c /\ SentIn(m) = "update"
        /\ m.kind \notin {"Ping", "RestoreFileAck"}
    BY DEF Message, SentIn, SessionKind
  <2> QED BY <1>3, <2>1 DEF StopUpdate
<1>4. CASE StartRestore(c)
  <2>1. PICK v \in {NO_VERSION} \cup DOMAIN db[UserOf[c]], f \in Paths \cup {NoPath} :
          Send(c, [kind |-> "RestoreVersion", from |-> c, ver |-> v, file |-> f])
    BY <1>4 DEF StartRestore
  <2> DEFINE m == [kind |-> "RestoreVersion", from |-> c, ver |-> v, file |-> f]
  <2>2. v \in Nat
    BY UserAssumption DEF NO_VERSION, SessionInv, NumberInv, TypeInv, TypeOK
  <2>3. /\ m \in Message /\ m.from = c /\ SentIn(m) = "out"
        /\ m.kind \notin {"Ping", "RestoreFileAck"}
    BY <2>2 DEF Message, SentIn
  <2>4. client[c].mode = "out"
    BY <1>4 DEF StartRestore
  <2> QED BY <2>1, <2>3, <2>4
<1> QED BY <1>1, <1>2, <1>3, <1>4

LEMMA UseOwned ==
  ASSUME SessionInv, NEW c \in Clients, Use(c)
  PROVE  (\A d \in Clients : Owned(d)') /\ Distinct'
<1>1. CASE SendPing(c)
  <2>1. \A d : Queue(d)' = Queue(d)
    BY <1>1 DEF SendPing, Queue
  <2> QED BY <1>1, <2>1, SameOwned DEF SendPing
<1>2. CASE StartUpdate(c) \/ SendChange(c) \/ StopUpdate(c) \/ StartRestore(c)
  <2>1. PICK m \in Message : /\ Send(c, m) /\ m.from = c /\ client[c].mode = SentIn(m)
                             /\ m.kind \notin {"Ping", "RestoreFileAck"}
    BY <1>2, Sent
  <2> QED BY <2>1, SendOwned, ServingKeepsOwned
<1>3. CASE \E ok \in BOOLEAN : AckFile(c, ok)
  BY <1>3, AckOwned, ServingKeepsOwned
<1>4. CASE Abandon(c)
  BY <1>4, AbandonOwned, ServingKeepsOwned
<1> QED BY <1>1, <1>2, <1>3, <1>4 DEF Use

\* The process dies where every user has one device: the table is empty
\* afterwards, and the clients keep their tokens.
LEMMA RestartOwned ==
  ASSUME SessionInv, OneDevice, Restart
  PROVE  (\A c \in Clients : Owned(c)') /\ Distinct'
<1>1. ASSUME NEW c \in Clients
      PROVE  client'[c].mode = client[c].mode /\ client'[c].tok = client[c].tok
  BY DEF Restart, Client, SessionInv, NumberInv, TypeInv, TypeOK
<1>2. ASSUME NEW c \in Clients PROVE Owned(c)'
  <2>1. Owned(c) /\ UserOf[c] \in Users /\ client[c] \in Client
    BY UserAssumption DEF SessionInv, NumberInv, TypeInv, TypeOK
  <2>2. Queue(c)' = {} /\ ServedBy(c)' = {}
    BY DEF Restart, Queue, ServedBy, Idle, Steps
  <2>3. client[c].mode # "out" => client[c].tok \in Tokens
    BY <2>1 DEF Owned, TokenInv, Client
  <2>4. ~ InTable(c)'
    BY <1>1, <2>1, <2>3, SentinelAssumption DEF Restart, InTable
  <2>5. TokenInv(c)'
    <3>1. client[c].mode # "out" =>
            Sess(c)' # Null /\ Sess(c)'.kind = client[c].mode
      <4> SUFFICES ASSUME client[c].mode # "out"
                   PROVE  Sess(c)' # Null /\ Sess(c)'.kind = client[c].mode
        OBVIOUS
      <4>1. client[c].tok \in Tokens /\ Sess(c) \in Session /\ Sess(c) # Null
            /\ Sess(c).kind = client[c].mode
        BY <2>1, <2>3 DEF Owned, TokenInv, Sess, SessionInv, NumberInv, TypeInv, TypeOK
      <4>2. Sess(c)' = [Sess(c) EXCEPT !.version = Null, !.todo = {},
                                      !.cur = NoPath, !.idle = FALSE]
        BY <1>1, <4>1 DEF Restart, Sess
      <4>3. Sess(c)' \in Session /\ Sess(c)'.kind = Sess(c).kind
        BY <4>1, <4>2 DEF Session
      <4> QED BY <4>1, <4>3, NullAssumption
    <3>2. sessions'[UserOf[c]] = NoToken
      BY <2>1 DEF Restart
    <3>3. client'[c].mode = "out" <=> client'[c].tok = NoToken
      BY <1>1, <2>1 DEF Owned, TokenInv
    <3> QED BY <1>1, <3>1, <3>2, <3>3 DEF TokenInv
  <2>6. VersionInv(c)' /\ DraftInv(c)'
    BY <2>4 DEF VersionInv, DraftInv
  <2>7. OneRequest(c)' /\ QueueFits(c)'
    BY <2>2 DEF OneRequest, QueueFits
  <2> QED BY <2>2, <2>5, <2>6, <2>7 DEF Owned
<1> QED BY <1>1, <1>2 DEF SessionInv, Distinct

\* A handler that reads its session's version finds one.
LEMMA VersionIsThere ==
  ASSUME SessionInv, NEW e \in Executors, At(e, Dereferences)
  PROVE  HasVersion(e)
<1>1. exec[e].at \in Steps \ (Removed \cup {"erase", "restored", "first"})
  BY DEF At, Dereferences, Steps, Removed
<1> QED BY <1>1, ServingSession, NullAssumption DEF HasVersion

\* A ping reaches a session that is awake.
LEMMA PingChangesNothing ==
  ASSUME SessionInv, NEW e \in Executors, NEW m \in inbox, ProcessPingRequest(e, m)
  PROVE  /\ UNCHANGED <<db, disk, client, sessions, session, exec>>
         /\ \A d \in Clients : Queue(d)' = Queue(d)
<1> DEFINE t == sessions[User(m)]
<1>1. User(m) \in Users /\ m.kind = "Ping" /\ inbox' = inbox \ {m}
  BY UserType DEF ProcessPingRequest, Take, SessionInv, NumberInv, TypeInv, TypeOK
<1>2. \A d \in Clients : Queue(d)' = Queue(d)
  BY <1>1 DEF Queue
<1>3. session' = session
  <2>1. ASSUME t # NoToken PROVE [session EXCEPT ![t].idle = FALSE] = session
    <3>1. t \in Tokens /\ session[t] \in Session /\ ~ session[t].idle
      BY <1>1, <2>1 DEF SessionInv, NumberInv, TypeInv, TypeOK, TableReady, Awake
    <3>2. [session[t] EXCEPT !.idle = FALSE] = session[t]
      BY <3>1 DEF Session
    <3> QED BY <3>1, <3>2 DEF SessionInv, NumberInv, TypeInv, TypeOK
  <2> QED BY <2>1 DEF ProcessPingRequest
<1> QED BY <1>2, <1>3 DEF ProcessPingRequest

LEMMA ExecuteOwned ==
  ASSUME SessionInv, NEW e \in Executors, Execute(e)
  PROVE  (\A c \in Clients : Owned(c)') /\ Distinct'
<1>1. ASSUME NEW m \in inbox, \/ ProcessUpdateStart(e, m) \/ FindSession(e, m)
                              \/ ProcessRestoreVersion(e, m)
      PROVE  (\A c \in Clients : Owned(c)') /\ Distinct'
  <2>1. m.from \in Clients
    BY MessageFields DEF SessionInv, NumberInv, TypeInv, TypeOK
  <2>2. ServesOnly(m.from)
    BY <1>1, UpdateStartOwned, FindSessionOwned, RestoreVersionOwned
  <2> QED BY <2>1, <2>2, ServingKeepsOwned
<1>2. ASSUME NEW m \in inbox, ProcessPingRequest(e, m)
      PROVE  (\A c \in Clients : Owned(c)') /\ Distinct'
  BY <1>2, PingChangesNothing, SameOwned
<1>3. ASSUME \/ RejectFile(e) \/ StoreContent(e) \/ ListFile(e) \/ ProcessRemoveFile(e)
             \/ TerminateSession(e) \/ EraseSession(e) \/ RefuseVersion(e)
             \/ InsertNewVersion(e) \/ FailToInsert(e) \/ CleanUp(e)
             \/ FindFirst(e) \/ SendFile(e) \/ StopRestore(e)
      PROVE  (\A c \in Clients : Owned(c)') /\ Distinct'
  <2>1. exec[e].at \in Steps
    BY <1>3 DEF RejectFile, StoreContent, ListFile, ProcessRemoveFile, TerminateSession,
                EraseSession, RefuseVersion, InsertNewVersion, FailToInsert, CleanUp,
                FindFirst, SendFile, StopRestore, At, Steps
  <2>2. exec[e].msg.from \in Clients
    BY <2>1, Serving
  <2>3. ServesOnly(exec[e].msg.from)
    BY <1>3, RejectFileOwned, StoreContentOwned, ListFileOwned, RemoveFileOwned,
       TerminateSessionOwned, EraseSessionOwned, CommitEndsOwned, FailToInsertOwned,
       FindFirstOwned, SendFileOwned, StopRestoreOwned
  <2> QED BY <2>2, <2>3, ServingKeepsOwned
<1>4. ~ NullVersion(e)
  BY VersionIsThere DEF NullVersion
<1> QED BY <1>1, <1>2, <1>3, <1>4 DEF Execute

\* With every session awake the cleaner finds nothing.
LEMMA NothingToClean == ASSUME SessionInv PROVE ~ Clean
<1>1. ASSUME NEW u \in Users, CheckSession(u) PROVE FALSE
  <2>1. sessions[u] \in Tokens /\ session[sessions[u]] # Null /\ session[sessions[u]].idle
    BY <1>1 DEF CheckSession, Expired, SessionInv, NumberInv, TypeInv, TypeOK, TableReady
  <2> QED BY <2>1 DEF SessionInv, Awake
<1>2. ~ CleanDirectory /\ ~ CleanSession
  BY DEF SessionInv, Awake, Waiting, CleanDirectory, CleanSession
<1> QED BY <1>1, <1>2 DEF Clean

\* No step leaves a session idle but its expiry.
LEMMA ExecuteKeepsAwake ==
  ASSUME SessionInv, NEW e \in Executors, Execute(e)
  PROVE  Awake'
<1>1. ASSUME cleaner' = cleaner, session' = session PROVE Awake'
  BY <1>1 DEF SessionInv, Awake
<1>2. ASSUME NEW m \in inbox, ProcessUpdateStart(e, m) PROVE Awake'
  <2> DEFINE v == InitialVersion(User(m), NO_VERSION, NoPath)
  <2>1. cleaner' = cleaner /\ (session' = session \/ \E t \in Tokens :
           NewSession(User(m), "update", v, t, NoPath))
    BY <1>2 DEF ProcessUpdateStart
  <2> HIDE DEF v
  <2> QED BY <1>1, <2>1 DEF NewSession, Awake, SessionInv, NumberInv, TypeInv, TypeOK
<1>3. ASSUME NEW m \in inbox, ProcessRestoreVersion(e, m) PROVE Awake'
  <2> DEFINE v == InitialVersion(User(m), m.ver, m.file)
  <2>1. cleaner' = cleaner /\ (session' = session \/ \E t \in Tokens : \E first :
           NewSession(User(m), "restore", v, t, first))
    BY <1>3 DEF ProcessRestoreVersion
  <2> HIDE DEF v
  <2> QED BY <1>1, <2>1 DEF NewSession, Awake, SessionInv, NumberInv, TypeInv, TypeOK
<1>4. ASSUME NEW m \in inbox, FindSession(e, m) PROVE Awake'
  BY <1>1, <1>4 DEF FindSession
<1>5. ASSUME NEW m \in inbox, ProcessPingRequest(e, m) PROVE Awake'
  BY <1>1, <1>5 DEF ProcessPingRequest, Awake, SessionInv, NumberInv, TypeInv, TypeOK, Session
<1>6. ASSUME NEW v, SetVersion(e, v), cleaner' = cleaner,
             exec[e].at \in Steps \ (Removed \cup {"first"})
      PROVE  Awake'
  <2> DEFINE c == exec[e].msg.from
  <2>1. /\ session'[client[c].tok] = [Sess(c) EXCEPT !.version = v]
        /\ \A t \in Tokens \ {client[c].tok} : session'[t] = session[t]
        /\ client[c].tok \in Tokens /\ Sess(c) \in Session
    BY <1>6, NewVersionOfSession, ServingSession
  <2>2. session'[client[c].tok].idle = Sess(c).idle /\ Sess(c) # Null
    BY <2>1, NullAssumption DEF Session
  <2> QED BY <1>6, <2>1, <2>2 DEF SessionInv, Awake, Sess
<1>7. ListFile(e) => Awake'
  <2> SUFFICES ASSUME ListFile(e) PROVE Awake'
    OBVIOUS
  <2>1. (\E v : SetVersion(e, v)) /\ cleaner' = cleaner
    BY DEF ListFile
  <2>2. exec[e].at \in Steps \ (Removed \cup {"first"})
    BY DEF ListFile, At, Steps, Removed
  <2> QED BY <1>6, <2>1, <2>2
<1>8. ProcessRemoveFile(e) => Awake'
  <2> SUFFICES ASSUME ProcessRemoveFile(e) PROVE Awake'
    OBVIOUS
  <2>1. (session' = session \/ \E v : SetVersion(e, v)) /\ cleaner' = cleaner
    BY DEF ProcessRemoveFile
  <2>2. exec[e].at \in Steps \ (Removed \cup {"first"})
    BY DEF ProcessRemoveFile, At, Steps, Removed
  <2> QED BY <1>1, <1>6, <2>1, <2>2
<1>9. TerminateSession(e) => Awake'
  <2> SUFFICES ASSUME TerminateSession(e) PROVE Awake'
    OBVIOUS
  <2>1. SetVersion(e, Null) /\ cleaner' = cleaner
    BY DEF TerminateSession
  <2>2. exec[e].at \in Steps \ (Removed \cup {"first"})
    BY DEF TerminateSession, At, Steps, Removed
  <2> QED BY <1>6, <2>1, <2>2
<1>10. SendFile(e) => Awake'
  <2> SUFFICES ASSUME SendFile(e) PROVE Awake'
    OBVIOUS
  <2>1. PICK todo, p, v : Moved(e, todo, p, v)
    BY SendFileSteps DEF RestoreStep
  <2>2. exec[e].tok \in Tokens /\ session[exec[e].tok] # Null
    <3>1. exec[e].at \in Steps \ {"first"}
      BY DEF SendFile, At, Steps
    <3> QED BY <3>1, HeldSession, NullAssumption DEF SessionInv, NumberInv
  <2>3. cleaner' = cleaner
    BY DEF SendFile
  <2> QED BY <2>1, <2>2, <2>3 DEF Moved, SessionInv, Awake
<1>11. ASSUME \/ RejectFile(e) \/ StoreContent(e) \/ EraseSession(e) \/ RefuseVersion(e)
              \/ InsertNewVersion(e) \/ FailToInsert(e) \/ CleanUp(e)
              \/ FindFirst(e) \/ StopRestore(e)
       PROVE  Awake'
  BY <1>1, <1>11 DEF RejectFile, StoreContent, EraseSession, RefuseVersion,
     InsertNewVersion, FailToInsert, CleanUp, FindFirst, StopRestore
<1>12. ~ NullVersion(e)
  BY VersionIsThere DEF NullVersion
<1> QED BY <1>2, <1>3, <1>4, <1>5, <1>7, <1>8, <1>9, <1>10, <1>11, <1>12 DEF Execute

\* isValid lets no version without files into the database.
LEMMA NoneEmptyKept ==
  ASSUME SessionInv, [Next]_vars
  PROVE  NoneEmpty'
<1>1. CASE db' = db
  BY <1>1 DEF SessionInv, NoneEmpty
<1>2. ASSUME NEW e \in Executors, InsertNewVersion(e) PROVE NoneEmpty'
  <2> DEFINE u == User(exec[e].msg)
             v == exec[e].ver
             id == TerminateWithSuccess(v).id
             rows == RowsOf(TerminateWithSuccess(v))
  <2>1. exec[e].at = "commit" /\ exec[e].at \in Steps
    BY <1>2 DEF InsertNewVersion, At, Steps
  <2>2. v \in TVersion /\ u \in Users /\ Listed(v) # {}
    BY <1>2, <2>1, BusyFields
       DEF SessionInv, NumberInv, TypeInv, HandlersReady, Ready, InsertNewVersion, IsValid
  <2>3. \E p \in Paths : rows[p] # NoFile
    <3>1. PICK p \in Paths : v.files[p] # NoFile
      BY <2>2 DEF Listed
    <3>2. [v.files[p] EXCEPT !.ver = v.id + 1] \in Entry
      BY <2>2, <3>1 DEF TVersion, FileMap, Entry
    <3>3. TerminateWithSuccess(v).files[p] # NoFile /\ TerminateWithSuccess(v) \in TVersion
      BY <2>2, <3>1, <3>2, NoEntryAssumption, TerminateType DEF TerminateWithSuccess, Listed
    <3>4. rows[p] \in Row
      BY <3>3 DEF RowsOf, Listed, TVersion, FileMap, Entry, Row
    <3> QED BY <3>4, NoEntryAssumption
  <2>4. db' = [db EXCEPT ![u] = [w \in DOMAIN db[u] \cup {id} |->
                                   IF w = id THEN rows ELSE db[u][w]]]
    BY <1>2 DEF InsertNewVersion
  <2> HIDE DEF u, v, id, rows
  <2>5. db'[u] = [w \in DOMAIN db[u] \cup {id} |-> IF w = id THEN rows ELSE db[u][w]]
    BY <2>2, <2>4 DEF SessionInv, NumberInv, TypeInv, TypeOK
  <2>6. ASSUME NEW x \in Users, NEW w \in DOMAIN db'[x] PROVE \E p \in Paths : db'[x][w][p] # NoFile
    <3>1. CASE x = u
      BY <2>2, <2>3, <2>5, <3>1 DEF SessionInv, NoneEmpty
    <3>2. CASE x # u
      BY <2>4, <3>2 DEF SessionInv, NoneEmpty, NumberInv, TypeInv, TypeOK
    <3> QED BY <3>1, <3>2
  <2> QED BY <2>6 DEF NoneEmpty
<1> QED BY <1>1, <1>2, DbChanges

LEMMA InitSession == ASSUME Init PROVE SessionInv
<1>1. NumberInv
  BY InitNumbers
<1>2. ASSUME NEW c \in Clients PROVE Owned(c) /\ client[c].tok = NoToken
  <2>1. Queue(c) = {} /\ ServedBy(c) = {} /\ client[c] = LoggedOut
    BY DEF Init, Queue, ServedBy, Idle, Steps
  <2> QED BY <2>1 DEF LoggedOut, Owned, OneRequest, QueueFits, TokenInv, VersionInv, DraftInv,
                      InTable
<1>3. Distinct
  BY <1>2 DEF Distinct
<1>4. Awake /\ NoneEmpty
  BY DEF Init, Awake, NoneEmpty
<1> QED BY <1>1, <1>2, <1>3, <1>4 DEF SessionInv

LEMMA NextSession == ASSUME SessionInv, Undisturbed, [Next]_vars PROVE SessionInv'
<1>1. NumberInv' /\ NoneEmpty'
  BY NextNumbers, NoneEmptyKept DEF SessionInv
<1>2. (\A c \in Clients : Owned(c)') /\ Distinct' /\ Awake'
  <2>1. ASSUME NEW e \in Executors, Execute(e)
        PROVE  (\A c \in Clients : Owned(c)') /\ Distinct' /\ Awake'
    BY <2>1, ExecuteOwned, ExecuteKeepsAwake
  <2>2. ASSUME NEW c \in Clients, Use(c)
        PROVE  (\A d \in Clients : Owned(d)') /\ Distinct' /\ Awake'
    <3>1. UNCHANGED <<session, cleaner>>
      BY <2>2 DEF Use, StartUpdate, SendChange, StopUpdate, StartRestore, AckFile,
                  SendPing, Abandon, Send
    <3>2. Awake'
      BY <3>1 DEF SessionInv, Awake
    <3> QED BY <2>2, <3>2, UseOwned
  <2>3. CASE Crash
    <3>1. OneDevice /\ Restart
      BY <2>3 DEF Crash, Undisturbed
    <3>2. Awake'
      BY <3>1 DEF Restart, Awake, Session, SessionInv, NumberInv, TypeInv, TypeOK
    <3> QED BY <3>1, <3>2, RestartOwned
  <2>4. CASE UNCHANGED vars
    <3>1. \A d \in Clients : Queue(d)' = Queue(d)
      BY <2>4 DEF vars, Queue
    <3>2. Awake'
      BY <2>4 DEF vars, SessionInv, Awake
    <3> QED BY <2>4, <3>1, <3>2, SameOwned DEF vars
  <2>5. ~ \E u \in Users : SessionExpires(u)
    BY DEF SessionExpires, Undisturbed
  <2> QED BY <2>1, <2>2, <2>3, <2>4, <2>5, NothingToClean DEF Next
<1> QED BY <1>1, <1>2 DEF SessionInv

LEMMA SessionsHold == ASSUME Undisturbed PROVE Spec => []SessionInv
BY InitSession, NextSession, PTL DEF Spec

\* While nothing expires, and a process that may die serves one device per
\* user, each handler works on the session of the client that sent its
\* request, though it looks the session up by the user's name and never
\* compares tokens (isThereAnUpdateSessionFor, processAddNewFile and the rest).
THEOREM HandlersKeepToTheirSession == Undisturbed => (Spec => []TokenNamesSession)
<1> SUFFICES ASSUME Undisturbed PROVE Spec => []TokenNamesSession
  OBVIOUS
<1>1. SessionInv => TokenNamesSession
  <2> SUFFICES ASSUME SessionInv, NEW e \in Executors, At(e, Steps \ {"first"})
               PROVE  exec[e].tok = client[exec[e].msg.from].tok
    BY DEF TokenNamesSession
  <2>1. HandlerOwns(exec[e].msg.from, e)
    BY Serving DEF At
  <2> QED BY <2>1 DEF HandlerOwns, At
<1> QED BY <1>1, SessionsHold, PTL

\* Under the same conditions no handler follows the pointer of a version that
\* terminateSession or getNextFile has already moved out of the session.
THEOREM VersionsAreThere == Undisturbed => (Spec => []NoNullVersion)
<1> SUFFICES ASSUME Undisturbed PROVE Spec => []NoNullVersion
  OBVIOUS
<1>1. SessionInv => NoNullVersion
  BY VersionIsThere DEF NoNullVersion
<1> QED BY <1>1, SessionsHold, PTL

------------------------------------------------------------------------------
(* The server implements VersionHistory.                                   *)

\* The history of a user is a sequence, as long as the last version's number.
Recorded(u) ==
  /\ LastVersion(u) \in Nat /\ DOMAIN db[u] = 1..LastVersion(u)
  /\ History[u] \in Seq(Contents) /\ Len(History[u]) = LastVersion(u)
  /\ \A v \in 1..LastVersion(u) :
       History[u][v] = Promised(db[u][v]) /\ Promised(db[u][v]) \in Contents
  /\ History[u] = <<>> <=> LastVersion(u) = 0

LEMMA HistoryOf == ASSUME NumberInv, NEW u \in Users PROVE Recorded(u)
<1> DEFINE n == LastVersion(u)
           h == [v \in 1..n |-> Promised(db[u][v])]
<1>1. DOMAIN db[u] = 1..n
  BY NumbersContiguous DEF VersionsContiguous
<1>2. n \in Nat
  <2>1. CASE DOMAIN db[u] = {}
    BY <2>1 DEF LastVersion, NO_VERSION
  <2>2. CASE DOMAIN db[u] # {}
    <3>1. PICK k \in Nat : DOMAIN db[u] = 1..k
      BY DEF NumberInv, Numbered
    <3>2. k \in DOMAIN db[u] /\ \A w \in DOMAIN db[u] : w <= k
      BY <2>2, <3>1
    <3>3. LastVersion(u) \in DOMAIN db[u]
      BY <2>2, <3>2 DEF LastVersion
    <3> QED BY <3>1, <3>3
  <2> QED BY <2>1, <2>2
<1>3. \A v \in 1..n : Promised(db[u][v]) \in Contents
  <2>1. ASSUME NEW v \in 1..n PROVE db[u][v] \in Rows
    BY <1>1 DEF NumberInv, TypeInv, TypeOK
  <2> QED BY <2>1 DEF Rows, Row, Promised, Contents
<1>4. History[u] = h
  BY DEF History
<1> HIDE DEF n
<1>5. h \in [1..n -> Contents]
  BY <1>3
<1>6. h \in Seq(Contents)
  BY <1>2, <1>5, SeqDef
<1>7. Len(h) = n
  <2>1. Len(h) \in Nat /\ DOMAIN h = 1..Len(h)
    BY <1>6, LenProperties
  <2>2. 1..Len(h) = 1..n
    BY <2>1
  <2> QED BY <1>2, <2>1, <2>2
<1>8. h = <<>> <=> n = 0
  BY <1>6, <1>7, EmptySeq
<1>9. \A v \in 1..n : h[v] = Promised(db[u][v])
  OBVIOUS
<1> QED BY <1>1, <1>2, <1>3, <1>4, <1>6, <1>7, <1>8, <1>9 DEF n, Recorded

LEMMA AllRecorded == NumberInv => \A u \in Users : Recorded(u)
BY HistoryOf

LEMMA NextRecorded == NumberInv' => \A u \in Users : Recorded(u)'
<1>1. (NumberInv => \A u \in Users : Recorded(u))'
  BY AllRecorded, PTL
<1> QED BY <1>1

\* newSession opens an update on the latest version.
LEMMA OpenedOnLatest ==
  ASSUME SessionInv, NEW u \in Users, NEW v, v = InitialVersion(u, NO_VERSION, NoPath)
  PROVE  /\ v.id = LastVersion(u)
         /\ Promised(v.files) = Abstract!Latest(u)
<1> DEFINE n == LastVersion(u)
<1>1. /\ n \in Nat /\ DOMAIN db[u] = 1..n /\ Len(History[u]) = n
      /\ \A w \in 1..n : History[u][w] = Promised(db[u][w])
      /\ History[u] = <<>> <=> n = 0
  BY HistoryOf DEF SessionInv, Recorded
<1>2. v = IF n \notin DOMAIN db[u] \/ \A p \in Paths : db[u][n][p] = NoFile
            THEN NewVersion(NO_VERSION) ELSE LoadVersion(n, db[u][n])
  BY DEF InitialVersion
<1> HIDE DEF n
<1>3. CASE n = 0
  <2>1. v = NewVersion(NO_VERSION)
    BY <1>1, <1>2, <1>3
  <2>2. Promised(v.files) = [p \in Paths |-> NoFile]
    BY <2>1 DEF Promised, NewVersion
  <2> QED BY <1>1, <1>3, <2>1, <2>2
          DEF NewVersion, NO_VERSION, Abstract!Latest, Abstract!Empty, n
<1>4. CASE n # 0
  <2>1. n \in DOMAIN db[u] /\ ~ \A p \in Paths : db[u][n][p] = NoFile
    BY <1>1, <1>4 DEF SessionInv, NoneEmpty
  <2>2. v = LoadVersion(n, db[u][n])
    BY <1>2, <2>1
  <2>3. Promised(v.files) = Promised(db[u][n])
    <3>1. db[u][n] \in Rows
      BY <2>1 DEF SessionInv, NumberInv, TypeInv, TypeOK
    <3>2. ASSUME NEW p \in Paths, db[u][n][p] # NoFile
          PROVE  [dir |-> db[u][n][p].dir, ver |-> n, date |-> db[u][n][p].date] # NoFile
      BY <1>1, <3>1, <3>2, NoEntryAssumption DEF Rows, Row, Entry
    <3>3. ASSUME NEW p \in Paths PROVE Promised(v.files)[p] = Promised(db[u][n])[p]
      BY <2>2, <3>2 DEF LoadVersion, Promised
    <3> QED BY <3>3 DEF Promised
  <2> QED BY <1>1, <1>4, <2>1, <2>2, <2>3 DEF LoadVersion, Abstract!Latest, n
<1> QED BY <1>3, <1>4

\* The steps of the server as steps of VersionHistory.
LEMMA SameHistory == ASSUME db' = db PROVE History' = History
BY DEF History, LastVersion

LEMMA DraftStays ==
  ASSUME NEW d, client'[d].mode = client[d].mode, client'[d].base = client[d].base,
         client[d].mode = "update" => client'[d].view = client[d].view
  PROVE  DraftOf(d)' = DraftOf(d)
BY DEF DraftOf

LEMMA Stutters ==
  ASSUME db' = db, \A d \in Clients : DraftOf(d)' = DraftOf(d)
  PROVE  UNCHANGED Abstract!vars
BY SameHistory DEF Abstract!vars

LEMMA Drops ==
  ASSUME db' = db, NEW c \in Clients, client'[c].mode # "update",
         \A d \in Clients \ {c} : client'[d] = client[d]
  PROVE  Abstract!Drop(c)
<1>1. DraftOf(c)' = Null
  BY DEF DraftOf
<1>2. \A d \in Clients \ {c} : DraftOf(d)' = DraftOf(d)
  BY DraftStays
<1> QED BY <1>1, <1>2, SameHistory DEF Abstract!Drop

LEMMA DraftType ==
  ASSUME TypeOK, NEW c \in Clients, client[c].mode = "update"
  PROVE  /\ DraftOf(c) = [base |-> client[c].base, files |-> client[c].view]
         /\ DraftOf(c) \in Draft /\ DraftOf(c) # Null
<1>1. client[c].base \in Nat /\ client[c].view \in Contents
  BY DEF TypeOK, Client
<1> QED BY <1>1, NoDraftAssumption DEF DraftOf, Draft

LEMMA Changes ==
  ASSUME TypeOK, db' = db, NEW c \in Clients,
         client[c].mode = "update", client'[c].mode = "update",
         client'[c].base = client[c].base,
         NEW p \in Paths, NEW d \in Data \cup {NoFile},
         client'[c].view = [client[c].view EXCEPT ![p] = d],
         \A x \in Clients \ {c} : client'[x] = client[x]
  PROVE  Abstract!Change(c)
<1>1. /\ DraftOf(c) = [base |-> client[c].base, files |-> client[c].view]
      /\ DraftOf(c) \in Draft /\ DraftOf(c) # Null
  BY DraftType
<1>2. DraftOf(c)' = [base |-> client[c].base, files |-> [client[c].view EXCEPT ![p] = d]]
  BY DEF DraftOf
<1>3. DraftOf(c)' = [DraftOf(c) EXCEPT !.files[p] = d]
  BY <1>1, <1>2 DEF Draft
<1>4. \A x \in Clients \ {c} : DraftOf(x)' = DraftOf(x)
  BY DraftStays
<1> DEFINE D == [x \in Clients |-> DraftOf(x)]
<1>5. D' = [D EXCEPT ![c].files[p] = d]
  BY <1>3, <1>4
<1>6. D[c] # Null
  BY <1>1
<1> QED BY <1>5, <1>6, SameHistory DEF Abstract!Change

LEMMA Opens ==
  ASSUME SessionInv, db' = db, NEW c \in Clients, client[c].mode = "out",
         NEW v, v = InitialVersion(UserOf[c], NO_VERSION, NoPath),
         client'[c].mode = "update",
         client'[c].base = v.id, client'[c].view = Promised(v.files),
         \A x \in Clients \ {c} : client'[x] = client[x]
  PROVE  Abstract!Open(c)
<1>1. UserOf[c] \in Users
  BY UserAssumption
<1>2. v.id = Len(History[UserOf[c]]) /\ Promised(v.files) = Abstract!Latest(UserOf[c])
  BY <1>1, OpenedOnLatest, HistoryOf DEF SessionInv, Recorded
<1>3. DraftOf(c) = Null
  BY DEF DraftOf
<1>4. DraftOf(c)' = [base |-> Len(History[UserOf[c]]), files |-> Abstract!Latest(UserOf[c])]
  BY <1>2 DEF DraftOf
<1>5. \A x \in Clients \ {c} : DraftOf(x)' = DraftOf(x)
  BY DraftStays
<1> DEFINE D == [x \in Clients |-> DraftOf(x)]
<1>6. D' = [D EXCEPT ![c] = [base |-> Len(History[UserOf[c]]),
                             files |-> Abstract!Latest(UserOf[c])]]
  BY <1>4, <1>5
<1>7. D[c] = Null
  BY <1>3
<1> QED BY <1>6, <1>7, SameHistory DEF Abstract!Open

\* The rows of a commit promise what its version lists.
LEMMA PromisedRows ==
  ASSUME NEW v \in TVersion
  PROVE  Promised(RowsOf(TerminateWithSuccess(v))) = Promised(v.files)
<1> DEFINE w == TerminateWithSuccess(v)
<1>1. ASSUME NEW p \in Paths, v.files[p] # NoFile
      PROVE  Promised(RowsOf(w))[p] = v.files[p].date
  <2>1. v.files[p] \in Entry /\ p \in Listed(v)
    BY <1>1 DEF TVersion, FileMap, Listed
  <2>2. w.files[p] = [v.files[p] EXCEPT !.ver = v.id + 1]
    BY <2>1 DEF TerminateWithSuccess
  <2>3. w.files[p] \in Entry /\ w.files[p].date = v.files[p].date
    BY <2>1, <2>2 DEF TVersion, Entry
  <2>4. p \in Listed(w)
    BY <2>3, NoEntryAssumption DEF Listed
  <2>5. RowsOf(w)[p] = [dir |-> w.files[p].dir, date |-> v.files[p].date]
    BY <2>3, <2>4 DEF RowsOf
  <2>6. RowsOf(w)[p] \in Row
    BY <2>1, <2>3, <2>5 DEF Row, Entry
  <2> QED BY <2>5, <2>6, NoEntryAssumption DEF Promised
<1>2. ASSUME NEW p \in Paths, v.files[p] = NoFile
      PROVE  Promised(RowsOf(w))[p] = NoFile
  <2>1. p \notin Listed(w)
    BY <1>2 DEF Listed, TerminateWithSuccess
  <2> QED BY <2>1 DEF RowsOf, Promised
<1>3. \A p \in Paths : Promised(RowsOf(w))[p] = Promised(v.files)[p]
  BY <1>1, <1>2 DEF Promised
<1> QED BY <1>3 DEF Promised

LEMMA NextNumber ==
  ASSUME NEW n \in Nat, NEW k \in Nat, k = 0 \/ k \in 1..n, k + 1 \notin 1..n
  PROVE  k = n
OBVIOUS

LEMMA SameBound == ASSUME NEW m \in Nat, NEW n \in Nat, 1..m = 1..n PROVE m = n
OBVIOUS

LEMMA SameLast == ASSUME NEW x, db'[x] = db[x] PROVE LastVersion(x)' = LastVersion(x)
BY DEF LastVersion

LEMMA IsAppend ==
  ASSUME NEW S, NEW h \in Seq(S), NEW g \in Seq(S), NEW x \in S,
         Len(g) = Len(h) + 1, \A w \in 1..Len(h) : g[w] = h[w], g[Len(h) + 1] = x
  PROVE  g = Append(h, x)
<1> DEFINE a == Append(h, x)
<1>1. /\ a \in Seq(S) /\ Len(a) = Len(h) + 1
      /\ \A w \in 1..Len(h) : a[w] = h[w]
      /\ a[Len(h) + 1] = x
  BY AppendProperties
<1>2. Len(h) \in Nat
  BY LenProperties
<1> HIDE DEF a
<1>3. \A w \in 1..Len(g) : g[w] = a[w]
  BY <1>1, <1>2
<1>4. g = a
  BY <1>1, <1>3, SeqEqual
<1> QED BY <1>4 DEF a

\* The rows InsertNewVersion adds to the database are the next version's.
LEMMA CommittedRows ==
  ASSUME SessionInv, SessionInv', NEW e \in Executors, InsertNewVersion(e),
         NEW u, u = User(exec[e].msg), NEW v, v = exec[e].ver
  PROVE  /\ u \in Users /\ v \in TVersion /\ Listed(v) # {}
         /\ LastVersion(u) = v.id /\ LastVersion(u)' = v.id + 1
         /\ \A w \in 1..v.id : db'[u][w] = db[u][w]
         /\ db'[u][v.id + 1] = RowsOf(TerminateWithSuccess(v))
         /\ \A x \in Users \ {u} : db'[x] = db[x]
<1> DEFINE rows == RowsOf(TerminateWithSuccess(v))
<1>1. exec[e].at = "commit" /\ exec[e].at \in Steps
  BY DEF InsertNewVersion, At, Steps
<1>2. u \in Users /\ v \in TVersion /\ Listed(v) # {} /\ v.id \in Nat
  BY <1>1, BusyFields
     DEF SessionInv, NumberInv, TypeInv, HandlersReady, Ready, InsertNewVersion, IsValid, TVersion
<1>3. /\ v.id + 1 \notin DOMAIN db[u]
      /\ db' = [db EXCEPT ![u] = [w \in DOMAIN db[u] \cup {v.id + 1} |->
                                    IF w = v.id + 1 THEN rows ELSE db[u][w]]]
  BY <1>2, TerminateType DEF InsertNewVersion, NewKey
<1> HIDE DEF rows
<1>4. LastVersion(u) \in Nat /\ DOMAIN db[u] = 1..LastVersion(u)
  BY <1>2, HistoryOf DEF SessionInv, Recorded
<1>5. LastVersion(u)' \in Nat /\ DOMAIN db'[u] = 1..LastVersion(u)'
  BY <1>2, NextRecorded DEF SessionInv, Recorded
<1>6. v.id = LastVersion(u)
  <2>1. v.id = 0 \/ v.id \in DOMAIN db[u]
    BY <1>1, <1>2, NullAssumption DEF SessionInv, NumberInv, HandlerKnown, Known, NO_VERSION
  <2> QED BY <1>2, <1>3, <1>4, <2>1, NextNumber
<1>7. /\ db'[u] = [w \in DOMAIN db[u] \cup {v.id + 1} |->
                     IF w = v.id + 1 THEN rows ELSE db[u][w]]
      /\ \A x \in Users \ {u} : db'[x] = db[x]
  BY <1>2, <1>3 DEF SessionInv, NumberInv, TypeInv, TypeOK
<1>8. DOMAIN db[u] = 1..v.id
  BY <1>4, <1>6
<1>9. DOMAIN db'[u] = 1..(v.id + 1)
  BY <1>2, <1>7, <1>8
<1>10. LastVersion(u)' = v.id + 1
  BY <1>2, <1>5, <1>9, SameBound
<1>11. db'[u][v.id + 1] = rows /\ \A w \in 1..v.id : db'[u][w] = db[u][w]
  BY <1>2, <1>7, <1>8
<1> QED BY <1>2, <1>6, <1>7, <1>10, <1>11 DEF rows

\* A commit adds the draft of its client to the history it was opened on.
LEMMA Commits ==
  ASSUME SessionInv, SessionInv', NEW e \in Executors, InsertNewVersion(e),
         NEW c, c = exec[e].msg.from
  PROVE  Abstract!Commit(c)
<1> DEFINE u == UserOf[c]
           v == exec[e].ver
           rows == RowsOf(TerminateWithSuccess(v))
           view == client[c].view
           D == [x \in Clients |-> DraftOf(x)]
<1>1. exec[e].at = "commit" /\ exec[e].at \in Steps
  BY DEF InsertNewVersion, At, Steps
<1>2. /\ c \in Clients /\ User(exec[e].msg) = u /\ u \in Users /\ HandlerOwns(c, e)
  BY <1>1, Serving
<1>3. /\ v \in TVersion /\ Listed(v) # {} /\ v.id \in Nat
      /\ LastVersion(u) = v.id /\ LastVersion(u)' = v.id + 1
      /\ \A w \in 1..v.id : db'[u][w] = db[u][w]
      /\ db'[u][v.id + 1] = rows
      /\ \A x \in Users \ {u} : db'[x] = db[x]
  BY <1>2, CommittedRows DEF TVersion
<1>4. client[c].mode = "update" /\ view = Promised(v.files) /\ client[c].base = v.id
  BY <1>1, <1>2 DEF HandlerOwns, Agrees, UpdateSteps, Committing
<1>5. Promised(rows) = view /\ view \in Contents
  BY <1>3, <1>4, PromisedRows, PromisedType
<1>6. Recorded(u) /\ Recorded(u)'
  BY <1>2, HistoryOf, NextRecorded DEF SessionInv
<1> HIDE DEF rows, view, v, u
<1>7. History'[u] = Append(History[u], view)
  <2>1. /\ History[u] \in Seq(Contents) /\ History'[u] \in Seq(Contents)
        /\ Len(History[u]) = v.id /\ Len(History'[u]) = v.id + 1
    BY <1>3, <1>6 DEF Recorded
  <2>2. \A w \in 1..v.id : History'[u][w] = History[u][w]
    <3>1. \A w \in 1..v.id : w \in 1..(v.id + 1)
      BY <1>3
    <3>2. \A w \in 1..v.id : History[u][w] = Promised(db[u][w])
      BY <1>3, <1>6 DEF Recorded
    <3>3. \A w \in 1..v.id : History'[u][w] = Promised(db'[u][w])
      BY <1>3, <1>6, <3>1 DEF Recorded
    <3> QED BY <1>3, <3>2, <3>3
  <2>3. History'[u][v.id + 1] = view
    <3>1. v.id + 1 \in 1..(v.id + 1)
      BY <1>3
    <3>2. History'[u][v.id + 1] = Promised(db'[u][v.id + 1])
      BY <1>3, <1>6, <3>1 DEF Recorded
    <3> QED BY <1>3, <1>5, <3>2
  <2> QED BY <1>5, <2>1, <2>2, <2>3, IsAppend
<1>8. \A x \in Users \ {u} : History'[x] = History[x]
  <2>1. \A x \in Users \ {u} : LastVersion(x)' = LastVersion(x)
    BY <1>3, SameLast
  <2> QED BY <1>3, <2>1 DEF History
<1>9. view # Abstract!Empty
  <2>1. PICK p \in Paths : v.files[p] # NoFile
    BY <1>3 DEF Listed
  <2>2. v.files[p].date \in Data
    BY <1>3, <2>1 DEF TVersion, FileMap, Entry
  <2> QED BY <1>4, <2>1, <2>2, NoFileAssumption DEF Promised, Abstract!Empty
<1>10. /\ DraftOf(c) = [base |-> v.id, files |-> view] /\ DraftOf(c) # Null
       /\ DraftOf(c)' = Null /\ \A x \in Clients \ {c} : DraftOf(x)' = DraftOf(x)
  <2>1. client'[c] = LoggedOut /\ \A x \in Clients \ {c} : client'[x] = client[x]
    BY <1>2, DismissClient DEF InsertNewVersion, SessionInv, NumberInv, TypeInv, TypeOK
  <2>2. DraftOf(c)' = Null
    BY <2>1 DEF DraftOf, LoggedOut
  <2>3. \A x \in Clients \ {c} : DraftOf(x)' = DraftOf(x)
    BY <2>1, DraftStays
  <2>4. DraftOf(c) = [base |-> v.id, files |-> view] /\ DraftOf(c) # Null
    BY <1>2, <1>4, DraftType DEF SessionInv, NumberInv, TypeInv, view
  <2> QED BY <2>2, <2>3, <2>4
<1>11. D' = [D EXCEPT ![c] = Null] /\ D[c] = DraftOf(c)
  BY <1>2, <1>10
<1> HIDE DEF D
<1>12. D[c].files = view /\ D[c].base = Len(History[u]) /\ D[c] # Null
  BY <1>3, <1>6, <1>10, <1>11 DEF Recorded
<1>13. History' = [History EXCEPT ![u] = Append(History[u], D[c].files)]
  BY <1>2, <1>7, <1>8, <1>12 DEF History
<1> QED BY <1>9, <1>11, <1>12, <1>13 DEF Abstract!Commit, D, u

\* A request that ends its client's session drops the draft.
LEMMA DismissDrops ==
  ASSUME SessionInv, db' = db, NEW c \in Clients, Dismiss(c)
  PROVE  Abstract!Drop(c)
<1>1. client'[c] = LoggedOut /\ \A d \in Clients \ {c} : client'[d] = client[d]
  BY DismissClient DEF SessionInv, NumberInv, TypeInv, TypeOK
<1> QED BY <1>1, Drops DEF LoggedOut

\* What a client does not know of changes no draft.
LEMMA SameClient ==
  ASSUME db' = db, client' = client
  PROVE  UNCHANGED Abstract!vars
<1>1. \A d \in Clients : DraftOf(d)' = DraftOf(d)
  BY DEF DraftOf
<1> QED BY <1>1, Stutters

\* An answer that leaves the view alone.
LEMMA SameView ==
  ASSUME SessionInv, db' = db, NEW c \in Clients, Answer(c, client[c].view)
  PROVE  UNCHANGED Abstract!vars
<1>1. /\ client'[c].mode = client[c].mode /\ client'[c].base = client[c].base
      /\ client'[c].view = client[c].view
      /\ \A d \in Clients \ {c} : client'[d] = client[d]
  BY AnswerClient DEF SessionInv, NumberInv, TypeInv, TypeOK
<1>2. \A d \in Clients : DraftOf(d)' = DraftOf(d)
  BY <1>1, DraftStays
<1> QED BY <1>2, Stutters

LEMMA NewView ==
  ASSUME SessionInv, db' = db, NEW c \in Clients, client[c].mode = "update",
         NEW p \in Paths, NEW d \in Data \cup {NoFile},
         Answer(c, [client[c].view EXCEPT ![p] = d])
  PROVE  Abstract!Change(c)
<1>1. /\ client'[c].mode = client[c].mode /\ client'[c].base = client[c].base
      /\ client'[c].view = [client[c].view EXCEPT ![p] = d]
      /\ \A x \in Clients \ {c} : client'[x] = client[x]
  BY AnswerClient DEF SessionInv, NumberInv, TypeInv, TypeOK
<1> QED BY <1>1, Changes DEF SessionInv, NumberInv, TypeInv

LEMMA StartsHistory ==
  ASSUME SessionInv, NEW e \in Executors, NEW m \in inbox,
         \/ ProcessUpdateStart(e, m) \/ FindSession(e, m)
         \/ ProcessRestoreVersion(e, m) \/ ProcessPingRequest(e, m)
  PROVE  [Abstract!Next]_(Abstract!vars)
<1> DEFINE c == m.from
<1>1. c \in Clients
  BY MessageFields DEF SessionInv, NumberInv, TypeInv, TypeOK
<1>2. db' = db
  BY DEF ProcessUpdateStart, FindSession, ProcessRestoreVersion, ProcessPingRequest
<1>3. CASE client' = client
  BY <1>2, <1>3, SameClient
<1>4. CASE Dismiss(c)
  BY <1>1, <1>2, <1>4, DismissDrops DEF Abstract!Next
<1>5. ASSUME ProcessUpdateStart(e, m), ~ Dismiss(c)
      PROVE  Abstract!Open(c)
  <2> DEFINE v == InitialVersion(UserOf[c], NO_VERSION, NoPath)
  <2>1. client[c].mode = "out"
    <3>1. m.kind = "UpdateStart" /\ Take(e, m)
      BY <1>5 DEF ProcessUpdateStart
    <3> QED BY <3>1, Taking DEF SentIn
  <2>2. \E t \in Tokens :
          client' = [client EXCEPT ![c] =
            [LoggedOut EXCEPT !.mode = "update", !.tok = t,
                              !.view = Promised(v.files), !.base = v.id]]
    BY <1>5 DEF ProcessUpdateStart, User
  <2> HIDE DEF v
  <2>3. /\ client'[c].mode = "update" /\ client'[c].view = Promised(v.files)
        /\ client'[c].base = v.id /\ \A x \in Clients \ {c} : client'[x] = client[x]
    BY <1>1, <2>2 DEF LoggedOut, SessionInv, NumberInv, TypeInv, TypeOK
  <2> QED BY <1>1, <1>2, <2>1, <2>3, Opens DEF v
<1>6. ASSUME ProcessRestoreVersion(e, m), ~ Dismiss(c)
      PROVE  Abstract!Drop(c)
  <2>1. PICK t \in Tokens :
          client' = [client EXCEPT ![c] =
            [LoggedOut EXCEPT !.mode = "restore", !.tok = t, !.busy = TRUE]]
    BY <1>6 DEF ProcessRestoreVersion
  <2>2. client'[c].mode # "update" /\ \A x \in Clients \ {c} : client'[x] = client[x]
    BY <1>1, <2>1 DEF LoggedOut, SessionInv, NumberInv, TypeInv, TypeOK
  <2> QED BY <1>1, <1>2, <2>2, Drops
<1>7. FindSession(e, m) => client' = client \/ Dismiss(c)
  BY DEF FindSession
<1>8. ProcessPingRequest(e, m) => client' = client
  BY DEF ProcessPingRequest
<1> QED BY <1>1, <1>3, <1>4, <1>5, <1>6, <1>7, <1>8 DEF Abstract!Next

LEMMA HandlersHistory ==
  ASSUME SessionInv, SessionInv', NEW e \in Executors,
         \/ RejectFile(e) \/ StoreContent(e) \/ ListFile(e) \/ ProcessRemoveFile(e)
         \/ TerminateSession(e) \/ EraseSession(e) \/ RefuseVersion(e)
         \/ InsertNewVersion(e) \/ FailToInsert(e) \/ CleanUp(e)
         \/ FindFirst(e) \/ SendFile(e) \/ StopRestore(e)
  PROVE  [Abstract!Next]_(Abstract!vars)
<1> DEFINE c == exec[e].msg.from
<1>1. exec[e].at \in Steps
  BY DEF RejectFile, StoreContent, ListFile, ProcessRemoveFile, TerminateSession,
         EraseSession, RefuseVersion, InsertNewVersion, FailToInsert, CleanUp,
         FindFirst, SendFile, StopRestore, At, Steps
<1>2. c \in Clients /\ HandlerOwns(c, e)
  BY <1>1, Serving
<1>3. CASE db' = db /\ client' = client
  BY <1>3, SameClient
<1>4. CASE db' = db /\ Dismiss(c)
  BY <1>2, <1>4, DismissDrops DEF Abstract!Next
<1>5. CASE db' = db /\ Answer(c, client[c].view)
  BY <1>2, <1>5, SameView
<1>6. ASSUME StoreContent(e) \/ TerminateSession(e) \/ EraseSession(e) \/ FailToInsert(e)
      PROVE  db' = db /\ client' = client
  BY <1>6 DEF StoreContent, TerminateSession, EraseSession, FailToInsert
<1>7. ASSUME RefuseVersion(e) \/ CleanUp(e) \/ StopRestore(e)
      PROVE  db' = db /\ Dismiss(c)
  BY <1>7 DEF RefuseVersion, CleanUp, StopRestore
<1>8. FindFirst(e) => db' = db /\ (client' = client \/ Dismiss(c))
  BY DEF FindFirst
<1>9. RejectFile(e) => db' = db /\ (Answer(c, client[c].view) \/ Dismiss(c))
  BY DEF RejectFile
<1>10. CASE InsertNewVersion(e)
  BY <1>2, <1>10, Commits DEF Abstract!Next
<1>11. CASE ListFile(e)
  <2>1. /\ exec[e].at = "stored" /\ db' = db
        /\ \/ Answer(c, [client[c].view EXCEPT ![exec[e].msg.path] = exec[e].msg.date])
           \/ Answer(c, client[c].view)
    BY <1>11 DEF ListFile, At
  <2>2. exec[e].msg.path \in Paths /\ exec[e].msg.date \in Data
    BY <1>1, <2>1, BusyFields, MessageFields
       DEF SessionInv, NumberInv, TypeInv, HandlersReady, Ready
  <2>3. client[c].mode = "update"
    BY <1>2, <2>1 DEF HandlerOwns, UpdateSteps
  <2> QED BY <1>2, <1>5, <2>1, <2>2, <2>3, NewView DEF Abstract!Next
<1>12. CASE ProcessRemoveFile(e)
  <2>1. /\ exec[e].at = "RemoveFile" /\ db' = db
        /\ \/ Answer(c, [client[c].view EXCEPT ![exec[e].msg.path] = NoFile])
           \/ Answer(c, client[c].view)
    BY <1>12 DEF ProcessRemoveFile, At
  <2>2. exec[e].msg.path \in Paths
    BY <1>1, <2>1, BusyFields, MessageFields
       DEF SessionInv, NumberInv, TypeInv, HandlersReady, Ready
  <2>3. client[c].mode = "update"
    BY <1>2, <2>1 DEF HandlerOwns, UpdateSteps
  <2> QED BY <1>2, <1>5, <2>1, <2>2, <2>3, NewView DEF Abstract!Next
<1>13. CASE SendFile(e)
  <2>1. PICK todo, p : OfferFile(User(exec[e].msg), exec[e].tok, c, p) \/ UNCHANGED client
    BY <1>13, SendFileSteps DEF RestoreStep
  <2>2. /\ client'[c].mode = client[c].mode /\ client'[c].base = client[c].base
        /\ client'[c].view = client[c].view
        /\ \A d \in Clients \ {c} : client'[d] = client[d]
    BY <1>2, <2>1 DEF OfferFile, SessionInv, NumberInv, TypeInv, TypeOK, Client
  <2>3. \A d \in Clients : DraftOf(d)' = DraftOf(d)
    BY <2>2, DraftStays
  <2>4. db' = db
    BY <1>13 DEF SendFile
  <2> QED BY <2>3, <2>4, Stutters
<1> QED BY <1>3, <1>4, <1>5, <1>6, <1>7, <1>8, <1>9, <1>10, <1>11, <1>12, <1>13

LEMMA UseHistory ==
  ASSUME SessionInv, NEW c \in Clients, Use(c)
  PROVE  [Abstract!Next]_(Abstract!vars)
<1>1. db' = db
  BY DEF Use, StartUpdate, SendChange, StopUpdate, StartRestore, AckFile, SendPing, Abandon, Send
<1>2. CASE Abandon(c)
  BY <1>1, <1>2, DismissDrops DEF Abandon, Abstract!Next
<1>3. CASE SendPing(c)
  BY <1>1, <1>3, SameClient DEF SendPing
<1>4. ASSUME client' = [client EXCEPT ![c].busy = TRUE] PROVE UNCHANGED Abstract!vars
  <2>1. /\ client'[c].mode = client[c].mode /\ client'[c].base = client[c].base
        /\ client'[c].view = client[c].view
        /\ \A d \in Clients \ {c} : client'[d] = client[d]
    BY <1>4 DEF SessionInv, NumberInv, TypeInv, TypeOK, Client
  <2>2. \A d \in Clients : DraftOf(d)' = DraftOf(d)
    BY <2>1, DraftStays
  <2> QED BY <1>1, <2>2, Stutters
<1>5. ASSUME StartUpdate(c) \/ SendChange(c) \/ StopUpdate(c) \/ StartRestore(c)
      PROVE  client' = [client EXCEPT ![c].busy = TRUE]
  BY <1>5 DEF StartUpdate, SendChange, StopUpdate, StartRestore, Send
<1>6. ASSUME NEW ok \in BOOLEAN, AckFile(c, ok) PROVE UNCHANGED Abstract!vars
  <2>1. /\ client[c].mode = "restore" /\ client'[c].mode = "restore"
        /\ \A d \in Clients \ {c} : client'[d] = client[d]
    BY <1>6 DEF AckFile, SessionInv, NumberInv, TypeInv, TypeOK, Client
  <2>2. \A d \in Clients : DraftOf(d)' = DraftOf(d)
    BY <2>1 DEF DraftOf
  <2> QED BY <1>1, <2>2, Stutters
<1> QED BY <1>2, <1>3, <1>4, <1>5, <1>6 DEF Use

LEMMA NextHistory ==
  ASSUME SessionInv, SessionInv', Undisturbed, [Next]_vars
  PROVE  [Abstract!Next]_(Abstract!vars)
<1>1. ASSUME NEW e \in Executors, Execute(e) PROVE [Abstract!Next]_(Abstract!vars)
  <2>1. ~ NullVersion(e)
    BY VersionIsThere DEF NullVersion
  <2> QED BY <1>1, <2>1, StartsHistory, HandlersHistory DEF Execute
<1>2. CASE Crash
  <2>1. \A d \in Clients : /\ client'[d].mode = client[d].mode
                           /\ client'[d].base = client[d].base
                           /\ client'[d].view = client[d].view
    <3>1. client' = [c \in Clients |-> [client[c] EXCEPT !.busy = FALSE]]
      BY <1>2 DEF Crash, Restart
    <3>2. \A d \in Clients : client[d] \in Client
      BY DEF SessionInv, NumberInv, TypeInv, TypeOK
    <3> QED BY <3>1, <3>2 DEF Client
  <2>2. \A d \in Clients : DraftOf(d)' = DraftOf(d)
    BY <2>1, DraftStays
  <2> QED BY <1>2, <2>2, Stutters DEF Crash, Restart
<1>3. CASE UNCHANGED vars
  BY <1>3, SameClient DEF vars
<1>4. ~ \E u \in Users : SessionExpires(u)
  BY DEF SessionExpires, Undisturbed
<1> QED BY <1>1, <1>2, <1>3, <1>4, UseHistory, NothingToClean DEF Next

LEMMA InitHistory == ASSUME Init PROVE Abstract!Init
<1>1. ASSUME NEW u \in Users PROVE History[u] = <<>>
  <2>1. Recorded(u)
    BY InitSession, HistoryOf DEF SessionInv
  <2>2. DOMAIN db[u] = {}
    BY DEF Init
  <2> QED BY <2>1, <2>2 DEF Recorded, LastVersion, NO_VERSION
<1>2. History = [u \in Users |-> <<>>]
  BY <1>1 DEF History
<1>3. [c \in Clients |-> DraftOf(c)] = [c \in Clients |-> Null]
  BY DEF Init, DraftOf, LoggedOut
<1> QED BY <1>2, <1>3 DEF Abstract!Init

\* To its clients the server is VersionHistory: a commit appends, in one step,
\* exactly what the client's acknowledged requests have built up, to the
\* version its session was opened on, and nothing else changes a history
\* (processAddNewFile, processUpdateFile, processRemoveFile, processUpdateStop).
THEOREM RefinesHistory == Undisturbed => (Spec => ImplementsHistory)
<1> SUFFICES ASSUME Undisturbed PROVE Spec => ImplementsHistory
  OBVIOUS
<1>1. SessionInv /\ SessionInv' /\ [Next]_vars => [Abstract!Next]_(Abstract!vars)
  BY NextHistory
<1> QED BY <1>1, SessionsHold, InitHistory, PTL DEF Spec, ImplementsHistory, Abstract!Spec

==============================================================================
