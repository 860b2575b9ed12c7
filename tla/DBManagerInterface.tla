--------------------------- MODULE DBManagerInterface ---------------------------
(***************************************************************************)
(* What IDBManagerInterface promises the handlers of the server: a call    *)
(* either has its whole effect and says so, or ends in an EDBException and *)
(* has none.  A server that stops may leave an effect without an answer,   *)
(* never an answer without the effect.                                     *)
(*                                                                         *)
(* A stored row is named by the request that asked for it.                 *)
(***************************************************************************)
EXTENDS Naturals

CONSTANT Requests  \* the messages the server handles, each once

VARIABLES stored,  \* the registrations and commits that are in the database
          replies  \* the answers given: [req, ok, last]

\* The accounts and the versions have a key: the name, and name and number.
SameKey(r, s) == r.op = s.op /\ r.user = s.user /\ r.ver = s.ver

Answered(r) == \E a \in replies : a.req = r

\* The number getLastVersion finds for a user; 0 when there is no version.
Versions(u) == {0} \cup {r.ver : r \in {s \in stored : s.op = "commit" /\ s.user = u}}
LastVersion(u) == CHOOSE n \in Versions(u) : \A m \in Versions(u) : m <= n

Knows(r) == \E s \in stored : s.op = "register" /\ s.user = r.user /\ s.pass = r.pass

Init == stored = {} /\ replies = {}

Reply(r, ok, last) == replies' = replies \cup {[req |-> r, ok |-> ok, last |-> last]}

\* The effect comes with the answer, or the server stops before it answers.
Store(r) ==
  /\ r.op \in {"register", "commit"}
  /\ ~ Answered(r)
  /\ \A s \in stored : ~ SameKey(r, s)
  /\ stored' = stored \cup {r}
  /\ Reply(r, TRUE, 0) \/ UNCHANGED replies

\* A login, or a query with the credentials of its user.
Read(r, last) ==
  /\ r.op \in {"login", "last"}
  /\ ~ Answered(r)
  /\ Knows(r)
  /\ r.op = "last" => last = LastVersion(r.user)
  /\ Reply(r, TRUE, last)
  /\ UNCHANGED stored

\* An EDBException, answered by the handler: nothing has been stored.
Refuse(r) ==
  /\ ~ Answered(r)
  /\ r \notin stored
  /\ Reply(r, FALSE, 0)
  /\ UNCHANGED stored

Next ==
  \E r \in Requests :
    \/ Store(r) \/ Refuse(r)
    \/ \E last \in {0} \cup {s.ver : s \in Requests} : Read(r, last)

Spec == Init /\ [][Next]_<<stored, replies>>
================================================================================
