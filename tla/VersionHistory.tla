---------------------------- MODULE VersionHistory ----------------------------
(***************************************************************************)
(* What the storage server promises its users: every user has a history of *)
(* versions that only grows.  A client opens a draft of the latest version,*)
(* changes it path by path, and either adds it to the history in one step  *)
(* or loses it.  A draft is added only to the version it was opened on, so *)
(* no change another device has committed is ever undone by it.            *)
(***************************************************************************)
EXTENDS Naturals, Sequences

CONSTANTS Users, Clients,
          UserOf,         \* the user each client works for
          Paths, Data, NoFile, NoDraft

VARIABLES history,  \* history[u] is the sequence of u's versions
          draft     \* draft[c] is what c's next version will contain, if any
vars == <<history, draft>>

Empty == [p \in Paths |-> NoFile]

Init ==
  /\ history = [u \in Users |-> <<>>]
  /\ draft = [c \in Clients |-> NoDraft]

Latest(u) == IF history[u] = <<>> THEN Empty ELSE history[u][Len(history[u])]

Open(c) ==
  /\ draft[c] = NoDraft
  /\ draft' = [draft EXCEPT ![c] = [base |-> Len(history[UserOf[c]]),
                                    files |-> Latest(UserOf[c])]]
  /\ UNCHANGED history

Change(c) ==
  /\ draft[c] # NoDraft
  /\ \E p \in Paths, d \in Data \cup {NoFile} :
       draft' = [draft EXCEPT ![c].files[p] = d]
  /\ UNCHANGED history

Commit(c) ==
  /\ draft[c] # NoDraft
  /\ draft[c].files # Empty
  /\ draft[c].base = Len(history[UserOf[c]])
  /\ history' = [history EXCEPT ![UserOf[c]] = Append(@, draft[c].files)]
  /\ draft' = [draft EXCEPT ![c] = NoDraft]

Drop(c) ==
  /\ draft' = [draft EXCEPT ![c] = NoDraft]
  /\ UNCHANGED history

Next == \E c \in Clients : Open(c) \/ Change(c) \/ Commit(c) \/ Drop(c)

Spec == Init /\ [][Next]_vars
===============================================================================
