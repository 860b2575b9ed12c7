------------------------------ MODULE VersionList ------------------------------
(***************************************************************************)
(* The life of one TVersion object (Session.h, Session.cpp): it is read    *)
(* from the rows of table Files, then either changed by the requests of an *)
(* update session and written back by InsertNewVersion, or sent file by    *)
(* file by a restore session.  A session's requests come one at a time.    *)
(*                                                                         *)
(* TVersion keeps its files in fFileList, a std::list, and the position of *)
(* the next file in fNext, an iterator that survives the requests.  Table  *)
(* Files has no key on the path: that a version lists a path once, and     *)
(* that each listed file is written once, is up to this class.             *)
(***************************************************************************)
EXTENDS Version, Sequences

CONSTANTS BaseVersion, \* the number of the version that is read, if any
          Dangling     \* fNext before it is set, or after its node is erased

ASSUME BaseAssumption == BaseVersion \in Nat \ {0}
ASSUME DanglingAssumption == Dangling \notin Nat

VARIABLES kind,     \* fKind of the session
          unread,   \* the rows the data reader has not returned yet
          list,     \* fFileList
          next,     \* fNext: an index of list, or 0 for end()
          id,       \* fId
          removed,  \* fSomethingRemoved
          stage,    \* where the session is
          tx,       \* the rows written by the open transaction, in order
          accepted  \* the files the client of a restore has accepted, in order
vars == <<kind, unread, list, next, id, removed, stage, tx, accepted>>

Node == [path : Paths, dir : Nat, ver : Nat, date : Data]
Stages == {"loading", "open", "inserting", "written", "refused",
           "sending", "waiting", "restored"}

TypeOK ==
  /\ kind \in {"update", "restore"}
  /\ unread \in Rows
  /\ list \in Seq(Node)
  /\ next \in 0..Len(list) \cup {Dangling}
  /\ id \in Nat
  /\ removed \in BOOLEAN
  /\ stage \in Stages
  /\ tx \in Seq(Node)
  /\ accepted \in Seq(Node)

NoRows == [p \in Paths |-> NoFile]

\* What table Files can hold of the version.  When the query returns no rows,
\* newSession leaves the session an empty NO_VERSION.
Stored == [Paths -> [dir : 1..BaseVersion, date : Data] \cup {NoFile}]

Init ==
  /\ kind \in {"update", "restore"}
  /\ unread \in Stored
  /\ id = IF unread = NoRows THEN NO_VERSION ELSE BaseVersion
  /\ list = <<>>
  /\ next = Dangling
  /\ removed = FALSE
  /\ stage = "loading"
  /\ tx = <<>>
  /\ accepted = <<>>

------------------------------------------------------------------------------
(* The methods of TVersion.                                                *)

Positions(s, p) == {i \in DOMAIN s : s[i].path = p}
First(s, p) == CHOOSE i \in Positions(s, p) : \A j \in Positions(s, p) : i <= j

\* The node of an equal path is replaced, otherwise one is put at the end.
Put(s, n) == IF Positions(s, n.path) = {} THEN Append(s, n)
             ELSE [s EXCEPT ![First(s, n.path)] = n]

\* std::list::erase.
Without(s, i) == SubSeq(s, 1, i - 1) \o SubSeq(s, i + 1, Len(s))

updateFile(n) ==
  list' = IF Positions(list, n.path) = {} THEN list ELSE Put(list, n)

\* A slip: the list is not searched for the path.
pushFile(n) ==
  /\ list' = Append(list, n)
  /\ next' = IF list = <<>> THEN 1 ELSE next

\* A slip: fNext is left as it was constructed.
addFileOnly(n) ==
  /\ list' = Put(list, n)
  /\ UNCHANGED next

addFile(n) ==
  /\ list' = Put(list, n)
  /\ next' = IF list = <<>> THEN 1 ELSE next

\* fNext when the node at position i is erased and fNext is not set anew.
Erased(i) == IF next \in {Dangling, i} THEN Dangling
             ELSE IF next < i THEN next ELSE next - 1

\* A slip: fNext is not moved away from the erased node.
eraseFile(p) ==
  IF Positions(list, p) = {}
    THEN UNCHANGED <<list, next, removed>>
    ELSE /\ list' = Without(list, First(list, p))
         /\ next' = Erased(First(list, p))
         /\ removed' = TRUE

\* A slip: fSomethingRemoved is not set.
forgetFile(p) ==
  IF Positions(list, p) = {}
    THEN UNCHANGED <<list, next, removed>>
    ELSE /\ list' = Without(list, First(list, p))
         /\ next' = IF Len(list) > 1 THEN 1 ELSE Erased(1)
         /\ UNCHANGED removed

removeFile(p) ==
  IF Positions(list, p) = {}
    THEN UNCHANGED <<list, next, removed>>
    ELSE /\ list' = Without(list, First(list, p))
         /\ next' = IF Len(list) > 1 THEN 1 ELSE Erased(1)
         /\ removed' = TRUE

isValid ==
  /\ list # <<>>
  /\ removed \/ \E i \in DOMAIN list : list[i].ver > id

terminateWithSuccess ==
  /\ id' = id + 1
  /\ list' = [i \in DOMAIN list |-> [list[i] EXCEPT !.ver = id + 1]]

\* getNextFile has a file to return, or returns null.
HasNext == list # <<>> /\ next \in DOMAIN list
AtEnd == list = <<>> \/ next = 0

\* A slip: the end of the list is not noticed.
stepNext == next' = next + 1
updateNext == next' = (next + 1) % (Len(list) + 1)

------------------------------------------------------------------------------
(* Reading the version: the order of the rows is not defined.              *)

ReadRow ==
  /\ stage = "loading"
  /\ \E p \in Listed([files |-> unread]) :
       /\ addFile([path |-> p, dir |-> unread[p].dir, ver |-> id,
                   date |-> unread[p].date])
       /\ unread' = [unread EXCEPT ![p] = NoFile]
  /\ UNCHANGED <<kind, id, removed, stage, tx, accepted>>

StartSession ==
  /\ stage = "loading"
  /\ unread = NoRows
  /\ stage' = IF kind = "update" THEN "open" ELSE "sending"
  /\ UNCHANGED <<kind, unread, list, next, id, removed, tx, accepted>>

(* The requests of an update session.                                      *)

NewNode(p, d) == [path |-> p, dir |-> id + 1, ver |-> id + 1, date |-> d]

AddNewFile ==
  /\ stage = "open"
  /\ \E p \in Paths, d \in Data : addFile(NewNode(p, d))
  /\ UNCHANGED <<kind, unread, id, removed, stage, tx, accepted>>

UpdateListedFile ==
  /\ stage = "open"
  /\ \E p \in Paths, d \in Data : updateFile(NewNode(p, d))
  /\ UNCHANGED <<kind, unread, next, id, removed, stage, tx, accepted>>

\* The path prefix of version 0 is refused: see StorageServer.
RemoveListedFile ==
  /\ stage = "open"
  /\ id > 0
  /\ \E p \in Paths : removeFile(p)
  /\ UNCHANGED <<kind, unread, id, stage, tx, accepted>>

StopUpdate ==
  /\ stage = "open"
  /\ \/ /\ isValid
        /\ terminateWithSuccess
        /\ stage' = "inserting"
     \/ /\ ~ isValid
        /\ stage' = "refused"
        /\ UNCHANGED <<id, list>>
  /\ UNCHANGED <<kind, unread, next, removed, tx, accepted>>

(* The loop of InsertNewVersion.                                           *)

InsertFile ==
  /\ stage = "inserting"
  /\ HasNext
  /\ tx' = Append(tx, list[next])
  /\ updateNext
  /\ UNCHANGED <<kind, unread, list, id, removed, stage, accepted>>

CommitFiles ==
  /\ stage = "inserting"
  /\ AtEnd
  /\ stage' = "written"
  /\ UNCHANGED <<kind, unread, list, next, id, removed, tx, accepted>>

(* A restore session.                                                      *)

SendNextFile ==
  /\ stage = "sending"
  /\ \/ HasNext /\ stage' = "waiting"
     \/ AtEnd /\ stage' = "restored"
  /\ UNCHANGED <<kind, unread, list, next, id, removed, tx, accepted>>

\* A slip: fNext moves on whatever the acknowledgement says.
AckAnyway ==
  /\ stage = "waiting"
  /\ stage' = "sending"
  /\ updateNext
  /\ accepted' \in {accepted, Append(accepted, list[next])}
  /\ UNCHANGED <<kind, unread, list, id, removed, tx>>

\* A file that is not accepted is sent again.
RestoreFileAck ==
  /\ stage = "waiting"
  /\ stage' = "sending"
  /\ \/ /\ updateNext
        /\ accepted' = Append(accepted, list[next])
     \/ UNCHANGED <<next, accepted>>
  /\ UNCHANGED <<kind, unread, list, id, removed, tx>>

Next ==
  \/ ReadRow \/ StartSession
  \/ AddNewFile \/ UpdateListedFile \/ RemoveListedFile \/ StopUpdate
  \/ InsertFile \/ CommitFiles
  \/ SendNextFile \/ RestoreFileAck

\* InsertNewVersion runs to its end once it has begun.
Spec == Init /\ [][Next]_vars /\ WF_vars(InsertFile \/ CommitFiles)

------------------------------------------------------------------------------
(* Properties.                                                             *)

\* Whenever the list has files, fNext is an iterator into it: getNextFile and
\* updateNext never follow an iterator that was not set or whose node removeFile
\* has erased (Session.cpp, addFile and removeFile).
CursorValid == list # <<>> => next # Dangling

\* No path is listed twice, whatever the order of the rows and the requests:
\* the database would accept a second row for it.
PathsUnique ==
  \A i, j \in DOMAIN list : list[i].path = list[j].path => i = j

\* A restore that has ended has sent every file once, in the list's order: the
\* loop of acknowledgements (StorageServer.cpp, processRestoreFileAck) neither
\* skips nor repeats one that was accepted.
RestoreComplete == stage = "restored" => accepted = list

\* The loop of InsertNewVersion comes to its end.
InsertEnds == stage = "inserting" ~> stage = "written"

\* The list with its cursor behaves as the set of files of module Version, and
\* what InsertNewVersion writes is one row for each file of that set.
EntryOf(n) == [dir |-> n.dir, ver |-> n.ver, date |-> n.date]
RowOf(n) == [dir |-> n.dir, date |-> n.date]

\* What a path has in a list; a path that is there twice has no place in a set.
Once(at) == \E i \in at : at = {i}
EntryAt(s, p) ==
  IF Positions(s, p) = {} THEN NoFile
  ELSE IF Once(Positions(s, p)) THEN EntryOf(s[First(s, p)]) ELSE Dangling
RowAt(s, p) ==
  IF Positions(s, p) = {} THEN NoFile
  ELSE IF Once(Positions(s, p)) THEN RowOf(s[First(s, p)]) ELSE Dangling

\* While rows are read, the version is the one they will make.
UnreadEntry(p) == [dir |-> unread[p].dir, ver |-> id, date |-> unread[p].date]
Draft ==
  [id |-> id, removed |-> removed,
   files |-> [p \in Paths |-> IF unread[p] # NoFile THEN UnreadEntry(p)
                              ELSE EntryAt(list, p)]]
DraftStage ==
  IF stage = "inserting" THEN "closed"
  ELSE IF stage \in {"written", "refused"} THEN stage ELSE "open"
DraftRows ==
  [p \in Paths |-> IF stage = "written" THEN RowAt(tx, p) ELSE NoFile]

Abstract ==
  INSTANCE VersionDraft
    WITH Sources <- {NewVersion(NO_VERSION)} \cup
                    {LoadVersion(BaseVersion, r) : r \in Stored \ {NoRows}},
         version <- Draft, stage <- DraftStage,
         rows <- DraftRows
ImplementsDraft == Abstract!Spec
==============================================================================
