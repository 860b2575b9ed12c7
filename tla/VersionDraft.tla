----------------------------- MODULE VersionDraft -----------------------------
(***************************************************************************)
(* One update session as the rest of the server sees it: a version, a set  *)
(* of files, that is changed path by path and then either refused or       *)
(* written to the database as it is.  VersionList implements it.           *)
(***************************************************************************)
EXTENDS Version

CONSTANT Sources  \* the versions a session can be opened on

VARIABLES version,  \* what the session's version lists
          stage,    \* "open", "closed", "written" or "refused"
          rows      \* the rows of the new version in table Files
vars == <<version, stage, rows>>

NoRows == [p \in Paths |-> NoFile]

Init ==
  /\ version \in Sources
  /\ stage = "open"
  /\ rows = NoRows

Change ==
  /\ stage = "open"
  /\ \E p \in Paths :
       \/ \E d \in Data :
            LET f == NewFile(version.id, d)
            IN version' \in {AddFile(version, p, f), UpdateFile(version, p, f)}
       \/ version' = RemoveFile(version, p)
  /\ UNCHANGED <<stage, rows>>

Refuse ==
  /\ stage = "open"
  /\ ~ IsValid(version)
  /\ stage' = "refused"
  /\ UNCHANGED <<version, rows>>

Close ==
  /\ stage = "open"
  /\ IsValid(version)
  /\ stage' = "closed"
  /\ version' = TerminateWithSuccess(version)
  /\ UNCHANGED rows

Write ==
  /\ stage = "closed"
  /\ stage' = "written"
  /\ rows' = RowsOf(version)
  /\ UNCHANGED version

Next == Change \/ Refuse \/ Close \/ Write

Spec == Init /\ [][Next]_vars
===============================================================================
