------------------------------- MODULE Version -------------------------------
(***************************************************************************)
(* A version of a user's backup (class TVersion of Session.h), seen as the *)
(* set of files it lists: a function from client relative paths to file    *)
(* entries.  TVersion keeps the entries in a std::list; VersionList models *)
(* the list and its cursor and is checked to implement this module.        *)
(*                                                                         *)
(* An entry (class TFile) is                                               *)
(*   dir   the number of the version directory its content was stored in,  *)
(*         i.e. the last component of fServerPathPrefix;                   *)
(*   ver   fVersion, the version the entry belongs to;                     *)
(*   date  fLastMod.  The date travels with the content in every message,  *)
(*         so it also stands for the content the client sent.              *)
(***************************************************************************)
EXTENDS Naturals

CONSTANTS Paths,    \* client relative paths
          Data,     \* file dates, each standing for one content
          NoFile    \* "there is no file at this path"

ASSUME NoFileAssumption == NoFile \notin Data

Entry   == [dir : Nat, ver : Nat, date : Data]
FileMap == [Paths -> Entry \cup {NoFile}]
TVersion == [id : Nat, files : FileMap, removed : BOOLEAN]

\* What table Files keeps of an entry: ServerPath and LastModDate.
Row  == [dir : Nat, date : Data]
Rows == [Paths -> Row \cup {NoFile}]

ASSUME NoEntryAssumption == NoFile \notin Entry \cup Row

Listed(v) == {p \in Paths : v.files[p] # NoFile}

NO_VERSION == 0

NewVersion(id) ==
  [id |-> id, files |-> [p \in Paths |-> NoFile], removed |-> FALSE]

\* The entry of a file stored for a session whose base version is base.
NewFile(base, d) == [dir |-> base + 1, ver |-> base + 1, date |-> d]

\* An existing entry of the same path is replaced, otherwise one is appended.
AddFile(v, p, f) == [v EXCEPT !.files[p] = f]

UpdateFile(v, p, f) == IF p \in Listed(v) THEN AddFile(v, p, f) ELSE v

RemoveFile(v, p) ==
  IF p \in Listed(v)
    THEN [v EXCEPT !.files[p] = NoFile, !.removed = TRUE]
    ELSE v

\* A version is worth committing when it still lists a file and differs from
\* its base by a removal or by a file of the next version.
IsValid(v) ==
  /\ Listed(v) # {}
  /\ v.removed \/ \E p \in Listed(v) : v.files[p].ver > v.id

\* Every entry moves to the new version; the place of its content does not.
TerminateWithSuccess(v) ==
  [id |-> v.id + 1,
   files |-> [p \in Paths |->
                IF p \in Listed(v) THEN [v.files[p] EXCEPT !.ver = v.id + 1]
                                   ELSE NoFile],
   removed |-> v.removed]

\* The rows InsertNewVersion writes, and the version getVersion reads back.
RowsOf(v) ==
  [p \in Paths |->
     IF p \in Listed(v) THEN [dir |-> v.files[p].dir, date |-> v.files[p].date]
                        ELSE NoFile]

\* A slip: the version is numbered as the one being prepared.
LoadAsNext(id, rows) ==
  [id |-> id + 1,
   files |-> [p \in Paths |->
                IF rows[p] = NoFile THEN NoFile
                ELSE [dir |-> rows[p].dir, ver |-> id, date |-> rows[p].date]],
   removed |-> FALSE]

LoadVersion(id, rows) ==
  [id |-> id,
   files |-> [p \in Paths |->
                IF rows[p] = NoFile THEN NoFile
                ELSE [dir |-> rows[p].dir, ver |-> id, date |-> rows[p].date]],
   removed |-> FALSE]

\* The contents a version or its rows promise, path by path.
Contents == [Paths -> Data \cup {NoFile}]
NoContents == [p \in Paths |-> NoFile]
Promised(files) ==
  [p \in Paths |-> IF files[p] = NoFile THEN NoFile ELSE files[p].date]
==============================================================================
