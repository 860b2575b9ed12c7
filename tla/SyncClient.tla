------------------------------- MODULE SyncClient -------------------------------
(***************************************************************************)
(* TStorageClient::updateCurrentVersion on one device: its directory, its  *)
(* SQLite list of files and its dialogue with the server, message by       *)
(* message.  The server is what this client sees of it; other devices      *)
(* commit versions between the sessions of this one.                       *)
(*                                                                         *)
(* A content is a number, a new one whenever somebody writes, and 0 for a  *)
(* file of length 0; a checksum is the content.  A place is a file at some *)
(* depth: 0 in the root, 1 in LOCAL_NO_SYNCH, 2 in the LOCAL_NO_SYNCH of   *)
(* that.                                                                   *)
(***************************************************************************)
EXTENDS Naturals, Sequences, FiniteSets

CONSTANTS Files,      \* the names of files
          CanBeEmpty, \* the files that may have length 0
          OwnDirectories, \* directories without files that the user may make
          Earlier,    \* how many versions the account has at first: 0 or 1
          Faults,     \* the kinds of faults that happen, and "ahead", which is none:
                      \* an answer that arrives with the line before it
          OthersMeanwhile, \* may another device commit while this one updates?
          MaxEdits, MaxOthers, MaxFaults  \* bounds

ASSUME SyncAssumption ==
  /\ CanBeEmpty \subseteq Files
  /\ Earlier \in 0..1
  /\ Faults \subseteq {"ahead", "lose", "error", "garble", "disk", "crash"}
  /\ OthersMeanwhile \in BOOLEAN
  /\ {MaxEdits, MaxOthers, MaxFaults} \subseteq Nat

VARIABLES pc,         \* where updateCurrentVersion is
          wire,       \* the message on its way; the client waits for each answer
          folder,     \* the files of the directory: contents by place
          dirs,       \* the directories in its root
          local,      \* the rows of t_files
          lastServer, lastLocal, version, fl, todo,  \* locals of the client
          hist,       \* the committed versions: contents by place
          session,    \* the session of this device on the server
          draft,      \* what it lists, or has still to send in a restore
          changed,    \* a file was added to or removed from the draft
          claimed,    \* the version the user is told the directory has
          edited,     \* the user has changed the directory since the start
          written,    \* what the user last wrote outside of a restore, by file
          edits, others, faults
client == <<lastServer, lastLocal, version, fl, todo>>
server == <<hist, session, draft, changed>>
user == <<edited, written, edits, others>>
vars == <<pc, wire, folder, dirs, local, client, server, claimed, user, faults>>

MaxDepth == 2
Directories == OwnDirectories \cup {"LOCAL_NO_SYNCH"}
Places == Files \X (0..MaxDepth)
Contents == 0..(MaxEdits + MaxOthers + 1)
Listings == UNION {[S -> Contents] : S \in SUBSET Places}

Put(l, p, c) == [q \in DOMAIN l \cup {p} |-> IF q = p THEN c ELSE l[q]]
Drop(l, p) == [q \in DOMAIN l \ {p} |-> l[q]]
Root(l) == [q \in {p \in DOMAIN l : p[2] = 0} |-> l[q]]
Fresh == edits + others + 2

NoMessage == [to |-> "nobody"]
Ask(kind, p, c) == wire' = [to |-> "server", kind |-> kind, place |-> p, content |-> c]
Answer(kind, p, c) == wire' = [to |-> "client", kind |-> kind, place |-> p, content |-> c]
NoPlace == <<>>

Row(p, c, v, remove) == [place |-> p, sum |-> c, ver |-> v, toRemove |-> remove]
\* SELECT MAX(version): 0 when there is no row.
LocalVersion == IF local = {} THEN 0
                ELSE (CHOOSE r \in local : \A s \in local : s.ver <= r.ver).ver
RowsOf(v) == {r \in local : r.ver = v}
\* The update has found a newer version and restores it.
Restoring == lastServer > lastLocal
MovingFiles == pc \in {"aside", "restore", "receive", "putback"} \cup
                     (IF Restoring THEN {"clear", "insert"} ELSE {})
\* fl is a null pointer until it has a row.
NullList == lastLocal = 0 /\ fl = {}

Working == {"version", "aside", "restore", "receive", "clear", "insert", "putback", "start",
            "send", "added", "remove", "removed", "stop"}

TypeOK ==
  /\ pc \in Working \cup {"idle", "silent", "dead"}
  /\ wire.to \in {"nobody", "server", "client"}
  /\ folder \in Listings /\ dirs \subseteq Directories
  /\ \A r \in local \cup fl : r.place \in Places /\ r.sum \in Contents
  /\ \A r \in local : r.ver \in 1..Len(hist) + 1
  /\ \A i \in DOMAIN hist : hist[i] \in Listings
  /\ {lastServer, lastLocal, version, claimed} \subseteq 0..Len(hist)
  /\ todo \subseteq Places
  /\ session \in {"none", "update", "restore"}
  /\ draft \in Listings
  /\ session = "none" => draft = <<>> /\ ~ changed
  /\ written \in UNION {[S -> Contents] : S \in SUBSET Files}
  /\ edits \in 0..MaxEdits /\ others \in 0..MaxOthers /\ faults \in 0..MaxFaults

Init ==
  /\ pc = "idle"
  /\ wire = NoMessage
  /\ folder = <<>> /\ dirs = {}
  /\ local = {}
  /\ lastServer = 0 /\ lastLocal = 0 /\ version = 0
  /\ fl = {} /\ todo = {}
  /\ hist \in IF Earlier = 0 THEN {<<>>} ELSE {<<Put(<<>>, <<f, 0>>, 1)>> : f \in Files}
  /\ session = "none" /\ draft = <<>> /\ changed = FALSE
  /\ claimed = 0
  /\ edited = TRUE
  /\ written = <<>>
  /\ edits = 0 /\ others = 0 /\ faults = 0

------------------------------------------------------------------------------
(* The directory belongs to the user, the account to several devices.      *)

UserWrites(f) ==
  \E c \in {Fresh} \cup (IF f \in CanBeEmpty THEN {0} ELSE {}) :
    /\ folder' = Put(folder, <<f, 0>>, c)
    /\ written' = IF MovingFiles
                    THEN Drop(written, f) ELSE Put(written, f, c)

UserDeletes(f) ==
  /\ <<f, 0>> \in DOMAIN folder
  /\ folder' = Drop(folder, <<f, 0>>)
  /\ written' = Drop(written, f)

UserEdits ==
  /\ edits < MaxEdits
  /\ edits' = edits + 1
  /\ edited' = TRUE
  /\ claimed' = 0
  /\ \E f \in Files : UserWrites(f) \/ UserDeletes(f)
  /\ UNCHANGED <<pc, wire, dirs, local, client, server, others, faults>>

\* A directory without files is made or removed.
UserChangesDirectories ==
  /\ \E d \in Directories : dirs' = (dirs \ {d}) \cup ({d} \ dirs)
  /\ "LOCAL_NO_SYNCH" \in dirs' \/ \A p \in DOMAIN folder : p[2] = 0
  /\ UNCHANGED <<pc, wire, folder, local, client, server, claimed, user, faults>>

LastOf(h) == IF h = <<>> THEN <<>> ELSE h[Len(h)]

\* The sessions of a user exclude each other.
OtherDeviceCommits ==
  /\ session = "none"
  /\ OthersMeanwhile \/ pc \in {"idle", "dead"}
  /\ others < MaxOthers
  /\ others' = others + 1
  /\ \E f \in Files : hist' = Append(hist, Put(LastOf(hist), <<f, 0>>, Fresh))
  /\ UNCHANGED <<pc, wire, folder, dirs, local, client, session, draft, changed, claimed,
                 edited, written, edits, faults>>

------------------------------------------------------------------------------
(* The server.                                                             *)

Asked(kind) == wire.to = "server" /\ wire.kind = kind
ServerOnly == UNCHANGED <<pc, folder, dirs, local, client, claimed, user, faults>>
\* Slips: the draft stays, or the session.
CloseOnly == session' = "none" /\ UNCHANGED <<draft, changed>>
KeepSession == draft' = <<>> /\ changed' = FALSE /\ UNCHANGED session
CloseSession == session' = "none" /\ draft' = <<>> /\ changed' = FALSE
OpenSession(kind, l) == session' = kind /\ draft' = l /\ changed' = FALSE

GetLastVersion ==
  /\ Asked("version")
  /\ Answer("version", NoPlace, Len(hist))
  /\ UNCHANGED server
  /\ ServerOnly

UpdateStart ==
  /\ Asked("start")
  /\ IF session = "none"
       THEN OpenSession("update", LastOf(hist)) /\ Answer("ok", NoPlace, 0)
       ELSE UNCHANGED <<session, draft, changed>> /\ Answer("error", NoPlace, 0)
  /\ UNCHANGED hist
  /\ ServerOnly

AddNewFile ==
  /\ Asked("add")
  /\ draft' = Put(draft, wire.place, wire.content)
  /\ changed' = TRUE
  /\ Answer("ok", wire.place, wire.content)
  /\ UNCHANGED <<hist, session>>
  /\ ServerOnly

RemoveFile ==
  /\ Asked("remove")
  /\ draft' = Drop(draft, wire.place)
  /\ changed' = (changed \/ wire.place \in DOMAIN draft)
  /\ Answer("ok", wire.place, 0)
  /\ UNCHANGED <<hist, session>>
  /\ ServerOnly

\* A draft that is empty or as its base is no version.
UpdateStop ==
  /\ Asked("stop")
  /\ CloseSession
  /\ IF draft # <<>> /\ changed
       THEN hist' = Append(hist, draft) /\ Answer("ok", NoPlace, Len(hist) + 1)
       ELSE UNCHANGED hist /\ Answer("ok", NoPlace, 0)
  /\ ServerOnly

Offer(kind, l) == \E p \in DOMAIN l : Answer(kind, p, l[p])

\* Two messages, the reply and the first file: "begin" is the line of the reply
\* with the file as the line behind it.
RestoreVersion ==
  /\ Asked("restore")
  /\ IF session = "none"
       THEN OpenSession("restore", hist[wire.content]) /\ Offer("begin", hist[wire.content])
       ELSE UNCHANGED <<session, draft, changed>> /\ Answer("error", NoPlace, 0)
  /\ UNCHANGED hist
  /\ ServerOnly

\* A file that could not be stored is sent again.
RestoreFileAck ==
  /\ \/ /\ Asked("nack")
        /\ Answer("file", wire.place, draft[wire.place])
        /\ UNCHANGED <<session, draft, changed>>
     \/ /\ Asked("ack")
        /\ LET left == Drop(draft, wire.place) IN
           IF left = <<>>
             THEN CloseSession /\ Answer("stop", NoPlace, 0)
             ELSE draft' = left /\ Offer("file", left) /\ UNCHANGED <<session, changed>>
  /\ UNCHANGED hist
  /\ ServerOnly

\* The cleaner: the client pings only while it works in the session.
SessionExpires ==
  /\ session # "none"
  /\ pc \in {"idle", "version", "aside", "dead"}
  /\ CloseSession
  /\ UNCHANGED <<hist, wire>>
  /\ ServerOnly

Server == \/ GetLastVersion \/ UpdateStart \/ AddNewFile \/ RemoveFile \/ UpdateStop
          \/ RestoreVersion \/ RestoreFileAck

------------------------------------------------------------------------------
(* The client.                                                             *)

GoOn(s) == pc' = s /\ wire' = NoMessage
Answered(s, kind) == pc = s /\ wire.to = "client" /\ wire.kind = kind
ClientOnly == UNCHANGED <<server, user, faults>>

\* onUpdateError: the next update is started by the timer.
Fails == GoOn("idle") /\ UNCHANGED claimed
\* onUpdateSuccess, with what the window then says of the directory.
Success(v) == GoOn("idle") /\ claimed' = IF edited THEN 0 ELSE v

UpdateCurrentVersion ==
  /\ pc = "idle"
  /\ pc' = "version"
  /\ Ask("version", NoPlace, 0)
  /\ claimed' = 0
  /\ edited' = FALSE
  /\ UNCHANGED <<folder, dirs, local, client, server, written, edits, others, faults>>

\* Any entry counts, a directory without files too.
isDirectoryEmpty == folder = <<>> /\ dirs = {}

ReadLastVersion ==
  /\ Answered("version", "version")
  /\ lastServer' = wire.content
  /\ lastLocal' = IF wire.content = 0 THEN 0 ELSE LocalVersion
  /\ fl' = {}
  /\ todo' = DOMAIN folder
  /\ \/ /\ lastServer' > lastLocal'
        /\ GoOn("aside")
     \/ /\ lastServer' <= lastLocal' /\ isDirectoryEmpty
        /\ GoOn("idle")
     \/ /\ lastServer' <= lastLocal' /\ ~ isDirectoryEmpty
        /\ pc' = "start"
        /\ Ask("start", NoPlace, 0)
  /\ UNCHANGED <<folder, dirs, local, version, claimed>>
  /\ ClientOnly

\* A file at some depth needs its directory.
MakeDir(depth) == dirs' = IF depth > 0 THEN dirs \cup {"LOCAL_NO_SYNCH"} ELSE dirs

\* One file of moveAllFiles; rename replaces what has the new name.  The user
\* may have deleted the file since the directory was read.
Move(p, depth) ==
  /\ IF p \in DOMAIN folder
       THEN folder' = Put(Drop(folder, p), <<p[1], depth>>, folder[p]) /\ MakeDir(depth)
       ELSE UNCHANGED <<folder, dirs>>
  /\ todo' = todo \ {p}

\* A slip: the restore begins at once, over the files of the user.
RestoreOver ==
  /\ pc = "aside"
  /\ pc' = "restore"
  /\ Ask("restore", NoPlace, lastServer)
  /\ UNCHANGED <<folder, dirs, todo>>
  /\ UNCHANGED <<local, lastServer, lastLocal, version, fl, claimed>>
  /\ ClientOnly

\* moveAllFiles(root, local): LOCAL_NO_SYNCH itself is one of the entries.
SetAside ==
  /\ pc = "aside"
  /\ \/ /\ \E p \in todo : p[2] < MaxDepth /\ Move(p, p[2] + 1)
        /\ UNCHANGED <<pc, wire>>
     \/ /\ \A p \in todo : p[2] = MaxDepth
        /\ pc' = "restore"
        /\ Ask("restore", NoPlace, lastServer)
        /\ UNCHANGED <<folder, dirs, todo>>
  /\ UNCHANGED <<local, lastServer, lastLocal, version, fl, claimed>>
  /\ ClientOnly

\* The reply to the request; the first file is the next line.
RestoreBegins ==
  /\ Answered("restore", "begin")
  /\ pc' = "receive"
  /\ Answer("file", wire.place, wire.content)
  /\ UNCHANGED <<folder, dirs, local, client, claimed>>
  /\ ClientOnly

StoreFile ==
  /\ Answered("receive", "file")
  /\ folder' = Put(folder, wire.place, wire.content)
  /\ MakeDir(wire.place[2])
  /\ fl' = fl \cup {Row(wire.place, wire.content, lastServer, FALSE)}
  /\ Ask("ack", wire.place, 0)
  /\ UNCHANGED <<pc, local, lastServer, lastLocal, version, todo, claimed>>
  /\ ClientOnly

MayFail(kind) == kind \in Faults /\ faults < MaxFaults /\ faults' = faults + 1

\* The checksum does not match: no acknowledgement, and the next file is
\* awaited.  A file that cannot be stored is refused.
RejectFile ==
  /\ Answered("receive", "file")
  /\ \/ MayFail("garble") /\ wire' = NoMessage
     \/ MayFail("disk") /\ Ask("nack", wire.place, 0)
  /\ UNCHANGED <<pc, folder, dirs, local, client, server, claimed, user>>

\* A slip: the loop is not left.
RestoreGoesOn ==
  /\ Answered("receive", "stop")
  /\ wire' = NoMessage
  /\ UNCHANGED <<pc, folder, dirs, local, client, claimed>>
  /\ ClientOnly

RestoreStop ==
  /\ Answered("receive", "stop")
  /\ version' = lastServer
  /\ GoOn("clear")
  /\ UNCHANGED <<folder, dirs, local, lastServer, lastLocal, fl, todo, claimed>>
  /\ ClientOnly

\* moveAllFiles(local, root), then removeDir(local) with what is left in it.
LeaveRestore ==
  /\ GoOn("putback")
  /\ todo' = {p \in DOMAIN folder : p[2] > 0}
  /\ UNCHANGED claimed

RestoreError ==
  /\ Answered("restore", "error") \/ Answered("receive", "error")
  /\ LeaveRestore
  /\ UNCHANGED <<folder, dirs, local, lastServer, lastLocal, version, fl>>
  /\ ClientOnly

PutBack ==
  /\ pc = "putback"
  /\ \/ /\ \E p \in todo : Move(p, p[2] - 1)
        /\ UNCHANGED <<pc, wire, claimed>>
     \/ /\ todo = {}
        /\ folder' = Root(folder)
        /\ dirs' = dirs \ {"LOCAL_NO_SYNCH"}
        /\ Fails
        /\ UNCHANGED todo
  /\ UNCHANGED <<local, lastServer, lastLocal, version, fl>>
  /\ ClientOnly

------------------------------------------------------------------------------
(* Sending the changes.                                                    *)

UpdateStarted ==
  /\ Answered("start", "ok")
  /\ fl' = {[r EXCEPT !.toRemove = TRUE] : r \in RowsOf(lastLocal)}
  /\ todo' = DOMAIN folder
  /\ GoOn("send")
  /\ UNCHANGED <<folder, dirs, local, lastServer, lastLocal, version, claimed>>
  /\ ClientOnly

UpdateRefused ==
  /\ Answered("version", "error") \/ Answered("start", "error")
  /\ Fails
  /\ UNCHANGED <<folder, dirs, local, client>>
  /\ ClientOnly

\* A slip: a file that is in the list is taken for unchanged.
IsListed(p, r) == r.place = p
\* readFile returns no content for a file of length 0.
IsUnchanged(p, r) == r.place = p /\ folder[p] \in {0, r.sum}

\* processFile up to its message: a file that is unchanged only moves its row
\* to the next version.
ProcessFile ==
  /\ pc = "send"
  /\ \E p \in todo :
       LET rows == {r \in fl : r.place = p} IN
       \/ /\ p \notin DOMAIN folder
          /\ todo' = todo \ {p}
          /\ UNCHANGED <<pc, wire, fl>>
       \/ /\ p \in DOMAIN folder /\ \E r \in rows : IsUnchanged(p, r)
          /\ todo' = todo \ {p}
          /\ fl' = (fl \ rows) \cup {Row(p, r.sum, r.ver + 1, FALSE) : r \in rows}
          /\ UNCHANGED <<pc, wire>>
       \/ /\ p \in DOMAIN folder /\ ~ \E r \in rows : IsUnchanged(p, r)
          /\ todo' = todo \ {p}
          /\ fl' = fl \ rows
          /\ pc' = "added"
          /\ Ask("add", p, folder[p])
  /\ UNCHANGED <<folder, dirs, local, lastServer, lastLocal, version, claimed>>
  /\ ClientOnly

\* A slip: the row gets the version the session starts from.
ThisVersion == lastServer
NextVersion == lastServer + 1

FileAdded ==
  /\ Answered("added", "ok")
  /\ fl' = fl \cup {Row(wire.place, wire.content, NextVersion, FALSE)}
  /\ GoOn("send")
  /\ UNCHANGED <<folder, dirs, local, lastServer, lastLocal, version, todo, claimed>>
  /\ ClientOnly

\* onUpdateError, and then fl->clear(), which ends the process when fl is null.
FileRefused ==
  /\ Answered("added", "error")
  /\ IF NullList THEN GoOn("dead") /\ UNCHANGED claimed ELSE Fails
  /\ UNCHANGED <<folder, dirs, local, client>>
  /\ ClientOnly

\* removeFiles begins with fl->begin().
StartRemoving ==
  /\ pc = "send" /\ todo = {}
  /\ todo' = {r.place : r \in {x \in fl : x.toRemove}}
  /\ GoOn(IF NullList THEN "dead" ELSE "remove")
  /\ UNCHANGED <<folder, dirs, local, lastServer, lastLocal, version, fl, claimed>>
  /\ ClientOnly

RemoveNext ==
  /\ pc = "remove"
  /\ \E p \in todo : todo' = todo \ {p} /\ Ask("remove", p, 0)
  /\ pc' = "removed"
  /\ UNCHANGED <<folder, dirs, local, lastServer, lastLocal, version, fl, claimed>>
  /\ ClientOnly

\* The result of removeFiles is not looked at.
FileRemoved ==
  /\ Answered("removed", "ok") \/ Answered("removed", "error")
  /\ todo' = IF wire.kind = "ok" THEN todo ELSE {}
  /\ GoOn("remove")
  /\ UNCHANGED <<folder, dirs, local, lastServer, lastLocal, version, fl, claimed>>
  /\ ClientOnly

StopUpdate ==
  /\ pc = "remove" /\ todo = {}
  /\ pc' = "stop"
  /\ Ask("stop", NoPlace, 0)
  /\ UNCHANGED <<folder, dirs, local, client, claimed>>
  /\ ClientOnly

\* After an error the server has sent the window is not told anything; it is
\* when the request could not be sent.
UpdateStopped ==
  /\ \/ /\ Answered("stop", "ok") /\ wire.content > 0
        /\ version' = wire.content
        /\ GoOn("clear")
        /\ UNCHANGED claimed
     \/ /\ Answered("stop", "ok") /\ wire.content = 0
        /\ Success(lastServer)
        /\ UNCHANGED version
     \/ /\ Answered("stop", "error")
        /\ GoOn("silent") \/ GoOn("idle")
        /\ UNCHANGED <<version, claimed>>
  /\ UNCHANGED <<folder, dirs, local, lastServer, lastLocal, fl, todo>>
  /\ ClientOnly

------------------------------------------------------------------------------
(* The local list is replaced: one transaction for the rows that go and    *)
(* one for each that comes.                                                *)

RemoveFileList ==
  /\ pc = "clear"
  /\ local' = {}
  /\ GoOn("insert")
  /\ UNCHANGED <<folder, dirs, client, claimed>>
  /\ ClientOnly

InsertFileList ==
  /\ pc = "insert"
  /\ \/ \E r \in fl :
          /\ local' = local \cup {[r EXCEPT !.toRemove = FALSE]}
          /\ fl' = fl \ {r}
          /\ UNCHANGED <<pc, wire, claimed>>
     \/ fl = {} /\ Success(version) /\ UNCHANGED <<local, fl>>
  /\ UNCHANGED <<folder, dirs, lastServer, lastLocal, version, todo>>
  /\ ClientOnly

\* An ESqliteDBException while the list is replaced is a failed restore, but no
\* failed update.  An EFilesystemException leaves the directory as it is.
LocalError ==
  /\ MayFail("disk")
  /\ \/ /\ pc \in {"clear", "insert"}
        /\ IF Restoring THEN LeaveRestore ELSE Success(version) /\ UNCHANGED todo
     \/ /\ \/ pc \in {"aside", "putback"}
           \/ Answered("version", "version") /\ wire.content > 0
           \/ Answered("start", "ok")
        /\ Fails
        /\ UNCHANGED todo
  /\ UNCHANGED <<folder, dirs, local, lastServer, lastLocal, version, fl, server, user>>

------------------------------------------------------------------------------
(* Faults.                                                                 *)

ServerFault == UNCHANGED <<pc, folder, dirs, local, client, hist, claimed, user>>

\* readMsg gives up what it has read beyond its line: the first file, when it
\* comes with the reply to the request, and any answer in a session that comes
\* with the reply to a ping.
ReadAhead ==
  /\ pc \in {"receive", "added", "removed", "stop"}
  /\ wire.to = "client"
  /\ MayFail("ahead")
  /\ wire' = NoMessage
  /\ UNCHANGED <<session, draft, changed>>
  /\ ServerFault

\* The connection breaks with a request or an answer on it.  readMsg connects
\* again and waits for the answer there.
Lose ==
  /\ wire.to # "nobody"
  /\ MayFail("lose")
  /\ wire' = NoMessage
  /\ UNCHANGED <<session, draft, changed>>
  /\ ServerFault

\* The request cannot be sent in two attempts, or is answered with an error; a
\* failed InsertNewVersion has closed the session.
RequestFails ==
  /\ wire.to = "server"
  /\ MayFail("error")
  /\ Answer("error", wire.place, 0)
  /\ \/ UNCHANGED <<session, draft, changed>>
     \/ Asked("stop") /\ CloseSession
  /\ ServerFault

Crash ==
  /\ pc # "dead"
  /\ MayFail("crash")
  /\ GoOn("dead")
  /\ UNCHANGED <<folder, dirs, local, client, server, claimed, user>>

Restart ==
  /\ pc = "dead"
  /\ GoOn("idle")
  /\ claimed' = 0
  /\ UNCHANGED <<folder, dirs, local, client, server, user, faults>>

------------------------------------------------------------------------------

Client ==
  \/ UpdateCurrentVersion \/ ReadLastVersion \/ SetAside
  \/ RestoreBegins \/ StoreFile \/ RestoreStop \/ RestoreError \/ PutBack
  \/ UpdateStarted \/ UpdateRefused \/ ProcessFile \/ FileAdded \/ FileRefused
  \/ StartRemoving \/ RemoveNext \/ FileRemoved \/ StopUpdate \/ UpdateStopped
  \/ RemoveFileList \/ InsertFileList

Environment ==
  \/ UserEdits \/ UserChangesDirectories \/ OtherDeviceCommits
  \/ RejectFile \/ LocalError \/ ReadAhead \/ Lose \/ RequestFails \/ Crash

Next == Client \/ Server \/ SessionExpires \/ Restart \/ Environment

\* The client and the server run, the timer starts the next update, the
\* application is started again, and the cleaner comes to a session that is
\* not pinged however often the client has tried to open another one.
Fairness ==
  /\ WF_vars(Client) /\ WF_vars(Server) /\ WF_vars(Restart)
  /\ SF_vars(SessionExpires)

Spec == Init /\ [][Next]_vars
FairSpec == Spec /\ Fairness

------------------------------------------------------------------------------
(* Properties.                                                             *)

\* A row of the local list is in the version it names, with its checksum: what
\* processFile takes for unchanged is on the server.
ListIsTrue ==
  \A r \in local :
    /\ r.ver \in DOMAIN hist
    /\ r.place \in DOMAIN hist[r.ver]
    /\ hist[r.ver][r.place] = r.sum

\* What the window says is true: the directory has the files of the version
\* that was stored or restored, or that did not change.
InSync == claimed # 0 => Root(folder) = Root(hist[claimed])

\* The same where the directory has a file.  Without one, but with a directory,
\* the update removes every file of the draft, the server makes no version of an
\* empty draft, and the window says that nothing has changed.
InSyncUnlessEmptied == claimed # 0 /\ folder # <<>> => Root(folder) = Root(hist[claimed])

\* What the user wrote last is in the directory, in LOCAL_NO_SYNCH or in a
\* version: no update or restore loses it.
LocalFilesKept ==
  \A f \in DOMAIN written : \E d \in 0..MaxDepth :
    \/ <<f, d>> \in DOMAIN folder /\ folder[<<f, d>>] = written[f]
    \/ \E i \in DOMAIN hist :
         <<f, d>> \in DOMAIN hist[i] /\ hist[i][<<f, d>>] = written[f]

\* What was moved to LOCAL_NO_SYNCH is not synchronized.
NoSynchStays == \A i \in DOMAIN hist : \A p \in DOMAIN hist[i] : p[2] = 0

\* The process survives a refused file.
ClientSurvives == pc # "dead"

\* An update or restore ends, with success or an error, and the timer can
\* start the next.
UpdateEnds == pc \in Working \cup {"silent"} ~> pc = "idle"

\* The client waits for an answer that readMsg has given up.
WaitsForLost ==
  /\ faults > 0
  /\ pc \in {"receive", "added", "removed", "stop"} /\ wire = NoMessage

\* An update or restore ends unless one of its answers came in the same read as
\* the line before it; nothing else keeps the client.
UpdateEndsOrWaits == pc \in Working \cup {"silent"} ~> pc = "idle" \/ WaitsForLost

\* When the user stops editing, the last version becomes the directory, as long
\* as no answer is given up.
Converges ==
  <>[](folder # <<>> /\ ~ WaitsForLost => hist # <<>> /\ folder = LastOf(hist))
================================================================================
